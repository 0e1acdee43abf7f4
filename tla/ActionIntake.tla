---------------------------- MODULE ActionIntake ----------------------------
(***************************************************************************)
(* From a key press to update_game_board: the numbered datagrams of the    *)
(* clients (controller.c), the pool serv_client_recv_game_action fills and *)
(* the selection serve_clients_send_mult_freq makes of it every FREQ       *)
(* microseconds (src/src/network_server.c).                                *)
(*                                                                         *)
(* A message is known here by its serial, the count of the messages its    *)
(* client sent before it; the number on the wire is the serial modulo      *)
(* ClientLimit.  The network, when it has faults, loses, duplicates and    *)
(* reorders messages, and forgets those that are more than Delay behind.   *)
(*                                                                         *)
(* A round of Freq takes one step per iteration of its loops, as messages  *)
(* come in meanwhile.                                                      *)
(***************************************************************************)
EXTENDS Integers, Sequences, FiniteSetsExt, Functions

CONSTANTS
  ServerLimit,   \* LIMIT_LAST_NUM_MESSAGE_CLIENT
  ClientLimit,   \* the client counts its messages modulo 1 << 13
  Player,        \* the players of the match
  BombSenders,   \* those who place bombs
  Starts,        \* the serials of a client's first message that is not lost
  Delay,         \* bound: how far behind the newest message one may arrive
  Faults,        \* whether messages may be lost, reordered or duplicated
  MaxSent,       \* bound: messages sent in all
  MaxPool        \* bound: messages waiting in the pool

ASSUME LimitAssumption == ServerLimit \in Nat \ {0} /\ ClientLimit \in Nat \ {0}
ASSUME PlayersAssumption == Player \subseteq 0..3 /\ BombSenders \subseteq Player
\* A message that is late by less than the part of the circle the window leaves
\* out is known to be old: 2046 messages with the limits of the code.
ASSUME DelayAssumption ==
  /\ Delay + ServerLimit \div 2 + 2 <= ServerLimit
  /\ Delay + ServerLimit <= ClientLimit
ASSUME NetworkAssumption ==
  /\ Starts \subseteq Nat /\ Faults \in BOOLEAN
  /\ Delay \in Nat /\ MaxSent \in Nat /\ MaxPool \in Nat

VARIABLES
  sent,     \* the serial of each client's next message
  begun,    \* its value at the start
  network,  \* messages on their way
  pool,     \* data->game_actions
  round,    \* where Freq is: "idle", "copied", "select"
  due,      \* the messages of the round, as they were copied
  taken,    \* the copy Freq sorts and examines
  todo,     \* the ranges of it to sort, the one being partitioned first
  left,     \* how many messages of it are to be examined
  last,     \* last_num_received_messages
  out,      \* what the round has chosen, then passed to update_game_board
  passed,   \* the serial of the newest move passed so far of each player, or -1
  killed    \* a memory error the process is followed no further after

clients == <<sent, begun, network>>
roundVars == <<due, taken, todo, left, last, out>>
intakeVars == <<clients, pool, round, roundVars, passed, killed>>

Action(p) == {"MOVE"} \cup (IF p \in BombSenders THEN {"PLACE_BOMB"} ELSE {})
Message == [id : Player, serial : Nat, action : {"MOVE", "PLACE_BOMB"}]
message_number(m) == m.serial % ClientLimit

Nothing == [moves |-> <<>>, bombs |-> <<>>, garbage |-> 0]

IntakeInit ==
  /\ begun \in [Player -> Starts]
  /\ sent = begun
  /\ network = {}
  /\ pool = <<>>
  /\ round = "idle"
  /\ due = {} /\ taken = <<>> /\ todo = <<>> /\ left = 0
  /\ last = [p \in Player |-> ServerLimit - 1]
  /\ out = Nothing
  /\ passed = [p \in Player |-> -1]
  /\ killed = FALSE

-----------------------------------------------------------------------------
(* The clients and the network. *)

Behind(m) == m.serial < sent[m.id] - Delay
SentInAll == MapThenSumSet(LAMBDA q : sent[q] - begun[q], Player)

Send(p) ==
  /\ SentInAll < MaxSent
  /\ ~Faults => \A m \in network : ~Behind(m)
  /\ \E a \in Action(p) :
        network' = {m \in network : m.id = p => ~Behind(m)}
                     \cup {[id |-> p, serial |-> sent[p], action |-> a]}
  /\ sent' = [sent EXCEPT ![p] = @ + 1]
  /\ UNCHANGED <<begun, pool, round, roundVars, passed, killed>>

Lose(m) ==
  /\ Faults
  /\ network' = network \ {m}
  /\ UNCHANGED <<sent, begun, pool, round, roundVars, passed, killed>>

Oldest(m) == \A n \in network : n.id = m.id => n.serial >= m.serial

\* serv_client_recv_game_action: the message joins the pool.
Receive(m) ==
  /\ Len(pool) < MaxPool
  /\ ~Faults => Oldest(m)
  /\ pool' = Append(pool, m)
  /\ network' \in {network \ {m}} \cup (IF Faults THEN {network} ELSE {})
  /\ UNCHANGED <<sent, begun, round, roundVars, passed, killed>>

-----------------------------------------------------------------------------
(* Which numbers come next. *)

\* Plausible mistake: the window is the whole circle.
is_other_message(lastNum, num) == num < ServerLimit /\ num # lastNum

\* Half the circle after the last number, both bounds included when the window
\* wraps.  Numbers from ServerLimit on are never next.
is_next_message(lastNum, num) ==
  LET justAfter == (lastNum + 1) % ServerLimit
      limitNext == (lastNum + 1 + ServerLimit \div 2) % ServerLimit
  IN  IF justAfter < limitNext
      THEN num \in justAfter..limitNext - 1
      ELSE num \in justAfter..ServerLimit - 1 \/ num <= limitNext

-----------------------------------------------------------------------------
(* The start of a round of Freq. *)

\* The pool is copied and emptied under lock_game_actions.
Copy ==
  /\ round = "idle" /\ pool # <<>>
  /\ taken' = pool /\ due' = Range(pool)
  /\ pool' = <<>>
  /\ round' = "copied"
  /\ out' = Nothing
  /\ UNCHANGED <<clients, todo, left, last, passed, killed>>

\* A range to sort, and the loop of its partition about to begin.
ToSort(start, end) ==
  IF start < end THEN <<[start |-> start, end |-> end, i |-> start, j |-> start]>> ELSE <<>>

\* The sort is given the number of messages in the pool, read again without
\* the lock: those that came since the copy.  More than were copied, and it
\* sorts what lies past the end of the copy.
game_actions_sort ==
  /\ round = "copied"
  /\ IF Len(pool) > Len(taken)
     THEN killed' = TRUE /\ UNCHANGED <<round, todo, left>>
     ELSE /\ round' = "select"
          /\ todo' = ToSort(1, Len(pool))
          /\ left' = Len(taken)
          /\ UNCHANGED killed
  /\ UNCHANGED <<clients, pool, due, taken, last, out, passed>>

-----------------------------------------------------------------------------
(* The sort.  The partition leaves out the element before the pivot, and   *)
(* compares messages of one player only.                                   *)

Swap(s, i, j) == [s EXCEPT ![i] = s[j], ![j] = s[i]]
Distance(a, b) == IF a >= b THEN a - b ELSE b - a
IsNext(m) == is_next_message(last[m.id], message_number(m))

StaysPut(m, pivot) ==
  \/ m.id # pivot.id
  \/ ~IsNext(pivot) /\ IsNext(m)
  \/ Distance(last[pivot.id], message_number(pivot))
       <= Distance(last[m.id], message_number(m))

\* The loop of the partition, once.
game_action_partition ==
  /\ round = "select" /\ todo # <<>>
  /\ LET r == Head(todo)
     IN  /\ r.i < r.end - 1
         /\ IF StaysPut(taken[r.i], taken[r.end])
            THEN /\ todo' = <<[r EXCEPT !.i = @ + 1]>> \o Tail(todo)
                 /\ UNCHANGED taken
            ELSE /\ todo' = <<[r EXCEPT !.i = @ + 1, !.j = @ + 1]>> \o Tail(todo)
                 /\ taken' = Swap(taken, r.i, r.j)
  /\ UNCHANGED <<clients, pool, round, due, left, last, out, passed, killed>>

\* Plausible mistake: the pivot overwrites what is in its place.
SortLosingOne ==
  /\ round = "select" /\ todo # <<>>
  /\ LET r == Head(todo)
     IN  /\ r.i >= r.end - 1
         /\ taken' = [taken EXCEPT ![r.j] = taken[r.end]]
         /\ todo' = ToSort(r.start, r.j - 1) \o ToSort(r.j + 1, r.end) \o Tail(todo)
  /\ UNCHANGED <<clients, pool, round, due, left, last, out, passed, killed>>

\* The pivot is put in its place, and what lies on each side of it is sorted.
game_action_quick_sort ==
  /\ round = "select" /\ todo # <<>>
  /\ LET r == Head(todo)
     IN  /\ r.i >= r.end - 1
         /\ taken' = Swap(taken, r.j, r.end)
         /\ todo' = ToSort(r.start, r.j - 1) \o ToSort(r.j + 1, r.end) \o Tail(todo)
  /\ UNCHANGED <<clients, pool, round, due, left, last, out, passed, killed>>

-----------------------------------------------------------------------------
(* The selection, from the last message to the first. *)

Has(actions, p) == \E i \in DOMAIN actions : actions[i].id = p

\* The first move and the first bomb of a player fix the last number, unless
\* the other kind has already.
TakeMove(m) ==
  /\ out' = [out EXCEPT !.moves = Append(@, m)]
  /\ last' = [last EXCEPT ![m.id] = IF Has(out.bombs, m.id) THEN @ ELSE message_number(m)]

TakeBomb(m) ==
  /\ out' = [out EXCEPT !.bombs = Append(@, m)]
  /\ last' = [last EXCEPT ![m.id] = IF Has(out.moves, m.id) THEN @ ELSE message_number(m)]

\* Plausible mistake: a second move of a player is kept too.
ConsiderEveryMove(m) ==
  IF IsNext(m) /\ m.action = "MOVE" THEN TakeMove(m)
  ELSE IF IsNext(m) /\ m.action = "PLACE_BOMB" /\ ~Has(out.bombs, m.id) THEN TakeBomb(m)
  ELSE UNCHANGED <<out, last>>

Consider(m) ==
  IF IsNext(m) /\ m.action = "MOVE" /\ ~Has(out.moves, m.id) THEN TakeMove(m)
  ELSE IF IsNext(m) /\ m.action = "PLACE_BOMB" /\ ~Has(out.bombs, m.id) THEN TakeBomb(m)
  ELSE UNCHANGED <<out, last>>

get_player_actions ==
  /\ round = "select" /\ todo = <<>> /\ left > 0
  /\ Consider(taken[left])
  /\ left' = left - 1
  /\ UNCHANGED <<clients, pool, round, due, taken, todo, passed, killed>>

\* The bombs are copied past the end of the merged array: their places hold
\* whatever was there, and the heap may be corrupted.
merge_player_moves_and_place_bomb ==
  IF out.moves # <<>> /\ out.bombs # <<>>
  THEN out' = [out EXCEPT !.bombs = <<>>, !.garbage = Len(out.bombs)] /\ killed' \in BOOLEAN
  ELSE UNCHANGED <<out, killed>>

\* What was chosen is passed to update_game_board.
Pass ==
  /\ round = "select" /\ todo = <<>> /\ left = 0
  /\ merge_player_moves_and_place_bomb
  /\ passed' = [p \in Player |->
       Max({passed[p]} \cup {m.serial : m \in {n \in Range(out.moves) : n.id = p}})]
  /\ round' = "idle" /\ taken' = <<>> /\ due' = {}
  /\ UNCHANGED <<clients, pool, todo, left, last>>

-----------------------------------------------------------------------------

IntakeNext ==
  /\ ~killed
  /\ \/ \E p \in Player : Send(p)
     \/ \E m \in network : Lose(m) \/ Receive(m)
     \/ Copy \/ game_actions_sort
     \/ game_action_partition \/ game_action_quick_sort
     \/ get_player_actions \/ Pass

IntakeSpec == IntakeInit /\ [][IntakeNext]_intakeVars

-----------------------------------------------------------------------------
(* Properties. *)

\* Types; each player is in the arrays of moves and of bombs once at most, so
\* that these, of PLAYER_NUM places each, are never overrun; and the partition
\* stays within the copy.
TypeOK ==
  /\ sent \in [Player -> Nat]
  /\ network \subseteq Message
  /\ pool \in Seq(Message)
  /\ round \in {"idle", "copied", "select"}
  /\ due \subseteq Message /\ taken \in Seq(Message) /\ left \in 0..Len(taken)
  /\ todo \in Seq([start : Nat, end : Nat, i : Nat, j : Nat])
  /\ \A k \in DOMAIN todo : LET r == todo[k]
                            IN  /\ 1 <= r.start /\ r.start <= r.j /\ r.j <= r.i
                                /\ r.i < r.end /\ r.end <= Len(taken)
  /\ last \in [Player -> 0..ServerLimit - 1]
  /\ out \in [moves : Seq(Message), bombs : Seq(Message), garbage : Nat]
  /\ \A chosen \in {out.moves, out.bombs} : \A i, j \in DOMAIN chosen :
        chosen[i].id = chosen[j].id => i = j
  /\ passed \in [Player -> Nat \cup {-1}]
  /\ killed \in BOOLEAN

Passes == round = "select" /\ round' = "idle" /\ ~killed'

\* The moves of a player who places no bomb are passed in the order they were
\* sent, each at most once, whatever the network does to them.
MovesGoForward ==
  [][Passes => \A m \in Range(out'.moves) :
        m.id \notin BombSenders => m.serial > passed[m.id]]_intakeVars

\* Within half the circle of the last one taken, with a number the server knows.
Fresh(m) ==
  /\ m.serial - passed[m.id] \in 1..ServerLimit \div 2
  /\ message_number(m) < ServerLimit

OnlyBombs == \A m \in due : m.action # "MOVE"

\* A round with a fresh move of a player who places no bomb makes the player
\* advance, whatever else was copied and however it was sorted.  It may be by an
\* older move: a sort of two messages exchanges them.  A round with no move of
\* anybody takes a bomb of each player, unless none of its bombs is next; a move
\* would take the bomb's number out of the window, or its place.
FreshRequestTaken ==
  [][Passes => \A m \in due :
        /\ m.id \notin BombSenders /\ Fresh(m) => passed'[m.id] > passed[m.id]
        /\ m.action = "PLACE_BOMB" /\ OnlyBombs => Has(out'.bombs, m.id) \/ ~IsNext(m)]_intakeVars

Latest(m) == \A n \in due : n.id = m.id => n.serial <= m.serial

\* The comment of LIMIT_LAST_NUM_MESSAGE_CLIENT, "2^13", and sujet.pdf: every
\* number the clients use is known, so with a perfect network the latest
\* request of a player is taken.
LatestRequestTaken ==
  [][Passes => \A m \in due : Latest(m) => m \in Range(out'.moves)]_intakeVars
=============================================================================
