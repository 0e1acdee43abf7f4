----------------------------- MODULE MatchStart -----------------------------
(***************************************************************************)
(* From the lobby to the first board: connect_one_player_to_game in the    *)
(* main thread, serve_client_tcp in one thread per player, and the two     *)
(* barriers between them (src/src/network_server.c).                       *)
(*                                                                         *)
(* The join counter is shared with the main thread, which writes it        *)
(* without the lock: its increment is a load, a store and, at -O0, a       *)
(* second load for the test.  Once the counter is freed its value is not   *)
(* followed any more: what a thread reads there is arbitrary.  The ready   *)
(* counter is only touched under its lock, so each arrival at the second   *)
(* barrier is one step.                                                    *)
(*                                                                         *)
(* Neither pthread_cond_wait is in a loop: a waiter may also go on         *)
(* without a broadcast (SpuriousJoin, SpuriousReady).                      *)
(***************************************************************************)
EXTENDS Integers, FiniteSets

CONSTANTS
  PlayerNum,   \* PLAYER_NUM of constants.h
  Leavers      \* the players whose client may close its connection

Player == 0..PlayerNum - 1

ASSUME PlayerNumAssumption == PlayerNum \in Nat \ {0}
ASSUME LeaversAssumption == Leavers \subseteq Player

VARIABLES
  next,        \* connected_solo_players: clients the main thread has placed
  connected,   \* *connected_players, 0 once it is freed
  reg,         \* what each thread loaded from it
  released,    \* connected_players is freed and the first barrier open
  pc,          \* where each thread of serve_client_tcp is
  ready,       \* *ready_player_number
  started,     \* the first board is sent and the game threads run
  sock,        \* the players whose sock_clients[i] is not -1
  conn,        \* each client's side of its TCP connection
  dead,        \* the players set_player_dead was called for
  killed       \* the process has aborted

vars == <<next, connected, reg, released, pc, ready, started, sock, conn,
          dead, killed>>

-----------------------------------------------------------------------------
(* Program counters of serve_client_tcp. *)

Unborn   == {"none"}
Joining  == {"join", "store"}            \* not counted at the first barrier
InJoin   == {"store", "test"}            \* holds lock_waiting_all_players_join
Prepares == {"info", "poll", "timedOut", "spin", "ready"}
AtReady  == {"readyWait", "serve"}       \* counted at the second barrier
Place == Unborn \cup Joining \cup InJoin \cup {"joinWait"} \cup Prepares \cup AtReady

Goto(p, to) == pc' = [pc EXCEPT ![p] = to]
JoinLocked == \E p \in Player : pc[p] \in InJoin

Init ==
  /\ next = 0
  /\ connected = 0
  /\ reg = [p \in Player |-> 0]
  /\ released = FALSE
  /\ pc = [p \in Player |-> "none"]
  /\ ready = 0
  /\ started = FALSE
  /\ sock = {}
  /\ conn = [p \in Player |-> "up"]
  /\ dead = {}
  /\ killed = FALSE

Write(v) == connected' = IF released THEN 0 ELSE v

-----------------------------------------------------------------------------
(* The main thread. *)

\* Plausible mistake: the counter is cleared at each connection.
ConnectClearingCounter ==
  /\ next < PlayerNum
  /\ next' = next + 1
  /\ sock' = sock \cup {next}
  /\ Write(0)
  /\ Goto(next, "join")
  /\ UNCHANGED <<reg, released, ready, started, conn, dead, killed>>

\* Plausible mistake: the thread about to run is counted too.
ConnectCountingOneMore ==
  /\ next < PlayerNum
  /\ next' = next + 1
  /\ sock' = sock \cup {next}
  /\ Write(next + 1)
  /\ Goto(next, "join")
  /\ UNCHANGED <<reg, released, ready, started, conn, dead, killed>>

\* The counter is overwritten with the number of players placed before this
\* one, whatever the threads have made of it; no lock is taken.
Connect ==
  /\ next < PlayerNum
  /\ next' = next + 1
  /\ sock' = sock \cup {next}
  /\ Write(next)
  /\ Goto(next, "join")
  /\ UNCHANGED <<reg, released, ready, started, conn, dead, killed>>

-----------------------------------------------------------------------------
(* The first barrier. *)

JoinLoad(p) ==
  /\ pc[p] = "join" /\ ~JoinLocked
  /\ reg' = [reg EXCEPT ![p] = connected]
  /\ Goto(p, "store")
  /\ UNCHANGED <<next, connected, released, ready, started, sock, conn, dead, killed>>

JoinStore(p) ==
  /\ pc[p] = "store"
  /\ Write(reg[p] + 1)
  /\ reg' = [reg EXCEPT ![p] = 0]
  /\ Goto(p, "test")
  /\ UNCHANGED <<next, released, ready, started, sock, conn, dead, killed>>

\* free(connected_players) and pthread_cond_broadcast.
Release(p) ==
  /\ released' = TRUE
  /\ connected' = 0
  /\ pc' = [q \in Player |-> IF q = p \/ pc[q] = "joinWait" THEN "info" ELSE pc[q]]
  /\ UNCHANGED <<next, reg, ready, started, sock, conn, dead, killed>>

Abort == killed' = TRUE /\ UNCHANGED <<next, connected, reg, released, pc, ready,
                                        started, sock, conn, dead>>

\* A second free is caught by the allocator, unless the block is in use again.
DoubleFree(p) == Abort \/ Release(p)

JoinWait(p) ==
  /\ Goto(p, "joinWait")
  /\ UNCHANGED <<next, connected, reg, released, ready, started, sock, conn, dead, killed>>

\* Plausible mistake: the counter has to pass PLAYER_NUM.
JoinTestBeyond(p) ==
  /\ pc[p] = "test"
  /\ IF released
     THEN JoinWait(p) \/ DoubleFree(p)
     ELSE IF connected > PlayerNum THEN Release(p) ELSE JoinWait(p)

\* After the free, an arbitrary value is compared with PLAYER_NUM.
JoinTest(p) ==
  /\ pc[p] = "test"
  /\ IF released
     THEN JoinWait(p) \/ DoubleFree(p)
     ELSE IF connected = PlayerNum THEN Release(p) ELSE JoinWait(p)

SpuriousJoin(p) ==
  /\ pc[p] = "joinWait"
  /\ Goto(p, "info")
  /\ UNCHANGED <<next, connected, reg, released, ready, started, sock, conn, dead, killed>>

-----------------------------------------------------------------------------
(* Between the barriers. *)

\* Sending on a connection the client has closed brings back a reset.
SendInfo(p) ==
  /\ pc[p] = "info"
  /\ Goto(p, "poll")
  /\ conn' = [conn EXCEPT ![p] = IF @ = "closed" THEN "reset" ELSE @]
  /\ UNCHANGED <<next, connected, reg, released, ready, started, sock, dead, killed>>

\* poll answers and the header is read.
ReadHeader(p) ==
  /\ pc[p] = "poll"
  /\ Goto(p, "ready")
  /\ UNCHANGED <<next, connected, reg, released, ready, started, sock, conn, dead, killed>>

\* poll answers because the client has closed: recv returns 0, and
\* recv_connexion_header_raw calls it again for ever.
ReadEndOfFile(p) ==
  /\ pc[p] = "poll" /\ conn[p] = "closed"
  /\ Goto(p, "spin")
  /\ UNCHANGED <<next, connected, reg, released, ready, started, sock, conn, dead, killed>>

\* Nothing came for a minute.
PollTimeout(p) ==
  /\ pc[p] = "poll" /\ conn[p] = "up"
  /\ dead' = dead \cup {p}
  /\ Goto(p, "timedOut")
  /\ UNCHANGED <<next, connected, reg, released, ready, started, sock, conn, killed>>

\* Plausible mistake: the thread of a silent client skips the second barrier.
DropSilentThread(p) ==
  /\ pc[p] = "timedOut"
  /\ sock' = sock \ {p}
  /\ Goto(p, "serve")
  /\ UNCHANGED <<next, connected, reg, released, ready, started, conn, dead, killed>>

DropSilentClient(p) ==
  /\ pc[p] = "timedOut"
  /\ sock' = sock \ {p}
  /\ Goto(p, "ready")
  /\ UNCHANGED <<next, connected, reg, released, ready, started, conn, dead, killed>>

-----------------------------------------------------------------------------
(* The second barrier. *)

\* Plausible mistake: the counter is compared before it is incremented by the
\* thread itself, as the place of the last player.
StartsOneEarly(p) ==
  /\ pc[p] = "ready"
  /\ ready' = ready + 1
  /\ IF ready' = PlayerNum - 1
     THEN /\ started' = TRUE
          /\ pc' = [q \in Player |-> IF q = p \/ pc[q] = "readyWait" THEN "serve" ELSE pc[q]]
     ELSE Goto(p, "readyWait") /\ UNCHANGED started
  /\ UNCHANGED <<next, connected, reg, released, sock, conn, dead, killed>>

\* The last thread sends the board, creates the game threads and broadcasts.
ReadyArrive(p) ==
  /\ pc[p] = "ready"
  /\ ready' = ready + 1
  /\ IF ready' = PlayerNum
     THEN /\ started' = TRUE
          /\ pc' = [q \in Player |-> IF q = p \/ pc[q] = "readyWait" THEN "serve" ELSE pc[q]]
     ELSE Goto(p, "readyWait") /\ UNCHANGED started
  /\ UNCHANGED <<next, connected, reg, released, sock, conn, dead, killed>>

SpuriousReady(p) ==
  /\ pc[p] = "readyWait"
  /\ Goto(p, "serve")
  /\ UNCHANGED <<next, connected, reg, released, ready, started, sock, conn, dead, killed>>

-----------------------------------------------------------------------------
(* The clients.  Closing with data unread resets the connection.  What a   *)
(* client does after its header is read is left to MatchEnd.               *)

ClientCloses(p) ==
  /\ p \in Leavers /\ conn[p] = "up"
  /\ pc[p] \in Joining \cup InJoin \cup {"joinWait", "info", "poll"}
  /\ \E c \in {"closed", "reset"} : conn' = [conn EXCEPT ![p] = c]
  /\ UNCHANGED <<next, connected, reg, released, pc, ready, started, sock, dead, killed>>

-----------------------------------------------------------------------------

serve_client_tcp(p) ==
  \/ JoinLoad(p) \/ JoinStore(p) \/ JoinTest(p)
  \/ SendInfo(p)
  \/ ReadHeader(p) \/ ReadEndOfFile(p) \/ PollTimeout(p) \/ DropSilentClient(p)
  \/ ReadyArrive(p)

Next ==
  /\ ~killed
  /\ \/ Connect
     \/ \E p \in Player : \/ serve_client_tcp(p)
                          \/ SpuriousJoin(p) \/ SpuriousReady(p)
                          \/ ClientCloses(p)

Spec == Init /\ [][Next]_vars

\* Every thread that can run does; clients come as they please, and poll
\* answers or runs out of time.
Fairness == \A p \in Player : WF_vars(~killed /\ serve_client_tcp(p))
FairSpec == Spec /\ Fairness

-----------------------------------------------------------------------------
(* Properties. *)

\* Types, and the two counters of the barriers within their ranges.
TypeOK ==
  /\ next \in 0..PlayerNum
  /\ connected \in 0..PlayerNum
  /\ reg \in [Player -> 0..PlayerNum - 1]
  /\ released \in BOOLEAN
  /\ pc \in [Player -> Place]
  /\ ready \in 0..PlayerNum
  /\ started \in BOOLEAN
  /\ sock \subseteq Player
  /\ conn \in [Player -> {"up", "closed", "reset"}]
  /\ dead \subseteq Player
  /\ killed \in BOOLEAN

Counted == {p \in Player : pc[p] \notin Unborn \cup Joining}

\* For all that the main thread overwrites the counter while threads add to
\* it, no arrival is lost: the counter never falls below the number of threads
\* that have added themselves.
JoinsCounted == ~released => connected >= Cardinality(Counted)

\* So the first barrier always opens: all the threads are never all past their
\* test of the counter without one of them having released the others.
BarrierOpens ==
  (\A p \in Player : pc[p] \notin Unborn \cup Joining \cup InJoin) => released

\* The match starts only when every player is served, and the players without
\* a socket at that time are exactly those who ran out of time, already dead.
StartsWithEveryone ==
  started => \A p \in Player : pc[p] = "serve" /\ (p \in sock <=> p \notin dead)

Late == \E p \in Player : released /\ pc[p] = "joinWait"
Spinning == \E p \in Player : pc[p] = "spin"

\* Once four clients are placed the match starts, unless a thread came to the
\* first barrier after its counter was freed, or is stuck on a closed client.
MatchStartsUnlessStuck ==
  (next = PlayerNum) ~> (started \/ killed \/ Late \/ Spinning)
=============================================================================
