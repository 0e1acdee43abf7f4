--------------------------- MODULE BoardBroadcast ---------------------------
(***************************************************************************)
(* From the server's board to a client's screen.                           *)
(*                                                                         *)
(* Once a second the server's thread Sec sends the whole board, and Freq   *)
(* sends the difference each round of actions made                         *)
(* (src/src/network_server.c, model.c).  Each prepares its message under   *)
(* the lock of the game and sends it under another, so that the messages   *)
(* may leave in the other order; the multicast group may lose and reorder  *)
(* them.  The client's board thread applies what it receives, whatever its *)
(* number, and paints a copy; the chat thread paints a copy of its own     *)
(* (src/src/controller.c).                                                 *)
(*                                                                         *)
(* The numbers of the messages, which no client reads, are left out.       *)
(***************************************************************************)
EXTENDS Messages, FiniteSets

CONSTANTS
  Width, Height,   \* the dimensions of the board
  StartWidth, StartHeight,   \* those of the client's board before it gets one
  Tiles,           \* the tiles that occur; EMPTY is 0
  NbLimit,         \* 256: the number of differences is sent in a byte
  MaxChanges,      \* bound: rounds that change the board
  MaxFlight,       \* bound: datagrams under way; a sender with no room loses its own
  MaxTrouble,      \* bound: datagrams lost, or received before an earlier one
  MaxLines         \* bound: lines of chat the client receives

\* A dimension is sent in a byte.  The client starts with 100 by 100 tiles, more
\* than the game has.
ASSUME DimAssumption ==
  /\ Width \in Byte \ {0} /\ Height \in Byte \ {0}
  /\ StartWidth \in Nat /\ StartHeight \in Nat
  /\ StartWidth >= Width /\ StartHeight >= Height
  /\ <<StartWidth, StartHeight>> # <<Width, Height>>
\* The client's buffer has room for 52 by 25 tiles, more than the game has; the
\* first of larger boards would be dropped.
ASSUME RoomAssumption == Width * Height <= 52 * 25
ASSUME TilesAssumption == 0 \in Tiles /\ Tiles \subseteq Tile
ASSUME BoundsAssumption ==
  NbLimit \in 1..256 /\ MaxChanges \in Nat /\ MaxFlight \in Nat \ {0} /\ MaxTrouble \in Nat
  /\ MaxLines \in Nat

VARIABLES
  grid,      \* the board of the game
  sec,       \* Sec: where it is, and the board it is to send
  freq,      \* Freq: where it is, and the differences it is to send
  flight,    \* the datagrams under way
  board,     \* the client's game_board: its dimensions and its tiles
  painter,   \* the copies the board thread and the chat thread are to paint
  screen,    \* what was painted last
  changes, trouble, lines,   \* what the bounds count
  past,      \* what each cell of the board has been
  first,     \* the thread that prepared its message before the other did
  disturbed  \* since Sec last copied a board with nothing else to send, a
             \* message was lost, cut or overtaken

server == <<grid, sec, freq, changes, past, first>>
client == <<board, painter, screen, lines>>
vars == <<server, flight, client, trouble, disturbed>>

Cells == 1..Width * Height
Dim == [width |-> Width, height |-> Height]

\* The server's tiles in the order of the array, and a cell's coordinates.
int_to_coord(i) == [x |-> (i - 1) % Width, y |-> (i - 1) \div Width]
coord_to_int_dim(x, y, dim) == y * dim.width + x + 1

BoardMessage(g) ==
  serialize_game_board([num |-> 0, height |-> Height, width |-> Width, board |-> g])

\* The first board is sent before the threads of the match start.
Init ==
  /\ grid \in [Cells -> Tiles]
  /\ sec = [at |-> "sleep", copy |-> <<>>]
  /\ freq = [at |-> "wait", diff |-> <<>>]
  /\ flight = <<BoardMessage(grid)>>
  /\ board = [dim |-> [width |-> StartWidth, height |-> StartHeight],
              grid |-> [i \in 1..StartWidth * StartHeight |-> 0]]
  /\ painter = [board |-> NULL, chat |-> NULL]
  /\ screen = NULL
  /\ changes = 0 /\ trouble = 0 /\ lines = 0
  /\ past = [i \in Cells |-> {grid[i]}]
  /\ first = "none" /\ disturbed = FALSE

-----------------------------------------------------------------------------
(* The server. *)

\* What moves and bombs make of the board is GameModel's business.
ChangeBoard ==
  /\ \/ grid' = grid /\ UNCHANGED changes
     \/ changes < MaxChanges /\ changes' = changes + 1
        /\ grid' \in [Cells -> Tiles] \ {grid}
  /\ past' = [i \in Cells |-> past[i] \cup {grid'[i]}]

\* Whether a message that is ready overtakes the other thread's.
Overtakes(thread) == first \notin {"none", thread}

Send(message, harmed) ==
  IF Len(flight) < MaxFlight
  THEN flight' = Append(flight, message) /\ disturbed' = (disturbed \/ harmed)
  ELSE UNCHANGED flight /\ disturbed' = TRUE

SecBombs ==
  /\ sec.at = "sleep" /\ sec' = [sec EXCEPT !.at = "bombs"]
  /\ ChangeBoard
  /\ UNCHANGED <<freq, first, flight, client, trouble, disturbed>>

\* get_game_board, under the lock of the game again.
SecCopies ==
  /\ sec.at = "bombs" /\ sec' = [at |-> "send", copy |-> grid]
  /\ IF freq.at = "wait" THEN first' = "sec" /\ disturbed' = FALSE
                         ELSE UNCHANGED <<first, disturbed>>
  /\ UNCHANGED <<grid, freq, changes, past, flight, client, trouble>>

send_game_board ==
  /\ sec.at = "send" /\ sec' = [at |-> "sleep", copy |-> <<>>]
  /\ Send(BoardMessage(sec.copy), Overtakes("sec"))
  /\ first' = IF freq.at = "send" THEN "freq" ELSE "none"
  /\ UNCHANGED <<grid, freq, changes, past, client, trouble>>

Changed(before, after) == {i \in Cells : before[i] # after[i]}

\* The k-th position of a set of them.
Nth(positions, k) ==
  CHOOSE i \in positions : Cardinality({j \in positions : j <= i}) = k

tile_diff(i, tiles) ==
  [x |-> int_to_coord(i).x, y |-> int_to_coord(i).y, tile |-> tiles[i]]

\* Plausible mistake: the tile that was there is sent.
DiffBackwards(before, after) ==
  LET changed == Changed(before, after)
  IN  [k \in 1..Cardinality(changed) |-> tile_diff(Nth(changed, k), before)]

\* The positions that changed, in the order of the array, with their new tiles.
get_diff_with_board(before, after) ==
  LET changed == Changed(before, after)
  IN  [k \in 1..Cardinality(changed) |-> tile_diff(Nth(changed, k), after)]

\* The actions of a round and the bombs, with the board before and after them,
\* under one lock.  Nothing is sent when nothing changed.
update_game_board ==
  /\ freq.at = "wait"
  /\ ChangeBoard /\ grid' # grid
  /\ freq' = [at |-> "send", diff |-> get_diff_with_board(grid, grid')]
  /\ first' = IF sec.at = "send" THEN "sec" ELSE "freq"
  /\ UNCHANGED <<sec, flight, client, trouble, disturbed>>

send_game_update ==
  /\ freq.at = "send" /\ freq' = [at |-> "wait", diff |-> <<>>]
  /\ LET nb == Len(freq.diff) % NbLimit
     IN  Send(serialize_game_board_update([num |-> 0, nb |-> nb, diff |-> freq.diff]),
              Overtakes("freq") \/ nb < Len(freq.diff))
  /\ first' = IF sec.at = "send" THEN "sec" ELSE "none"
  /\ UNCHANGED <<grid, sec, changes, past, client, trouble>>

-----------------------------------------------------------------------------
(* The network and the client. *)

Drop(seq, k) == SubSeq(seq, 1, k - 1) \o SubSeq(seq, k + 1, Len(seq))

Lose(k) ==
  /\ trouble < MaxTrouble /\ trouble' = trouble + 1
  /\ flight' = Drop(flight, k) /\ disturbed' = TRUE
  /\ UNCHANGED <<server, client>>

\* Plausible mistake: the dimensions stay those the client started with.
GridOnly(b, info) ==
  [dim |-> b.dim, grid |-> [i \in DOMAIN b.grid |->
     IF i \in DOMAIN info.board THEN info.board[i] ELSE b.grid[i]]]

\* Plausible mistake: the copy stops a tile early.
AllButTheLast(b, info) ==
  [dim |-> [width |-> info.width, height |-> info.height],
   grid |-> [i \in DOMAIN info.board |-> IF i < Len(info.board) THEN info.board[i] ELSE 0]]

update_board(b, info) ==
  [dim |-> [width |-> info.width, height |-> info.height], grid |-> info.board]

\* At each position the last difference wins.
update_tile_diff(b, update) ==
  [b EXCEPT !.grid = [i \in DOMAIN b.grid |->
     LET here == {k \in 1..update.nb :
                    coord_to_int_dim(update.diff[k].x, update.diff[k].y, b.dim) = i}
     IN  IF here = {} THEN b.grid[i]
         ELSE update.diff[CHOOSE k \in here : \A j \in here : j <= k].tile]]

\* recv_game_message, and its message applied under the lock of the board.
Applied(b, bytes) ==
  IF deserialize_game_board(bytes) # NULL
  THEN update_board(b, deserialize_game_board(bytes))
  ELSE update_tile_diff(b, deserialize_game_board_update(bytes))

\* The board thread receives a datagram, the first one or another.  The copy it
\* will paint (get_board) is made under the lock again, and nobody else changes
\* the board meanwhile.
Receive(k) ==
  /\ painter.board = NULL
  /\ k > 1 => trouble < MaxTrouble
  /\ trouble' = IF k > 1 THEN trouble + 1 ELSE trouble
  /\ disturbed' = (disturbed \/ k > 1)
  /\ board' = Applied(board, flight[k])
  /\ flight' = Drop(flight, k)
  /\ painter' = [painter EXCEPT !.board = board']
  /\ UNCHANGED <<server, screen, lines>>

\* The chat thread has a line to show, and copies the board.
ChatCopies ==
  /\ painter.chat = NULL /\ lines < MaxLines
  /\ lines' = lines + 1
  /\ painter' = [painter EXCEPT !.chat = board]
  /\ UNCHANGED <<server, flight, board, screen, trouble, disturbed>>

\* refresh_game, under view_mutex.
refresh_game(thread) ==
  /\ painter[thread] # NULL
  /\ screen' = painter[thread]
  /\ painter' = [painter EXCEPT ![thread] = NULL]
  /\ UNCHANGED <<server, flight, board, lines, trouble, disturbed>>

-----------------------------------------------------------------------------

Sec == SecBombs \/ SecCopies \/ send_game_board
Freq == update_game_board \/ send_game_update
BoardThread == (flight # <<>> /\ Receive(1)) \/ refresh_game("board")
ChatThread == ChatCopies \/ refresh_game("chat")

Next ==
  \/ Sec \/ Freq \/ BoardThread \/ ChatThread
  \/ \E k \in 1..Len(flight) : Lose(k) \/ Receive(k)

Spec == Init /\ [][Next]_vars

\* Every thread runs, and the network delivers.
FairSpec ==
  Spec /\ WF_vars(Sec) /\ WF_vars(send_game_update) /\ WF_vars(BoardThread)
       /\ WF_vars(refresh_game("chat"))

-----------------------------------------------------------------------------
(* Properties. *)

Shows(b) == b.dim = Dim /\ b.grid = grid

\* A cell on the screen shows what that cell of the game has been, even when
\* datagrams are lost, late, cut or out of order: no tile lands elsewhere.
ShownIsPast ==
  screen # NULL /\ screen.dim = Dim => \A i \in Cells : screen.grid[i] \in past[i]

\* When nothing is on its way the client has the board of the game: between them
\* the boards and the differences carry every change.  Unless, since the last
\* board Sec copied with no difference waiting, something was lost or cut, or
\* left or came in another order than it was made.
QuietIsRight ==
  /\ flight = <<>> /\ sec.at = "sleep" /\ freq.at = "wait"
  /\ ~disturbed
  => Shows(board)

\* Once the board of the game stops changing the screen comes to show it and
\* goes on to, whatever was lost or disordered before, and whichever thread
\* paints.
CaughtUp == <>[](screen # NULL /\ Shows(screen))
=============================================================================
