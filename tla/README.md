# A TLA+ development for C-Network-Bomberman

This directory specifies the Bomberman game in `src/`, its server and its
client, in TLA+, checks the specifications with TLC on small instances and
proves the most important results for every instance with TLAPS.

The program is a C server for several matches of four players, and an ncurses
client. A match is a set of threads that share one `game` structure, a few
counters and flags with a lock each, and the sockets of its four clients. Most
of what can go wrong is in how these threads start, meet and stop, in numbers
and arrays that several of them read and write, and in what two programs make
of bytes that come in parts, late, or not at all.

## 1. Inventory

| Component | State | Operations | What makes it correct | Modelled in |
|---|---|---|---|---|
| Game model (`model.c`) | board, players, bomb array | `update_game_board`, `update_bombs`, `set_player_dead`, `is_game_over` | board, array and players agree; walls stand; every bomb explodes; the rules of the game | `GameModel`, `BombermanRules`, `ExplosionLoops` |
| Games table (`model.c` 42-111) | array of games, size, capacity | `init_model`, `add_game`, `remove_game` | an id denotes one live game until it is removed | `GamesTable`, `GamePool` |
| Lobby (`network_server.c` 662-682, 1356-1472) | polled array, counters of placed players, the match of each mode that fills | `connect_players_to_game`, `connect_one_player_to_game` | each client joins one match, of its mode, with a game of its own | `Lobby` |
| Start barriers (1161-1191, 1311-1345) | join counter, ready counter, two condition variables | `serve_client_tcp` | nobody is lost, nobody starts alone, nobody waits for ever | `MatchStart` |
| TCP player threads (1193-1309) | `sock_clients`, number of threads that left, finished flag | `handle_tcp_communication`, `handle_game_over` | they all leave; the last one closes; the right winner | `MatchEnd`; byte by byte in `Wire` |
| Match threads (740-852, 1023-1100) | finished flag, number of stopped threads, message number | receive, once a second, every 50 ms | they stop, in an order in which nobody uses what is freed; the board reaches the clients | `MatchEnd`, `ActionIntake`, `BoardBroadcast` |
| Action intake (709-735, 857-1021) | pool of datagrams, last number per player | receive, copy, sort, select, merge | latest move and one bomb per player and round, old messages ignored | `ActionIntake` |
| Chat routing (566-619) | sockets, mode | `handle_chat_message` | everyone, or the team, and nobody else | `MatchEnd`, `Lobby`, `Wire` |
| Codecs (`messages.c`) | none | `serialize_*`, `deserialize_*` | decode after encode is the identity on legal messages | `Messages` |
| Framing (`communication_*.c`) | none | read and write loops | whole messages in order, or a failure | `Wire`, `BoardBroadcast` |
| Client controller (`controller.c`, `network_client.c`) | end flag, board, sockets | three threads | the client ends, the board follows the server | `Client`, `BoardBroadcast`; numbering in `ActionIntake` |
| Chat model (`chat_model.c`) | input line, circular history | write, erase, send, receive | bounded, in order, no node lost | `ChatModel`, in `Client` |
| View, option parsing, socket set-up | screen, ports | output and I/O | | not modelled: no state other parts depend on |
| `tests/`, `cinta/` | | | | read as documentation |

How they interact. The main thread accepts clients and places each in the
waiting match of its mode; placing one creates its TCP thread. The TCP threads
meet at a first barrier (everybody has joined), exchange the connection
information and the ready message with their client, and meet at a second one,
whose last arrival sends the first board and creates the three threads of the
match. During the match the TCP threads route chat and notice departures, the
receiving thread fills the pool, the 50 ms thread turns the pool into actions
on the game and multicasts the difference they make, and the once-a-second
thread explodes bombs, multicasts the board and watches for the end. It then
raises the finished flag and waits for everybody before it frees the match. All
calls of the game model are made under one lock. A client has a thread for the
board, one for the chat and one for the keyboard, each of which paints and each
of which may close the sockets.

What is hard: the two barriers (one counter is written without its lock, and no
wait tests a predicate), the end of a match (broadcasts that may come too early,
locks and sockets freed under other threads), the bomb array (removal by swap
in a loop that goes on), the polled array (edited while it is scanned), games
handed on by an id that is not the one made, datagrams lost, duplicated and
reordered, a stream whose end is taken for data, and descriptors one thread
closes while another waits on them. The hazards are listed, at their lines, in
`PROJECT.json`.

## 2. Modules

**Game.** `GameModel` follows `model.c` section by section. Its variables are
the fields of `game`: the grid, the players' positions and dead flags, and the
bomb array up to `total_count`. The calls that loop take one step per
iteration, and `call` says which of them holds `lock_game_model`, as no other
call can start meanwhile. Ages replace times, because only their difference is
used; the clock is read once per `update_bombs`. An explosion is given by two
sets, the cells it reaches and the players it kills. `ExplosionLoops` writes
`update_explosion` loop by loop, one call after the other, to compare the sets with.
`BombermanRules` is the abstract specification: crates, living players, where
they are, and lit bombs, with no grid, array or loop. `GameModel` implements it
under the refinement mapping `Rules`.

**Games and lobby.** `GamesTable` is the array of games, whose counter of live
games is also the slot `add_game` tries first. `GamePool` is what a table of
games promises (a new id is not in use, and a game keeps its id until that id is
removed), and the table implements it. `Lobby` extends the table with the main
thread: the polled array, scanned slot by slot while slots are removed and
refilled, the two matches that fill at once, and the record of each match with
both the id its game was made under and the id its threads are given. The
threads of a full match appear as they touch the table: `Sec` removes a game, a
chat message is routed by the mode of game 0. A server started with a port
(`port_given`) fails to bind it for the first match and closes the listening socket.

**One match.** `MatchStart` is the start of one match. The increment of the
join counter is a load, a store and a second load for the test, because the
build is not optimised (`gcc -g`) and because the main thread writes the counter
without the lock. The value of the counter is not followed once it is freed: a
thread that tests it afterwards may find any value, and a second `free` aborts
or not. `pthread_cond_wait` may return by itself, as neither wait is in a loop.

`MatchEnd` starts where `MatchStart` stops and has one program counter per TCP
thread, one each for the once-a-second thread (`Sec`), the receiving thread
(`Recv`) and the 50 ms thread (`Freq`). A connection is up, closed by the
client, or reset: a send to a closed one brings a reset, a send on a reset one
raises SIGPIPE, for which the server has no handler. What bombs do is reduced
to a set of deaths each second. The waits of `Sec` are single waits for a
broadcast, with no wake-up of their own.

`ActionIntake` goes from the client's key press to the array that
`update_game_board` is given. A message carries its serial, and its number is
the serial modulo the client's limit, so that old and new can be told apart in
properties although the code sees the number only. The network loses,
duplicates and reorders, and forgets what is `Delay` behind. A round of `Freq` is
a sequence of steps, one for each iteration of its loops (`game_action_partition`,
`game_action_quick_sort`, `get_player_actions`), while messages keep coming in. The
recursion of the quick sort is `todo`, the ranges that remain to be sorted, with the
two indices of the partition in the first; the sort has the bounds of the code, and
the number of elements it is given is the length of the pool at that moment, as in
the code. After a memory error (the sort past the end of its array, the merge past
the end of its result) the process may be gone. `passed` remembers the newest move
given to `update_game_board`, which the code does not.

**Messages.** `Messages` gives every encoder and decoder that is called as a
function between records and sequences of bytes, header bits included. It is
used, not repeated, by the two modules about transport. `Wire` is one TCP
connection from the first header to the end of the game: a `recv` returns any
part of what was sent, `recv_tcp` says the same at the end of the file as when
it has everything (what is missing is then any value in `Junk`), and the loops
that read the first headers advance their pointer by whole structures, so that a
second part lands elsewhere. `send_tcp` counts what it sends in a byte. `BoardBroadcast` is what the clients see: `Sec` and
`Freq` each prepare a message under one lock and send it under another, the
network loses and reorders, and two threads of the client paint copies. What
moves and bombs make of the board is any change, as that is `GameModel`'s business.

**Client.** `ChatModel` is the line being typed and the circular history, with
its nodes and links. `Client` extends it with the three threads, each with its
program counter, the descriptors and the mutex of the view. `close` does not
wake a thread that waits on the connection, `shutdown`, called on the UDP socket
only, does. Nothing keeps a change of the history apart from another or from
the painting: when two run into each other the history is undefined, which the
model records (`raced`) and does not follow. A line typed after the server has
closed may raise SIGPIPE, which ends the client.

`MCGameModel` and `MCWire` give their modules the sets a `.cfg` cannot write;
the others are instantiated by their `.cfg` directly. The modules named `_proofs`
hold the theorems.

Definitions that begin with "Plausible mistake" in their comment are not part
of the specifications: each is a wrong version of the operator below it, and
with it in the place of the right one TLC finds a property of a run violated
(`mutants` in `PROJECT.json`).

## 3. Runs

| Run | Question | Bounds and why they are enough |
|---|---|---|
| `match` | Are board, array and players consistent, and is each step a step of the rules? | Board 3x3, two players who act and two who may be killed or leave, two bombs, lifetime 1. Two bombs are what a swap, a skipped slot and a bomb under a player take; on 3x3 every player is within reach of every other. |
| `blast` | Do the sets agree with the loops, and does every bomb explode? | 3x5 with and without crates, TEAM, one moving player, two bombs placed in one batch or apart: arms cut by walls, crates and the border, and a slot skipped by the swap. |
| `start` | Does a match start, with everyone? | Four players, the real number; one may leave at any time before it is ready. |
| `end` | Is the teardown safe, and do the threads leave? | Three players, SOLO, two who may leave and one who may be without a socket from the start. |
| `stay` | Is a match removed? | Four players, two teams, one who may leave and one who may be silent; `Prompt`. |
| `intake` | Are old messages ignored and fresh ones taken? | Circle of 5 against 12, two players of whom one places bombs, three messages, all of which may be in the pool at once: the partition compares only from three on. `Delay` 1 is within the part of the circle the window leaves out, as a delay of less than 2047 messages is in the code. The wraps of both circles are left to the theorems, which hold for every limit. |
| `intake_deaf` | Are all numbers known? | One player, the real limits, 5000 messages. No: see below. |
| `lobby` | Does everybody sit, once, in the mode asked for, with the right game? | Matches of two, four clients: two matches of one mode, one of each, or parts. A table of two slots and a polled array of three, so that both must grow. Five games, more than can be made. |
| `lobby_parallel` | Do matches that overlap use games of their own? | The same. No: see below. |
| `wire` | Does what one side says arrive at the other, and is the end heard? | A player whose side wins in each mode and one whose match nobody wins, two messages up and one down, parts of one byte; `Junk` holds a value for each kind of header a decoder may see. |
| `broadcast` | Does the screen follow the board? | 1x2 board in a client that starts at 2x2, two tiles, two changes, two datagrams under way, one lost or overtaken, one line of chat that paints. `NbLimit` 2 stands for 256: a difference of both tiles is one too many for its byte. |
| `client` | Is the chat history right, and does the client end? | History of two, so that a third message recycles a node; lines of two characters, so that the longest loses one; one chat message of the server. |

The boards are smaller than the program's only one (49x23): `GameModel` is
parametric in the size, the initial-board formulas are the code's, and the
theorems hold for every odd size from 3. The other bounds (`MaxBombs`,
`MaxSent`, `MaxPool`, `MaxSaid`, `MaxTold`, `MaxChanges`, `MaxFlight`,
`MaxTrouble`, `MaxLines`, `MaxChat`) are guards, named in the modules.

The runs whose `.cfg` says so do not check deadlock: a started match, a removed
one, a server or a client that has ended and a client that has sent all it may
are ends of those models. `GameModel` and `BoardBroadcast` never end, and their
runs check it.

### Disagreements found

* `lobby_parallel`: the subject (`src/sujet.pdf`) asks for several matches in
  parallel. The TEAM lobby gives its threads 0 when the id made is 0 or 3, and 1
  otherwise, so that the third match of a server may play, and remove, the game
  of another.
* `intake_deaf`: the server's limit is 4095, the client's 8192. From its 4096th
  message on, a client is not heard until its numbers wrap.

### What does not hold

Met while modelling; the properties except each by name, or are stated so that
they do not claim it.

* *Starting.* `recv_connexion_header_raw` takes the end of a connection for a
  read of no byte and reads again, for ever. A client that leaves before it is
  ready leaves a thread that never arrives at the second barrier, and the others
  wait for ever, although the subject (p. 7) asks that the applications do not
  block and gives this case. A thread that comes to the first barrier after it
  was opened one arrival early waits for ever or frees the counter again.
  `MatchStartsUnlessStuck` excepts both.
* *Lobby.* `remove_polls_to_poll` puts the listening descriptor, not the last
  client's, in the freed slot: with two clients waiting, one is lost and the next
  connection crashes the server. When the polled array grows, the new client is
  not stored in it (`WaitingPolled`, `EveryoneSeated`). A client that hangs up
  before its header makes the main thread spin. `POLL_HUP` is defined as 6, which
  is no event. With a port given, the first match fails to bind it, the
  listening socket is closed and the game leaks. Chat is routed by the mode of
  game 0, which may be another match's or removed (`ServedOneByOne`).
* *Ending.* If all clients leave, the last TCP thread may broadcast before `Sec`
  waits; the broadcast is lost and the match never removed, hence the `Leavers`
  and `Prompt` of `stay`. The socket of a client who left stays in `sock_clients`
  until the last thread closes it, and the second chat message sent on it raises
  SIGPIPE.
* *Actions.* Of a bomb and a move examined in one round, the bomb is dropped,
  where the subject asks for the last move and one bomb: `FreshRequestTaken`
  speaks of bombs only in rounds without a move. The sort of a round exchanges
  two messages of one player, so an older move may be taken for a newer one. A
  player who places bombs may have its last number lowered and old moves accepted:
  `MovesGoForward` is about the others. One call of `update_bombs` may leave an
  expired bomb for the next.
* *Stream.* `recv_tcp` returns 1 at the end of the file while its callers test
  for negative values. A message cut short is completed with what memory held,
  at most once, as the next look finds the end: `ChatsInOrder` and `WinnerIsTrue`
  allow one made-up message. A start message received in two parts is misread
  (`head + received` counts structures), and a first header that is none crashes
  the server. `SeatAgreed` speaks of the rest. The information about the match
  always says SOLO, and the content of the ready message is never looked at. Two
  threads may write to one client's socket at once; `Wire` takes each message as
  written whole.
* *Board.* The number of differences is cut to a byte, so a round that changes
  256 cells sends none; a difference may overtake the board that was copied
  before it. `QuietIsRight` excepts both, and `CaughtUp` shows that the next
  board repairs them. The message number never wraps where it should, and nobody
  reads it.
* *Client.* `chat_mutex` is taken by one of the threads that use the history, so
  `HistoryIsRecent` ends with the first collision. After the user quits, the
  chat thread may wait on its connection until the server says something:
  `QuitEnds` excepts that wait, `EndsWithServer` shows that nothing else lasts.

### Fairness

`GameModel`: a call that holds the lock runs to its end, and `Sec` calls
`update_bombs` once a second for as long as the match is not over. The clock
ticks, strongly, because a call may always be running when it is looked at.
`MatchStart` and `MatchEnd`: weak fairness of each thread. It covers `poll` and
`select`, which have a timeout, and `recvfrom` only once its socket is shut
down, as it has none. `Lobby`: the main thread, which does nothing but serve.
`Wire`: the client's chat thread, whose `recv` returns when there is something
to read. `BoardBroadcast`: `Sec`, whose loop has a period; a `Freq` that has
something to send; a client that takes datagrams in order; painters who get the
mutex. `Freq` owes nobody a change. `Client`: the threads run, and a thread that
waits for the view's mutex gets it, strongly, since others take it in between; the
view's thread is strongly fair because its non-blocking read of the keyboard is under that mutex.
Users, the server and the network owe the client nothing.

`Prompt`, in `MatchEnd`, is an assumption on the scheduler that only `stay`
makes: `Sec` reaches a wait before any other thread takes a step, and the
`sleep(2)` of the UDP threads outlasts the departure of the TCP threads. The
comment `Wait for the other thread to finish` on the sleep relies on the
latter. `end` does without.

## 4. Proofs

Assumptions: the named `ASSUME`s of the modules on their constants, which TLC
evaluates in the runs, and nothing else.

**Game** (`GameModel_proofs`), for every odd board size, every bomb lifetime,
both modes and every stream of actions: `TypeCorrect`, `BombsTracked`,
`GhostFree`, `LivingApart`, `WallsRespected`. None of these invariants is
inductive alone. A move is safe because the target shows no player, which helps
only if every living player is shown by its cell or hides behind the bomb it
stands on (`LivingOnBoard`); the tile it leaves behind may be erased only if it
is the player's own or a bomb in the array (`NoGhostTile`, `BombTracking`); a
bomb replaces no wall because nobody, not even the dead, is in a wall
(`NobodyInWall`). The inductive invariant `IInv` is their conjunction with the
type invariant.

`BlastIsExplosion` ties the sets that describe an explosion to the loops of
`update_explosion`, which modify the board they read. After any part of the loops
the match is `Visited(Z, b)`, a function of the cells visited and of the board before
(`OneMore`): a cell shows the arm what it showed at first, because no two arms share
a cell but the centre, which holds the bomb and is no wall (`BombTracking`). What
the arms and the corners visit is `BlastZone`.

`Refinement` follows from the same invariant. Each action is mapped to a step of
`BombermanRules` or to a stutter: a skipped slot to nothing, an explosion to
`Detonate` of that one bomb, a tile overwritten by a bomb to nothing.

**Start of a match** (`MatchStart_proofs`), for every number of players:
`StartTypeCorrect`, `NoJoinLost`, `FirstBarrierOpens`, `StartsTogether`. That no
arrival is lost although the counter is overwritten needs, besides the counter,
what each thread has loaded from it: the main thread writes the number of
threads that exist before the new one, which is at least the number of those
that were counted, and a thread between its load and its store is the only one
in the critical section.

**End of a match** (`MatchEnd_proofs`), for every number of players:
`EndTypeCorrect`, `LastOneCloses`, `LastOneCleansUp`, `RightWinner`. The counter of
departures is the number of threads past it, which ties it to the program
counters: the thread that finds everyone else gone is the only one left, so the
sockets it closes are used by nobody, and `Sec`, which it wakes, waits for the two
UDP threads before it frees a lock. The winner has won because a thread leaves its
loop only when its player is dead or the game is over, which it then is for good:
the game is over when the last thread announces it.

**Games table** (`Lobby_proofs`, first part), for every capacity and growth factor:
`GamesCounted` and `TableRefinesPool`. `add_game` never fails, because a table
whose counter is the number of live games, and less than its capacity, has a
free slot; that is a count of the slots in use, after which the slot taken is
free by definition and the mapped step is `Make`.

**Lobby** (`Lobby_proofs`), for any number of clients, players in a match and
slots: `LobbyRefinesPool` (each step of the lobby is a step of the table, or
leaves it alone), `GamesAreOwn` and `OneByOneIsRight`. The inductive
invariant relates the matches to the slots: the games of the matches are at
different addresses, so two matches that are not over hold different slots, and
a match that removes its own slot harms no other as long as the ids handed on
are those made. If games never overlap, every game is made in an empty table, in
slot 0, where all the shortcuts by id 0 are right.

`LobbyTypeCorrect`, `EveryoneSitsOnce` and `NobodyElseIsLost` are about the
clients. A step of `handle_polls` places at most one client, the one whose slot
is examined, so the seats form a one-to-one image of the placed clients
(`ASeat`, `OneSeat`); the counter of a mode and the length of its one unfilled
match wrap together (`OneFilling`). `NobodyElseIsLost` needs an invariant on the
polled array during the loop: no client is in it twice, and every client that
waits is in it unless one of the two mistakes of `remove_polls_to_poll` and
`add_to_polls` has left its mark in the array.

**Messages** (`Messages_proofs`): a message decodes to what was encoded, for
each kind whose layout is fixed (`InitialRoundTrip`, `ReadyRoundTrip`,
`GameEndRoundTrip`, `ActionRoundTrip` for each of the 8192 numbers,
`InformationRoundTrip`) and for boards of every size a byte can give
(`BoardRoundTrip`), and for differences, as many as a byte counts
(`UpdateRoundTrip`), and for chat of every text without a zero byte whose length a
byte counts, in either direction (`ChatRoundTrip`). `EndIsNoChat`: the client may
look for the end of the game before it looks for chat, since no header is both. The
lemmas are about the digits of a 16-bit word and its two bytes, by arithmetic on
quotients and remainders.

**Board** (`BoardBroadcast_proofs`), for boards of any dimensions up to
1300 tiles, which is what the client's buffer holds (`RoomAssumption`), any tiles, any losses and any order of delivery: `NothingElseIsShown` and
`QuietBoardIsTheGames`. Both rest on three facts about the functions: the k-th
difference is about the k-th changed position (a rank is a numbering of a finite
set), the position a client computes from its two coordinates is that one
(quotient and remainder), and the differences of two boards turn the one into
the other (`DiffMakesBoard`), through the bytes by the round trips above.
`PastInv` says of every place a tile can be (the copies of `Sec` and `Freq`, the
datagrams, the client's board, the painters, the screen) that its cell has shown
it. `QuietInv` says that what is on its way, applied in order, leads from the last
whole board to one that lacks exactly what waits to be sent, and which of the two
threads is to send first; a sequence of intermediate boards is its witness, so
that no recursion over the messages is needed.

**Client** (`Client_proofs`), for every capacity of the history: `NewestInOrder`.
The nodes are those of a sequence without repetition (`Chain`), each linked to the
next and the last to the first, with the newest messages in order; adding to a
list that has room makes it longer, adding to a full one drops its first node.
`At`, which follows the links, finds that sequence, by an induction on the number
of links that is done by counting (`StepByStep`).

**Connection** (`Wire_proofs`), for any seats, texts of up to 252 bytes, sizes of the
parts, contents of unwritten memory and number of messages: `WireTypeCorrect`, `WireChatsInOrder`,
`WireSeatAgreed` and `WireWinnerIsTrue`. Each direction carries a numbered list of
messages: the request, the ready message and the lines said; the information about
the match, the lines told and the end of the game. The invariant (`UpStream`,
`DownStream`) says that what the reader has gathered, followed by what is on its
way, is the rest of that list from the first message not yet taken, and that only a
close with something unread, or a departure, cuts it short (`Carries`). A complete
message is then the next of the list, because the header and the length byte
tell where a message ends, and the round trips give its content. Once a field has
been completed at the end of the file nothing more arrives (`UpTainted`,
`DownTainted`): a connection that has ended gives one made-up message at most, and
the thread that took it finds the end at its next look. The client may take the end
of the game for the one sent only if it was sent, whence the two exceptions of
`WinnerIsTrue`; the third is a match that nobody won, whose winner -1 the encoder
refuses, so that the client hears nothing but the close.

**Action intake** (`Client_proofs`, last part), for all limits, any players, any number
of messages sent and waiting: `IntakeTypeCorrect`, `MovesInOrder` and `FreshIsTaken`. The
assumption is `DelayAssumption`: a message late by more than the part of the circle that
the window leaves out could be taken for a new one, which with the code's limits is
more than 2046 messages of one player. Of two numbers the window says which is
newer: a number behind the last one by at most `Delay` is never next (`OldIsNotNext`),
one ahead of it by at most half the circle always is, if the server knows it
(`FreshIsNext`), and the limit of the client may be another than the server's. The
invariant `IntakeInv` brings messages into that range: nothing that waits is more
than `Delay` behind the newest move passed, nor in the pool behind one in the round
(`NotTooLate`). It holds because a message in the network is at most `Delay` behind
what its client has sent, and nothing is passed that was not sent. The last number
of a player who places no bomb is the number of its newest move passed, or of the one
chosen in this round (`LastKnown`), so every move chosen is newer than all those passed
(`Chosen`). The sort does nothing but exchange places inside the copy (`SwapKeeps`),
which is all that the proofs need of it: the selection examines each message of
the round, and what it has examined is answered (`Examined`).

Only model-checked: liveness (`BombsExplode`, `MatchStartsUnlessStuck`,
`OverDrains`, `MatchRemoved`, `EveryoneSeated`, `EndHeard`, `CaughtUp`,
`EndsWithServer`, `QuitEnds`), as fairness and ENABLED are beyond the prover. Every
invariant and every action property the passing runs check is a theorem.

## 5. Not modelled, and the plan

Not modelled: the view (output through ncurses: what it reads and when is in
`Client` and `BoardBroadcast`), option parsing, the choice of ports and the
creation of sockets (straight-line calls that succeed or end the program),
whispering in the client's line (the type of a message is in `Wire`), which key
means what, the questions `client.c` asks before it connects, `get_game` and
`reset_games` (called by the tests only), the general message header no program
sends, and failures of `send` and `malloc`. Client and server are modelled apart
and meet in `Wire`, `BoardBroadcast` and `ActionIntake`, each of which has the
part of both that its messages concern.

Also left out, each at the place where a definition would have it:

* Calls of the operating system that fail. `select` returning -1 ends the loop of
  `handle_tcp_communication` without `set_player_dead` (`network_server.c` 1226-1228;
  `ReadFails` of `MatchEnd` has the other ways out). A failing `accept` returns 1,
  which is then polled as a descriptor (684-695; `Accept` of `Lobby` succeeds).
  Without memory for the differences `Freq` ends (1069; `Pass` of `ActionIntake`
  goes on).
* What a first header that is malformed or split does to the main thread is in
  `Wire`; the headers of `Lobby` are whole. So is the content of a chat message,
  of which `Lobby` has only the route.
* A chat text of more than 252 bytes, which with its three first bytes exceeds the
  byte in which `send_tcp` counts (`TextsAssumption`). The client lets 60 be typed.
* The growth of the client's buffer for a board of more than 1300 tiles, which
  drops the first one (`network_client.c` 260-264; `RoomAssumption`). The program's
  board has 1127.

What is left: an abstract match (start, play, over, removed) that `MatchStart` and
`MatchEnd` implement.
