------------------------------ MODULE MatchEnd ------------------------------
(***************************************************************************)
(* From the first board to the removal of the game: the threads of one     *)
(* match and how they stop (src/src/network_server.c).                     *)
(*                                                                         *)
(*   - handle_tcp_communication, one thread per player, which reads the    *)
(*     chat, notices departures, and whose last instance announces the     *)
(*     winner and closes the sockets of the match;                         *)
(*   - serve_clients_send_mult_sec (here Sec), which explodes the bombs,   *)
(*     decides that the game is over and cleans up after everyone;         *)
(*   - serv_client_recv_game_action (Recv) and                             *)
(*     serve_clients_send_mult_freq (Freq).                                *)
(*                                                                         *)
(* The two waits of Sec are lock_mutex_to_wait, a pthread_cond_wait with   *)
(* no predicate: a broadcast sent before the wait is lost.                 *)
(*                                                                         *)
(* What bombs do is GameModel's business: each second some players die.    *)
(***************************************************************************)
EXTENDS Integers, FiniteSets

CONSTANTS
  PlayerNum,   \* PLAYER_NUM of constants.h
  GameMode,    \* the mode of the match
  Leavers,     \* the players whose client may close its connection
  Silent,      \* the players who may be without a socket from the start
  Prompt       \* Sec reaches a wait before anyone else moves, and the sleep(2)
               \* of the UDP threads outlasts the departure of the TCP threads

Player == 0..PlayerNum - 1
Team1 == {0, 3} \cap Player
Team2 == {1, 2} \cap Player

ASSUME PlayerNumAssumption == PlayerNum \in Nat \ {0}
ASSUME ModeAssumption == GameMode \in {"SOLO", "TEAM"}
ASSUME PlayersAssumption == Leavers \subseteq Player /\ Silent \subseteq Player
ASSUME PromptAssumption == Prompt \in BOOLEAN

VARIABLES
  pc,         \* where the TCP thread of each player is
  sock,       \* the players whose sock_clients[i] is not -1
  conn,       \* the client's side: "up", "closed", "reset"
  left,       \* *nb_players_left
  dead,       \* the players whose dead flag is set
  announced,  \* the winner or winning team computed at the end, Nobody before
  finished,   \* *finished_flag
  survivors,  \* the players alive when Sec found the game over
  sec,        \* where Sec is
  recv,       \* where Recv is
  freq,       \* where Freq is
  udpOpen,    \* the UDP sockets are not closed
  stopped,    \* *nb_stopped_udp_threads
  killed      \* SIGPIPE has killed the process

tcpVars == <<pc, sock, conn, left, announced>>
udpVars == <<sec, recv, freq, udpOpen, stopped, finished, survivors>>
vars == <<tcpVars, udpVars, dead, killed>>

Nobody == -2

Done == \A p \in Player : pc[p] = "done"

is_game_over ==
  IF GameMode = "SOLO" THEN Cardinality(Player \ dead) <= 1
                       ELSE Team1 \subseteq dead \/ Team2 \subseteq dead

get_winner_solo ==
  LET winners == {p \in Player \ dead : \E q \in dead : q # p}
  IN  IF winners = {} THEN -1 ELSE CHOOSE p \in winners : \A q \in winners : p <= q

get_winner_team ==
  IF Team1 \subseteq dead THEN 1 ELSE IF Team2 \subseteq dead THEN 0 ELSE -1

winner == IF GameMode = "SOLO" THEN get_winner_solo ELSE get_winner_team

\* As MatchStart leaves it.
Init ==
  /\ \E silent \in SUBSET Silent : sock = Player \ silent /\ dead = silent
  /\ pc = [p \in Player |-> "top"]
  /\ conn = [p \in Player |-> "up"]
  /\ left = 0
  /\ announced = Nobody
  /\ finished = FALSE
  /\ survivors = Player
  /\ sec = "round"
  /\ recv = "top"
  /\ freq = "top"
  /\ udpOpen = TRUE
  /\ stopped = 0
  /\ killed = FALSE

-----------------------------------------------------------------------------
(* The connections.  The first send to a client that has closed succeeds   *)
(* and brings back a reset, at once or later; a send on a connection that  *)
(* was reset raises SIGPIPE, which nothing handles.                        *)

SendTo(targets) ==
  /\ conn' \in [Player -> {"up", "closed", "reset"}]
  /\ \A p \in Player :
       IF p \in targets /\ conn[p] = "closed" THEN conn'[p] # "up" ELSE conn'[p] = conn[p]
  /\ killed' = \E p \in targets : conn[p] = "reset"

ClientCloses(p) ==
  /\ p \in Leavers \cap sock /\ conn[p] = "up"
  /\ \E c \in {"closed", "reset"} : conn' = [conn EXCEPT ![p] = c]
  /\ UNCHANGED <<pc, sock, left, announced, udpVars, dead, killed>>

-----------------------------------------------------------------------------
(* The TCP threads. *)

Goto(p, to) == pc' = [pc EXCEPT ![p] = to]

\* set_player_dead, then out of the loop.
LeaveDead(p) ==
  /\ dead' = dead \cup {p}
  /\ Goto(p, "leave")
  /\ UNCHANGED <<sock, conn, left, announced, udpVars, killed>>

\* Plausible mistake: the flag is not looked at.
TopWithoutFlag(p) ==
  /\ pc[p] = "top"
  /\ IF p \notin sock
     THEN Goto(p, "leave") /\ UNCHANGED <<sock, conn, left, announced, udpVars, dead, killed>>
     ELSE IF conn[p] = "closed"
     THEN LeaveDead(p)
     ELSE Goto(p, "select") /\ UNCHANGED <<sock, conn, left, announced, udpVars, dead, killed>>

\* The head of the loop: no socket, game over, or end of file.
Top(p) ==
  /\ pc[p] = "top"
  /\ IF p \notin sock \/ finished
     THEN Goto(p, "leave") /\ UNCHANGED <<sock, conn, left, announced, udpVars, dead, killed>>
     ELSE IF conn[p] = "closed"
     THEN LeaveDead(p)
     ELSE Goto(p, "select") /\ UNCHANGED <<sock, conn, left, announced, udpVars, dead, killed>>

SelectTimeout(p) ==
  /\ pc[p] = "select"
  /\ Goto(p, "top")
  /\ UNCHANGED <<sock, conn, left, announced, udpVars, dead, killed>>

Teammates(p) == IF p \in Team1 THEN Team1 ELSE Team2

\* A message is read, or what is read at an end of file decodes as one, and it
\* is sent to all, to the team or, for an unknown mode, to nobody.
Chat(p) ==
  /\ pc[p] = "select" /\ conn[p] # "reset"
  /\ Goto(p, "top")
  /\ \E all \in {Player, Teammates(p), {}} : SendTo((all \cap sock) \ {p})
  /\ UNCHANGED <<sock, left, announced, udpVars, dead>>

\* Plausible mistake: the player keeps its life.
LeaveAlive(p) ==
  /\ pc[p] = "select" /\ conn[p] # "up"
  /\ Goto(p, "leave")
  /\ UNCHANGED <<sock, conn, left, announced, udpVars, dead, killed>>

\* End of file or reset found while reading a message.
ReadFails(p) ==
  /\ pc[p] = "select" /\ conn[p] # "up"
  /\ LeaveDead(p)

\* Plausible mistakes: the last but one takes itself for the last; the last one
\* counts itself as well.
LeaveOneEarly(p) ==
  /\ pc[p] = "leave"
  /\ IF left = PlayerNum - 2
     THEN Goto(p, "announce") /\ UNCHANGED left
     ELSE Goto(p, "done") /\ left' = left + 1
  /\ UNCHANGED <<sock, conn, announced, udpVars, dead, killed>>

LeaveCountingAll(p) ==
  /\ pc[p] = "leave"
  /\ Goto(p, IF left = PlayerNum - 1 THEN "announce" ELSE "done")
  /\ left' = left + 1
  /\ UNCHANGED <<sock, conn, announced, udpVars, dead, killed>>

\* The count of the threads that left; the last one keeps going.
Leave(p) ==
  /\ pc[p] = "leave"
  /\ IF left = PlayerNum - 1
     THEN Goto(p, "announce") /\ UNCHANGED left
     ELSE Goto(p, "done") /\ left' = left + 1
  /\ UNCHANGED <<sock, conn, announced, udpVars, dead, killed>>

\* handle_game_over: -1 cannot be encoded, and nothing is sent then.
Announce(p) ==
  /\ pc[p] = "announce"
  /\ announced' = winner
  /\ SendTo(IF winner = -1 THEN {} ELSE sock)
  /\ Goto(p, "close")
  /\ UNCHANGED <<sock, left, udpVars, dead>>

\* Plausible mistake: the UDP socket stays open.
CloseTcpSockets(p) ==
  /\ pc[p] = "close"
  /\ sock' = {}
  /\ Goto(p, "signal")
  /\ UNCHANGED <<conn, left, announced, udpVars, dead, killed>>

CloseSockets(p) ==
  /\ pc[p] = "close"
  /\ sock' = {}
  /\ udpOpen' = FALSE
  /\ Goto(p, "signal")
  /\ UNCHANGED <<conn, left, announced, sec, recv, freq, stopped, finished, survivors,
                 dead, killed>>

\* Wakes Sec if it waits already.
Signal(p) ==
  /\ pc[p] = "signal"
  /\ sec' = IF sec = "waitTcp" THEN "tcpClosed" ELSE sec
  /\ Goto(p, "done")
  /\ UNCHANGED <<sock, conn, left, announced, recv, freq, udpOpen, stopped, finished,
                 survivors, dead, killed>>

handle_tcp_communication(p) ==
  \/ Top(p) \/ SelectTimeout(p) \/ Chat(p) \/ ReadFails(p)
  \/ Leave(p) \/ Announce(p) \/ CloseSockets(p) \/ Signal(p)

-----------------------------------------------------------------------------
(* Sec. *)

SecGoto(from, to) == sec = from /\ sec' = to

\* update_bombs, and the board is sent.
SecBombs ==
  /\ SecGoto("round", "check")
  /\ \E killedNow \in SUBSET (Player \ dead) : dead' = dead \cup killedNow
  /\ UNCHANGED <<tcpVars, recv, freq, udpOpen, stopped, finished, survivors, killed>>

SecCheck ==
  /\ sec = "check"
  /\ IF is_game_over
     THEN sec' = "over" /\ survivors' = Player \ dead
     ELSE sec' = "round" /\ UNCHANGED survivors
  /\ UNCHANGED <<tcpVars, recv, freq, udpOpen, stopped, finished, dead, killed>>

SecFlag ==
  /\ SecGoto("over", "flagged")
  /\ finished' = TRUE
  /\ UNCHANGED <<tcpVars, recv, freq, udpOpen, stopped, survivors, dead, killed>>

SecWaits ==
  /\ SecGoto("flagged", "waitTcp") \/ SecGoto("tcpClosed", "waitUdp")
  /\ UNCHANGED <<tcpVars, recv, freq, udpOpen, stopped, finished, survivors, dead, killed>>

\* remove_game, and every lock the match uses is destroyed and freed.
SecCleansUp ==
  /\ SecGoto("udpStopped", "done")
  /\ UNCHANGED <<tcpVars, recv, freq, udpOpen, stopped, finished, survivors, dead, killed>>

serve_clients_send_mult_sec == SecBombs \/ SecCheck \/ SecFlag \/ SecWaits \/ SecCleansUp

-----------------------------------------------------------------------------
(* Recv and Freq. *)

RecvTop ==
  /\ recv = "top"
  /\ recv' = IF finished THEN "sleep" ELSE "recvfrom"
  /\ UNCHANGED <<tcpVars, sec, freq, udpOpen, stopped, finished, survivors, dead, killed>>

\* A datagram, or the end of the wait because the socket was shut down.
RecvReturns ==
  /\ recv = "recvfrom"
  /\ recv' = "top"
  /\ UNCHANGED <<tcpVars, sec, freq, udpOpen, stopped, finished, survivors, dead, killed>>

FreqTop ==
  /\ freq = "top" /\ finished
  /\ freq' = "sleep"
  /\ UNCHANGED <<tcpVars, sec, recv, udpOpen, stopped, finished, survivors, dead, killed>>

\* Plausible mistake: each UDP thread broadcasts when it stops.
StopAndBroadcast ==
  /\ Prompt => Done
  /\ stopped' = stopped + 1
  /\ sec' = IF sec = "waitUdp" THEN "udpStopped" ELSE sec
  /\ UNCHANGED <<tcpVars, udpOpen, finished, survivors, dead, killed>>

\* The count of the UDP threads that stopped; the second one broadcasts, which
\* wakes Sec if it waits already.
Stop ==
  /\ Prompt => Done
  /\ stopped' = stopped + 1
  /\ sec' = IF stopped' = 2 /\ sec = "waitUdp" THEN "udpStopped" ELSE sec
  /\ UNCHANGED <<tcpVars, udpOpen, finished, survivors, dead, killed>>

RecvStops == recv = "sleep" /\ recv' = "done" /\ UNCHANGED freq /\ Stop
FreqStops == freq = "sleep" /\ freq' = "done" /\ UNCHANGED recv /\ Stop

-----------------------------------------------------------------------------

SecRuns == Prompt => sec \notin {"flagged", "tcpClosed"}

Next ==
  /\ ~killed
  /\ \/ serve_clients_send_mult_sec
     \/ /\ SecRuns
        /\ \/ \E p \in Player : handle_tcp_communication(p) \/ ClientCloses(p)
           \/ RecvTop \/ RecvReturns \/ FreqTop \/ RecvStops \/ FreqStops

Spec == Init /\ [][Next]_vars

\* Every thread runs.  A select returns within a second; a recvfrom returns for
\* certain only once its socket is shut down.
Fairness ==
  /\ \A p \in Player : WF_vars(~killed /\ SecRuns /\ handle_tcp_communication(p))
  /\ WF_vars(~killed /\ serve_clients_send_mult_sec)
  /\ WF_vars(~killed /\ SecRuns /\ (RecvTop \/ (~udpOpen /\ RecvReturns) \/ RecvStops))
  /\ WF_vars(~killed /\ SecRuns /\ (FreqTop \/ FreqStops))

FairSpec == Spec /\ Fairness

-----------------------------------------------------------------------------
(* Properties. *)

TypeOK ==
  /\ pc \in [Player -> {"top", "select", "leave", "announce", "close", "signal", "done"}]
  /\ sock \subseteq Player
  /\ conn \in [Player -> {"up", "closed", "reset"}]
  /\ left \in 0..PlayerNum - 1
  /\ dead \subseteq Player
  /\ announced \in {Nobody, -1, 0, 1} \cup Player
  /\ finished \in BOOLEAN
  /\ survivors \subseteq Player
  /\ sec \in {"round", "check", "over", "flagged", "waitTcp", "tcpClosed",
              "waitUdp", "udpStopped", "done"}
  /\ recv \in {"top", "recvfrom", "sleep", "done"}
  /\ freq \in {"top", "sleep", "done"}
  /\ udpOpen \in BOOLEAN
  /\ stopped \in 0..2
  /\ killed \in BOOLEAN

\* The sockets of the match are closed once, by the last TCP thread, and under
\* no other: while a thread is in its loop its socket stays open.
ClosedByTheLast ==
  \A p \in Player :
    /\ pc[p] = "select" => p \in sock /\ udpOpen
    /\ pc[p] \in {"announce", "close", "signal"} => \A q \in Player \ {p} : pc[q] = "done"

\* Sec frees the locks, the flag's and those of the two waits, only when no
\* other thread of the match can use them any more.
CleanedUpLast == sec \in {"udpStopped", "done"} => Done /\ recv = "done" /\ freq = "done"

\* A winner that is announced has won: everyone else is dead, or the other team
\* is.  The announcement does not wait for Sec to find the game over: it is
\* enough that all the connections are lost.
WinnerHasWon ==
  announced \in Player =>
    IF GameMode = "SOLO" THEN Player \ dead \subseteq {announced}
                         ELSE (IF announced = 0 THEN Team2 ELSE Team1) \subseteq dead

\* Once the game is over every TCP thread leaves, whatever the chat and the
\* departures, unless the process is killed.
OverDrains == is_game_over ~> (Done \/ killed)

\* Sec's comments, "Wait for the TCP threads to finish" and "Wait for the UDP
\* threads to finish": the waits end, and the finished match is removed.
MatchRemoved == finished ~> (sec = "done" \/ killed)
=============================================================================
