--------------------------- MODULE MatchEnd_proofs ---------------------------
(***************************************************************************)
(* Proofs about MatchEnd, for any number of players, in both modes and     *)
(* with or without the assumption Prompt on the scheduler: the sockets are *)
(* closed once and last, the locks are freed when nobody can use them, and *)
(* the winner has won.                                                     *)
(*                                                                         *)
(* The argument.  nb_players_left counts the threads that are gone, so     *)
(* that the thread that goes on to the announcement is alone (LastOne).    *)
(* Sec is woken from its first wait by that thread, in its last step, and  *)
(* from its second by the second of the UDP threads to stop.  A thread     *)
(* leaves its loop only when its player is dead or the game is over, which *)
(* it then is for good.                                                    *)
(***************************************************************************)
EXTENDS MatchEnd, FiniteSetTheorems, TLAPS

Out == {p \in Player : pc[p] = "done"}

\* *nb_players_left counts the threads that are gone, but for the last one.
Counted == left = IF Out = Player THEN PlayerNum - 1 ELSE Cardinality(Out)

LastOne == \A p \in Player : pc[p] \in {"announce", "close", "signal"} => Out = Player \ {p}

\* Until the last thread closes them, everybody has the sockets there are.
SocketsOpen ==
  \A p \in Player :
    /\ pc[p] = "select" => p \in sock
    /\ pc[p] \in {"top", "select", "leave", "announce", "close"} => udpOpen
    /\ pc[p] = "top" => p \in sock \cup dead

GameIsOver == finished \/ sec = "over" => is_game_over
OutOfLoop == \A p \in Player : pc[p] \in {"top", "select"} \/ finished \/ p \in dead

TcpGone == sec \in {"tcpClosed", "waitUdp", "udpStopped", "done"} => Out = Player

UdpGone ==
  /\ stopped = (IF recv = "done" THEN 1 ELSE 0) + (IF freq = "done" THEN 1 ELSE 0)
  /\ sec \in {"udpStopped", "done"} => stopped = 2

EndInv ==
  /\ TypeOK /\ Counted /\ LastOne /\ SocketsOpen /\ GameIsOver /\ OutOfLoop
  /\ TcpGone /\ UdpGone /\ WinnerHasWon

-----------------------------------------------------------------------------
(* Counting. *)

LEMMA PlayersFinite ==
  /\ IsFiniteSet(Player) /\ Cardinality(Player) = PlayerNum
  /\ \A S \in SUBSET Player :
        /\ IsFiniteSet(S) /\ Cardinality(S) \in 0..PlayerNum
        /\ Cardinality(S) = PlayerNum => S = Player
<1>1. IsFiniteSet(Player) /\ Cardinality(Player) = PlayerNum
  BY PlayerNumAssumption, FS_Interval DEF Player
<1>2. ASSUME NEW S \in SUBSET Player
      PROVE  /\ IsFiniteSet(S) /\ Cardinality(S) \in 0..PlayerNum
             /\ Cardinality(S) = PlayerNum => S = Player
  <2>1. IsFiniteSet(S) /\ Cardinality(S) <= PlayerNum /\ (Cardinality(S) = PlayerNum => S = Player)
    BY <1>1, FS_Subset
  <2>2. Cardinality(S) \in Nat
    BY <2>1, FS_CardinalityType
  <2> QED  BY <2>1, <2>2, PlayerNumAssumption
<1> QED  BY <1>1, <1>2

\* All but one of the players are all but p, when p is not among them.
LEMMA AllButOne ==
  ASSUME NEW S \in SUBSET Player, NEW p \in Player \ S, Cardinality(S) = PlayerNum - 1
  PROVE  S = Player \ {p}
<1>1. IsFiniteSet(S) /\ Cardinality(S \cup {p}) = Cardinality(S) + 1
  BY PlayersFinite, FS_AddElement
<1>2. S \cup {p} = Player
  BY <1>1, PlayersFinite, PlayerNumAssumption
<1> QED  BY <1>2

\* A game that is over stays over: nobody comes back to life.
LEMMA OverForGood ==
  ASSUME TypeOK, TypeOK', dead \subseteq dead', is_game_over
  PROVE  is_game_over'
<1>1. CASE GameMode = "SOLO"
  <2>1. /\ IsFiniteSet(Player \ dead)
        /\ Player \ dead' \subseteq Player \ dead
        /\ Cardinality(Player \ dead) \in Nat /\ Cardinality(Player \ dead') \in Nat
    BY PlayersFinite
  <2>2. Cardinality(Player \ dead') <= Cardinality(Player \ dead)
    BY <2>1, FS_Subset
  <2> QED  BY <1>1, <2>1, <2>2 DEF is_game_over
<1>2. CASE GameMode = "TEAM"
  BY <1>2 DEF is_game_over
<1> QED  BY <1>1, <1>2, ModeAssumption

\* When everybody is out of the loop, whom handle_game_over finds has won.
LEMMA WinnerWins ==
  ASSUME TypeOK, GameIsOver, OutOfLoop, \A p \in Player : pc[p] \notin {"top", "select"}
  PROVE  /\ winner \in {-1, 0, 1} \cup Player
         /\ winner \in Player =>
              IF GameMode = "SOLO" THEN Player \ dead \subseteq {winner}
                                   ELSE (IF winner = 0 THEN Team2 ELSE Team1) \subseteq dead
<1>1. CASE GameMode = "SOLO"
  <2>1. Player \ dead = {} \/ \E w \in Player : Player \ dead = {w}
    <3>1. CASE finished
      <4>1. Cardinality(Player \ dead) \in {0, 1} /\ IsFiniteSet(Player \ dead)
        BY <1>1, <3>1, PlayersFinite, PlayerNumAssumption DEF GameIsOver, is_game_over
      <4>2. \/ Player \ dead = {} 
            \/ \E w : Player \ dead = {w}
        BY <4>1, FS_EmptySet, FS_Singleton
      <4> QED  BY <4>2
    <3>2. CASE ~finished
      BY <3>2 DEF OutOfLoop
    <3> QED  BY <3>1, <3>2
  <2> DEFINE winners == {p \in Player \ dead : \E q \in dead : q # p}
  <2>2. winners = {} \/ \E w \in Player : winners = {w} /\ Player \ dead = {w}
    BY <2>1
  <2>3. winner = IF winners = {} THEN -1 ELSE CHOOSE p \in winners : \A q \in winners : p <= q
    BY <1>1 DEF winner, get_winner_solo
  <2> HIDE DEF winners
  <2>4. CASE winners = {}
    BY <2>3, <2>4 DEF Player
  <2>5. ASSUME NEW w \in Player, winners = {w}, Player \ dead = {w} PROVE winner = w
    <3>1. w <= w
      BY PlayerNumAssumption DEF Player
    <3> QED  BY <2>3, <2>5, <3>1
  <2>6. CASE \E w \in Player : winners = {w} /\ Player \ dead = {w}
    BY <1>1, <2>5, <2>6
  <2> QED  BY <2>2, <2>4, <2>6, <1>1
<1>2. CASE GameMode = "TEAM"
  BY <1>2 DEF winner, get_winner_team, Player
<1> QED  BY <1>1, <1>2, ModeAssumption

-----------------------------------------------------------------------------
(* The TCP threads. *)

\* Nothing of the invariant depends on what the clients do to the connections.
LEMMA SameButConnections ==
  ASSUME EndInv, conn' \in [Player -> {"up", "closed", "reset"}], killed' \in BOOLEAN,
         UNCHANGED <<pc, sock, left, announced, udpVars, dead>>
  PROVE  EndInv'
BY DEF EndInv, TypeOK, Counted, Out, LastOne, SocketsOpen, GameIsOver, is_game_over, OutOfLoop,
       TcpGone, UdpGone, WinnerHasWon, udpVars

\* A step of a thread in its loop, or out of it.
LEMMA LoopStep ==
  ASSUME EndInv, NEW p \in Player, NEW to \in {"top", "select", "leave"},
         pc[p] \in {"top", "select"}, Goto(p, to),
         dead' \in {dead, dead \cup {p}},
         conn' \in [Player -> {"up", "closed", "reset"}], killed' \in BOOLEAN,
         UNCHANGED <<sock, left, announced, udpVars>>,
         to = "leave" => finished \/ p \in dead',
         to = "select" => p \in sock,
         to = "top" => pc[p] = "select"
  PROVE  EndInv'
<1> USE DEF EndInv
<1>1. TypeOK'
  <2>1. pc' \in [Player ->
                  {"top", "select", "leave", "announce", "close", "signal", "done"}]
    BY DEF TypeOK, Goto
  <2>2. dead' \subseteq Player
    BY DEF TypeOK
  <2> QED  BY <2>1, <2>2 DEF TypeOK, udpVars
<1>2. Out' = Out /\ \A q \in Player : q # p => pc'[q] = pc[q]
  BY DEF Out, Goto, TypeOK
<1>3. pc'[p] = to
  BY DEF Goto, TypeOK
<1>4. Counted' /\ TcpGone' /\ UdpGone'
  BY <1>2 DEF Counted, TcpGone, UdpGone, udpVars
<1>5. LastOne'
  BY <1>2, <1>3 DEF LastOne
<1>6. SocketsOpen'
  BY <1>2, <1>3 DEF SocketsOpen, udpVars
<1>7. GameIsOver'
  BY <1>1, OverForGood DEF GameIsOver, udpVars
<1>8. OutOfLoop'
  BY <1>2, <1>3 DEF OutOfLoop, udpVars
<1>9. WinnerHasWon'
  BY DEF WinnerHasWon
<1> QED  BY <1>1, <1>4, <1>5, <1>6, <1>7, <1>8, <1>9

LEMMA HeadStep ==
  ASSUME EndInv, NEW p \in Player, Top(p)
  PROVE  EndInv'
<1>1. pc[p] = "top" /\ conn' = conn /\ killed' = killed /\ UNCHANGED <<sock, left, announced, udpVars>>
  BY DEF Top, LeaveDead
<1>2. conn' \in [Player -> {"up", "closed", "reset"}] /\ killed' \in BOOLEAN
  BY <1>1 DEF EndInv, TypeOK
<1>3. CASE p \notin sock \/ finished
  <2>1. Goto(p, "leave") /\ dead' = dead
    BY <1>3 DEF Top
  <2>2. finished \/ p \in dead'
    BY <1>1, <1>3, <2>1 DEF EndInv, SocketsOpen
  <2> QED  BY <1>1, <1>2, <2>1, <2>2, LoopStep
<1>4. CASE p \in sock /\ ~finished /\ conn[p] = "closed"
  <2>1. Goto(p, "leave") /\ dead' = dead \cup {p}
    BY <1>4 DEF Top, LeaveDead
  <2> QED  BY <1>1, <1>2, <2>1, LoopStep
<1>5. CASE p \in sock /\ ~finished /\ conn[p] # "closed"
  <2>1. Goto(p, "select") /\ dead' = dead
    BY <1>5 DEF Top
  <2> QED  BY <1>1, <1>2, <1>5, <2>1, LoopStep
<1> QED  BY <1>3, <1>4, <1>5

LEMMA SendType ==
  ASSUME NEW targets, SendTo(targets)
  PROVE  conn' \in [Player -> {"up", "closed", "reset"}] /\ killed' \in BOOLEAN
BY DEF SendTo

LEMMA SelectStep ==
  ASSUME EndInv, NEW p \in Player, SelectTimeout(p) \/ Chat(p) \/ ReadFails(p)
  PROVE  EndInv'
<1>1. pc[p] = "select" /\ UNCHANGED <<sock, left, announced, udpVars>>
  BY DEF SelectTimeout, Chat, ReadFails, LeaveDead
<1>2. conn' \in [Player -> {"up", "closed", "reset"}] /\ killed' \in BOOLEAN
  BY SendType DEF SelectTimeout, Chat, ReadFails, LeaveDead, EndInv, TypeOK
<1>3. CASE SelectTimeout(p) \/ Chat(p)
  <2>1. Goto(p, "top") /\ dead' = dead
    BY <1>3 DEF SelectTimeout, Chat
  <2> QED  BY <1>1, <1>2, <2>1, LoopStep
<1>4. CASE ReadFails(p)
  <2>1. Goto(p, "leave") /\ dead' = dead \cup {p}
    BY <1>4 DEF ReadFails, LeaveDead
  <2> QED  BY <1>1, <1>2, <2>1, LoopStep
<1> QED  BY <1>3, <1>4

LEMMA LeaveStep ==
  ASSUME EndInv, NEW p \in Player, Leave(p)
  PROVE  EndInv'
<1> USE DEF EndInv
<1>1. p \notin Out /\ Out \in SUBSET Player /\ left = Cardinality(Out)
  BY DEF Counted, Out, Leave
<1>2. /\ UNCHANGED <<sock, conn, announced, udpVars, dead, killed>>
      /\ \A q \in Player : q # p => pc'[q] = pc[q]
  BY DEF Leave, Goto, TypeOK
<1>3. \A q \in Player : pc[q] \notin {"announce", "close", "signal"}
  BY <1>1 DEF LastOne, Leave, Out, TypeOK
<1>4. CASE left = PlayerNum - 1
  <2>1. pc' \in [Player ->
                  {"top", "select", "leave", "announce", "close", "signal", "done"}]
        /\ pc'[p] = "announce" /\ left' = left
    BY <1>4 DEF Leave, Goto, TypeOK
  <2>2. Out' = Out
    BY <1>1, <1>2, <2>1 DEF Out
  <2>3. Out = Player \ {p}
    BY <1>1, <1>4, AllButOne
  <2>4. TypeOK'
    BY <1>2, <2>1 DEF TypeOK, udpVars
  <2>5. Counted' /\ TcpGone' /\ UdpGone' /\ GameIsOver' /\ WinnerHasWon'
    BY <1>2, <2>1, <2>2 DEF Counted, TcpGone, UdpGone, GameIsOver, is_game_over, WinnerHasWon, udpVars
  <2>6. LastOne'
    BY <1>2, <1>3, <2>2, <2>3 DEF LastOne
  <2>7. SocketsOpen' /\ OutOfLoop'
    BY <1>2, <2>1 DEF SocketsOpen, OutOfLoop, Leave, udpVars
  <2> QED  BY <2>4, <2>5, <2>6, <2>7
<1>5. CASE left # PlayerNum - 1
  <2>1. pc' \in [Player ->
                  {"top", "select", "leave", "announce", "close", "signal", "done"}]
        /\ pc'[p] = "done" /\ left' = left + 1
    BY <1>5 DEF Leave, Goto, TypeOK
  <2>2. Out' = Out \cup {p}
    BY <1>2, <2>1 DEF Out
  <2>3. Cardinality(Out') = left'
    BY <1>1, <2>1, <2>2, PlayersFinite, FS_AddElement
  <2>4. left' \in 0..PlayerNum - 1 /\ Out' # Player
    BY <1>5, <2>1, <2>3, PlayersFinite, PlayerNumAssumption DEF TypeOK
  <2>5. TypeOK'
    BY <1>2, <2>1, <2>4 DEF TypeOK, udpVars
  <2>6. Counted' /\ UdpGone' /\ GameIsOver' /\ WinnerHasWon'
    BY <1>2, <2>3, <2>4 DEF Counted, UdpGone, GameIsOver, is_game_over, WinnerHasWon, udpVars
  <2>7. TcpGone'
    BY <1>1, <1>2 DEF TcpGone, udpVars
  <2>8. LastOne' /\ SocketsOpen' /\ OutOfLoop'
    BY <1>2, <1>3, <2>1 DEF LastOne, SocketsOpen, OutOfLoop, Leave, udpVars
  <2> QED  BY <2>5, <2>6, <2>7, <2>8
<1> QED  BY <1>4, <1>5

\* What the last thread does: the others are gone.
LEMMA LastStep ==
  ASSUME EndInv, NEW p \in Player, Announce(p) \/ CloseSockets(p) \/ Signal(p)
  PROVE  EndInv'
<1> USE DEF EndInv
<1>1. Out = Player \ {p} /\ \A q \in Player \ {p} : pc[q] = "done"
  BY DEF LastOne, Out, Announce, CloseSockets, Signal
<1>2. left = PlayerNum - 1
  <2>1. Cardinality(Out) = PlayerNum - 1 /\ Out # Player
    BY <1>1, PlayersFinite, FS_RemoveElement
  <2> QED  BY <2>1 DEF Counted
<1>3. /\ pc' \in [Player ->
                  {"top", "select", "leave", "announce", "close", "signal", "done"}]
      /\ \A q \in Player \ {p} : pc'[q] = "done"
      /\ pc'[p] = IF pc[p] = "announce" THEN "close" ELSE IF pc[p] = "close" THEN "signal" ELSE "done"
      /\ pc[p] \in {"announce", "close", "signal"}
  BY <1>1 DEF Announce, CloseSockets, Signal, Goto, TypeOK
<1>4. UNCHANGED <<left, dead, finished, survivors, recv, freq, stopped>>
  BY DEF Announce, CloseSockets, Signal, udpVars
<1>5. finished \/ dead = Player
  BY <1>1, <1>3 DEF OutOfLoop, TypeOK
<1>6. GameIsOver'
  BY <1>4 DEF GameIsOver, is_game_over, Announce, CloseSockets, Signal, udpVars
<1>7. OutOfLoop'
  BY <1>4, <1>5 DEF OutOfLoop
<1>8. CASE Announce(p)
  <2>1. UNCHANGED <<sock, udpVars, dead>> /\ announced' = winner /\ pc[p] = "announce"
    BY <1>8 DEF Announce
  <2>2. conn' \in [Player -> {"up", "closed", "reset"}] /\ killed' \in BOOLEAN
    BY <1>8, SendType DEF Announce
  <2>3. \A q \in Player : pc[q] \notin {"top", "select"}
    BY <1>1, <2>1
  <2>4. /\ winner \in {-1, 0, 1} \cup Player
        /\ winner \in Player =>
              IF GameMode = "SOLO" THEN Player \ dead \subseteq {winner}
                                   ELSE (IF winner = 0 THEN Team2 ELSE Team1) \subseteq dead
    BY <2>3, WinnerWins
  <2>5. TypeOK'
    BY <1>3, <1>4, <2>1, <2>2, <2>4 DEF TypeOK, udpVars
  <2>6. WinnerHasWon'
    BY <2>1, <2>4 DEF WinnerHasWon
  <2>7. Out' = Out
    BY <1>1, <1>3, <2>1 DEF Out
  <2>8. Counted' /\ TcpGone' /\ UdpGone' /\ LastOne'
    BY <1>1, <1>3, <1>4, <2>1, <2>7 DEF Counted, TcpGone, UdpGone, LastOne, udpVars
  <2>9. SocketsOpen'
    BY <1>3, <2>1 DEF SocketsOpen, udpVars
  <2> QED  BY <1>6, <1>7, <2>5, <2>6, <2>8, <2>9
<1>9. CASE CloseSockets(p)
  <2>1. sec' = sec /\ sock' = {} /\ udpOpen' = FALSE /\ pc[p] = "close"
        /\ UNCHANGED <<conn, announced, killed>>
    BY <1>9 DEF CloseSockets
  <2>2. TypeOK'
    BY <1>3, <1>4, <2>1 DEF TypeOK
  <2>3. WinnerHasWon'
    BY <1>4, <2>1 DEF WinnerHasWon
  <2>4. Out' = Out
    BY <1>1, <1>3, <2>1 DEF Out
  <2>5. Counted' /\ TcpGone' /\ UdpGone' /\ LastOne'
    BY <1>1, <1>3, <1>4, <2>1, <2>4 DEF Counted, TcpGone, UdpGone, LastOne
  <2>6. SocketsOpen'
    BY <1>3, <2>1 DEF SocketsOpen
  <2> QED  BY <1>6, <1>7, <2>2, <2>3, <2>5, <2>6
<1>10. CASE Signal(p)
  <2>1. /\ sec' = (IF sec = "waitTcp" THEN "tcpClosed" ELSE sec) /\ pc[p] = "signal"
        /\ UNCHANGED <<sock, conn, announced, udpOpen, killed>>
    BY <1>10 DEF Signal
  <2>2. TypeOK'
    BY <1>3, <1>4, <2>1 DEF TypeOK
  <2>3. WinnerHasWon'
    BY <1>4, <2>1 DEF WinnerHasWon
  <2>4. Out' = Player
    BY <1>3, <2>1 DEF Out
  <2>5. Counted' /\ TcpGone'
    BY <1>2, <1>4, <2>4 DEF Counted, TcpGone
  <2>6. UdpGone'
    BY <1>4, <2>1 DEF UdpGone, TypeOK
  <2>7. LastOne' /\ SocketsOpen'
    BY <1>3, <2>1 DEF SocketsOpen, LastOne
  <2> QED  BY <1>6, <1>7, <2>2, <2>3, <2>5, <2>6, <2>7
<1> QED  BY <1>8, <1>9, <1>10

-----------------------------------------------------------------------------
(* The threads of the match. *)

\* Steps that leave the TCP threads alone.
LEMMA SameTcp ==
  ASSUME EndInv, UNCHANGED tcpVars, udpOpen' = udpOpen
  PROVE  /\ Out' = Out /\ Counted' /\ LastOne'
         /\ dead \subseteq dead' => SocketsOpen' /\ WinnerHasWon'
BY DEF EndInv, tcpVars, Out, Counted, LastOne, SocketsOpen, WinnerHasWon

LEMMA SecStep ==
  ASSUME EndInv, serve_clients_send_mult_sec
  PROVE  EndInv'
<1> USE DEF EndInv
<1>1. UNCHANGED <<tcpVars, udpOpen, recv, freq, stopped, killed>>
  BY DEF serve_clients_send_mult_sec, SecBombs, SecCheck, SecFlag, SecWaits, SecCleansUp
<1>2. dead \subseteq dead' /\ dead' \subseteq Player
  BY DEF serve_clients_send_mult_sec, SecBombs, SecCheck, SecFlag, SecWaits, SecCleansUp, TypeOK
<1>3. TypeOK'
  <2>1. /\ sec' \in {"round", "check", "over", "flagged", "waitTcp", "tcpClosed",
                     "waitUdp", "udpStopped", "done"}
        /\ finished' \in BOOLEAN
    BY DEF serve_clients_send_mult_sec, SecBombs, SecCheck, SecFlag, SecWaits, SecCleansUp, SecGoto,
           TypeOK
  <2>2. survivors' \subseteq Player
    BY DEF serve_clients_send_mult_sec, SecBombs, SecCheck, SecFlag, SecWaits, SecCleansUp, TypeOK
  <2> QED  BY <1>1, <1>2, <2>1, <2>2 DEF TypeOK, tcpVars
<1>4. Out' = Out /\ Counted' /\ LastOne' /\ SocketsOpen' /\ WinnerHasWon'
  BY <1>1, <1>2, SameTcp
<1>5. finished => finished'
  BY DEF serve_clients_send_mult_sec, SecBombs, SecCheck, SecFlag, SecWaits, SecCleansUp
<1>6. GameIsOver'
  <2>1. (finished' \/ sec' = "over") => is_game_over
    BY DEF serve_clients_send_mult_sec, SecBombs, SecCheck, SecFlag, SecWaits, SecCleansUp, SecGoto,
           GameIsOver
  <2> QED  BY <1>2, <1>3, <2>1, OverForGood DEF GameIsOver
<1>7. OutOfLoop'
  BY <1>1, <1>2, <1>5 DEF OutOfLoop, tcpVars
<1>8. TcpGone' /\ UdpGone'
  BY <1>1, <1>4 DEF serve_clients_send_mult_sec, SecBombs, SecCheck, SecFlag, SecWaits, SecCleansUp,
                    SecGoto, TcpGone, UdpGone
<1> QED  BY <1>3, <1>4, <1>6, <1>7, <1>8

LEMMA UdpStep ==
  ASSUME EndInv, RecvTop \/ RecvReturns \/ FreqTop \/ RecvStops \/ FreqStops
  PROVE  EndInv'
<1> USE DEF EndInv
<1>1. UNCHANGED <<tcpVars, udpOpen, finished, survivors, dead, killed>>
  BY DEF RecvTop, RecvReturns, FreqTop, RecvStops, FreqStops, Stop
<1>2. Out' = Out /\ Counted' /\ LastOne' /\ SocketsOpen' /\ WinnerHasWon'
  BY <1>1, SameTcp
<1>3. UdpGone' /\ stopped' \in 0..2
      /\ recv' \in {"top", "recvfrom", "sleep", "done"} /\ freq' \in {"top", "sleep", "done"}
  BY DEF RecvTop, RecvReturns, FreqTop, RecvStops, FreqStops, Stop, UdpGone, TypeOK
<1>4. sec' = sec \/ (sec = "waitUdp" /\ sec' = "udpStopped")
  BY DEF RecvTop, RecvReturns, FreqTop, RecvStops, FreqStops, Stop
<1>5. TypeOK'
  BY <1>1, <1>3, <1>4 DEF TypeOK, tcpVars
<1>6. GameIsOver' /\ OutOfLoop' /\ TcpGone'
  BY <1>1, <1>2, <1>4 DEF GameIsOver, is_game_over, OutOfLoop, TcpGone, tcpVars
<1> QED  BY <1>2, <1>3, <1>5, <1>6

-----------------------------------------------------------------------------
(* The theorems. *)

LEMMA EndInitially == Init => EndInv
<1> SUFFICES ASSUME Init PROVE EndInv
  OBVIOUS
<1>1. TypeOK
  <2>1. sock \subseteq Player /\ dead \subseteq Player
    BY PlayersAssumption DEF Init
  <2>2. pc \in [Player ->
                 {"top", "select", "leave", "announce", "close", "signal", "done"}]
        /\ conn \in [Player -> {"up", "closed", "reset"}]
    BY DEF Init
  <2>3. left \in 0..PlayerNum - 1
    BY PlayerNumAssumption DEF Init
  <2>4. announced \in {Nobody, -1, 0, 1} \cup Player
    BY DEF Init
  <2>5. /\ finished \in BOOLEAN /\ udpOpen \in BOOLEAN /\ killed \in BOOLEAN
        /\ survivors \subseteq Player
    BY DEF Init
  <2>6. /\ sec \in {"round", "check", "over", "flagged", "waitTcp", "tcpClosed",
                    "waitUdp", "udpStopped", "done"}
        /\ recv \in {"top", "recvfrom", "sleep", "done"} /\ freq \in {"top", "sleep", "done"}
        /\ stopped \in 0..2
    BY DEF Init
  <2> QED  BY <2>1, <2>2, <2>3, <2>4, <2>5, <2>6 DEF TypeOK
<1>2. Out = {} /\ Player # {} /\ Cardinality({}) = 0
  BY PlayerNumAssumption, FS_EmptySet DEF Init, Out, Player
<1>3. Counted /\ LastOne /\ TcpGone /\ UdpGone
  BY <1>2 DEF Init, Counted, LastOne, TcpGone, UdpGone
<1>4. SocketsOpen /\ GameIsOver /\ OutOfLoop
  BY DEF Init, SocketsOpen, GameIsOver, OutOfLoop
<1>5. WinnerHasWon
  BY DEF Init, WinnerHasWon, Nobody, Player
<1> QED  BY <1>1, <1>3, <1>4, <1>5 DEF EndInv

THEOREM EndInvariant == Spec => []EndInv
<1>1. EndInv /\ [Next]_vars => EndInv'
  <2> SUFFICES ASSUME EndInv, [Next]_vars PROVE EndInv'
    OBVIOUS
  <2>1. CASE serve_clients_send_mult_sec
    BY <2>1, SecStep
  <2>2. ASSUME NEW p \in Player, handle_tcp_communication(p) PROVE EndInv'
    BY <2>2, HeadStep, SelectStep, LeaveStep, LastStep DEF handle_tcp_communication
  <2>3. ASSUME NEW p \in Player, ClientCloses(p) PROVE EndInv'
    <3>1. conn' \in [Player -> {"up", "closed", "reset"}]
      BY <2>3 DEF ClientCloses, EndInv, TypeOK
    <3>2. killed' \in BOOLEAN /\ UNCHANGED <<pc, sock, left, announced, udpVars, dead>>
      BY <2>3 DEF ClientCloses, EndInv, TypeOK
    <3> QED  BY <3>1, <3>2, SameButConnections
  <2>4. CASE RecvTop \/ RecvReturns \/ FreqTop \/ RecvStops \/ FreqStops
    BY <2>4, UdpStep
  <2>5. CASE UNCHANGED vars
    <3>1. conn' = conn /\ killed' = killed /\ UNCHANGED <<pc, sock, left, announced, udpVars, dead>>
      BY <2>5 DEF vars, tcpVars
    <3> QED  BY <3>1, SameButConnections DEF EndInv, TypeOK
  <2> QED  BY <2>1, <2>2, <2>3, <2>4, <2>5 DEF Next
<1> QED  BY <1>1, EndInitially, PTL DEF Spec

\* Every variable keeps its type; in particular no thread counts itself twice
\* (network_server.c:1281-1300, 811-832).
THEOREM EndTypeCorrect == Spec => []TypeOK
<1>1. EndInv => TypeOK
  BY DEF EndInv
<1> QED  BY <1>1, EndInvariant, PTL

\* The sockets are closed by the last TCP thread, when the others are gone, and
\* no thread selects on a socket that was closed.
THEOREM LastOneCloses == Spec => []ClosedByTheLast
<1>1. EndInv => ClosedByTheLast
  BY DEF EndInv, LastOne, SocketsOpen, Out, ClosedByTheLast
<1> QED  BY <1>1, EndInvariant, PTL

\* The locks and the game are freed when no other thread of the match runs.
THEOREM LastOneCleansUp == Spec => []CleanedUpLast
<1>1. EndInv => CleanedUpLast
  <2> SUFFICES ASSUME EndInv, sec \in {"udpStopped", "done"}
               PROVE  Done /\ recv = "done" /\ freq = "done"
    BY DEF CleanedUpLast
  <2>1. Out = Player /\ stopped = 2
    BY DEF EndInv, TcpGone, UdpGone
  <2> QED  BY <2>1 DEF EndInv, UdpGone, Out, Done
<1> QED  BY <1>1, EndInvariant, PTL

\* Whoever is announced as the winner has won, whatever the order in which
\* players die, leave and are told.
THEOREM RightWinner == Spec => []WinnerHasWon
<1>1. EndInv => WinnerHasWon
  BY DEF EndInv
<1> QED  BY <1>1, EndInvariant, PTL
=============================================================================
