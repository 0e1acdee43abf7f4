-------------------------- MODULE MatchStart_proofs --------------------------
(***************************************************************************)
(* Proofs about MatchStart, for any number of players: neither barrier     *)
(* loses a player.                                                         *)
(*                                                                         *)
(* The argument for the first barrier.  The lock serialises the threads,   *)
(* so the number of counted threads does not change between the load and   *)
(* the store of an increment; the unlocked write of the main thread puts   *)
(* in the counter the number of threads born so far, at least the number   *)
(* of those counted.  Hence the counter is never below the number counted, *)
(* and the last thread to test it finds PLAYER_NUM.                        *)
(***************************************************************************)
EXTENDS MatchStart, FiniteSetTheorems, TLAPS

AtSecond == {p \in Player : pc[p] \in AtReady}

Exclusive == \A p, q \in Player : pc[p] \in InJoin /\ pc[q] \in InJoin => p = q
BornInOrder == \A p \in Player : pc[p] = "none" <=> p >= next
LoadedEnough ==
  ~released => \A p \in Player : pc[p] = "store" => reg[p] >= Cardinality(Counted)
FullIsTested ==
  connected = PlayerNum => \E p \in Player : pc[p] = "test"
FreedIsZero == released => connected = 0
ReadyCounted == ready = Cardinality(AtSecond)
Fresh == Joining \cup InJoin \cup {"joinWait", "info", "poll", "spin"}
Settled(p) ==
  /\ pc[p] = "none" => p \notin sock /\ p \notin dead
  /\ pc[p] = "timedOut" => p \in sock /\ p \in dead
  /\ pc[p] \in Fresh => p \in sock /\ p \notin dead
  /\ pc[p] \in {"ready"} \cup AtReady => (p \in sock <=> p \notin dead)
SockOrDead == \A p \in Player : Settled(p)

JoinInv == /\ Exclusive /\ BornInOrder
           /\ JoinsCounted /\ LoadedEnough
           /\ FullIsTested /\ FreedIsZero
           /\ BarrierOpens
ReadyInv == ReadyCounted /\ SockOrDead /\ StartsWithEveryone
Inv == TypeOK /\ JoinInv /\ ReadyInv

-----------------------------------------------------------------------------
(* Sets of players. *)

\* A set of players is finite, has at most PlayerNum members, and has that
\* many only when it holds them all.
LEMMA PlayerSets ==
  ASSUME NEW S \in SUBSET Player
  PROVE  /\ IsFiniteSet(S)
         /\ Cardinality(S) \in 0..PlayerNum
         /\ Cardinality(S) = PlayerNum <=> S = Player
<1>1. IsFiniteSet(Player) /\ Cardinality(Player) = PlayerNum
  BY FS_Interval, PlayerNumAssumption DEF Player
<1>2. IsFiniteSet(S) /\ Cardinality(S) <= Cardinality(Player) /\ Cardinality(S) \in Nat
  BY <1>1, FS_Subset, FS_CardinalityType
<1>3. Cardinality(S) = Cardinality(Player) => S = Player
  BY <1>1, FS_Subset
<1> QED  BY <1>1, <1>2, <1>3, PlayerNumAssumption

\* The players placed before the k-th one number k.
LEMMA FirstPlayers ==
  ASSUME NEW S \in SUBSET Player, NEW k \in 0..PlayerNum, \A p \in S : p < k
  PROVE  Cardinality(S) <= k
<1>1. IsFiniteSet(0..k - 1) /\ Cardinality(0..k - 1) = k
  BY FS_Interval, PlayerNumAssumption
<1>2. S \subseteq 0..k - 1
  BY PlayerNumAssumption DEF Player
<1> QED  BY <1>1, <1>2, FS_Subset

\* One more player makes one more.
LEMMA OneMore ==
  ASSUME NEW S \in SUBSET Player, NEW p \in Player, p \notin S
  PROVE  Cardinality(S \cup {p}) = Cardinality(S) + 1
BY PlayerSets, FS_AddElement

-----------------------------------------------------------------------------
(* Type correctness. *)

LEMMA InitInv == Init => Inv
<1> SUFFICES ASSUME Init PROVE Inv
  OBVIOUS
<1>1. Counted = {} /\ AtSecond = {}
  BY DEF Init, Counted, AtSecond, Unborn, AtReady
<1>2. Cardinality({}) = 0
  BY FS_EmptySet
<1>3. PlayerNum \in Nat /\ PlayerNum > 0 /\ 0 \in Player
  BY PlayerNumAssumption DEF Player
<1>4. TypeOK
  <2>1. pc \in [Player -> Place]
    BY DEF Init, Place, Unborn
  <2>2. reg \in [Player -> 0..PlayerNum - 1]
    BY <1>3 DEF Init
  <2>3. conn \in [Player -> {"up", "closed", "reset"}]
    BY DEF Init
  <2>4. released \in BOOLEAN /\ started \in BOOLEAN /\ killed \in BOOLEAN
    BY DEF Init
  <2>5. next \in 0..PlayerNum /\ connected \in 0..PlayerNum /\ ready \in 0..PlayerNum
    BY <1>3 DEF Init
  <2>6. sock \subseteq Player /\ dead \subseteq Player
    BY DEF Init
  <2> QED  BY <2>1, <2>2, <2>3, <2>4, <2>5, <2>6 DEF TypeOK
<1>5. JoinInv
  BY <1>1, <1>2, <1>3
  DEF Init, JoinInv, Exclusive, BornInOrder, JoinsCounted, LoadedEnough,
      FullIsTested, FreedIsZero, BarrierOpens, InJoin, Unborn, Player
<1>6. ReadyInv
  <2>1. SockOrDead
    BY DEF Init, SockOrDead, Settled, Fresh, Joining, InJoin, AtReady
  <2> QED  BY <1>1, <1>2, <2>1 DEF Init, ReadyInv, ReadyCounted, StartsWithEveryone
<1> QED  BY <1>4, <1>5, <1>6 DEF Inv

\* The counter written by a thread stays within PLAYER_NUM because no thread
\* can load PLAYER_NUM: a full counter is still to be tested, under the lock.
LEMMA TypeStep == Inv /\ [Next]_vars => TypeOK'
<1> SUFFICES ASSUME Inv, [Next]_vars PROVE TypeOK'
  OBVIOUS
<1> USE PlayerNumAssumption DEF TypeOK, Inv, Goto
<1>1. CASE Connect
  <2>1. connected' \in 0..PlayerNum /\ next' \in 0..PlayerNum /\ next \in Player
    BY <1>1 DEF Connect, Write, Player
  <2>2. pc' \in [Player -> Place]
    BY <1>1 DEF Connect, Place, Joining
  <2> QED  BY <1>1, <2>1, <2>2 DEF Connect
<1>2. ASSUME NEW p \in Player, JoinLoad(p) PROVE TypeOK'
  <2>1. connected # PlayerNum
    BY <1>2 DEF JoinLoad, JoinLocked, JoinInv, FullIsTested, InJoin
  <2> QED  BY <1>2, <2>1 DEF JoinLoad, Place, Joining
<1>3. ASSUME NEW p \in Player, JoinStore(p) PROVE TypeOK'
  BY <1>3 DEF JoinStore, Write, Place, InJoin
<1>4. ASSUME NEW p \in Player, Release(p) PROVE TypeOK'
  BY <1>4 DEF Release, Place, Prepares
<1>5. ASSUME NEW p \in Player, JoinWait(p) PROVE TypeOK'
  BY <1>5 DEF JoinWait, Place
<1>6. CASE Abort
  BY <1>6 DEF Abort
<1>7. ASSUME NEW p \in Player, JoinTest(p) PROVE TypeOK'
  BY <1>4, <1>5, <1>6, <1>7 DEF JoinTest, DoubleFree
<1>8. ASSUME NEW p \in Player, SpuriousJoin(p) \/ SendInfo(p) PROVE TypeOK'
  BY <1>8 DEF SpuriousJoin, SendInfo, Place, Prepares
<1>9. ASSUME NEW p \in Player, ReadHeader(p) \/ ReadEndOfFile(p) PROVE TypeOK'
  BY <1>9 DEF ReadHeader, ReadEndOfFile, Place, Prepares
<1>10. ASSUME NEW p \in Player, PollTimeout(p) \/ DropSilentClient(p) PROVE TypeOK'
  BY <1>10 DEF PollTimeout, DropSilentClient, Place, Prepares
<1>11. ASSUME NEW p \in Player, ReadyArrive(p) PROVE TypeOK'
  <2>1. ready + 1 <= PlayerNum
    <3>1. AtSecond \in SUBSET Player /\ p \in Player /\ p \notin AtSecond
      BY <1>11 DEF ReadyArrive, AtSecond, AtReady
    <3>2. ready = Cardinality(AtSecond) /\ AtSecond # Player
      BY <3>1 DEF ReadyInv, ReadyCounted
    <3> QED  BY <3>1, <3>2, PlayerSets
  <2>2. ready' \in 0..PlayerNum
    BY <1>11, <2>1 DEF ReadyArrive
  <2>3. pc' \in [Player -> Place] /\ started' \in BOOLEAN
    BY <1>11 DEF ReadyArrive, Place, AtReady
  <2> QED  BY <1>11, <2>2, <2>3 DEF ReadyArrive
<1>12. ASSUME NEW p \in Player, SpuriousReady(p) \/ ClientCloses(p) PROVE TypeOK'
  BY <1>12 DEF SpuriousReady, ClientCloses, Place, AtReady
<1>13. CASE UNCHANGED vars
  BY <1>13 DEF vars
<1> QED
  BY <1>1, <1>2, <1>3, <1>7, <1>8, <1>9, <1>10, <1>11, <1>12, <1>13
  DEF Next, serve_client_tcp

\* A step that is neither an increment of a thread nor a connection leaves the
\* counter alone and does not change who is counted.
LEMMA JoinStep == Inv /\ [Next]_vars => JoinInv'
<1> SUFFICES ASSUME Inv, [Next]_vars PROVE JoinInv'
  OBVIOUS
<1>t. TypeOK /\ TypeOK'
  BY TypeStep DEF Inv
<1>c. Counted \in SUBSET Player /\ Cardinality(Counted) \in 0..PlayerNum
  BY PlayerSets DEF Counted
<1>n. PlayerNum \in Nat /\ PlayerNum > 0
  BY PlayerNumAssumption
<1> USE DEF Inv, Goto
<1>1. CASE Connect
  <2>1. next \in Player /\ pc[next] = "none" /\ pc'[next] = "join"
    BY <1>1, <1>t, <1>n DEF Connect, TypeOK, Player, JoinInv, BornInOrder
  <2>2. pc' = [pc EXCEPT ![next] = "join"]
    BY <1>1 DEF Connect
  <2>3. Counted' = Counted
    BY <1>t, <2>1, <2>2 DEF Counted, TypeOK, Unborn, Joining
  <2>4. Cardinality(Counted) <= next
    <3>1. \A p \in Counted : p < next
      BY <1>t DEF JoinInv, BornInOrder, Counted, Unborn, TypeOK, Player
    <3> QED  BY <1>c, <1>t, <3>1, FirstPlayers DEF TypeOK
  <2>5. JoinsCounted'
    BY <1>1, <2>3, <2>4 DEF Connect, JoinsCounted, Write
  <2>6. LoadedEnough' /\ Exclusive'
    BY <1>1, <1>t, <2>1, <2>2, <2>3
    DEF Connect, JoinInv, LoadedEnough, Exclusive, TypeOK, InJoin
  <2>7. BornInOrder'
    BY <1>1, <1>t, <2>1, <2>2 DEF Connect, JoinInv, BornInOrder, TypeOK, Player
  <2>8. FullIsTested' /\ FreedIsZero'
    BY <1>1, <1>t, <1>n DEF Connect, Write, FullIsTested, FreedIsZero, TypeOK
  <2>9. BarrierOpens'
    BY <1>t, <2>1 DEF BarrierOpens, Joining
  <2> QED  BY <2>5, <2>6, <2>7, <2>8, <2>9 DEF JoinInv
<1>2. ASSUME NEW p \in Player, JoinLoad(p) PROVE JoinInv'
  <2>1. pc[p] = "join" /\ pc' = [pc EXCEPT ![p] = "store"] /\ ~JoinLocked
    BY <1>2 DEF JoinLoad
  <2>2. Counted' = Counted
    BY <1>t, <2>1 DEF Counted, TypeOK, Unborn, Joining
  <2>3. UNCHANGED <<next, connected, released>>
    BY <1>2 DEF JoinLoad
  <2>4. JoinsCounted' /\ BornInOrder' /\ BarrierOpens'
    BY <1>t, <2>1, <2>2, <2>3
    DEF JoinInv, JoinsCounted, BornInOrder, BarrierOpens, Joining, InJoin, TypeOK
  <2>5. Exclusive' /\ FullIsTested' /\ FreedIsZero'
    BY <1>t, <2>1, <2>3
    DEF JoinInv, Exclusive, FullIsTested, FreedIsZero, JoinLocked, InJoin, TypeOK
  <2>6. LoadedEnough'
    <3>1. \A q \in Player : pc'[q] = "store" => q = p
      BY <1>t, <2>1 DEF JoinLocked, InJoin, TypeOK
    <3>2. reg'[p] = connected
      BY <1>2, <1>t DEF JoinLoad, TypeOK
    <3> QED  BY <2>2, <2>3, <3>1, <3>2 DEF JoinInv, LoadedEnough, JoinsCounted
  <2> QED  BY <2>4, <2>5, <2>6 DEF JoinInv
<1>3. ASSUME NEW p \in Player, JoinStore(p) PROVE JoinInv'
  <2>1. pc[p] = "store" /\ pc' = [pc EXCEPT ![p] = "test"]
    BY <1>3 DEF JoinStore
  <2>2. UNCHANGED <<next, released>> /\ Write(reg[p] + 1)
    BY <1>3 DEF JoinStore
  <2>3. Counted' = Counted \cup {p} /\ p \notin Counted
    BY <1>t, <2>1 DEF Counted, TypeOK, Unborn, Joining
  <2>4. Cardinality(Counted') = Cardinality(Counted) + 1
    BY <1>c, <2>3, OneMore
  <2>5. JoinsCounted'
    BY <1>t, <1>c, <2>1, <2>2, <2>4 DEF JoinInv, LoadedEnough, JoinsCounted, Write, TypeOK
  <2>6. \A q \in Player : pc'[q] \in InJoin => q = p
    BY <1>t, <2>1 DEF JoinInv, Exclusive, InJoin, TypeOK
  <2>7. Exclusive' /\ LoadedEnough'
    BY <1>t, <2>1, <2>6 DEF Exclusive, LoadedEnough, InJoin, TypeOK
  <2>8. FullIsTested' /\ BarrierOpens'
    BY <1>t, <2>1 DEF FullIsTested, BarrierOpens, InJoin, TypeOK
  <2>9. BornInOrder' /\ FreedIsZero'
    BY <1>t, <2>1, <2>2 DEF JoinInv, BornInOrder, FreedIsZero, Write, TypeOK
  <2> QED  BY <2>5, <2>7, <2>8, <2>9 DEF JoinInv
<1>4. ASSUME NEW p \in Player, pc[p] = "test", Release(p) PROVE JoinInv'
  <2>1. pc' = [q \in Player |-> IF q = p \/ pc[q] = "joinWait" THEN "info" ELSE pc[q]]
    BY <1>4 DEF Release
  <2>2. released' /\ next' = next /\ connected' = 0
    BY <1>4 DEF Release
  <2>3. JoinsCounted' /\ LoadedEnough' /\ BarrierOpens' /\ FullIsTested'
       /\ FreedIsZero'
    BY <1>n, <2>2
    DEF JoinsCounted, LoadedEnough, BarrierOpens, FullIsTested, FreedIsZero
  <2>4. Exclusive' /\ BornInOrder'
    BY <1>4, <2>1, <2>2 DEF JoinInv, Exclusive, BornInOrder, InJoin
  <2> QED  BY <2>3, <2>4 DEF JoinInv
<1>5. ASSUME NEW p \in Player, JoinTest(p) PROVE JoinInv'
  <2>0. pc[p] = "test"
    BY <1>5 DEF JoinTest
  <2>1. CASE JoinWait(p) /\ (released \/ connected # PlayerNum)
    <3>1. pc' = [pc EXCEPT ![p] = "joinWait"] /\ UNCHANGED <<next, connected, reg, released>>
      BY <2>1 DEF JoinWait
    <3>2. Counted' = Counted
      BY <1>t, <2>0, <3>1 DEF Counted, TypeOK, Unborn, Joining
    <3>3. JoinsCounted' /\ LoadedEnough' /\ BornInOrder' /\ Exclusive'
      BY <1>t, <2>0, <3>1, <3>2
      DEF JoinInv, JoinsCounted, LoadedEnough, BornInOrder, Exclusive, InJoin, TypeOK
    <3>4. FullIsTested'
      <4>1. connected # PlayerNum
        BY <1>n, <1>t, <2>0, <2>1 DEF JoinInv, FreedIsZero
      <4> QED  BY <3>1, <4>1 DEF FullIsTested
    <3>5. ASSUME ~released PROVE BarrierOpens'
      <4>1. Cardinality(Counted) # PlayerNum
        BY <1>t, <1>c, <1>n, <2>1, <3>5 DEF JoinInv, JoinsCounted, TypeOK
      <4>2. PICK q \in Player : pc[q] \in Unborn \cup Joining
        BY <1>c, <4>1, PlayerSets DEF Counted
      <4>3. pc'[q] = pc[q]
        BY <1>t, <2>0, <3>1, <4>2 DEF TypeOK, Unborn, Joining
      <4> QED  BY <4>2, <4>3 DEF BarrierOpens
    <3>6. BarrierOpens'
      BY <3>1, <3>5 DEF BarrierOpens
    <3> QED  BY <3>3, <3>4, <3>6, <3>1 DEF JoinInv, FreedIsZero
  <2>2. CASE Abort
    BY <2>2 DEF Abort, JoinInv, Exclusive, BornInOrder, JoinsCounted, LoadedEnough,
         FullIsTested, FreedIsZero, BarrierOpens, Counted
  <2>3. CASE Release(p)
    BY <1>4, <2>0, <2>3
  <2> QED  BY <1>5, <2>1, <2>2, <2>3 DEF JoinTest, DoubleFree
<1>6. ASSUME \A q \in Player : \/ pc'[q] = pc[q]
                               \/ /\ pc[q] \notin Unborn \cup Joining \cup InJoin
                                  /\ pc'[q] \notin Unborn \cup Joining \cup InJoin,
             UNCHANGED <<next, connected, reg, released>>
      PROVE  JoinInv'
  <2>1. Counted' = Counted
    BY <1>6 DEF Counted
  <2>2. \A q \in Player : \A l \in Unborn \cup Joining \cup InJoin :
           pc'[q] = l <=> pc[q] = l
    BY <1>6
  <2>3. JoinsCounted' /\ LoadedEnough'
    BY <1>6, <2>1, <2>2 DEF JoinInv, JoinsCounted, LoadedEnough, Joining
  <2>4. Exclusive' /\ BornInOrder'
    BY <1>6 DEF JoinInv, Exclusive, BornInOrder, Unborn
  <2>5. FullIsTested' /\ FreedIsZero'
    BY <1>6, <2>2 DEF JoinInv, FullIsTested, FreedIsZero, InJoin
  <2>6. BarrierOpens'
    BY <1>6 DEF JoinInv, BarrierOpens
  <2> QED  BY <2>3, <2>4, <2>5, <2>6 DEF JoinInv
<1> DEFINE Beyond == {"joinWait"} \cup Prepares \cup AtReady
<1>7. \A l \in Beyond : l \notin Unborn \cup Joining \cup InJoin
  BY DEF Prepares, AtReady, Unborn, Joining, InJoin
<1>8. ASSUME NEW p \in Player, NEW l \in Beyond, pc[p] \in Beyond, Goto(p, l),
             UNCHANGED <<next, connected, reg, released>>
      PROVE  JoinInv'
  BY <1>t, <1>6, <1>7, <1>8 DEF TypeOK
<1>9. ASSUME NEW p \in Player, SpuriousJoin(p) \/ SendInfo(p) PROVE JoinInv'
  BY <1>8, <1>9 DEF SpuriousJoin, SendInfo, Prepares
<1>10. ASSUME NEW p \in Player, ReadHeader(p) \/ ReadEndOfFile(p) PROVE JoinInv'
  BY <1>8, <1>10 DEF ReadHeader, ReadEndOfFile, Prepares
<1>11. ASSUME NEW p \in Player, PollTimeout(p) \/ DropSilentClient(p) PROVE JoinInv'
  BY <1>8, <1>11 DEF PollTimeout, DropSilentClient, Prepares
<1>12. ASSUME NEW p \in Player, ReadyArrive(p) PROVE JoinInv'
  <2>1. \A q \in Player : pc'[q] = pc[q] \/ (pc[q] \in Beyond /\ pc'[q] \in Beyond)
    BY <1>12, <1>t DEF ReadyArrive, TypeOK, Prepares, AtReady
  <2>2. UNCHANGED <<next, connected, reg, released>>
    BY <1>12 DEF ReadyArrive
  <2> QED  BY <1>6, <1>7, <2>1, <2>2
<1>13. ASSUME NEW p \in Player, SpuriousReady(p) PROVE JoinInv'
  BY <1>8, <1>13 DEF SpuriousReady, AtReady
<1>14. ASSUME NEW p \in Player, ClientCloses(p) PROVE JoinInv'
  BY <1>6, <1>14 DEF ClientCloses
<1>15. CASE UNCHANGED vars
  BY <1>6, <1>15 DEF vars
<1> QED
  BY <1>1, <1>2, <1>3, <1>5, <1>9, <1>10, <1>11, <1>12, <1>13, <1>14, <1>15
  DEF Next, serve_client_tcp

\* Only an arrival changes who is counted at the second barrier, only the
\* connection and the timeout change a socket or a death.
LEMMA ReadyStep == Inv /\ [Next]_vars => ReadyInv'
<1> SUFFICES ASSUME Inv, [Next]_vars PROVE ReadyInv'
  OBVIOUS
<1>t. TypeOK /\ TypeOK'
  BY TypeStep DEF Inv
<1>c. AtSecond \in SUBSET Player
  BY DEF AtSecond
<1> USE DEF Inv, Goto
<1>1. ASSUME \A q \in Player : \/ pc'[q] = pc[q]
                               \/ /\ pc[q] \in Fresh
                                  /\ pc'[q] \in Fresh \/ pc'[q] = "ready",
             UNCHANGED <<ready, started, sock, dead>>
      PROVE  ReadyInv'
  <2>0. /\ \A l \in Fresh : l \notin {"none", "timedOut", "ready"} \cup AtReady
        /\ "ready" \notin {"none", "timedOut"} \cup AtReady
    BY DEF Fresh, AtReady, Joining, InJoin
  <2>1. AtSecond' = AtSecond
    BY <1>1, <2>0 DEF AtSecond
  <2>2. ReadyCounted'
    BY <1>1, <2>1 DEF ReadyInv, ReadyCounted
  <2>3. SockOrDead'
    BY <1>1, <2>0 DEF ReadyInv, SockOrDead, Settled
  <2>4. StartsWithEveryone'
    BY <1>1, <2>0 DEF ReadyInv, StartsWithEveryone, AtReady
  <2> QED  BY <2>2, <2>3, <2>4 DEF ReadyInv
<1>f. {"join", "store", "test", "joinWait", "info", "poll", "spin"} = Fresh
  BY DEF Fresh, Joining, InJoin
<1>m. ASSUME NEW p \in Player, NEW l \in Fresh \cup {"ready"}, pc[p] \in Fresh, Goto(p, l),
             UNCHANGED <<ready, started, sock, dead>>
      PROVE  ReadyInv'
  BY <1>1, <1>m, <1>t DEF TypeOK
<1>2. CASE Connect
  <2>1. next \in Player /\ pc[next] = "none" /\ pc' = [pc EXCEPT ![next] = "join"]
    BY <1>2, <1>t, PlayerNumAssumption
    DEF Connect, TypeOK, Player, JoinInv, BornInOrder
  <2>2. UNCHANGED <<ready, started, dead>> /\ sock' = sock \cup {next}
    BY <1>2 DEF Connect
  <2>3. AtSecond' = AtSecond
    BY <1>t, <2>1 DEF AtSecond, AtReady, TypeOK
  <2>4. ReadyCounted' /\ SockOrDead'
    BY <1>t, <2>1, <2>2, <2>3 DEF ReadyInv, ReadyCounted, SockOrDead, Settled, Fresh, AtReady, Joining, InJoin, TypeOK
  <2>5. StartsWithEveryone'
    BY <2>1, <2>2 DEF ReadyInv, StartsWithEveryone
  <2> QED  BY <2>4, <2>5 DEF ReadyInv
<1>3. ASSUME NEW p \in Player, JoinLoad(p) \/ JoinStore(p) PROVE ReadyInv'
  BY <1>m, <1>f, <1>3 DEF JoinLoad, JoinStore
<1>4. ASSUME NEW p \in Player, JoinTest(p) PROVE ReadyInv'
  <2>0. pc[p] = "test"
    BY <1>4 DEF JoinTest
  <2>1. CASE JoinWait(p)
    BY <1>m, <1>f, <2>0, <2>1 DEF JoinWait
  <2>2. CASE Release(p)
    <3>1. \A q \in Player : pc'[q] = pc[q] \/ (pc[q] \in Fresh /\ pc'[q] \in Fresh)
      BY <1>f, <2>0, <2>2 DEF Release
    <3>2. UNCHANGED <<ready, started, sock, dead>>
      BY <2>2 DEF Release
    <3> QED  BY <1>1, <3>1, <3>2
  <2>3. CASE Abort
    BY <1>1, <2>3 DEF Abort
  <2> QED  BY <1>4, <2>1, <2>2, <2>3 DEF JoinTest, DoubleFree
<1>5. ASSUME NEW p \in Player, SpuriousJoin(p) \/ SendInfo(p) PROVE ReadyInv'
  BY <1>m, <1>f, <1>5 DEF SpuriousJoin, SendInfo
<1>6. ASSUME NEW p \in Player, ReadHeader(p) \/ ReadEndOfFile(p) PROVE ReadyInv'
  BY <1>m, <1>f, <1>6 DEF ReadHeader, ReadEndOfFile
<1>7. ASSUME NEW p \in Player, PollTimeout(p) \/ DropSilentClient(p) PROVE ReadyInv'
  <2>1. PICK l \in {"poll", "timedOut"}, m \in {"timedOut", "ready"} :
           /\ pc[p] = l /\ pc' = [pc EXCEPT ![p] = m]
           /\ \/ l = "poll" /\ m = "timedOut" /\ dead' = dead \cup {p} /\ sock' = sock
              \/ l = "timedOut" /\ m = "ready" /\ sock' = sock \ {p} /\ dead' = dead
    BY <1>7 DEF PollTimeout, DropSilentClient
  <2>2. UNCHANGED <<ready, started>>
    BY <1>7 DEF PollTimeout, DropSilentClient
  <2>3. AtSecond' = AtSecond
    BY <1>t, <2>1 DEF AtSecond, AtReady, TypeOK
  <2>4. SockOrDead'
    <3>1. ASSUME NEW q \in Player, q # p PROVE pc'[q] = pc[q]
      BY <1>t, <2>1, <3>1 DEF TypeOK
    <3>2. pc'[p] = m
      BY <1>t, <2>1 DEF TypeOK
    <3>3. CASE l = "poll" /\ m = "timedOut" /\ dead' = dead \cup {p} /\ sock' = sock
      <4>1. p \in sock
        BY <1>t, <2>1, <3>3, <2>3 DEF ReadyInv, SockOrDead, Settled, Fresh, TypeOK
      <4> QED
        BY <3>1, <3>2, <3>3, <4>1
        DEF ReadyInv, SockOrDead, Settled, Fresh, Joining, InJoin, AtReady
    <3>4. CASE l = "timedOut" /\ m = "ready" /\ sock' = sock \ {p} /\ dead' = dead
      BY <2>1, <3>1, <3>2, <3>4
      DEF ReadyInv, SockOrDead, Settled, Fresh, Joining, InJoin, AtReady
    <3> QED  BY <2>1, <3>3, <3>4
  <2>5. ReadyCounted' /\ StartsWithEveryone'
    BY <2>1, <2>2, <2>3 DEF ReadyInv, ReadyCounted, StartsWithEveryone
  <2> QED  BY <2>4, <2>5 DEF ReadyInv
<1>8. ASSUME NEW p \in Player, ReadyArrive(p) PROVE ReadyInv'
  <2>1. pc[p] = "ready" /\ p \notin AtSecond
    BY <1>8 DEF ReadyArrive, AtSecond, AtReady
  <2>2. UNCHANGED <<sock, dead>> /\ ready' = ready + 1
    BY <1>8 DEF ReadyArrive
  <2>3. \A q \in Player : \/ q # p /\ pc'[q] = pc[q]
                          \/ q # p /\ pc[q] = "readyWait" /\ pc'[q] = "serve"
                          \/ q = p /\ pc'[q] \in AtReady
    <3>1. \/ pc' = [q \in Player |-> IF q = p \/ pc[q] = "readyWait" THEN "serve" ELSE pc[q]]
          \/ pc' = [pc EXCEPT ![p] = "readyWait"]
      BY <1>8 DEF ReadyArrive
    <3>2. CASE pc' = [pc EXCEPT ![p] = "readyWait"]
      <4>1. pc'[p] = "readyWait" /\ \A q \in Player \ {p} : pc'[q] = pc[q]
        BY <1>t, <3>2 DEF TypeOK
      <4>2. "readyWait" \in AtReady
        BY DEF AtReady
      <4> QED  BY <4>1, <4>2, Zenon
    <3>3. CASE pc' = [q \in Player |-> IF q = p \/ pc[q] = "readyWait" THEN "serve" ELSE pc[q]]
      <4>1. \A q \in Player : pc'[q] = IF q = p \/ pc[q] = "readyWait" THEN "serve" ELSE pc[q]
        BY <3>3
      <4>2. "serve" \in AtReady
        BY DEF AtReady
      <4> QED  BY <4>1, <4>2, Zenon
    <3> QED  BY <3>1, <3>2, <3>3
  <2>4. AtSecond' = AtSecond \cup {p}
    BY <2>3 DEF AtSecond, AtReady
  <2>5. ready' = Cardinality(AtSecond')
    BY <1>c, <2>1, <2>2, <2>4, OneMore DEF ReadyInv, ReadyCounted
  <2>6. SockOrDead'
    <3>1. ASSUME NEW q \in Player, pc'[q] = pc[q]
          PROVE  Settled(q)'
      BY <2>2, <3>1 DEF ReadyInv, SockOrDead, Settled
    <3>2. ASSUME NEW q \in Player, pc[q] \in {"ready"} \cup AtReady, pc'[q] \in AtReady
          PROVE  Settled(q)'
      BY <2>2, <3>2
      DEF ReadyInv, SockOrDead, Settled, Fresh, Joining, InJoin, AtReady
    <3> QED  BY <2>1, <2>3, <3>1, <3>2 DEF SockOrDead, AtReady
  <2>7. StartsWithEveryone'
    <3>1. ~started
      BY <2>1 DEF ReadyInv, StartsWithEveryone
    <3>2. CASE ready' = PlayerNum
      <4>1. AtSecond' = Player
        BY <1>c, <2>4, <2>5, <3>2, PlayerSets
      <4>2. pc' = [q \in Player |-> IF q = p \/ pc[q] = "readyWait" THEN "serve" ELSE pc[q]]
        BY <1>8, <3>2 DEF ReadyArrive
      <4>3. \A q \in Player : pc'[q] = "serve"
        BY <4>1, <4>2 DEF AtSecond, AtReady
      <4> QED  BY <2>6, <4>3 DEF SockOrDead, Settled, AtReady, StartsWithEveryone
    <3>3. CASE ready' # PlayerNum
      BY <1>8, <3>1, <3>3 DEF ReadyArrive, StartsWithEveryone
    <3> QED  BY <3>2, <3>3
  <2> QED  BY <2>5, <2>6, <2>7 DEF ReadyInv, ReadyCounted
<1>9. ASSUME NEW p \in Player, SpuriousReady(p) PROVE ReadyInv'
  <2>1. pc[p] = "readyWait" /\ pc' = [pc EXCEPT ![p] = "serve"]
    BY <1>9 DEF SpuriousReady
  <2>2. UNCHANGED <<ready, started, sock, dead>>
    BY <1>9 DEF SpuriousReady
  <2>3. AtSecond' = AtSecond
    BY <1>t, <2>1 DEF AtSecond, AtReady, TypeOK
  <2>4. ASSUME NEW q \in Player PROVE Settled(q)'
    <3>1. CASE q = p
      BY <1>t, <2>1, <2>2, <3>1
      DEF ReadyInv, SockOrDead, Settled, Fresh, AtReady, Joining, InJoin, TypeOK
    <3>2. CASE q # p
      BY <1>t, <2>1, <2>2, <3>2 DEF ReadyInv, SockOrDead, Settled, TypeOK
    <3> QED  BY <3>1, <3>2
  <2>5. ~started /\ ReadyCounted'
    BY <2>1, <2>2, <2>3 DEF ReadyInv, ReadyCounted, StartsWithEveryone
  <2> QED  BY <2>2, <2>4, <2>5 DEF ReadyInv, SockOrDead, StartsWithEveryone
<1>10. ASSUME NEW p \in Player, ClientCloses(p) PROVE ReadyInv'
  BY <1>1, <1>10 DEF ClientCloses
<1>11. CASE UNCHANGED vars
  BY <1>1, <1>11 DEF vars
<1> QED
  BY <1>2, <1>3, <1>4, <1>5, <1>6, <1>7, <1>8, <1>9, <1>10, <1>11
  DEF Next, serve_client_tcp

-----------------------------------------------------------------------------
(* The theorems. *)

LEMMA Invariance == Spec => []Inv
<1>1. Inv /\ [Next]_vars => Inv'
  BY TypeStep, JoinStep, ReadyStep DEF Inv
<1> QED  BY <1>1, InitInv, PTL DEF Spec

\* Every variable keeps its type: in particular the two counters never exceed
\* the number of players.
THEOREM StartTypeCorrect == Spec => []TypeOK
<1>1. Inv => TypeOK
  BY DEF Inv
<1> QED  BY <1>1, Invariance, PTL

\* However the main thread's writes of the counter fall between the loads and
\* the stores of the threads, no arrival at the first barrier is lost.
THEOREM NoJoinLost == Spec => []JoinsCounted
<1>1. Inv => JoinsCounted
  BY DEF Inv, JoinInv
<1> QED  BY <1>1, Invariance, PTL

\* The first barrier cannot hold all its threads: when all have tested the
\* counter, one of them has opened it.
THEOREM FirstBarrierOpens == Spec => []BarrierOpens
<1>1. Inv => BarrierOpens
  BY DEF Inv, JoinInv
<1> QED  BY <1>1, Invariance, PTL

\* The match starts only once each player's thread has passed the second
\* barrier, and then has a socket for exactly the living players.
THEOREM StartsTogether == Spec => []StartsWithEveryone
<1>1. Inv => StartsWithEveryone
  BY DEF Inv, ReadyInv
<1> QED  BY <1>1, Invariance, PTL
=============================================================================
