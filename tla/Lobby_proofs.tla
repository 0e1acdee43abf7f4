---------------------------- MODULE Lobby_proofs ----------------------------
(***************************************************************************)
(* Proofs about Lobby, for any number of clients, players and slots: the   *)
(* table of games is used as TableSpec says, and as long as the ids handed *)
(* on are the ids made, a match has its game to itself until it removes    *)
(* it.                                                                     *)
(*                                                                         *)
(* The argument.  The table's counter is the number of its live games, so  *)
(* when it is less than the capacity the search for a free slot finds one, *)
(* and when it is not the array grows and the slot at the counter is free. *)
(* The games of the matches have different addresses, so the slots of two  *)
(* matches that are not over differ; add_game takes a slot nobody has and  *)
(* a match removes its own.  When matches never overlap, the table is      *)
(* empty whenever a game is added, and its slot is the first one.  A step  *)
(* of the loop over the polled sockets places one client at most, in a     *)
(* seat nobody had, and the counter of a mode wraps when its match is      *)
(* full; a client that waits stays polled until it is placed.              *)
(***************************************************************************)
EXTENDS Lobby, FiniteSetTheorems, WellFoundedInduction, SequenceTheorems, TLAPS

-----------------------------------------------------------------------------
(* The table. *)

TableType ==
  /\ games_capacity \in Nat \ {0}
  /\ games \in [0..games_capacity - 1 -> Game \cup {NULL}]
  /\ games_size \in Nat
  /\ game_id \in Int

TableInv == TableType /\ games_size = Cardinality(LiveIds)

\* A nonempty set of natural numbers has a least element: the sets 0..i - 1
\* of its elements i are finite, and strict inclusion of finite sets is well
\* founded.
LEMMA LeastNumber ==
  ASSUME NEW S \in SUBSET Nat, S # {}
  PROVE  \E i \in S : \A j \in S : i <= j
<1> DEFINE Below == {0..i - 1 : i \in S}
<1>1. Below \subseteq FiniteSubsetsOf(Nat)
  <2> SUFFICES ASSUME NEW i \in S PROVE 0..i - 1 \in FiniteSubsetsOf(Nat)
    OBVIOUS
  <2> QED  BY FS_Interval DEF FiniteSubsetsOf
<1>2. PICK B \in Below : \A C \in Below : ~ (<<C, B>> \in StrictSubsetOrdering(Nat))
  <2>1. Below # {}
    OBVIOUS
  <2> HIDE DEF Below
  <2> QED  BY <1>1, <2>1, WFMin, FS_StrictSubsetOrderingWellFounded
<1>3. PICK i \in S : B = 0..i - 1
  OBVIOUS
<1>4. ASSUME NEW j \in S PROVE i <= j
  <2> SUFFICES ASSUME j < i PROVE FALSE
    OBVIOUS
  <2>1. 0..j - 1 \subseteq 0..i - 1 /\ j \in 0..i - 1 /\ j \notin 0..j - 1
    OBVIOUS
  <2>2. <<0..j - 1, B>> \in StrictSubsetOrdering(Nat)
    BY <1>3, <2>1 DEF StrictSubsetOrdering
  <2> QED  BY <1>2, <2>2
<1> QED  BY <1>4

\* There are no more live games than slots, and as many only when all are live.
LEMMA LiveAreSlots ==
  ASSUME TableType
  PROVE  /\ IsFiniteSet(LiveIds) /\ Cardinality(LiveIds) \in 0..games_capacity
         /\ Cardinality(LiveIds) = games_capacity => LiveIds = 0..games_capacity - 1
<1>1. IsFiniteSet(0..games_capacity - 1) /\ Cardinality(0..games_capacity - 1) = games_capacity
  BY FS_Interval DEF TableType
<1>2. LiveIds \subseteq 0..games_capacity - 1
  BY DEF TableType, LiveIds
<1>3. /\ IsFiniteSet(LiveIds) /\ Cardinality(LiveIds) <= games_capacity
      /\ Cardinality(LiveIds) = games_capacity => LiveIds = 0..games_capacity - 1
  <2> HIDE DEF LiveIds
  <2> QED  BY <1>1, <1>2, FS_Subset
<1>4. Cardinality(LiveIds) \in Nat
  BY <1>3, FS_CardinalityType
<1> QED  BY <1>3, <1>4 DEF TableType

\* add_game finds a slot of the longer array, and one that is free.
LEMMA SlotFound ==
  ASSUME TableInv
  PROVE  /\ NewCapacity \in Nat \ {0} /\ games_capacity <= NewCapacity
         /\ Slots \in [0..NewCapacity - 1 -> Game \cup {NULL}]
         /\ FreeSlot \in 0..NewCapacity - 1 /\ Slots[FreeSlot] = NULL
         /\ FreeSlot \notin LiveIds
<1> USE DEF TableInv
<1>1. games_size \in 0..games_capacity
  BY LiveAreSlots
<1>2. NewCapacity \in Nat \ {0} /\ games_capacity <= NewCapacity /\ games_size < NewCapacity
  <2>1. CASE games_size = games_capacity
    <3>1. games_capacity < games_capacity * GROWTH_FACTOR /\ games_capacity * GROWTH_FACTOR \in Nat
      BY CapacityAssumption DEF TableType
    <3> QED  BY <2>1, <3>1 DEF NewCapacity, TableType
  <2>2. CASE games_size # games_capacity
    BY <1>1, <2>2 DEF NewCapacity, TableType
  <2> QED  BY <2>1, <2>2
<1>3. Slots \in [0..NewCapacity - 1 -> Game \cup {NULL}]
  BY <1>2 DEF Slots, TableType
<1> DEFINE free == {i \in DOMAIN Slots : Slots[i] = NULL}
<1>4. free \subseteq 0..NewCapacity - 1
  BY <1>3
<1>5. free # {}
  <2>1. CASE games_size = games_capacity
    <3>1. games_size \in 0..NewCapacity - 1 /\ ~(games_size < games_capacity)
      BY <1>1, <1>2, <2>1 DEF TableType
    <3>2. games_size \in DOMAIN Slots /\ Slots[games_size] = NULL
      BY <3>1 DEF Slots
    <3> QED  BY <3>2
  <2>2. CASE games_size # games_capacity
    <3>1. NewCapacity = games_capacity
      BY <2>2 DEF NewCapacity
    <3>2. LiveIds # 0..games_capacity - 1
      BY <2>2, FS_Interval DEF TableType
    <3>3. PICK i \in 0..games_capacity - 1 : games[i] = NULL
      BY <3>2 DEF LiveIds, TableType
    <3> QED  BY <3>1, <3>3 DEF Slots, TableType
  <2> QED  BY <2>1, <2>2
<1>6. FreeSlot \in free
  <2>1. CASE games_size \in free
    BY <2>1 DEF FreeSlot
  <2>2. CASE games_size \notin free
    <3>1. \E i \in free : \A j \in free : i <= j
      <4>1. free \in SUBSET Nat
        BY <1>2, <1>4
      <4> HIDE DEF free
      <4> QED  BY <1>5, <4>1, LeastNumber
    <3> QED  BY <1>5, <2>2, <3>1 DEF FreeSlot
  <2> QED  BY <2>1, <2>2
<1>7. FreeSlot \notin LiveIds
  BY <1>6, <1>3 DEF Slots, LiveIds, TableType
<1> QED  BY <1>2, <1>3, <1>4, <1>6, <1>7
-----------------------------------------------------------------------------
(* The table after each operation. *)

\* A game added is the only change, and the counter counts it.
LEMMA AddKeepsTable ==
  ASSUME TableInv, NEW g \in Game, add_game(g)
  PROVE  /\ TableInv'
         /\ game_id' \in Nat \ LiveIds
         /\ LiveIds' = LiveIds \cup {game_id'}
         /\ games'[game_id'] = g
         /\ \A i \in LiveIds : games'[i] = games[i]
<1> USE DEF TableInv
<1>1. /\ NewCapacity \in Nat \ {0} /\ games_capacity <= NewCapacity
      /\ Slots \in [0..NewCapacity - 1 -> Game \cup {NULL}]
      /\ FreeSlot \in 0..NewCapacity - 1 /\ Slots[FreeSlot] = NULL
      /\ FreeSlot \notin LiveIds
  BY SlotFound
<1>2. /\ games_capacity' = NewCapacity /\ game_id' = FreeSlot
      /\ games' = [i \in 0..NewCapacity - 1 |-> IF i = FreeSlot THEN g ELSE Slots[i]]
      /\ games_size' = games_size + 1
  BY <1>1 DEF add_game
<1>3. TableType'
  BY <1>1, <1>2 DEF TableType
<1>4. LiveIds' = LiveIds \cup {FreeSlot}
  <2>1. \A i \in 0..NewCapacity - 1 :
           i # FreeSlot => (games'[i] # NULL <=> i \in LiveIds)
    BY <1>1, <1>2 DEF Slots, LiveIds, TableType
  <2>2. games'[FreeSlot] # NULL
    BY <1>1, <1>2, NullAssumption
  <2>3. LiveIds \subseteq 0..NewCapacity - 1
    BY <1>1 DEF LiveIds, TableType
  <2>4. LiveIds' = {i \in 0..NewCapacity - 1 : games'[i] # NULL}
    BY <1>2 DEF LiveIds
  <2> QED  BY <1>1, <2>1, <2>2, <2>3, <2>4
<1>5. Cardinality(LiveIds') = games_size'
  <2>1. IsFiniteSet(LiveIds)
    BY LiveAreSlots
  <2> QED  BY <1>1, <1>2, <1>4, <2>1, FS_AddElement
<1>6. \A i \in LiveIds : games'[i] = games[i]
  BY <1>1, <1>2 DEF Slots, LiveIds, TableType
<1> QED  BY <1>1, <1>2, <1>3, <1>4, <1>5, <1>6

\* A game removed is the only change, and the counter loses it.
LEMMA RemoveKeepsTable ==
  ASSUME TableInv, NEW i \in LiveIds, remove_game(i)
  PROVE  /\ TableInv'
         /\ LiveIds' = LiveIds \ {i}
         /\ \A j \in LiveIds \ {i} : games'[j] = games[j]
<1> USE DEF TableInv
<1>1. i \in 0..games_capacity - 1 /\ games' = [games EXCEPT ![i] = NULL]
      /\ games_size' = games_size - 1 /\ UNCHANGED <<games_capacity, game_id>>
  BY DEF remove_game, LiveIds, TableType
<1>2. IsFiniteSet(LiveIds) /\ Cardinality(LiveIds) \in Nat
  BY LiveAreSlots DEF TableType
<1>3. LiveIds' = LiveIds \ {i}
  BY <1>1 DEF LiveIds, TableType
<1>4. Cardinality(LiveIds \ {i}) = Cardinality(LiveIds) - 1
  BY <1>2, FS_RemoveElement
<1>5. Cardinality(LiveIds \ {i}) \in Nat
  BY <1>2, FS_RemoveElement, FS_CardinalityType
<1>6. TableInv'
  BY <1>1, <1>3, <1>4, <1>5 DEF TableType
<1> QED  BY <1>1, <1>3, <1>6 DEF LiveIds, TableType

\* TableInv is inductive.
THEOREM TableInvariant == TableSpec => []TableInv
<1>1. TableInit => TableInv
  <2> SUFFICES ASSUME TableInit PROVE TableInv
    OBVIOUS
  <2>1. TableType
    BY CapacityAssumption DEF TableInit, TableType
  <2>2. LiveIds = {}
    BY DEF TableInit, LiveIds
  <2> QED  BY <2>1, <2>2, FS_EmptySet DEF TableInit, TableInv
<1>2. TableInv /\ [TableNext]_table => TableInv'
  <2> SUFFICES ASSUME TableInv, [TableNext]_table PROVE TableInv'
    OBVIOUS
  <2>1. CASE init_model
    BY <2>1, AddKeepsTable DEF init_model
  <2>2. CASE UNCHANGED table
    BY <2>2 DEF table, TableInv, TableType, LiveIds
  <2>3. ASSUME NEW i \in Nat, remove_game(i) PROVE TableInv'
    <3>1. CASE i \in LiveIds
      BY <2>3, <3>1, RemoveKeepsTable
    <3>2. CASE i \notin LiveIds
      BY <2>2, <2>3, <3>2 DEF remove_game, table
    <3> QED  BY <3>1, <3>2
  <2> QED  BY <2>1, <2>2, <2>3 DEF TableNext
<1> QED  BY <1>1, <1>2, PTL DEF TableSpec

\* The counter of the table is right in every reachable state: games_size is
\* the number of live games, whatever was added and removed before.
THEOREM GamesCounted == TableSpec => []SizeCountsGames
<1>1. TableInv => SizeCountsGames
  BY DEF TableInv, TableType, SizeCountsGames
<1> QED  BY <1>1, TableInvariant, PTL

\* The table implements the pool: add_game never fails and never gives out
\* the id of a live game, and a game stays where it is until it is removed.
THEOREM TableRefinesPool == TableSpec => RefinesPool
<1> DEFINE live == [i \in LiveIds |-> games[i]]
<1>1. TableInit => Pool!Init
  BY DEF TableInit, Pool!Init, LiveIds
<1>2. TableInv /\ [TableNext]_table => [Pool!Next]_Pool!vars
  <2> SUFFICES ASSUME TableInv, [TableNext]_table PROVE [Pool!Next]_Pool!vars
    OBVIOUS
  <2>1. CASE init_model
    <3>1. PICK g \in Game : add_game(g)
      BY <2>1 DEF init_model
    <3>2. /\ game_id' \in Nat \ LiveIds
          /\ LiveIds' = LiveIds \cup {game_id'}
          /\ games'[game_id'] = g
          /\ \A i \in LiveIds : games'[i] = games[i]
      BY <3>1, AddKeepsTable
    <3>3. live' = [i \in LiveIds \cup {game_id'} |-> IF i = game_id' THEN g ELSE live[i]]
      BY <3>2
    <3>4. Pool!Make(g)
      BY <3>2, <3>3 DEF Pool!Make
    <3> QED  BY <3>4 DEF Pool!Next
  <2>2. CASE UNCHANGED table
    BY <2>2 DEF table, Pool!vars, LiveIds
  <2>3. ASSUME NEW i \in Nat, remove_game(i) PROVE [Pool!Next]_Pool!vars
    <3>1. CASE i \in LiveIds
      <4>1. /\ LiveIds' = LiveIds \ {i}
            /\ \A j \in LiveIds \ {i} : games'[j] = games[j]
        BY <2>3, <3>1, RemoveKeepsTable
      <4>2. live' = [j \in LiveIds \ {i} |-> live[j]]
        BY <4>1
      <4>3. Pool!Remove(i) /\ i \in DOMAIN live
        BY <2>3, <3>1, <4>1, <4>2 DEF Pool!Remove, remove_game
      <4> QED  BY <4>3 DEF Pool!Next
    <3>2. CASE i \notin LiveIds
      BY <2>2, <2>3, <3>2 DEF remove_game, table
    <3> QED  BY <3>1, <3>2
  <2> QED  BY <2>1, <2>2, <2>3 DEF TableNext
<1> QED  BY <1>1, <1>2, TableInvariant, PTL DEF TableSpec, RefinesPool, Pool!Spec

-----------------------------------------------------------------------------
(* The lobby. *)

Records ==
  /\ matches \in Seq(Match)
  /\ \A j, k \in DOMAIN matches : j # k => matches[j].game # matches[k].game

HandedOnRight == \A k \in DOMAIN matches : matches[k].made = matches[k].game_id

Owning ==
  HandedOnRight =>
    \A k \in DOMAIN matches :
      \/ matches[k].over
      \/ matches[k].made \in LiveIds /\ games[matches[k].made] = matches[k].game

FirstSlotOnly ==
  ~overlapped => \A k \in DOMAIN matches : matches[k].made = 0 /\ matches[k].game_id = 0

CrashedByPolls == server = "crashed" => LISTEN \in {polls[i] : i \in DOMAIN polls}

LoopType == polls \in Seq(Fd) /\ revents \in SUBSET Nat /\ next \in Nat

LobbyInv == /\ TableInv /\ Records /\ Owning /\ FirstSlotOnly
            /\ ~overlapped => ~leaked /\ CrashedByPolls

-----------------------------------------------------------------------------
(* What the actions do to the matches. *)

\* A client that joins changes the seats of a match and nothing else of it.
LEMMA JoinChangesSeats ==
  ASSUME Records, NEW c \in Client, NEW m \in Mode, JoinMatch(c, m)
  PROVE  /\ matches' \in Seq(Match) /\ DOMAIN matches' = DOMAIN matches
         /\ \A k \in DOMAIN matches :
               /\ matches'[k].made = matches[k].made /\ matches'[k].game = matches[k].game
               /\ matches'[k].game_id = matches[k].game_id /\ matches'[k].over = matches[k].over
               /\ matches'[k].mode = matches[k].mode
<1> DEFINE f == FillingOf(m)
           s == Append(matches[f].sock, c)
           e == Append(matches[f].eq, eq(m, connected[m]))
<1>1. CASE f \notin DOMAIN matches
  <2>1. matches' = matches
    BY <1>1 DEF JoinMatch, Records
  <2> QED  BY <2>1 DEF Records
<1>2. CASE f \in DOMAIN matches
  <2>1. matches[f] \in Match
    BY <1>2 DEF Records
  <2>2. matches' = [matches EXCEPT ![f] = [matches[f] EXCEPT !.sock = s, !.eq = e]]
    BY <1>2 DEF JoinMatch, Records
  <2>3. s \in Seq(Client) /\ e \in Seq({0, 1})
    BY <2>1 DEF Match, eq
  <2> DEFINE r == [matches[f] EXCEPT !.sock = s, !.eq = e]
  <2>4. /\ r \in Match /\ r.made = matches[f].made /\ r.game = matches[f].game
        /\ r.game_id = matches[f].game_id /\ r.over = matches[f].over
        /\ r.mode = matches[f].mode
    <3> HIDE DEF s, e, f
    <3> QED  BY <2>1, <2>3 DEF Match
  <2> HIDE DEF r, f, s, e
  <2>5. matches' = [matches EXCEPT ![f] = r]
    BY <2>2 DEF r
  <2> QED  BY <1>2, <2>4, <2>5 DEF Records
<1> QED  BY <1>1, <1>2

\* A match opened comes last, with the game just added; the rest is as it was.
LEMMA OpenAddsMatch ==
  ASSUME Records, NEW c \in Client, NEW m \in Mode, NEW g \in Game, NEW id \in Nat,
         matches' = Append(matches, init_tcp_threads_data(c, m, id, g)),
         \A k \in DOMAIN matches : matches[k].game # g
  PROVE  /\ Records'
         /\ DOMAIN matches' = DOMAIN matches \cup {Len(matches) + 1}
         /\ \A k \in DOMAIN matches : matches'[k] = matches[k]
         /\ matches'[Len(matches) + 1] = init_tcp_threads_data(c, m, id, g)
<1>1. init_tcp_threads_data(c, m, id, g) \in Match
  BY DEF init_tcp_threads_data, Match, HandedOn, eq
<1>2. init_tcp_threads_data(c, m, id, g).game = g
  BY DEF init_tcp_threads_data
<1> QED  BY <1>1, <1>2 DEF Records

\* The address CHOOSE gives a game is one nobody has.
LEMMA NewGameIsNew ==
  ASSUME \E g \in Game : IsNew(g)
  PROVE  NewGame \in Game /\ IsNew(NewGame)
BY DEF NewGame

\* A game that is made goes to the first slot of an empty table.
LEMMA EmptyTableFirstSlot ==
  ASSUME TableInv, LiveIds = {}, NEW g \in Game, add_game(g)
  PROVE  game_id' = 0
<1>1. games_size = 0
  BY FS_EmptySet DEF TableInv
<1>2. 0 \in DOMAIN Slots /\ 0 \in 0..games_capacity - 1
  BY SlotFound DEF TableInv, TableType
<1>3. Slots[0] = NULL
  BY <1>2, SlotFound DEF Slots, LiveIds, TableInv, TableType
<1> QED  BY <1>1, <1>2, <1>3 DEF add_game, FreeSlot

-----------------------------------------------------------------------------
(* Every step keeps the invariant. *)

\* The types of a match.
LEMMA Fields ==
  ASSUME Records
  PROVE  \A k \in DOMAIN matches :
            /\ matches[k].game \in Game /\ matches[k].made \in Nat
            /\ matches[k].game_id \in Nat /\ matches[k].mode \in Mode
<1> SUFFICES ASSUME NEW k \in DOMAIN matches
             PROVE  /\ matches[k].game \in Game /\ matches[k].made \in Nat
                    /\ matches[k].game_id \in Nat /\ matches[k].mode \in Mode
  OBVIOUS
<1>1. matches[k] \in Match
  BY DEF Records
<1> QED  BY <1>1 DEF Match

\* Steps that touch neither the table, the matches nor how the server stopped.
LEMMA QuietStep ==
  ASSUME LobbyInv, UNCHANGED <<table, matches, overlapped, leaked>>,
         UNCHANGED <<server, polls>> \/ server' # "crashed"
  PROVE  LobbyInv'
<1>1. UNCHANGED LiveIds /\ TableInv'
  BY DEF LobbyInv, TableInv, TableType, LiveIds, table
<1>2. Records' /\ Owning' /\ FirstSlotOnly'
  BY <1>1 DEF LobbyInv, Records, Owning, FirstSlotOnly, HandedOnRight, table
<1> QED  BY <1>1, <1>2 DEF LobbyInv, CrashedByPolls

\* A game is made: the matches there are keep theirs.
LEMMA MakingKeepsGames ==
  ASSUME LobbyInv, NEW g \in Game, add_game(g),
         NEW k \in DOMAIN matches, HandedOnRight, ~matches[k].over
  PROVE  matches[k].made \in LiveIds' /\ games'[matches[k].made] = matches[k].game
BY AddKeepsTable DEF LobbyInv, Owning

\* A match is opened: its game is in a slot nobody had.
LEMMA OpenStep ==
  ASSUME LobbyInv, NEW c \in Client, NEW m \in Mode, OpenMatch(c, m),
         server = "running", UNCHANGED leaked
  PROVE  LobbyInv'
<1>1. NewGame \in Game /\ IsNew(NewGame) /\ add_game(NewGame)
  BY NewGameIsNew DEF OpenMatch
<1>2. /\ TableInv'
      /\ game_id' \in Nat \ LiveIds
      /\ LiveIds' = LiveIds \cup {game_id'}
      /\ games'[game_id'] = NewGame
  BY <1>1, AddKeepsTable DEF LobbyInv
<1>3. ~overlapped' => ~overlapped /\ game_id' = 0
  BY <1>1, EmptyTableFirstSlot DEF OpenMatch, LobbyInv
<1>4. ~overlapped' => ~leaked' /\ CrashedByPolls'
  BY <1>3 DEF OpenMatch, LobbyInv, CrashedByPolls
<1>5. CASE matches' = matches
  <2>1. Records'
    BY <1>5 DEF LobbyInv, Records
  <2>2. Owning'
    BY <1>1, <1>5, MakingKeepsGames DEF Owning, HandedOnRight
  <2>3. FirstSlotOnly'
    BY <1>3, <1>5 DEF LobbyInv, FirstSlotOnly
  <2> QED  BY <1>2, <1>4, <2>1, <2>2, <2>3 DEF LobbyInv
<1>6. CASE matches' = Append(matches, init_tcp_threads_data(c, m, game_id', NewGame))
  <2> DEFINE r == init_tcp_threads_data(c, m, game_id', NewGame)
             n == Len(matches) + 1
  <2>1. /\ Records'
        /\ DOMAIN matches' = DOMAIN matches \cup {n}
        /\ \A k \in DOMAIN matches : matches'[k] = matches[k]
        /\ matches'[n] = r
    BY <1>1, <1>2, <1>6, OpenAddsMatch DEF LobbyInv, IsNew
  <2>2. r.made = game_id' /\ r.game = NewGame /\ r.game_id = HandedOn(m, game_id')
    BY DEF init_tcp_threads_data
  <2> HIDE DEF r, n
  <2>3. Owning'
    <3> SUFFICES ASSUME HandedOnRight', NEW k \in DOMAIN matches', ~matches'[k].over
                 PROVE  /\ matches'[k].made \in LiveIds'
                        /\ games'[matches'[k].made] = matches'[k].game
      BY DEF Owning
    <3>1. HandedOnRight
      BY <2>1 DEF HandedOnRight
    <3>2. CASE k = n
      BY <1>2, <2>1, <2>2, <3>2
    <3>3. CASE k \in DOMAIN matches
      BY <1>1, <2>1, <3>1, <3>3, MakingKeepsGames
    <3> QED  BY <2>1, <3>2, <3>3
  <2>4. FirstSlotOnly'
    BY <1>3, <2>1, <2>2 DEF LobbyInv, FirstSlotOnly, HandedOn
  <2> QED  BY <1>2, <1>4, <2>1, <2>3, <2>4 DEF LobbyInv
<1> QED  BY <1>5, <1>6 DEF OpenMatch

\* A client joins a match: nothing of the games changes.
LEMMA JoinStep ==
  ASSUME LobbyInv, NEW c \in Client, NEW m \in Mode, JoinMatch(c, m),
         server = "running", UNCHANGED leaked
  PROVE  LobbyInv'
<1>1. /\ matches' \in Seq(Match) /\ DOMAIN matches' = DOMAIN matches
      /\ \A k \in DOMAIN matches :
            /\ matches'[k].made = matches[k].made /\ matches'[k].game = matches[k].game
            /\ matches'[k].game_id = matches[k].game_id /\ matches'[k].over = matches[k].over
  BY JoinChangesSeats DEF LobbyInv
<1>2. UNCHANGED <<games, games_size, games_capacity, game_id, overlapped, server>>
  BY DEF JoinMatch, table
<1>3. UNCHANGED LiveIds /\ TableInv'
  BY <1>2 DEF LobbyInv, TableInv, TableType, LiveIds
<1>4. Records'
  BY <1>1 DEF LobbyInv, Records
<1>5. Owning' /\ FirstSlotOnly'
  BY <1>1, <1>2, <1>3 DEF LobbyInv, Owning, FirstSlotOnly, HandedOnRight
<1> QED  BY <1>2, <1>3, <1>4, <1>5 DEF LobbyInv, CrashedByPolls

\* A match ends: when it was given the id that was made, it removes its game
\* and no other.
LEMMA EndStep ==
  ASSUME LobbyInv, NEW n \in DOMAIN matches, EndMatch(n)
  PROVE  LobbyInv'
<1>1. /\ matches' = [matches EXCEPT ![n].over = TRUE] /\ remove_game(matches[n].game_id)
      /\ ~matches[n].over
      /\ UNCHANGED <<polls, server, overlapped, leaked>>
  BY DEF EndMatch, Playing
<1>2. matches[n] \in Match /\ matches \in Seq(Match)
  BY DEF LobbyInv, Records
<1> DEFINE r == [matches[n] EXCEPT !.over = TRUE]
<1>3. /\ r \in Match /\ r.made = matches[n].made /\ r.game = matches[n].game
      /\ r.game_id = matches[n].game_id /\ r.over
  BY <1>2 DEF Match
<1>4. matches' = [matches EXCEPT ![n] = r]
  BY <1>1, <1>2
<1> HIDE DEF r
<1>5. /\ matches' \in Seq(Match) /\ DOMAIN matches' = DOMAIN matches
      /\ \A k \in DOMAIN matches :
            /\ matches'[k].made = matches[k].made /\ matches'[k].game = matches[k].game
            /\ matches'[k].game_id = matches[k].game_id
            /\ k # n => matches'[k].over = matches[k].over
            /\ matches'[n].over
  BY <1>2, <1>3, <1>4
<1>6. Records'
  BY <1>5 DEF LobbyInv, Records
<1>7. FirstSlotOnly'
  BY <1>1, <1>5 DEF LobbyInv, FirstSlotOnly
<1>8. TableInv'
  <2>1. CASE matches[n].game_id \in LiveIds
    BY <1>1, <2>1, RemoveKeepsTable DEF LobbyInv
  <2>2. CASE matches[n].game_id \notin LiveIds
    BY <1>1, <2>2 DEF remove_game, LobbyInv, TableInv, TableType, LiveIds
  <2> QED  BY <2>1, <2>2
<1>9. Owning'
  <2> SUFFICES ASSUME HandedOnRight', NEW k \in DOMAIN matches', ~matches'[k].over
               PROVE  /\ matches'[k].made \in LiveIds'
                      /\ games'[matches'[k].made] = matches'[k].game
    BY DEF Owning
  <2>1. HandedOnRight /\ k \in DOMAIN matches /\ k # n /\ ~matches[k].over
    BY <1>5 DEF HandedOnRight
  <2>2. /\ matches[k].made \in LiveIds /\ games[matches[k].made] = matches[k].game
        /\ matches[n].made \in LiveIds /\ games[matches[n].made] = matches[n].game
        /\ matches[n].game_id = matches[n].made
    BY <1>1, <2>1 DEF LobbyInv, Owning, HandedOnRight
  <2>3. matches[k].made # matches[n].made
    BY <2>1, <2>2 DEF LobbyInv, Records
  <2>4. matches[k].made \in LiveIds' /\ games'[matches[k].made] = games[matches[k].made]
    BY <1>1, <2>2, <2>3, RemoveKeepsTable DEF LobbyInv
  <2> QED  BY <1>5, <2>1, <2>2, <2>4
<1> QED  BY <1>1, <1>6, <1>7, <1>8, <1>9 DEF LobbyInv, CrashedByPolls

\* A message is routed by the mode of game 0, which is the game of the match
\* as long as matches do not overlap.
LEMMA ChatStep ==
  ASSUME LobbyInv, NEW n \in DOMAIN matches, handle_chat_message(n)
  PROVE  LobbyInv'
<1>1. UNCHANGED <<games, games_size, games_capacity, game_id, matches, polls, overlapped>>
  BY DEF handle_chat_message, table, lobby
<1>2. UNCHANGED LiveIds /\ TableInv' /\ Records' /\ Owning' /\ FirstSlotOnly'
  BY <1>1 DEF LobbyInv, TableInv, TableType, LiveIds, Records, Owning, FirstSlotOnly,
              HandedOnRight
<1>3. ASSUME ~overlapped PROVE ~leaked' /\ CrashedByPolls'
  <2>1. games[0] = matches[n].game /\ 0 \in LiveIds
    BY <1>3 DEF LobbyInv, FirstSlotOnly, Owning, HandedOnRight, handle_chat_message, Playing
  <2>2. games[0] # NULL
    BY <2>1 DEF LiveIds
  <2>3. PICK j \in DOMAIN matches :
           /\ matches[j].game = games[0]
           /\ leaked' = (leaked \/ (matches[n].mode = "TEAM" /\ matches[j].mode = "SOLO"))
           /\ UNCHANGED server
    BY <2>2 DEF handle_chat_message
  <2>4. j = n
    BY <2>1, <2>3 DEF LobbyInv, Records
  <2>5. ~(matches[n].mode = "TEAM" /\ matches[j].mode = "SOLO")
    BY <2>4
  <2> QED  BY <1>1, <1>3, <2>3, <2>5 DEF LobbyInv, CrashedByPolls
<1> QED  BY <1>1, <1>2, <1>3 DEF LobbyInv

\* The slot the loop handles.
LEMMA HandleStep ==
  ASSUME LobbyInv, LoopType, Handle
  PROVE  LobbyInv'
<1>1. PICK i \in ToHandle :
        \/ polls[i] = LISTEN /\ Stop("crashed")
        \/ polls[i] \in Client /\ header[polls[i]] = "eof" /\ Stop("spinning")
        \/ /\ polls[i] \in Client /\ header[polls[i]] \in Mode
           /\ connect_one_player_to_game(polls[i])
  BY DEF Handle
<1>2. server = "running" /\ UNCHANGED leaked
  BY DEF Handle
<1>3. CASE polls[i] = LISTEN /\ Stop("crashed")
  <2>1. i \in DOMAIN polls /\ UNCHANGED <<table, matches, polls, overlapped>>
    BY <1>1, <1>3 DEF Stop, Handle, ToHandle, LoopType
  <2>2. CrashedByPolls'
    BY <1>3, <2>1 DEF CrashedByPolls
  <2>3. TableInv' /\ Records' /\ Owning' /\ FirstSlotOnly'
    BY <2>1 DEF LobbyInv, TableInv, TableType, LiveIds, Records, Owning, FirstSlotOnly,
                HandedOnRight, table
  <2> QED  BY <1>2, <2>1, <2>2, <2>3 DEF LobbyInv
<1>4. CASE Stop("spinning")
  BY <1>2, <1>4, QuietStep DEF Stop
<1>5. CASE /\ polls[i] \in Client /\ header[polls[i]] \in Mode
           /\ connect_one_player_to_game(polls[i])
  BY <1>2, <1>5, OpenStep, JoinStep DEF connect_one_player_to_game
<1> QED  BY <1>1, <1>3, <1>4, <1>5

-----------------------------------------------------------------------------
(* The theorems. *)

\* The loop stays over a sequence of descriptors.
LEMMA LoopTyped == Spec => []LoopType
<1>1. Init => LoopType
  BY DEF Init, LoopType
<1>2. LoopType /\ [Next]_vars => LoopType'
  <2> SUFFICES ASSUME LoopType, [Next]_vars PROVE LoopType'
    OBVIOUS
  <2> USE DEF LoopType
  <2>1. ASSUME NEW c \in Client, Connect(c) \/ SendHeader(c) PROVE LoopType'
    BY <2>1 DEF Connect, SendHeader
  <2>2. CASE Poll
    BY <2>2 DEF Poll
  <2>3. CASE Handle
    <3>1. PICK i \in ToHandle :
            \/ UNCHANGED <<polls, next>>
            \/ remove_polls_to_poll(i) /\ next' = i + 1
      BY <2>3 DEF Handle, Stop
    <3>2. CASE UNCHANGED <<polls, next>>
      BY <2>3, <3>2 DEF Handle
    <3>3. CASE remove_polls_to_poll(i) /\ next' = i + 1
      <4>1. i \in 1..Len(polls) /\ 1 <= Len(polls)
        BY <2>3, <3>1 DEF Handle, ToHandle
      <4>2. [polls EXCEPT ![i] = LISTEN] \in Seq(Fd)
        <5>1. LISTEN \in Fd
          BY DEF Fd
        <5> QED  BY <4>1, <5>1, ExceptSeq
      <4>3. polls' \in Seq(Fd)
        <5> DEFINE q == [polls EXCEPT ![i] = LISTEN]
        <5>1. Len(q) = Len(polls) /\ q \in Seq(Fd)
          BY <4>2
        <5>2. polls' = SubSeq(q, 1, Len(polls) - 1)
          BY <3>3 DEF remove_polls_to_poll
        <5> HIDE DEF q
        <5> QED  BY <5>1, <5>2, <4>1
      <4> QED  BY <2>3, <3>3, <4>1, <4>3 DEF Handle
    <3> QED  BY <3>1, <3>2, <3>3
  <2>4. CASE Accept
    BY <2>4 DEF Accept, add_polls_to_poll, Fd
  <2>5. ASSUME NEW k \in DOMAIN matches, EndMatch(k) \/ handle_chat_message(k) PROVE LoopType'
    BY <2>5 DEF EndMatch, handle_chat_message, lobby
  <2>6. CASE UNCHANGED vars
    BY <2>6 DEF vars, lobby
  <2> QED  BY <2>1, <2>2, <2>3, <2>4, <2>5, <2>6 DEF Next
<1> QED  BY <1>1, <1>2, PTL DEF Spec

\* LobbyInv is inductive.
LEMMA LobbyInvariant == Spec => []LobbyInv
<1>1. Init => LobbyInv
  <2> SUFFICES ASSUME Init PROVE LobbyInv
    OBVIOUS
  <2>1. TableType
    BY CapacityAssumption DEF Init, TableInit, TableType
  <2>2. LiveIds = {}
    BY DEF Init, TableInit, LiveIds
  <2>3. TableInv
    BY <2>1, <2>2, FS_EmptySet DEF Init, TableInit, TableInv
  <2>4. matches = <<>> /\ ~leaked /\ server = "running"
    BY DEF Init
  <2>5. matches \in Seq(Match) /\ DOMAIN matches = {}
    BY <2>4
  <2> QED  BY <2>3, <2>4, <2>5 DEF LobbyInv, Records, Owning, FirstSlotOnly, CrashedByPolls
<1>2. LobbyInv /\ LoopType /\ [Next]_vars => LobbyInv'
  <2> SUFFICES ASSUME LobbyInv, LoopType, [Next]_vars PROVE LobbyInv'
    OBVIOUS
  <2>1. ASSUME NEW c \in Client, Connect(c) \/ SendHeader(c) PROVE LobbyInv'
    BY <2>1, QuietStep DEF Connect, SendHeader
  <2>2. CASE Poll
    BY <2>2, QuietStep DEF Poll
  <2>3. CASE Handle
    BY <2>3, HandleStep
  <2>4. CASE Accept
    BY <2>4, QuietStep DEF Accept, add_polls_to_poll
  <2>5. ASSUME NEW k \in DOMAIN matches, EndMatch(k) \/ handle_chat_message(k) PROVE LobbyInv'
    BY <2>5, EndStep, ChatStep
  <2>6. CASE UNCHANGED vars
    BY <2>6, QuietStep DEF vars, lobby
  <2> QED  BY <2>1, <2>2, <2>3, <2>4, <2>5, <2>6 DEF Next
<1> QED  BY <1>1, <1>2, LoopTyped, PTL DEF Spec

\* As long as the ids handed on are the ids made, a match that is not over has
\* the game that was made for it (network_server.c:1361-1393, 821).
THEOREM GamesAreOwn == Spec => []OwnGames
<1>1. LobbyInv => OwnGames
  BY DEF LobbyInv, Owning, OwnGames, HandedOnRight
<1> QED  BY <1>1, LobbyInvariant, PTL

\* A server whose matches never overlap serves each of them right, and only the
\* polled array can crash it (network_server.c:608, 676-682, 1389).
THEOREM OneByOneIsRight == Spec => []ServedOneByOne
<1>1. LobbyInv => ServedOneByOne
  BY DEF LobbyInv, FirstSlotOnly, CrashedByPolls, ServedOneByOne
<1> QED  BY <1>1, LobbyInvariant, PTL

\* The server uses the table as TableSpec says, so the ids its lobbies get are
\* those of the pool of games.
THEOREM LobbyRefinesPool == Spec => RefinesPool
<1>1. Init => TableInit
  BY DEF Init
<1>2. LobbyInv /\ [Next]_vars => [TableNext]_table
  <2> SUFFICES ASSUME LobbyInv, [Next]_vars PROVE [TableNext]_table
    OBVIOUS
  <2>1. ASSUME NEW c \in Client, Connect(c) \/ SendHeader(c) PROVE UNCHANGED table
    BY <2>1 DEF Connect, SendHeader, table
  <2>2. CASE Poll
    BY <2>2 DEF Poll, table
  <2>3. CASE Handle
    <3>1. \/ UNCHANGED table
          \/ \E c \in Client, m \in Mode : OpenMatch(c, m) \/ JoinMatch(c, m)
      BY <2>3 DEF Handle, Stop, connect_one_player_to_game
    <3>2. ASSUME NEW c \in Client, NEW m \in Mode, OpenMatch(c, m) PROVE init_model
      BY <3>2, NewGameIsNew DEF OpenMatch, init_model, IsNew
    <3>3. ASSUME NEW c \in Client, NEW m \in Mode, JoinMatch(c, m) PROVE UNCHANGED table
      BY <3>3 DEF JoinMatch
    <3> QED  BY <3>1, <3>2, <3>3 DEF TableNext
  <2>4. CASE Accept
    BY <2>4 DEF Accept, table
  <2>5. ASSUME NEW k \in DOMAIN matches, EndMatch(k) PROVE TableNext
    <3>1. matches[k].game_id \in Nat
      BY Fields DEF LobbyInv
    <3> QED  BY <2>5, <3>1 DEF EndMatch, TableNext
  <2>6. ASSUME NEW k \in DOMAIN matches, handle_chat_message(k) PROVE UNCHANGED table
    BY <2>6 DEF handle_chat_message, table
  <2>7. CASE UNCHANGED vars
    BY <2>7 DEF vars
  <2> QED  BY <2>1, <2>2, <2>3, <2>4, <2>5, <2>6, <2>7 DEF Next
<1> QED  BY <1>1, <1>2, LobbyInvariant, TableRefinesPool, PTL DEF Spec, TableSpec

-----------------------------------------------------------------------------
(* The types. *)

\* The counter of a lobby wraps at PLAYER_NUM.
LEMMA Wraps ==
  ASSUME NEW n \in 0..PLAYER_NUM - 1
  PROVE  (n + 1) % PLAYER_NUM = IF n + 1 = PLAYER_NUM THEN 0 ELSE n + 1
BY PlayerNumAssumption

\* A slot of the polled array is freed: the listening socket takes its place.
LEMMA RemoveSlot ==
  ASSUME polls \in Seq(Fd), NEW i \in DOMAIN polls, remove_polls_to_poll(i)
  PROVE  /\ polls' \in Seq(Fd) /\ Len(polls') = Len(polls) - 1
         /\ \A j \in DOMAIN polls' :
               j \in DOMAIN polls /\ polls'[j] = IF j = i THEN LISTEN ELSE polls[j]
         /\ \A j \in DOMAIN polls : j \in DOMAIN polls' \/ j = Len(polls)
<1> DEFINE q == [polls EXCEPT ![i] = LISTEN]
<1>1. i \in 1..Len(polls) /\ LISTEN \in Fd
  BY DEF Fd
<1>2. q \in Seq(Fd) /\ Len(q) = Len(polls)
  BY <1>1, ExceptSeq
<1>3. \A j \in 1..Len(polls) : q[j] = IF j = i THEN LISTEN ELSE polls[j]
  OBVIOUS
<1>4. polls' = SubSeq(q, 1, Len(polls) - 1)
  BY DEF remove_polls_to_poll
<1> HIDE DEF q
<1> QED  BY <1>1, <1>2, <1>3, <1>4

\* The array gets a slot more, the client's or one that was never written.
LEMMA AddSlot ==
  ASSUME polls \in Seq(Fd), size \in Nat, Len(polls) < size, NEW c \in Client,
         add_polls_to_poll(c)
  PROVE  /\ \E f \in {c, JUNK} : polls' = Append(polls, f)
         /\ polls' \in Seq(Fd)
         /\ size' \in Nat /\ size <= size' /\ Len(polls') < size'
         /\ server' \in {server, "undefined"}
BY DEF add_polls_to_poll, Fd

\* What Handle does, one client at most.
LEMMA HandleCases ==
  ASSUME TypeOK, Handle
  PROVE  /\ UNCHANGED <<header, port_given, size, revents, leaked>>
         /\ server = "running"
         /\ \E i \in DOMAIN polls :
              \/ Stop("crashed") \/ Stop("spinning")
              \/ /\ polls[i] \in Client /\ header[polls[i]] \in Mode
                 /\ connect_one_player_to_game(polls[i])
                 /\ remove_polls_to_poll(i)
                 /\ next' = i + 1
<1>1. ToHandle \subseteq DOMAIN polls
  <2>1. DOMAIN polls = 1..Len(polls) /\ Len(polls) \in Nat /\ next \in Nat \ {0}
    BY DEF Handle, TypeOK
  <2>2. \A i \in revents : i \in Nat
    BY DEF TypeOK
  <2> QED  BY <2>1, <2>2 DEF ToHandle
<1> QED  BY <1>1 DEF Handle

\* A client that is placed or not: the part of TypeOK that can change.
LEMMA PlacingTyped ==
  ASSUME TypeOK, NEW c \in Client, header[c] \in Mode, connect_one_player_to_game(c)
  PROVE  /\ client' \in [Client -> {"away", "calling", "waiting", "placed"}]
         /\ connected' \in [Mode -> 0..PLAYER_NUM - 1]
         /\ {listening', overlapped'} \subseteq BOOLEAN
         /\ UNCHANGED server
<1> DEFINE m == header[c]
<1>1. CASE OpenMatch(c, m)
  <2>1. 1 % PLAYER_NUM \in 0..PLAYER_NUM - 1
    BY PlayerNumAssumption
  <2>2. /\ client' \in [Client -> {"away", "calling", "waiting", "placed"}]
        /\ connected' \in [Mode -> 0..PLAYER_NUM - 1]
    BY <1>1, <2>1 DEF OpenMatch, TypeOK
  <2>3. {listening', overlapped'} \subseteq BOOLEAN /\ UNCHANGED server
    BY <1>1, Zenon DEF OpenMatch, TypeOK
  <2> QED  BY <2>2, <2>3
<1>2. CASE JoinMatch(c, m)
  <2>1. connected[m] \in 0..PLAYER_NUM - 1
    BY DEF TypeOK
  <2>2. (connected[m] + 1) % PLAYER_NUM \in 0..PLAYER_NUM - 1
    BY <2>1, Wraps, PlayerNumAssumption
  <2> QED  BY <1>2, <2>2 DEF JoinMatch, TypeOK
<1> QED  BY <1>1, <1>2 DEF connect_one_player_to_game

\* The lobby keeps its types, and the scan of the loop stays within the array
\* it polls, however clients come and go (network_server.c:640-690, 1420-1460).
THEOREM LobbyTypeCorrect == Spec => []TypeOK
<1>1. Init => TypeOK
  <2> SUFFICES ASSUME Init PROVE TypeOK
    OBVIOUS
  <2>1. {port_given, listening, overlapped, leaked} \subseteq BOOLEAN
    BY Zenon DEF Init
  <2> QED  BY <2>1, PlayerNumAssumption DEF Init, TypeOK
<1>2. TypeOK /\ Records' /\ [Next]_vars => TypeOK'
  <2> SUFFICES ASSUME TypeOK, matches' \in Seq(Match), [Next]_vars PROVE TypeOK'
    BY DEF Records
  <2>1. ASSUME NEW c \in Client, Connect(c) PROVE TypeOK'
    BY <2>1 DEF Connect, TypeOK, table
  <2>2. ASSUME NEW c \in Client, SendHeader(c) PROVE TypeOK'
    BY <2>2 DEF SendHeader, TypeOK, table
  <2>3. CASE Poll
    <3>1. revents' \subseteq 0..size - 1 /\ next' \in 0..size
      BY <2>3 DEF Poll, TypeOK
    <3> QED  BY <2>3, <3>1 DEF Poll, TypeOK, table
  <2>4. CASE Handle
    <3>1. PICK i \in DOMAIN polls :
            \/ Stop("crashed") \/ Stop("spinning")
            \/ /\ polls[i] \in Client /\ header[polls[i]] \in Mode
               /\ connect_one_player_to_game(polls[i])
               /\ remove_polls_to_poll(i)
               /\ next' = i + 1
      BY <2>4, HandleCases
    <3>2. UNCHANGED <<header, port_given, size, revents, leaked>>
      BY <2>4, HandleCases
    <3>3. CASE Stop("crashed") \/ Stop("spinning")
      BY <3>2, <3>3 DEF Stop, TypeOK, table
    <3>4. CASE /\ polls[i] \in Client /\ header[polls[i]] \in Mode
               /\ connect_one_player_to_game(polls[i])
               /\ remove_polls_to_poll(i)
               /\ next' = i + 1
      <4>1. polls' \in Seq(Fd) /\ Len(polls') < size /\ next' \in 0..size
        BY <3>4, RemoveSlot DEF TypeOK
      <4>2. /\ client' \in [Client -> {"away", "calling", "waiting", "placed"}]
            /\ connected' \in [Mode -> 0..PLAYER_NUM - 1]
            /\ {listening', overlapped'} \subseteq BOOLEAN
            /\ UNCHANGED server
        BY <3>4, PlacingTyped
      <4> QED  BY <3>2, <4>1, <4>2 DEF TypeOK
    <3> QED  BY <3>1, <3>3, <3>4
  <2>5. CASE Accept
    <3>1. CASE UNCHANGED <<client, polls, size, server>>
      BY <2>5, <3>1 DEF Accept, TypeOK, table
    <3>2. ASSUME NEW c \in Client, client' = [client EXCEPT ![c] = "waiting"],
                 add_polls_to_poll(c)
          PROVE  TypeOK'
      <4>1. /\ polls' \in Seq(Fd) /\ size' \in Nat /\ Len(polls') < size'
            /\ server' \in {server, "undefined"}
        BY <3>2, AddSlot DEF TypeOK
      <4>2. revents' = {} /\ next' = 0
        BY <2>5 DEF Accept
      <4>3. UNCHANGED <<header, port_given, listening, connected, overlapped, leaked>>
        BY <2>5 DEF Accept
      <4> QED  BY <3>2, <4>1, <4>2, <4>3 DEF TypeOK
    <3> QED  BY <2>5, <3>1, <3>2 DEF Accept
  <2>6. ASSUME NEW k \in DOMAIN matches, EndMatch(k) PROVE TypeOK'
    BY <2>6 DEF EndMatch, TypeOK
  <2>7. ASSUME NEW k \in DOMAIN matches, handle_chat_message(k) PROVE TypeOK'
    <3>1. leaked' \in BOOLEAN /\ server' \in {server, "crashed"}
      BY <2>7 DEF handle_chat_message, TypeOK
    <3> QED  BY <2>7, <3>1 DEF handle_chat_message, TypeOK, lobby, table
  <2>8. CASE UNCHANGED vars
    BY <2>8 DEF vars, lobby, table, TypeOK
  <2> QED  BY <2>1, <2>2, <2>3, <2>4, <2>5, <2>6, <2>7, <2>8 DEF Next
<1>3. LobbyInv => Records
  BY DEF LobbyInv
<1> QED  BY <1>1, <1>2, <1>3, LobbyInvariant, PTL DEF Spec

-----------------------------------------------------------------------------
(* The seats.  A client takes the seat after the last one that is taken, in *)
(* a match that is opened for it or in the one that is filling, and the     *)
(* counter of its mode is the number of that seat.                          *)

SeatsTaken ==
  \A k \in DOMAIN matches :
    /\ Len(matches[k].sock) \in 1..PLAYER_NUM
    /\ Len(matches[k].eq) = Len(matches[k].sock)
    /\ \A i \in DOMAIN matches[k].sock :
         /\ client[matches[k].sock[i]] = "placed"
         /\ header[matches[k].sock[i]] = matches[k].mode
         /\ matches[k].eq[i] = 1 <=> matches[k].mode = "TEAM" /\ i \notin {1, 4}

OneSeat ==
  \A j, k \in DOMAIN matches : \A a \in DOMAIN matches[j].sock, b \in DOMAIN matches[k].sock :
    matches[j].sock[a] = matches[k].sock[b] => j = k /\ a = b

ASeat ==
  \A c \in Client : client[c] = "placed" =>
    \E k \in DOMAIN matches : \E i \in DOMAIN matches[k].sock : matches[k].sock[i] = c

OneFilling ==
  \A m \in Mode :
    IF connected[m] = 0 THEN Filling(m) = {}
    ELSE \E k \in Filling(m) :
           Filling(m) = {k} /\ Len(matches[k].sock) = connected[m]

SeatInv == SeatsTaken /\ OneSeat /\ ASeat /\ OneFilling

\* A client that is polled has not been placed, and is polled once.
PolledOnce ==
  /\ \A i \in DOMAIN polls : polls[i] \in Client => client[polls[i]] = "waiting"
  /\ \A i, j \in DOMAIN polls : polls[i] \in Client /\ polls[i] = polls[j] => i = j

\* A client is lost only when the sockets of its match fail, or when a slot of
\* the polled array holds the listening socket or was never written.
NoneLost ==
  (~port_given /\ \A i \in DOMAIN polls : polls[i] \in Client) =>
    \A c \in Client : client[c] = "waiting" => Polled(c)

\* Client c takes seat n of match f.
TakesSeat(c, f, n) ==
  /\ n \in 1..PLAYER_NUM
  /\ DOMAIN matches' = DOMAIN matches \cup {f}
  /\ \A k \in DOMAIN matches \ {f} : matches'[k] = matches[k]
  /\ matches'[f].mode = header[c]
  /\ Len(matches'[f].sock) = n /\ Len(matches'[f].eq) = n
  /\ matches'[f].sock[n] = c /\ matches'[f].eq[n] = eq(header[c], n - 1)
  /\ IF f \in DOMAIN matches
       THEN /\ matches[f].mode = header[c] /\ Len(matches[f].sock) = n - 1
            /\ \A i \in 1..n - 1 : /\ matches'[f].sock[i] = matches[f].sock[i]
                                   /\ matches'[f].eq[i] = matches[f].eq[i]
       ELSE n = 1
  /\ connected[header[c]] = n - 1
  /\ connected' = [connected EXCEPT ![header[c]] = n % PLAYER_NUM]
  /\ client' = [client EXCEPT ![c] = "placed"]

\* The types of the seats.
LEMMA SeatTypes ==
  ASSUME TypeOK
  PROVE  \A k \in DOMAIN matches :
            /\ matches[k].mode \in Mode
            /\ matches[k].sock \in Seq(Client) /\ matches[k].eq \in Seq({0, 1})
            /\ DOMAIN matches[k].sock = 1..Len(matches[k].sock)
            /\ DOMAIN matches[k].eq = 1..Len(matches[k].eq)
            /\ Len(matches[k].sock) \in Nat
<1> SUFFICES ASSUME NEW k \in DOMAIN matches
             PROVE  /\ matches[k].mode \in Mode
                    /\ matches[k].sock \in Seq(Client) /\ matches[k].eq \in Seq({0, 1})
                    /\ DOMAIN matches[k].sock = 1..Len(matches[k].sock)
                    /\ DOMAIN matches[k].eq = 1..Len(matches[k].eq)
                    /\ Len(matches[k].sock) \in Nat
  OBVIOUS
<1>1. matches[k] \in Match
  BY DEF TypeOK
<1>2. /\ matches[k].mode \in Mode
      /\ matches[k].sock \in Seq(Client) /\ matches[k].eq \in Seq({0, 1})
  BY <1>1 DEF Match
<1> HIDE DEF Mode
<1> QED  BY <1>2

\* The match of a mode that fills takes the client that joins.
LEMMA JoinTakesSeat ==
  ASSUME TypeOK, SeatsTaken, OneFilling, NEW c \in Client, header[c] \in Mode,
         connected[header[c]] # 0, JoinMatch(c, header[c])
  PROVE  \E f \in DOMAIN matches : TakesSeat(c, f, connected[header[c]] + 1)
<1> DEFINE m == header[c]
           f == FillingOf(m)
           n == connected[m] + 1
<1>1. PICK k \in Filling(m) : Filling(m) = {k} /\ Len(matches[k].sock) = connected[m]
  BY DEF OneFilling
<1>2. /\ k \in DOMAIN matches /\ matches[k].mode = m
      /\ Len(matches[k].sock) < PLAYER_NUM
  BY <1>1, SeatTypes, PlayerNumAssumption DEF Filling, Full, SeatsTaken
<1>3. /\ f \in DOMAIN matches /\ matches[f].mode = m
      /\ Len(matches[f].sock) < PLAYER_NUM
  BY <1>2 DEF FillingOf
<1>4. f \in Filling(m)
  BY <1>3, SeatTypes, PlayerNumAssumption DEF Filling, Full
<1>5. Len(matches[f].sock) = n - 1 /\ n \in 1..PLAYER_NUM
  BY <1>1, <1>3, <1>4, SeatTypes, PlayerNumAssumption DEF TypeOK
<1> DEFINE s == Append(matches[f].sock, c)
           e == Append(matches[f].eq, eq(m, connected[m]))
           r == [matches[f] EXCEPT !.sock = s, !.eq = e]
<1>6. matches' = [matches EXCEPT ![f] = r]
  BY <1>3 DEF JoinMatch, TypeOK
<1>7. r.mode = m /\ r.sock = s /\ r.eq = e
  <2>1. matches[f] \in Match
    BY <1>3 DEF TypeOK
  <2> HIDE DEF s, e, f
  <2> QED  BY <1>3, <2>1 DEF Match
<1>8. /\ Len(s) = n /\ s[n] = c /\ Len(e) = n /\ e[n] = eq(m, n - 1)
      /\ \A i \in 1..n - 1 : s[i] = matches[f].sock[i] /\ e[i] = matches[f].eq[i]
  <2>1. /\ matches[f].sock \in Seq(Client) /\ matches[f].eq \in Seq({0, 1})
        /\ Len(matches[f].eq) = n - 1 /\ n \in Nat /\ n - 1 = connected[m]
    BY <1>3, <1>5, SeatTypes DEF SeatsTaken, TypeOK
  <2> DEFINE sock == matches[f].sock
             eqs == matches[f].eq
             new == eq(m, connected[m])
  <2>2. Len(sock) = n - 1 /\ Len(eqs) = n - 1 /\ n \in Nat /\ new = eq(m, n - 1)
    BY <1>5, <2>1
  <2>3. s = Append(sock, c) /\ e = Append(eqs, new)
    OBVIOUS
  <2> HIDE DEF f, s, e, n, new, sock, eqs
  <2>4. Len(s) = n /\ s[n] = c /\ \A i \in 1..n - 1 : s[i] = sock[i]
    BY <2>1, <2>2, <2>3 DEF sock
  <2>5. Len(e) = n /\ e[n] = new /\ \A i \in 1..n - 1 : e[i] = eqs[i]
    BY <2>1, <2>2, <2>3 DEF eqs
  <2> QED  BY <2>2, <2>4, <2>5 DEF sock, eqs
<1>9. /\ connected' = [connected EXCEPT ![m] = n % PLAYER_NUM]
      /\ client' = [client EXCEPT ![c] = "placed"] /\ connected[m] = n - 1
  BY DEF JoinMatch, TypeOK
<1>10. DOMAIN matches' = DOMAIN matches \cup {f} /\ matches'[f] = r
       /\ \A j \in DOMAIN matches \ {f} : matches'[j] = matches[j]
  <2> HIDE DEF r
  <2> QED  BY <1>3, <1>6 DEF TypeOK
<1> HIDE DEF r, s, e, f
<1> QED  BY <1>3, <1>5, <1>7, <1>8, <1>9, <1>10 DEF TakesSeat

\* A match that is opened has one seat taken.
LEMMA OpenTakesSeat ==
  ASSUME TypeOK, NEW c \in Client, header[c] \in Mode, connected[header[c]] = 0,
         OpenMatch(c, header[c])
  PROVE  \/ UNCHANGED <<matches, connected, client>> /\ (port_given \/ game_id' = -1)
         \/ TakesSeat(c, Len(matches) + 1, 1)
<1> DEFINE m == header[c]
           r == init_tcp_threads_data(c, m, game_id', NewGame)
           f == Len(matches) + 1
<1>1. CASE ~(game_id' # -1 /\ init_server_network)
  BY <1>1, Zenon DEF OpenMatch, init_server_network, try_to_bind_port_on_socket
<1>2. CASE game_id' # -1 /\ init_server_network
  <2> SUFFICES TakesSeat(c, f, 1)
    OBVIOUS
  <2>0. /\ matches' = Append(matches, r)
        /\ connected' = [connected EXCEPT ![m] = 1 % PLAYER_NUM]
        /\ client' = [client EXCEPT ![c] = "placed"]
    BY <1>2, Zenon DEF OpenMatch
  <2>1. r.mode = m /\ r.sock = <<c>> /\ r.eq = <<eq(m, 0)>>
    BY DEF init_tcp_threads_data
  <2> HIDE DEF r
  <2>2. matches \in Seq(Match)
    BY DEF TypeOK
  <2>3. /\ DOMAIN matches' = DOMAIN matches \cup {f} /\ f \notin DOMAIN matches
        /\ \A k \in DOMAIN matches : matches'[k] = matches[k]
        /\ matches'[f] = r
    BY <2>0, <2>2
  <2>4. /\ 1 \in 1..PLAYER_NUM /\ 1 - 1 = 0
        /\ Len(r.sock) = 1 /\ Len(r.eq) = 1 /\ r.sock[1] = c /\ r.eq[1] = eq(m, 0)
    BY <2>1, PlayerNumAssumption
  <2> HIDE DEF f
  <2> QED  BY <2>0, <2>1, <2>3, <2>4 DEF TakesSeat
<1> QED  BY <1>1, <1>2

\* A seat that is taken keeps the seats right.
LEMMA TakingKeepsSeats ==
  ASSUME TypeOK, TypeOK', SeatInv, NEW c \in Client, header[c] \in Mode,
         client[c] # "placed", UNCHANGED header, NEW f, NEW n, TakesSeat(c, f, n)
  PROVE  SeatInv'
<1> DEFINE m == header[c]
<1>1. /\ n \in 1..PLAYER_NUM
      /\ DOMAIN matches' = DOMAIN matches \cup {f}
      /\ \A k \in DOMAIN matches \ {f} : matches'[k] = matches[k]
      /\ matches'[f].mode = m
      /\ Len(matches'[f].sock) = n /\ Len(matches'[f].eq) = n
      /\ matches'[f].sock[n] = c /\ matches'[f].eq[n] = eq(m, n - 1)
      /\ f \notin DOMAIN matches => n = 1
      /\ f \in DOMAIN matches =>
           /\ matches[f].mode = m /\ Len(matches[f].sock) = n - 1
           /\ \A i \in 1..n - 1 : /\ matches'[f].sock[i] = matches[f].sock[i]
                                  /\ matches'[f].eq[i] = matches[f].eq[i]
  BY DEF TakesSeat
<1>2. /\ client'[c] = "placed"
      /\ \A d \in Client \ {c} : client'[d] = client[d]
      /\ \A d \in Client : client[d] = "placed" => d # c /\ client'[d] = "placed"
  BY DEF TakesSeat, TypeOK
<1>3. /\ DOMAIN matches'[f].sock = 1..n
      /\ \A k \in DOMAIN matches : DOMAIN matches[k].sock = 1..Len(matches[k].sock)
      /\ \A k \in DOMAIN matches : \A i \in DOMAIN matches[k].sock : matches[k].sock[i] \in Client
      /\ \A k \in DOMAIN matches : matches[k].mode \in Mode
  <2>1. f \in DOMAIN matches'
    BY <1>1
  <2>2. DOMAIN matches'[f].sock = 1..Len(matches'[f].sock)
    <3>1. matches'[f] \in Match
      BY <2>1 DEF TypeOK
    <3> QED  BY <3>1 DEF Match
  <2>3. \A k \in DOMAIN matches :
          DOMAIN matches[k].sock = 1..Len(matches[k].sock) /\ matches[k].mode \in Mode
    BY SeatTypes
  <2>4. \A k \in DOMAIN matches : \A i \in DOMAIN matches[k].sock : matches[k].sock[i] \in Client
    BY SeatTypes
  <2> QED  BY <1>1, <2>2, <2>3, <2>4
\* The seats of the other clients are those there were.
<1>4. \A k \in DOMAIN matches' : \A i \in DOMAIN matches'[k].sock :
        \/ k = f /\ i = n
        \/ /\ k \in DOMAIN matches /\ i \in DOMAIN matches[k].sock
           /\ matches'[k].sock[i] = matches[k].sock[i] /\ matches'[k].eq[i] = matches[k].eq[i]
           /\ matches'[k].mode = matches[k].mode
  BY <1>1, <1>3
<1>5. SeatsTaken'
  <2> SUFFICES ASSUME NEW k \in DOMAIN matches'
               PROVE  /\ Len(matches'[k].sock) \in 1..PLAYER_NUM
                      /\ Len(matches'[k].eq) = Len(matches'[k].sock)
                      /\ \A i \in DOMAIN matches'[k].sock :
                           /\ client'[matches'[k].sock[i]] = "placed"
                           /\ header'[matches'[k].sock[i]] = matches'[k].mode
                           /\ matches'[k].eq[i] = 1
                                <=> matches'[k].mode = "TEAM" /\ i \notin {1, 4}
    BY DEF SeatsTaken
  <2>1. /\ Len(matches'[k].sock) \in 1..PLAYER_NUM
        /\ Len(matches'[k].eq) = Len(matches'[k].sock)
    BY <1>1 DEF SeatInv, SeatsTaken
  <2>2. ASSUME NEW i \in DOMAIN matches'[k].sock
        PROVE  /\ client'[matches'[k].sock[i]] = "placed"
               /\ header'[matches'[k].sock[i]] = matches'[k].mode
               /\ matches'[k].eq[i] = 1 <=> matches'[k].mode = "TEAM" /\ i \notin {1, 4}
    <3>1. CASE k = f /\ i = n
      <4>1. eq(m, n - 1) = 1 <=> m = "TEAM" /\ n \notin {1, 4}
        BY <1>1 DEF eq, Mode
      <4> QED  BY <1>1, <1>2, <3>1, <4>1
    <3>2. CASE /\ k \in DOMAIN matches /\ i \in DOMAIN matches[k].sock
               /\ matches'[k].sock[i] = matches[k].sock[i]
               /\ matches'[k].eq[i] = matches[k].eq[i]
               /\ matches'[k].mode = matches[k].mode
      BY <1>2, <1>3, <3>2 DEF SeatInv, SeatsTaken
    <3> QED  BY <1>4, <3>1, <3>2
  <2> QED  BY <2>1, <2>2
<1>6. \A k \in DOMAIN matches : \A i \in DOMAIN matches[k].sock : matches[k].sock[i] # c
  BY <1>2, <1>3 DEF SeatInv, SeatsTaken
<1>7. OneSeat'
  <2> SUFFICES ASSUME NEW j \in DOMAIN matches', NEW k \in DOMAIN matches',
                      NEW a \in DOMAIN matches'[j].sock, NEW b \in DOMAIN matches'[k].sock,
                      matches'[j].sock[a] = matches'[k].sock[b]
               PROVE  j = k /\ a = b
    BY DEF OneSeat
  <2> QED  BY <1>1, <1>4, <1>6 DEF SeatInv, OneSeat
<1>8. ASeat'
  <2> SUFFICES ASSUME NEW d \in Client, client'[d] = "placed"
               PROVE  \E k \in DOMAIN matches' : \E i \in DOMAIN matches'[k].sock :
                        matches'[k].sock[i] = d
    BY DEF ASeat
  <2>1. CASE d = c
    BY <1>1, <1>3, <2>1
  <2>2. CASE d # c
    <3>1. PICK k \in DOMAIN matches : \E i \in DOMAIN matches[k].sock : matches[k].sock[i] = d
      BY <1>2, <2>2 DEF SeatInv, ASeat
    <3>2. CASE k # f
      BY <1>1, <3>1, <3>2
    <3>3. CASE k = f
      BY <1>1, <1>3, <3>1, <3>3
    <3> QED  BY <3>2, <3>3
  <2> QED  BY <2>1, <2>2
<1>9. OneFilling'
  <2> SUFFICES ASSUME NEW x \in Mode
               PROVE  IF connected'[x] = 0 THEN Filling(x)' = {}
                      ELSE \E k \in Filling(x)' :
                             Filling(x)' = {k} /\ Len(matches'[k].sock) = connected'[x]
    BY DEF OneFilling
  <2>1. \A k : k \in Filling(x)' <=> /\ k \in DOMAIN matches' /\ matches'[k].mode = x
                                    /\ Len(matches'[k].sock) # PLAYER_NUM
    BY DEF Filling, Full
  <2>2. \A k : k \in Filling(x) <=> /\ k \in DOMAIN matches /\ matches[k].mode = x
                                   /\ Len(matches[k].sock) # PLAYER_NUM
    BY DEF Filling, Full
  <2>3. CASE x # m
    <3>1. f \notin Filling(x) /\ \A k : k \in Filling(x)' <=> k \in Filling(x)
      BY <1>1, <2>1, <2>2, <2>3
    <3>3. Filling(x)' = Filling(x)
      BY <3>1
    <3>2. connected'[x] = connected[x]
      BY <2>3 DEF TakesSeat, TypeOK
    <3> QED  BY <1>1, <2>2, <3>1, <3>2, <3>3 DEF SeatInv, OneFilling
  <2>4. CASE x = m
    <3>1. connected'[m] = IF n = PLAYER_NUM THEN 0 ELSE n
      <4>1. connected[m] \in 0..PLAYER_NUM - 1 /\ n = connected[m] + 1
        BY <1>1, PlayerNumAssumption DEF TypeOK, TakesSeat
      <4>2. connected'[m] = n % PLAYER_NUM
        BY DEF TypeOK, TakesSeat
      <4> QED  BY <4>1, <4>2, Wraps
    <3>2. Filling(m) \subseteq {f}
      <4>1. f \notin DOMAIN matches => connected[m] = 0
        BY <1>1 DEF TakesSeat
      <4>2. f \in DOMAIN matches => f \in Filling(m)
        BY <1>1, <2>2, <2>4, PlayerNumAssumption
      <4> QED  BY <4>1, <4>2 DEF SeatInv, OneFilling
    <3>3. Filling(x)' = IF n = PLAYER_NUM THEN {} ELSE {f}
      <4>1. \A k : k \in Filling(x)' <=> k = f /\ n # PLAYER_NUM
        BY <1>1, <2>1, <2>2, <2>4, <3>2
      <4> QED  BY <4>1
    <3> QED  BY <1>1, <2>4, <3>1, <3>3
  <2> QED  BY <2>3, <2>4
<1> QED  BY <1>5, <1>7, <1>8, <1>9 DEF SeatInv

\* Steps that place nobody.
LEMMA SeatsStay ==
  ASSUME TypeOK, SeatInv, UNCHANGED connected, DOMAIN matches' = DOMAIN matches,
         \A k \in DOMAIN matches :
            /\ matches'[k].sock = matches[k].sock /\ matches'[k].eq = matches[k].eq
            /\ matches'[k].mode = matches[k].mode,
         \A c \in Client : /\ client'[c] = "placed" <=> client[c] = "placed"
                           /\ client[c] = "placed" => header'[c] = header[c]
  PROVE  SeatInv'
<1>1. \A k \in DOMAIN matches : \A i \in DOMAIN matches[k].sock : matches[k].sock[i] \in Client
  BY SeatTypes
<1>2. SeatsTaken'
  BY <1>1 DEF SeatInv, SeatsTaken
<1>3. OneSeat' /\ ASeat'
  BY <1>1 DEF SeatInv, OneSeat, ASeat
<1>4. \A m \in Mode : Filling(m)' = Filling(m)
  BY DEF Filling, Full
<1>5. OneFilling'
  BY <1>4 DEF SeatInv, OneFilling, Filling
<1> QED  BY <1>2, <1>3, <1>5 DEF SeatInv

\* The client the loop handles is placed, or nothing of the seats changes.
LEMMA HandleKeepsSeats ==
  ASSUME TypeOK, TypeOK', SeatInv, PolledOnce, Handle
  PROVE  SeatInv'
<1>1. PICK i \in DOMAIN polls :
        \/ Stop("crashed") \/ Stop("spinning")
        \/ /\ polls[i] \in Client /\ header[polls[i]] \in Mode
           /\ connect_one_player_to_game(polls[i])
           /\ remove_polls_to_poll(i)
           /\ next' = i + 1
  BY HandleCases
<1>2. UNCHANGED header
  BY HandleCases
<1>3. CASE Stop("crashed") \/ Stop("spinning")
  BY <1>2, <1>3, SeatsStay DEF Stop
<1>4. CASE /\ polls[i] \in Client /\ header[polls[i]] \in Mode
           /\ connect_one_player_to_game(polls[i])
  <2> DEFINE c == polls[i]
  <2>1. client[c] # "placed"
    BY <1>4 DEF PolledOnce
  <2>2. ASSUME NEW f, NEW n, TakesSeat(c, f, n) PROVE SeatInv'
    BY <1>2, <1>4, <2>1, <2>2, TakingKeepsSeats
  <2>3. CASE connected[header[c]] = 0
    <3>1. OpenMatch(c, header[c])
      BY <1>4, <2>3 DEF connect_one_player_to_game
    <3>2. UNCHANGED <<matches, connected, client>> \/ TakesSeat(c, Len(matches) + 1, 1)
      BY <1>4, <2>3, <3>1, OpenTakesSeat
    <3> QED  BY <1>2, <2>2, <3>2, SeatsStay
  <2>4. CASE connected[header[c]] # 0
    <3>1. JoinMatch(c, header[c])
      BY <1>4, <2>4 DEF connect_one_player_to_game
    <3>2. \E f \in DOMAIN matches : TakesSeat(c, f, connected[header[c]] + 1)
      BY <1>4, <2>4, <3>1, JoinTakesSeat DEF SeatInv
    <3> QED  BY <2>2, <3>2
  <2> QED  BY <2>3, <2>4
<1> QED  BY <1>1, <1>3, <1>4

\* The client the loop handles leaves the polled array, and so does the last.
LEMMA HandleKeepsPolls ==
  ASSUME TypeOK, LobbyInv, PolledOnce, NoneLost, Handle
  PROVE  PolledOnce' /\ NoneLost'
<1>1. PICK i \in DOMAIN polls :
        \/ Stop("crashed") \/ Stop("spinning")
        \/ /\ polls[i] \in Client /\ header[polls[i]] \in Mode
           /\ connect_one_player_to_game(polls[i])
           /\ remove_polls_to_poll(i)
           /\ next' = i + 1
  BY HandleCases
<1>2. UNCHANGED <<header, port_given>>
  BY HandleCases
<1>3. CASE Stop("crashed") \/ Stop("spinning")
  BY <1>2, <1>3 DEF Stop, PolledOnce, NoneLost, Polled
<1>4. CASE /\ polls[i] \in Client /\ header[polls[i]] \in Mode
           /\ connect_one_player_to_game(polls[i])
           /\ remove_polls_to_poll(i)
  <2> DEFINE c == polls[i]
  <2>1. /\ polls' \in Seq(Fd) /\ Len(polls') = Len(polls) - 1
        /\ \A j \in DOMAIN polls' :
              j \in DOMAIN polls /\ polls'[j] = IF j = i THEN LISTEN ELSE polls[j]
        /\ \A j \in DOMAIN polls : j \in DOMAIN polls' \/ j = Len(polls)
    BY <1>4, RemoveSlot DEF TypeOK
  <2>2. \A d \in Client \ {c} : client'[d] = client[d]
    BY <1>4 DEF connect_one_player_to_game, OpenMatch, JoinMatch, TypeOK
  <2>3. ~port_given => client'[c] = "placed"
    <3>1. game_id' # -1 \/ JoinMatch(c, header[c])
      BY <1>4, NewGameIsNew, AddKeepsTable
         DEF connect_one_player_to_game, OpenMatch, LobbyInv
    <3> QED  BY <1>4, <3>1
             DEF connect_one_player_to_game, OpenMatch, JoinMatch, TypeOK, init_server_network
  <2>4. PolledOnce'
    BY <1>4, <2>1, <2>2, SocketAssumption DEF PolledOnce
  <2>5. NoneLost'
    <3> SUFFICES ASSUME ~port_given, \A j \in DOMAIN polls' : polls'[j] \in Client,
                        NEW d \in Client, client'[d] = "waiting"
                 PROVE  \E j \in DOMAIN polls' : polls'[j] = d
      BY <1>2 DEF NoneLost, Polled
    <3>1. i \notin DOMAIN polls'
      BY <2>1, SocketAssumption
    <3>2. i = Len(polls)
      BY <2>1, <3>1
    <3>3. \A j \in DOMAIN polls : polls[j] \in Client
      BY <1>4, <2>1, <3>1, <3>2
    <3>4. d # c /\ client[d] = "waiting"
      BY <2>2, <2>3
    <3>5. PICK j \in DOMAIN polls : polls[j] = d
      BY <3>3, <3>4 DEF NoneLost, Polled
    <3>6. j \in DOMAIN polls' /\ polls'[j] = d
      BY <2>1, <3>1, <3>2, <3>4, <3>5
    <3> QED  BY <3>6
  <2> QED  BY <2>4, <2>5
<1> QED  BY <1>1, <1>3, <1>4

\* A client that is accepted is added to the polled array, in a slot of its own.
LEMMA AcceptKeepsPolls ==
  ASSUME TypeOK, PolledOnce, NoneLost, Accept
  PROVE  PolledOnce' /\ NoneLost'
<1>1. UNCHANGED port_given
  BY DEF Accept
<1>2. CASE UNCHANGED <<client, polls>>
  BY <1>1, <1>2 DEF PolledOnce, NoneLost, Polled
<1>3. ASSUME NEW c \in Client, client[c] = "calling",
             client' = [client EXCEPT ![c] = "waiting"], add_polls_to_poll(c)
      PROVE  PolledOnce' /\ NoneLost'
  <2>1. PICK f \in {c, JUNK} : polls' = Append(polls, f)
    BY <1>3, AddSlot DEF TypeOK
  <2>2. /\ DOMAIN polls' = DOMAIN polls \cup {Len(polls) + 1}
        /\ \A j \in DOMAIN polls : polls'[j] = polls[j]
        /\ polls'[Len(polls) + 1] = f /\ Len(polls) + 1 \notin DOMAIN polls
    BY <2>1 DEF TypeOK
  <2>3. \A d \in Client : client'[d] = IF d = c THEN "waiting" ELSE client[d]
    BY <1>3 DEF TypeOK
  <2>4. \A j \in DOMAIN polls : polls[j] # c
    BY <1>3 DEF PolledOnce
  <2>5. PolledOnce'
    BY <2>1, <2>2, <2>3, <2>4, SocketAssumption DEF PolledOnce
  <2>6. NoneLost'
    <3> SUFFICES ASSUME ~port_given, \A j \in DOMAIN polls' : polls'[j] \in Client,
                        NEW d \in Client, client'[d] = "waiting"
                 PROVE  \E j \in DOMAIN polls' : polls'[j] = d
      BY <1>1 DEF NoneLost, Polled
    <3>1. f = c
      BY <2>2, SocketAssumption
    <3>2. d # c => \E j \in DOMAIN polls : polls[j] = d
      BY <2>2, <2>3 DEF NoneLost, Polled
    <3> QED  BY <2>2, <3>1, <3>2
  <2> QED  BY <2>5, <2>6
<1> QED  BY <1>2, <1>3 DEF Accept

\* SeatInv, PolledOnce and NoneLost are inductive together.
LEMMA SeatInvariant == Spec => [](TypeOK /\ SeatInv /\ PolledOnce /\ NoneLost)
<1> DEFINE IInv == SeatInv /\ PolledOnce /\ NoneLost
<1>1. Init => IInv
  <2> SUFFICES ASSUME Init PROVE IInv
    OBVIOUS
  <2>1. /\ DOMAIN matches = {} /\ DOMAIN polls = {}
        /\ \A m \in Mode : connected[m] = 0
        /\ \A c \in Client : client[c] = "away"
    BY DEF Init
  <2> QED  BY <2>1 DEF SeatInv, SeatsTaken, OneSeat, ASeat, OneFilling, Filling,
                       PolledOnce, NoneLost
<1>2. TypeOK /\ TypeOK' /\ LobbyInv /\ IInv /\ [Next]_vars => IInv'
  <2> SUFFICES ASSUME TypeOK, TypeOK', LobbyInv, IInv, [Next]_vars PROVE IInv'
    OBVIOUS
  <2>1. ASSUME NEW c \in Client, Connect(c) PROVE IInv'
    <3>1. \A d \in Client :
            \/ client'[d] = client[d]
            \/ client[d] = "away" /\ client'[d] = "calling"
      BY <2>1 DEF Connect, TypeOK
    <3>2. UNCHANGED <<header, polls, connected, matches, port_given>>
      BY <2>1 DEF Connect
    <3>3. SeatInv'
      BY <3>1, <3>2, SeatsStay
    <3>4. PolledOnce' /\ NoneLost'
      BY <3>1, <3>2 DEF PolledOnce, NoneLost, Polled
    <3> QED  BY <3>3, <3>4
  <2>2. ASSUME NEW c \in Client, SendHeader(c) PROVE IInv'
    <3>1. \A d \in Client : client[d] = "placed" => header'[d] = header[d]
      BY <2>2 DEF SendHeader, TypeOK
    <3>2. UNCHANGED <<client, polls, connected, matches, port_given>>
      BY <2>2 DEF SendHeader
    <3>3. SeatInv'
      BY <3>1, <3>2, SeatsStay
    <3> QED  BY <3>2, <3>3 DEF PolledOnce, NoneLost, Polled
  <2>3. CASE Poll
    <3>1. UNCHANGED <<client, header, polls, connected, matches, port_given>>
      BY <2>3 DEF Poll
    <3> QED  BY <3>1, SeatsStay DEF PolledOnce, NoneLost, Polled
  <2>4. CASE Handle
    BY <2>4, HandleKeepsSeats, HandleKeepsPolls
  <2>5. CASE Accept
    <3>1. \A d \in Client :
            \/ client'[d] = client[d]
            \/ client[d] = "calling" /\ client'[d] = "waiting"
      BY <2>5 DEF Accept, TypeOK
    <3>2. UNCHANGED <<header, connected, matches>>
      BY <2>5 DEF Accept
    <3>3. SeatInv'
      BY <3>1, <3>2, SeatsStay
    <3> QED  BY <2>5, <3>3, AcceptKeepsPolls
  <2>6. ASSUME NEW k \in DOMAIN matches, EndMatch(k) PROVE IInv'
    <3>1. /\ matches' = [matches EXCEPT ![k].over = TRUE]
          /\ UNCHANGED <<client, header, polls, connected, port_given>>
      BY <2>6 DEF EndMatch
    <3>2. \A j \in DOMAIN matches : matches[j] \in Match
      BY DEF TypeOK
    <3>3. /\ DOMAIN matches' = DOMAIN matches
          /\ \A j \in DOMAIN matches :
                /\ matches'[j].sock = matches[j].sock /\ matches'[j].eq = matches[j].eq
                /\ matches'[j].mode = matches[j].mode
      BY <3>1, <3>2 DEF Match, TypeOK
    <3>4. SeatInv'
      BY <3>1, <3>3, SeatsStay
    <3> QED  BY <3>1, <3>4 DEF PolledOnce, NoneLost, Polled
  <2>7. ASSUME NEW k \in DOMAIN matches, handle_chat_message(k) PROVE IInv'
    <3>1. UNCHANGED <<client, header, polls, connected, matches, port_given>>
      BY <2>7 DEF handle_chat_message, lobby
    <3> QED  BY <3>1, SeatsStay DEF PolledOnce, NoneLost, Polled
  <2>8. CASE UNCHANGED vars
    <3>1. UNCHANGED <<client, header, polls, connected, matches, port_given>>
      BY <2>8 DEF vars, lobby
    <3> QED  BY <3>1, SeatsStay DEF PolledOnce, NoneLost, Polled
  <2> QED  BY <2>1, <2>2, <2>3, <2>4, <2>5, <2>6, <2>7, <2>8 DEF Next
<1> QED  BY <1>1, <1>2, LobbyInvariant, LobbyTypeCorrect, PTL DEF Spec

\* Whatever the order in which clients call and send their modes, a client
\* that is placed sits once, in a match of its mode, in a team that its seat
\* decides, and a mode has one match that fills at most, as many clients in it
\* as its counter says (network_server.c:1356-1418).
THEOREM EveryoneSitsOnce == Spec => []SeatsRight
<1>1. TypeOK /\ SeatInv => SeatsRight
  <2> SUFFICES ASSUME TypeOK, SeatInv PROVE SeatsRight
    OBVIOUS
  <2>1. ASSUME NEW c \in Client, client[c] = "placed"
        PROVE  Cardinality({seat \in (DOMAIN matches) \X (1..PLAYER_NUM) :
                              /\ seat[2] <= Len(matches[seat[1]].sock)
                              /\ matches[seat[1]].sock[seat[2]] = c}) = 1
    <3> DEFINE S == {seat \in (DOMAIN matches) \X (1..PLAYER_NUM) :
                       /\ seat[2] <= Len(matches[seat[1]].sock)
                       /\ matches[seat[1]].sock[seat[2]] = c}
    <3>1. PICK k \in DOMAIN matches : \E i \in DOMAIN matches[k].sock : matches[k].sock[i] = c
      BY <2>1 DEF SeatInv, ASeat
    <3>2. PICK i \in DOMAIN matches[k].sock : matches[k].sock[i] = c
      BY <3>1
    <3>3. \A j \in DOMAIN matches : /\ DOMAIN matches[j].sock = 1..Len(matches[j].sock)
                                    /\ Len(matches[j].sock) \in 1..PLAYER_NUM
      BY SeatTypes DEF SeatInv, SeatsTaken
    <3>4. <<k, i>> \in S
      BY <3>2, <3>3, PlayerNumAssumption
    <3>5. \A seat \in S : seat = <<k, i>>
      <4> SUFFICES ASSUME NEW j \in DOMAIN matches, NEW a \in 1..PLAYER_NUM,
                          a <= Len(matches[j].sock), matches[j].sock[a] = c
                   PROVE  j = k /\ a = i
        OBVIOUS
      <4>1. a \in DOMAIN matches[j].sock
        BY <3>3, PlayerNumAssumption
      <4> QED  BY <3>2, <4>1 DEF SeatInv, OneSeat
    <3>6. S = {<<k, i>>}
      BY <3>4, <3>5
    <3> QED  BY <3>6, FS_Singleton
  <2> QED  BY <2>1 DEF SeatInv, SeatsTaken, OneFilling, SeatsRight
<1> QED  BY <1>1, SeatInvariant, PTL

\* A client that waits is polled, once, unless a slot of the array holds the
\* listening socket or was never written, or the sockets of a match could not
\* be made: nothing else loses a client (network_server.c:662-682).
THEOREM NobodyElseIsLost == Spec => []WaitingPolled
<1>1. PolledOnce /\ NoneLost => WaitingPolled
  <2> SUFFICES ASSUME PolledOnce, NoneLost, ~port_given,
                      \A i \in DOMAIN polls : polls[i] \in Client, NEW c \in Client
               PROVE  client[c] = "waiting" <=> Cardinality({i \in DOMAIN polls : polls[i] = c}) = 1
    BY DEF WaitingPolled
  <2> DEFINE S == {i \in DOMAIN polls : polls[i] = c}
  <2>1. CASE \E i \in DOMAIN polls : polls[i] = c
    <3>1. PICK i \in DOMAIN polls : polls[i] = c
      BY <2>1
    <3>2. S = {i}
      BY <3>1 DEF PolledOnce
    <3> QED  BY <3>1, <3>2, FS_Singleton DEF PolledOnce
  <2>2. CASE ~\E i \in DOMAIN polls : polls[i] = c
    <3>1. S = {}
      BY <2>2
    <3>2. client[c] # "waiting"
      BY <2>2 DEF NoneLost, Polled
    <3> QED  BY <3>1, <3>2, FS_EmptySet
  <2> QED  BY <2>1, <2>2
<1> QED  BY <1>1, SeatInvariant, PTL
=============================================================================
