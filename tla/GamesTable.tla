----------------------------- MODULE GamesTable -----------------------------
(***************************************************************************)
(* The table of games of src/src/model.c: an array of pointers that grows, *)
(* in which games_size counts the live games and is also the first slot    *)
(* add_game looks at.  After a removal that slot may be taken: games_size  *)
(* is then not the first free slot, and add_game has to search.            *)
(***************************************************************************)
EXTENDS Integers, FiniteSets

CONSTANTS
  Game,           \* what malloc may return for a struct game
  NULL,           \* the null pointer
  InitCapacity,   \* games_capacity at the start, 10
  GROWTH_FACTOR   \* 2

ASSUME NullAssumption == NULL \notin Game
ASSUME CapacityAssumption == InitCapacity \in Nat \ {0} /\ GROWTH_FACTOR \in Nat \ {0, 1}

VARIABLES
  games,            \* the array: a function on 0..games_capacity - 1
  games_size,
  games_capacity,
  game_id           \* what the last init_model returned

table == <<games, games_size, games_capacity, game_id>>

TableInit ==
  /\ games = [i \in 0..InitCapacity - 1 |-> NULL]
  /\ games_size = 0
  /\ games_capacity = InitCapacity
  /\ game_id = -1

LiveIds == {i \in DOMAIN games : games[i] # NULL}

\* Plausible mistake: the array never grows.
NeverGrow == games_capacity

\* The array as add_game looks at it, twice as long when it was full.
NewCapacity ==
  IF games_size = games_capacity THEN games_capacity * GROWTH_FACTOR ELSE games_capacity
Slots == [i \in 0..NewCapacity - 1 |-> IF i < games_capacity THEN games[i] ELSE NULL]

\* Plausible mistake: the count of the games is taken for the first free slot.
SlotAtSize == games_size

\* Where add_game puts a game: at games_size, else in the first free slot.
FreeSlot ==
  LET free == {i \in DOMAIN Slots : Slots[i] = NULL} IN
  IF games_size \in free THEN games_size
  ELSE IF free # {} THEN CHOOSE i \in free : \A j \in free : i <= j
  ELSE -1

add_game(g) ==
  /\ games_capacity' = NewCapacity
  /\ game_id' = FreeSlot
  /\ games' = [i \in DOMAIN Slots |-> IF i = FreeSlot THEN g ELSE Slots[i]]
  /\ games_size' = IF FreeSlot = -1 THEN games_size ELSE games_size + 1

\* init_model, whose other steps only fill the game just added.
init_model == \E g \in Game \ {games[i] : i \in DOMAIN games} : add_game(g)

\* Plausible mistake: a removal is not counted.
RemoveUncounted(i) ==
  /\ games' = IF i \in LiveIds THEN [games EXCEPT ![i] = NULL] ELSE games
  /\ UNCHANGED <<games_size, games_capacity, game_id>>

\* Removing a game that is not there does nothing.
remove_game(i) ==
  /\ IF i \in LiveIds
       THEN games' = [games EXCEPT ![i] = NULL] /\ games_size' = games_size - 1
       ELSE UNCHANGED <<games, games_size>>
  /\ UNCHANGED <<games_capacity, game_id>>

TableNext == init_model \/ \E i \in Nat : remove_game(i)

TableSpec == TableInit /\ [][TableNext]_table

-----------------------------------------------------------------------------
(* games_size counts the live games: what add_game relies on when it takes *)
(* games_size for a slot of the array, and for a slot that is free as long *)
(* as nothing was removed (model.c:54-73).                                 *)
SizeCountsGames ==
  /\ games_capacity \in Nat /\ DOMAIN games = 0..games_capacity - 1
  /\ games_size = Cardinality(LiveIds)

(* The table implements the pool: an id handed out is not in use, a game   *)
(* keeps its slot until that slot is removed, and there is always one.     *)
Pool == INSTANCE GamePool WITH live <- [i \in LiveIds |-> games[i]]
RefinesPool == Pool!Spec
=============================================================================
