-------------------------- MODULE GameModel_proofs --------------------------
(***************************************************************************)
(* For every board size, bomb lifetime, mode and batch: the board, the     *)
(* player table and the bomb array of GameModel stay consistent, an        *)
(* explosion is what the loops of ExplosionLoops make of the board, and    *)
(* each call is a step of the rules of the game (BombermanRules).          *)
(***************************************************************************)
EXTENDS ExplosionLoops, SequenceTheorems, TLAPS

\* The inductive invariant.  BombTracking needs NobodyInWall only for walls to
\* survive; NoGhostTile and LivingOnBoard need each other at every move.
Consistent ==
  BombTracking /\ NoGhostTile /\ LivingOnBoard /\ PillarsStand /\ NobodyInWall

IInv == TypeOK /\ Consistent

-----------------------------------------------------------------------------
(* Tiles and sequences. *)

\* A function on 1..n is a sequence of length n.
LEMMA FunctionIsSeq ==
  ASSUME NEW S, NEW n \in Nat, NEW f \in [1..n -> S]
  PROVE  f \in Seq(S) /\ Len(f) = n
BY SeqDef, LenProperties

\* get_player gives each player a tile of its own, which is no bomb, wall or gap.
LEMMA PlayerTiles ==
  ASSUME NEW p \in Player
  PROVE  /\ get_player(p) \in PlayerTile
         /\ get_player(p) \in Tile
         /\ get_player(p) \notin {EMPTY, BOMB} \cup Wall
         /\ \A q \in Player : get_player(p) = get_player(q) => p = q
BY DEF get_player, PlayerTile, Tile, Player, Wall, PLAYER_1, EMPTY, BOMB,
       INDESTRUCTIBLE_WALL, DESTRUCTIBLE_WALL

\* The tiles that are no players are different from each other.
LEMMA OtherTiles ==
  /\ EMPTY \in Tile /\ BOMB \in Tile
  /\ EMPTY # BOMB /\ EMPTY \notin Wall /\ BOMB \notin Wall
  /\ INDESTRUCTIBLE_WALL \in Wall /\ DESTRUCTIBLE_WALL \in Wall
  /\ INDESTRUCTIBLE_WALL # DESTRUCTIBLE_WALL
BY DEF Tile, Wall, EMPTY, BOMB, INDESTRUCTIBLE_WALL, DESTRUCTIBLE_WALL

-----------------------------------------------------------------------------
(* The corners. *)

LEMMA Corners ==
  /\ \A p \in Player : StartPos(p) \in Cell
  /\ \A p, q \in Player : StartPos(p) = StartPos(q) => p = q
  /\ \A p \in Player : StartPos(p) \notin Pillars \cup MaybeWall
<1>1. \A p \in Player : StartPos(p) =
         <<IF p \in {0, 2} THEN 0 ELSE Width - 1, IF p \in {0, 1} THEN 0 ELSE Height - 1>>
  BY SizeAssumption DEF StartPos, Player
<1>. QED
  BY <1>1, SizeAssumption DEF Player, Cell, Pillars, MaybeWall

\* Every initial board is consistent, wherever the destructible walls are.
LEMMA InitConsistent == Init => IInv
<1>. SUFFICES ASSUME Init PROVE IInv
  OBVIOUS
<1>. PICK walls \in SUBSET MaybeWall : grid = [c \in Cell |-> InitialTile(walls, c)]
  BY DEF Init
<1>1. \A p \in Player : InitialTile(walls, StartPos(p)) = get_player(p)
  BY Corners DEF InitialTile
<1>2. \A c \in Cell : \/ \E p \in Player : StartPos(p) = c /\ InitialTile(walls, c) = get_player(p)
                     \/ /\ \A p \in Player : StartPos(p) # c
                        /\ InitialTile(walls, c) = DESTRUCTIBLE_WALL
                        /\ c \in MaybeWall
                     \/ /\ \A p \in Player : StartPos(p) # c
                        /\ InitialTile(walls, c) = INDESTRUCTIBLE_WALL
                        /\ c \in Pillars \ walls
                     \/ /\ \A p \in Player : StartPos(p) # c
                        /\ InitialTile(walls, c) = EMPTY
                        /\ c \notin Pillars \cup walls
  BY <1>1 DEF InitialTile
<1>3. MaybeWall \cap Pillars = {}
  BY SizeAssumption DEF MaybeWall, Pillars, Cell
<1>4. TypeOK
  <2>1. \A c \in Cell : InitialTile(walls, c) \in Tile
    BY <1>2, PlayerTiles, OtherTiles DEF Tile
  <2>. QED
    BY <2>1, Corners DEF Init, TypeOK
<1>5. bombs = <<>> /\ Len(bombs) = 0
  BY DEF Init
<1>6. BombTracking
  <2>1. \A c \in Cell : grid[c] # BOMB
    BY <1>2, PlayerTiles, OtherTiles
  <2>. QED
    BY <2>1, <1>5 DEF BombTracking
<1>7. NoGhostTile /\ LivingOnBoard
  <2>1. pos = [p \in Player |-> StartPos(p)] /\ dead = {}
    BY DEF Init
  <2>2. NoGhostTile
    BY <2>1, <1>2, PlayerTiles, OtherTiles DEF NoGhostTile
  <2>3. LivingOnBoard
    BY <2>1, <1>1, Corners DEF LivingOnBoard
  <2>. QED
    BY <2>2, <2>3
<1>8. PillarsStand
  BY <1>2, <1>3, Corners, PlayerTiles, OtherTiles DEF PillarsStand
<1>9. NobodyInWall
  BY <1>1, PlayerTiles, OtherTiles, Corners DEF NobodyInWall, IsWall, Init
<1>. QED
  BY <1>4, <1>6, <1>7, <1>8, <1>9 DEF IInv, Consistent

-----------------------------------------------------------------------------
(* The operators that change the board. *)

\* A player who may move goes from a cell with its tile or a bomb to an empty one.
LEMMA MoveKeepsConsistent ==
  ASSUME IInv, NEW p \in Player, NEW a \in Move, perform_move(a, p)
  PROVE  /\ grid' \in [Cell -> Tile] /\ pos' \in [Player -> Cell]
         /\ dead' = dead /\ bombs' = bombs
         /\ Consistent'
<1>. DEFINE from == pos[p]
            to   == get_next_position(a, from)
<1>. USE DEF IInv, Consistent, TypeOK
<1>1. CASE p \in dead \/ ~can_move_to_position(to)
  <2>1. UNCHANGED <<grid, pos, dead, bombs>>
    BY <1>1 DEF perform_move
  <2>. QED
    BY <2>1 DEF BombTracking, NoGhostTile, LivingOnBoard, PillarsStand, NobodyInWall, IsWall
<1>2. CASE p \notin dead /\ can_move_to_position(to)
  <2>1. /\ from \in Cell /\ to \in Cell
        /\ grid[to] = EMPTY
        /\ grid[from] \in {get_player(p), BOMB}
        /\ from # to
    BY <1>2, PlayerTiles, OtherTiles DEF can_move_to_position, LivingOnBoard, Tile
  <2>2. /\ pos' = [pos EXCEPT ![p] = to]
        /\ grid' = [grid EXCEPT ![to] = get_player(p),
                                ![from] = IF grid[from] = BOMB THEN BOMB ELSE EMPTY]
        /\ UNCHANGED <<dead, bombs>>
    BY <1>2 DEF perform_move
  <2>. HIDE DEF from, to
  <2>3. grid' \in [Cell -> Tile] /\ pos' \in [Player -> Cell]
    BY <2>1, <2>2, PlayerTiles, OtherTiles
  <2>4. /\ grid'[to] = get_player(p)
        /\ grid'[from] = IF grid[from] = BOMB THEN BOMB ELSE EMPTY
        /\ \A c \in Cell : c # to /\ c # from => grid'[c] = grid[c]
        /\ pos'[p] = to
        /\ \A q \in Player : q # p => pos'[q] = pos[q]
    BY <2>1, <2>2
  <2>5. \A c \in Cell : grid'[c] = BOMB <=> grid[c] = BOMB
    BY <2>1, <2>4, PlayerTiles, OtherTiles
  <2>6. BombTracking'
    BY <2>2, <2>5 DEF BombTracking
  <2>7. NoGhostTile'
    <3>. SUFFICES ASSUME NEW q \in Player, NEW c \in Cell, grid'[c] = get_player(q)
                  PROVE  q \notin dead /\ pos'[q] = c
      BY <2>2 DEF NoGhostTile
    <3>1. CASE c = to
      BY <3>1, <1>2, <2>4, PlayerTiles
    <3>2. CASE c = from
      BY <3>2, <2>4, PlayerTiles
    <3>3. CASE c # to /\ c # from
      BY <3>3, <2>4 DEF NoGhostTile, from
    <3>. QED
      BY <3>1, <3>2, <3>3
  <2>8. \A q \in Player \ dead : q # p => pos[q] # to /\ pos[q] # from
    BY <1>2, <2>1, PlayerTiles, OtherTiles DEF LivingOnBoard, from
  <2>9. LivingOnBoard'
    BY <2>2, <2>4, <2>8 DEF LivingOnBoard
  <2>10. \A c \in Cell : grid'[c] \in Wall <=> grid[c] \in Wall
    BY <2>1, <2>4, PlayerTiles, OtherTiles
  <2>11. PillarsStand'
    BY <2>1, <2>4, PlayerTiles, OtherTiles DEF PillarsStand
  <2>12. NobodyInWall'
    BY <2>1, <2>2, <2>4, <2>10, PlayerTiles DEF NobodyInWall, IsWall
  <2>. QED
    BY <2>2, <2>3, <2>6, <2>7, <2>9, <2>11, <2>12
<1>. QED
  BY <1>1, <1>2

\* A bomb goes on a cell that has none and that is no wall; what it covers is
\* at most the tile of a player who stands there.
LEMMA PlaceKeepsConsistent ==
  ASSUME IInv, NEW p \in Player, place_bomb(p)
  PROVE  /\ grid' \in [Cell -> Tile] /\ pos' = pos
         /\ dead' = dead /\ bombs' \in Seq(BombRecord)
         /\ Consistent'
<1>. USE DEF IInv, Consistent, TypeOK
<1>1. CASE grid[pos[p]] = BOMB
  <2>1. UNCHANGED <<grid, pos, dead, bombs>>
    BY <1>1 DEF place_bomb
  <2>. QED
    BY <2>1 DEF BombTracking, NoGhostTile, LivingOnBoard, PillarsStand, NobodyInWall, IsWall
<1>2. CASE grid[pos[p]] # BOMB
  <2>. DEFINE at == pos[p]
              b  == [pos |-> at, age |-> 0]
              n  == Len(bombs)
  <2>1. /\ bombs' = Append(bombs, b)
        /\ grid' = [grid EXCEPT ![at] = BOMB]
        /\ UNCHANGED <<pos, dead>>
    BY <1>2 DEF place_bomb
  <2>2. at \in Cell /\ grid[at] # BOMB /\ grid[at] \notin Wall
    BY <1>2 DEF NobodyInWall, IsWall
  <2>3. b \in BombRecord /\ b.pos = at
    BY <2>2, LifetimeAssumption DEF BombRecord
  <2>4. /\ bombs' \in Seq(BombRecord) /\ n \in Nat /\ Len(bombs') = n + 1
        /\ \A i \in 1..n : bombs'[i] = bombs[i]
        /\ bombs'[n + 1] = b
    BY <2>1, <2>3, LenProperties
  <2>. HIDE DEF at, b, n
  <2>5. /\ grid'[at] = BOMB
        /\ \A c \in Cell : c # at => grid'[c] = grid[c]
        /\ grid' \in [Cell -> Tile]
    BY <2>1, <2>2, OtherTiles
  <2>6. BombTracking'
    <3>1. \A i \in 1..n : bombs[i].pos # at
      BY <2>2 DEF BombTracking, n
    <3>2. \A i \in 1..n + 1 : i \in 1..n \/ i = n + 1
      BY <2>4
    <3>3. \A c \in Cell : grid'[c] = BOMB <=> \E i \in 1..n + 1 : bombs'[i].pos = c
      <4>. SUFFICES ASSUME NEW c \in Cell
                    PROVE  grid'[c] = BOMB <=> \E i \in 1..n + 1 : bombs'[i].pos = c
        OBVIOUS
      <4>1. CASE c = at
        BY <4>1, <2>3, <2>4, <2>5
      <4>2. CASE c # at
        <5>1. grid[c] = BOMB <=> \E i \in 1..n : bombs[i].pos = c
          BY DEF BombTracking, n
        <5>. QED
          BY <5>1, <4>2, <2>3, <2>4, <2>5, <3>2
      <4>. QED
        BY <4>1, <4>2
    <3>4. \A i, j \in 1..n + 1 : bombs'[i].pos = bombs'[j].pos => i = j
      <4>1. \A i, j \in 1..n : bombs[i].pos = bombs[j].pos => i = j
        BY DEF BombTracking, n
      <4>. QED
        BY <4>1, <3>1, <3>2, <2>3, <2>4
    <3>. QED
      BY <3>3, <3>4, <2>4 DEF BombTracking
  <2>7. NoGhostTile'
    BY <2>1, <2>5, PlayerTiles DEF NoGhostTile
  <2>8. LivingOnBoard'
    BY <2>1, <2>5 DEF LivingOnBoard
  <2>9. PillarsStand'
    BY <2>2, <2>5, OtherTiles DEF PillarsStand
  <2>10. NobodyInWall'
    BY <2>1, <2>5, OtherTiles DEF NobodyInWall, IsWall
  <2>. QED
    BY <2>1, <2>4, <2>5, <2>6, <2>7, <2>8, <2>9, <2>10
<1>. QED
  BY <1>1, <1>2

\* The array after an explosion: every bomb but the i-th, each once.
LEMMA SwapRemoveKeepsOthers ==
  ASSUME NEW S, NEW s \in Seq(S), NEW i \in 1..Len(s)
  PROVE  /\ SwapRemove(s, i) \in Seq(S)
         /\ Len(SwapRemove(s, i)) = Len(s) - 1
         /\ \A k \in 1..Len(s) - 1 :
               SwapRemove(s, i)[k] = IF k = i THEN s[Len(s)] ELSE s[k]
<1>. DEFINE n == Len(s) - 1
            r == [k \in 1..n |-> IF k = i THEN s[Len(s)] ELSE s[k]]
<1>1. n \in Nat /\ SwapRemove(s, i) = r
  BY LenProperties DEF SwapRemove
<1>2. \A k \in 1..n : (IF k = i THEN s[Len(s)] ELSE s[k]) \in S
  BY ElementOfSeq, LenProperties
<1>3. r \in [1..n -> S]
  BY <1>2
<1>. HIDE DEF r
<1>4. r \in Seq(S) /\ Len(r) = n
  BY <1>1, <1>3, FunctionIsSeq
<1>. QED
  BY <1>1, <1>4 DEF r

\* A bomb that explodes leaves the board without its own tile, without the
\* tiles of those it kills, and without the crates it reaches.
LEMMA ExplodeKeepsConsistent ==
  ASSUME IInv, NEW i \in 1..Len(bombs), explode(i)
  PROVE  /\ grid' \in [Cell -> Tile] /\ pos' = pos
         /\ dead' \in SUBSET Player /\ bombs' \in Seq(BombRecord)
         /\ Consistent'
<1>. USE DEF IInv, Consistent, TypeOK
<1>. DEFINE b == bombs[i].pos
            n == Len(bombs)
<1>1. /\ grid' = [GridAfterBlast(b) EXCEPT ![b] = EMPTY]
      /\ dead' = dead \cup Killed(b)
      /\ bombs' = SwapRemove(bombs, i)
      /\ pos' = pos
  BY DEF explode
<1>2. n \in Nat /\ b \in Cell /\ grid[b] = BOMB
  <2>1. n \in Nat
    BY LenProperties
  <2>2. bombs[i] \in BombRecord
    BY ElementOfSeq
  <2>3. b \in Cell
    BY <2>2 DEF BombRecord
  <2>. QED
    BY <2>1, <2>3 DEF BombTracking
<1>3. b \in BlastZone(b) /\ BlastZone(b) \subseteq Cell
  BY <1>2 DEF BlastZone
<1>. HIDE DEF b, n
<1>4. /\ grid' \in [Cell -> Tile]
      /\ grid'[b] = EMPTY
      /\ \A c \in Cell : c # b =>
            grid'[c] = IF c \in BlastZone(b) /\ grid[c] \in {DESTRUCTIBLE_WALL} \cup PlayerTile
                       THEN EMPTY ELSE grid[c]
  BY <1>1, <1>2, OtherTiles DEF GridAfterBlast
<1>5. dead' \in SUBSET Player
  BY <1>1 DEF Killed
<1>6. /\ bombs' \in Seq(BombRecord)
      /\ Len(bombs') = n - 1
      /\ \A k \in 1..n - 1 : bombs'[k] = IF k = i THEN bombs[n] ELSE bombs[k]
  BY <1>1, SwapRemoveKeepsOthers DEF n
<1>7. i \in 1..n /\ b = bombs[i].pos
  BY DEF n, b
<1>8. BombTracking'
  <2>1. \A c \in Cell : grid'[c] = BOMB <=> grid[c] = BOMB /\ c # b
    BY <1>4, OtherTiles, PlayerTiles DEF PlayerTile
  <2>2. \A j, k \in 1..n : bombs[j].pos = bombs[k].pos => j = k
    BY DEF BombTracking, n
  <2>3. \A c \in Cell : grid[c] = BOMB <=> \E k \in 1..n : bombs[k].pos = c
    BY DEF BombTracking, n
  <2>4. \A c \in Cell : (\E k \in 1..n - 1 : bombs'[k].pos = c)
                       <=> (\E k \in 1..n : k # i /\ bombs[k].pos = c)
    <3>. SUFFICES ASSUME NEW c \in Cell
                  PROVE  (\E k \in 1..n - 1 : bombs'[k].pos = c)
                         <=> (\E k \in 1..n : k # i /\ bombs[k].pos = c)
      OBVIOUS
    <3>1. ASSUME NEW k \in 1..n - 1, bombs'[k].pos = c
          PROVE  \E m \in 1..n : m # i /\ bombs[m].pos = c
      <4>1. CASE k = i
        BY <4>1, <3>1, <1>2, <1>6
      <4>2. CASE k # i
        BY <4>2, <3>1, <1>2, <1>6
      <4>. QED
        BY <4>1, <4>2
    <3>2. ASSUME NEW k \in 1..n, k # i, bombs[k].pos = c
          PROVE  \E m \in 1..n - 1 : bombs'[m].pos = c
      <4>1. CASE k = n
        BY <4>1, <3>2, <1>2, <1>6, <1>7
      <4>2. CASE k # n
        BY <4>2, <3>2, <1>2, <1>6
      <4>. QED
        BY <4>1, <4>2
    <3>. QED
      BY <3>1, <3>2
  <2>5. \A j, k \in 1..n - 1 : bombs'[j].pos = bombs'[k].pos => j = k
    BY <2>2, <1>2, <1>6, <1>7
  <2>6. \A c \in Cell : grid'[c] = BOMB <=> \E k \in 1..n - 1 : bombs'[k].pos = c
    BY <2>1, <2>2, <2>3, <2>4, <1>7
  <2>. QED
    BY <2>5, <2>6, <1>6 DEF BombTracking
<1>9. NoGhostTile'
  <2>. SUFFICES ASSUME NEW p \in Player, NEW c \in Cell, grid'[c] = get_player(p)
                PROVE  p \notin dead \cup Killed(b) /\ pos[p] = c
    BY <1>1 DEF NoGhostTile
  <2>1. c # b /\ c \notin BlastZone(b) /\ grid[c] = get_player(p)
    BY <1>4, PlayerTiles
  <2>2. p \notin dead /\ pos[p] = c /\ \A d \in Cell : grid[d] = get_player(p) => d = c
    BY <2>1 DEF NoGhostTile
  <2>. QED
    BY <2>1, <2>2, <1>3 DEF Killed
<1>10. \A p \in Player : p \notin dead' => p \notin dead /\ pos[p] \notin BlastZone(b)
  BY <1>1 DEF Killed, NobodyInWall
<1>11. LivingOnBoard'
  BY <1>1, <1>3, <1>4, <1>5, <1>10 DEF LivingOnBoard
<1>12. \A c \in Cell : grid'[c] \in Wall => grid[c] \in Wall
  BY <1>4, OtherTiles
<1>13. PillarsStand'
  BY <1>2, <1>4, OtherTiles, PlayerTiles DEF PillarsStand, PlayerTile
<1>14. NobodyInWall'
  BY <1>1, <1>12 DEF NobodyInWall, IsWall
<1>. QED
  BY <1>1, <1>4, <1>5, <1>6, <1>8, <1>9, <1>11, <1>13, <1>14

\* A player who leaves takes its only tile along, if it stands on one.
LEMMA DisconnectKeepsConsistent ==
  ASSUME IInv, NEW p \in Player, SetPlayerDead(p)
  PROVE  IInv'
<1>. USE DEF IInv, Consistent, TypeOK
<1>1. /\ dead' = dead \cup {p}
      /\ UNCHANGED <<pos, bombs, call, todo, idx>>
  BY DEF SetPlayerDead
<1>2. /\ grid' \in [Cell -> Tile]
      /\ \A c \in Cell : grid'[c] = IF grid[c] = get_player(p) THEN EMPTY ELSE grid[c]
  <2>1. CASE TilesOf(p) = {}
    BY <2>1 DEF SetPlayerDead, TilesOf
  <2>2. CASE TilesOf(p) # {}
    <3>1. TilesOf(p) = {pos[p]}
      BY <2>2 DEF TilesOf, NoGhostTile
    <3>2. Before(pos[p], pos[p])
      BY SizeAssumption DEF Before, Cell
    <3>3. FirstTileOf(p) = pos[p]
      BY <3>1, <3>2 DEF FirstTileOf
    <3>4. grid' = [grid EXCEPT ![pos[p]] = EMPTY]
      BY <2>2, <3>3 DEF SetPlayerDead
    <3>. QED
      BY <3>1, <3>4, OtherTiles DEF TilesOf
  <2>. QED
    BY <2>1, <2>2
<1>3. \A c \in Cell : grid'[c] \in {BOMB} \cup Wall \/ grid[c] \in {BOMB} \cup Wall
                     => grid'[c] = grid[c]
  BY <1>2, PlayerTiles, OtherTiles
<1>4. BombTracking'
  BY <1>1, <1>3 DEF BombTracking
<1>5. NoGhostTile'
  BY <1>1, <1>2, PlayerTiles DEF NoGhostTile
<1>6. LivingOnBoard'
  BY <1>1, <1>2, PlayerTiles, OtherTiles DEF LivingOnBoard
<1>7. PillarsStand'
  BY <1>3, OtherTiles DEF PillarsStand
<1>8. NobodyInWall'
  BY <1>1, <1>3 DEF NobodyInWall, IsWall
<1>. QED
  BY <1>1, <1>2, <1>4, <1>5, <1>6, <1>7, <1>8

\* A second that passes moves no bomb.
LEMMA TickKeepsConsistent ==
  ASSUME IInv, Tick
  PROVE  IInv'
<1>. USE DEF IInv, Consistent, TypeOK
<1>1. /\ bombs' = [i \in 1..Len(bombs) |-> Older(bombs[i])]
      /\ UNCHANGED <<grid, pos, dead, call, todo, idx>>
  BY DEF Tick
<1>2. Len(bombs) \in Nat /\ \A i \in 1..Len(bombs) : bombs[i] \in BombRecord
  BY ElementOfSeq, LenProperties
<1>3. \A r \in BombRecord : Older(r) \in BombRecord /\ Older(r).pos = r.pos
  BY LifetimeAssumption DEF Older, BombRecord
<1>4. bombs' \in [1..Len(bombs) -> BombRecord]
  BY <1>1, <1>2, <1>3
<1>5. bombs' \in Seq(BombRecord) /\ Len(bombs') = Len(bombs)
  BY <1>2, <1>4, FunctionIsSeq
<1>6. \A i \in 1..Len(bombs) : bombs'[i].pos = bombs[i].pos
  BY <1>1, <1>2, <1>3
<1>7. BombTracking'
  <2>1. grid' = grid
    BY <1>1
  <2>2. BombTracking
    OBVIOUS
  <2>3. \A c \in Cell : grid'[c] = BOMB <=> \E i \in 1..Len(bombs') : bombs'[i].pos = c
    BY <2>1, <2>2, <1>5, <1>6 DEF BombTracking
  <2>4. \A i, j \in 1..Len(bombs') : bombs'[i].pos = bombs'[j].pos => i = j
    BY <2>2, <1>5, <1>6 DEF BombTracking
  <2>. QED
    BY <2>3, <2>4 DEF BombTracking
<1>8. (NoGhostTile /\ LivingOnBoard /\ PillarsStand /\ NobodyInWall)'
  BY <1>1 DEF NoGhostTile, LivingOnBoard, PillarsStand, NobodyInWall, IsWall
<1>. QED
  BY <1>1, <1>5, <1>7, <1>8

-----------------------------------------------------------------------------
(* The inductive step, action by action. *)

LEMMA NextKeepsConsistent == IInv /\ [Next]_vars => IInv'
<1>. SUFFICES ASSUME IInv, [Next]_vars PROVE IInv'
  OBVIOUS
<1>1. ASSUME NEW p \in Player, SetPlayerDead(p) PROVE IInv'
  BY <1>1, DisconnectKeepsConsistent
<1>2. ASSUME UNCHANGED <<grid, pos, dead, bombs>>, TypeOK' PROVE IInv'
  BY <1>2 DEF IInv, Consistent, BombTracking, NoGhostTile, LivingOnBoard, PillarsStand,
              NobodyInWall, IsWall
<1>3. ASSUME NEW batch \in Batches, UpdateGameBoard(batch) PROVE IInv'
  BY <1>2, <1>3, BatchAssumption DEF UpdateGameBoard, IInv, TypeOK
<1>4. ASSUME call = "actions", todo # <<>>
      PROVE  /\ Head(todo).id \in Player
             /\ Head(todo).action \in Move \cup {"PLACE_BOMB"}
             /\ Tail(todo) \in Seq(PlayerAction)
  <2>1. Head(todo) \in PlayerAction /\ Tail(todo) \in Seq(PlayerAction)
    BY <1>4, HeadTailProperties DEF IInv, TypeOK
  <2>. QED
    BY <2>1 DEF PlayerAction
<1>5. ASSUME ApplyMove PROVE IInv'
  <2>1. /\ Head(todo).id \in Player /\ Head(todo).action \in Move
        /\ Tail(todo) \in Seq(PlayerAction)
        /\ perform_move(Head(todo).action, Head(todo).id)
        /\ todo' = Tail(todo) /\ UNCHANGED <<call, idx>>
    BY <1>4, <1>5 DEF ApplyMove
  <2>2. /\ grid' \in [Cell -> Tile] /\ pos' \in [Player -> Cell]
        /\ dead' = dead /\ bombs' = bombs
        /\ Consistent'
    BY <2>1, MoveKeepsConsistent
  <2>. QED
    BY <2>1, <2>2 DEF IInv, TypeOK
<1>6. ASSUME ApplyPlaceBomb PROVE IInv'
  <2>1. /\ Head(todo).id \in Player
        /\ Tail(todo) \in Seq(PlayerAction)
        /\ place_bomb(Head(todo).id)
        /\ todo' = Tail(todo) /\ UNCHANGED <<call, idx>>
    BY <1>4, <1>6 DEF ApplyPlaceBomb
  <2>2. /\ grid' \in [Cell -> Tile] /\ pos' = pos
        /\ dead' = dead /\ bombs' \in Seq(BombRecord)
        /\ Consistent'
    BY <2>1, PlaceKeepsConsistent
  <2>. QED
    BY <2>1, <2>2 DEF IInv, TypeOK
<1>7. ASSUME UpdateBombs PROVE IInv'
  BY <1>2, <1>7 DEF UpdateBombs, IInv, TypeOK
<1>8. ASSUME ExplodeBomb PROVE IInv'
  <2>1. idx \in 1..Len(bombs)
    BY <1>8, LenProperties DEF ExplodeBomb, IInv, TypeOK
  <2>2. explode(idx) /\ idx' = idx + 1 /\ UNCHANGED <<call, todo>>
    BY <1>8 DEF ExplodeBomb
  <2>3. /\ grid' \in [Cell -> Tile] /\ pos' = pos
        /\ dead' \in SUBSET Player /\ bombs' \in Seq(BombRecord)
        /\ Consistent'
    BY <2>1, <2>2, ExplodeKeepsConsistent
  <2>. QED
    BY <2>2, <2>3 DEF IInv, TypeOK
<1>9. ASSUME KeepBomb PROVE IInv'
  BY <1>2, <1>9 DEF KeepBomb, IInv, TypeOK
<1>10. ASSUME Return PROVE IInv'
  BY <1>2, <1>10 DEF Return, IInv, TypeOK
<1>11. ASSUME Tick PROVE IInv'
  BY <1>11, TickKeepsConsistent
<1>12. ASSUME UNCHANGED vars PROVE IInv'
  BY <1>2, <1>12 DEF vars, IInv, TypeOK
<1>. QED
  BY <1>1, <1>3, <1>5, <1>6, <1>7, <1>8, <1>9, <1>10, <1>11, <1>12 DEF Next

\* The inductive invariant holds of every match.
LEMMA Invariance == Spec => []IInv
BY InitConsistent, NextKeepsConsistent, PTL DEF Spec

\* model.c keeps every variable in its range: no move, batch, explosion or array
\* removal writes outside the board, the player table or the bomb array.
THEOREM TypeCorrect == Spec => []TypeOK
BY Invariance, PTL DEF IInv

\* The bomb array and the board agree after every step of every call.
THEOREM BombsTracked == Spec => []BombTracking
<1>1. IInv => BombTracking
  BY DEF IInv, Consistent
<1>. QED
  BY <1>1, Invariance, PTL

\* No tile of a player survives its move, its death or its disconnection.
THEOREM GhostFree == Spec => []NoGhostTile
<1>1. IInv => NoGhostTile
  BY DEF IInv, Consistent
<1>. QED
  BY <1>1, Invariance, PTL

\* Players who are alive never share a cell, and the board shows them all.
THEOREM LivingApart == Spec => []LivingOnBoard
<1>1. IInv => LivingOnBoard
  BY DEF IInv, Consistent
<1>. QED
  BY <1>1, Invariance, PTL

\* The indestructible walls outlast the match and nobody is inside a wall.
THEOREM WallsRespected == Spec => [](PillarsStand /\ NobodyInWall)
<1>1. IInv => PillarsStand /\ NobodyInWall
  BY DEF IInv, Consistent
<1>. QED
  BY <1>1, Invariance, PTL

-----------------------------------------------------------------------------
(* The loops of an explosion. *)

\* The match when the cells of Z have been visited by the explosion of the bomb at b.
Visited(Z, b) ==
  [grid |-> [c \in Cell |-> IF c \in Z /\ grid[c] \in {DESTRUCTIBLE_WALL} \cup PlayerTile
                            THEN EMPTY ELSE grid[c]],
   dead |-> dead \cup {p \in Player : \/ \E c \in Z \cap Cell : grid[c] = get_player(p)
                                      \/ pos[p] = b
                                      \/ pos[p] \in Z /\ ~IsWall(pos[p])}]

\* The cells one arm visits.
Arm(b, d) ==
  {b, Shift(b, d, 1)} \cup IF IsWall(Shift(b, d, 1)) THEN {} ELSE {Shift(b, d, 2)}

\* One more cell.  What it shows is what it showed before the explosion, unless
\* it was visited, and then it was no wall.
LEMMA OneMore ==
  ASSUME TypeOK, NEW Z, NEW b, NEW c, c \in Z => ~IsWall(c)
  PROVE  /\ apply_explosion_effect(Visited(Z, b), c) = Visited(Z \cup {c}, b)
         /\ Impact(Visited(Z, b), c) <=> IsWall(c)
<1>. DEFINE m == Visited(Z, b)
            g == [e \in Cell |-> IF e \in Z /\ grid[e] \in {DESTRUCTIBLE_WALL} \cup PlayerTile
                                 THEN EMPTY ELSE grid[e]]
            D(Y) == {p \in Player : \/ \E e \in Y \cap Cell : grid[e] = get_player(p)
                                    \/ pos[p] = b
                                    \/ pos[p] \in Y /\ ~IsWall(pos[p])}
<1>1. m.grid = g /\ m.dead = dead \cup D(Z)
  BY DEF Visited
<1>2. grid \in [Cell -> Tile] /\ pos \in [Player -> Cell]
  BY DEF TypeOK
<1>3. CASE c \notin Cell
  <2>1. apply_explosion_effect(m, c) = m
    BY <1>3 DEF apply_explosion_effect
  <2>2. \A e \in Cell : e \in Z \cup {c} <=> e \in Z
    BY <1>3
  <2>3. Visited(Z \cup {c}, b) = m
    BY <1>2, <2>2 DEF Visited
  <2>. QED
    BY <1>3, <2>1, <2>3 DEF Impact, IsWall
<1>4. CASE c \in Cell
  <2>1. /\ g[c] = IF c \in Z /\ grid[c] \in {DESTRUCTIBLE_WALL} \cup PlayerTile THEN EMPTY ELSE grid[c]
        /\ \A e \in Cell : e # c => g[e] = IF e \in Z /\ grid[e] \in {DESTRUCTIBLE_WALL} \cup PlayerTile
                                           THEN EMPTY ELSE grid[e]
    BY <1>4
  <2>2. c \in Z => grid[c] \notin Wall
    BY <1>4 DEF IsWall
  <2>3. Impact(m, c) <=> IsWall(c)
    BY <1>1, <1>4, <2>1, <2>2, OtherTiles DEF Impact, IsWall
  <2>4. apply_explosion_effect(m, c) =
          [grid |-> IF g[c] \in {DESTRUCTIBLE_WALL} \cup PlayerTile THEN [g EXCEPT ![c] = EMPTY] ELSE g,
           dead |-> dead \cup D(Z) \cup {p \in Player : g[c] = get_player(p)}
                         \cup (IF IsWall(c) THEN {} ELSE {p \in Player : pos[p] = c})]
    BY <1>1, <1>4, <2>3 DEF apply_explosion_effect
  <2>5. (IF g[c] \in {DESTRUCTIBLE_WALL} \cup PlayerTile THEN [g EXCEPT ![c] = EMPTY] ELSE g)
          = [e \in Cell |-> IF e \in Z \cup {c} /\ grid[e] \in {DESTRUCTIBLE_WALL} \cup PlayerTile
                            THEN EMPTY ELSE grid[e]]
    BY <1>4, <2>1
  <2>6. dead \cup D(Z) \cup {p \in Player : g[c] = get_player(p)}
             \cup (IF IsWall(c) THEN {} ELSE {p \in Player : pos[p] = c})
          = dead \cup D(Z \cup {c})
    <3>1. ASSUME NEW p \in Player
          PROVE  (p \in D(Z) \/ g[c] = get_player(p) \/ (~IsWall(c) /\ pos[p] = c)) <=> p \in D(Z \cup {c})
      <4>1. g[c] = get_player(p) => grid[c] = get_player(p)
        BY <2>1, PlayerTiles
      <4>2. grid[c] = get_player(p) => g[c] = get_player(p) \/ p \in D(Z)
        BY <1>4, <2>1
      <4>3. p \in D(Z \cup {c}) <=> \/ p \in D(Z) \/ grid[c] = get_player(p)
                                    \/ (pos[p] = c /\ ~IsWall(c))
        BY <1>4, <3>1
      <4>. QED
        BY <4>1, <4>2, <4>3
    <3>. HIDE DEF D, g
    <3>2. \A Y : D(Y) \subseteq Player
      BY DEF D
    <3>. QED
      BY <3>1, <3>2
  <2>. QED
    BY <2>3, <2>4, <2>5, <2>6 DEF Visited
<1>. QED
  BY <1>3, <1>4

\* One arm.  Its two cells off the centre have not been visited.
LEMMA OneArm ==
  ASSUME TypeOK, NEW Z, NEW b \in Cell, ~IsWall(b), NEW d \in Arms,
         Shift(b, d, 1) \notin Z, Shift(b, d, 2) \notin Z
  PROVE  ArmLoop(Visited(Z, b), b, d) = Visited(Z \cup Arm(b, d), b)
<1>1. Shift(b, d, 0) = b /\ Shift(b, d, 2) # b /\ Shift(b, d, 1) # b /\ Shift(b, d, 2) # Shift(b, d, 1)
  BY SizeAssumption DEF Shift, Arms, Cell
<1>. DEFINE s1 == Shift(b, d, 1)
            s2 == Shift(b, d, 2)
<1>2. /\ apply_explosion_effect(Visited(Z, b), b) = Visited(Z \cup {b}, b)
      /\ ~Impact(Visited(Z, b), b)
  BY OneMore
<1>3. /\ apply_explosion_effect(Visited(Z \cup {b}, b), s1) = Visited(Z \cup {b} \cup {s1}, b)
      /\ Impact(Visited(Z \cup {b}, b), s1) <=> IsWall(s1)
  BY <1>1, OneMore
<1>4. apply_explosion_effect(Visited(Z \cup {b} \cup {s1}, b), s2) = Visited(Z \cup {b} \cup {s1} \cup {s2}, b)
  BY <1>1, OneMore
<1>5. ArmLoop(Visited(Z, b), b, d) =
        IF IsWall(s1) THEN Visited(Z \cup {b} \cup {s1}, b)
                      ELSE Visited(Z \cup {b} \cup {s1} \cup {s2}, b)
  BY <1>1, <1>2, <1>3, <1>4 DEF ArmLoop
<1>6. CASE IsWall(s1)
  <2>1. Z \cup {b} \cup {s1} = Z \cup Arm(b, d)
    BY <1>6 DEF Arm
  <2>. QED
    BY <1>5, <1>6, <2>1
<1>7. CASE ~IsWall(s1)
  <2>1. Z \cup {b} \cup {s1} \cup {s2} = Z \cup Arm(b, d)
    BY <1>7 DEF Arm
  <2>. QED
    BY <1>5, <1>7, <2>1
<1>. QED
  BY <1>6, <1>7

\* The four arms and the four corners are the blast.
LEMMA ExplosionIsBlast ==
  ASSUME TypeOK, NEW b \in Cell, ~IsWall(b)
  PROVE  update_explosion(b) = [grid |-> GridAfterBlast(b), dead |-> dead \cup Killed(b)]
<1>. DEFINE V1 == {} \cup Arm(b, <<0, 1>>)
            V2 == V1 \cup Arm(b, <<0, -1>>)
            V3 == V2 \cup Arm(b, <<1, 0>>)
            V4 == V3 \cup Arm(b, <<-1, 0>>)
            V5 == V4 \cup {Shift(b, <<1, 1>>, 1)}
            V6 == V5 \cup {Shift(b, <<1, -1>>, 1)}
            V7 == V6 \cup {Shift(b, <<-1, 1>>, 1)}
            V8 == V7 \cup {Shift(b, <<-1, -1>>, 1)}
<1>0. PICK x \in Int, y \in Int : b = <<x, y>>
  BY SizeAssumption DEF Cell
<1>1. \A d \in Arms \cup Diagonals : \A k \in 0..2 : Shift(b, d, k) = <<x + k * d[1], y + k * d[2]>>
  BY <1>0 DEF Shift
<1>2. /\ Shift(b, <<0, 1>>, 1) = <<x, y + 1>> /\ Shift(b, <<0, 1>>, 2) = <<x, y + 2>>
      /\ Shift(b, <<0, -1>>, 1) = <<x, y - 1>> /\ Shift(b, <<0, -1>>, 2) = <<x, y - 2>>
      /\ Shift(b, <<1, 0>>, 1) = <<x + 1, y>> /\ Shift(b, <<1, 0>>, 2) = <<x + 2, y>>
      /\ Shift(b, <<-1, 0>>, 1) = <<x - 1, y>> /\ Shift(b, <<-1, 0>>, 2) = <<x - 2, y>>
      /\ Shift(b, <<1, 1>>, 1) = <<x + 1, y + 1>> /\ Shift(b, <<1, -1>>, 1) = <<x + 1, y - 1>>
      /\ Shift(b, <<-1, 1>>, 1) = <<x - 1, y + 1>> /\ Shift(b, <<-1, -1>>, 1) = <<x - 1, y - 1>>
  BY <1>0 DEF Shift
<1>3. /\ Arm(b, <<0, 1>>) \subseteq {<<x, y>>, <<x, y + 1>>, <<x, y + 2>>}
      /\ Arm(b, <<0, -1>>) \subseteq {<<x, y>>, <<x, y - 1>>, <<x, y - 2>>}
      /\ Arm(b, <<1, 0>>) \subseteq {<<x, y>>, <<x + 1, y>>, <<x + 2, y>>}
      /\ Arm(b, <<-1, 0>>) \subseteq {<<x, y>>, <<x - 1, y>>, <<x - 2, y>>}
  BY <1>0, <1>2 DEF Arm
<1>4. [grid |-> grid, dead |-> dead \cup {p \in Player : pos[p] = b}] = Visited({}, b)
  <2>1. grid = [c \in Cell |-> grid[c]]
    BY DEF TypeOK
  <2>. QED
    BY <2>1 DEF Visited
<1>5. ArmLoop(Visited({}, b), b, <<0, 1>>) = Visited(V1, b)
  BY OneArm DEF Arms
<1>6. ArmLoop(Visited(V1, b), b, <<0, -1>>) = Visited(V2, b)
  <2>1. Shift(b, <<0, -1>>, 1) \notin V1 /\ Shift(b, <<0, -1>>, 2) \notin V1
    BY <1>0, <1>2, <1>3
  <2>. HIDE DEF V1
  <2>. QED
    BY <2>1, OneArm DEF Arms
<1>7. ArmLoop(Visited(V2, b), b, <<1, 0>>) = Visited(V3, b)
  <2>1. Shift(b, <<1, 0>>, 1) \notin V2 /\ Shift(b, <<1, 0>>, 2) \notin V2
    BY <1>0, <1>2, <1>3
  <2>. HIDE DEF V2
  <2>. QED
    BY <2>1, OneArm DEF Arms
<1>8. ArmLoop(Visited(V3, b), b, <<-1, 0>>) = Visited(V4, b)
  <2>1. Shift(b, <<-1, 0>>, 1) \notin V3 /\ Shift(b, <<-1, 0>>, 2) \notin V3
    BY <1>0, <1>2, <1>3
  <2>. HIDE DEF V3
  <2>. QED
    BY <2>1, OneArm DEF Arms
<1>9. V4 \subseteq {<<x, y>>, <<x, y + 1>>, <<x, y + 2>>, <<x, y - 1>>, <<x, y - 2>>,
                    <<x + 1, y>>, <<x + 2, y>>, <<x - 1, y>>, <<x - 2, y>>}
  BY <1>3
<1>10. /\ Corner(Visited(V4, b), b, <<1, 1>>) = Visited(V5, b)
       /\ Corner(Visited(V5, b), b, <<1, -1>>) = Visited(V6, b)
       /\ Corner(Visited(V6, b), b, <<-1, 1>>) = Visited(V7, b)
       /\ Corner(Visited(V7, b), b, <<-1, -1>>) = Visited(V8, b)
  <2>. HIDE DEF V4
  <2>1. /\ Shift(b, <<1, 1>>, 1) \notin V4 /\ Shift(b, <<1, -1>>, 1) \notin V5
        /\ Shift(b, <<-1, 1>>, 1) \notin V6 /\ Shift(b, <<-1, -1>>, 1) \notin V7
    BY <1>2, <1>9
  <2>. HIDE DEF V5, V6, V7
  <2>2. Corner(Visited(V4, b), b, <<1, 1>>) = Visited(V5, b)
    BY <2>1, OneMore DEF Corner, V5
  <2>3. Corner(Visited(V5, b), b, <<1, -1>>) = Visited(V6, b)
    BY <2>1, OneMore DEF Corner, V6
  <2>4. Corner(Visited(V6, b), b, <<-1, 1>>) = Visited(V7, b)
    BY <2>1, OneMore DEF Corner, V7
  <2>5. Corner(Visited(V7, b), b, <<-1, -1>>) = Visited(V8, b)
    BY <2>1, OneMore DEF Corner
  <2>. QED
    BY <2>2, <2>3, <2>4, <2>5
<1>11. V8 \cap Cell = BlastZone(b)
  BY DEF BlastZone, Arm, Arms, Diagonals
<1>. HIDE DEF V1, V2, V3, V4, V5, V6, V7, V8
<1>12. update_explosion(b) = Visited(V8, b)
  BY <1>4, <1>5, <1>6, <1>7, <1>8, <1>10 DEF update_explosion
<1>13. Visited(V8, b).grid = GridAfterBlast(b)
  BY <1>11 DEF Visited, GridAfterBlast
<1>14. Visited(V8, b).dead = dead \cup Killed(b)
  <2>1. \A p \in Player : pos[p] \in V8 <=> pos[p] \in BlastZone(b)
    BY <1>11 DEF TypeOK
  <2>. QED
    BY <1>11, <2>1 DEF Visited, Killed
<1>. QED
  BY <1>12, <1>13, <1>14 DEF Visited

\* The blast of a bomb, given by sets, is what the loops of update_explosion
\* make of the board they modify (src/src/model.c:636-692), at every place of a
\* board of any size.
THEOREM BlastIsExplosion == Spec => []LoopsAgree
<1>1. ASSUME IInv PROVE LoopsAgree
  <2>. SUFFICES ASSUME idx <= Len(bombs)
                PROVE  LET b == bombs[idx].pos
                       IN  update_explosion(b) = [grid |-> GridAfterBlast(b), dead |-> dead \cup Killed(b)]
    BY DEF LoopsAgree
  <2>1. TypeOK /\ BombTracking /\ idx \in 1..Len(bombs)
    BY <1>1, LenProperties DEF IInv, Consistent, TypeOK
  <2>2. bombs[idx].pos \in Cell
    <3>1. bombs[idx] \in BombRecord
      BY <2>1, ElementOfSeq DEF TypeOK
    <3>. QED
      BY <3>1 DEF BombRecord
  <2>3. ~IsWall(bombs[idx].pos)
    BY <2>1, <2>2, OtherTiles DEF BombTracking, IsWall
  <2>. QED
    BY <2>1, <2>2, <2>3, ExplosionIsBlast
<1>. QED
  BY <1>1, Invariance, PTL

-----------------------------------------------------------------------------
(* GameModel implements BombermanRules on every board: each call of model.c *)
(* is a step of the rules or changes nothing they speak of.                 *)

\* The state of the rules, read off the board, the table and the array.
Crates == {c \in Cell : grid[c] = DESTRUCTIBLE_WALL}
Lit == {bombs[i] : i \in 1..Len(bombs)}

\* What is solid in the rules is a wall on the board.
LEMMA SolidIsWall ==
  ASSUME PillarsStand, NEW c
  PROVE  Rules!Solid(c) <=> IsWall(c)
BY DEF Rules!Solid, IsWall, PillarsStand, Wall, Pillars

\* The cells update_explosion works on are those the rules say a bomb reaches.
LEMMA BlastIsReached ==
  ASSUME PillarsStand, NEW b \in Cell
  PROVE  BlastZone(b) = Rules!Reached(b)
<1>. DEFINE x == b[1]
            y == b[2]
<1>0. x \in Int /\ y \in Int
  BY SizeAssumption DEF Cell
<1>00. b = <<x, y>>
  BY DEF Cell
<1>. DEFINE Straight(u, v) ==
       \/ u = x + 2 /\ v = y /\ ~IsWall(<<x + 1, y>>)
       \/ u = x - 2 /\ v = y /\ ~IsWall(<<x - 1, y>>)
       \/ u = x /\ v = y + 2 /\ ~IsWall(<<x, y + 1>>)
       \/ u = x /\ v = y - 2 /\ ~IsWall(<<x, y - 1>>)
<1>. SUFFICES ASSUME NEW u \in 0..Width - 1, NEW v \in 0..Height - 1
              PROVE  <<u, v>> \in BlastZone(b) <=> <<u, v>> \in Rules!Reached(b)
  <2>1. BlastZone(b) \subseteq Cell /\ Rules!Reached(b) \subseteq Cell
    BY DEF BlastZone, Rules!Reached
  <2>2. \A c \in Cell : \E u \in 0..Width - 1, v \in 0..Height - 1 : c = <<u, v>>
    BY DEF Cell
  <2>3. \A c \in Cell : c \in BlastZone(b) <=> c \in Rules!Reached(b)
    BY <2>2
  <2>. QED
    BY <2>1, <2>3, Zenon
<1>. DEFINE Square     == {<<x + i, y + j>> : i, j \in -1..1}
            Horizontal == {<<x + 2 * d, y>> : d \in {e \in {-1, 1} : ~Rules!Solid(<<x + e, y + 0>>)}}
            Vertical   == {<<x, y + 2 * d>> : d \in {e \in {-1, 1} : ~Rules!Solid(<<x + 0, y + e>>)}}
<1>0a. Rules!Reached(b) = Cell \cap (Square \cup Horizontal \cup Vertical)
  BY DEF Rules!Reached
<1>. HIDE DEF x, y
<1>1. u \in Int /\ v \in Int /\ <<u, v>> \in Cell
  BY SizeAssumption DEF Cell
<1>2. <<u, v>> \in BlastZone(b) <=> (u - x \in -1..1 /\ v - y \in -1..1) \/ Straight(u, v)
  <2>1. <<u, v>> \in {b} \cup {Shift(b, d, 1) : d \in Arms \cup Diagonals}
          <=> u - x \in -1..1 /\ v - y \in -1..1
    BY <1>0, <1>00, <1>1 DEF Shift, Arms, Diagonals
  <2>2. <<u, v>> \in {Shift(b, d, 2) : d \in {a \in Arms : ~IsWall(Shift(b, a, 1))}}
          <=> Straight(u, v)
    <3>1. <<u, v>> \in {Shift(b, d, 2) : d \in {a \in Arms : ~IsWall(Shift(b, a, 1))}}
            <=> \E d \in Arms : ~IsWall(Shift(b, d, 1)) /\ <<u, v>> = Shift(b, d, 2)
      OBVIOUS
    <3>2. /\ Shift(b, <<0, 1>>, 1) = <<x, y + 1>> /\ Shift(b, <<0, 1>>, 2) = <<x, y + 2>>
          /\ Shift(b, <<0, -1>>, 1) = <<x, y - 1>> /\ Shift(b, <<0, -1>>, 2) = <<x, y - 2>>
          /\ Shift(b, <<1, 0>>, 1) = <<x + 1, y>> /\ Shift(b, <<1, 0>>, 2) = <<x + 2, y>>
          /\ Shift(b, <<-1, 0>>, 1) = <<x - 1, y>> /\ Shift(b, <<-1, 0>>, 2) = <<x - 2, y>>
      BY <1>0, <1>00 DEF Shift
    <3>. QED
      BY <3>1, <3>2 DEF Arms
  <2>. QED
    BY <2>1, <2>2, <1>1 DEF BlastZone
<1>3. <<u, v>> \in Rules!Reached(b) <=> (u - x \in -1..1 /\ v - y \in -1..1) \/ Straight(u, v)
  <2>1. <<u, v>> \in Square
          <=> u - x \in -1..1 /\ v - y \in -1..1
    BY <1>0, <1>1
  <2>2. <<u, v>> \in Horizontal
          <=> \/ u = x + 2 /\ v = y /\ ~IsWall(<<x + 1, y>>)
              \/ u = x - 2 /\ v = y /\ ~IsWall(<<x - 1, y>>)
    <3>1. /\ Rules!Solid(<<x + 1, y + 0>>) <=> IsWall(<<x + 1, y>>)
          /\ Rules!Solid(<<x + (-1), y + 0>>) <=> IsWall(<<x - 1, y>>)
      <4>1. <<x + 1, y + 0>> = <<x + 1, y>> /\ <<x + (-1), y + 0>> = <<x - 1, y>>
        BY <1>0
      <4>. QED
        BY <4>1, SolidIsWall
    <3>2. <<u, v>> \in Horizontal
            <=> \E d \in {-1, 1} : ~Rules!Solid(<<x + d, y + 0>>) /\ u = x + 2 * d /\ v = y
      OBVIOUS
    <3>3. <<u, v>> \in Horizontal
            <=> \/ ~Rules!Solid(<<x + 1, y + 0>>) /\ u = x + 2 * 1 /\ v = y
                \/ ~Rules!Solid(<<x + (-1), y + 0>>) /\ u = x + 2 * (-1) /\ v = y
      BY <3>2
    <3>4. x + 2 * 1 = x + 2 /\ x + 2 * (-1) = x - 2
      BY <1>0
    <3>. QED
      BY <3>1, <3>3, <3>4, Zenon
  <2>3. <<u, v>> \in Vertical
          <=> \/ u = x /\ v = y + 2 /\ ~IsWall(<<x, y + 1>>)
              \/ u = x /\ v = y - 2 /\ ~IsWall(<<x, y - 1>>)
    <3>1. /\ Rules!Solid(<<x + 0, y + 1>>) <=> IsWall(<<x, y + 1>>)
          /\ Rules!Solid(<<x + 0, y + (-1)>>) <=> IsWall(<<x, y - 1>>)
      <4>1. <<x + 0, y + 1>> = <<x, y + 1>> /\ <<x + 0, y + (-1)>> = <<x, y - 1>>
        BY <1>0
      <4>. QED
        BY <4>1, SolidIsWall
    <3>2. <<u, v>> \in Vertical
            <=> \E d \in {-1, 1} : ~Rules!Solid(<<x + 0, y + d>>) /\ u = x /\ v = y + 2 * d
      OBVIOUS
    <3>3. <<u, v>> \in Vertical
            <=> \/ ~Rules!Solid(<<x + 0, y + 1>>) /\ u = x /\ v = y + 2 * 1
                \/ ~Rules!Solid(<<x + 0, y + (-1)>>) /\ u = x /\ v = y + 2 * (-1)
      BY <3>2
    <3>4. y + 2 * 1 = y + 2 /\ y + 2 * (-1) = y - 2
      BY <1>0
    <3>. QED
      BY <3>1, <3>3, <3>4, Zenon
  <2>. HIDE DEF Square, Horizontal, Vertical
  <2>4. <<u, v>> \in Rules!Reached(b)
          <=> <<u, v>> \in Square \/ <<u, v>> \in Horizontal \/ <<u, v>> \in Vertical
    BY <1>0a, <1>1
  <2>5. Straight(u, v)
          <=> \/ \/ u = x + 2 /\ v = y /\ ~IsWall(<<x + 1, y>>)
                 \/ u = x - 2 /\ v = y /\ ~IsWall(<<x - 1, y>>)
              \/ \/ u = x /\ v = y + 2 /\ ~IsWall(<<x, y + 1>>)
                 \/ u = x /\ v = y - 2 /\ ~IsWall(<<x, y - 1>>)
    BY Zenon
  <2>. HIDE DEF Straight
  <2>. QED
    BY <2>1, <2>2, <2>3, <2>4, <2>5, Zenon
<1>. QED
  BY <1>2, <1>3

LEMMA InitRefines == Init => Rules!Init
<1>. SUFFICES ASSUME Init PROVE Rules!Init
  OBVIOUS
<1>. PICK walls \in SUBSET MaybeWall : grid = [c \in Cell |-> InitialTile(walls, c)]
  BY DEF Init
<1>1. Crates \subseteq MaybeWall
  BY PlayerTiles, OtherTiles DEF Crates, InitialTile
<1>2. Lit = {}
  BY DEF Lit, Init
<1>. QED
  BY <1>1, <1>2 DEF Rules!Init, Init, Crates, Lit

\* A move is a Walk, or leaves the board and the table as they are.
LEMMA MoveRefines ==
  ASSUME IInv, NEW p \in Player, NEW a \in Move, perform_move(a, p)
  PROVE  [Rules!Next]_(Rules!rvars)
<1>. USE DEF IInv, Consistent, TypeOK
<1>. DEFINE from == pos[p]
            to   == get_next_position(a, from)
<1>1. CASE p \in dead \/ ~can_move_to_position(to)
  BY <1>1 DEF perform_move, Rules!rvars
<1>2. CASE p \notin dead /\ can_move_to_position(to)
  <2>1. /\ from \in Cell /\ to \in Cell
        /\ grid[to] = EMPTY
        /\ grid[from] \in {get_player(p), BOMB}
        /\ from # to
    BY <1>2, PlayerTiles, OtherTiles DEF can_move_to_position, LivingOnBoard, Tile
  <2>2. /\ pos' = [pos EXCEPT ![p] = to]
        /\ grid' = [grid EXCEPT ![to] = get_player(p),
                                ![from] = IF grid[from] = BOMB THEN BOMB ELSE EMPTY]
        /\ UNCHANGED <<dead, bombs>>
    BY <1>2 DEF perform_move
  <2>3. to \in Rules!Neighbours(pos[p])
    BY <2>1 DEF get_next_position, Move, Rules!Neighbours
  <2>4. Rules!Free(to)
    <3>1. ~Rules!Solid(to)
      BY <2>1, SolidIsWall, OtherTiles DEF IsWall
    <3>2. ~Rules!BombAt(to)
      BY <2>1, OtherTiles DEF Rules!BombAt, BombTracking
    <3>3. \A q \in Player \ dead : pos[q] # to
      BY <2>1, PlayerTiles, OtherTiles DEF LivingOnBoard
    <3>. QED
      BY <2>1, <3>1, <3>2, <3>3 DEF Rules!Free
  <2>. HIDE DEF from, to
  <2>5. Crates' = Crates
    <3>1. \A c \in Cell : grid'[c] = DESTRUCTIBLE_WALL <=> grid[c] = DESTRUCTIBLE_WALL
      BY <2>1, <2>2, PlayerTiles, OtherTiles
    <3>. QED
      BY <3>1 DEF Crates
  <2>6. Rules!Walk(p)
    BY <1>2, <2>2, <2>3, <2>4, <2>5 DEF Rules!Walk, Crates
  <2>. QED
    BY <2>6 DEF Rules!Next
<1>. QED
  BY <1>1, <1>2

\* Placing a bomb is Light, or does nothing on a cell that has one.
LEMMA PlaceRefines ==
  ASSUME IInv, NEW p \in Player, place_bomb(p)
  PROVE  [Rules!Next]_(Rules!rvars)
<1>. USE DEF IInv, Consistent, TypeOK
<1>1. CASE grid[pos[p]] = BOMB
  BY <1>1 DEF place_bomb, Rules!rvars
<1>2. CASE grid[pos[p]] # BOMB
  <2>. DEFINE b == [pos |-> pos[p], age |-> 0]
  <2>1. /\ bombs' = Append(bombs, b)
        /\ grid' = [grid EXCEPT ![pos[p]] = BOMB]
        /\ UNCHANGED <<pos, dead>>
    BY <1>2 DEF place_bomb
  <2>2. pos[p] \in Cell /\ grid[pos[p]] # BOMB /\ grid[pos[p]] \notin Wall
    BY <1>2 DEF NobodyInWall, IsWall
  <2>3. b \in BombRecord
    BY <2>2, LifetimeAssumption DEF BombRecord
  <2>. HIDE DEF b
  <2>4. Lit' = Lit \cup {b}
    <3>1. /\ Len(bombs) \in Nat
          /\ Len(bombs') = Len(bombs) + 1
          /\ \A i \in 1..Len(bombs) : bombs'[i] = bombs[i]
          /\ bombs'[Len(bombs) + 1] = b
      BY <2>1, <2>3, LenProperties
    <3>2. 1..Len(bombs) + 1 = (1..Len(bombs)) \cup {Len(bombs) + 1}
      BY <3>1
    <3>. QED
      BY <3>1, <3>2 DEF Lit
  <2>5. Crates' = Crates
    <3>1. \A c \in Cell : grid'[c] = DESTRUCTIBLE_WALL <=> grid[c] = DESTRUCTIBLE_WALL
      BY <2>1, <2>2, OtherTiles
    <3>. QED
      BY <3>1 DEF Crates
  <2>6. ~Rules!BombAt(pos[p])
    BY <2>2 DEF Rules!BombAt, BombTracking
  <2>7. Rules!Light(p)
    BY <2>1, <2>4, <2>5, <2>6 DEF Rules!Light, Crates, Lit, b
  <2>. QED
    BY <2>7 DEF Rules!Next
<1>. QED
  BY <1>1, <1>2

\* An explosion in the loop of update_bombs is Detonate of that bomb.
LEMMA ExplodeRefines ==
  ASSUME IInv, NEW i \in 1..Len(bombs), Expired(bombs[i]), explode(i)
  PROVE  Rules!Next
<1>. USE DEF IInv, Consistent, TypeOK
<1>. DEFINE b == bombs[i].pos
            n == Len(bombs)
<1>1. /\ grid' = [GridAfterBlast(b) EXCEPT ![b] = EMPTY]
      /\ dead' = dead \cup Killed(b)
      /\ bombs' = SwapRemove(bombs, i)
      /\ pos' = pos
  BY DEF explode
<1>2. n \in Nat /\ b \in Cell /\ grid[b] = BOMB
  <2>1. n \in Nat
    BY LenProperties
  <2>2. bombs[i] \in BombRecord
    BY ElementOfSeq
  <2>3. b \in Cell
    BY <2>2 DEF BombRecord
  <2>. QED
    BY <2>1, <2>3 DEF BombTracking
<1>3. BlastZone(b) = Rules!Reached(b) /\ b \in BlastZone(b)
  BY <1>2, BlastIsReached DEF BlastZone
<1>. HIDE DEF b
<1>4. \A p \in Player \ dead : p \in Killed(b) <=> pos[p] \in BlastZone(b)
  BY <1>3 DEF Killed, NoGhostTile, NobodyInWall, BlastZone
<1>5. Player \ dead' = {p \in Player \ dead : pos[p] \notin Rules!Reached(b)}
  BY <1>1, <1>3, <1>4
<1>6. Crates' = Crates \ Rules!Reached(b)
  <2>1. \A c \in Cell : grid'[c] = DESTRUCTIBLE_WALL
                       <=> grid[c] = DESTRUCTIBLE_WALL /\ c \notin BlastZone(b)
    BY <1>1, <1>2, <1>3, OtherTiles DEF GridAfterBlast
  <2>. QED
    BY <2>1, <1>3 DEF Crates
<1>7. Lit' = Lit \ {bombs[i]}
  <2>1. /\ Len(bombs') = n - 1
        /\ \A k \in 1..n - 1 : bombs'[k] = IF k = i THEN bombs[n] ELSE bombs[k]
    BY <1>1, SwapRemoveKeepsOthers
  <2>2. \A j, k \in 1..n : bombs[j] = bombs[k] => j = k
    BY DEF BombTracking
  <2>3. Lit \ {bombs[i]} = {bombs[k] : k \in 1..n \ {i}}
    BY <2>2 DEF Lit
  <2>4. Lit' = {bombs'[k] : k \in 1..n - 1}
    BY <2>1 DEF Lit
  <2>5. ASSUME NEW k \in 1..n - 1
        PROVE  \E m \in 1..n \ {i} : bombs'[k] = bombs[m]
    <3>1. CASE k = i
      BY <3>1, <2>1, <1>2
    <3>2. CASE k # i
      BY <3>2, <2>1, <1>2
    <3>. QED
      BY <3>1, <3>2
  <2>6. ASSUME NEW m \in 1..n \ {i}
        PROVE  \E k \in 1..n - 1 : bombs'[k] = bombs[m]
    <3>1. CASE m = n
      BY <3>1, <2>1, <1>2
    <3>2. CASE m # n
      BY <3>2, <2>1, <1>2
    <3>. QED
      BY <3>1, <3>2
  <2>7. {bombs'[k] : k \in 1..n - 1} \subseteq {bombs[m] : m \in 1..n \ {i}}
    BY <2>5, Zenon
  <2>8. {bombs[m] : m \in 1..n \ {i}} \subseteq {bombs'[k] : k \in 1..n - 1}
    BY <2>6, Zenon
  <2>. QED
    BY <2>3, <2>4, <2>7, <2>8, Zenon
<1>8. PICK r : r = bombs[i]
  OBVIOUS
<1>9. r \in {bombs[k] : k \in 1..Len(bombs)} /\ r.age >= BombLifetime /\ r.pos = b
  BY <1>8 DEF Expired, b
<1>10. Rules!Detonate(r)
  BY <1>1, <1>5, <1>6, <1>7, <1>8, <1>9 DEF Rules!Detonate, Crates, Lit
<1>. QED
  BY <1>9, <1>10, Zenon DEF Rules!Next

\* A second that passes ages the set of bombs as it ages the array.
LEMMA TickRefines ==
  ASSUME IInv, Tick
  PROVE  Rules!Next
<1>1. /\ bombs' = [i \in 1..Len(bombs) |-> Older(bombs[i])]
      /\ UNCHANGED <<grid, pos, dead>>
  BY DEF Tick
<1>2. Len(bombs) \in Nat
  BY LenProperties DEF IInv, TypeOK
<1>3. Len(bombs') = Len(bombs)
  BY <1>1, <1>2
<1>4. Lit' = {Older(b) : b \in Lit}
  <2>1. Lit' = {bombs'[i] : i \in 1..Len(bombs)}
    BY <1>3 DEF Lit
  <2>2. \A i \in 1..Len(bombs) : bombs'[i] = Older(bombs[i])
    BY <1>1
  <2>. QED
    BY <2>1, <2>2 DEF Lit
<1>5. Rules!Second
  BY <1>1, <1>4 DEF Rules!Second, Lit, Older
<1>. QED
  BY <1>5 DEF Rules!Next

\* Every step of a match is a step of the rules or leaves their state alone.
LEMMA StepRefines == IInv /\ [Next]_vars => [Rules!Next]_(Rules!rvars)
<1>. SUFFICES ASSUME IInv, [Next]_vars PROVE [Rules!Next]_(Rules!rvars)
  OBVIOUS
<1>1. ASSUME UNCHANGED <<grid, pos, dead, bombs>> PROVE [Rules!Next]_(Rules!rvars)
  BY <1>1 DEF Rules!rvars
<1>2. ASSUME NEW p \in Player, SetPlayerDead(p) PROVE [Rules!Next]_(Rules!rvars)
  <2>1. /\ dead' = dead \cup {p}
        /\ UNCHANGED <<pos, bombs>>
        /\ grid' = IF TilesOf(p) = {} THEN grid ELSE [grid EXCEPT ![FirstTileOf(p)] = EMPTY]
    BY <1>2 DEF SetPlayerDead
  <2>2. \A c \in Cell : grid'[c] = DESTRUCTIBLE_WALL <=> grid[c] = DESTRUCTIBLE_WALL
    <3>1. CASE TilesOf(p) = {}
      BY <3>1, <2>1
    <3>2. CASE TilesOf(p) # {}
      <4>1. TilesOf(p) = {pos[p]}
        BY <3>2 DEF TilesOf, NoGhostTile, IInv, Consistent
      <4>2. Before(pos[p], pos[p])
        BY SizeAssumption DEF Before, Cell, IInv, TypeOK
      <4>3. FirstTileOf(p) = pos[p] /\ pos[p] \in Cell /\ grid[pos[p]] = get_player(p)
        BY <4>1, <4>2 DEF FirstTileOf, TilesOf
      <4>. QED
        BY <3>2, <4>3, <2>1, PlayerTiles, OtherTiles DEF IInv, TypeOK
    <3>. QED
      BY <3>1, <3>2
  <2>3. Rules!Leave(p)
    BY <2>1, <2>2 DEF Rules!Leave
  <2>. QED
    BY <2>3 DEF Rules!Next
<1>3. ASSUME todo # <<>>
      PROVE  Head(todo).id \in Player /\ Head(todo).action \in Move \cup {"PLACE_BOMB"}
  <2>1. Head(todo) \in PlayerAction
    BY <1>3, HeadTailProperties DEF IInv, TypeOK
  <2>. QED
    BY <2>1 DEF PlayerAction
<1>4. CASE ApplyMove
  BY <1>3, <1>4, MoveRefines DEF ApplyMove
<1>5. CASE ApplyPlaceBomb
  BY <1>3, <1>5, PlaceRefines DEF ApplyPlaceBomb
<1>6. CASE ExplodeBomb
  <2>1. idx \in 1..Len(bombs)
    BY <1>6, LenProperties DEF ExplodeBomb, IInv, TypeOK
  <2>. QED
    BY <1>6, <2>1, ExplodeRefines DEF ExplodeBomb
<1>7. CASE Tick
  BY <1>7, TickRefines
<1>8. CASE \/ \E batch \in Batches : UpdateGameBoard(batch)
           \/ UpdateBombs \/ KeepBomb \/ Return \/ UNCHANGED vars
  BY <1>1, <1>8 DEF UpdateGameBoard, UpdateBombs, KeepBomb, Return, vars
<1>. QED
  BY <1>2, <1>4, <1>5, <1>6, <1>7, <1>8 DEF Next

\* A match kept in tiles, a table and an array with swap removal, updated in
\* loops, obeys the rules that know only crates, players and bombs.
THEOREM Refinement == Spec => RefinesRules
<1>. QED
  BY InitRefines, StepRefines, Invariance, PTL DEF Spec, RefinesRules, Rules!Spec
=============================================================================
