----------------------------- MODULE GameModel -----------------------------
(***************************************************************************)
(* The state of one match: src/src/model.c, section by section.            *)
(*                                                                         *)
(* Every function of model.c that a server thread calls runs under         *)
(* lock_game_model, so calls do not overlap.  The two calls that loop,     *)
(* update_game_board over the actions it is given and update_bombs over    *)
(* the bomb array, are taken one iteration per step, with `call` saying    *)
(* which loop holds the lock; the other calls are one step.                *)
(*                                                                         *)
(* Time is relative: a bomb keeps its age in seconds, counted up to        *)
(* BombLifetime, in place of the time_t at which it was placed.            *)
(***************************************************************************)
EXTENDS Integers, Sequences, FiniteSets

CONSTANTS
  Width, Height,    \* the playable part of the board (dim of init_game_board)
  BombLifetime,     \* BOMB_LIFETIME of constants.h, in seconds
  GameMode,         \* the mode init_model is called with
  Batches,          \* the action lists update_game_board is called with
  MaxBombs          \* bound: bombs on the board at one time

Player == 0..3
Team1 == {0, 3}
Team2 == {1, 2}

\* enum TILE of model.h, without the tiles that are never on a server's board.
EMPTY               == 0
INDESTRUCTIBLE_WALL == 1
DESTRUCTIBLE_WALL   == 2
BOMB                == 3
PLAYER_1            == 5
Wall == {INDESTRUCTIBLE_WALL, DESTRUCTIBLE_WALL}

get_player(p) == PLAYER_1 + p
PlayerTile == {get_player(p) : p \in Player}
Tile == {EMPTY, BOMB} \cup Wall \cup PlayerTile

Move == {"UP", "RIGHT", "DOWN", "LEFT", "NONE"}
PlayerAction == [id : Player, action : Move \cup {"PLACE_BOMB"}]

Coord == Int \X Int
Cell == (0..Width - 1) \X (0..Height - 1)
Shift(c, d, k) == <<c[1] + k * d[1], c[2] + k * d[2]>>

BombRecord == [pos : Cell, age : 0..BombLifetime]

ASSUME SizeAssumption ==
  /\ Width \in Nat /\ Width % 2 = 1 /\ Width >= 3
  /\ Height \in Nat /\ Height % 2 = 1 /\ Height >= 3
ASSUME LifetimeAssumption == BombLifetime \in Nat \ {0}
ASSUME ModeAssumption == GameMode \in {"SOLO", "TEAM"}
ASSUME BatchAssumption == Batches \subseteq Seq(PlayerAction)
ASSUME MaxBombsAssumption == MaxBombs \in Nat

VARIABLES
  grid,     \* game_board->grid
  pos,      \* players[i]->pos
  dead,     \* the players whose dead flag is set
  bombs,    \* all_bombs.arr, its first total_count elements
  call,     \* the loop that holds lock_game_model, or "none"
  todo,     \* update_game_board: the actions not applied yet
  idx       \* update_bombs: the index of its loop, from 1

vars == <<grid, pos, dead, bombs, call, todo, idx>>

-----------------------------------------------------------------------------
(* Initial board. *)

Pillars == {c \in Cell : /\ c[1] % 2 = 1 /\ c[1] < Width - 1
                         /\ c[2] % 2 = 1 /\ c[2] < Height - 1}

\* The cells that get get_probably_destructible_wall().
MaybeWall ==
  {c \in Cell :
     \/ c[2] \in {0, Height - 1} /\ c[1] \in 3..Width - 4
     \/ c[2] \in {1, Height - 2} /\ c[1] \in 2..Width - 3 /\ c[1] % 2 = 0
     \/ c[2] \in {2, Height - 3} /\ c[1] \in 1..Width - 2
     \/ c[2] \in 3..Height - 4 /\ (c[2] % 2 = 0 \/ c[1] % 2 = 0)}

StartPos(p) == <<(Width - (p % 2)) % Width, IF p < 2 THEN 0 ELSE Height - 1>>

InitialTile(walls, c) ==
  IF \E p \in Player : StartPos(p) = c
  THEN get_player(CHOOSE p \in Player : StartPos(p) = c)
  ELSE IF c \in walls THEN DESTRUCTIBLE_WALL
  ELSE IF c \in Pillars THEN INDESTRUCTIBLE_WALL
  ELSE EMPTY

Init ==
  /\ \E walls \in SUBSET MaybeWall :
        grid = [c \in Cell |-> InitialTile(walls, c)]
  /\ pos = [p \in Player |-> StartPos(p)]
  /\ dead = {}
  /\ bombs = <<>>
  /\ call = "none"
  /\ todo = <<>>
  /\ idx = 1

-----------------------------------------------------------------------------
(* Moving, placing a bomb. *)

get_next_position(a, c) ==
  CASE a = "LEFT"  -> <<c[1] - 1, c[2]>>
    [] a = "RIGHT" -> <<c[1] + 1, c[2]>>
    [] a = "UP"    -> <<c[1], c[2] - 1>>
    [] a = "DOWN"  -> <<c[1], c[2] + 1>>
    [] OTHER       -> c

\* Plausible mistakes: no test of the border, of crates, of players.
can_move_anywhere(c) == c \in Cell => grid[c] \notin {BOMB} \cup Wall \cup PlayerTile
can_move_through_crates(c) ==
  c \in Cell /\ grid[c] \notin {BOMB, INDESTRUCTIBLE_WALL} \cup PlayerTile
can_move_through_players(c) == c \in Cell /\ grid[c] \notin {BOMB} \cup Wall

can_move_to_position(c) ==
  c \in Cell /\ grid[c] \notin {BOMB} \cup Wall \cup PlayerTile

\* Plausible mistake: no test of dead.
move_even_dead(a, p) ==
  LET from == pos[p]
      to   == get_next_position(a, from)
  IN  IF can_move_to_position(to)
      THEN /\ pos' = [pos EXCEPT ![p] = to]
           /\ grid' = [grid EXCEPT ![to] = get_player(p),
                                   ![from] = IF grid[from] = BOMB THEN BOMB ELSE EMPTY]
           /\ UNCHANGED <<dead, bombs>>
      ELSE UNCHANGED <<grid, pos, dead, bombs>>

\* The cell left behind keeps its tile when that is a bomb.
perform_move(a, p) ==
  LET from == pos[p]
      to   == get_next_position(a, from)
  IN  IF p \notin dead /\ can_move_to_position(to)
      THEN /\ pos' = [pos EXCEPT ![p] = to]
           /\ grid' = [grid EXCEPT ![to] = get_player(p),
                                   ![from] = IF grid[from] = BOMB THEN BOMB ELSE EMPTY]
           /\ UNCHANGED <<dead, bombs>>
      ELSE UNCHANGED <<grid, pos, dead, bombs>>

\* Plausible mistake: no test of the tile.
place_bomb_on_bomb(p) ==
  /\ bombs' = Append(bombs, [pos |-> pos[p], age |-> 0])
  /\ grid' = [grid EXCEPT ![pos[p]] = BOMB]
  /\ UNCHANGED <<pos, dead>>

\* No test of dead: the bomb goes where the player is, or was when it died.
place_bomb(p) ==
  IF grid[pos[p]] = BOMB
  THEN UNCHANGED <<grid, pos, dead, bombs>>
  ELSE /\ bombs' = Append(bombs, [pos |-> pos[p], age |-> 0])
       /\ grid' = [grid EXCEPT ![pos[p]] = BOMB]
       /\ UNCHANGED <<pos, dead>>

-----------------------------------------------------------------------------
(* Explosions.  The four arms of update_explosion stop behind the first    *)
(* wall they meet; at distance 2 this is a wall at distance 1.             *)

Arms      == {<<0, 1>>, <<0, -1>>, <<1, 0>>, <<-1, 0>>}
Diagonals == {<<1, 1>>, <<1, -1>>, <<-1, 1>>, <<-1, -1>>}

IsWall(c) == c \in Cell /\ grid[c] \in Wall

\* Plausible mistake: the arms do not stop.
BlastThroughWalls(b) ==
  Cell \cap ({b} \cup {Shift(b, d, 1) : d \in Arms \cup Diagonals}
                 \cup {Shift(b, d, 2) : d \in Arms})

BlastZone(b) ==
  Cell \cap ({b} \cup {Shift(b, d, 1) : d \in Arms \cup Diagonals}
                 \cup {Shift(b, d, 2) : d \in {a \in Arms : ~IsWall(Shift(b, a, 1))}})

\* Plausible mistake: one case for both kinds of wall.
GridAfterBlastOnAnyWall(b) ==
  [c \in Cell |-> IF c \in BlastZone(b) /\ grid[c] \in Wall \cup PlayerTile
                  THEN EMPTY ELSE grid[c]]

\* apply_explosion_effect on every cell of the blast: the board after it ...
GridAfterBlast(b) ==
  [c \in Cell |-> IF c \in BlastZone(b) /\ grid[c] \in {DESTRUCTIBLE_WALL} \cup PlayerTile
                  THEN EMPTY ELSE grid[c]]

\* Plausible mistake: players who stand on a bomb are not looked for.
KilledByTile(b) ==
  {p \in Player : (\E c \in BlastZone(b) : grid[c] = get_player(p)) \/ pos[p] = b}

\* ... and the players that die of it, by their tile or by their position.
Killed(b) ==
  {p \in Player : \/ \E c \in BlastZone(b) : grid[c] = get_player(p)
                  \/ pos[p] = b
                  \/ pos[p] \in BlastZone(b) /\ ~IsWall(pos[p])}

\* Plausible mistake: > for >=, against a difference that stays at the lifetime.
ExpiredLate(b) == b.age > BombLifetime

Expired(b) == b.age >= BombLifetime

\* The last bomb takes the place of the one that exploded.
SwapRemove(s, i) ==
  [k \in 1..Len(s) - 1 |-> IF k = i THEN s[Len(s)] ELSE s[k]]

explode(i) ==
  LET b == bombs[i].pos
  IN  /\ grid' = [GridAfterBlast(b) EXCEPT ![b] = EMPTY]
      /\ dead' = dead \cup Killed(b)
      /\ bombs' = SwapRemove(bombs, i)
      /\ UNCHANGED pos

-----------------------------------------------------------------------------
(* The calls. *)

\* set_player_dead: the first tile of the player, in the order of the array.
Before(c, d) == c[2] * Width + c[1] <= d[2] * Width + d[1]
TilesOf(p) == {c \in Cell : grid[c] = get_player(p)}
FirstTileOf(p) == CHOOSE c \in TilesOf(p) : \A d \in TilesOf(p) : Before(c, d)

SetPlayerDead(p) ==
  /\ call = "none"
  /\ grid' = IF TilesOf(p) = {} THEN grid ELSE [grid EXCEPT ![FirstTileOf(p)] = EMPTY]
  /\ dead' = dead \cup {p}
  /\ UNCHANGED <<pos, bombs, call, todo, idx>>

\* update_game_board enters its loop over the actions.
UpdateGameBoard(batch) ==
  /\ call = "none"
  /\ LET new == {i \in DOMAIN batch : batch[i].action = "PLACE_BOMB"}
     IN  Len(bombs) + Cardinality(new) <= MaxBombs
  /\ call' = "actions"
  /\ todo' = batch
  /\ UNCHANGED <<grid, pos, dead, bombs, idx>>

ApplyMove ==
  /\ call = "actions" /\ todo # <<>>
  /\ Head(todo).action # "PLACE_BOMB"
  /\ perform_move(Head(todo).action, Head(todo).id)
  /\ todo' = Tail(todo)
  /\ UNCHANGED <<call, idx>>

ApplyPlaceBomb ==
  /\ call = "actions" /\ todo # <<>>
  /\ Head(todo).action = "PLACE_BOMB"
  /\ place_bomb(Head(todo).id)
  /\ todo' = Tail(todo)
  /\ UNCHANGED <<call, idx>>

\* update_bombs starts, from update_game_board or from the once-a-second thread.
UpdateBombs ==
  /\ call = "none" \/ (call = "actions" /\ todo = <<>>)
  /\ call' = "bombs"
  /\ idx' = 1
  /\ UNCHANGED <<grid, pos, dead, bombs, todo>>

ExplodeBomb ==
  /\ call = "bombs" /\ idx <= Len(bombs) /\ Expired(bombs[idx])
  /\ explode(idx)
  /\ idx' = idx + 1
  /\ UNCHANGED <<call, todo>>

KeepBomb ==
  /\ call = "bombs" /\ idx <= Len(bombs) /\ ~Expired(bombs[idx])
  /\ idx' = idx + 1
  /\ UNCHANGED <<grid, pos, dead, bombs, call, todo>>

Return ==
  /\ call = "bombs" /\ idx > Len(bombs)
  /\ call' = "none"
  /\ idx' = 1
  /\ UNCHANGED <<grid, pos, dead, bombs, todo>>

\* A second passes.  update_bombs reads the clock once, before its loop, so
\* a second that passes during the loop counts from the end of the loop.
Older(b) == IF b.age < BombLifetime THEN [b EXCEPT !.age = @ + 1] ELSE b

Tick ==
  /\ call # "bombs"
  /\ bombs' = [i \in 1..Len(bombs) |-> Older(bombs[i])]
  /\ UNCHANGED <<grid, pos, dead, call, todo, idx>>

-----------------------------------------------------------------------------

is_game_over ==
  IF GameMode = "SOLO" THEN Cardinality(Player \ dead) <= 1
                       ELSE Team1 \subseteq dead \/ Team2 \subseteq dead

Next ==
  \/ \E p \in Player : SetPlayerDead(p)
  \/ \E batch \in Batches : UpdateGameBoard(batch)
  \/ ApplyMove
  \/ ApplyPlaceBomb
  \/ UpdateBombs
  \/ ExplodeBomb
  \/ KeepBomb
  \/ Return
  \/ Tick

Spec == Init /\ [][Next]_vars

-----------------------------------------------------------------------------
(* Fairness.  A call that holds the lock runs to its end; the clock does   *)
(* not stop; and as long as the match is not over, the thread              *)
(* serve_clients_send_mult_sec calls update_bombs once a second.           *)

Fairness ==
  /\ WF_vars(ApplyMove \/ ApplyPlaceBomb \/ ExplodeBomb \/ KeepBomb \/ Return)
  /\ WF_vars(call = "actions" /\ UpdateBombs)
  /\ WF_vars(~is_game_over /\ UpdateBombs)
  /\ SF_vars(Tick)

FairSpec == Spec /\ Fairness

-----------------------------------------------------------------------------
(* Properties. *)

TypeOK ==
  /\ grid \in [Cell -> Tile]
  /\ pos \in [Player -> Cell]
  /\ dead \in SUBSET Player
  /\ bombs \in Seq(BombRecord)
  /\ call \in {"none", "actions", "bombs"}
  /\ todo \in Seq(PlayerAction)
  /\ idx \in Nat \ {0}

\* The bomb array and the board agree: the cells that show a bomb are those of
\* the bombs in the array, and no two bombs share a cell, whatever place_bomb
\* overwrites, perform_move leaves behind and update_bombs swaps.
BombTracking ==
  /\ \A c \in Cell : grid[c] = BOMB <=> \E i \in 1..Len(bombs) : bombs[i].pos = c
  /\ \A i, j \in 1..Len(bombs) : bombs[i].pos = bombs[j].pos => i = j

\* A player's tile is on the board only where that player is, and alive: no
\* tile is left behind by a move, a death or a disconnection.
NoGhostTile ==
  \A p \in Player : \A c \in Cell : grid[c] = get_player(p) => p \notin dead /\ pos[p] = c

\* Players who are alive are on different cells, each of which shows the
\* player or the bomb it stands on.  perform_move looks only at the tile of its
\* target, so it relies on this.
LivingOnBoard ==
  /\ \A p \in Player \ dead : grid[pos[p]] \in {get_player(p), BOMB}
  /\ \A p, q \in Player \ dead : pos[p] = pos[q] => p = q

\* The indestructible walls are those of the initial board for the whole match,
\* although every call writes tiles without looking what was there.
PillarsStand == \A c \in Cell : grid[c] = INDESTRUCTIBLE_WALL <=> c \in Pillars

\* No player, alive or dead, is inside a wall, so no bomb replaces one.
NobodyInWall == \A p \in Player : ~IsWall(pos[p])

\* The match obeys the rules of BombermanRules: the tiles, the array and the
\* loops are one way to keep crates, players and bombs.
Rules == INSTANCE BombermanRules WITH
  CratesAllowed <- MaybeWall,
  crates <- {c \in Cell : grid[c] = DESTRUCTIBLE_WALL},
  at     <- pos,
  alive  <- Player \ dead,
  lit    <- {bombs[i] : i \in 1..Len(bombs)}

RefinesRules == Rules!Spec

\* Every bomb explodes unless the match ends first, although update_bombs
\* skips the bomb it swaps into the place of one that exploded.
BombsExplode ==
  \A c \in Cell : grid[c] = BOMB ~> (grid[c] # BOMB \/ is_game_over)
=============================================================================
