-------------------------- MODULE BombermanRules ---------------------------
(***************************************************************************)
(* The rules of a match with no board array, no bomb array and no loop:    *)
(* which crates still stand, who is alive, where everybody is and which    *)
(* bombs lie where.  GameModel implements it, and a player's tile, a tile  *)
(* overwritten by a bomb or a skipped array slot has no counterpart here.  *)
(***************************************************************************)
EXTENDS Integers

CONSTANTS
  Player,         \* the players of the match
  Cell,           \* the cells of the board, pairs of integers
  Pillars,        \* the cells that hold an indestructible wall
  CratesAllowed,  \* the cells where a destructible wall may stand at first
  StartPos(_),    \* the corner of a player
  BombLifetime    \* the age, in seconds, at which a bomb may explode

VARIABLES
  crates,   \* the cells that hold a destructible wall
  at,       \* where each player is, or was when it died
  alive,    \* the players who are alive
  lit       \* the bombs: [pos, age]

rvars == <<crates, at, alive, lit>>

Init ==
  /\ crates \in SUBSET CratesAllowed
  /\ at = [p \in Player |-> StartPos(p)]
  /\ alive = Player
  /\ lit = {}

Neighbours(c) ==
  {<<c[1] - 1, c[2]>>, <<c[1] + 1, c[2]>>, <<c[1], c[2] - 1>>, <<c[1], c[2] + 1>>}

Solid(c) == c \in Pillars \cup crates
BombAt(c) == \E b \in lit : b.pos = c
Free(c) == /\ c \in Cell
           /\ ~Solid(c)
           /\ ~BombAt(c)
           /\ \A p \in alive : at[p] # c

\* A player who is alive takes one step to a free cell.
Walk(p) ==
  /\ p \in alive
  /\ \E c \in Neighbours(at[p]) : Free(c) /\ at' = [at EXCEPT ![p] = c]
  /\ UNCHANGED <<crates, alive, lit>>

\* One bomb per cell.  The dead may still light one where they fell.
Light(p) ==
  /\ ~BombAt(at[p])
  /\ lit' = lit \cup {[pos |-> at[p], age |-> 0]}
  /\ UNCHANGED <<crates, at, alive>>

\* The cells a bomb at b reaches: the square around it, and one cell further
\* in a straight line where nothing solid stands between.
Reached(b) ==
  LET Open(dx, dy) == ~Solid(<<b[1] + dx, b[2] + dy>>)
  IN  Cell \cap ({<<b[1] + x, b[2] + y>> : x, y \in -1..1}
             \cup {<<b[1] + 2 * d, b[2]>> : d \in {e \in {-1, 1} : Open(e, 0)}}
             \cup {<<b[1], b[2] + 2 * d>> : d \in {e \in {-1, 1} : Open(0, e)}})

\* A bomb of full age kills everybody it reaches, breaks every crate it
\* reaches and leaves the other bombs alone.
Detonate(b) ==
  /\ b.age >= BombLifetime
  /\ lit' = lit \ {b}
  /\ alive' = {p \in alive : at[p] \notin Reached(b.pos)}
  /\ crates' = crates \ Reached(b.pos)
  /\ UNCHANGED at

Leave(p) ==
  /\ alive' = alive \ {p}
  /\ UNCHANGED <<crates, at, lit>>

Second ==
  /\ lit' = {IF b.age < BombLifetime THEN [b EXCEPT !.age = @ + 1] ELSE b : b \in lit}
  /\ UNCHANGED <<crates, at, alive>>

Next ==
  \/ \E p \in Player : Walk(p) \/ Light(p) \/ Leave(p)
  \/ \E b \in lit : Detonate(b)
  \/ Second

Spec == Init /\ [][Next]_rvars
=============================================================================
