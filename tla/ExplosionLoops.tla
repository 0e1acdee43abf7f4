--------------------------- MODULE ExplosionLoops ---------------------------
(***************************************************************************)
(* update_explosion of src/src/model.c loop by loop, as the reference for  *)
(* the sets BlastZone and Killed by which GameModel describes an           *)
(* explosion.  A loop of three is three calls in a row.                    *)
(***************************************************************************)
EXTENDS GameModel

\* A match while an explosion is applied: the board so far, the dead so far.
Impact(m, c) == c \in Cell /\ m.grid[c] \in Wall

apply_explosion_effect(m, c) ==
  IF c \notin Cell THEN m
  ELSE [grid |-> IF m.grid[c] \in {DESTRUCTIBLE_WALL} \cup PlayerTile
                 THEN [m.grid EXCEPT ![c] = EMPTY] ELSE m.grid,
        dead |-> m.dead \cup {p \in Player : m.grid[c] = get_player(p)}
                        \cup (IF Impact(m, c) THEN {} ELSE {p \in Player : pos[p] = c})]

\* for (k = 0; k <= 2; ++k) if (apply_explosion_effect(...)) break;
ArmLoop(m, b, d) ==
  LET m0 == apply_explosion_effect(m, Shift(b, d, 0))
      m1 == apply_explosion_effect(m0, Shift(b, d, 1))
  IN  IF Impact(m, Shift(b, d, 0)) THEN m0
      ELSE IF Impact(m0, Shift(b, d, 1)) THEN m1
      ELSE apply_explosion_effect(m1, Shift(b, d, 2))

Corner(m, b, d) == apply_explosion_effect(m, Shift(b, d, 1))

update_explosion(b) ==
  LET center == [grid |-> grid, dead |-> dead \cup {p \in Player : pos[p] = b}]
      down   == ArmLoop(center, b, <<0, 1>>)
      up     == ArmLoop(down, b, <<0, -1>>)
      right  == ArmLoop(up, b, <<1, 0>>)
      left   == ArmLoop(right, b, <<-1, 0>>)
  IN  Corner(Corner(Corner(Corner(left, b, <<1, 1>>), b, <<1, -1>>), b, <<-1, 1>>), b, <<-1, -1>>)

\* The sets give what the loops give for every bomb that update_bombs looks at:
\* the order of the arms does not matter and no arm sees what another cleared.
LoopsAgree ==
  call = "bombs" /\ idx <= Len(bombs) =>
    LET b == bombs[idx].pos
    IN  update_explosion(b) = [grid |-> GridAfterBlast(b), dead |-> dead \cup Killed(b)]
=============================================================================
