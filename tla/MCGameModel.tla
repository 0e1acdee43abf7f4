---------------------------- MODULE MCGameModel ----------------------------
(***************************************************************************)
(* Small instances of GameModel for TLC.                                   *)
(***************************************************************************)
EXTENDS ExplosionLoops

CONSTANT Movers   \* the players that send actions; the others stay at their corner

Act(p, a) == [id |-> p, action |-> a]

Single == {<<Act(p, a)>> : p \in Movers, a \in {"UP", "RIGHT", "DOWN", "LEFT", "PLACE_BOMB"}}

\* One action, or the bombs of two players in one batch, which share their age.
MCBatches ==
  Single \cup {<<Act(p, "PLACE_BOMB"), Act(q, "PLACE_BOMB")>> : p, q \in Movers}

\* A player that never goes back.
MCOneWay == {<<Act(p, a)>> : p \in Movers, a \in {"RIGHT", "DOWN", "PLACE_BOMB"}}
=============================================================================
