------------------------------ MODULE GamePool ------------------------------
(***************************************************************************)
(* What model.h promises of the games of the server: a new game gets an id *)
(* no live game has, and keeps it until the game of that id is removed     *)
(* ("It returns the id of the game", src/src/model.h).                     *)
(***************************************************************************)
EXTENDS Integers

CONSTANT Game   \* the games (struct game) that may be made

VARIABLES
  live,     \* the live games: a function from their ids
  game_id   \* the id the last game made was given

vars == <<live, game_id>>

Init ==
  /\ live = [i \in {} |-> {}]
  /\ game_id = -1

Make(g) ==
  /\ game_id' \in Nat \ DOMAIN live
  /\ live' = [i \in DOMAIN live \cup {game_id'} |-> IF i = game_id' THEN g ELSE live[i]]

Remove(i) ==
  /\ live' = [j \in DOMAIN live \ {i} |-> live[j]]
  /\ UNCHANGED game_id

Next ==
  \/ \E g \in Game : Make(g)
  \/ \E i \in DOMAIN live : Remove(i)

Spec == Init /\ [][Next]_vars
=============================================================================
