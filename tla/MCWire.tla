------------------------------- MODULE MCWire -------------------------------
(* Bounds for TLC: a player of a team whose team wins, a player alone that    *)
(* loses and one whose match nobody wins, and a text of two bytes.            *)
EXTENDS Wire

MCSeats == {[mode |-> "TEAM", id |-> 3, eq |-> 0, winner |-> 1],
            [mode |-> "SOLO", id |-> 1, eq |-> 0, winner |-> 2],
            [mode |-> "SOLO", id |-> 0, eq |-> 0, winner |-> -1]}
MCTexts == {<<72, 105>>}
=============================================================================
