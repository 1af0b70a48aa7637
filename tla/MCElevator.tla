----------------------------- MODULE MCElevator -----------------------------
(* Model-checking instances of Elevator.                                   *)
EXTENDS Elevator, TLC

CONSTANTS c1, c2, c3, t1, t2

TwoClients   == {c1, c2}
ThreeClients == {c1, c2, c3}
TwoTasks     == {t1, t2}

Symmetry2 == Permutations(TwoClients) \cup Permutations(TwoTasks)
=============================================================================
