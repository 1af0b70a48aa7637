------------------------------ MODULE MCPiano ------------------------------
(* Model-checking instances of Piano.                                      *)
EXTENDS Piano, TLC

CONSTANTS c1, c2, p1, p2, t1, t2

TwoClients == {c1, c2}
OnePiano   == {p1}
TwoPianos  == {p1, p2}
TwoTasks   == {t1, t2}

Symmetry == Permutations(TwoClients) \cup Permutations(TwoTasks)
=============================================================================
