--------------------------- MODULE MCCarriedItems ---------------------------
(* Model-checking instance of CarriedItems: two clients, two items, two    *)
(* squares of one floor, one of them an elevator's landing, and a place in *)
(* the shaft.  Everybody is near.                                          *)
EXTENDS CarriedItems, TLC

CONSTANTS c1, c2, i1, i2, g1, g2, mid

TwoClients == {c1, c2}
TwoItems   == {i1, i2}
Squares    == {g1, g2, mid}
Levels     == (g1 :> 0) @@ (g2 :> 0) @@ (mid :> 17)
OneFloor   == {0}
Landings   == {g1}
AllNear    == Squares \X Squares

Symmetry == Permutations(TwoClients) \cup Permutations(TwoItems)
=============================================================================
