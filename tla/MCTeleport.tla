----------------------------- MODULE MCTeleport -----------------------------
(* Model-checking instance of Teleport: two squares of the ground floor,   *)
(* one of them the elevator's, a landing upstairs, and a place in the      *)
(* shaft between them.                                                     *)
EXTENDS Teleport, TLC

CONSTANTS c1, c2, g1, g2, u1, mid

TwoClients == {c1, c2}
Squares    == {g1, g2, u1, mid}
Levels     == (g1 :> 0) @@ (g2 :> 0) @@ (u1 :> 40) @@ (mid :> 17)
TwoFloors  == {0, 40}
Landings   == {g1, u1}
=============================================================================
