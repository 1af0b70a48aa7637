----------------------------- MODULE MCAccounts -----------------------------
(* Model-checking instances of Accounts.                                   *)
EXTENDS Accounts, TLC

CONSTANTS u1, u2, c1, c2, c3, manage, chat

TwoUsers       == {u1, u2}
TwoConns       == {c1, c2}
ThreeConns     == {c1, c2, c3}
ThreeRoles     == {"admin", "user", "helper"}
TwoPermissions == {manage, chat}
SeededRoles    == {"admin", "user"}
SeededDefaults == [r \in SeededRoles |-> IF r = "admin" THEN TwoPermissions ELSE {chat}]

Symmetry2 == Permutations(TwoUsers) \cup Permutations(TwoConns)
Symmetry3 == Permutations(TwoUsers) \cup Permutations(ThreeConns)
=============================================================================
