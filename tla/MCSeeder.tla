------------------------------ MODULE MCSeeder ------------------------------
(***************************************************************************)
(* Seeder on small instances for TLC.                                      *)
(***************************************************************************)
EXTENDS SeederInv, TLC

CONSTANTS h1, l1, l2

OneHandler == {h1}
TwoLeaves == {l1, l2}
NoFaults == {}

Symmetry == Permutations(Leaves)
=============================================================================
