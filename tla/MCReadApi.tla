----------------------------- MODULE MCReadApi -----------------------------
(***************************************************************************)
(* ReadApi on small instances for TLC.                                     *)
(***************************************************************************)
EXTENDS ReadApi, SerialInv, TLC

CONSTANTS h1, l1, l2, l3

OneHandler == {h1}
ThreeLeaves == {l1, l2, l3}

(* No action and no property tells one leaf from another. *)
LeafSymmetry == Permutations(ThreeLeaves)

(* Every failure the process is told about. *)
ReportedFaults == FaultKinds \ {"insertAck"}
=============================================================================
