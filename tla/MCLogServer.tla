---------------------------- MODULE MCLogServer ----------------------------
(***************************************************************************)
(* LogServer on small instances for TLC.                                   *)
(***************************************************************************)
EXTENDS LogServer

CONSTANTS h1, h2, l1, l2

OneHandler == {h1}
TwoHandlers == {h1, h2}
TwoLeaves == {l1, l2}

NoFaults == {}
(* Every failure the process is told about. *)
ReportedFaults == FaultKinds \ {"insertAck"}
=============================================================================
