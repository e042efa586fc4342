--------------------------- MODULE MCBenchClient ---------------------------
(***************************************************************************)
(* BenchClient on a small instance for TLC: the tool, which submits two    *)
(* entries, next to one other client.  cmd/bench takes the first for its   *)
(* warm-up, bench-compare takes two samples.                               *)
(***************************************************************************)
EXTENDS BenchClientInv

CONSTANTS h1, h2, l1, l2, l3

TwoHandlers == {h1, h2}
ThreeLeaves == {l1, l2, l3}
TwoPayloads == <<l1, l2>>
BenchWarmsUp == [t \in Tools |-> IF t = "bench" THEN 1 ELSE 0]

EntryFaults == {"insert", "insertAck"}
=============================================================================
