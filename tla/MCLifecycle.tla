---------------------------- MODULE MCLifecycle ----------------------------
(***************************************************************************)
(* Lifecycle on a small instance for TLC.                                  *)
(***************************************************************************)
EXTENDS Lifecycle

CONSTANTS h1, l1

OneHandler == {h1}
OneLeaf == {l1}
HeadsAndAcks == {"saveSTH", "insertAck"}

(* Of three bits, with a second of 1: one interval that is positive and    *)
(* one that overflows.                                                     *)
GoodAndOverflowing == {1, 5}
=============================================================================
