--------------------------- MODULE TransparencyLog ---------------------------
(***************************************************************************)
(* What the ATL promises its clients: "append-only logging"                *)
(* (internal/policy/platform.go:11-12).  One log grows at its end, every   *)
(* signed tree head (internal/sth/types.go:3) commits to a prefix of it,   *)
(* and an entry is acknowledged with 201 only once a head covers it.       *)
(* Nothing here translates code: LogServer is shown to implement it when   *)
(* requests arrive one after the other.                                    *)
(***************************************************************************)
EXTENDS Naturals, Sequences

CONSTANTS Leaves     \* leaf hashes of the entries clients may submit

VARIABLES log,       \* the leaves, in the order of the log
          heads,     \* tree heads signed so far
          acked      \* leaves answered with 201

vars == <<log, heads, acked>>

Prefix(n) == SubSeq(log, 1, n)

Covered(l) == \E head \in heads : \E i \in 1..Len(head.rootHash) : head.rootHash[i] = l

Init == log = <<>> /\ heads = {} /\ acked = {}

(* A leaf enters the log once, at its end. *)
Add == \E l \in Leaves :
          /\ \A i \in 1..Len(log) : log[i] # l
          /\ log' = Append(log, l)
          /\ UNCHANGED <<heads, acked>>

(* A head states the size and the root of a prefix. *)
Publish == \E n \in 0..Len(log) :
          /\ heads' = heads \cup {[treeSize |-> n, rootHash |-> Prefix(n)]}
          /\ UNCHANGED <<log, acked>>

Acknowledge == \E l \in Leaves :
          /\ Covered(l)
          /\ acked' = acked \cup {l}
          /\ UNCHANGED <<log, heads>>

Next == Add \/ Publish \/ Acknowledge

Spec == Init /\ [][Next]_vars
=============================================================================
