--------------------------- MODULE BenchClientInv ---------------------------
(***************************************************************************)
(* The inductive invariant of BenchClient: what ClientProofs needs to know *)
(* of the tool, of its request and of the server's sizes.                  *)
(***************************************************************************)
EXTENDS BenchClient, LogServerInv

(* A reply has the head that was saved for it, and no head that may have   *)
(* been seen is larger than the tree while it is served.                   *)
SizesServed ==
    /\ \A h \in Handlers : pc[h] \in Saved => sth[h] \in treeHeads
    /\ \A r \in created : r.sth \in treeHeads
    /\ latestSTH # Nil => latestSTH \in treeHeads
    /\ phase = "serving" =>
          /\ \A h \in Handlers : pc[h] \in Signed => sth[h].treeSize <= Len(tree)
          /\ hbPc = "save" => hbSTH.treeSize <= Len(tree)
          /\ \A head \in treeHeads : head.treeSize <= Len(tree)

(* The tool waits as long as the server works on its request. *)
StepOfTool ==
    /\ samples \in Seq([leafIndex : Nat, treeSize : Nat])
    /\ pc[Client] # "idle" <=> step = "wait"
    /\ step = "start" => samples = <<>>
    /\ step \in {"proof", "refused"} => samples # <<>>

(* What the tool knows was in a reply. *)
Known ==
    \A i \in DOMAIN samples : \E r \in created : /\ samples[i].leafIndex = r.leafIndex
                                                 /\ samples[i].treeSize = r.sth.treeSize

(* A size is larger than all that the tool knows. *)
LargerThanKnown(size) == \A i \in DOMAIN samples : samples[i].treeSize < size

(* The open request has drawn a larger index than every sample has, and    *)
(* from its append on it is under a larger tree.                           *)
RequestAhead ==
    /\ pc[Client] \in {"commit", "append", "root"} \cup Rooted =>
          \A i \in DOMAIN samples : samples[i].leafIndex + 1 < leafIndex[Client]
    /\ pc[Client] \in {"root", "sign"} => LargerThanKnown(Len(tree))
    /\ pc[Client] \in Signed => LargerThanKnown(sth[Client].treeSize)

BenchInv == SizesServed /\ StepOfTool /\ Known /\ RequestAhead /\ SamplesAscend /\ ProofsServed
=============================================================================
