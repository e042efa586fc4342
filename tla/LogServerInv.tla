---------------------------- MODULE LogServerInv ----------------------------
(***************************************************************************)
(* The inductive invariant of LogServer, in named parts: what its theorems *)
(* (LogServerProofs) need to know of a state that no single property says. *)
(* TLC checks it on small instances before it is proved for all.           *)
(***************************************************************************)
EXTENDS LogServer

(* Handlers past a call hold its result. *)
Signed == {"save", "compact", "state", "reply"}
Saved == {"compact", "state", "reply"}
Rooted == {"sign"} \cup Signed
Working == {"dedup", "insert", "commit", "append", "root"} \cup Rooted

LocalsSet == /\ \A h \in Handlers : pc[h] \in Working => body[h] \in Leaves
             /\ \A h \in Handlers : pc[h] \in {"commit", "append"} \cup {"root"} \cup Rooted => leafIndex[h] # 0
             /\ \A h \in Handlers : pc[h] \in Signed => sth[h] \in STH
             /\ hbPc = "save" => hbSTH \in STH

(* No request and no heartbeat while the tree is rebuilt. *)
QuietRebuild == phase = "rebuild" => hbPc = "wait" /\ \A h \in Handlers : pc[h] = "idle"

(* Two rows differ in leaf_hash and in leaf_index, and an index that was   *)
(* drawn is used by one row or one handler.                                *)
RowsUnique == \A i, j \in DOMAIN entries :
                 entries[i].leafHash = entries[j].leafHash \/ entries[i].leafIndex = entries[j].leafIndex
                     => i = j

IndexesDrawn ==
    /\ \A i \in DOMAIN entries : entries[i].leafIndex <= lastIndex
    /\ \A h \in Handlers : pc[h] = "commit" =>
          /\ leafIndex[h] <= lastIndex
          /\ \A i \in DOMAIN entries : entries[i].leafIndex # leafIndex[h]
          /\ \A g \in Handlers : pc[g] = "commit" /\ leafIndex[g] = leafIndex[h] => g = h

(* A handler about to append is the only one with its leaf, which is       *)
(* committed and not in the tree.                                          *)
AppendsNew ==
    \A h \in Handlers : pc[h] = "append" =>
        /\ body[h] \in Committed
        /\ body[h] \notin Leafs(tree)
        /\ \A g \in Handlers : pc[g] = "append" /\ body[g] = body[h] => g = h

(* While it is rebuilt, the tree holds the rows up to the cursor. *)
RebuildSoFar == phase = "rebuild" => \A i \in DOMAIN entries :
                    entries[i].leafHash \in Leafs(tree) <=> entries[i].leafIndex <= cursor

(* A root was computed from a tree whose leaves were all committed, and    *)
(* the tree has not become smaller since.                                  *)
RootOfTree(root) == Leafs(root) \subseteq Committed /\ Len(root) <= Len(tree)

HeadBounded(head) == /\ Leafs(head.rootHash) \subseteq Committed
                     /\ Len(head.rootHash) <= head.treeSize
                     /\ head.treeSize <= Len(entries)

RootsDurable == /\ \A h \in Handlers : pc[h] = "sign" => RootOfTree(rootHash[h])
                /\ hbPc = "size" => RootOfTree(hbRoot)
                /\ \A h \in Handlers : pc[h] \in Signed => HeadBounded(sth[h])
                /\ hbPc = "save" => HeadBounded(hbSTH)
                /\ \A head \in treeHeads : HeadBounded(head)

(* The root a handler computed has its leaf, and from SaveHead on a saved  *)
(* head does.                                                              *)
CoveredAt(h) ==
    /\ pc[h] = "root" => body[h] \in Leafs(tree)
    /\ pc[h] = "sign" => body[h] \in Leafs(rootHash[h])
    /\ pc[h] = "save" => body[h] \in Leafs(sth[h].rootHash)
    /\ pc[h] \in Saved => body[h] \in Committed \cap CoveredLeaves

BodyCovered == \A h \in Handlers : CoveredAt(h)

IInv == /\ TypeOK
        /\ LocalsSet
        /\ QuietRebuild
        /\ RowsUnique
        /\ IndexesDrawn
        /\ TreeOfEntries
        /\ AppendsNew
        /\ RebuildSoFar
        /\ RootsDurable
        /\ BodyCovered
        /\ RepliesHold

(* From its commit on a handler knows the index of its row, and so does    *)
(* the client it has replied to.                                           *)
RepliesAtRow ==
    /\ \A h \in Handlers : pc[h] \in {"append", "root"} \cup Rooted =>
          [leafIndex |-> leafIndex[h], leafHash |-> body[h]] \in Rows
    /\ \A r \in created : [leafIndex |-> r.leafIndex + 1, leafHash |-> r.leaf] \in Rows
=============================================================================
