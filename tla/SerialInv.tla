----------------------------- MODULE SerialInv -----------------------------
(***************************************************************************)
(* LogServer when requests and beats of the heartbeat do not overlap, for  *)
(* any number of handlers and with the heartbeat: the inductive invariant  *)
(* that SerialProofs proves its serial properties from.                    *)
(***************************************************************************)
EXTENDS LogServerInv

(* An index is larger than every index before it and not smaller than its  *)
(* place; the draws between two rows are no fewer than the rows.  A row    *)
(* that is about to be committed is of the last draw.                      *)
RowsAscend ==
    /\ \A i, j \in DOMAIN entries : i < j => entries[i].leafIndex < entries[j].leafIndex
    /\ \A i \in DOMAIN entries : /\ i <= entries[i].leafIndex
                                 /\ entries[i].leafIndex + Len(entries) <= lastIndex + i
    /\ Len(entries) <= lastIndex
    /\ \A h \in Handlers : pc[h] = "commit" =>
          /\ leafIndex[h] = lastIndex /\ Len(entries) < lastIndex
          /\ \A i \in DOMAIN entries : entries[i].leafIndex + Len(entries) < lastIndex + i

(* s has the leaves of the first rows, in commit order. *)
OfRows(s) == Len(s) <= Len(entries) /\ \A i \in DOMAIN s : s[i] = entries[i].leafHash

(* The last row is that of h. *)
LastRowOf(h) == /\ entries # <<>>
                /\ entries[Len(entries)] = [leafIndex |-> leafIndex[h], leafHash |-> body[h]]

(* The tree holds the rows in commit order, all of them except the one     *)
(* that a handler is about to append, or that the rebuild has still ahead. *)
TreeInOrder ==
    /\ OfRows(tree)
    /\ phase = "rebuild" => cursor = IF tree = <<>> THEN 0 ELSE entries[Len(tree)].leafIndex
    /\ phase = "serving" /\ (\A h \in Handlers : pc[h] # "append") => Len(tree) = Len(entries)
    /\ \A h \in Handlers : pc[h] = "append" => Len(entries) = Len(tree) + 1
    /\ \A h \in Handlers : pc[h] \in {"append", "root"} \cup Rooted => LastRowOf(h)

(* What was read of the tree is the tree as it is. *)
TheHead == [treeSize |-> Len(tree), rootHash |-> tree]

LocalsCurrent ==
    /\ \A h \in Handlers : /\ pc[h] \in Rooted => rootHash[h] = tree
                           /\ pc[h] \in Signed => sth[h] = TheHead
                           /\ pc[h] = "state" => compact[h] = Len(tree)
    /\ hbPc = "size" => hbRoot = tree
    /\ hbPc = "save" => hbSTH = TheHead

(* A tree of this size can be had from the rows, and is had from the tree  *)
(* while it is served.                                                     *)
Served(size) == size <= Len(entries) /\ (phase = "serving" => size <= Len(tree))

HeadsInOrder ==
    /\ \A head \in treeHeads : /\ head.treeSize = Len(head.rootHash)
                               /\ OfRows(head.rootHash)
                               /\ Served(head.treeSize)
    /\ latestSTH # Nil => latestSTH \in treeHeads
    /\ Served(treeState)

SInv == RowsAscend /\ TreeInOrder /\ LocalsCurrent /\ HeadsInOrder /\ ReceiptsVerify
=============================================================================
