----------------------------- MODULE SeederInv -----------------------------
(***************************************************************************)
(* Seeder with one handler, as bench-scale submits one entry after the     *)
(* other: the inductive invariant that ClientProofs proves its properties  *)
(* from.  The heartbeat overlaps with requests and with seeding.           *)
(***************************************************************************)
EXTENDS Seeder, SerialInv

(* What the seeder holds is of the rows, and nobody else commits rows while *)
(* it seeds.                                                               *)
SeederLocals ==
    /\ sdPc \in {"submit", "seed", "commit", "save", "state", "restart"}
    /\ sdTree \in Seq(Leaves) /\ sdIndex \in 0..MaxIndex
    /\ sdPc # "submit" => \A h \in Handlers : pc[h] = "idle"
    /\ sdPc = "commit" => sdIndex # 0
    /\ Leafs(sdTree) \subseteq Committed /\ Len(sdTree) <= Len(entries)
    /\ sdPc = "save" => sdSTH \in STH /\ HeadBounded(sdSTH)

(* The rows are committed in the order of their indexes, and whoever is    *)
(* about to commit one has the last draw.                                  *)
CommitsAscend ==
    /\ \A i, j \in DOMAIN entries : i < j => entries[i].leafIndex < entries[j].leafIndex
    /\ \A h \in Handlers : pc[h] = "commit" => leafIndex[h] = lastIndex
    /\ sdPc = "commit" => /\ sdIndex = lastIndex
                          /\ \A i \in DOMAIN entries : entries[i].leafIndex # lastIndex

(* The rebuild has the first rows, and while the benchmark submits its     *)
(* SELECT sees them all.                                                   *)
RebuildInOrder ==
    phase = "rebuild" =>
        /\ OfRows(tree)
        /\ cursor = IF tree = <<>> THEN 0 ELSE entries[Len(tree)].leafIndex
        /\ sdPc = "submit" /\ cursor # 0 => selected = Len(entries)

(* The tree of the server, and all that was read of it, is of the first    *)
(* rows.                                                                   *)
ServerOfRows ==
    /\ OfRows(tree)
    /\ \A h \in Handlers : /\ pc[h] \in Rooted => OfRows(rootHash[h])
                           /\ pc[h] \in Signed => OfRows(sth[h].rootHash)
    /\ hbPc = "size" => OfRows(hbRoot)
    /\ hbPc = "save" => OfRows(hbSTH.rootHash)

(* So is what was signed, and the tree of the seeder has every row.        *)
SignedOfRows ==
    /\ \A head \in treeHeads : OfRows(head.rootHash)
    /\ sdPc \in {"seed", "commit"} => OfRows(sdTree) /\ Len(sdTree) = Len(entries)
    /\ sdPc = "save" => OfRows(sdSTH.rootHash)

(* While the benchmark submits to a server that serves, the tree has every *)
(* row but one that is about to be appended, and extends every root.       *)
CaughtUp ==
    sdPc = "submit" /\ phase = "serving" =>
        /\ (\A h \in Handlers : pc[h] # "append") => Len(tree) = Len(entries)
        /\ \A h \in Handlers :
              /\ pc[h] = "append" => /\ Len(entries) = Len(tree) + 1
                                     /\ entries[Len(entries)].leafHash = body[h]
              /\ pc[h] \in Signed => Len(sth[h].rootHash) <= Len(tree)
        /\ hbPc = "save" => Len(hbSTH.rootHash) <= Len(tree)
        /\ \A head \in treeHeads : Len(head.rootHash) <= Len(tree)

SeedInv == /\ SeederLocals /\ CommitsAscend /\ RebuildInOrder
           /\ "restart" \notin ignored => ServerOfRows /\ CaughtUp
           /\ ignored = {} => SignedOfRows
=============================================================================
