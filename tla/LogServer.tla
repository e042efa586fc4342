------------------------------ MODULE LogServer ------------------------------
(***************************************************************************)
(* The ATL server process over its database: POST /v1/entries              *)
(* (internal/api/handlers.go handleSubmitEntry, one goroutine per request, *)
(* no lock across the handler), the STH heartbeat (internal/sth/           *)
(* heartbeat.go) and the rebuild of the in-memory tree at start-up         *)
(* (cmd/atl/main.go serve).  Each statement on the database and each       *)
(* method of merkle.Tree, which holds the tree's mutex, is one step; a     *)
(* step is named for the call it makes, and pc for the call that is next.  *)
(*                                                                         *)
(* The tree is the sequence of leaf hashes appended to it; MerkleTree has  *)
(* its nodes.  A leaf stands for an entry that authentication, EntryType   *)
(* and the policy let through (handlers.go:18-50).  Sign, HashLeaf,        *)
(* compact.Range.Append and GetRootHash cannot fail on the values they get *)
(* here, so their error returns have no step.                              *)
(***************************************************************************)
EXTENDS EntryStore

CONSTANTS Handlers,   \* goroutines that serve requests
          Heartbeat,  \* whether the heartbeat goroutine ticks
          MaxCrashes, \* bound on the process crashes explored
          Faults      \* which statements may fail, see FaultKinds

FaultKinds == {"dedup",     \* SELECT EXISTS fails
               "insert",    \* INSERT INTO atl_entries fails, before or after nextval
               "insertAck", \* the INSERT commits and its result is lost
               "saveSTH",   \* INSERT INTO tree_heads fails, row saved or not
               "saveState"} \* the upsert of tree_state fails, row saved or not

ASSUME HeartbeatAssumption == Heartbeat \in BOOLEAN
ASSUME FaultsAssumption == Faults \subseteq FaultKinds
ASSUME MaxCrashesAssumption == MaxCrashes \in Nat

VARIABLES phase,     \* "rebuild" until the tree holds the database, then "serving"
          cursor,    \* leaf_index of the last row the rebuild has read
          tree,      \* leaf hashes in merkle.Tree
          pc,        \* next call of each handler
          body,      \* leaf hash of each handler's request
          leafIndex, \* leaf_index the INSERT of each handler drew (1-based)
          rootHash,  \* rootHash of each handler
          sth,       \* sthVal of each handler
          compact,   \* size of each handler
          hbPc,      \* next call of the heartbeat
          hbRoot,    \* root of the heartbeat
          hbSTH,     \* sth of the heartbeat
          created,   \* bodies of the 201 replies
          duplicates,\* leaves answered with 409
          crashes    \* crashes so far

handlerVars == <<pc, body, leafIndex, rootHash, sth, compact>>
hbVars == <<hbPc, hbRoot, hbSTH>>
clientVars == <<created, duplicates>>
processVars == <<phase, cursor, crashes>>
vars == <<storeVars, tree, handlerVars, hbVars, clientVars, processVars>>

Leafs(s) == {s[i] : i \in DOMAIN s}

Each(v) == [h \in Handlers |-> v]

Init == /\ StoreInit
        /\ phase = "rebuild" /\ cursor = 0 /\ tree = <<>> /\ crashes = 0
        /\ pc = Each("idle") /\ body = Each(Nil) /\ leafIndex = Each(0)
        /\ rootHash = Each(<<>>) /\ sth = Each(Nil) /\ compact = Each(0)
        /\ hbPc = "wait" /\ hbRoot = <<>> /\ hbSTH = Nil
        /\ created = {} /\ duplicates = {}
-----------------------------------------------------------------------------
(* Start-up: main.go:72-90. *)

(* Variant for a mutant: no ORDER BY, the rows come in any order. *)
RebuildNextUnordered ==
    /\ phase = "rebuild"
    /\ \E row \in Rows : /\ row.leafHash \notin Leafs(tree)
                         /\ tree' = Append(tree, row.leafHash)
    /\ cursor' = IF Len(tree) + 1 = Len(entries) THEN MaxIndex ELSE 0
    /\ UNCHANGED <<storeVars, phase, handlerVars, hbVars, clientVars, crashes>>

(* One row of IterateLeafHashes, appended by the callback of RebuildNodeCache. *)
RebuildNext == /\ phase = "rebuild"
               /\ TreeSize > 0
               /\ \E row \in Rows : /\ IsNextRow(row, cursor)
                                    /\ tree' = Append(tree, row.leafHash)
                                    /\ cursor' = row.leafIndex
               /\ UNCHANGED <<storeVars, phase, handlerVars, hbVars, clientVars, crashes>>

(* Variant for a mutant: rows.Err is not looked at when the iteration ends. *)
RebuildDoneEarly == /\ phase = "rebuild"
                    /\ phase' = "serving" /\ cursor' = 0
                    /\ UNCHANGED <<storeVars, tree, handlerVars, hbVars, clientVars, crashes>>

(* rows.Next is false: the server starts to listen. *)
RebuildDone == /\ phase = "rebuild"
               /\ \A row \in Rows : row.leafIndex <= cursor
               /\ phase' = "serving" /\ cursor' = 0
               /\ UNCHANGED <<storeVars, tree, handlerVars, hbVars, clientVars, crashes>>
-----------------------------------------------------------------------------
(* POST /v1/entries: handlers.go:15-146. *)

Goto(h, from, to) == pc[h] = from /\ pc' = [pc EXCEPT ![h] = to]

(* The handler returns: its locals are gone. *)
Return(h) == /\ pc' = [pc EXCEPT ![h] = "idle"]
             /\ body' = [body EXCEPT ![h] = Nil]
             /\ leafIndex' = [leafIndex EXCEPT ![h] = 0]
             /\ rootHash' = [rootHash EXCEPT ![h] = <<>>]
             /\ sth' = [sth EXCEPT ![h] = Nil]
             /\ compact' = [compact EXCEPT ![h] = 0]

(* A reply with status 500, which tells the client nothing. *)
InternalError(h, from) == pc[h] = from /\ Return(h) /\ UNCHANGED <<tree, clientVars, hbVars, processVars>>

Receive(h) == \E l \in Leaves :
    /\ phase = "serving"
    /\ Goto(h, "idle", "dedup")
    /\ body' = [body EXCEPT ![h] = l]
    /\ UNCHANGED <<storeVars, tree, leafIndex, rootHash, sth, compact, hbVars, clientVars, processVars>>

(* LeafHashExists is false. *)
DedupMiss(h) ==
    /\ Goto(h, "dedup", "insert")
    /\ ~LeafHashExists(body[h])
    /\ UNCHANGED <<storeVars, tree, body, leafIndex, rootHash, sth, compact, hbVars, clientVars, processVars>>

(* LeafHashExists is true: 409, and no receipt. *)
DedupConflict(h) ==
    /\ pc[h] = "dedup"
    /\ LeafHashExists(body[h])
    /\ duplicates' = duplicates \cup {body[h]}
    /\ Return(h)
    /\ UNCHANGED <<storeVars, tree, hbVars, created, processVars>>

DedupError(h) == /\ "dedup" \in Faults
                 /\ InternalError(h, "dedup")
                 /\ UNCHANGED storeVars

(* Variant for a mutant: the index is converted to 0-based before it is stored. *)
InsertBeginZeroBased(h) ==
    /\ Goto(h, "insert", "commit")
    /\ DrawIndex
    /\ leafIndex' = [leafIndex EXCEPT ![h] = lastIndex]
    /\ UNCHANGED <<tree, body, rootHash, sth, compact, hbVars, clientVars, processVars>>

(* AppendEntry: PostgreSQL draws leaf_index ... *)
InsertBegin(h) ==
    /\ Goto(h, "insert", "commit")
    /\ DrawIndex
    /\ leafIndex' = [leafIndex EXCEPT ![h] = lastIndex']
    /\ UNCHANGED <<tree, body, rootHash, sth, compact, hbVars, clientVars, processVars>>

(* ... and commits the row. *)
InsertCommit(h) ==
    /\ Goto(h, "commit", "append")
    /\ CommitRow(leafIndex[h], body[h])
    /\ UNCHANGED <<tree, body, leafIndex, rootHash, sth, compact, hbVars, clientVars, processVars>>

(* Variants for mutants: the error is logged and the handler goes on, or it *)
(* tries again for ever when the sequence has no index left.               *)
InsertErrorIgnored(h) ==
    /\ Goto(h, "commit", "append")
    /\ LeafHashExists(body[h]) \/ "insert" \in Faults
    /\ UNCHANGED <<storeVars, tree, body, leafIndex, rootHash, sth, compact, hbVars, clientVars, processVars>>

InsertErrorRetried(h) ==
    /\ \/ InternalError(h, "commit") /\ (LeafHashExists(body[h]) \/ "insert" \in Faults)
       \/ pc[h] = "insert" /\ lastIndex = MaxIndex /\ UNCHANGED vars
    /\ UNCHANGED storeVars

(* Another handler's row took the leaf hash after the dedup check, or the  *)
(* sequence is at its last value, or the connection broke.                 *)
InsertError(h) ==
    /\ \/ InternalError(h, "commit") /\ (LeafHashExists(body[h]) \/ "insert" \in Faults)
       \/ InternalError(h, "insert") /\ (lastIndex = MaxIndex \/ "insert" \in Faults)
    /\ UNCHANGED storeVars

(* The row is committed and the handler is told of an error. *)
InsertAckLost(h) == /\ "insertAck" \in Faults
                    /\ InternalError(h, "commit")
                    /\ CommitRow(leafIndex[h], body[h])

TreeAppend(h) ==
    /\ Goto(h, "append", "root")
    /\ tree' = Append(tree, body[h])
    /\ UNCHANGED <<storeVars, body, leafIndex, rootHash, sth, compact, hbVars, clientVars, processVars>>

ComputeRoot(h) ==
    /\ Goto(h, "root", "sign")
    /\ rootHash' = [rootHash EXCEPT ![h] = tree]
    /\ UNCHANGED <<storeVars, tree, body, leafIndex, sth, compact, hbVars, clientVars, processVars>>

(* Variant for a mutant: the size is taken from the row, leafIndex + 1. *)
SignLeafIndex(h) ==
    /\ Goto(h, "sign", "save")
    /\ sth' = [sth EXCEPT ![h] = [treeSize |-> leafIndex[h], rootHash |-> rootHash[h]]]
    /\ UNCHANGED <<storeVars, tree, body, leafIndex, rootHash, compact, hbVars, clientVars, processVars>>

(* signer.Sign(tree.Size(), rootHash): the size is read now, the root was  *)
(* computed one step earlier.                                              *)
Sign(h) ==
    /\ Goto(h, "sign", "save")
    /\ sth' = [sth EXCEPT ![h] = [treeSize |-> Len(tree), rootHash |-> rootHash[h]]]
    /\ UNCHANGED <<storeVars, tree, body, leafIndex, rootHash, compact, hbVars, clientVars, processVars>>

SaveHead(h) ==
    /\ Goto(h, "save", "compact")
    /\ SaveSTH(sth[h])
    /\ UNCHANGED <<tree, body, leafIndex, rootHash, sth, compact, hbVars, clientVars, processVars>>

(* Variant for a mutant: the error is logged and the handler goes on. *)
SaveHeadErrorIgnored(h) ==
    /\ "saveSTH" \in Faults
    /\ Goto(h, "save", "compact")
    /\ UNCHANGED <<storeVars, tree, body, leafIndex, rootHash, sth, compact, hbVars, clientVars, processVars>>

SaveHeadError(h) == /\ "saveSTH" \in Faults
                    /\ InternalError(h, "save")
                    /\ SaveSTH(sth[h]) \/ UNCHANGED storeVars

CompactState(h) ==
    /\ Goto(h, "compact", "state")
    /\ compact' = [compact EXCEPT ![h] = Len(tree)]
    /\ UNCHANGED <<storeVars, tree, body, leafIndex, rootHash, sth, hbVars, clientVars, processVars>>

SaveState(h) ==
    /\ Goto(h, "state", "reply")
    /\ SaveTreeState(compact[h])
    /\ UNCHANGED <<tree, body, leafIndex, rootHash, sth, compact, hbVars, clientVars, processVars>>

SaveStateError(h) == /\ "saveState" \in Faults
                     /\ InternalError(h, "state")
                     /\ SaveTreeState(compact[h]) \/ UNCHANGED storeVars

(* Variant for a mutant: the error of InclusionProof is not looked at. *)
ReceiptDespiteError(h) ==
    [leafIndex |-> leafIndex[h] - 1, treeSize |-> Len(tree), rootHash |-> rootHash[h], path |-> tree]

(* What Generate signs: the position AppendEntry returned, the size of the *)
(* tree now, the root of step ComputeRoot and the path from the position,  *)
(* or no receipt when InclusionProof refuses the position.                 *)
Receipt(h) ==
    LET index == leafIndex[h] - 1
    IN  IF index < Len(tree)
        THEN [leafIndex |-> index, treeSize |-> Len(tree), rootHash |-> rootHash[h], path |-> tree]
        ELSE Nil

(* The size and the path of the receipt are read by several calls; a later *)
(* Append leaves the first treeSize leaves as they are, so one step does.  *)
Reply(h) ==
    /\ pc[h] = "reply"
    /\ created' = created \cup {[leaf |-> body[h], leafIndex |-> leafIndex[h] - 1,
                                 sth |-> sth[h], receipt |-> Receipt(h)]}
    /\ Return(h)
    /\ UNCHANGED <<storeVars, tree, hbVars, duplicates, processVars>>

(* GET /v1/entries/{index}/proof?tree_size=n, or Nil for the reply 400;    *)
(* the path is written as the leaves it is computed from.                  *)
InclusionProof(index, treeSize) ==
    IF index >= treeSize \/ treeSize > Len(tree) THEN Nil ELSE SubSeq(tree, 1, treeSize)

Handle(h) == \/ DedupMiss(h) \/ DedupConflict(h) \/ DedupError(h)
             \/ InsertBegin(h) \/ InsertCommit(h) \/ InsertError(h) \/ InsertAckLost(h)
             \/ TreeAppend(h) \/ ComputeRoot(h) \/ Sign(h) \/ SaveHead(h) \/ SaveHeadError(h)
             \/ CompactState(h) \/ SaveState(h) \/ SaveStateError(h) \/ Reply(h)
-----------------------------------------------------------------------------
(* The heartbeat: heartbeat.go:39-69.  It ticks from the moment the tree   *)
(* is rebuilt.  The empty tree is signed with a zero hash, here <<>>.      *)
BeatRoot == /\ Heartbeat /\ phase = "serving" /\ hbPc = "wait"
            /\ hbPc' = "size"
            /\ hbRoot' = tree
            /\ UNCHANGED <<storeVars, tree, handlerVars, hbSTH, clientVars, processVars>>

BeatSign == /\ hbPc = "size"
            /\ hbPc' = "save"
            /\ hbSTH' = [treeSize |-> Len(tree), rootHash |-> hbRoot]
            /\ UNCHANGED <<storeVars, tree, handlerVars, hbRoot, clientVars, processVars>>

BeatDone == /\ hbPc = "save"
            /\ hbPc' = "wait" /\ hbRoot' = <<>> /\ hbSTH' = Nil
            /\ UNCHANGED <<tree, handlerVars, clientVars, processVars>>

BeatSave == BeatDone /\ SaveSTH(hbSTH)

(* Variant for a mutant: Start returns the error. *)
BeatErrorStops == /\ "saveSTH" \in Faults
                  /\ hbPc = "save" /\ hbPc' = "stopped"
                  /\ UNCHANGED <<storeVars, tree, handlerVars, hbRoot, hbSTH, clientVars, processVars>>

(* The error is logged and the loop goes on. *)
BeatError == /\ "saveSTH" \in Faults
             /\ BeatDone
             /\ SaveSTH(hbSTH) \/ UNCHANGED storeVars

Beat == BeatRoot \/ BeatSign \/ BeatSave \/ BeatError
-----------------------------------------------------------------------------
(* The process dies and is started again (docker-compose.yml               *)
(* restart: unless-stopped): the tree and every request are gone.  An      *)
(* INSERT under way is rolled back, or was committed before: InsertCommit. *)
Crash == /\ crashes < MaxCrashes
         /\ crashes' = crashes + 1
         /\ phase' = "rebuild" /\ cursor' = 0 /\ tree' = <<>>
         /\ pc' = Each("idle") /\ body' = Each(Nil) /\ leafIndex' = Each(0)
         /\ rootHash' = Each(<<>>) /\ sth' = Each(Nil) /\ compact' = Each(0)
         /\ hbPc' = "wait" /\ hbRoot' = <<>> /\ hbSTH' = Nil
         /\ UNCHANGED <<storeVars, clientVars>>

Next == \/ RebuildNext \/ RebuildDone
        \/ \E h \in Handlers : Receive(h) \/ Handle(h)
        \/ Beat
        \/ Crash

Spec == Init /\ [][Next]_vars
-----------------------------------------------------------------------------
(* Types. *)
Receipts == [leafIndex : Nat, treeSize : Nat, rootHash : Seq(Leaves), path : Seq(Leaves)]
Replies == [leaf : Leaves, leafIndex : Nat, sth : STH, receipt : Receipts \cup {Nil}]

(* Every variable holds a value of the type its Go counterpart has, and    *)
(* the database's counters stay in the columns' ranges.                    *)
TypeOK == /\ entries \in Seq([leafIndex : 1..MaxIndex, leafHash : Leaves])
          /\ lastIndex \in 0..MaxIndex
          /\ treeHeads \subseteq STH
          /\ latestSTH \in STH \cup {Nil}
          /\ treeState \in Nat
          /\ phase \in {"rebuild", "serving"}
          /\ cursor \in 0..MaxIndex
          /\ tree \in Seq(Leaves)
          /\ pc \in [Handlers -> {"idle", "dedup", "insert", "commit", "append", "root",
                                  "sign", "save", "compact", "state", "reply"}]
          /\ body \in [Handlers -> Leaves \cup {Nil}]
          /\ leafIndex \in [Handlers -> 0..MaxIndex]
          /\ rootHash \in [Handlers -> Seq(Leaves)]
          /\ sth \in [Handlers -> STH \cup {Nil}]
          /\ compact \in [Handlers -> Nat]
          /\ hbPc \in {"wait", "size", "save"}
          /\ hbRoot \in Seq(Leaves)
          /\ hbSTH \in STH \cup {Nil}
          /\ created \subseteq Replies
          /\ duplicates \subseteq Leaves
          /\ crashes \in 0..MaxCrashes
-----------------------------------------------------------------------------
(* Properties of any number of handlers, with the heartbeat and crashes.   *)

CoveredLeaves == UNION {Leafs(head.rootHash) : head \in treeHeads}

(* The tree never holds a leaf twice and never a leaf that is not in       *)
(* atl_entries, whatever two handlers do between their dedup check and     *)
(* their INSERT (handlers.go:54-77).                                       *)
TreeOfEntries == /\ Leafs(tree) \subseteq Committed
                 /\ \A i, j \in DOMAIN tree : tree[i] = tree[j] => i = j

(* A root the operator has signed and saved covers durable entries only:   *)
(* no crash can make a published leaf disappear (handlers.go:69-94).       *)
HeadsDurable == CoveredLeaves \subseteq Committed

(* What a reply says holds for ever: a leaf answered with 201 is durable   *)
(* and under a saved root, a leaf answered with 409 is durable             *)
(* (handlers.go:59-62, 145).                                               *)
RepliesHold == /\ \A r \in created : r.leaf \in Committed \cap CoveredLeaves
               /\ duplicates \subseteq Committed

(* The index of a 201 reply retrieves the entry that was submitted, in any *)
(* race, after any failure and any crash (handlers.go:131-146,             *)
(* entries.go:20-36).                                                      *)
EntryRetrieved == \A r \in created : GetEntry(r.leafIndex) = r.leaf

(* The size in a saved head never runs behind the leaves under its root,   *)
(* nor ahead of the entries of the database, although handler and          *)
(* heartbeat read root and size in two calls (handlers.go:84-89,           *)
(* heartbeat.go:56-64).                                                    *)
HeadSizesBounded ==
    \A head \in treeHeads : Len(head.rootHash) <= head.treeSize /\ head.treeSize <= Len(entries)

(* No committed entry is lost to the tree: a handler is about to append it *)
(* or, after a crash, the rebuild has it still ahead (handlers.go:69-77,   *)
(* main.go:79-90).                                                         *)
NoLostEntry ==
    \A row \in Rows : \/ row.leafHash \in Leafs(tree)
                      \/ \E h \in Handlers : pc[h] = "append" /\ body[h] = row.leafHash
                      \/ phase = "rebuild" /\ row.leafIndex > cursor
-----------------------------------------------------------------------------
(* Properties of requests and beats that come one after the other.         *)

(* At most one handler or the heartbeat is under way. *)
OneAtATime == /\ \A g, h \in Handlers : pc[g] # "idle" /\ pc[h] # "idle" => g = h
              /\ hbPc # "wait" => \A h \in Handlers : pc[h] = "idle"

SerialSpec == Init /\ [][Next /\ OneAtATime']_vars

PrefixOf(s, t) == Len(s) <= Len(t) /\ \A i \in DOMAIN s : s[i] = t[i]

(* "SignedTreeHead is a signed commitment to the tree state."              *)
(* (internal/sth/types.go:3): the size is the number of leaves under the   *)
(* root.                                                                   *)
SthCommitsToTree == \A head \in treeHeads : head.treeSize = Len(head.rootHash)

(* Any two saved heads commit to logs of which one is a prefix of the      *)
(* other, and the tree that is served extends them all, so a consistency   *)
(* proof exists between any two of them, also across restarts.             *)
HeadsConsistent ==
    /\ \A a, b \in treeHeads : PrefixOf(a.rootHash, b.rootHash) \/ PrefixOf(b.rootHash, a.rootHash)
    /\ phase = "serving" => \A a \in treeHeads : PrefixOf(a.rootHash, tree)

(* proof.VerifyInclusion: the root recomputed from the leaf and the path   *)
(* is the signed one.                                                      *)
Verifies(leaf, receipt) ==
    /\ receipt.leafIndex < receipt.treeSize
    /\ [receipt.path EXCEPT ![receipt.leafIndex + 1] = leaf] = receipt.rootHash

(* The receipt of a 201 reply verifies for the entry that was submitted,   *)
(* and its tree size is the one of the head in the reply.                  *)
ReceiptsVerify == \A r \in created : r.receipt # Nil =>
                      Verifies(r.leaf, r.receipt) /\ r.receipt.treeSize = r.sth.treeSize

(* GET /v1/sth never goes back to a smaller tree, and neither does the     *)
(* persisted tree_state, also across restarts.                             *)
LatestNeverShrinks ==
    [][/\ latestSTH # Nil => latestSTH'.treeSize >= latestSTH.treeSize
       /\ treeState' >= treeState]_vars

(* The leaf column of atl_entries, in commit order, is the promised log.   *)
Promise == INSTANCE TransparencyLog
           WITH log <- [i \in DOMAIN entries |-> entries[i].leafHash],
                heads <- treeHeads,
                acked <- {r.leaf : r \in created}
PromiseKept == Promise!Spec
-----------------------------------------------------------------------------
(* A statement of the code's comments that a failure breaks.               *)

(* "AppendEntry inserts a new entry and returns its leaf index."           *)
(* (internal/store/entries.go:8): the leaf is at that index of the tree.   *)
LeafIndexLocatesLeaf ==
    \A r \in created : phase = "serving" =>
        r.leafIndex < Len(tree) /\ tree[r.leafIndex + 1] = r.leaf
=============================================================================
