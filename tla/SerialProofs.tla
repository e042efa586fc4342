---------------------------- MODULE SerialProofs ----------------------------
(***************************************************************************)
(* Theorems about LogServer when requests and beats do not overlap: SInv   *)
(* of SerialInv is inductive, the heads are those of one log, receipts     *)
(* verify, nothing goes back to a smaller tree, and the server implements  *)
(* TransparencyLog.  For any number of handlers, with or without the       *)
(* heartbeat, any crashes and any failure that the process is told about.  *)
(***************************************************************************)
EXTENDS SerialInv, LogServerProofs

-----------------------------------------------------------------------------
(* One at a time. *)

(* A handler that takes a step is alone, in a server that serves. *)
LEMMA HandlerAlone ==
    ASSUME IInv, OneAtATime, NEW h \in Handlers, Handle(h)
    PROVE  /\ phase = "serving" /\ hbPc = "wait" /\ UNCHANGED <<phase, cursor, hbVars>>
           /\ \A g \in Handlers \ {h} : pc[g] = "idle" /\ pc'[g] = "idle"
<1>1. pc[h] # "idle" /\ UNCHANGED <<phase, cursor, hbVars>>
  BY DEF Handle, DedupMiss, DedupConflict, DedupError, InsertBegin, InsertCommit, InsertError,
         InsertAckLost, TreeAppend, ComputeRoot, Sign, SaveHead, SaveHeadError, CompactState,
         SaveState, SaveStateError, Reply, Goto, InternalError, processVars
<1>2. phase = "serving" /\ hbPc = "wait" /\ \A g \in Handlers \ {h} : pc[g] = "idle"
  BY <1>1 DEF OneAtATime, IInv, QuietRebuild, TypeOK
<1>3. \A g \in Handlers \ {h} : pc'[g] = pc[g]
  BY OthersUntouched
<1> QED BY <1>1, <1>2, <1>3

(* The numbers that the rows are compared by. *)
LEMMA RowNumbers ==
    ASSUME TypeOK
    PROVE  /\ Len(entries) \in Nat /\ DOMAIN entries = 1..Len(entries) /\ lastIndex \in Nat
           /\ \A i \in DOMAIN entries : entries[i].leafIndex \in Nat /\ entries[i].leafHash \in Leaves
           /\ Len(tree) \in Nat /\ DOMAIN tree = 1..Len(tree)
<1>1. \A i \in DOMAIN entries : entries[i].leafIndex \in Nat /\ entries[i].leafHash \in Leaves
  BY RowTypes
<1>2. Len(entries) \in Nat /\ DOMAIN entries = 1..Len(entries) /\ Len(tree) \in Nat /\ DOMAIN tree = 1..Len(tree)
  BY DEF TypeOK
<1>3. lastIndex \in Nat
  BY MaxIndexAssumption DEF TypeOK
<1> QED BY <1>1, <1>2, <1>3
-----------------------------------------------------------------------------
(* RowsAscend. *)

LEMMA RowsKept ==
    ASSUME RowsAscend, UNCHANGED <<entries, lastIndex>>,
           \A g \in Handlers : pc'[g] = "commit" => pc[g] = "commit" /\ leafIndex'[g] = leafIndex[g]
    PROVE  RowsAscend'
BY DEF RowsAscend

(* The index that is drawn is larger than all before it. *)
LEMMA RowsAscendBegin ==
    ASSUME IInv, SInv, OneAtATime, NEW h \in Handlers, InsertBegin(h)
    PROVE  RowsAscend'
<1>1. \A g \in Handlers \ {h} : pc'[g] = "idle"
  BY HandlerAlone DEF Handle
<1>2. /\ lastIndex' = lastIndex + 1 /\ UNCHANGED entries
      /\ pc'[h] = "commit" /\ leafIndex'[h] = lastIndex + 1
  BY DEF InsertBegin, DrawIndex, Goto, IInv, TypeOK
<1>3. /\ Len(entries) \in Nat /\ DOMAIN entries = 1..Len(entries) /\ lastIndex \in Nat
      /\ \A i \in DOMAIN entries : entries[i].leafIndex \in Nat
  BY RowNumbers DEF IInv
<1> QED BY <1>1, <1>2, <1>3 DEF SInv, RowsAscend

(* The row that is committed has the largest index. *)
LEMMA RowsAscendCommit ==
    ASSUME IInv, SInv, OneAtATime, NEW h \in Handlers, InsertCommit(h)
    PROVE  RowsAscend'
<1>1. \A g \in Handlers : pc'[g] # "commit"
  BY HandlerAlone DEF Handle, InsertCommit, Goto, IInv, TypeOK
<1>2. leafIndex[h] \in 1..MaxIndex /\ body[h] \in Leaves /\ CommitRow(leafIndex[h], body[h]) /\ pc[h] = "commit"
  BY DEF InsertCommit, Goto, IInv, TypeOK, LocalsSet, Working
<1>3. /\ Len(entries') = Len(entries) + 1
      /\ DOMAIN entries' = DOMAIN entries \cup {Len(entries) + 1}
      /\ \A i \in DOMAIN entries : entries'[i] = entries[i] /\ i # Len(entries) + 1
      /\ entries'[Len(entries) + 1] = [leafIndex |-> leafIndex[h], leafHash |-> body[h]]
  BY <1>2, CommitRowEffect DEF IInv
<1>4. /\ Len(entries) \in Nat /\ DOMAIN entries = 1..Len(entries) /\ lastIndex \in Nat
      /\ \A i \in DOMAIN entries : entries[i].leafIndex \in Nat
  BY RowNumbers DEF IInv
<1>5. /\ leafIndex[h] = lastIndex /\ Len(entries) < lastIndex /\ lastIndex' = lastIndex
      /\ \A i \in DOMAIN entries : /\ i <= entries[i].leafIndex
                                   /\ entries[i].leafIndex + Len(entries) < lastIndex + i
                                   /\ entries[i].leafIndex < lastIndex
  <2>1. \A i \in DOMAIN entries : entries[i].leafIndex <= lastIndex /\ entries[i].leafIndex # leafIndex[h]
    BY <1>2 DEF IInv, IndexesDrawn
  <2> QED BY <1>2, <1>4, <2>1 DEF SInv, RowsAscend, CommitRow
<1>6. \A i, j \in DOMAIN entries : i < j => entries[i].leafIndex < entries[j].leafIndex
  BY DEF SInv, RowsAscend
<1> QED BY <1>1, <1>3, <1>4, <1>5, <1>6 DEF RowsAscend

LEMMA RowsAscendNext ==
    ASSUME IInv, SInv, OneAtATime, "insertAck" \notin Faults, [Next]_vars
    PROVE  RowsAscend'
<1> USE DEF storeVars, handlerVars, hbVars, clientVars, processVars
<1>1. CASE RebuildNext \/ RebuildDone \/ Crash \/ Beat \/ UNCHANGED vars
  <2>1. UNCHANGED <<entries, lastIndex>>
    BY <1>1 DEF RebuildNext, RebuildDone, Crash, Beat, BeatRoot, BeatSign, BeatSave, BeatError, BeatDone,
                SaveSTH, vars
  <2>2. UNCHANGED <<pc, leafIndex>> \/ \A g \in Handlers : pc'[g] = "idle"
    BY <1>1 DEF RebuildNext, RebuildDone, Crash, Each, Beat, BeatRoot, BeatSign, BeatSave, BeatError,
                BeatDone, vars
  <2> QED BY <2>1, <2>2, RowsKept DEF SInv
<1>2. ASSUME NEW h \in Handlers, Receive(h) \/ Handle(h), ~InsertBegin(h), ~InsertCommit(h)
      PROVE  RowsAscend'
  <2>1. UNCHANGED <<entries, lastIndex>>
    BY <1>2 DEF Handle, Receive, DedupMiss, DedupConflict, DedupError, InsertError, InsertAckLost, TreeAppend,
                ComputeRoot, Sign, SaveHead, SaveHeadError, CompactState, SaveState, SaveStateError,
                Reply, InternalError, SaveSTH, SaveTreeState
  <2>2. \A g \in Handlers : pc'[g] = "commit" => pc[g] = "commit" /\ leafIndex'[g] = leafIndex[g]
    BY <1>2 DEF Handle, Receive, DedupMiss, DedupConflict, DedupError, InsertError, InsertAckLost, TreeAppend,
                ComputeRoot, Sign, SaveHead, SaveHeadError, CompactState, SaveState, SaveStateError,
                Reply, Goto, InternalError, Return, IInv, TypeOK
  <2> QED BY <2>1, <2>2, RowsKept DEF SInv
<1> QED BY <1>1, <1>2, RowsAscendBegin, RowsAscendCommit DEF Next
-----------------------------------------------------------------------------
(* TreeInOrder. *)

LEMMA TreeKept ==
    ASSUME TreeInOrder, UNCHANGED <<entries, tree, phase, cursor>>,
           \A g \in Handlers : pc'[g] = "append" <=> pc[g] = "append",
           \A g \in Handlers : pc'[g] \in {"append", "root"} \cup Rooted =>
               /\ pc[g] \in {"append", "root"} \cup Rooted
               /\ leafIndex'[g] = leafIndex[g] /\ body'[g] = body[g]
    PROVE  TreeInOrder'
BY DEF TreeInOrder, OfRows, LastRowOf

(* The row that is committed is the one the tree lacks. *)
LEMMA TreeInOrderCommit ==
    ASSUME IInv, SInv, OneAtATime, NEW h \in Handlers, InsertCommit(h)
    PROVE  TreeInOrder'
<1>1. /\ phase = "serving" /\ phase' = "serving"
      /\ \A g \in Handlers \ {h} : pc[g] = "idle" /\ pc'[g] = "idle"
  BY HandlerAlone DEF Handle
<1>2. /\ leafIndex[h] \in 1..MaxIndex /\ body[h] \in Leaves /\ CommitRow(leafIndex[h], body[h])
      /\ pc[h] = "commit" /\ pc'[h] = "append" /\ UNCHANGED <<tree, leafIndex, body>>
  BY DEF InsertCommit, Goto, IInv, TypeOK, LocalsSet, Working
<1>3. /\ Len(entries') = Len(entries) + 1
      /\ DOMAIN entries' = DOMAIN entries \cup {Len(entries) + 1}
      /\ \A i \in DOMAIN entries : entries'[i] = entries[i] /\ i # Len(entries) + 1
      /\ entries'[Len(entries) + 1] = [leafIndex |-> leafIndex[h], leafHash |-> body[h]]
  BY <1>2, CommitRowEffect DEF IInv
<1>4. /\ Len(entries) \in Nat /\ DOMAIN entries = 1..Len(entries)
      /\ Len(tree) \in Nat /\ DOMAIN tree = 1..Len(tree)
  BY RowNumbers DEF IInv
<1>5. OfRows(tree) /\ Len(tree) = Len(entries)
  BY <1>1, <1>2 DEF SInv, TreeInOrder
<1>6. OfRows(tree)'
  BY <1>2, <1>3, <1>4, <1>5 DEF OfRows
<1>7. \A g \in Handlers : pc'[g] \in {"append", "root"} \cup Rooted => LastRowOf(g)'
  BY <1>1, <1>2, <1>3, <1>4 DEF LastRowOf, Rooted, Signed
<1> QED BY <1>1, <1>2, <1>3, <1>5, <1>6, <1>7 DEF TreeInOrder

(* The leaf that is appended is that of the last row. *)
LEMMA TreeInOrderAppend ==
    ASSUME IInv, SInv, OneAtATime, NEW h \in Handlers, TreeAppend(h)
    PROVE  TreeInOrder'
<1>1. /\ phase = "serving" /\ phase' = "serving"
      /\ \A g \in Handlers \ {h} : pc[g] = "idle" /\ pc'[g] = "idle"
  BY HandlerAlone DEF Handle
<1>2. /\ body[h] \in Leaves /\ tree' = Append(tree, body[h])
      /\ pc[h] = "append" /\ pc'[h] = "root" /\ UNCHANGED <<entries, leafIndex, body>>
  BY DEF TreeAppend, Goto, IInv, TypeOK, LocalsSet, Working, storeVars
<1>3. /\ Len(tree') = Len(tree) + 1
      /\ DOMAIN tree' = DOMAIN tree \cup {Len(tree) + 1}
      /\ \A i \in DOMAIN tree : tree'[i] = tree[i]
      /\ tree'[Len(tree) + 1] = body[h]
  BY <1>2, LeafsAppend DEF IInv, TypeOK
<1>4. OfRows(tree) /\ Len(entries) = Len(tree) + 1 /\ LastRowOf(h)
  BY <1>2 DEF SInv, TreeInOrder
<1>5. entries[Len(tree) + 1].leafHash = body[h]
  BY <1>4 DEF LastRowOf
<1>6. /\ Len(tree) \in Nat /\ DOMAIN tree = 1..Len(tree)
  BY RowNumbers DEF IInv
<1>7. OfRows(tree)'
  BY <1>2, <1>3, <1>4, <1>5, <1>6 DEF OfRows
<1>8. \A g \in Handlers : pc'[g] \in {"append", "root"} \cup Rooted => LastRowOf(g)'
  BY <1>1, <1>2, <1>4 DEF LastRowOf, Rooted, Signed
<1> QED BY <1>1, <1>2, <1>3, <1>4, <1>7, <1>8 DEF TreeInOrder

(* The row with the next index is the row committed next. *)
LEMMA RebuildReads ==
    ASSUME IInv, RebuildNext, OfRows(tree),
           cursor = IF tree = <<>> THEN 0 ELSE entries[Len(tree)].leafIndex,
           \A i, j \in DOMAIN entries : i < j => entries[i].leafIndex < entries[j].leafIndex
    PROVE  OfRows(tree)' /\ tree' # <<>> /\ cursor' = entries[Len(tree')].leafIndex /\ UNCHANGED entries
<1> USE DEF RebuildNext, storeVars
<1>1. PICK row \in Rows : IsNextRow(row, cursor) /\ tree' = Append(tree, row.leafHash) /\ cursor' = row.leafIndex
  OBVIOUS
<1>2. PICK k \in DOMAIN entries : row = entries[k]
  BY DEF Rows
<1> DEFINE n == Len(tree)
<1>3. /\ Len(entries) \in Nat /\ DOMAIN entries = 1..Len(entries)
      /\ \A i \in DOMAIN entries : entries[i].leafIndex \in Nat /\ entries[i].leafHash \in Leaves
      /\ n \in Nat /\ DOMAIN tree = 1..n
  BY RowNumbers DEF IInv
<1>4. /\ n <= Len(entries)
      /\ tree = <<>> <=> n = 0
      /\ \A i \in DOMAIN tree : tree[i] = entries[i].leafHash
  BY DEF OfRows, IInv, TypeOK
<1>5. \A i \in DOMAIN entries : 1 <= entries[i].leafIndex
  <2>1. \A i \in DOMAIN entries : entries[i].leafIndex \in Nat \ {0}
    BY RowTypes DEF IInv
  <2> QED BY <2>1
<1>6. k > n
  BY <1>1, <1>2, <1>3, <1>4 DEF IsNextRow
<1>7. n + 1 \in DOMAIN entries /\ entries[n + 1].leafIndex > cursor /\ entries[n + 1] \in Rows
  BY <1>2, <1>3, <1>4, <1>5, <1>6 DEF Rows
<1>8. k = n + 1
  <2>1. entries[k].leafIndex <= entries[n + 1].leafIndex
    BY <1>1, <1>2, <1>7 DEF IsNextRow
  <2> QED BY <1>2, <1>3, <1>6, <1>7, <2>1
<1>9. /\ tree \in Seq(Leaves) /\ row.leafHash \in Leaves
  BY <1>2, <1>3 DEF IInv, TypeOK
<1>10. /\ Len(tree') = n + 1 /\ tree' # <<>>
       /\ DOMAIN tree' = DOMAIN tree \cup {n + 1}
       /\ \A i \in DOMAIN tree : tree'[i] = tree[i]
       /\ tree'[n + 1] = row.leafHash
  BY <1>1, <1>9, LeafsAppend
<1>11. OfRows(tree)'
  BY <1>2, <1>3, <1>4, <1>7, <1>8, <1>10 DEF OfRows
<1> QED BY <1>1, <1>2, <1>8, <1>10, <1>11

LEMMA TreeInOrderRebuild == ASSUME IInv, SInv, RebuildNext PROVE TreeInOrder'
<1>1. /\ OfRows(tree) /\ phase = "rebuild"
      /\ cursor = IF tree = <<>> THEN 0 ELSE entries[Len(tree)].leafIndex
      /\ \A i, j \in DOMAIN entries : i < j => entries[i].leafIndex < entries[j].leafIndex
  BY DEF RebuildNext, SInv, TreeInOrder, RowsAscend
<1>2. OfRows(tree)' /\ tree' # <<>> /\ cursor' = entries[Len(tree')].leafIndex /\ UNCHANGED entries
  BY <1>1, RebuildReads
<1>3. phase' = "rebuild" /\ \A g \in Handlers : pc'[g] = "idle"
  BY <1>1 DEF RebuildNext, handlerVars, IInv, QuietRebuild
<1> QED BY <1>1, <1>2, <1>3 DEF TreeInOrder, Rooted, Signed

(* No row is ahead: the tree has them all. *)
LEMMA RebuildHasAll ==
    ASSUME IInv, OfRows(tree), \A i \in DOMAIN entries : entries[i].leafIndex <= cursor,
           cursor = IF tree = <<>> THEN 0 ELSE entries[Len(tree)].leafIndex,
           \A i, j \in DOMAIN entries : i < j => entries[i].leafIndex < entries[j].leafIndex
    PROVE  Len(tree) = Len(entries)
<1> DEFINE n == Len(tree)
<1>1. /\ Len(entries) \in Nat /\ DOMAIN entries = 1..Len(entries)
      /\ \A i \in DOMAIN entries : entries[i].leafIndex \in Nat \ {0}
      /\ n \in Nat /\ DOMAIN tree = 1..n
  BY RowNumbers, RowTypes DEF IInv
<1>2. /\ n <= Len(entries)
      /\ tree = <<>> <=> n = 0
  BY DEF OfRows, IInv, TypeOK
<1>3. ~ n < Len(entries)
  <2> SUFFICES ASSUME n < Len(entries) PROVE FALSE
    OBVIOUS
  <2>1. n + 1 \in DOMAIN entries /\ (tree # <<>> => n \in DOMAIN entries /\ n < n + 1)
    BY <1>1, <1>2
  <2>2. entries[n + 1].leafIndex \in Nat \ {0} /\ entries[n + 1].leafIndex <= cursor
    BY <1>1, <2>1
  <2> QED BY <1>1, <1>2, <2>1, <2>2
<1> QED
  <2>1. Len(entries) \in Nat /\ n \in Nat /\ n <= Len(entries)
    BY <1>1, <1>2
  <2> QED BY <1>3, <2>1

LEMMA TreeInOrderDone == ASSUME IInv, SInv, RebuildDone PROVE TreeInOrder'
<1>1. /\ OfRows(tree) /\ phase = "rebuild"
      /\ cursor = IF tree = <<>> THEN 0 ELSE entries[Len(tree)].leafIndex
      /\ \A i, j \in DOMAIN entries : i < j => entries[i].leafIndex < entries[j].leafIndex
      /\ \A i \in DOMAIN entries : entries[i].leafIndex <= cursor
  BY DEF RebuildDone, Rows, SInv, TreeInOrder, RowsAscend
<1>2. Len(tree) = Len(entries)
  BY <1>1, RebuildHasAll
<1>3. \A g \in Handlers : pc'[g] = "idle"
  BY DEF IInv, QuietRebuild, RebuildDone, handlerVars
<1>4. UNCHANGED <<entries, tree>> /\ phase' = "serving"
  BY DEF RebuildDone, storeVars
<1>5. OfRows(tree)' /\ Len(tree') = Len(entries')
  BY <1>1, <1>2, <1>4 DEF OfRows
<1> QED BY <1>3, <1>4, <1>5 DEF TreeInOrder, Rooted, Signed

LEMMA TreeInOrderNext ==
    ASSUME IInv, SInv, OneAtATime, "insertAck" \notin Faults, [Next]_vars
    PROVE  TreeInOrder'
<1> USE DEF storeVars, handlerVars, hbVars, clientVars, processVars
<1>1. CASE Beat \/ UNCHANGED vars
  BY <1>1, TreeKept DEF SInv, Beat, BeatRoot, BeatSign, BeatSave, BeatError, BeatDone, SaveSTH, vars
<1>2. CASE Crash
  <2>1. tree' = <<>> /\ cursor' = 0 /\ phase' = "rebuild" /\ UNCHANGED entries
    BY <1>2 DEF Crash
  <2>2. \A g \in Handlers : pc'[g] = "idle"
    BY <1>2 DEF Crash, Each
  <2>3. Len(entries) \in Nat
    BY RowNumbers DEF IInv
  <2> QED BY <2>1, <2>2, <2>3 DEF TreeInOrder, OfRows, Rooted, Signed
<1>3. ASSUME NEW h \in Handlers, Receive(h) \/ Handle(h), ~InsertCommit(h), ~TreeAppend(h)
      PROVE  TreeInOrder'
  <2>1. UNCHANGED <<entries, tree, phase, cursor>>
    BY <1>3 DEF Handle, Receive, DedupMiss, DedupConflict, DedupError, InsertBegin, DrawIndex, InsertError,
                InsertAckLost, ComputeRoot, Sign, SaveHead, SaveHeadError, CompactState, SaveState,
                SaveStateError, Reply, InternalError, SaveSTH, SaveTreeState
  <2>2. \A g \in Handlers : pc'[g] = "append" <=> pc[g] = "append"
    BY <1>3 DEF Handle, Receive, DedupMiss, DedupConflict, DedupError, InsertBegin, InsertError,
                InsertAckLost, ComputeRoot, Sign, SaveHead, SaveHeadError, CompactState, SaveState,
                SaveStateError, Reply, Goto, InternalError, Return, IInv, TypeOK
  <2>3. \A g \in Handlers : pc'[g] \in {"append", "root"} \cup Rooted =>
            /\ pc[g] \in {"append", "root"} \cup Rooted
            /\ leafIndex'[g] = leafIndex[g] /\ body'[g] = body[g]
    <3>1. pc'[h] \in {"append", "root"} \cup Rooted =>
             pc[h] \in {"append", "root"} \cup Rooted /\ UNCHANGED <<leafIndex, body>>
      BY <1>3 DEF Handle, Receive, DedupMiss, DedupConflict, DedupError, InsertBegin, InsertError,
                  InsertAckLost, ComputeRoot, Sign, SaveHead, SaveHeadError, CompactState, SaveState,
                  SaveStateError, Reply, Goto, InternalError, Return, IInv, TypeOK, Rooted, Signed
    <3> QED BY <1>3, <3>1, OthersUntouched
  <2> QED BY <2>1, <2>2, <2>3, TreeKept DEF SInv
<1> QED BY <1>1, <1>2, <1>3, TreeInOrderCommit, TreeInOrderAppend, TreeInOrderRebuild, TreeInOrderDone
        DEF Next
-----------------------------------------------------------------------------
(* LocalsCurrent. *)

LEMMA LocalsCurrentNext ==
    ASSUME IInv, SInv, OneAtATime, [Next]_vars
    PROVE  LocalsCurrent'
<1> USE DEF LocalsCurrent, TheHead, storeVars, handlerVars, hbVars, clientVars, processVars
<1>1. CASE RebuildNext \/ RebuildDone
  <2>1. (\A g \in Handlers : pc[g] = "idle") /\ hbPc = "wait"
    BY <1>1 DEF RebuildNext, RebuildDone, IInv, QuietRebuild
  <2> QED BY <1>1, <2>1 DEF RebuildNext, RebuildDone, Rooted, Signed
<1>2. CASE Crash
  BY <1>2 DEF Crash, Each, Rooted, Signed
<1>3. CASE Beat \/ UNCHANGED vars
  BY <1>3 DEF SInv, Beat, BeatRoot, BeatSign, BeatSave, BeatError, BeatDone, vars
<1>4. ASSUME NEW h \in Handlers, Receive(h) PROVE LocalsCurrent'
  BY <1>4 DEF SInv, Receive, Goto, IInv, TypeOK, Rooted, Signed
<1>5. ASSUME NEW h \in Handlers, Handle(h) PROVE LocalsCurrent'
  <2>1. /\ hbPc = "wait" /\ hbPc' = "wait"
        /\ \A g \in Handlers \ {h} : pc'[g] = "idle"
    BY <1>5, HandlerAlone
  <2>2. pc'[h] \in Rooted => rootHash'[h] = tree'
    BY <1>5 DEF Handle, DedupMiss, DedupConflict, DedupError, InsertBegin, InsertCommit, InsertError,
                InsertAckLost, TreeAppend, ComputeRoot, Sign, SaveHead, SaveHeadError, CompactState,
                SaveState, SaveStateError, Reply, Goto, InternalError, Return, SInv, IInv, TypeOK,
                Rooted, Signed
  <2>3. pc'[h] \in Signed => sth'[h] = TheHead'
    BY <1>5 DEF Handle, DedupMiss, DedupConflict, DedupError, InsertBegin, InsertCommit, InsertError,
                InsertAckLost, TreeAppend, ComputeRoot, Sign, SaveHead, SaveHeadError, CompactState,
                SaveState, SaveStateError, Reply, Goto, InternalError, Return, SInv, IInv, TypeOK,
                Rooted, Signed
  <2>4. pc'[h] = "state" => compact'[h] = Len(tree')
    BY <1>5 DEF Handle, DedupMiss, DedupConflict, DedupError, InsertBegin, InsertCommit, InsertError,
                InsertAckLost, TreeAppend, ComputeRoot, Sign, SaveHead, SaveHeadError, CompactState,
                SaveState, SaveStateError, Reply, Goto, InternalError, Return, SInv, IInv, TypeOK
  <2> QED BY <2>1, <2>2, <2>3, <2>4 DEF Rooted, Signed
<1> QED BY <1>1, <1>2, <1>3, <1>4, <1>5 DEF Next
-----------------------------------------------------------------------------
(* HeadsInOrder. *)

(* Heads stay in order while the rows grow and the tree covers them. *)
LEMMA HeadsKept ==
    ASSUME TypeOK, HeadsInOrder, UNCHANGED <<treeHeads, latestSTH, treeState>>,
           Len(entries') \in Nat, Len(tree') \in Nat, Len(entries) <= Len(entries'),
           \A i \in DOMAIN entries : entries'[i] = entries[i],
           phase' = "serving" => \/ phase = "serving" /\ Len(tree) <= Len(tree')
                                 \/ Len(tree') = Len(entries')
    PROVE  HeadsInOrder'
<1>1. Len(entries) \in Nat /\ DOMAIN entries = 1..Len(entries) /\ Len(tree) \in Nat
  BY RowNumbers
<1>2. \A head \in treeHeads : /\ head.treeSize \in Nat /\ Len(head.rootHash) \in Nat
                              /\ DOMAIN head.rootHash = 1..Len(head.rootHash)
  BY DEF TypeOK, STH
<1>3. treeState \in Nat
  BY DEF TypeOK
<1>4. \A size \in Nat : Served(size) => Served(size)'
  BY <1>1 DEF Served
<1>5. \A head \in treeHeads : OfRows(head.rootHash) => OfRows(head.rootHash)'
  BY <1>1, <1>2 DEF OfRows
<1> QED BY <1>2, <1>3, <1>4, <1>5 DEF HeadsInOrder

(* The head of a tree that holds every row may be saved, and its size too. *)
LEMMA HeadsSaved ==
    ASSUME TypeOK, HeadsInOrder, OfRows(tree), UNCHANGED <<tree, phase>>,
           \/ SaveSTH(TheHead) \/ SaveTreeState(Len(tree))
    PROVE  HeadsInOrder'
<1>1. Len(entries) \in Nat /\ DOMAIN entries = 1..Len(entries) /\ Len(tree) \in Nat
  BY RowNumbers
<1>2. Served(Len(tree))
  BY <1>1 DEF Served, OfRows
<1>3. UNCHANGED entries
  BY DEF SaveSTH, SaveTreeState
<1>4. \A s : (OfRows(s)' <=> OfRows(s)) /\ (Served(s)' <=> Served(s))
  BY <1>3 DEF OfRows, Served
<1>5. CASE SaveTreeState(Len(tree))
  BY <1>2, <1>4, <1>5 DEF HeadsInOrder, SaveTreeState
<1>6. CASE SaveSTH(TheHead)
  <2>1. \A head : head = TheHead => /\ head.treeSize = Len(head.rootHash)
                                    /\ OfRows(head.rootHash) /\ Served(head.treeSize)
    BY <1>2 DEF TheHead
  <2>2. treeHeads' = treeHeads \cup {TheHead} /\ latestSTH' = TheHead /\ UNCHANGED treeState
    BY <1>6 DEF SaveSTH
  <2>3. \A head \in treeHeads' : /\ head.treeSize = Len(head.rootHash)
                                 /\ OfRows(head.rootHash) /\ Served(head.treeSize)
    BY <2>1, <2>2 DEF HeadsInOrder
  <2> QED BY <1>4, <2>2, <2>3 DEF HeadsInOrder
<1> QED BY <1>5, <1>6

LEMMA HeadsInOrderNext ==
    ASSUME IInv, SInv, OneAtATime, "insertAck" \notin Faults, [Next]_vars, TypeOK', TreeInOrder'
    PROVE  HeadsInOrder'
<1> USE DEF storeVars, handlerVars, hbVars, clientVars, processVars
<1>1. Len(entries) \in Nat /\ Len(tree) \in Nat /\ Len(entries') \in Nat /\ Len(tree') \in Nat
  BY DEF IInv, TypeOK
<1>2. /\ TypeOK /\ HeadsInOrder
      /\ OfRows(tree)
  BY DEF IInv, SInv, TreeInOrder
<1>3. CASE UNCHANGED <<entries, tree, phase, treeHeads, latestSTH, treeState>>
  BY <1>1, <1>2, <1>3, HeadsKept
<1>4. CASE RebuildNext \/ Crash
  <2>1. phase' # "serving" /\ UNCHANGED <<entries, treeHeads, latestSTH, treeState>>
    BY <1>4 DEF RebuildNext, Crash
  <2>2. Len(entries) <= Len(entries') /\ \A i \in DOMAIN entries : entries'[i] = entries[i]
    BY <1>1, <2>1
  <2> QED BY <1>1, <1>2, <2>1, <2>2, HeadsKept
<1>5. CASE RebuildDone
  <2>1. Len(tree') = Len(entries')
    BY <1>5 DEF RebuildDone, TreeInOrder, IInv, QuietRebuild
  <2> QED BY <1>1, <1>2, <1>5, <2>1, HeadsKept DEF RebuildDone
<1>6. CASE Beat
  <2>1. hbPc = "save" => hbSTH = TheHead
    BY DEF SInv, LocalsCurrent
  <2>2. CASE SaveSTH(TheHead) /\ UNCHANGED <<tree, phase>>
    BY <1>2, <2>2, HeadsSaved
  <2> QED BY <1>3, <1>6, <2>1, <2>2 DEF Beat, BeatRoot, BeatSign, BeatSave, BeatError, BeatDone
<1>7. ASSUME NEW h \in Handlers, InsertCommit(h) PROVE HeadsInOrder'
  <2>1. leafIndex[h] \in 1..MaxIndex /\ body[h] \in Leaves /\ CommitRow(leafIndex[h], body[h])
    BY <1>7 DEF InsertCommit, Goto, IInv, TypeOK, LocalsSet, Working
  <2>2. Len(entries') = Len(entries) + 1 /\ \A i \in DOMAIN entries : entries'[i] = entries[i]
    BY <2>1, CommitRowEffect DEF IInv
  <2>3. UNCHANGED <<tree, phase, treeHeads, latestSTH, treeState>>
    BY <1>7, <2>1 DEF InsertCommit, CommitRow
  <2>4. Len(tree) <= Len(tree') /\ Len(entries) <= Len(entries') /\ (phase' = "serving" => phase = "serving")
    BY <1>1, <2>2, <2>3
  <2> QED BY <1>1, <1>2, <2>2, <2>3, <2>4, HeadsKept
<1>8. ASSUME NEW h \in Handlers, TreeAppend(h) PROVE HeadsInOrder'
  <2>1. Len(tree') = Len(tree) + 1
    BY <1>8, LeafsAppend DEF TreeAppend, Goto, IInv, TypeOK, LocalsSet, Working
  <2>2. UNCHANGED <<entries, phase, treeHeads, latestSTH, treeState>>
    BY <1>8 DEF TreeAppend
  <2>3. Len(tree) <= Len(tree') /\ Len(entries) <= Len(entries') /\ (phase' = "serving" => phase = "serving")
    BY <1>1, <2>1, <2>2
  <2> QED BY <1>1, <1>2, <2>2, <2>3, HeadsKept
<1>9. ASSUME NEW h \in Handlers, SaveHead(h) \/ SaveHeadError(h) PROVE HeadsInOrder'
  <2>1. sth[h] = TheHead /\ UNCHANGED <<tree, phase>>
    BY <1>9 DEF SaveHead, SaveHeadError, Goto, InternalError, SInv, LocalsCurrent, Signed
  <2>2. SaveSTH(TheHead) \/ UNCHANGED storeVars
    BY <1>9, <2>1 DEF SaveHead, SaveHeadError
  <2> QED BY <1>2, <1>3, <2>1, <2>2, HeadsSaved
<1>10. ASSUME NEW h \in Handlers, SaveState(h) \/ SaveStateError(h) PROVE HeadsInOrder'
  <2>1. compact[h] = Len(tree) /\ UNCHANGED <<tree, phase>>
    BY <1>10 DEF SaveState, SaveStateError, Goto, InternalError, SInv, LocalsCurrent
  <2>2. SaveTreeState(Len(tree)) \/ UNCHANGED storeVars
    BY <1>10, <2>1 DEF SaveState, SaveStateError
  <2> QED BY <1>2, <1>3, <2>1, <2>2, HeadsSaved
<1>11. ASSUME NEW h \in Handlers,
              Receive(h) \/ DedupMiss(h) \/ DedupConflict(h) \/ DedupError(h) \/ InsertBegin(h)
                \/ InsertError(h) \/ ComputeRoot(h) \/ Sign(h) \/ CompactState(h) \/ Reply(h)
       PROVE  HeadsInOrder'
  BY <1>3, <1>11 DEF Receive, DedupMiss, DedupConflict, DedupError, InsertBegin, DrawIndex, InsertError,
                     ComputeRoot, Sign, CompactState, Reply, InternalError
<1>12. CASE UNCHANGED vars
  BY <1>3, <1>12 DEF vars
<1> QED BY <1>4, <1>5, <1>6, <1>7, <1>8, <1>9, <1>10, <1>11, <1>12 DEF Next, Handle, InsertAckLost
-----------------------------------------------------------------------------
(* ReceiptsVerify. *)

(* The leaf of a receipt is the last of the tree, or there is no receipt:  *)
(* the index of the last row is its place or beyond the tree.              *)
LEMMA ReceiptOfReply ==
    ASSUME IInv, SInv, OneAtATime, NEW h \in Handlers, Reply(h), Receipt(h) # Nil
    PROVE  Verifies(body[h], Receipt(h)) /\ Receipt(h).treeSize = sth[h].treeSize
<1> DEFINE n == Len(tree)
<1>1. /\ phase = "serving" /\ pc[h] = "reply"
      /\ \A g \in Handlers \ {h} : pc[g] = "idle"
  BY HandlerAlone DEF Handle, Reply
<1>2. rootHash[h] = tree /\ sth[h].treeSize = n
  BY <1>1 DEF SInv, LocalsCurrent, Rooted, Signed, TheHead
<1>3. OfRows(tree) /\ n = Len(entries) /\ LastRowOf(h)
  BY <1>1 DEF SInv, TreeInOrder, Rooted, Signed
<1>4. /\ Len(entries) \in Nat /\ DOMAIN entries = 1..Len(entries)
      /\ n \in Nat /\ DOMAIN tree = 1..n
  BY RowNumbers DEF IInv
<1>5. n \in DOMAIN entries /\ entries[n].leafIndex = leafIndex[h] /\ entries[n].leafHash = body[h]
  <2>1. n # 0
    BY <1>3, <1>4 DEF LastRowOf, IInv, TypeOK
  <2>2. n \in DOMAIN entries
    BY <1>3, <1>4, <2>1
  <2> QED BY <1>3, <2>2 DEF LastRowOf
<1>6. n <= leafIndex[h] /\ leafIndex[h] \in Nat
  <2>1. \A i \in DOMAIN entries : i <= entries[i].leafIndex
    BY DEF SInv, RowsAscend
  <2>2. leafIndex[h] \in Nat
    BY MaxIndexAssumption DEF IInv, TypeOK
  <2> QED BY ONLY <1>5, <2>1, <2>2
<1>7. tree[n] = body[h]
  BY <1>3, <1>4, <1>5 DEF OfRows
<1>8. /\ leafIndex[h] - 1 < n
      /\ Receipt(h) = [leafIndex |-> leafIndex[h] - 1, treeSize |-> n, rootHash |-> tree, path |-> tree]
  BY <1>2 DEF Receipt
<1>9. leafIndex[h] - 1 + 1 = n
  BY <1>4, <1>6, <1>8
<1>10. [tree EXCEPT ![n] = body[h]] = tree
  <2>1. tree \in Seq(Leaves)
    BY DEF IInv, TypeOK
  <2> QED BY <1>7, <2>1
<1> QED BY <1>2, <1>8, <1>9, <1>10 DEF Verifies

LEMMA ReceiptsVerifyNext ==
    ASSUME IInv, SInv, OneAtATime, [Next]_vars
    PROVE  ReceiptsVerify'
<1> USE DEF storeVars, handlerVars, hbVars, clientVars, processVars
<1>1. ASSUME NEW h \in Handlers, Reply(h) PROVE ReceiptsVerify'
  <2>1. \A r \in created' \ created : /\ r.leaf = body[h] /\ r.receipt = Receipt(h) /\ r.sth = sth[h]
    BY <1>1 DEF Reply
  <2> QED BY <1>1, <2>1, ReceiptOfReply DEF SInv, ReceiptsVerify
<1>2. CASE UNCHANGED created
  BY <1>2 DEF SInv, ReceiptsVerify
<1>3. ASSUME NEW h \in Handlers, Receive(h) \/ Handle(h), ~Reply(h) PROVE UNCHANGED created
  BY <1>3 DEF Handle, Receive, DedupMiss, DedupConflict, DedupError, InsertBegin, InsertCommit, InsertError,
              InsertAckLost, TreeAppend, ComputeRoot, Sign, SaveHead, SaveHeadError, CompactState,
              SaveState, SaveStateError, InternalError
<1>4. CASE RebuildNext \/ RebuildDone \/ Crash \/ Beat \/ UNCHANGED vars
  BY <1>2, <1>4 DEF RebuildNext, RebuildDone, Crash, Beat, BeatRoot, BeatSign, BeatSave, BeatError,
                    BeatDone, vars
<1> QED BY <1>1, <1>2, <1>3, <1>4 DEF Next
-----------------------------------------------------------------------------
(* The invariant. *)

LEMMA SInvInit == Init => SInv /\ OneAtATime
<1> SUFFICES ASSUME Init PROVE SInv /\ OneAtATime
  OBVIOUS
<1>1. /\ entries = <<>> /\ lastIndex = 0 /\ treeHeads = {} /\ latestSTH = Nil /\ treeState = 0
      /\ phase = "rebuild" /\ cursor = 0 /\ tree = <<>> /\ hbPc = "wait" /\ created = {}
      /\ \A h \in Handlers : pc[h] = "idle"
  BY DEF Init, StoreInit, Each
<1>2. RowsAscend /\ TreeInOrder
  BY <1>1 DEF RowsAscend, TreeInOrder, OfRows, Rooted, Signed
<1>3. LocalsCurrent /\ HeadsInOrder /\ ReceiptsVerify /\ OneAtATime
  BY <1>1 DEF LocalsCurrent, HeadsInOrder, Served, ReceiptsVerify, OneAtATime, Rooted, Signed
<1> QED BY <1>2, <1>3 DEF SInv

LEMMA SInvNext ==
    ASSUME IInv, SInv, OneAtATime, "insertAck" \notin Faults, [Next]_vars
    PROVE  SInv'
<1>1. TypeOK'
  BY NextInv DEF IInv
<1> QED BY <1>1, RowsAscendNext, TreeInOrderNext, LocalsCurrentNext, HeadsInOrderNext, ReceiptsVerifyNext
        DEF SInv

(* A server with one handler and no heartbeat does one thing at a time. *)
LEMMA AloneIsSerial ==
    ASSUME \A g, h \in Handlers : g = h, ~Heartbeat
    PROVE  Spec => SerialSpec
<1> DEFINE Waits == hbPc = "wait"
<1>1. Init => Waits
  BY DEF Init
<1>2. Waits /\ [Next]_vars => Waits'
  BY DEF Next, vars, hbVars, RebuildNext, RebuildDone, Receive, Handle, DedupMiss, DedupConflict, DedupError,
         InsertBegin, InsertCommit, InsertError, InsertAckLost, TreeAppend, ComputeRoot, Sign,
         SaveHead, SaveHeadError, CompactState, SaveState, SaveStateError, Reply, InternalError,
         Beat, BeatRoot, BeatSign, BeatSave, BeatError, BeatDone, Crash
<1>3. Waits' /\ [Next]_vars => [Next /\ OneAtATime']_vars
  BY DEF OneAtATime
<1> HIDE DEF Waits
<1>4. Init /\ [][Next]_vars => []Waits
  BY <1>1, <1>2, PTL
<1>5. []Waits /\ [][Next]_vars => [][Next /\ OneAtATime']_vars
  BY <1>3, PTL
<1> QED BY <1>4, <1>5, PTL DEF Spec, SerialSpec

(* SInv holds while requests and beats do not overlap. *)
THEOREM SerialInvariance ==
    ASSUME "insertAck" \notin Faults
    PROVE  SerialSpec => [](IInv /\ SInv /\ OneAtATime)
<1>1. Init => IInv /\ SInv /\ OneAtATime
  BY InitInv, SInvInit
<1>2. IInv /\ SInv /\ OneAtATime /\ [Next /\ OneAtATime']_vars => (IInv /\ SInv /\ OneAtATime)'
  <2> SUFFICES ASSUME IInv, SInv, OneAtATime, [Next /\ OneAtATime']_vars
               PROVE  (IInv /\ SInv /\ OneAtATime)'
    OBVIOUS
  <2>1. [Next]_vars
    OBVIOUS
  <2>2. OneAtATime'
    BY DEF OneAtATime, vars, handlerVars, hbVars
  <2> QED BY <2>1, <2>2, NextInv, SInvNext
<1> QED BY <1>1, <1>2, PTL DEF SerialSpec

(* Every signed size is that of its root (sth/types.go:3), for requests and *)
(* beats that do not overlap.                                              *)
THEOREM SizesAreOfRoots ==
    ASSUME "insertAck" \notin Faults
    PROVE  SerialSpec => []SthCommitsToTree
<1>1. SInv => SthCommitsToTree
  BY DEF SInv, HeadsInOrder, SthCommitsToTree
<1> QED BY <1>1, SerialInvariance, PTL

(* Of two sequences of the first rows the shorter is a prefix. *)
LEMMA PrefixOfRows ==
    ASSUME NEW s \in Seq(Leaves), NEW t \in Seq(Leaves), OfRows(s), OfRows(t), Len(s) <= Len(t)
    PROVE  PrefixOf(s, t)
BY DEF OfRows, PrefixOf

(* All heads ever signed are of one log, which the served tree extends,    *)
(* over any number of restarts (handlers.go:84-97, main.go:79-90).         *)
THEOREM HeadsAreOfOneLog ==
    ASSUME "insertAck" \notin Faults
    PROVE  SerialSpec => []HeadsConsistent
<1>1. ASSUME IInv, SInv PROVE HeadsConsistent
  <2>1. \A head \in treeHeads : head.rootHash \in Seq(Leaves) /\ Len(head.rootHash) \in Nat
    BY <1>1 DEF IInv, TypeOK, STH
  <2>2. \A head \in treeHeads : /\ OfRows(head.rootHash)
                                /\ phase = "serving" => Len(head.rootHash) <= Len(tree)
    BY <1>1 DEF SInv, HeadsInOrder, Served
  <2>3. tree \in Seq(Leaves) /\ OfRows(tree)
    BY <1>1 DEF IInv, TypeOK, SInv, TreeInOrder
  <2>4. ASSUME NEW a \in treeHeads, phase = "serving" PROVE PrefixOf(a.rootHash, tree)
    BY <2>1, <2>2, <2>3, <2>4, PrefixOfRows
  <2>5. ASSUME NEW a \in treeHeads, NEW b \in treeHeads
        PROVE  PrefixOf(a.rootHash, b.rootHash) \/ PrefixOf(b.rootHash, a.rootHash)
    <3>1. Len(a.rootHash) <= Len(b.rootHash) \/ Len(b.rootHash) <= Len(a.rootHash)
      BY <2>1
    <3> QED BY <2>1, <2>2, <3>1, PrefixOfRows
  <2> QED BY <2>4, <2>5 DEF HeadsConsistent
<1> QED BY <1>1, SerialInvariance, PTL

(* A receipt that a client was given verifies for its entry, whatever gaps *)
(* the sequence has (handlers.go:109-128).                                 *)
THEOREM ReceiptsAlwaysVerify ==
    ASSUME "insertAck" \notin Faults
    PROVE  SerialSpec => []ReceiptsVerify
<1>1. SInv => ReceiptsVerify
  BY DEF SInv
<1> QED BY <1>1, SerialInvariance, PTL
-----------------------------------------------------------------------------
(* What a step writes. *)

(* A step leaves the tables as they are but for an index that is drawn, or *)
(* it commits a row, or saves the head or the size of the served tree.     *)
LEMMA StoreSteps ==
    ASSUME IInv, SInv, OneAtATime, "insertAck" \notin Faults, [Next]_vars
    PROVE  \/ UNCHANGED <<entries, treeHeads, latestSTH, treeState>>
           \/ \E h \in Handlers : InsertCommit(h)
           \/ phase = "serving" /\ SaveSTH(TheHead) /\ UNCHANGED created
           \/ phase = "serving" /\ SaveTreeState(Len(tree)) /\ UNCHANGED created
<1> USE DEF storeVars, handlerVars, hbVars, clientVars, processVars
<1>1. CASE RebuildNext \/ RebuildDone \/ Crash \/ UNCHANGED vars
  BY <1>1 DEF RebuildNext, RebuildDone, Crash, vars
<1>2. CASE Beat
  <2>1. hbPc = "save" => hbSTH = TheHead /\ phase = "serving"
    BY DEF SInv, LocalsCurrent, IInv, QuietRebuild, TypeOK
  <2> QED BY <1>2, <2>1 DEF Beat, BeatRoot, BeatSign, BeatSave, BeatError, BeatDone
<1>3. ASSUME NEW h \in Handlers, SaveHead(h) \/ SaveHeadError(h)
      PROVE  phase = "serving" /\ UNCHANGED created /\ (SaveSTH(TheHead) \/ UNCHANGED storeVars)
  <2>1. phase = "serving"
    BY <1>3, HandlerAlone DEF Handle
  <2>2. sth[h] = TheHead
    BY <1>3 DEF SaveHead, SaveHeadError, Goto, InternalError, SInv, LocalsCurrent, Signed
  <2> QED BY <1>3, <2>1, <2>2 DEF SaveHead, SaveHeadError, InternalError
<1>4. ASSUME NEW h \in Handlers, SaveState(h) \/ SaveStateError(h)
      PROVE  phase = "serving" /\ UNCHANGED created /\ (SaveTreeState(Len(tree)) \/ UNCHANGED storeVars)
  <2>1. phase = "serving"
    BY <1>4, HandlerAlone DEF Handle
  <2>2. compact[h] = Len(tree)
    BY <1>4 DEF SaveState, SaveStateError, Goto, InternalError, SInv, LocalsCurrent
  <2> QED BY <1>4, <2>1, <2>2 DEF SaveState, SaveStateError, InternalError
<1>5. ASSUME NEW h \in Handlers,
             Receive(h) \/ DedupMiss(h) \/ DedupConflict(h) \/ DedupError(h) \/ InsertBegin(h)
               \/ InsertError(h) \/ TreeAppend(h) \/ ComputeRoot(h) \/ Sign(h) \/ CompactState(h) \/ Reply(h)
      PROVE  UNCHANGED <<entries, treeHeads, latestSTH, treeState>>
  BY <1>5 DEF Receive, DedupMiss, DedupConflict, DedupError, InsertBegin, DrawIndex, InsertError,
              TreeAppend, ComputeRoot, Sign, CompactState, Reply, InternalError
<1> QED BY <1>1, <1>2, <1>3, <1>4, <1>5 DEF Next, Handle, InsertAckLost

(* Every head that was ever saved is of a tree that is not larger than the *)
(* one whose head or size is saved now.                                    *)
LEMMA SizesGrow ==
    ASSUME IInv, SInv, OneAtATime, "insertAck" \notin Faults, [Next]_vars
    PROVE  /\ latestSTH # Nil => latestSTH'.treeSize >= latestSTH.treeSize
           /\ treeState' >= treeState
           /\ \/ UNCHANGED latestSTH
              \/ \A head \in treeHeads : head.treeSize <= latestSTH'.treeSize
<1>1. treeState \in Nat /\ Len(tree) \in Nat /\ \A head \in treeHeads : head.treeSize \in Nat
  BY DEF IInv, TypeOK, STH
<1>2. latestSTH # Nil => latestSTH \in treeHeads
  BY DEF SInv, HeadsInOrder
<1>3. phase = "serving" => /\ treeState <= Len(tree)
                           /\ \A head \in treeHeads : head.treeSize <= Len(tree)
  BY DEF SInv, HeadsInOrder, Served
<1>4. CASE UNCHANGED <<latestSTH, treeState>>
  BY <1>1, <1>2, <1>4
<1>5. CASE phase = "serving" /\ SaveSTH(TheHead)
  <2>1. latestSTH' = TheHead /\ UNCHANGED treeState
    BY <1>5 DEF SaveSTH
  <2>2. latestSTH'.treeSize = Len(tree)
    BY <2>1 DEF TheHead
  <2> QED BY <1>1, <1>2, <1>3, <1>5, <2>1, <2>2
<1>6. CASE phase = "serving" /\ SaveTreeState(Len(tree))
  <2>1. treeState' = Len(tree) /\ UNCHANGED latestSTH
    BY <1>6 DEF SaveTreeState
  <2> QED BY <1>1, <1>2, <1>3, <1>6, <2>1
<1>7. \A h \in Handlers : InsertCommit(h) => UNCHANGED <<latestSTH, treeState>>
  BY DEF InsertCommit, CommitRow
<1> QED BY <1>4, <1>5, <1>6, <1>7, StoreSteps

(* GET /v1/sth and tree_state never go back to a smaller tree, across      *)
(* restarts and after failures too (handlers.go:94-107, main.go:79-90).    *)
THEOREM SizesOnlyGrow ==
    ASSUME "insertAck" \notin Faults
    PROVE  SerialSpec => LatestNeverShrinks
<1> DEFINE Grows == /\ latestSTH # Nil => latestSTH'.treeSize >= latestSTH.treeSize
                    /\ treeState' >= treeState
<1>1. IInv /\ SInv /\ OneAtATime /\ [Next /\ OneAtATime']_vars => [Grows]_vars
  BY SizesGrow
<1> HIDE DEF Grows
<1>2. SerialSpec => [][Grows]_vars
  BY <1>1, SerialInvariance, PTL DEF SerialSpec
<1> QED BY <1>2 DEF LatestNeverShrinks, Grows
-----------------------------------------------------------------------------
(* The server implements TransparencyLog. *)

(* The leaf column. *)
Log == [i \in DOMAIN entries |-> entries[i].leafHash]

LEMMA LogOfRows ==
    ASSUME TypeOK
    PROVE  /\ Log \in Seq(Leaves) /\ Len(Log) = Len(entries) /\ Len(entries) \in Nat
           /\ DOMAIN Log = 1..Len(entries) /\ DOMAIN entries = 1..Len(entries)
<1>1. \A i \in DOMAIN entries : entries[i].leafHash \in Leaves
  BY RowTypes
<1>2. Len(entries) \in Nat /\ DOMAIN entries = 1..Len(entries)
  BY DEF TypeOK
<1> QED BY <1>1, <1>2 DEF Log

(* The served tree is a prefix of the log. *)
LEMMA TreeIsPrefix ==
    ASSUME TypeOK, OfRows(tree)
    PROVE  Len(tree) \in 0..Len(Log) /\ SubSeq(Log, 1, Len(tree)) = tree
<1>1. tree \in Seq(Leaves) /\ Len(tree) \in Nat /\ DOMAIN tree = 1..Len(tree)
  BY DEF TypeOK
<1>2. Len(tree) <= Len(Log) /\ \A i \in 1..Len(tree) : tree[i] = Log[i]
  BY <1>1, LogOfRows DEF OfRows, Log
<1>3. /\ SubSeq(Log, 1, Len(tree)) \in Seq(Leaves)
      /\ Len(SubSeq(Log, 1, Len(tree))) = Len(tree)
      /\ \A i \in 1..Len(tree) : SubSeq(Log, 1, Len(tree))[i] = Log[i]
  BY <1>1, <1>2, LogOfRows
<1> QED BY <1>1, <1>2, <1>3, LogOfRows

(* A commit adds one leaf at the end of the log. *)
LEMMA CommitAdds ==
    ASSUME IInv, NEW h \in Handlers, InsertCommit(h)
    PROVE  Promise!Add
<1>1. /\ leafIndex[h] \in 1..MaxIndex /\ body[h] \in Leaves /\ CommitRow(leafIndex[h], body[h])
      /\ UNCHANGED created
  BY DEF InsertCommit, Goto, IInv, TypeOK, LocalsSet, Working, clientVars
<1>2. /\ Len(entries') = Len(entries) + 1
      /\ DOMAIN entries' = DOMAIN entries \cup {Len(entries) + 1}
      /\ \A i \in DOMAIN entries : entries'[i] = entries[i] /\ i # Len(entries) + 1
      /\ entries'[Len(entries) + 1] = [leafIndex |-> leafIndex[h], leafHash |-> body[h]]
  BY <1>1, CommitRowEffect DEF IInv
<1>3. TypeOK /\ TypeOK'
  BY NextInv DEF IInv, Next, Handle
<1>4. /\ Log \in Seq(Leaves) /\ Len(Log) = Len(entries) /\ DOMAIN Log = DOMAIN entries
      /\ Len(entries) \in Nat /\ DOMAIN entries = 1..Len(entries)
  BY <1>3, LogOfRows
<1>5. /\ Log' \in Seq(Leaves) /\ Len(Log') = Len(entries) + 1
      /\ \A i \in DOMAIN entries : Log'[i] = Log[i]
      /\ Log'[Len(entries) + 1] = body[h]
  <2>1. Log' = [i \in DOMAIN entries' |-> entries'[i].leafHash]
    BY DEF Log
  <2>2. \A i \in DOMAIN entries' : entries'[i].leafHash = IF i = Len(entries) + 1 THEN body[h] ELSE Log[i]
    BY <1>2 DEF Log
  <2>3. Len(entries) + 1 \in DOMAIN entries' /\ \A i \in DOMAIN entries : i \in DOMAIN entries' /\ i # Len(entries) + 1
    BY <1>2
  <2>4. DOMAIN entries' = 1..(Len(entries) + 1)
    BY <1>2, <1>4
  <2>5. \A i \in DOMAIN entries' : Log'[i] = IF i = Len(entries) + 1 THEN body[h] ELSE Log[i]
    BY <2>1, <2>2
  <2>6. \A i \in DOMAIN entries : Log'[i] = Log[i]
    BY <2>3, <2>5
  <2>7. Log'[Len(entries) + 1] = body[h]
    BY <2>3, <2>5
  <2>8. Log' \in Seq(Leaves) /\ Len(Log') = Len(entries) + 1
    <3>1. \A i \in DOMAIN entries : Log[i] \in Leaves
      BY <1>4
    <3>2. \A i \in DOMAIN entries' : entries'[i].leafHash \in Leaves
      BY <1>1, <2>2, <2>4, <3>1, <1>4
    <3> QED BY <1>4, <2>1, <2>4, <3>2
  <2> QED BY <2>6, <2>7, <2>8
<1>6. Log' = Append(Log, body[h])
  BY <1>1, <1>4, <1>5
<1>7. \A i \in 1..Len(Log) : Log[i] # body[h]
  BY <1>1, <1>4 DEF CommitRow, LeafHashExists, Committed, Rows, Log
<1>8. UNCHANGED <<treeHeads, {r.leaf : r \in created}>>
  BY <1>1 DEF CommitRow
<1> QED BY <1>1, <1>6, <1>7, <1>8 DEF Promise!Add, Log

(* A head that is saved is published, of the prefix that the tree is. *)
LEMMA SavePublishes ==
    ASSUME TypeOK, OfRows(tree), SaveSTH(TheHead), UNCHANGED created
    PROVE  Promise!Publish
<1>1. /\ treeHeads' = treeHeads \cup {[treeSize |-> Len(tree), rootHash |-> SubSeq(Log, 1, Len(tree))]}
      /\ UNCHANGED entries
  BY TreeIsPrefix DEF SaveSTH, TheHead
<1>2. UNCHANGED <<Log, {r.leaf : r \in created}>>
  BY <1>1 DEF Log
<1>3. Len(tree) \in 0..Len(Log)
  BY TreeIsPrefix
<1> QED BY <1>1, <1>2, <1>3 DEF Promise!Publish, Promise!Prefix, Log

(* A reply 201 acknowledges a leaf that a saved head covers. *)
LEMMA ReplyAcknowledges ==
    ASSUME IInv, NEW h \in Handlers, Reply(h)
    PROVE  Promise!Acknowledge
<1>1. body[h] \in Leaves /\ body[h] \in CoveredLeaves
  BY DEF Reply, IInv, LocalsSet, Working, BodyCovered, CoveredAt, Saved, Rooted, Signed
<1>2. PICK head \in treeHeads : body[h] \in Leafs(head.rootHash)
  BY <1>1 DEF CoveredLeaves
<1>3. PICK i \in 1..Len(head.rootHash) : head.rootHash[i] = body[h]
  <2>1. head.rootHash \in Seq(Leaves)
    BY DEF IInv, TypeOK, STH
  <2> QED BY <1>2, <2>1 DEF Leafs
<1>4. Promise!Covered(body[h])
  BY <1>2, <1>3 DEF Promise!Covered
<1>5. {r.leaf : r \in created'} = {r.leaf : r \in created} \cup {body[h]}
  <2> DEFINE reply == [leaf |-> body[h], leafIndex |-> leafIndex[h] - 1, sth |-> sth[h], receipt |-> Receipt(h)]
  <2>1. created' = created \cup {reply} /\ reply.leaf = body[h]
    BY DEF Reply
  <2> HIDE DEF reply
  <2> QED BY <2>1
<1>6. UNCHANGED <<Log, treeHeads>>
  BY DEF Reply, storeVars, Log
<1> QED BY <1>1, <1>4, <1>5, <1>6 DEF Promise!Acknowledge, Log

(* A step that is no reply leaves the replies as they are. *)
LEMMA OnlyReplyReplies ==
    ASSUME [Next]_vars, \A h \in Handlers : ~Reply(h)
    PROVE  UNCHANGED created
BY DEF Next, Receive, Handle, DedupMiss, DedupConflict, DedupError, InsertBegin, InsertCommit, InsertError,
       InsertAckLost, TreeAppend, ComputeRoot, Sign, SaveHead, SaveHeadError, CompactState, SaveState,
       SaveStateError, InternalError, RebuildNext, RebuildDone, Crash, Beat, BeatRoot, BeatSign, BeatSave,
       BeatError, BeatDone, vars, clientVars

(* "append-only logging" (policy/platform.go:11-12): requests and beats    *)
(* that do not overlap keep the promise of TransparencyLog, over crashes   *)
(* and after every failure that the process is told about.                 *)
THEOREM LogIsAppendOnly ==
    ASSUME "insertAck" \notin Faults
    PROVE  SerialSpec => PromiseKept
<1>1. Init => Promise!Init
  <2> SUFFICES ASSUME Init PROVE Promise!Init
    OBVIOUS
  <2>1. entries = <<>> /\ treeHeads = {} /\ created = {}
    BY DEF Init, StoreInit
  <2>2. [i \in DOMAIN entries |-> entries[i].leafHash] = <<>>
    BY <2>1
  <2> QED BY <2>1, <2>2 DEF Promise!Init
<1>2. ASSUME IInv, SInv, OneAtATime, [Next /\ OneAtATime']_vars PROVE [Promise!Next]_(Promise!vars)
  <2>1. ASSUME NEW h \in Handlers, Reply(h) PROVE Promise!Next
    BY <1>2, <2>1, ReplyAcknowledges DEF Promise!Next
  <2>2. ASSUME NEW h \in Handlers, InsertCommit(h) PROVE Promise!Next
    BY <1>2, <2>2, CommitAdds DEF Promise!Next
  <2>3. CASE SaveSTH(TheHead) /\ UNCHANGED created
    BY <1>2, <2>3, SavePublishes DEF Promise!Next, IInv, SInv, TreeInOrder
  <2>4. CASE UNCHANGED <<entries, treeHeads, created>>
    BY <2>4 DEF Promise!vars
  <2>5. \/ UNCHANGED <<entries, treeHeads>>
        \/ \E h \in Handlers : InsertCommit(h)
        \/ SaveSTH(TheHead) /\ UNCHANGED created
    BY <1>2, StoreSteps DEF SaveTreeState
  <2> QED BY <1>2, <2>1, <2>2, <2>3, <2>4, <2>5, OnlyReplyReplies
<1>3. IInv /\ SInv /\ OneAtATime /\ [Next /\ OneAtATime']_vars => [Promise!Next]_(Promise!vars)
  BY <1>2
<1>4. SerialSpec => Promise!Spec
  BY <1>1, <1>3, SerialInvariance, PTL DEF SerialSpec, Promise!Spec
<1> QED BY <1>4 DEF PromiseKept
=============================================================================
