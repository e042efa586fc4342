--------------------------- MODULE LogServerProofs ---------------------------
(***************************************************************************)
(* Theorems about LogServer, for any handlers, leaves, bounds and faults:  *)
(* IInv of LogServerInv is inductive, and the safety properties follow.    *)
(***************************************************************************)
EXTENDS LogServerInv, FiniteSetTheorems, TLAPS

-----------------------------------------------------------------------------
(* Sequences and rows. *)

(* Appending a value adds it to the values of a sequence. *)
LEMMA LeafsAppend ==
    ASSUME NEW S, NEW s \in Seq(S), NEW x \in S
    PROVE  /\ Leafs(Append(s, x)) = Leafs(s) \cup {x}
           /\ Append(s, x) \in Seq(S)
           /\ Len(Append(s, x)) = Len(s) + 1
           /\ DOMAIN Append(s, x) = DOMAIN s \cup {Len(s) + 1}
           /\ \A i \in DOMAIN s : Append(s, x)[i] = s[i]
           /\ Append(s, x)[Len(s) + 1] = x
<1>1. /\ Append(s, x) \in Seq(S)
      /\ Len(Append(s, x)) = Len(s) + 1
      /\ DOMAIN Append(s, x) = DOMAIN s \cup {Len(s) + 1}
      /\ \A i \in DOMAIN s : Append(s, x)[i] = s[i]
      /\ Append(s, x)[Len(s) + 1] = x
  OBVIOUS
<1> QED BY <1>1 DEF Leafs

(* A leaf is committed when some row has it. *)
LEMMA CommittedRows ==
    \A l : l \in Committed <=> \E i \in DOMAIN entries : entries[i].leafHash = l
BY DEF Committed, Rows

(* The columns of a row. *)
LEMMA RowTypes ==
    ASSUME TypeOK, NEW i \in DOMAIN entries
    PROVE  /\ entries[i].leafIndex \in Nat \ {0} /\ entries[i].leafIndex \in 0..MaxIndex
           /\ entries[i].leafHash \in Leaves
<1> DEFINE Row == [leafIndex : 1..MaxIndex, leafHash : Leaves]
<1>1. entries \in Seq(Row)
  BY DEF TypeOK
<1> HIDE DEF Row
<1>2. entries[i] \in Row
  BY <1>1
<1> QED BY <1>2, MaxIndexAssumption DEF Row

(* What CommitRow does to the rows, position by position. *)
LEMMA CommitRowEffect ==
    ASSUME TypeOK, NEW index \in 1..MaxIndex, NEW l \in Leaves, CommitRow(index, l)
    PROVE  /\ Committed' = Committed \cup {l}
           /\ l \notin Committed
           /\ entries' \in Seq([leafIndex : 1..MaxIndex, leafHash : Leaves])
           /\ Len(entries) \in Nat
           /\ Len(entries') = Len(entries) + 1
           /\ DOMAIN entries' = DOMAIN entries \cup {Len(entries) + 1}
           /\ \A i \in DOMAIN entries : entries'[i] = entries[i] /\ i # Len(entries) + 1
           /\ entries'[Len(entries) + 1] = [leafIndex |-> index, leafHash |-> l]
<1> DEFINE row == [leafIndex |-> index, leafHash |-> l]
           Row == [leafIndex : 1..MaxIndex, leafHash : Leaves]
<1>1. row \in Row /\ entries \in Seq(Row) /\ entries' = Append(entries, row)
  BY DEF TypeOK, CommitRow
<1>2. /\ entries' \in Seq(Row)
      /\ Len(entries') = Len(entries) + 1
      /\ DOMAIN entries' = DOMAIN entries \cup {Len(entries) + 1}
      /\ \A i \in DOMAIN entries : entries'[i] = entries[i]
      /\ entries'[Len(entries) + 1] = row
  BY <1>1, LeafsAppend
<1>3. Len(entries) \in Nat /\ \A i \in DOMAIN entries : i # Len(entries) + 1
  BY <1>1
<1>4. Rows' = Rows \cup {row}
  BY <1>2 DEF Rows
<1>5. Committed' = Committed \cup {l}
  <2>1. row.leafHash = l
    OBVIOUS
  <2> HIDE DEF row
  <2> QED BY <1>4, <2>1 DEF Committed
<1> QED BY <1>2, <1>3, <1>5 DEF CommitRow, LeafHashExists
-----------------------------------------------------------------------------
(* Steps that leave the rows and the tree alone. *)

(* The conjuncts that speak of rows, tree and cursor only. *)
LEMMA TreeFrame ==
    ASSUME RowsUnique, TreeOfEntries, RebuildSoFar, UNCHANGED <<entries, tree, phase, cursor>>
    PROVE  RowsUnique' /\ TreeOfEntries' /\ RebuildSoFar' /\ Committed' = Committed
BY DEF RowsUnique, TreeOfEntries, RebuildSoFar, Committed, Rows, Leafs

(* The replies hold as long as rows and heads are kept. *)
LEMMA RepliesFrame ==
    ASSUME RepliesHold, Committed \subseteq Committed', treeHeads \subseteq treeHeads',
           UNCHANGED clientVars
    PROVE  RepliesHold' /\ CoveredLeaves \subseteq CoveredLeaves'
<1>1. CoveredLeaves \subseteq CoveredLeaves'
  BY DEF CoveredLeaves, Leafs
<1>2. UNCHANGED created /\ UNCHANGED duplicates
  BY DEF clientVars
<1> QED BY <1>1, <1>2 DEF RepliesHold

(* What holds at a handler goes on holding while it does not move and rows, *)
(* tree and heads only grow.                                               *)
LEMMA CoveredFrame ==
    ASSUME IInv, NEW g \in Handlers, CoveredAt(g),
           UNCHANGED <<pc[g], body[g], rootHash[g], sth[g]>>,
           Leafs(tree) \subseteq Leafs(tree)',
           Committed \subseteq Committed', CoveredLeaves \subseteq CoveredLeaves'
    PROVE  CoveredAt(g)'
BY DEF CoveredAt, Leafs

(* A handler changes its own program counter and locals only. *)
LEMMA OthersUntouched ==
    ASSUME IInv, NEW h \in Handlers, Receive(h) \/ Handle(h)
    PROVE  \A g \in Handlers \ {h} : UNCHANGED <<pc[g], body[g], leafIndex[g], sth[g]>>
<1> USE DEF Handle, Receive, DedupMiss, DedupConflict, DedupError, InsertBegin, InsertCommit, InsertError,
            InsertAckLost, TreeAppend, ComputeRoot, Sign, SaveHead, SaveHeadError, CompactState,
            SaveState, SaveStateError, Reply, InternalError, Goto, Return
<1>1. \E x : pc' = [pc EXCEPT ![h] = x]
  OBVIOUS
<1>2. UNCHANGED body \/ \E x : body' = [body EXCEPT ![h] = x]
  OBVIOUS
<1>3. UNCHANGED leafIndex \/ \E x : leafIndex' = [leafIndex EXCEPT ![h] = x]
  OBVIOUS
<1>4. UNCHANGED sth \/ \E x : sth' = [sth EXCEPT ![h] = x]
  OBVIOUS
<1>5. /\ DOMAIN pc = Handlers /\ DOMAIN body = Handlers
      /\ DOMAIN leafIndex = Handlers /\ DOMAIN sth = Handlers
  BY DEF IInv, TypeOK
<1> QED BY ONLY <1>1, <1>2, <1>3, <1>4, <1>5

(* A step that leaves rows, tree and heads alone keeps what IInv says of   *)
(* them and of the handlers that do not take it.                           *)
Quiet == UNCHANGED <<entries, lastIndex, treeHeads, tree, phase, cursor>>

(* A step that keeps rows, tree and cursor keeps what IInv says of them. *)
LEMMA QuietFrame ==
    ASSUME IInv, Quiet
    PROVE  /\ RowsUnique' /\ TreeOfEntries' /\ RebuildSoFar'
           /\ Committed' = Committed /\ CoveredLeaves' = CoveredLeaves /\ Leafs(tree)' = Leafs(tree)
           /\ \A s : RootOfTree(s)' <=> RootOfTree(s)
           /\ \A s : HeadBounded(s)' <=> HeadBounded(s)
<1>1. RowsUnique' /\ TreeOfEntries' /\ RebuildSoFar' /\ Committed' = Committed
  BY TreeFrame DEF IInv, Quiet
<1> QED BY <1>1 DEF Quiet, CoveredLeaves, Leafs, RootOfTree, HeadBounded

(* Any such step of one handler: the conjuncts of IInv that are left to    *)
(* show are about that handler and the replies.                            *)
LEMMA QuietStep ==
    ASSUME IInv, Quiet, UNCHANGED hbVars, NEW h \in Handlers,
           \A g \in Handlers \ {h} : UNCHANGED <<pc[g], body[g], leafIndex[g], rootHash[g], sth[g]>>,
           phase = "serving" \/ pc'[h] = "idle",
           pc'[h] # "commit",
           pc'[h] # "append",
           pc'[h] = "sign" => RootOfTree(rootHash'[h]),
           pc'[h] \in Signed => HeadBounded(sth'[h]),
           pc'[h] \in Working => body'[h] \in Leaves,
           pc'[h] \in {"commit", "append"} \cup {"root"} \cup Rooted => leafIndex'[h] # 0,
           pc'[h] \in Signed => sth'[h] \in STH,
           CoveredAt(h)'
    PROVE  /\ LocalsSet' /\ QuietRebuild' /\ RowsUnique' /\ IndexesDrawn' /\ TreeOfEntries'
           /\ AppendsNew' /\ RebuildSoFar' /\ RootsDurable' /\ BodyCovered'
<1> USE QuietFrame
<1>1. LocalsSet'
  BY DEF IInv, LocalsSet, hbVars
<1>2. QuietRebuild'
  BY DEF IInv, QuietRebuild, Quiet, hbVars
<1>3. IndexesDrawn'
  BY DEF IInv, IndexesDrawn, Quiet
<1>4. AppendsNew'
  BY DEF IInv, AppendsNew
<1>5. RootsDurable'
  <2> USE DEF RootOfTree, HeadBounded, Leafs
  <2>1. (\A g \in Handlers : pc[g] = "sign" => RootOfTree(rootHash[g]))'
    BY DEF IInv, RootsDurable, Quiet
  <2>2. (\A g \in Handlers : pc[g] \in Signed => HeadBounded(sth[g]))'
    BY DEF IInv, RootsDurable, Quiet
  <2>3. (/\ hbPc = "size" => RootOfTree(hbRoot)
         /\ hbPc = "save" => HeadBounded(hbSTH)
         /\ \A head \in treeHeads : HeadBounded(head))'
    BY DEF IInv, RootsDurable, Quiet, hbVars
  <2> QED BY <2>1, <2>2, <2>3 DEF RootsDurable
<1>6. BodyCovered'
  BY CoveredFrame DEF IInv, BodyCovered
<1> QED BY <1>1, <1>2, <1>3, <1>4, <1>5, <1>6
-----------------------------------------------------------------------------
(* The tree is never longer than the table: its leaves are distinct and    *)
(* each has a row.                                                         *)
LEMMA TreeNoLonger ==
    ASSUME TypeOK, TreeOfEntries
    PROVE  Len(tree) <= Len(entries) /\ Len(tree) \in Nat /\ Len(entries) \in Nat
<1> DEFINE n == Len(tree)
           m == Len(entries)
           f == [i \in 1..n |-> CHOOSE j \in 1..m : entries[j].leafHash = tree[i]]
<1>1. n \in Nat /\ m \in Nat /\ DOMAIN tree = 1..n /\ DOMAIN entries = 1..m
  BY DEF TypeOK
<1>2. \A i \in 1..n : \E j \in 1..m : entries[j].leafHash = tree[i]
  BY <1>1, CommittedRows DEF TreeOfEntries, Leafs
<1>3. \A i \in 1..n : f[i] \in 1..m /\ entries[f[i]].leafHash = tree[i]
  BY <1>2
<1>4. f \in Injection(1..n, 1..m)
  <2>1. f \in [1..n -> 1..m]
    BY <1>3
  <2>2. \A i, j \in 1..n : f[i] = f[j] => tree[i] = tree[j]
    BY <1>3
  <2>3. \A i, j \in 1..n : tree[i] = tree[j] => i = j
    BY <1>1 DEF TreeOfEntries
  <2> HIDE DEF f, n, m
  <2> QED BY ONLY <2>1, <2>2, <2>3 DEF Injection, IsInjective
<1> HIDE DEF f, n, m
<1>5. IsFiniteSet(1..m) /\ Cardinality(1..m) = m /\ Cardinality(1..n) = n
  <2>1. \A k \in Nat : IsFiniteSet(1..k) /\ Cardinality(1..k) = IF 1 > k THEN 0 ELSE k - 1 + 1
    BY FS_Interval
  <2> QED BY <1>1, <2>1
<1>6. Cardinality(1..n) <= Cardinality(1..m)
  BY <1>4, <1>5, FS_Injection
<1> QED BY <1>1, <1>5, <1>6 DEF n, m
(* Return leaves locals of the right types. *)
LEMMA ReturnTypes ==
    ASSUME TypeOK, NEW h \in Handlers, Return(h)
    PROVE  /\ pc' \in [Handlers -> {"idle", "dedup", "insert", "commit", "append", "root",
                                  "sign", "save", "compact", "state", "reply"}]
           /\ body' \in [Handlers -> Leaves \cup {Nil}]
           /\ leafIndex' \in [Handlers -> 0..MaxIndex]
           /\ rootHash' \in [Handlers -> Seq(Leaves)]
           /\ sth' \in [Handlers -> STH \cup {Nil}]
           /\ compact' \in [Handlers -> Nat]
<1>1. <<>> \in Seq(Leaves) /\ 0 \in 0..MaxIndex
  BY MaxIndexAssumption
<1> QED BY <1>1 DEF TypeOK, Return

-----------------------------------------------------------------------------
(* The quiet steps of a handler. *)

(* A request is taken: its leaf is the body. *)
LEMMA ReceiveInv == ASSUME IInv, NEW h \in Handlers, Receive(h) PROVE IInv'
<1> USE DEF Receive, Goto, storeVars, hbVars, clientVars, processVars
<1>1. TypeOK'
  BY DEF IInv, TypeOK, LocalsSet
<1>2. Quiet /\ UNCHANGED hbVars /\ UNCHANGED clientVars
  BY DEF Quiet
<1>3. RepliesHold'
  BY <1>2, QuietFrame, RepliesFrame DEF IInv, Quiet
<1>4. \A g \in Handlers \ {h} : UNCHANGED <<pc[g], body[g], leafIndex[g], rootHash[g], sth[g]>>
  BY DEF IInv, TypeOK
<1>5. CoveredAt(h)'
  BY <1>2, QuietFrame DEF IInv, TypeOK, BodyCovered, CoveredAt, Saved
<1>6. /\ LocalsSet' /\ QuietRebuild' /\ RowsUnique' /\ IndexesDrawn' /\ TreeOfEntries'
      /\ AppendsNew' /\ RebuildSoFar' /\ RootsDurable' /\ BodyCovered'
  BY <1>2, <1>4, <1>5, QuietStep
  DEF IInv, TypeOK, LocalsSet, QuietRebuild, RootsDurable, Working, Rooted, Signed, Saved
<1> QED BY <1>1, <1>3, <1>6 DEF IInv

(* The dedup check finds no row. *)
LEMMA DedupMissInv == ASSUME IInv, NEW h \in Handlers, DedupMiss(h) PROVE IInv'
<1> USE DEF DedupMiss, Goto, storeVars, hbVars, clientVars, processVars
<1>1. TypeOK'
  BY DEF IInv, TypeOK, LocalsSet
<1>2. Quiet /\ UNCHANGED hbVars /\ UNCHANGED clientVars
  BY DEF Quiet
<1>3. RepliesHold'
  BY <1>2, QuietFrame, RepliesFrame DEF IInv, Quiet
<1>4. \A g \in Handlers \ {h} : UNCHANGED <<pc[g], body[g], leafIndex[g], rootHash[g], sth[g]>>
  BY DEF IInv, TypeOK
<1>5. CoveredAt(h)'
  BY <1>2, QuietFrame DEF IInv, TypeOK, BodyCovered, CoveredAt, Saved
<1>6. /\ LocalsSet' /\ QuietRebuild' /\ RowsUnique' /\ IndexesDrawn' /\ TreeOfEntries'
      /\ AppendsNew' /\ RebuildSoFar' /\ RootsDurable' /\ BodyCovered'
  BY <1>2, <1>4, <1>5, QuietStep
  DEF IInv, TypeOK, LocalsSet, QuietRebuild, RootsDurable, Working, Rooted, Signed, Saved
<1> QED BY <1>1, <1>3, <1>6 DEF IInv

(* The root is computed from a tree that has the leaf. *)
LEMMA ComputeRootInv == ASSUME IInv, NEW h \in Handlers, ComputeRoot(h) PROVE IInv'
<1> USE DEF ComputeRoot, Goto, storeVars, hbVars, clientVars, processVars
<1>1. TypeOK'
  BY DEF IInv, TypeOK, LocalsSet
<1>2. Quiet /\ UNCHANGED hbVars /\ UNCHANGED clientVars
  BY DEF Quiet
<1>3. RepliesHold'
  BY <1>2, QuietFrame, RepliesFrame DEF IInv, Quiet
<1>4. \A g \in Handlers \ {h} : UNCHANGED <<pc[g], body[g], leafIndex[g], rootHash[g], sth[g]>>
  BY DEF IInv, TypeOK
<1>5. CoveredAt(h)'
  BY <1>2, QuietFrame DEF IInv, TypeOK, BodyCovered, CoveredAt, Saved, Leafs, TreeOfEntries
<1>6. RootOfTree(rootHash'[h])
  BY TreeNoLonger DEF IInv, TypeOK, RootOfTree, TreeOfEntries
<1>7. /\ LocalsSet' /\ QuietRebuild' /\ RowsUnique' /\ IndexesDrawn' /\ TreeOfEntries'
      /\ AppendsNew' /\ RebuildSoFar' /\ RootsDurable' /\ BodyCovered'
  BY <1>2, <1>4, <1>5, <1>6, QuietStep
  DEF IInv, TypeOK, LocalsSet, QuietRebuild, RootsDurable, Working, Rooted, Signed, Saved
<1> QED BY <1>1, <1>3, <1>7 DEF IInv

(* The size is read after the root: it is at least the leaves under it. *)
LEMMA SignInv == ASSUME IInv, NEW h \in Handlers, Sign(h) PROVE IInv'
<1> USE DEF Sign, Goto, storeVars, hbVars, clientVars, processVars
<1>1. TypeOK'
  <2>1. [treeSize |-> Len(tree), rootHash |-> rootHash[h]] \in STH
    BY DEF IInv, TypeOK, STH
  <2> QED BY <2>1 DEF IInv, TypeOK
<1>2. Quiet /\ UNCHANGED hbVars /\ UNCHANGED clientVars
  BY DEF Quiet
<1>3. RepliesHold'
  BY <1>2, QuietFrame, RepliesFrame DEF IInv, Quiet
<1>4. \A g \in Handlers \ {h} : UNCHANGED <<pc[g], body[g], leafIndex[g], rootHash[g], sth[g]>>
  BY DEF IInv, TypeOK
<1>5. CoveredAt(h)'
  BY <1>2, QuietFrame DEF IInv, TypeOK, BodyCovered, CoveredAt, Saved, Leafs
<1>6. HeadBounded(sth'[h]) /\ sth'[h] \in STH
  BY TreeNoLonger DEF IInv, TypeOK, RootsDurable, RootOfTree, HeadBounded, STH
<1>7. /\ LocalsSet' /\ QuietRebuild' /\ RowsUnique' /\ IndexesDrawn' /\ TreeOfEntries'
      /\ AppendsNew' /\ RebuildSoFar' /\ RootsDurable' /\ BodyCovered'
  BY <1>2, <1>4, <1>5, <1>6, QuietStep
  DEF IInv, TypeOK, LocalsSet, QuietRebuild, RootsDurable, Working, Rooted, Signed, Saved
<1> QED BY <1>1, <1>3, <1>7 DEF IInv

(* The size for tree_state is read. *)
LEMMA CompactStateInv == ASSUME IInv, NEW h \in Handlers, CompactState(h) PROVE IInv'
<1> USE DEF CompactState, Goto, storeVars, hbVars, clientVars, processVars
<1>1. TypeOK'
  BY DEF IInv, TypeOK, LocalsSet
<1>2. Quiet /\ UNCHANGED hbVars /\ UNCHANGED clientVars
  BY DEF Quiet
<1>3. RepliesHold'
  BY <1>2, QuietFrame, RepliesFrame DEF IInv, Quiet
<1>4. \A g \in Handlers \ {h} : UNCHANGED <<pc[g], body[g], leafIndex[g], rootHash[g], sth[g]>>
  BY DEF IInv, TypeOK
<1>5. CoveredAt(h)'
  BY <1>2, QuietFrame DEF IInv, TypeOK, BodyCovered, CoveredAt, Saved
<1>6. /\ LocalsSet' /\ QuietRebuild' /\ RowsUnique' /\ IndexesDrawn' /\ TreeOfEntries'
      /\ AppendsNew' /\ RebuildSoFar' /\ RootsDurable' /\ BodyCovered'
  BY <1>2, <1>4, <1>5, QuietStep
  DEF IInv, TypeOK, LocalsSet, QuietRebuild, RootsDurable, Working, Rooted, Signed, Saved
<1> QED BY <1>1, <1>3, <1>6 DEF IInv

(* tree_state is written. *)
LEMMA SaveStateInv == ASSUME IInv, NEW h \in Handlers, SaveState(h) PROVE IInv'
<1> USE DEF SaveState, Goto, SaveTreeState, storeVars, hbVars, clientVars, processVars
<1>1. TypeOK'
  BY DEF IInv, TypeOK, LocalsSet
<1>2. Quiet /\ UNCHANGED hbVars /\ UNCHANGED clientVars
  BY DEF Quiet
<1>3. RepliesHold'
  BY <1>2, QuietFrame, RepliesFrame DEF IInv, Quiet
<1>4. \A g \in Handlers \ {h} : UNCHANGED <<pc[g], body[g], leafIndex[g], rootHash[g], sth[g]>>
  BY DEF IInv, TypeOK
<1>5. CoveredAt(h)'
  BY <1>2, QuietFrame DEF IInv, TypeOK, BodyCovered, CoveredAt, Saved
<1>6. /\ LocalsSet' /\ QuietRebuild' /\ RowsUnique' /\ IndexesDrawn' /\ TreeOfEntries'
      /\ AppendsNew' /\ RebuildSoFar' /\ RootsDurable' /\ BodyCovered'
  BY <1>2, <1>4, <1>5, QuietStep
  DEF IInv, TypeOK, LocalsSet, QuietRebuild, RootsDurable, Working, Rooted, Signed, Saved
<1> QED BY <1>1, <1>3, <1>6 DEF IInv

(* The dedup check fails. *)
LEMMA DedupErrorInv == ASSUME IInv, NEW h \in Handlers, DedupError(h) PROVE IInv'
<1> USE DEF DedupError, InternalError, storeVars, hbVars, clientVars, processVars
<1>1. TypeOK'
  BY ReturnTypes DEF IInv, TypeOK, LocalsSet
<1>2. Quiet /\ UNCHANGED hbVars /\ UNCHANGED clientVars
  BY DEF Quiet
<1>3. RepliesHold'
  BY <1>2, QuietFrame, RepliesFrame DEF IInv, Quiet
<1>4. \A g \in Handlers \ {h} : UNCHANGED <<pc[g], body[g], leafIndex[g], rootHash[g], sth[g]>>
  BY DEF IInv, TypeOK, Return
<1>5. CoveredAt(h)'
  BY <1>2, QuietFrame DEF IInv, TypeOK, BodyCovered, CoveredAt, Saved, Return
<1>6. /\ LocalsSet' /\ QuietRebuild' /\ RowsUnique' /\ IndexesDrawn' /\ TreeOfEntries'
      /\ AppendsNew' /\ RebuildSoFar' /\ RootsDurable' /\ BodyCovered'
  BY <1>2, <1>4, <1>5, QuietStep
  DEF IInv, TypeOK, LocalsSet, QuietRebuild, RootsDurable, Working, Rooted, Signed, Saved, Return
<1> QED BY <1>1, <1>3, <1>6 DEF IInv

(* The INSERT is refused or fails: no row. *)
LEMMA InsertErrorInv == ASSUME IInv, NEW h \in Handlers, InsertError(h) PROVE IInv'
<1> USE DEF InsertError, InternalError, storeVars, hbVars, clientVars, processVars
<1>1. TypeOK'
  BY ReturnTypes DEF IInv, TypeOK, LocalsSet
<1>2. Quiet /\ UNCHANGED hbVars /\ UNCHANGED clientVars
  BY DEF Quiet
<1>3. RepliesHold'
  BY <1>2, QuietFrame, RepliesFrame DEF IInv, Quiet
<1>4. \A g \in Handlers \ {h} : UNCHANGED <<pc[g], body[g], leafIndex[g], rootHash[g], sth[g]>>
  BY DEF IInv, TypeOK, Return
<1>5. CoveredAt(h)'
  BY <1>2, QuietFrame DEF IInv, TypeOK, BodyCovered, CoveredAt, Saved, Return
<1>6. /\ LocalsSet' /\ QuietRebuild' /\ RowsUnique' /\ IndexesDrawn' /\ TreeOfEntries'
      /\ AppendsNew' /\ RebuildSoFar' /\ RootsDurable' /\ BodyCovered'
  BY <1>2, <1>4, <1>5, QuietStep
  DEF IInv, TypeOK, LocalsSet, QuietRebuild, RootsDurable, Working, Rooted, Signed, Saved, Return
<1> QED BY <1>1, <1>3, <1>6 DEF IInv

(* The upsert of tree_state fails, before or after it was done. *)
LEMMA SaveStateErrorInv == ASSUME IInv, NEW h \in Handlers, SaveStateError(h) PROVE IInv'
<1> USE DEF SaveStateError, InternalError, SaveTreeState, storeVars, hbVars, clientVars, processVars
<1>1. TypeOK'
  BY ReturnTypes DEF IInv, TypeOK, LocalsSet
<1>2. Quiet /\ UNCHANGED hbVars /\ UNCHANGED clientVars
  BY DEF Quiet
<1>3. RepliesHold'
  BY <1>2, QuietFrame, RepliesFrame DEF IInv, Quiet
<1>4. \A g \in Handlers \ {h} : UNCHANGED <<pc[g], body[g], leafIndex[g], rootHash[g], sth[g]>>
  BY DEF IInv, TypeOK, Return
<1>5. CoveredAt(h)'
  BY <1>2, QuietFrame DEF IInv, TypeOK, BodyCovered, CoveredAt, Saved, Return
<1>6. /\ LocalsSet' /\ QuietRebuild' /\ RowsUnique' /\ IndexesDrawn' /\ TreeOfEntries'
      /\ AppendsNew' /\ RebuildSoFar' /\ RootsDurable' /\ BodyCovered'
  BY <1>2, <1>4, <1>5, QuietStep
  DEF IInv, TypeOK, LocalsSet, QuietRebuild, RootsDurable, Working, Rooted, Signed, Saved, Return
<1> QED BY <1>1, <1>3, <1>6 DEF IInv

(* What a quiet return leaves to show: types and replies. *)
LEMMA QuietReturn ==
    ASSUME IInv, Quiet, UNCHANGED hbVars, NEW h \in Handlers, Return(h), TypeOK', RepliesHold'
    PROVE  IInv'
<1>1. \A g \in Handlers \ {h} : UNCHANGED <<pc[g], body[g], leafIndex[g], rootHash[g], sth[g]>>
  BY DEF IInv, TypeOK, Return
<1>2. CoveredAt(h)' /\ pc'[h] = "idle"
  BY DEF IInv, TypeOK, CoveredAt, Saved, Return
<1>3. /\ LocalsSet' /\ QuietRebuild' /\ RowsUnique' /\ IndexesDrawn' /\ TreeOfEntries'
      /\ AppendsNew' /\ RebuildSoFar' /\ RootsDurable' /\ BodyCovered'
  BY <1>1, <1>2, QuietStep DEF Working, Rooted, Signed
<1> QED BY <1>3 DEF IInv

(* A duplicate is answered with 409: its leaf is committed. *)
LEMMA DedupConflictInv == ASSUME IInv, NEW h \in Handlers, DedupConflict(h) PROVE IInv'
<1> USE DEF DedupConflict, storeVars, hbVars, clientVars, processVars
<1>1. Quiet /\ UNCHANGED hbVars
  BY DEF Quiet
<1>2. body[h] \in Leaves
  BY DEF IInv, LocalsSet, Working
<1>3. TypeOK'
  BY <1>2, ReturnTypes DEF IInv, TypeOK
<1>4. RepliesHold'
  BY <1>1, QuietFrame DEF IInv, RepliesHold, LeafHashExists
<1> QED BY <1>1, <1>3, <1>4, QuietReturn

(* A 201 reply: its leaf is committed and under a saved root. *)
LEMMA ReplyInv == ASSUME IInv, NEW h \in Handlers, Reply(h) PROVE IInv'
<1> USE DEF Reply, storeVars, hbVars, clientVars, processVars
<1> DEFINE r == [leaf |-> body[h], leafIndex |-> leafIndex[h] - 1, sth |-> sth[h], receipt |-> Receipt(h)]
<1>1. Quiet /\ UNCHANGED hbVars
  BY DEF Quiet
<1>2. r \in Replies
  <2>1. body[h] \in Leaves /\ sth[h] \in STH /\ leafIndex[h] - 1 \in Nat
    BY DEF IInv, TypeOK, LocalsSet, Working, Rooted, Signed
  <2>2. tree \in Seq(Leaves) /\ rootHash[h] \in Seq(Leaves) /\ Len(tree) \in Nat
    BY DEF IInv, TypeOK
  <2>3. Receipt(h) \in Receipts \cup {Nil}
    BY <2>1, <2>2 DEF Receipt, Receipts
  <2> QED BY <2>1, <2>3 DEF Replies
<1>3. r.leaf \in Committed \cap CoveredLeaves
  BY DEF IInv, BodyCovered, CoveredAt, Saved
<1> HIDE DEF r
<1>4. created' = created \cup {r}
  BY DEF r
<1>5. TypeOK'
  BY <1>2, <1>4, ReturnTypes DEF IInv, TypeOK
<1>6. RepliesHold'
  BY <1>1, <1>3, <1>4, QuietFrame DEF IInv, RepliesHold
<1> QED BY <1>1, <1>5, <1>6, QuietReturn

-----------------------------------------------------------------------------
(* Steps of a handler that draw an index, add a row, a leaf or a head. *)

(* The index that is drawn is new. *)
LEMMA InsertBeginInv == ASSUME IInv, NEW h \in Handlers, InsertBegin(h) PROVE IInv'
<1> USE DEF InsertBegin, DrawIndex, Goto, storeVars, hbVars, clientVars, processVars
<1>0. lastIndex \in Nat /\ lastIndex + 1 \in 0..MaxIndex
  BY MaxIndexAssumption DEF IInv, TypeOK
<1>1. TypeOK'
  BY <1>0 DEF IInv, TypeOK
<1>2. \A g \in Handlers \ {h} : UNCHANGED <<pc[g], body[g], leafIndex[g], rootHash[g], sth[g]>>
  BY DEF IInv, TypeOK
<1>3. pc'[h] = "commit" /\ leafIndex'[h] = lastIndex + 1 /\ UNCHANGED body
  BY DEF IInv, TypeOK
<1>4. RowsUnique' /\ TreeOfEntries' /\ RebuildSoFar' /\ Committed' = Committed
  BY TreeFrame DEF IInv
<1>5. RepliesHold' /\ CoveredLeaves \subseteq CoveredLeaves'
  BY <1>4, RepliesFrame DEF IInv
<1>6. LocalsSet' /\ QuietRebuild'
  BY <1>2, <1>3 DEF IInv, TypeOK, LocalsSet, QuietRebuild, Working, Rooted, Signed
<1>7. IndexesDrawn'
  <2>1. \A i \in DOMAIN entries : entries[i].leafIndex \in Nat /\ entries[i].leafIndex <= lastIndex
    BY RowTypes DEF IInv, IndexesDrawn
  <2>2. \A g \in Handlers : leafIndex[g] \in Nat /\ (pc[g] = "commit" => leafIndex[g] <= lastIndex)
    BY DEF IInv, TypeOK, IndexesDrawn
  <2> QED BY <1>0, <1>2, <1>3, <2>1, <2>2 DEF IInv, IndexesDrawn
<1>8. AppendsNew'
  BY <1>2, <1>3, <1>4 DEF IInv, AppendsNew, Leafs
<1>9. RootsDurable'
  BY <1>2, <1>3, <1>4 DEF IInv, RootsDurable, RootOfTree, HeadBounded, Leafs, Signed
<1>10. BodyCovered'
  <2>1. CoveredAt(h)'
    BY <1>3 DEF CoveredAt, Saved
  <2> QED BY <1>2, <1>4, <1>5, <2>1, CoveredFrame DEF IInv, BodyCovered, Leafs
<1> QED BY <1>1, <1>4, <1>5, <1>6, <1>7, <1>8, <1>9, <1>10 DEF IInv

(* A committed row changes what IInv says of rows, whatever else the       *)
(* handler does: InsertCommit goes on, InsertAckLost returns.              *)
LEMMA CommitKeepsRows ==
    ASSUME IInv, NEW h \in Handlers, pc[h] = "commit", CommitRow(leafIndex[h], body[h]),
           pc'[h] # "commit",
           \A g \in Handlers \ {h} : UNCHANGED <<pc[g], body[g], leafIndex[g], rootHash[g], sth[g]>>,
           UNCHANGED <<tree, phase, cursor, hbVars>>
    PROVE  /\ RowsUnique' /\ TreeOfEntries' /\ RebuildSoFar' /\ IndexesDrawn'
           /\ Committed' = Committed \cup {body[h]}
           /\ body[h] \notin Committed
           /\ \A s : RootOfTree(s) => RootOfTree(s)'
           /\ \A s \in STH : HeadBounded(s) => HeadBounded(s)'
<1>1. phase = "serving"
  BY DEF IInv, TypeOK, QuietRebuild
<1>2. leafIndex[h] \in 1..MaxIndex /\ body[h] \in Leaves
  BY DEF IInv, TypeOK, LocalsSet, Working
<1>3. /\ Committed' = Committed \cup {body[h]}
      /\ body[h] \notin Committed
      /\ Len(entries) \in Nat
      /\ Len(entries') = Len(entries) + 1
      /\ DOMAIN entries' = DOMAIN entries \cup {Len(entries) + 1}
      /\ \A i \in DOMAIN entries : entries'[i] = entries[i] /\ i # Len(entries) + 1
      /\ entries'[Len(entries) + 1] = [leafIndex |-> leafIndex[h], leafHash |-> body[h]]
  BY <1>2, CommitRowEffect DEF IInv
<1>4. \A i \in DOMAIN entries : entries[i].leafHash # body[h]
  BY <1>3, CommittedRows
<1>5. \A i \in DOMAIN entries : entries[i].leafIndex # leafIndex[h]
  BY DEF IInv, IndexesDrawn
<1>6. RowsUnique'
  BY <1>3, <1>4, <1>5 DEF IInv, RowsUnique
<1>7. TreeOfEntries' /\ RebuildSoFar'
  BY <1>1, <1>3 DEF IInv, TreeOfEntries, RebuildSoFar, Leafs
<1>8. IndexesDrawn'
  BY <1>3 DEF IInv, IndexesDrawn, CommitRow
<1>9. \A s : RootOfTree(s) => RootOfTree(s)'
  BY <1>3 DEF RootOfTree, Leafs
<1>10. \A s \in STH : HeadBounded(s) => HeadBounded(s)'
  BY <1>3 DEF HeadBounded, Leafs, STH
<1> QED BY <1>3, <1>6, <1>7, <1>8, <1>9, <1>10

(* The row is committed and its handler will append it. *)
LEMMA InsertCommitInv == ASSUME IInv, NEW h \in Handlers, InsertCommit(h) PROVE IInv'
<1> USE DEF InsertCommit, Goto, storeVars, hbVars, clientVars, processVars
<1>1. leafIndex[h] \in 1..MaxIndex /\ body[h] \in Leaves /\ leafIndex[h] # 0
  BY DEF IInv, TypeOK, LocalsSet, Working
<1>2. entries' \in Seq([leafIndex : 1..MaxIndex, leafHash : Leaves])
  BY <1>1, CommitRowEffect DEF IInv
<1>3. TypeOK'
  BY <1>2 DEF IInv, TypeOK, CommitRow
<1>4. /\ pc'[h] = "append" /\ body'[h] = body[h] /\ leafIndex'[h] = leafIndex[h]
      /\ \A g \in Handlers \ {h} : UNCHANGED <<pc[g], body[g], leafIndex[g], rootHash[g], sth[g]>>
  BY DEF IInv, TypeOK
<1>5. /\ RowsUnique' /\ TreeOfEntries' /\ RebuildSoFar' /\ IndexesDrawn'
      /\ Committed' = Committed \cup {body[h]}
      /\ body[h] \notin Committed
      /\ \A s : RootOfTree(s) => RootOfTree(s)'
      /\ \A s \in STH : HeadBounded(s) => HeadBounded(s)'
  BY <1>4, CommitKeepsRows
<1>6. RepliesHold' /\ CoveredLeaves \subseteq CoveredLeaves'
  BY <1>5, RepliesFrame DEF IInv, CommitRow
<1>7. LocalsSet' /\ QuietRebuild'
  BY <1>1, <1>4 DEF IInv, LocalsSet, QuietRebuild, Working, Rooted, Signed
<1>8. AppendsNew'
  BY <1>4, <1>5 DEF IInv, AppendsNew, TreeOfEntries, Leafs
<1>9. RootsDurable'
  BY <1>4, <1>5 DEF IInv, TypeOK, RootsDurable, LocalsSet, CommitRow, Signed
<1>10. BodyCovered'
  <2>1. CoveredAt(h)'
    BY <1>4 DEF CoveredAt, Saved
  <2> QED BY <1>4, <1>5, <1>6, <2>1, CoveredFrame DEF IInv, BodyCovered, Leafs
<1> QED BY <1>3, <1>5, <1>6, <1>7, <1>8, <1>9, <1>10 DEF IInv

(* The row is committed and nobody will append it before a rebuild. *)
LEMMA InsertAckLostInv == ASSUME IInv, NEW h \in Handlers, InsertAckLost(h) PROVE IInv'
<1> USE DEF InsertAckLost, InternalError, storeVars, hbVars, clientVars, processVars
<1>1. leafIndex[h] \in 1..MaxIndex /\ body[h] \in Leaves
  BY DEF IInv, TypeOK, LocalsSet, Working
<1>2. entries' \in Seq([leafIndex : 1..MaxIndex, leafHash : Leaves])
  BY <1>1, CommitRowEffect DEF IInv
<1>3. TypeOK'
  BY <1>2, ReturnTypes DEF IInv, TypeOK, CommitRow
<1>4. /\ pc'[h] = "idle"
      /\ \A g \in Handlers \ {h} : UNCHANGED <<pc[g], body[g], leafIndex[g], rootHash[g], sth[g]>>
  BY DEF IInv, TypeOK, Return
<1>5. /\ RowsUnique' /\ TreeOfEntries' /\ RebuildSoFar' /\ IndexesDrawn'
      /\ Committed' = Committed \cup {body[h]}
      /\ body[h] \notin Committed
      /\ \A s : RootOfTree(s) => RootOfTree(s)'
      /\ \A s \in STH : HeadBounded(s) => HeadBounded(s)'
  BY <1>4, CommitKeepsRows
<1>6. RepliesHold' /\ CoveredLeaves \subseteq CoveredLeaves'
  BY <1>5, RepliesFrame DEF IInv, CommitRow
<1>7. LocalsSet' /\ QuietRebuild'
  BY <1>4 DEF IInv, LocalsSet, QuietRebuild, Working, Rooted, Signed
<1>8. AppendsNew'
  BY <1>4, <1>5 DEF IInv, AppendsNew, Leafs
<1>9. RootsDurable'
  BY <1>4, <1>5 DEF IInv, TypeOK, RootsDurable, LocalsSet, CommitRow, Signed
<1>10. BodyCovered'
  <2>1. CoveredAt(h)'
    BY <1>4 DEF CoveredAt, Saved
  <2> QED BY <1>4, <1>5, <1>6, <2>1, CoveredFrame DEF IInv, BodyCovered, Leafs
<1> QED BY <1>3, <1>5, <1>6, <1>7, <1>8, <1>9, <1>10 DEF IInv

(* The leaf that is appended is committed and new to the tree. *)
LEMMA TreeAppendInv == ASSUME IInv, NEW h \in Handlers, TreeAppend(h) PROVE IInv'
<1> USE DEF TreeAppend, Goto, storeVars, hbVars, clientVars, processVars
<1>1. /\ body[h] \in Committed /\ body[h] \notin Leafs(tree) /\ body[h] \in Leaves /\ leafIndex[h] # 0
      /\ \A g \in Handlers : pc[g] = "append" /\ body[g] = body[h] => g = h
  BY DEF IInv, AppendsNew, LocalsSet, Working
<1>2. /\ tree \in Seq(Leaves) /\ Len(tree) \in Nat
      /\ tree' \in Seq(Leaves)
      /\ Leafs(tree') = Leafs(tree) \cup {body[h]}
      /\ Len(tree') = Len(tree) + 1
      /\ DOMAIN tree' = DOMAIN tree \cup {Len(tree) + 1}
      /\ \A i \in DOMAIN tree : tree'[i] = tree[i]
      /\ tree'[Len(tree) + 1] = body[h]
  <2>1. tree \in Seq(Leaves) /\ tree' = Append(tree, body[h])
    BY DEF IInv, TypeOK
  <2> QED BY ONLY <1>1, <2>1, LeafsAppend
<1>3. TypeOK'
  BY <1>2 DEF IInv, TypeOK
<1>4. /\ pc'[h] = "root" /\ UNCHANGED <<body, leafIndex>>
      /\ \A g \in Handlers \ {h} : UNCHANGED <<pc[g], body[g], leafIndex[g], rootHash[g], sth[g]>>
  BY DEF IInv, TypeOK
<1>5. phase = "serving" /\ Committed' = Committed /\ CoveredLeaves' = CoveredLeaves
  BY DEF IInv, TypeOK, QuietRebuild, Committed, Rows, CoveredLeaves, Leafs
<1>6. /\ \A s : Leafs(s) \subseteq Committed /\ Len(s) \in Nat /\ Len(s) <= Len(tree) => RootOfTree(s)'
      /\ \A s : HeadBounded(s) => HeadBounded(s)'
  BY <1>2, <1>5 DEF RootOfTree, HeadBounded, Leafs
<1>7. LocalsSet' /\ QuietRebuild' /\ IndexesDrawn' /\ RowsUnique' /\ RebuildSoFar'
  BY <1>1, <1>4, <1>5
  DEF IInv, LocalsSet, QuietRebuild, IndexesDrawn, RowsUnique, RebuildSoFar, Working, Rooted, Signed
<1>8. TreeOfEntries'
  <2>1. Leafs(tree)' \subseteq Committed'
    BY <1>1, <1>2, <1>5 DEF IInv, TreeOfEntries, Leafs
  <2>2. \A i \in DOMAIN tree : tree[i] # body[h]
    BY <1>1 DEF Leafs
  <2>3. \A i, j \in DOMAIN tree' : tree'[i] = tree'[j] => i = j
    BY <1>2, <2>2 DEF IInv, TreeOfEntries
  <2> QED BY <2>1, <2>3 DEF TreeOfEntries
<1>9. AppendsNew'
  BY <1>1, <1>2, <1>4, <1>5 DEF IInv, AppendsNew, Leafs
<1>10. RootsDurable'
  <2>1. \A g \in Handlers : pc[g] = "sign" => RootOfTree(rootHash[g]) /\ Len(rootHash[g]) \in Nat
    BY DEF IInv, TypeOK, RootsDurable
  <2>2. hbPc = "size" => RootOfTree(hbRoot) /\ Len(hbRoot) \in Nat
    BY DEF IInv, TypeOK, RootsDurable
  <2> QED BY <1>4, <1>6, <2>1, <2>2 DEF IInv, RootsDurable, RootOfTree, Signed
<1>11. BodyCovered'
  <2>1. CoveredAt(h)'
    BY <1>2, <1>4 DEF CoveredAt, Saved, Leafs
  <2> QED BY <1>2, <1>4, <1>5, <2>1, CoveredFrame DEF IInv, BodyCovered, Leafs
<1>12. RepliesHold'
  BY <1>5, RepliesFrame DEF IInv
<1> QED BY <1>3, <1>7, <1>8, <1>9, <1>10, <1>11, <1>12 DEF IInv

(* A saved head was bounded before it is saved, and covers what it covers. *)
LEMMA SaveEffect ==
    ASSUME IInv, NEW head \in STH, HeadBounded(head), SaveSTH(head), UNCHANGED <<tree, phase, cursor>>
    PROVE  /\ RowsUnique' /\ TreeOfEntries' /\ RebuildSoFar'
           /\ Committed' = Committed
           /\ CoveredLeaves' = CoveredLeaves \cup Leafs(head.rootHash)
           /\ treeHeads' \subseteq STH /\ latestSTH' \in STH
           /\ \A s : RootOfTree(s)' <=> RootOfTree(s)
           /\ \A s : HeadBounded(s)' <=> HeadBounded(s)
           /\ \A s \in treeHeads' : HeadBounded(s)
<1>1. RowsUnique' /\ TreeOfEntries' /\ RebuildSoFar' /\ Committed' = Committed
  BY TreeFrame DEF IInv, SaveSTH
<1>2. CoveredLeaves' = CoveredLeaves \cup Leafs(head.rootHash)
  BY DEF CoveredLeaves, SaveSTH, Leafs
<1>3. treeHeads' \subseteq STH /\ latestSTH' \in STH
  BY DEF IInv, TypeOK, SaveSTH
<1>4. /\ \A s : RootOfTree(s)' <=> RootOfTree(s)
      /\ \A s : HeadBounded(s)' <=> HeadBounded(s)
  BY <1>1 DEF SaveSTH, RootOfTree, HeadBounded, Leafs
<1>5. \A s \in treeHeads' : HeadBounded(s)
  BY DEF IInv, RootsDurable, SaveSTH
<1> QED BY <1>1, <1>2, <1>3, <1>4, <1>5

(* The head is saved: from here on a saved root has the leaf. *)
LEMMA SaveHeadInv == ASSUME IInv, NEW h \in Handlers, SaveHead(h) PROVE IInv'
<1> USE DEF SaveHead, Goto, storeVars, hbVars, clientVars, processVars
<1>1. /\ sth[h] \in STH /\ HeadBounded(sth[h]) /\ body[h] \in Leafs(sth[h].rootHash)
      /\ body[h] \in Leaves /\ leafIndex[h] # 0 /\ phase = "serving"
  BY DEF IInv, TypeOK, LocalsSet, RootsDurable, BodyCovered, CoveredAt, QuietRebuild, Signed, Rooted, Working
<1>2. /\ RowsUnique' /\ TreeOfEntries' /\ RebuildSoFar'
      /\ Committed' = Committed
      /\ CoveredLeaves' = CoveredLeaves \cup Leafs(sth[h].rootHash)
      /\ treeHeads' \subseteq STH /\ latestSTH' \in STH
      /\ \A s : RootOfTree(s)' <=> RootOfTree(s)
      /\ \A s : HeadBounded(s)' <=> HeadBounded(s)
      /\ \A s \in treeHeads' : HeadBounded(s)
  BY <1>1, SaveEffect
<1>3. TypeOK'
  BY <1>2 DEF IInv, TypeOK, SaveSTH
<1>4. /\ pc'[h] = "compact" /\ UNCHANGED <<body, leafIndex, sth>>
      /\ \A g \in Handlers \ {h} : UNCHANGED <<pc[g], body[g], leafIndex[g], rootHash[g], sth[g]>>
  BY DEF IInv, TypeOK
<1>5. LocalsSet' /\ QuietRebuild' /\ IndexesDrawn'
  BY <1>1, <1>4 DEF IInv, LocalsSet, QuietRebuild, IndexesDrawn, SaveSTH, Working, Rooted, Signed
<1>6. AppendsNew'
  BY <1>2, <1>4 DEF IInv, AppendsNew, Leafs
<1>7. RootsDurable'
  BY <1>1, <1>2, <1>4 DEF IInv, RootsDurable, Signed
<1>8. BodyCovered'
  <2>1. CoveredAt(h)'
    BY <1>1, <1>2, <1>4 DEF IInv, HeadBounded, CoveredAt, Saved
  <2> QED BY <1>2, <1>4, <2>1, CoveredFrame DEF IInv, BodyCovered, Leafs
<1>9. RepliesHold'
  BY <1>2, RepliesFrame DEF IInv, SaveSTH
<1> QED BY <1>2, <1>3, <1>5, <1>6, <1>7, <1>8, <1>9 DEF IInv

(* The head is saved or not, and the handler returns an error. *)
LEMMA SaveHeadErrorInv == ASSUME IInv, NEW h \in Handlers, SaveHeadError(h) PROVE IInv'
<1> USE DEF SaveHeadError, InternalError, storeVars, hbVars, clientVars, processVars
<1>1. CASE UNCHANGED storeVars
  <2>1. Quiet /\ UNCHANGED hbVars /\ UNCHANGED clientVars
    BY <1>1 DEF Quiet
  <2>2. TypeOK'
    BY <1>1, ReturnTypes DEF IInv, TypeOK
  <2>3. RepliesHold'
    BY <2>1, QuietFrame, RepliesFrame DEF IInv, Quiet
  <2> QED BY <2>1, <2>2, <2>3, QuietReturn
<1>2. CASE SaveSTH(sth[h])
  <2>1. sth[h] \in STH /\ HeadBounded(sth[h])
    BY DEF IInv, LocalsSet, RootsDurable, Signed
  <2>2. /\ RowsUnique' /\ TreeOfEntries' /\ RebuildSoFar'
        /\ Committed' = Committed
        /\ CoveredLeaves' = CoveredLeaves \cup Leafs(sth[h].rootHash)
        /\ treeHeads' \subseteq STH /\ latestSTH' \in STH
        /\ \A s : RootOfTree(s)' <=> RootOfTree(s)
        /\ \A s : HeadBounded(s)' <=> HeadBounded(s)
        /\ \A s \in treeHeads' : HeadBounded(s)
    BY <1>2, <2>1, SaveEffect
  <2>3. TypeOK'
    BY <1>2, <2>2, ReturnTypes DEF IInv, TypeOK, SaveSTH
  <2>4. /\ pc'[h] = "idle"
        /\ \A g \in Handlers \ {h} : UNCHANGED <<pc[g], body[g], leafIndex[g], rootHash[g], sth[g]>>
    BY DEF IInv, TypeOK, Return
  <2>5. LocalsSet' /\ QuietRebuild' /\ IndexesDrawn'
    BY <1>2, <2>4 DEF IInv, LocalsSet, QuietRebuild, IndexesDrawn, SaveSTH, Working, Rooted, Signed
  <2>6. AppendsNew'
    BY <2>2, <2>4 DEF IInv, AppendsNew, Leafs
  <2>7. RootsDurable'
    BY <2>2, <2>4 DEF IInv, RootsDurable, Signed
  <2>8. BodyCovered'
    <3>1. CoveredAt(h)'
      BY <2>4 DEF CoveredAt, Saved
    <3> QED BY <2>2, <2>4, <3>1, CoveredFrame DEF IInv, BodyCovered, Leafs
  <2>9. RepliesHold'
    BY <1>2, <2>2, RepliesFrame DEF IInv, SaveSTH
  <2> QED BY <2>2, <2>3, <2>5, <2>6, <2>7, <2>8, <2>9 DEF IInv
<1> QED BY <1>1, <1>2

-----------------------------------------------------------------------------
(* Rebuild, heartbeat and crash. *)

(* The row that follows the cursor is new to the tree. *)
LEMMA RebuildNextInv == ASSUME IInv, RebuildNext PROVE IInv'
<1> USE DEF RebuildNext, storeVars, handlerVars, hbVars, clientVars
<1>1. PICK row \in Rows : IsNextRow(row, cursor) /\ tree' = Append(tree, row.leafHash) /\ cursor' = row.leafIndex
  OBVIOUS
<1>2. PICK k \in DOMAIN entries : row = entries[k]
  BY DEF Rows
<1>3. /\ row.leafHash \in Leaves /\ row.leafHash \in Committed
      /\ row.leafIndex \in 0..MaxIndex /\ cursor < row.leafIndex /\ cursor \in Nat
  <2>1. row.leafHash \in Leaves /\ row.leafIndex \in 0..MaxIndex
    BY <1>2, RowTypes DEF IInv
  <2> QED BY <1>1, <2>1 DEF IsNextRow, Committed, IInv, TypeOK
<1>4. /\ tree \in Seq(Leaves) /\ tree' \in Seq(Leaves) /\ Len(tree) \in Nat
      /\ Leafs(tree') = Leafs(tree) \cup {row.leafHash}
      /\ Len(tree') = Len(tree) + 1
      /\ DOMAIN tree' = DOMAIN tree \cup {Len(tree) + 1}
      /\ \A i \in DOMAIN tree : tree'[i] = tree[i]
      /\ tree'[Len(tree) + 1] = row.leafHash
  <2>1. tree \in Seq(Leaves) /\ tree' = Append(tree, row.leafHash)
    BY <1>1 DEF IInv, TypeOK
  <2> QED BY ONLY <1>3, <2>1, LeafsAppend
<1>5. TypeOK' /\ Committed' = Committed
  <2>1. Committed' = Committed
    BY DEF Committed, Rows
  <2>2. TypeOK'
    BY <1>1, <1>3, <1>4 DEF IInv, TypeOK
  <2> QED BY <2>1, <2>2
<1>6. row.leafHash \notin Leafs(tree)
  BY <1>2, <1>3 DEF IInv, RebuildSoFar
<1>7. TreeOfEntries'
  <2>1. Leafs(tree)' \subseteq Committed'
    BY <1>3, <1>4, <1>5 DEF IInv, TreeOfEntries, Leafs
  <2>2. \A i \in DOMAIN tree : tree[i] # row.leafHash
    BY <1>6 DEF Leafs
  <2>3. \A i, j \in DOMAIN tree' : tree'[i] = tree'[j] => i = j
    BY <1>4, <2>2 DEF IInv, TreeOfEntries
  <2> QED BY <2>1, <2>3 DEF TreeOfEntries
<1>8. RebuildSoFar'
  <2>1. SUFFICES ASSUME NEW i \in DOMAIN entries
                 PROVE  entries[i].leafHash \in Leafs(tree') <=> entries[i].leafIndex <= row.leafIndex
    BY <1>1 DEF RebuildSoFar, Leafs
  <2>2. entries[i].leafIndex \in Nat
    BY RowTypes DEF IInv
  <2>3. CASE i = k
    BY <1>2, <1>3, <1>4, <2>3
  <2>4. CASE i # k
    <3>1. entries[i].leafHash # row.leafHash /\ entries[i].leafIndex # row.leafIndex
      BY <1>2, <2>4 DEF IInv, RowsUnique
    <3>2. entries[i].leafIndex > cursor => row.leafIndex <= entries[i].leafIndex
      BY <1>1 DEF IsNextRow, Rows
    <3>3. entries[i].leafHash \in Leafs(tree) <=> entries[i].leafIndex <= cursor
      BY DEF IInv, RebuildSoFar
    <3> QED BY <1>3, <1>4, <2>2, <3>1, <3>2, <3>3
  <2> QED BY <2>3, <2>4
<1>9. LocalsSet' /\ QuietRebuild' /\ RowsUnique' /\ IndexesDrawn'
  BY DEF IInv, LocalsSet, QuietRebuild, RowsUnique, IndexesDrawn
<1>10. \A h \in Handlers : pc[h] = "idle" /\ pc'[h] = "idle"
  BY DEF IInv, QuietRebuild
<1>11. hbPc = "wait"
  BY DEF IInv, QuietRebuild
<1>12. AppendsNew' /\ RootsDurable' /\ BodyCovered'
  <2>1. AppendsNew' /\ BodyCovered'
    BY <1>10 DEF AppendsNew, BodyCovered, CoveredAt, Saved
  <2>2. \A head \in treeHeads : HeadBounded(head)'
    BY <1>5 DEF IInv, RootsDurable, HeadBounded, Leafs
  <2> QED BY <1>10, <1>11, <2>1, <2>2 DEF RootsDurable, Signed
<1>13. RepliesHold'
  BY <1>5, RepliesFrame DEF IInv
<1> QED BY <1>5, <1>7, <1>8, <1>9, <1>12, <1>13 DEF IInv

(* The server starts to listen. *)
LEMMA ListenInv ==
    ASSUME IInv, phase = "rebuild", phase' = "serving", cursor' = 0,
           UNCHANGED <<storeVars, tree, handlerVars, hbVars, clientVars, crashes>>
    PROVE  IInv'
<1> USE DEF storeVars, handlerVars, hbVars, clientVars
<1>1. TypeOK'
  BY MaxIndexAssumption DEF IInv, TypeOK
<1>2. Committed' = Committed /\ CoveredLeaves' = CoveredLeaves
  BY DEF Committed, Rows, CoveredLeaves, Leafs
<1>3. LocalsSet' /\ QuietRebuild' /\ RowsUnique' /\ IndexesDrawn' /\ TreeOfEntries' /\ AppendsNew' /\ RebuildSoFar'
  BY <1>2
  DEF IInv, LocalsSet, QuietRebuild, RowsUnique, IndexesDrawn, TreeOfEntries, AppendsNew, RebuildSoFar, Leafs
<1>4. RootsDurable'
  BY <1>2 DEF IInv, RootsDurable, RootOfTree, HeadBounded, Leafs
<1>5. BodyCovered' /\ RepliesHold'
  BY <1>2, CoveredFrame, RepliesFrame DEF IInv, BodyCovered, Leafs
<1> QED BY <1>1, <1>3, <1>4, <1>5 DEF IInv

(* A step of the heartbeat, or of nobody, keeps what IInv says of every    *)
(* handler.                                                                *)
LEMMA HandlersKeep ==
    ASSUME IInv, UNCHANGED <<handlerVars, entries, lastIndex, tree, phase>>,
           CoveredLeaves \subseteq CoveredLeaves'
    PROVE  /\ IndexesDrawn' /\ AppendsNew' /\ BodyCovered'
           /\ \A h \in Handlers : (pc[h] = "sign" => RootOfTree(rootHash[h]))'
           /\ \A h \in Handlers : (pc[h] \in Signed => HeadBounded(sth[h]))'
<1> USE DEF handlerVars
<1>1. Committed' = Committed
  BY DEF Committed, Rows
<1>2. IndexesDrawn' /\ AppendsNew'
  BY <1>1 DEF IInv, IndexesDrawn, AppendsNew, Leafs
<1>3. BodyCovered'
  BY <1>1, CoveredFrame DEF IInv, BodyCovered, Leafs
<1>4. \A h \in Handlers : (pc[h] = "sign" => RootOfTree(rootHash[h]))'
  BY <1>1 DEF IInv, RootsDurable, RootOfTree, Leafs
<1>5. \A h \in Handlers : (pc[h] \in Signed => HeadBounded(sth[h]))'
  BY <1>1 DEF IInv, RootsDurable, HeadBounded, Leafs
<1> QED BY <1>2, <1>3, <1>4, <1>5

(* The heartbeat takes the root of the tree. *)
LEMMA BeatRootInv == ASSUME IInv, BeatRoot PROVE IInv'
<1> USE DEF BeatRoot, storeVars, handlerVars, clientVars, processVars
<1>1. TypeOK'
  BY DEF IInv, TypeOK
<1>2. Quiet /\ UNCHANGED clientVars
  BY DEF Quiet
<1>3. RowsUnique' /\ TreeOfEntries' /\ RebuildSoFar' /\ RepliesHold'
  BY <1>2, QuietFrame, RepliesFrame DEF IInv, Quiet
<1>4. LocalsSet' /\ QuietRebuild'
  BY DEF IInv, LocalsSet, QuietRebuild
<1>5. RootOfTree(tree)
  BY TreeNoLonger DEF IInv, RootOfTree, TreeOfEntries
<1>6. IndexesDrawn' /\ AppendsNew' /\ BodyCovered' /\ RootsDurable'
  BY <1>2, <1>5, HandlersKeep, QuietFrame DEF IInv, RootsDurable, Quiet
<1> QED BY <1>1, <1>3, <1>4, <1>6 DEF IInv

(* The heartbeat reads the size after the root. *)
LEMMA BeatSignInv == ASSUME IInv, BeatSign PROVE IInv'
<1> USE DEF BeatSign, storeVars, handlerVars, clientVars, processVars
<1>1. HeadBounded(hbSTH') /\ hbSTH' \in STH
  BY TreeNoLonger DEF IInv, TypeOK, RootsDurable, RootOfTree, HeadBounded, STH
<1>2. TypeOK'
  BY <1>1 DEF IInv, TypeOK
<1>3. Quiet /\ UNCHANGED clientVars
  BY DEF Quiet
<1>4. RowsUnique' /\ TreeOfEntries' /\ RebuildSoFar' /\ RepliesHold'
  BY <1>3, QuietFrame, RepliesFrame DEF IInv, Quiet
<1>5. LocalsSet' /\ QuietRebuild'
  BY <1>1 DEF IInv, LocalsSet, QuietRebuild
<1>6. IndexesDrawn' /\ AppendsNew' /\ BodyCovered' /\ RootsDurable'
  BY <1>1, <1>3, HandlersKeep, QuietFrame DEF IInv, RootsDurable, Quiet
<1> QED BY <1>2, <1>4, <1>5, <1>6 DEF IInv

(* BeatSave and BeatError: the head of the heartbeat is saved or dropped. *)
LEMMA BeatDoneInv ==
    ASSUME IInv, BeatDone, SaveSTH(hbSTH) \/ UNCHANGED storeVars
    PROVE  IInv'
<1> USE DEF BeatDone, handlerVars, clientVars, processVars
<1>1. hbSTH \in STH /\ HeadBounded(hbSTH)
  BY DEF IInv, LocalsSet, RootsDurable
<1>2. CASE SaveSTH(hbSTH)
  <2>1. /\ RowsUnique' /\ TreeOfEntries' /\ RebuildSoFar'
        /\ Committed' = Committed
        /\ CoveredLeaves' = CoveredLeaves \cup Leafs(hbSTH.rootHash)
        /\ treeHeads' \subseteq STH /\ latestSTH' \in STH
        /\ \A s : HeadBounded(s)' <=> HeadBounded(s)
        /\ \A s \in treeHeads' : HeadBounded(s)
    BY <1>1, <1>2, SaveEffect
  <2>2. TypeOK'
    BY <1>2, <2>1 DEF IInv, TypeOK, SaveSTH
  <2>3. LocalsSet' /\ QuietRebuild'
    BY DEF IInv, LocalsSet, QuietRebuild
  <2>4. IndexesDrawn' /\ AppendsNew' /\ BodyCovered' /\ RootsDurable'
    BY <1>2, <2>1, HandlersKeep DEF IInv, RootsDurable, SaveSTH
  <2>5. RepliesHold'
    BY <1>2, <2>1, RepliesFrame DEF IInv, SaveSTH
  <2> QED BY <2>1, <2>2, <2>3, <2>4, <2>5 DEF IInv
<1>3. CASE UNCHANGED storeVars
  <2> USE <1>3 DEF storeVars
  <2>1. TypeOK'
    BY DEF IInv, TypeOK
  <2>2. Quiet /\ UNCHANGED clientVars
    BY DEF Quiet
  <2>3. RowsUnique' /\ TreeOfEntries' /\ RebuildSoFar' /\ RepliesHold'
    BY <2>2, QuietFrame, RepliesFrame DEF IInv, Quiet
  <2>4. LocalsSet' /\ QuietRebuild'
    BY DEF IInv, LocalsSet, QuietRebuild
  <2>5. IndexesDrawn' /\ AppendsNew' /\ BodyCovered' /\ RootsDurable'
    BY <2>2, HandlersKeep, QuietFrame DEF IInv, RootsDurable, Quiet
  <2> QED BY <2>1, <2>3, <2>4, <2>5 DEF IInv
<1> QED BY <1>2, <1>3

(* A restart empties the process and leaves the tables as they are. *)
LEMMA RestartInv ==
    ASSUME IInv, crashes' \in 0..MaxCrashes,
           phase' = "rebuild" /\ cursor' = 0 /\ tree' = <<>>,
           pc' = Each("idle") /\ body' = Each(Nil) /\ leafIndex' = Each(0),
           rootHash' = Each(<<>>) /\ sth' = Each(Nil) /\ compact' = Each(0),
           hbPc' = "wait" /\ hbRoot' = <<>> /\ hbSTH' = Nil,
           UNCHANGED <<storeVars, clientVars>>
    PROVE  IInv'
<1> USE DEF Each, storeVars, clientVars
<1>1. \A h \in Handlers : pc'[h] = "idle"
  OBVIOUS
<1>2. <<>> \in Seq(Leaves) /\ 0 \in 0..MaxIndex
  BY MaxIndexAssumption
<1>3. TypeOK'
  BY <1>2 DEF IInv, TypeOK
<1>4. Committed' = Committed /\ CoveredLeaves' = CoveredLeaves /\ Leafs(tree)' = {}
  BY DEF Committed, Rows, CoveredLeaves, Leafs
<1>5. LocalsSet' /\ QuietRebuild' /\ RowsUnique' /\ AppendsNew'
  BY <1>1 DEF IInv, LocalsSet, QuietRebuild, RowsUnique, AppendsNew, Working, Rooted, Signed
<1>6. IndexesDrawn' /\ TreeOfEntries'
  BY <1>1, <1>4 DEF IInv, IndexesDrawn, TreeOfEntries
<1>7. RebuildSoFar'
  <2>1. \A i \in DOMAIN entries : entries[i].leafIndex \in Nat /\ ~(entries[i].leafIndex <= 0)
    BY RowTypes DEF IInv
  <2> QED BY <1>4, <2>1 DEF RebuildSoFar
<1>8. RootsDurable' /\ BodyCovered'
  <2>1. \A head \in treeHeads : HeadBounded(head)'
    BY <1>4 DEF IInv, RootsDurable, HeadBounded, Leafs
  <2> QED BY <1>1, <2>1 DEF RootsDurable, BodyCovered, CoveredAt, Signed, Saved
<1>9. RepliesHold'
  BY <1>4, RepliesFrame DEF IInv
<1> QED BY <1>3, <1>5, <1>6, <1>7, <1>8, <1>9 DEF IInv

-----------------------------------------------------------------------------
(* The invariant. *)

(* The tables and the process start empty. *)
LEMMA InitInv == Init => IInv
<1> SUFFICES ASSUME Init PROVE IInv
  OBVIOUS
<1> USE DEF Init, StoreInit, Each
<1>1. <<>> \in Seq(Leaves) /\ 0 \in 0..MaxIndex /\ 0 \in 0..MaxCrashes
      /\ <<>> \in Seq([leafIndex : 1..MaxIndex, leafHash : Leaves])
  BY MaxIndexAssumption, MaxCrashesAssumption
<1>2. TypeOK
  BY <1>1 DEF TypeOK
<1>3. Committed = {} /\ CoveredLeaves = {} /\ Leafs(tree) = {}
  BY DEF Committed, Rows, CoveredLeaves, Leafs
<1>4. LocalsSet /\ QuietRebuild /\ RowsUnique /\ IndexesDrawn /\ TreeOfEntries /\ AppendsNew /\ RebuildSoFar
  BY <1>3
  DEF LocalsSet, QuietRebuild, RowsUnique, IndexesDrawn, TreeOfEntries, AppendsNew, RebuildSoFar,
      Working, Rooted, Signed
<1>5. RootsDurable /\ BodyCovered /\ RepliesHold
  BY <1>3 DEF RootsDurable, BodyCovered, CoveredAt, RepliesHold, Signed, Saved
<1> QED BY <1>2, <1>4, <1>5 DEF IInv

(* A step that changes nothing keeps everything. *)
LEMMA StutterInv == IInv /\ UNCHANGED vars => IInv'
<1> SUFFICES ASSUME IInv, UNCHANGED vars PROVE IInv'
  OBVIOUS
<1> USE DEF vars, storeVars, handlerVars, hbVars, clientVars, processVars
<1>1. TypeOK'
  BY DEF IInv, TypeOK
<1>2. Quiet /\ UNCHANGED clientVars
  BY DEF Quiet
<1>3. RowsUnique' /\ TreeOfEntries' /\ RebuildSoFar' /\ RepliesHold'
  BY <1>2, QuietFrame, RepliesFrame DEF IInv, Quiet
<1>4. LocalsSet' /\ QuietRebuild'
  BY DEF IInv, LocalsSet, QuietRebuild
<1>5. IndexesDrawn' /\ AppendsNew' /\ BodyCovered' /\ RootsDurable'
  BY <1>2, HandlersKeep, QuietFrame DEF IInv, RootsDurable, Quiet
<1> QED BY <1>1, <1>3, <1>4, <1>5 DEF IInv

(* Every step keeps the invariant. *)
LEMMA NextInv == IInv /\ [Next]_vars => IInv'
<1> SUFFICES ASSUME IInv, [Next]_vars PROVE IInv'
  OBVIOUS
<1>1. CASE RebuildNext
  BY <1>1, RebuildNextInv
<1>2. CASE RebuildDone
  BY <1>2, ListenInv DEF RebuildDone
<1>3. ASSUME NEW h \in Handlers, Receive(h) PROVE IInv'
  BY <1>3, ReceiveInv
<1>4. ASSUME NEW h \in Handlers, Handle(h) PROVE IInv'
  BY <1>4, DedupMissInv, DedupConflictInv, DedupErrorInv, InsertBeginInv, InsertCommitInv,
     InsertErrorInv, InsertAckLostInv, TreeAppendInv, ComputeRootInv, SignInv, SaveHeadInv,
     SaveHeadErrorInv, CompactStateInv, SaveStateInv, SaveStateErrorInv, ReplyInv
  DEF Handle
<1>5. CASE Beat
  BY <1>5, BeatRootInv, BeatSignInv, BeatDoneInv DEF Beat, BeatSave, BeatError
<1>6. CASE Crash
  <2>1. crashes' \in 0..MaxCrashes
    BY <1>6, MaxCrashesAssumption DEF Crash, IInv, TypeOK
  <2> QED BY <1>6, <2>1, RestartInv DEF Crash
<1>7. CASE UNCHANGED vars
  BY <1>7, StutterInv
<1> QED BY <1>1, <1>2, <1>3, <1>4, <1>5, <1>6, <1>7 DEF Next

(* The inductive invariant holds of every state of the server, for any     *)
(* number of handlers, leaves, indexes, crashes and any faults.            *)
THEOREM Invariance == Spec => []IInv
<1>1. Init => IInv
  BY InitInv
<1>2. IInv /\ [Next]_vars => IInv'
  BY NextInv
<1> QED BY <1>1, <1>2, PTL DEF Spec

-----------------------------------------------------------------------------
(* Theorems. *)

(* Every variable keeps its type, for every value of the constants. *)
THEOREM TypeCorrect == Spec => []TypeOK
<1>1. IInv => TypeOK
  BY DEF IInv
<1> QED BY <1>1, Invariance, PTL

(* However many handlers race between their dedup check and their INSERT,  *)
(* and whatever fails, the tree holds no leaf twice and only leaves that   *)
(* are durable.                                                            *)
THEOREM TreeHoldsEntriesOnce == Spec => []TreeOfEntries
<1>1. IInv => TreeOfEntries
  BY DEF IInv
<1> QED BY <1>1, Invariance, PTL

(* A saved root never covers a leaf that a crash could lose. *)
THEOREM RootsCoverDurableEntries == Spec => []HeadsDurable
<1>1. IInv => HeadsDurable
  BY DEF IInv, RootsDurable, HeadBounded, HeadsDurable, CoveredLeaves
<1> QED BY <1>1, Invariance, PTL

(* A 201 stands for a durable leaf under a saved root, a 409 for a durable *)
(* leaf, from the moment of the reply and for ever.                        *)
THEOREM RepliesAreKept == Spec => []RepliesHold
<1>1. IInv => RepliesHold
  BY DEF IInv
<1> QED BY <1>1, Invariance, PTL

(* The size in a saved head is at least the number of leaves under its     *)
(* root and at most the number of entries.                                 *)
THEOREM SizesAreBounded == Spec => []HeadSizesBounded
<1>1. IInv => HeadSizesBounded
  BY DEF IInv, RootsDurable, HeadBounded, HeadSizesBounded
<1> QED BY <1>1, Invariance, PTL

(* While the tree is rebuilt, every row is in it or ahead of the cursor. *)
LEMMA RebuildLosesNothing ==
    ASSUME IInv, phase = "rebuild" PROVE NoLostEntry
<1> SUFFICES ASSUME NEW i \in DOMAIN entries
             PROVE  entries[i].leafHash \in Leafs(tree) \/ entries[i].leafIndex > cursor
  BY DEF NoLostEntry, Rows
<1>1. TypeOK /\ cursor \in Nat
  BY DEF IInv, TypeOK
<1>2. entries[i].leafIndex \in Nat
  BY <1>1, RowTypes
<1> QED BY <1>1, <1>2 DEF IInv, RebuildSoFar

(* A step that does not touch the rows or the tree, and moves no handler   *)
(* away from its Append, loses nothing.                                    *)
LEMMA NoLostFrame ==
    ASSUME NoLostEntry, UNCHANGED <<entries, tree, phase, cursor>>,
           \A h \in Handlers : pc[h] = "append" => pc'[h] = "append" /\ body'[h] = body[h]
    PROVE  NoLostEntry'
BY DEF NoLostEntry, Rows, Leafs

(* A step that is told of every commit loses no entry to the tree. *)
LEMMA NoLostNext ==
    ASSUME "insertAck" \notin Faults, IInv, IInv', NoLostEntry, [Next]_vars
    PROVE  NoLostEntry'
<1> USE DEF storeVars, handlerVars, hbVars, clientVars, processVars
<1>1. CASE RebuildNext \/ Crash
  <2>1. phase' = "rebuild"
    BY <1>1 DEF RebuildNext, Crash
  <2>2. (IInv /\ phase = "rebuild" => NoLostEntry)'
    BY RebuildLosesNothing, PTL
  <2> QED BY <2>1, <2>2
<1>2. CASE RebuildDone
  <2>1. \A row \in Rows : row.leafHash \in Leafs(tree)
    BY <1>2 DEF RebuildDone, IInv, RebuildSoFar, Rows
  <2> QED BY <1>2, <2>1 DEF RebuildDone, NoLostEntry, Rows, Leafs
<1>3. ASSUME NEW h \in Handlers, Receive(h) \/ Handle(h) PROVE NoLostEntry'
  <2>1. CASE InsertCommit(h)
    <3>1. leafIndex[h] \in 1..MaxIndex /\ body[h] \in Leaves
      BY <2>1 DEF InsertCommit, Goto, IInv, TypeOK, LocalsSet, Working
    <3>2. \A g \in Handlers : pc[g] = "append" => pc'[g] = "append"
      BY <2>1 DEF InsertCommit, Goto, IInv, TypeOK
    <3>3. \A row \in Rows' : row \in Rows \/ row.leafHash = body[h]
      <4>1. CommitRow(leafIndex[h], body[h])
        BY <2>1 DEF InsertCommit
      <4>2. /\ DOMAIN entries' = DOMAIN entries \cup {Len(entries) + 1}
            /\ \A i \in DOMAIN entries : entries'[i] = entries[i]
            /\ entries'[Len(entries) + 1] = [leafIndex |-> leafIndex[h], leafHash |-> body[h]]
        BY <3>1, <4>1, CommitRowEffect DEF IInv
      <4> QED BY <4>2 DEF Rows
    <3>4. pc'[h] = "append" /\ UNCHANGED <<tree, body, phase, cursor>>
      BY <2>1 DEF InsertCommit, Goto, IInv, TypeOK
    <3> QED BY <3>2, <3>3, <3>4 DEF NoLostEntry, Leafs
  <2>2. CASE TreeAppend(h)
    <3>1. body[h] \in Leaves /\ tree \in Seq(Leaves) /\ tree' = Append(tree, body[h])
      BY <2>2 DEF TreeAppend, Goto, IInv, TypeOK, LocalsSet, Working
    <3>2. Leafs(tree') = Leafs(tree) \cup {body[h]}
      BY <3>1, LeafsAppend
    <3>3. \A g \in Handlers : pc[g] = "append" /\ g # h => pc'[g] = "append"
      BY <2>2 DEF TreeAppend, Goto, IInv, TypeOK
    <3>4. UNCHANGED <<entries, body, phase, cursor>>
      BY <2>2 DEF TreeAppend, Goto, storeVars, processVars
    <3>5. Rows' = Rows
      BY <3>4 DEF Rows
    <3> QED BY <3>2, <3>3, <3>4, <3>5 DEF NoLostEntry
  <2>3. CASE ~InsertCommit(h) /\ ~TreeAppend(h)
    <3>1. UNCHANGED <<entries, tree, phase, cursor>> /\ pc[h] # "append"
      BY <1>3, <2>3
      DEF Handle, Receive, DedupMiss, DedupConflict, DedupError, InsertBegin, InsertError, InsertAckLost,
          ComputeRoot, Sign, SaveHead, SaveHeadError, CompactState, SaveState, SaveStateError, Reply,
          Goto, InternalError, DrawIndex, SaveSTH, SaveTreeState
    <3>2. \A g \in Handlers \ {h} : pc'[g] = pc[g] /\ body'[g] = body[g]
      BY <1>3, OthersUntouched
    <3> QED BY <3>1, <3>2, NoLostFrame
  <2> QED BY <2>1, <2>2, <2>3
<1>4. CASE Beat
  BY <1>4, NoLostFrame DEF Beat, BeatRoot, BeatSign, BeatSave, BeatError, BeatDone, SaveSTH
<1>5. CASE UNCHANGED vars
  BY <1>5, NoLostFrame DEF vars
<1> QED BY <1>1, <1>2, <1>3, <1>4, <1>5 DEF Next

(* As long as no INSERT is committed whose result is lost, no committed    *)
(* entry is ever missing from the tree without someone about to append it. *)
THEOREM NothingLost == ASSUME "insertAck" \notin Faults PROVE Spec => []NoLostEntry
<1>1. Init => NoLostEntry
  BY DEF Init, StoreInit, NoLostEntry, Rows
<1>2. IInv /\ IInv' /\ NoLostEntry /\ [Next]_vars => NoLostEntry'
  BY NoLostNext
<1> QED BY <1>1, <1>2, Invariance, PTL DEF Spec

-----------------------------------------------------------------------------
(* The index of a reply. *)

(* No step deletes or changes a row. *)
LEMMA RowsGrow == ASSUME IInv, [Next]_vars PROVE Rows \subseteq Rows'
<1> USE DEF storeVars, handlerVars, hbVars, clientVars, processVars
<1>1. ASSUME NEW h \in Handlers, InsertCommit(h) \/ InsertAckLost(h) PROVE Rows \subseteq Rows'
  <2>1. leafIndex[h] \in 1..MaxIndex /\ body[h] \in Leaves /\ CommitRow(leafIndex[h], body[h])
    BY <1>1 DEF InsertCommit, InsertAckLost, InternalError, Goto, IInv, TypeOK, LocalsSet, Working
  <2>2. /\ DOMAIN entries' = DOMAIN entries \cup {Len(entries) + 1}
        /\ \A i \in DOMAIN entries : entries'[i] = entries[i]
    BY <2>1, CommitRowEffect DEF IInv
  <2> QED BY <2>2 DEF Rows
<1>2. ASSUME NEW h \in Handlers, Receive(h) \/ Handle(h), ~InsertCommit(h), ~InsertAckLost(h)
      PROVE  Rows \subseteq Rows'
  BY <1>2
  DEF Handle, Receive, DedupMiss, DedupConflict, DedupError, InsertBegin, InsertError, TreeAppend,
      ComputeRoot, Sign, SaveHead, SaveHeadError, CompactState, SaveState, SaveStateError, Reply,
      DrawIndex, SaveSTH, SaveTreeState, Rows
<1>3. CASE RebuildNext \/ RebuildDone \/ Crash \/ UNCHANGED vars
  BY <1>3 DEF RebuildNext, RebuildDone, Crash, vars, Rows
<1>4. CASE Beat
  BY <1>4 DEF Beat, BeatRoot, BeatSign, BeatSave, BeatError, BeatDone, SaveSTH, Rows
<1> QED BY <1>1, <1>2, <1>3, <1>4 DEF Next

(* A handler that commits knows its row afterwards, a handler that replies *)
(* tells its client, and nobody forgets.                                   *)
LEMMA RepliesAtRowNext ==
    ASSUME IInv, RepliesAtRow, [Next]_vars
    PROVE  RepliesAtRow'
<1> USE DEF storeVars, handlerVars, hbVars, clientVars, processVars
<1> DEFINE Placed == {"append", "root"} \cup Rooted
           At(h) == [leafIndex |-> leafIndex[h], leafHash |-> body[h]] \in Rows
<1>1. Rows \subseteq Rows'
  BY RowsGrow
<1>2. SUFFICES /\ \A h \in Handlers : pc'[h] \in Placed => At(h)'
               /\ \A r \in created' : [leafIndex |-> r.leafIndex + 1, leafHash |-> r.leaf] \in Rows'
  BY DEF RepliesAtRow
<1>3. /\ \A h \in Handlers : pc[h] \in Placed => At(h)
      /\ \A r \in created : [leafIndex |-> r.leafIndex + 1, leafHash |-> r.leaf] \in Rows
  BY DEF RepliesAtRow
<1>4. CASE RebuildNext \/ RebuildDone \/ Crash \/ Beat \/ UNCHANGED vars
  <2>1. UNCHANGED <<leafIndex, body, pc>> \/ \A h \in Handlers : pc'[h] = "idle"
    BY <1>4 DEF RebuildNext, RebuildDone, Crash, Each, Beat, BeatRoot, BeatSign, BeatSave, BeatError,
                BeatDone, vars
  <2>2. UNCHANGED created
    BY <1>4 DEF RebuildNext, RebuildDone, Crash, Beat, BeatRoot, BeatSign, BeatSave, BeatError,
                BeatDone, vars
  <2> QED BY <1>1, <1>3, <2>1, <2>2 DEF Rooted, Signed
<1>5. ASSUME NEW h \in Handlers, Receive(h) \/ Handle(h)
      PROVE  /\ \A g \in Handlers : pc'[g] \in Placed => At(g)'
             /\ \A r \in created' : [leafIndex |-> r.leafIndex + 1, leafHash |-> r.leaf] \in Rows'
  <2>1. \A g \in Handlers \ {h} : pc'[g] = pc[g] /\ body'[g] = body[g] /\ leafIndex'[g] = leafIndex[g]
    BY <1>5
    DEF Handle, Receive, DedupMiss, DedupConflict, DedupError, InsertBegin, InsertCommit, InsertError,
        InsertAckLost, TreeAppend, ComputeRoot, Sign, SaveHead, SaveHeadError, CompactState, SaveState,
        SaveStateError, Reply, Goto, InternalError, Return, IInv, TypeOK
  <2>2. pc'[h] \in Placed => At(h)'
    <3>1. CASE InsertCommit(h)
      <4>1. leafIndex[h] \in 1..MaxIndex /\ body[h] \in Leaves /\ CommitRow(leafIndex[h], body[h])
        BY <3>1 DEF InsertCommit, Goto, IInv, TypeOK, LocalsSet, Working
      <4>2. /\ DOMAIN entries' = DOMAIN entries \cup {Len(entries) + 1}
            /\ entries'[Len(entries) + 1] = [leafIndex |-> leafIndex[h], leafHash |-> body[h]]
        BY <4>1, CommitRowEffect DEF IInv
      <4> QED BY <3>1, <4>2 DEF InsertCommit, Rows
    <3>2. CASE ~InsertCommit(h)
      <4>1. pc'[h] \in Placed => pc[h] \in Placed /\ UNCHANGED <<leafIndex, body>>
        BY <1>5, <3>2
        DEF Handle, Receive, DedupMiss, DedupConflict, DedupError, InsertBegin, InsertError,
            InsertAckLost, TreeAppend, ComputeRoot, Sign, SaveHead, SaveHeadError, CompactState,
            SaveState, SaveStateError, Reply, Goto, InternalError, Return, IInv, TypeOK, Rooted, Signed
      <4> QED BY <1>1, <1>3, <4>1
    <3> QED BY <3>1, <3>2
  <2>3. ASSUME NEW r \in created'
        PROVE  [leafIndex |-> r.leafIndex + 1, leafHash |-> r.leaf] \in Rows'
    <3>1. CASE r \in created
      BY <1>1, <1>3, <3>1
    <3>2. CASE r \notin created
      <4>1. Reply(h)
        BY <1>5, <3>2
        DEF Handle, Receive, DedupMiss, DedupConflict, DedupError, InsertBegin, InsertCommit,
            InsertError, InsertAckLost, TreeAppend, ComputeRoot, Sign, SaveHead, SaveHeadError,
            CompactState, SaveState, SaveStateError, InternalError
      <4>2. At(h) /\ leafIndex[h] \in Nat
        BY <4>1, <1>3, MaxIndexAssumption DEF Reply, Rooted, Signed, IInv, TypeOK
      <4>3. r.leafIndex = leafIndex[h] - 1 /\ r.leaf = body[h]
        BY <4>1, <3>2 DEF Reply
      <4>4. r.leafIndex + 1 = leafIndex[h]
        BY <4>2, <4>3
      <4> QED BY <1>1, <4>2, <4>3, <4>4
    <3> QED BY <3>1, <3>2
  <2> QED BY <1>1, <1>3, <2>1, <2>2, <2>3
<1> QED BY <1>2, <1>4, <1>5 DEF Next

(* Two rows with the same index are one row. *)
LEMMA RowAtIsUnique ==
    ASSUME IInv, NEW index, NEW l, [leafIndex |-> index + 1, leafHash |-> l] \in Rows
    PROVE  GetEntry(index) = l
<1>1. PICK i \in DOMAIN entries : entries[i] = [leafIndex |-> index + 1, leafHash |-> l]
  BY DEF Rows
<1>2. \A row \in RowsAt(index + 1) : row = entries[i]
  BY <1>1 DEF RowsAt, Rows, IInv, RowsUnique
<1>3. entries[i] \in RowsAt(index + 1)
  BY <1>1 DEF RowsAt, Rows
<1>4. PICK row \in RowsAt(index + 1) : GetEntry(index) = row.leafHash
  BY <1>3 DEF GetEntry
<1> QED BY <1>1, <1>2, <1>4

(* The index in a 201 retrieves the entry that was submitted, whoever else *)
(* submits, whatever fails and however often the server is restarted.      *)
THEOREM RepliesRetrieve == Spec => []EntryRetrieved
<1>1. Init => RepliesAtRow
  BY DEF Init, RepliesAtRow, Each, Rooted, Signed
<1>2. IInv /\ RepliesAtRow /\ [Next]_vars => RepliesAtRow'
  BY RepliesAtRowNext
<1>3. IInv /\ RepliesAtRow => EntryRetrieved
  BY RowAtIsUnique DEF EntryRetrieved, RepliesAtRow
<1> QED BY <1>1, <1>2, <1>3, Invariance, PTL DEF Spec
=============================================================================
