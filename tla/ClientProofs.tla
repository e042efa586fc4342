---------------------------- MODULE ClientProofs ----------------------------
(***************************************************************************)
(* Theorems about what works on the log from outside a handler.            *)
(*                                                                         *)
(* ReadApi, while requests and beats do not overlap: no proof is refused   *)
(* or fails, and an entry below the size of a head is retrieved and proved *)
(* by its index.                                                           *)
(*                                                                         *)
(* Seeder: SeedInv of SeederInv is inductive for one handler, any leaves,  *)
(* indexes and crashes, and every failure but a row that is committed and  *)
(* reported as refused.  From it: what is signed is durable whatever the   *)
(* seeder passes over, and until it passes over an error all heads are of  *)
(* one log, which the restarted server serves.                             *)
(*                                                                         *)
(* BenchClient, next to any number of other clients, with the heartbeat,   *)
(* any crashes and any failure: BenchInv of BenchClientInv is inductive,   *)
(* samples ascend and proofs are served.                                   *)
(***************************************************************************)
EXTENDS ReadApi, SeederInv, BenchClientInv, SerialProofs
-----------------------------------------------------------------------------
(* A step of the server next to the monitor is a step of the server. *)
LEMMA ServerUnderMonitor == SerialReadSpec => SerialSpec
<1>1. ReadInit => Init
  BY DEF ReadInit
<1>2. [ReadNext /\ OneAtATime']_<<vars, monitorVars>> => [Next /\ OneAtATime']_vars
  BY DEF ReadNext, GetSTH, GetConsistencyProof
<1> QED BY <1>1, <1>2, PTL DEF SerialReadSpec, SerialSpec

(* Of two sequences of the first rows the shorter is cut from the longer. *)
LEMMA CutOfRows ==
    ASSUME NEW s \in Seq(Leaves), NEW t \in Seq(Leaves), OfRows(s), OfRows(t), Len(s) <= Len(t)
    PROVE  SubSeq(t, 1, Len(s)) = s /\ SubSeq(t, 1, Len(s)) # Nil
<1>1. Len(s) \in Nat /\ Len(t) \in Nat /\ DOMAIN s = 1..Len(s) /\ DOMAIN t = 1..Len(t)
  OBVIOUS
<1>2. \A i \in 1..Len(s) : s[i] = t[i]
  BY <1>1 DEF OfRows
<1>3. /\ SubSeq(t, 1, Len(s)) \in Seq(Leaves) /\ Len(SubSeq(t, 1, Len(s))) = Len(s)
      /\ \A i \in 1..Len(s) : SubSeq(t, 1, Len(s))[i] = t[i]
  BY <1>1
<1>4. SubSeq(t, 1, Len(s)) = s
  BY <1>1, <1>2, <1>3
<1> QED BY <1>4, NilAssumption

(* A saved head is a cut of the served tree. *)
LEMMA HeadIsCut ==
    ASSUME IInv, SInv, phase = "serving", NEW head \in treeHeads
    PROVE  /\ head.treeSize \in Nat /\ Len(tree) \in Nat /\ head.treeSize <= Len(tree)
           /\ head.rootHash \in Seq(Leaves) /\ Len(head.rootHash) = head.treeSize /\ OfRows(head.rootHash)
           /\ SubSeq(tree, 1, head.treeSize) = head.rootHash
           /\ head.rootHash # Nil
<1>1. /\ head.treeSize \in Nat /\ Len(tree) \in Nat /\ tree \in Seq(Leaves)
      /\ head.rootHash \in Seq(Leaves)
  BY DEF IInv, TypeOK, STH
<1>2. /\ head.treeSize <= Len(tree) /\ head.treeSize = Len(head.rootHash)
      /\ OfRows(head.rootHash) /\ OfRows(tree)
  BY DEF SInv, HeadsInOrder, Served, TreeInOrder
<1> QED BY <1>1, <1>2, CutOfRows
-----------------------------------------------------------------------------
(* What the monitor holds are saved heads, the trusted one not larger than *)
(* the fetched one, neither larger than the latest.                        *)
MonitorInv ==
    /\ trusted # Nil => trusted \in treeHeads /\ trusted.treeSize <= latestSTH.treeSize
    /\ fetched # Nil => /\ trusted # Nil /\ fetched \in treeHeads
                        /\ trusted.treeSize <= fetched.treeSize
                        /\ fetched.treeSize <= latestSTH.treeSize
    /\ ~alarm

(* Both roots are recomputed from a tree that extends both heads. *)
LEMMA ProofVerifies ==
    ASSUME IInv, SInv, phase = "serving", NEW old \in treeHeads, NEW new \in treeHeads,
           old.treeSize <= new.treeSize
    PROVE  LET proof == ConsistencyProof(old.treeSize, new.treeSize)
           IN  proof # Nil /\ VerifyConsistency(old, new, proof)
<1> DEFINE proof == ConsistencyProof(old.treeSize, new.treeSize)
<1>1. /\ old.treeSize \in Nat /\ new.treeSize \in Nat /\ Len(tree) \in Nat
      /\ new.treeSize <= Len(tree)
      /\ SubSeq(tree, 1, old.treeSize) = old.rootHash /\ SubSeq(tree, 1, new.treeSize) = new.rootHash
      /\ old.rootHash \in Seq(Leaves) /\ new.rootHash \in Seq(Leaves)
  BY HeadIsCut
<1>2. proof = [first |-> old.rootHash, second |-> new.rootHash]
  <2>1. ~(old.treeSize > new.treeSize \/ new.treeSize > Len(tree))
    BY <1>1
  <2> QED BY <1>1, <2>1, Zenon DEF ConsistencyProof
<1>3. proof # Nil
  BY <1>1, <1>2, NoProofAssumption DEF ConsistencyProofs
<1>4. proof.first = old.rootHash /\ proof.second = new.rootHash
  BY <1>2
<1> HIDE DEF proof
<1>5. old.treeSize < new.treeSize \/ (old.treeSize = new.treeSize /\ old.rootHash = new.rootHash)
  <2>1. old.treeSize < new.treeSize \/ old.treeSize = new.treeSize
    BY <1>1
  <2>2. old.treeSize = new.treeSize => old.rootHash = new.rootHash
    BY <1>1, Zenon
  <2> QED BY <2>1, <2>2
<1>6. VerifyConsistency(old, new, proof)
  BY <1>4, <1>5, Zenon DEF VerifyConsistency
<1> QED BY <1>3, <1>6 DEF proof

LEMMA MonitorNext ==
    ASSUME IInv, SInv, OneAtATime, "insertAck" \notin Faults, MonitorInv,
           [ReadNext]_<<vars, monitorVars>>
    PROVE  MonitorInv'
<1>1. /\ latestSTH # Nil => latestSTH \in treeHeads
      /\ \A head \in treeHeads : head.treeSize \in Nat
  BY DEF SInv, HeadsInOrder, IInv, TypeOK, STH
<1>2. ASSUME [Next]_vars, UNCHANGED monitorVars PROVE MonitorInv'
  <2>1. treeHeads \subseteq treeHeads'
    BY <1>2, StoreSteps DEF InsertCommit, CommitRow, SaveSTH, SaveTreeState
  <2>2. \/ UNCHANGED latestSTH
        \/ \A head \in treeHeads : head.treeSize <= latestSTH'.treeSize
    BY <1>2, SizesGrow
  <2> QED BY <1>2, <2>1, <2>2 DEF MonitorInv, monitorVars
<1>3. CASE GetSTH
  <2>1. /\ UNCHANGED <<treeHeads, latestSTH, alarm>> /\ latestSTH \in treeHeads
        /\ latestSTH.treeSize <= latestSTH.treeSize
    BY <1>1, <1>3 DEF GetSTH, vars, storeVars
  <2> QED BY <1>3, <2>1 DEF GetSTH, MonitorInv
<1>4. CASE GetConsistencyProof
  <2>1. UNCHANGED <<treeHeads, latestSTH>> /\ phase = "serving" /\ fetched # Nil /\ fetched' = Nil
    BY <1>4 DEF GetConsistencyProof, vars, storeVars
  <2>2. LET proof == ConsistencyProof(trusted.treeSize, fetched.treeSize)
        IN  proof # Nil /\ VerifyConsistency(trusted, fetched, proof)
    BY <2>1, ProofVerifies DEF MonitorInv
  <2>3. trusted' = fetched /\ UNCHANGED alarm
    BY <1>4, <2>2 DEF GetConsistencyProof
  <2> QED BY <2>1, <2>3 DEF MonitorInv
<1> QED BY <1>2, <1>3, <1>4 DEF ReadNext, vars

(* A monitor that follows the log never sees a proof refused or fail, over *)
(* restarts between its two requests too (handlers.go:198-242,             *)
(* proof.go:26-43).                                                        *)
THEOREM MonitorNeverAlarmed ==
    ASSUME "insertAck" \notin Faults
    PROVE  SerialReadSpec => []NoAlarm
<1>1. ReadInit => MonitorInv
  BY DEF ReadInit, MonitorInv
<1>2. IInv /\ SInv /\ OneAtATime /\ MonitorInv /\ [ReadNext /\ OneAtATime']_<<vars, monitorVars>>
      => MonitorInv'
  BY MonitorNext
<1>3. MonitorInv => NoAlarm
  BY DEF MonitorInv, NoAlarm
<1> QED BY <1>1, <1>2, <1>3, ServerUnderMonitor, SerialInvariance, PTL DEF SerialReadSpec
-----------------------------------------------------------------------------
(* As long as no value of the sequence was wasted, the index of a row is   *)
(* its place.                                                              *)
LEMMA IndexIsPlace ==
    ASSUME IInv, SInv, lastIndex = Len(entries), NEW i \in DOMAIN entries
    PROVE  entries[i].leafIndex = i
<1>1. /\ Len(entries) \in Nat /\ i \in Nat /\ entries[i].leafIndex \in Nat
  BY RowNumbers DEF IInv
<1>2. i <= entries[i].leafIndex /\ entries[i].leafIndex + Len(entries) <= lastIndex + i
  BY DEF SInv, RowsAscend
<1> QED BY <1>1, <1>2

LEMMA EntryIncluded ==
    ASSUME IInv, SInv, phase = "serving", lastIndex = Len(entries),
           NEW head \in treeHeads, NEW index \in 0..(head.treeSize - 1)
    PROVE  LET path == InclusionProof(index, head.treeSize)
           IN  path # Nil /\ VerifyInclusion(index, GetEntry(index), head.rootHash, path)
<1> DEFINE root == head.rootHash
<1>1. /\ head.treeSize \in Nat /\ Len(tree) \in Nat /\ head.treeSize <= Len(tree)
      /\ root \in Seq(Leaves) /\ Len(root) = head.treeSize /\ OfRows(root)
      /\ SubSeq(tree, 1, head.treeSize) = root /\ root # Nil
  BY HeadIsCut
<1>2. /\ index + 1 \in DOMAIN root /\ index + 1 \in DOMAIN entries /\ index < head.treeSize
  <2>1. Len(entries) \in Nat /\ DOMAIN entries = 1..Len(entries) /\ Len(root) <= Len(entries)
    BY <1>1, RowNumbers DEF IInv, OfRows
  <2> QED BY <1>1, <2>1
<1>3. InclusionProof(index, head.treeSize) = root
  <2>1. ~(index >= head.treeSize \/ head.treeSize > Len(tree))
    BY <1>1, <1>2
  <2> QED BY <1>1, <2>1, Zenon DEF InclusionProof
<1>4. entries[index + 1] = [leafIndex |-> index + 1, leafHash |-> entries[index + 1].leafHash]
  <2>1. entries[index + 1].leafIndex = index + 1
    BY <1>2, IndexIsPlace
  <2> DEFINE Row == [leafIndex : 1..MaxIndex, leafHash : Leaves]
  <2>2. entries \in Seq(Row)
    BY DEF IInv, TypeOK
  <2> HIDE DEF Row
  <2>3. entries[index + 1] \in Row
    BY <1>2, <2>2
  <2> QED BY <2>1, <2>3 DEF Row
<1>5. GetEntry(index) = entries[index + 1].leafHash
  BY <1>2, <1>4, RowAtIsUnique DEF Rows
<1>6. root[index + 1] = GetEntry(index)
  BY <1>1, <1>2, <1>5 DEF OfRows
<1>7. [root EXCEPT ![index + 1] = GetEntry(index)] = root
  BY <1>1, <1>6
<1> QED BY <1>1, <1>3, <1>7 DEF VerifyInclusion

(* Every entry below the size of a head is retrieved by its index and      *)
(* proved to be under the head's root, as long as no value of the sequence *)
(* was wasted (handlers.go:148-196, entries.go:20-28, main.go:86).         *)
THEOREM EntriesAreIncluded ==
    ASSUME "insertAck" \notin Faults
    PROVE  SerialReadSpec => []EntriesIncluded
<1>1. IInv /\ SInv => EntriesIncluded
  BY EntryIncluded DEF EntriesIncluded
<1> QED BY <1>1, ServerUnderMonitor, SerialInvariance, PTL
-----------------------------------------------------------------------------
(* IInv of the server holds next to the seeder. *)

(* A step of the server is one of LogServer, but for the end of a rebuild  *)
(* whose SELECT has not seen every row.                                    *)
LEMMA ServeSteps ==
    ASSUME Serve
    PROVE  SelectDone \/ [Next]_vars
BY DEF Serve, SelectNext, Next

(* What the seeder writes while no request is under way. *)
LEMMA SeederKeeps ==
    ASSUME IInv, UNCHANGED <<tree, handlerVars, hbVars, clientVars, processVars>>,
           \A h \in Handlers : pc[h] = "idle",
           TypeOK', Committed \subseteq Committed', RowsUnique', RebuildSoFar',
           \A i \in DOMAIN entries' : entries'[i].leafIndex <= lastIndex',
           treeHeads \subseteq treeHeads',
           hbPc = "size" => RootOfTree(hbRoot)',
           hbPc = "save" => HeadBounded(hbSTH)',
           \A head \in treeHeads' : HeadBounded(head)'
    PROVE  IInv'
<1> USE DEF handlerVars, hbVars, clientVars, processVars
<1>1. LocalsSet' /\ QuietRebuild' /\ TreeOfEntries'
  BY DEF IInv, LocalsSet, QuietRebuild, TreeOfEntries, Leafs, Working, Rooted, Signed
<1>2. IndexesDrawn' /\ AppendsNew' /\ RootsDurable' /\ BodyCovered'
  BY DEF IndexesDrawn, AppendsNew, RootsDurable, BodyCovered, CoveredAt, Signed, Saved
<1>3. RepliesHold'
  BY RepliesFrame DEF IInv
<1> QED BY <1>1, <1>2, <1>3 DEF IInv

LEMMA SeedDrawInv ==
    ASSUME IInv, SeedInv, SeedDraw
    PROVE  IInv'
<1> USE DEF SeedDraw, SeedGoto, OtherVars
<1>1. /\ lastIndex \in Nat /\ lastIndex' = lastIndex + 1 /\ lastIndex + 1 \in 0..MaxIndex
      /\ UNCHANGED <<entries, treeHeads, latestSTH, treeState>>
      /\ UNCHANGED <<tree, handlerVars, hbVars, clientVars, processVars>>
  BY MaxIndexAssumption DEF DrawIndex, IInv, TypeOK
<1>2. TypeOK'
  BY <1>1 DEF IInv, TypeOK, handlerVars, hbVars, clientVars, processVars
<1>3. UNCHANGED <<phase, cursor>> /\ RowsUnique' /\ RebuildSoFar' /\ Committed' = Committed
  BY <1>1, TreeFrame DEF IInv, processVars
<1>4. \A i \in DOMAIN entries' : entries'[i].leafIndex <= lastIndex'
  BY <1>1, RowTypes DEF IInv, IndexesDrawn
<1>5. /\ hbPc = "size" => RootOfTree(hbRoot)'
      /\ hbPc = "save" => HeadBounded(hbSTH)'
      /\ \A head \in treeHeads' : HeadBounded(head)'
  BY <1>1, <1>3 DEF IInv, RootsDurable, RootOfTree, HeadBounded, Leafs, hbVars
<1> QED BY <1>1, <1>2, <1>3, <1>4, <1>5, SeederKeeps DEF SeedInv, SeederLocals

(* What the seeder commits is past every row, also past the cursor of a    *)
(* rebuild.                                                                *)
LEMMA SeedCommitEffect ==
    ASSUME IInv, SeedInv, SeedCommit \/ SeedAckLost
    PROVE  \E l \in Leaves :
             /\ sdTree' = Append(sdTree, l) \/ (UNCHANGED sdTree /\ ignored' # {})
             /\ sdPc = "commit" /\ sdPc' = "seed"
             /\ sdIndex \in 1..MaxIndex /\ sdIndex = lastIndex /\ CommitRow(sdIndex, l)
             /\ Committed' = Committed \cup {l} /\ l \notin Committed
             /\ entries' \in Seq([leafIndex : 1..MaxIndex, leafHash : Leaves])
             /\ Len(entries) \in Nat
             /\ Len(entries') = Len(entries) + 1
             /\ DOMAIN entries' = DOMAIN entries \cup {Len(entries) + 1}
             /\ \A i \in DOMAIN entries : entries'[i] = entries[i] /\ i # Len(entries) + 1
             /\ entries'[Len(entries) + 1] = [leafIndex |-> sdIndex, leafHash |-> l]
             /\ \A i \in DOMAIN entries : entries[i].leafIndex < sdIndex
             /\ UNCHANGED <<tree, handlerVars, hbVars, clientVars, processVars, selected>>
<1>1. PICK l \in Leaves : /\ sdTree' = Append(sdTree, l) \/ (UNCHANGED sdTree /\ ignored' # {})
                          /\ sdPc = "commit" /\ sdPc' = "seed"
                          /\ CommitRow(sdIndex, l)
  BY DEF SeedCommit, SeedAckLost, SeedGoto
<1>2. sdIndex \in 1..MaxIndex /\ sdIndex = lastIndex
  BY <1>1, MaxIndexAssumption DEF SeedInv, SeederLocals, CommitsAscend
<1>3. \A i \in DOMAIN entries : entries[i].leafIndex < sdIndex
  BY <1>1, <1>2, RowTypes DEF IInv, IndexesDrawn, SeedInv, CommitsAscend
<1>4. UNCHANGED <<tree, handlerVars, hbVars, clientVars, processVars, selected>>
  BY DEF SeedCommit, SeedAckLost, OtherVars
<1>5. TypeOK
  BY DEF IInv
<1> QED BY <1>1, <1>2, <1>3, <1>4, <1>5, CommitRowEffect

LEMMA SeedCommitInv ==
    ASSUME IInv, SeedInv, SeedCommit \/ SeedAckLost
    PROVE  IInv'
<1>1. PICK l \in Leaves :
             /\ sdPc = "commit"
             /\ sdIndex \in 1..MaxIndex /\ sdIndex = lastIndex /\ CommitRow(sdIndex, l)
             /\ Committed' = Committed \cup {l} /\ l \notin Committed
             /\ entries' \in Seq([leafIndex : 1..MaxIndex, leafHash : Leaves])
             /\ Len(entries) \in Nat
             /\ Len(entries') = Len(entries) + 1
             /\ DOMAIN entries' = DOMAIN entries \cup {Len(entries) + 1}
             /\ \A i \in DOMAIN entries : entries'[i] = entries[i] /\ i # Len(entries) + 1
             /\ entries'[Len(entries) + 1] = [leafIndex |-> sdIndex, leafHash |-> l]
             /\ \A i \in DOMAIN entries : entries[i].leafIndex < sdIndex
             /\ UNCHANGED <<tree, handlerVars, hbVars, clientVars, processVars>>
  BY SeedCommitEffect
<1>2. TypeOK'
  BY <1>1 DEF IInv, TypeOK, CommitRow, handlerVars, hbVars, clientVars, processVars
<1>3. \A i \in DOMAIN entries : entries[i].leafHash # l /\ entries[i].leafIndex # sdIndex
  <2>1. \A i \in DOMAIN entries : entries[i].leafIndex \in Nat
    BY RowTypes DEF IInv
  <2> QED BY <1>1, <2>1, CommittedRows
<1>4. RowsUnique'
  BY <1>1, <1>3 DEF IInv, RowsUnique
<1>5. RebuildSoFar'
  <2> SUFFICES ASSUME phase = "rebuild", NEW i \in DOMAIN entries'
               PROVE  entries'[i].leafHash \in Leafs(tree) <=> entries'[i].leafIndex <= cursor
    BY <1>1 DEF RebuildSoFar, processVars, Leafs
  <2>1. CASE i \in DOMAIN entries
    BY <1>1, <2>1 DEF IInv, RebuildSoFar
  <2>2. CASE i = Len(entries) + 1
    <3>1. l \notin Leafs(tree)
      BY <1>1 DEF IInv, TreeOfEntries
    <3>2. tree = <<>> \/ Len(tree) \in DOMAIN entries
      BY DEF SeedInv, RebuildInOrder, OfRows, IInv, TypeOK
    <3>3. cursor < sdIndex
      BY <1>1, <3>2 DEF SeedInv, RebuildInOrder
    <3> QED BY <1>1, <2>2, <3>1, <3>3 DEF IInv, TypeOK
  <2> QED BY <1>1, <2>1, <2>2
<1>6. \A i \in DOMAIN entries' : entries'[i].leafIndex <= lastIndex'
  BY <1>1, RowTypes DEF IInv, IndexesDrawn, CommitRow
<1>7. /\ hbPc = "size" => RootOfTree(hbRoot)'
      /\ hbPc = "save" => HeadBounded(hbSTH)'
      /\ \A head \in treeHeads' : HeadBounded(head)'
  <2>1. \A head \in STH : HeadBounded(head) => HeadBounded(head)'
    BY <1>1 DEF HeadBounded, Leafs, STH
  <2>2. hbPc = "save" => hbSTH \in STH
    BY DEF IInv, LocalsSet
  <2>3. hbPc = "size" => RootOfTree(hbRoot)'
    BY <1>1 DEF IInv, RootsDurable, RootOfTree, Leafs, hbVars
  <2>4. \A head \in treeHeads' : head \in treeHeads /\ head \in STH
    BY <1>1 DEF IInv, TypeOK, CommitRow
  <2> QED BY <1>1, <2>1, <2>2, <2>3, <2>4 DEF IInv, RootsDurable, hbVars
<1> QED BY <1>1, <1>2, <1>4, <1>5, <1>6, <1>7, SeederKeeps DEF SeedInv, SeederLocals, CommitRow

LEMMA SeedSaveInv ==
    ASSUME IInv, SeedInv, SeedSave \/ SeedSaveState, ~UNCHANGED storeVars
    PROVE  IInv'
<1>1. /\ UNCHANGED <<tree, handlerVars, hbVars, clientVars, processVars>>
      /\ UNCHANGED <<tree, phase, cursor>>
      /\ \A h \in Handlers : pc[h] = "idle"
      /\ \A i \in DOMAIN entries : entries[i].leafIndex <= lastIndex
  BY DEF SeedSave, SeedSaveState, OtherVars, processVars, SeedGoto, SeedInv, SeederLocals, IInv, IndexesDrawn
<1>2. CASE SeedSave
  <2>1. sdSTH \in STH /\ HeadBounded(sdSTH) /\ SaveSTH(sdSTH)
    BY <1>2 DEF SeedSave, SeedGoto, SeedInv, SeederLocals
  <2>2. /\ RowsUnique' /\ RebuildSoFar' /\ Committed' = Committed
        /\ treeHeads' \subseteq STH /\ latestSTH' \in STH
        /\ \A s : RootOfTree(s)' <=> RootOfTree(s)
        /\ \A s : HeadBounded(s)' <=> HeadBounded(s)
        /\ \A s \in treeHeads' : HeadBounded(s)
    BY <1>1, <2>1, SaveEffect
  <2>3. TypeOK'
    BY <1>1, <2>1, <2>2 DEF IInv, TypeOK, SaveSTH, handlerVars, hbVars, clientVars, processVars
  <2>4. /\ hbPc = "size" => RootOfTree(hbRoot)'
        /\ hbPc = "save" => HeadBounded(hbSTH)'
    BY <1>1, <2>2 DEF IInv, RootsDurable, hbVars
  <2>5. treeHeads \subseteq treeHeads' /\ UNCHANGED <<entries, lastIndex>>
    BY <2>1 DEF SaveSTH
  <2> QED BY <1>1, <2>2, <2>3, <2>4, <2>5, SeederKeeps
<1>3. CASE SeedSaveState
  <2>1. SaveTreeState(Len(sdTree)) /\ Len(sdTree) \in Nat
    BY <1>3 DEF SeedSaveState, SeedInv, SeederLocals
  <2>2. Quiet /\ TypeOK'
    BY <1>1, <2>1 DEF Quiet, SaveTreeState, IInv, TypeOK, handlerVars, hbVars, clientVars, processVars
  <2>3. /\ RowsUnique' /\ RebuildSoFar' /\ Committed' = Committed
        /\ \A s : RootOfTree(s)' <=> RootOfTree(s)
        /\ \A s : HeadBounded(s)' <=> HeadBounded(s)
    BY <2>2, QuietFrame
  <2>4. /\ hbPc = "size" => RootOfTree(hbRoot)'
        /\ hbPc = "save" => HeadBounded(hbSTH)'
        /\ \A head \in treeHeads' : HeadBounded(head)'
    BY <1>1, <2>2, <2>3 DEF IInv, RootsDurable, hbVars, Quiet
  <2> QED BY <1>1, <2>2, <2>3, <2>4, SeederKeeps DEF Quiet
<1> QED BY <1>2, <1>3

(* IInv of LogServerInv holds after every step. *)
LEMMA SeedNextIInv ==
    ASSUME IInv, SeedInv, [SeedNext]_<<vars, seederVars, selected>>
    PROVE  IInv'
<1>1. ASSUME [Next]_vars PROVE IInv'
  BY <1>1, NextInv
<1>2. CASE SelectDone
  BY <1>2, ListenInv DEF SelectDone
<1>3. CASE RestartATL
  <2>1. crashes \in 0..MaxCrashes
    BY DEF IInv, TypeOK
  <2> QED BY <1>1, <1>3, <2>1, RestartInv DEF RestartATL, OtherVars, vars
<1>4. CASE SeedStart \/ SeedNothing \/ SeedSkip \/ SeedSign
  BY <1>1, <1>4 DEF SeedStart, SeedNothing, SeedSkip, SeedSign, OtherVars, vars
<1>5. CASE SeedSave \/ SeedSaveState
  <2>1. UNCHANGED storeVars => UNCHANGED vars
    BY <1>5 DEF SeedSave, SeedSaveState, OtherVars, vars
  <2> QED BY <1>1, <1>5, <2>1, SeedSaveInv
<1> QED BY <1>1, <1>2, <1>3, <1>4, <1>5, ServeSteps, SeedDrawInv, SeedCommitInv DEF SeedNext, Seed
-----------------------------------------------------------------------------
(* The rows. *)

(* The query of a rebuild yields the rows as they were committed. *)
LEMMA RowsByIndex ==
    ASSUME TypeOK, \A i, j \in DOMAIN entries : i < j => entries[i].leafIndex < entries[j].leafIndex
    PROVE  LeafHashesInOrder = Log
<1>1. /\ Len(entries) \in Nat /\ DOMAIN entries = 1..Len(entries)
      /\ \A i \in DOMAIN entries : entries[i].leafIndex \in Nat
  BY RowNumbers
<1> DEFINE Before(row) == {r \in Rows : r.leafIndex <= row.leafIndex}
<1>2. \A i \in DOMAIN entries : Cardinality(Before(entries[i])) = i
  <2> TAKE i \in DOMAIN entries
  <2> DEFINE f == [k \in 1..i |-> entries[k]]
  <2>1. i \in Nat /\ \A k \in 1..i : k \in DOMAIN entries
    BY <1>1
  <2>2. Before(entries[i]) = {entries[k] : k \in 1..i}
    <3>1. \A k \in DOMAIN entries : entries[k].leafIndex <= entries[i].leafIndex <=> k \in 1..i
      BY <1>1
    <3> QED BY <2>1, <3>1 DEF Rows
  <2>3. \A j, k \in 1..i : entries[j] = entries[k] => j = k
    BY <1>1, <2>1
  <2>4. f \in Bijection(1..i, {entries[k] : k \in 1..i})
    BY <2>3 DEF Bijection, Injection, Surjection, IsInjective
  <2> HIDE DEF f, Before
  <2>5. ExistsBijection(1..i, {entries[k] : k \in 1..i})
    BY <2>4 DEF ExistsBijection
  <2>6. Cardinality({entries[k] : k \in 1..i}) = i
    BY <2>1, <2>5, FS_CountingElements
  <2> QED BY <2>2, <2>6
<1>3. \A i \in DOMAIN entries :
        (CHOOSE row \in Rows : Cardinality(Before(row)) = i) = entries[i]
  <2> TAKE i \in DOMAIN entries
  <2>1. \A row \in Rows : Cardinality(Before(row)) = i => row = entries[i]
    <3> SUFFICES ASSUME NEW j \in DOMAIN entries, Cardinality(Before(entries[j])) = i
                 PROVE  entries[j] = entries[i]
      BY DEF Rows
    <3> QED BY <1>2
  <2>2. entries[i] \in Rows /\ Cardinality(Before(entries[i])) = i
    BY <1>2 DEF Rows
  <2> HIDE DEF Before
  <2> QED BY <2>1, <2>2
<1> DEFINE Row(i) == CHOOSE row \in Rows : Cardinality(Before(row)) = i
<1>4. LeafHashesInOrder = [i \in DOMAIN entries |-> Row(i).leafHash]
  BY Zenon DEF LeafHashesInOrder
<1>5. \A i \in DOMAIN entries : Row(i) = entries[i]
  BY <1>3, Zenon
<1> HIDE DEF Row
<1> QED BY <1>4, <1>5 DEF Log

(* Rows are appended only, by the seeder while no handler is at work, or   *)
(* by the handler while the seeder is not.                                 *)
LEMMA RowsAppended ==
    ASSUME IInv, SeedInv, "insertAck" \notin Faults, [SeedNext]_<<vars, seederVars, selected>>
    PROVE  /\ Len(entries) \in Nat /\ Len(entries') \in Nat /\ Len(entries) <= Len(entries')
           /\ DOMAIN entries = 1..Len(entries) /\ DOMAIN entries' = 1..Len(entries')
           /\ \A i \in DOMAIN entries : entries'[i] = entries[i]
           /\ Committed \subseteq Committed'
           /\ \A s \in Seq(Leaves) : OfRows(s) => OfRows(s)'
           /\ \A s \in STH : HeadBounded(s) => HeadBounded(s)'
           /\ \/ UNCHANGED entries
              \/ SeedCommit \/ SeedAckLost
              \/ \E h \in Handlers : InsertCommit(h)
<1>1. IInv'
  BY SeedNextIInv
<1>2. /\ Len(entries) \in Nat /\ Len(entries') \in Nat
      /\ DOMAIN entries = 1..Len(entries) /\ DOMAIN entries' = 1..Len(entries')
  BY <1>1 DEF IInv, TypeOK
<1>3. \/ UNCHANGED entries
      \/ SeedCommit \/ SeedAckLost
      \/ \E h \in Handlers : InsertCommit(h)
  BY DEF SeedNext, Seed, SeedStart, SeedNothing, SeedDraw, SeedSkip, SeedSign, SeedSave, SeedSaveState,
         RestartATL, OtherVars, Serve, SelectNext, SelectDone, RebuildNext, Crash, Beat, BeatRoot, BeatSign,
         BeatSave, BeatError, BeatDone, Receive, Handle, DedupMiss, DedupConflict, DedupError, InsertBegin,
         InsertError, InsertAckLost, TreeAppend, ComputeRoot, Sign, SaveHead, SaveHeadError, CompactState,
         SaveState, SaveStateError, Reply, InternalError, DrawIndex, SaveSTH, SaveTreeState, storeVars, vars
<1>4. /\ Len(entries) <= Len(entries')
      /\ \A i \in DOMAIN entries : entries'[i] = entries[i]
  <2>1. CASE UNCHANGED entries
    BY <1>2, <2>1
  <2>2. CASE SeedCommit \/ SeedAckLost
    <3>1. /\ Len(entries') = Len(entries) + 1
          /\ \A i \in DOMAIN entries : entries'[i] = entries[i]
      BY <2>2, SeedCommitEffect
    <3> QED BY <1>2, <3>1
  <2>3. ASSUME NEW h \in Handlers, InsertCommit(h)
        PROVE  Len(entries) <= Len(entries') /\ \A i \in DOMAIN entries : entries'[i] = entries[i]
    <3>1. leafIndex[h] \in 1..MaxIndex /\ body[h] \in Leaves /\ CommitRow(leafIndex[h], body[h])
      BY <2>3 DEF InsertCommit, Goto, IInv, TypeOK, LocalsSet, Working
    <3>2. /\ Len(entries') = Len(entries) + 1
          /\ \A i \in DOMAIN entries : entries'[i] = entries[i]
      BY <3>1, CommitRowEffect DEF IInv
    <3> QED BY <1>2, <3>2
  <2> QED BY <1>3, <2>1, <2>2, <2>3
<1>5. Committed \subseteq Committed'
  BY <1>2, <1>4 DEF Committed, Rows
<1>6. \A s \in Seq(Leaves) : OfRows(s) => OfRows(s)'
  BY <1>2, <1>4 DEF OfRows
<1>7. \A s \in STH : HeadBounded(s) => HeadBounded(s)'
  BY <1>2, <1>4, <1>5 DEF HeadBounded, STH, Leafs
<1> QED BY <1>2, <1>3, <1>4, <1>5, <1>6, <1>7

(* A handler that takes a step is not alone with the seeder. *)
LEMMA HandlerServes ==
    ASSUME IInv, SeedInv, NEW h \in Handlers, Handle(h)
    PROVE  /\ phase = "serving" /\ sdPc = "submit" /\ pc[h] # "idle"
           /\ UNCHANGED <<phase, cursor, hbVars>>
<1>1. pc[h] # "idle" /\ UNCHANGED <<phase, cursor, hbVars>>
  BY DEF Handle, DedupMiss, DedupConflict, DedupError, InsertBegin, InsertCommit, InsertError,
         InsertAckLost, TreeAppend, ComputeRoot, Sign, SaveHead, SaveHeadError, CompactState,
         SaveState, SaveStateError, Reply, Goto, InternalError, processVars
<1> QED BY <1>1 DEF IInv, QuietRebuild, TypeOK, SeedInv, SeederLocals
-----------------------------------------------------------------------------
(* SeedInv. *)

(* Steps of the server and of the seeder leave each other's locals alone.  *)
LEMMA ServeOrSeed ==
    ASSUME [SeedNext]_<<vars, seederVars, selected>>
    PROVE  \/ Serve /\ UNCHANGED seederVars
           \/ UNCHANGED <<vars, seederVars, selected>>
           \/ /\ SeedStart \/ SeedNothing \/ SeedDraw \/ SeedCommit \/ SeedSkip \/ SeedAckLost
                   \/ SeedSign \/ SeedSave \/ SeedSaveState
              /\ sdPc' # "submit"
              /\ UNCHANGED <<tree, handlerVars, hbVars, clientVars, processVars, selected>>
           \/ RestartATL
BY DEF SeedNext, Seed, SeedStart, SeedNothing, SeedDraw, SeedCommit, SeedSkip, SeedAckLost, SeedSign,
       SeedSave, SeedSaveState, SeedGoto, OtherVars

LEMMA SeederLocalsNext ==
    ASSUME IInv, SeedInv, "insertAck" \notin Faults, [SeedNext]_<<vars, seederVars, selected>>
    PROVE  SeederLocals'
<1>1. /\ Len(entries) \in Nat /\ Len(entries') \in Nat /\ Len(entries) <= Len(entries')
      /\ Committed \subseteq Committed'
      /\ \A s \in STH : HeadBounded(s) => HeadBounded(s)'
  BY RowsAppended
<1>2. SeederLocals
  BY DEF SeedInv
<1>3. Len(sdTree) \in Nat
  BY <1>2 DEF SeederLocals
<1>4. ASSUME UNCHANGED seederVars,
             sdPc # "submit" => \A h \in Handlers : pc'[h] = "idle"
      PROVE  SeederLocals'
  BY <1>1, <1>2, <1>3, <1>4 DEF SeederLocals, seederVars, Leafs
<1>5. CASE Serve /\ UNCHANGED seederVars
  <2>1. sdPc # "submit" => \A h \in Handlers : ~Handle(h) /\ ~(Receive(h) /\ sdPc = "submit")
    BY HandlerServes
  <2>2. sdPc # "submit" => UNCHANGED pc \/ \A h \in Handlers : pc'[h] = "idle"
    BY <1>5, <2>1 DEF Serve, SelectNext, SelectDone, RebuildNext, Crash, Each, Beat, BeatRoot, BeatSign,
                      BeatSave, BeatError, BeatDone, handlerVars
  <2> QED BY <1>2, <1>4, <1>5, <2>2 DEF SeederLocals
<1>6. CASE UNCHANGED <<vars, seederVars, selected>>
  BY <1>2, <1>4, <1>6 DEF SeederLocals, vars, handlerVars
<1>7. CASE SeedStart
  <2>1. LeafHashesInOrder = Log /\ Log \in Seq(Leaves) /\ Len(Log) = Len(entries)
    BY RowsByIndex, LogOfRows DEF IInv, SeedInv, CommitsAscend
  <2>2. Leafs(Log) \subseteq Committed
    BY LogOfRows DEF Log, Leafs, Committed, Rows, IInv
  <2>3. \A n \in 0..(Len(entries) - 1) :
          /\ SubSeq(Log, 1, n) \in Seq(Leaves) /\ Len(SubSeq(Log, 1, n)) <= Len(entries)
          /\ Leafs(SubSeq(Log, 1, n)) \subseteq Leafs(Log)
    <3> TAKE n \in 0..(Len(entries) - 1)
    <3>1. /\ SubSeq(Log, 1, n) \in Seq(Leaves) /\ Len(SubSeq(Log, 1, n)) = n
          /\ \A i \in 1..n : SubSeq(Log, 1, n)[i] = Log[i] /\ i \in DOMAIN Log
      BY <1>1, <2>1
    <3> QED BY <1>1, <3>1 DEF Leafs
  <2>4. sdTree' \in Seq(Leaves) /\ Leafs(sdTree') \subseteq Committed /\ Len(sdTree') <= Len(entries)
    <3>1. CASE sdTree' = Log
      BY <1>1, <2>1, <2>2, <3>1
    <3>2. CASE \E n \in 0..(Len(entries) - 1) : sdTree' = SubSeq(Log, 1, n)
      BY <2>2, <2>3, <3>2
    <3> QED BY <1>7, <2>1, <3>1, <3>2 DEF SeedStart
  <2>5. /\ \A h \in Handlers : pc'[h] = "idle"
        /\ UNCHANGED <<entries, sdIndex>> /\ sdPc' = "seed"
    BY <1>7 DEF SeedStart, OtherVars, handlerVars, storeVars, SeedGoto
  <2> QED BY <1>1, <1>2, <2>4, <2>5 DEF SeederLocals, Leafs
<1>8. CASE SeedNothing
  BY <1>2, <1>8 DEF SeedNothing, SeedGoto, SeederLocals, OtherVars, handlerVars, storeVars, Committed,
                    Rows, Leafs
<1>9. CASE SeedDraw
  <2>1. sdIndex' \in 0..MaxIndex /\ sdIndex' # 0 /\ UNCHANGED entries
    BY <1>9, MaxIndexAssumption DEF SeedDraw, DrawIndex, IInv, TypeOK
  <2>2. UNCHANGED <<pc, sdTree>> /\ sdPc' = "commit" /\ sdPc # "submit"
    BY <1>9 DEF SeedDraw, SeedGoto, OtherVars, handlerVars
  <2> QED BY <1>1, <1>2, <2>1, <2>2 DEF SeederLocals, Leafs
<1>10. CASE SeedCommit \/ SeedAckLost
  <2>1. PICK l \in Leaves :
             /\ sdTree' = Append(sdTree, l) \/ UNCHANGED sdTree
             /\ sdPc = "commit" /\ sdPc' = "seed"
             /\ Committed' = Committed \cup {l}
             /\ Len(entries') = Len(entries) + 1
             /\ UNCHANGED handlerVars
    BY <1>10, SeedCommitEffect
  <2>2. /\ sdTree' \in Seq(Leaves) /\ Leafs(sdTree') \subseteq Leafs(sdTree) \cup {l}
        /\ Len(sdTree') <= Len(sdTree) + 1
    <3>1. CASE sdTree' = Append(sdTree, l)
      <4>1. /\ Append(sdTree, l) \in Seq(Leaves) /\ Leafs(Append(sdTree, l)) = Leafs(sdTree) \cup {l}
            /\ Len(Append(sdTree, l)) = Len(sdTree) + 1
        BY <1>2, LeafsAppend DEF SeederLocals
      <4> QED BY <1>3, <3>1, <4>1
    <3>2. CASE UNCHANGED sdTree
      BY <1>2, <1>3, <3>2 DEF SeederLocals
    <3> QED BY <2>1, <3>1, <3>2
  <2>3. sdIndex' \in 0..MaxIndex
    BY <1>10, MaxIndexAssumption DEF SeedCommit, SeedAckLost
  <2> QED BY <1>1, <1>2, <1>3, <2>1, <2>2, <2>3 DEF SeederLocals, handlerVars, Leafs
<1>11. CASE SeedSkip
  <2>1. sdIndex' \in 0..MaxIndex
    BY <1>11, MaxIndexAssumption DEF SeedSkip
  <2> QED BY <1>1, <1>2, <1>11, <2>1
          DEF SeedSkip, SeedGoto, SeederLocals, OtherVars, handlerVars, storeVars, Leafs
<1>12. CASE SeedSign
  <2>1. sdPc' = "save" => sdSTH' = [treeSize |-> Len(sdTree), rootHash |-> sdTree]
    BY <1>12 DEF SeedSign, SeedGoto
  <2>2. sdPc' = "save" => sdSTH' \in STH /\ HeadBounded(sdSTH)'
    BY <1>1, <1>2, <1>3, <1>12, <2>1 DEF SeedSign, HeadBounded, STH, SeederLocals, storeVars, Leafs
  <2>3. sdPc = "seed" /\ sdPc' \in {"save", "restart"} /\ UNCHANGED <<pc, entries, sdTree, sdIndex>>
    BY <1>12 DEF SeedSign, SeedGoto, OtherVars, handlerVars, storeVars
  <2> QED BY <1>1, <1>2, <2>2, <2>3 DEF SeederLocals, Leafs
<1>13. CASE SeedSave \/ SeedSaveState
  BY <1>1, <1>2, <1>13
  DEF SeedSave, SeedSaveState, SeedGoto, SeederLocals, OtherVars, handlerVars, storeVars, SaveSTH,
      SaveTreeState, Leafs
<1>14. CASE RestartATL
  <2>1. sdTree' = <<>> /\ sdIndex' = 0 /\ sdPc' = "submit"
    BY <1>14 DEF RestartATL, SeedDone
  <2>2. <<>> \in Seq(Leaves) /\ 0 \in 0..MaxIndex
    BY MaxIndexAssumption
  <2> QED BY <1>1, <2>1, <2>2 DEF SeederLocals, Leafs
<1> QED BY <1>5, <1>6, <1>7, <1>8, <1>9, <1>10, <1>11, <1>12, <1>13, <1>14, ServeOrSeed

LEMMA CommitsAscendNext ==
    ASSUME IInv, SeedInv, \A g, h \in Handlers : g = h, "insertAck" \notin Faults,
           [SeedNext]_<<vars, seederVars, selected>>
    PROVE  CommitsAscend'
<1>1. CommitsAscend /\ SeederLocals
  BY DEF SeedInv
<1>2. /\ Len(entries) \in Nat /\ DOMAIN entries = 1..Len(entries) /\ lastIndex \in Nat
      /\ \A i \in DOMAIN entries : entries[i].leafIndex \in Nat /\ entries[i].leafIndex <= lastIndex
  BY RowNumbers DEF IInv, IndexesDrawn
<1>3. ASSUME UNCHANGED <<entries, lastIndex>>,
             \A h \in Handlers : pc'[h] = "commit" => pc[h] = "commit" /\ leafIndex'[h] = leafIndex[h],
             sdPc' = "commit" => sdPc = "commit" /\ sdIndex' = sdIndex
      PROVE  CommitsAscend'
  BY <1>1, <1>3 DEF CommitsAscend
<1>4. ASSUME NEW h \in Handlers, InsertBegin(h), UNCHANGED seederVars PROVE CommitsAscend'
  <2>1. UNCHANGED entries /\ leafIndex'[h] = lastIndex'
    BY <1>4 DEF InsertBegin, DrawIndex, IInv, TypeOK
  <2>2. sdPc' # "commit"
    BY <1>4, HandlerServes DEF Handle, seederVars
  <2> QED BY <1>1, <2>1, <2>2 DEF CommitsAscend
<1>5. ASSUME NEW h \in Handlers, InsertCommit(h), UNCHANGED seederVars PROVE CommitsAscend'
  <2>1. /\ leafIndex[h] \in 1..MaxIndex /\ body[h] \in Leaves /\ CommitRow(leafIndex[h], body[h])
        /\ pc[h] = "commit" /\ pc'[h] # "commit"
    BY <1>5 DEF InsertCommit, Goto, IInv, TypeOK, LocalsSet, Working
  <2>2. /\ DOMAIN entries' = DOMAIN entries \cup {Len(entries) + 1}
        /\ \A i \in DOMAIN entries : entries'[i] = entries[i]
        /\ entries'[Len(entries) + 1].leafIndex = leafIndex[h]
    <3>1. /\ DOMAIN entries' = DOMAIN entries \cup {Len(entries) + 1}
          /\ \A i \in DOMAIN entries : entries'[i] = entries[i]
          /\ entries'[Len(entries) + 1] = [leafIndex |-> leafIndex[h], leafHash |-> body[h]]
      BY <2>1, CommitRowEffect DEF IInv
    <3> QED BY <3>1
  <2>3. \A i \in DOMAIN entries : entries[i].leafIndex < leafIndex[h]
    BY <1>1, <1>2, <2>1 DEF CommitsAscend, IInv, IndexesDrawn
  <2>4. sdPc' # "commit"
    BY <1>5, HandlerServes DEF Handle, seederVars
  <2>5. \A i, j \in DOMAIN entries' : i < j => entries'[i].leafIndex < entries'[j].leafIndex
    BY <1>1, <1>2, <2>2, <2>3 DEF CommitsAscend
  <2> QED BY <2>1, <2>4, <2>5 DEF CommitsAscend
<1>6. ASSUME NEW h \in Handlers, Receive(h) \/ Handle(h), ~InsertBegin(h), ~InsertCommit(h),
             UNCHANGED seederVars
      PROVE  CommitsAscend'
  <2>1. UNCHANGED <<entries, lastIndex>>
    BY <1>6 DEF Handle, Receive, DedupMiss, DedupConflict, DedupError, InsertError, InsertAckLost, TreeAppend,
                ComputeRoot, Sign, SaveHead, SaveHeadError, CompactState, SaveState, SaveStateError,
                Reply, InternalError, SaveSTH, SaveTreeState, storeVars
  <2>2. \A g \in Handlers : pc'[g] = "commit" => pc[g] = "commit" /\ leafIndex'[g] = leafIndex[g]
    BY <1>6 DEF Handle, Receive, DedupMiss, DedupConflict, DedupError, InsertError, InsertAckLost, TreeAppend,
                ComputeRoot, Sign, SaveHead, SaveHeadError, CompactState, SaveState, SaveStateError,
                Reply, Goto, InternalError, Return, IInv, TypeOK
  <2> QED BY <1>3, <1>6, <2>1, <2>2 DEF seederVars
<1>7. CASE (SelectNext \/ SelectDone \/ Crash \/ Beat) /\ UNCHANGED seederVars
  <2>1. UNCHANGED <<entries, lastIndex>>
    BY <1>7 DEF SelectNext, SelectDone, RebuildNext, Crash, Beat, BeatRoot, BeatSign, BeatSave, BeatError,
                BeatDone, SaveSTH, storeVars
  <2>2. UNCHANGED <<pc, leafIndex>> \/ \A g \in Handlers : pc'[g] = "idle"
    BY <1>7 DEF SelectNext, SelectDone, RebuildNext, Crash, Each, Beat, BeatRoot, BeatSign, BeatSave,
                BeatError, BeatDone, handlerVars
  <2> QED BY <1>3, <1>7, <2>1, <2>2 DEF seederVars
<1>8. CASE UNCHANGED <<vars, seederVars, selected>>
  BY <1>3, <1>8 DEF vars, storeVars, handlerVars, seederVars
<1>9. CASE SeedStart \/ SeedNothing \/ SeedSkip \/ SeedSign \/ SeedSave \/ SeedSaveState \/ RestartATL
  <2>1. UNCHANGED <<entries, lastIndex>> /\ sdPc' # "commit"
    BY <1>9 DEF SeedStart, SeedNothing, SeedSkip, SeedSign, SeedSave, SeedSaveState, RestartATL, SeedDone,
                SeedGoto, SaveSTH, SaveTreeState, storeVars
  <2>2. UNCHANGED <<pc, leafIndex>> \/ \A g \in Handlers : pc'[g] = "idle"
    BY <1>9 DEF SeedStart, SeedNothing, SeedSkip, SeedSign, SeedSave, SeedSaveState, RestartATL, Each,
                OtherVars, handlerVars
  <2> QED BY <1>3, <2>1, <2>2
<1>10. CASE SeedDraw
  <2>1. /\ UNCHANGED entries /\ lastIndex' = lastIndex + 1 /\ sdIndex' = lastIndex'
        /\ sdPc = "seed" /\ UNCHANGED pc
    BY <1>10 DEF SeedDraw, SeedGoto, DrawIndex, OtherVars, handlerVars
  <2>2. \A h \in Handlers : pc[h] = "idle"
    BY <1>1, <2>1 DEF SeederLocals
  <2> QED BY <1>1, <1>2, <2>1, <2>2 DEF CommitsAscend
<1>11. CASE SeedCommit \/ SeedAckLost
  <2>1. /\ DOMAIN entries' = DOMAIN entries \cup {Len(entries) + 1}
        /\ \A i \in DOMAIN entries : entries'[i] = entries[i]
        /\ entries'[Len(entries) + 1].leafIndex = sdIndex
        /\ \A i \in DOMAIN entries : entries[i].leafIndex < sdIndex
        /\ sdPc = "commit" /\ sdPc' = "seed" /\ UNCHANGED handlerVars
    <3>1. PICK l \in Leaves :
             /\ DOMAIN entries' = DOMAIN entries \cup {Len(entries) + 1}
             /\ \A i \in DOMAIN entries : entries'[i] = entries[i]
             /\ entries'[Len(entries) + 1] = [leafIndex |-> sdIndex, leafHash |-> l]
             /\ \A i \in DOMAIN entries : entries[i].leafIndex < sdIndex
             /\ sdPc = "commit" /\ sdPc' = "seed" /\ UNCHANGED handlerVars
      BY <1>11, SeedCommitEffect
    <3> QED BY <3>1
  <2>2. \A h \in Handlers : pc'[h] = "idle"
    BY <1>1, <2>1 DEF SeederLocals, handlerVars
  <2>3. \A i, j \in DOMAIN entries' : i < j => entries'[i].leafIndex < entries'[j].leafIndex
    BY <1>1, <1>2, <2>1 DEF CommitsAscend
  <2> QED BY <2>1, <2>2, <2>3 DEF CommitsAscend
<1> QED BY <1>4, <1>5, <1>6, <1>7, <1>8, <1>9, <1>10, <1>11 DEF SeedNext, Seed, Serve
(* The tree of a rebuild grows by the next row of its SELECT. *)
LEMMA RebuildInOrderNext ==
    ASSUME IInv, SeedInv, "insertAck" \notin Faults, [SeedNext]_<<vars, seederVars, selected>>
    PROVE  RebuildInOrder'
<1>1. /\ Len(entries) \in Nat /\ DOMAIN entries = 1..Len(entries)
      /\ \A i \in DOMAIN entries : entries'[i] = entries[i]
      /\ \A s \in Seq(Leaves) : OfRows(s) => OfRows(s)'
      /\ Len(entries') \in Nat
  BY RowsAppended
<1>2. RebuildInOrder /\ tree \in Seq(Leaves)
  BY DEF SeedInv, IInv, TypeOK
<1>3. CASE UNCHANGED <<entries, tree, phase, cursor, selected>> /\ (sdPc' = "submit" => sdPc = "submit")
  BY <1>2, <1>3 DEF RebuildInOrder, OfRows
<1>4. CASE phase' = "rebuild" /\ cursor' = 0 /\ tree' = <<>>
  BY <1>1, <1>4 DEF RebuildInOrder, OfRows
<1>5. CASE SelectNext /\ UNCHANGED seederVars
  <2>1. /\ RebuildNext /\ phase = "rebuild" /\ UNCHANGED sdPc
        /\ OfRows(tree) /\ cursor = (IF tree = <<>> THEN 0 ELSE entries[Len(tree)].leafIndex)
        /\ \A i, j \in DOMAIN entries : i < j => entries[i].leafIndex < entries[j].leafIndex
    BY <1>2, <1>5 DEF SelectNext, RebuildNext, RebuildInOrder, SeedInv, CommitsAscend, seederVars
  <2>2. OfRows(tree)' /\ tree' # <<>> /\ cursor' = entries[Len(tree')].leafIndex /\ UNCHANGED entries
    BY <2>1, RebuildReads
  <2>3. sdPc' = "submit" => selected' = Len(entries')
    BY <1>2, <1>5, <2>1, <2>2 DEF SelectNext, RebuildInOrder
  <2> QED BY <2>2, <2>3 DEF RebuildInOrder
<1>6. CASE SelectDone
  BY <1>6 DEF SelectDone, RebuildInOrder
<1>7. ASSUME NEW h \in Handlers, Receive(h) \/ Handle(h) PROVE RebuildInOrder'
  <2>1. phase' # "rebuild"
    BY <1>7, HandlerServes DEF Receive, processVars
  <2> QED BY <2>1 DEF RebuildInOrder
<1>8. CASE Beat
  <2>1. phase' # "rebuild"
    BY <1>8 DEF Beat, BeatRoot, BeatSign, BeatSave, BeatError, BeatDone, processVars, IInv, QuietRebuild
  <2> QED BY <2>1 DEF RebuildInOrder
<1>9. CASE SeedStart \/ SeedNothing \/ SeedDraw \/ SeedSkip \/ SeedSign \/ SeedSave \/ SeedSaveState
  <2>1. /\ UNCHANGED <<entries, tree, phase, cursor, selected>>
        /\ sdPc' # "submit"
    BY <1>9 DEF SeedStart, SeedNothing, SeedDraw, SeedSkip, SeedSign, SeedSave, SeedSaveState, OtherVars,
                SeedGoto, DrawIndex, SaveSTH, SaveTreeState, storeVars, processVars
  <2> QED BY <1>3, <2>1
<1>10. CASE SeedCommit \/ SeedAckLost
  <2>1. UNCHANGED <<tree, phase, cursor>> /\ sdPc' = "seed"
    BY <1>10, SeedCommitEffect DEF processVars
  <2>2. phase = "rebuild" /\ tree # <<>> => Len(tree) \in DOMAIN entries
    BY <1>1, <1>2 DEF RebuildInOrder, OfRows
  <2> QED BY <1>1, <1>2, <2>1, <2>2 DEF RebuildInOrder
<1>11. CASE RestartATL /\ ~(phase' = "rebuild" /\ cursor' = 0 /\ tree' = <<>>)
  <2>1. phase' # "rebuild"
    BY <1>11 DEF RestartATL, OtherVars, processVars
  <2> QED BY <2>1 DEF RebuildInOrder
<1>12. CASE UNCHANGED <<vars, seederVars, selected>>
  BY <1>3, <1>12 DEF vars, storeVars, processVars, seederVars
<1> QED BY <1>4, <1>5, <1>6, <1>7, <1>8, <1>9, <1>10, <1>11, <1>12 DEF SeedNext, Seed, Serve, Crash
(* What nobody touches stays of the first rows. *)
LEMMA ServerOfRowsKept ==
    ASSUME IInv, ServerOfRows, "insertAck" \notin Faults, SeedInv, [SeedNext]_<<vars, seederVars, selected>>,
           OfRows(tree)',
           \A h \in Handlers :
              /\ pc'[h] \in Rooted => OfRows(rootHash[h])' \/ (pc[h] \in Rooted /\ rootHash'[h] = rootHash[h])
              /\ pc'[h] \in Signed => \/ OfRows(sth[h].rootHash)'
                                      \/ pc[h] \in Signed /\ sth'[h] = sth[h],
           hbPc' = "size" => OfRows(hbRoot)' \/ (hbPc = "size" /\ hbRoot' = hbRoot),
           hbPc' = "save" => OfRows(hbSTH.rootHash)' \/ (hbPc = "save" /\ hbSTH' = hbSTH)
    PROVE  ServerOfRows'
<1>1. \A s \in Seq(Leaves) : OfRows(s) => OfRows(s)'
  BY RowsAppended
<1>2. \A h \in Handlers : /\ rootHash[h] \in Seq(Leaves)
                          /\ pc[h] \in Signed => sth[h].rootHash \in Seq(Leaves)
  BY DEF IInv, TypeOK, LocalsSet, STH
<1>3. hbRoot \in Seq(Leaves) /\ (hbPc = "save" => hbSTH.rootHash \in Seq(Leaves))
  BY DEF IInv, TypeOK, LocalsSet, STH
<1>4. \A h \in Handlers : /\ pc'[h] \in Rooted => OfRows(rootHash[h])'
                          /\ pc'[h] \in Signed => OfRows(sth[h].rootHash)'
  BY <1>1, <1>2 DEF ServerOfRows
<1>5. /\ hbPc' = "size" => OfRows(hbRoot)'
      /\ hbPc' = "save" => OfRows(hbSTH.rootHash)'
  BY <1>1, <1>3 DEF ServerOfRows
<1> QED BY <1>4, <1>5 DEF ServerOfRows
(* The tree grows by the rows, one after the other. *)
LEMMA TreeOfRowsNext ==
    ASSUME IInv, SeedInv, ServerOfRows, CaughtUp, "insertAck" \notin Faults,
           [SeedNext]_<<vars, seederVars, selected>>
    PROVE  OfRows(tree)'
<1>1. /\ Len(entries) \in Nat /\ Len(entries') \in Nat /\ DOMAIN entries = 1..Len(entries)
      /\ \A s \in Seq(Leaves) : OfRows(s) => OfRows(s)'
  BY RowsAppended
<1>2. OfRows(tree) /\ tree \in Seq(Leaves)
  BY DEF ServerOfRows, IInv, TypeOK
<1>3. CASE UNCHANGED tree
  BY <1>1, <1>2, <1>3
<1>4. CASE tree' = <<>>
  BY <1>1, <1>4 DEF OfRows
<1>5. CASE SelectNext
  <2>1. phase' = "rebuild"
    BY <1>5 DEF SelectNext, RebuildNext
  <2> QED BY <2>1, RebuildInOrderNext DEF RebuildInOrder
<1>6. ASSUME NEW h \in Handlers, TreeAppend(h) PROVE OfRows(tree)'
  <2>1. /\ body[h] \in Leaves /\ tree' = Append(tree, body[h])
        /\ pc[h] = "append" /\ UNCHANGED entries
    BY <1>6 DEF TreeAppend, Goto, IInv, TypeOK, LocalsSet, Working, storeVars
  <2>2. phase = "serving" /\ sdPc = "submit"
    BY <1>6, HandlerServes DEF Handle
  <2>3. Len(entries) = Len(tree) + 1 /\ entries[Len(entries)].leafHash = body[h]
    BY <2>1, <2>2 DEF CaughtUp
  <2>4. /\ Len(tree') = Len(tree) + 1
        /\ DOMAIN tree' = DOMAIN tree \cup {Len(tree) + 1}
        /\ \A i \in DOMAIN tree : tree'[i] = tree[i]
        /\ tree'[Len(tree) + 1] = body[h]
    BY <1>2, <2>1, LeafsAppend
  <2> QED BY <1>1, <1>2, <2>1, <2>3, <2>4 DEF OfRows
<1>7. \/ UNCHANGED tree \/ tree' = <<>> \/ SelectNext
      \/ \E h \in Handlers : TreeAppend(h)
  BY ServeOrSeed DEF Serve, SelectDone, Crash, RestartATL, OtherVars, vars, Beat, BeatRoot, BeatSign, BeatSave,
     BeatError, BeatDone, Receive, Handle, DedupMiss, DedupConflict, DedupError, InsertBegin, InsertCommit,
     InsertError, InsertAckLost, ComputeRoot, Sign, SaveHead, SaveHeadError, CompactState, SaveState,
     SaveStateError, Reply, InternalError
<1> QED BY <1>3, <1>4, <1>5, <1>6, <1>7

(* The roots and heads that handlers hold were read of the tree. *)
LEMMA HandlersOfRows ==
    ASSUME IInv, SeedInv, ServerOfRows, "insertAck" \notin Faults,
           [SeedNext]_<<vars, seederVars, selected>>, OfRows(tree)'
    PROVE  \A h \in Handlers :
              /\ pc'[h] \in Rooted => OfRows(rootHash[h])' \/ (pc[h] \in Rooted /\ rootHash'[h] = rootHash[h])
              /\ pc'[h] \in Signed => \/ OfRows(sth[h].rootHash)'
                                      \/ pc[h] \in Signed /\ sth'[h] = sth[h]
<1> DEFINE Kept(g) == /\ pc'[g] \in Rooted => pc[g] \in Rooted /\ rootHash'[g] = rootHash[g]
                      /\ pc'[g] \in Signed => pc[g] \in Signed /\ sth'[g] = sth[g]
<1>1. CASE UNCHANGED handlerVars
  BY <1>1 DEF handlerVars
<1>2. CASE \A g \in Handlers : pc'[g] = "idle"
  BY <1>2 DEF Rooted, Signed
<1>3. ASSUME NEW h \in Handlers, ComputeRoot(h) PROVE \A g \in Handlers : Kept(g) \/ (OfRows(rootHash[g])' /\ pc'[g] \notin Signed)
  <2>1. rootHash'[h] = tree' /\ pc'[h] = "sign"
    BY <1>3 DEF ComputeRoot, Goto, IInv, TypeOK
  <2>2. \A g \in Handlers \ {h} : UNCHANGED <<pc[g], rootHash[g], sth[g]>>
    BY <1>3 DEF ComputeRoot, Goto, IInv, TypeOK
  <2> QED BY <2>1, <2>2 DEF Signed, OfRows
<1>4. ASSUME NEW h \in Handlers, Sign(h)
      PROVE  \A g \in Handlers : Kept(g) \/ (OfRows(sth[g].rootHash)' /\ pc[g] \in Rooted /\ rootHash'[g] = rootHash[g])
  <2>1. sth'[h] = [treeSize |-> Len(tree), rootHash |-> rootHash[h]] /\ pc[h] = "sign" /\ UNCHANGED <<rootHash, entries>>
    BY <1>4 DEF Sign, Goto, IInv, TypeOK, storeVars
  <2>2. OfRows(sth[h].rootHash)'
    BY <2>1 DEF ServerOfRows, Rooted, OfRows
  <2>3. \A g \in Handlers \ {h} : UNCHANGED <<pc[g], rootHash[g], sth[g]>>
    BY <1>4 DEF Sign, Goto, IInv, TypeOK
  <2> QED BY <2>1, <2>2, <2>3 DEF Rooted
<1>5. ASSUME NEW h \in Handlers, Receive(h) \/ Handle(h), ~ComputeRoot(h), ~Sign(h)
      PROVE  \A g \in Handlers : Kept(g)
  BY <1>5 DEF Handle, Receive, DedupMiss, DedupConflict, DedupError, InsertBegin, InsertCommit, InsertError,
              InsertAckLost, TreeAppend, SaveHead, SaveHeadError, CompactState, SaveState, SaveStateError,
              Reply, Goto, InternalError, Return, IInv, TypeOK, Rooted, Signed
<1>6. \/ UNCHANGED handlerVars \/ \A g \in Handlers : pc'[g] = "idle"
      \/ \E h \in Handlers : Receive(h) \/ Handle(h)
  BY ServeOrSeed DEF Serve, SelectNext, RebuildNext, SelectDone, Crash, RestartATL, Each, OtherVars, vars, Beat,
     BeatRoot, BeatSign, BeatSave, BeatError, BeatDone
<1>7. ASSUME NEW h \in Handlers, Receive(h) \/ Handle(h)
      PROVE  \A g \in Handlers :
              /\ pc'[g] \in Rooted => OfRows(rootHash[g])' \/ (pc[g] \in Rooted /\ rootHash'[g] = rootHash[g])
              /\ pc'[g] \in Signed => \/ OfRows(sth[g].rootHash)'
                                      \/ pc[g] \in Signed /\ sth'[g] = sth[g]
  <2> HIDE DEF Rooted, Signed
  <2> QED BY <1>3, <1>4, <1>5, <1>7
<1> QED BY <1>1, <1>2, <1>6, <1>7
(* So were those of the heartbeat. *)
LEMMA BeatOfRows ==
    ASSUME IInv, SeedInv, ServerOfRows, [SeedNext]_<<vars, seederVars, selected>>, OfRows(tree)'
    PROVE  /\ hbPc' = "size" => OfRows(hbRoot)' \/ (hbPc = "size" /\ hbRoot' = hbRoot)
           /\ hbPc' = "save" => OfRows(hbSTH.rootHash)' \/ (hbPc = "save" /\ hbSTH' = hbSTH)
<1>1. CASE BeatRoot
  BY <1>1 DEF BeatRoot, storeVars, OfRows
<1>2. CASE BeatSign
  <2>1. hbSTH'.rootHash = hbRoot /\ hbPc = "size" /\ UNCHANGED entries /\ hbPc' = "save"
    BY <1>2 DEF BeatSign, storeVars
  <2> QED BY <2>1 DEF ServerOfRows, OfRows
<1>3. CASE BeatSave \/ BeatError
  BY <1>3 DEF BeatSave, BeatError, BeatDone
<1>4. CASE UNCHANGED hbVars \/ hbPc' = "wait"
  BY <1>4 DEF hbVars
<1>5. Beat \/ UNCHANGED hbVars \/ hbPc' = "wait"
  BY HandlerServes, ServeOrSeed DEF Serve, SelectNext, RebuildNext, SelectDone, Crash, RestartATL, OtherVars, vars,
     Receive
<1> QED BY <1>1, <1>2, <1>3, <1>4, <1>5 DEF Beat

(* So are the heads that are saved. *)
LEMMA HeadsOfRows ==
    ASSUME IInv, SeedInv, ServerOfRows, SignedOfRows, "insertAck" \notin Faults,
           [SeedNext]_<<vars, seederVars, selected>>
    PROVE  \A head \in treeHeads' : OfRows(head.rootHash)'
<1>1. \A s \in Seq(Leaves) : OfRows(s) => OfRows(s)'
  BY RowsAppended
<1>2. ASSUME NEW s \in Seq(Leaves), OfRows(s),
             \A head \in treeHeads' : head.rootHash = s \/ head \in treeHeads
      PROVE  \A head \in treeHeads' : OfRows(head.rootHash)'
  <2>1. \A head \in treeHeads : head.rootHash \in Seq(Leaves) /\ OfRows(head.rootHash)
    BY DEF IInv, TypeOK, STH, SignedOfRows
  <2> TAKE head \in treeHeads'
  <2>2. head.rootHash \in Seq(Leaves) /\ OfRows(head.rootHash)
    BY <1>2, <2>1
  <2> QED BY <1>1, <2>2
<1>3. CASE UNCHANGED treeHeads
  <2>1. <<>> \in Seq(Leaves) /\ OfRows(<<>>)
    BY DEF OfRows, IInv, TypeOK
  <2> QED BY <1>2, <1>3, <2>1
<1>4. CASE sdPc = "save" /\ treeHeads' = treeHeads \cup {sdSTH}
  <2>1. OfRows(sdSTH.rootHash) /\ sdSTH.rootHash \in Seq(Leaves)
    BY <1>4 DEF SignedOfRows, SeedInv, SeederLocals, STH
  <2> QED BY <1>2, <1>4, <2>1
<1>5. CASE hbPc = "save" /\ treeHeads' = treeHeads \cup {hbSTH}
  <2>1. OfRows(hbSTH.rootHash) /\ hbSTH.rootHash \in Seq(Leaves)
    BY <1>5 DEF ServerOfRows, IInv, LocalsSet, STH
  <2> QED BY <1>2, <1>5, <2>1
<1>6. ASSUME NEW h \in Handlers, pc[h] = "save", treeHeads' = treeHeads \cup {sth[h]}
      PROVE  \A head \in treeHeads' : OfRows(head.rootHash)'
  <2>1. OfRows(sth[h].rootHash) /\ sth[h].rootHash \in Seq(Leaves)
    BY <1>6 DEF ServerOfRows, IInv, LocalsSet, STH, Signed
  <2> QED BY <1>2, <1>6, <2>1
<1>7. ASSUME NEW h \in Handlers, Receive(h) \/ Handle(h)
      PROVE  \/ UNCHANGED treeHeads
             \/ pc[h] = "save" /\ treeHeads' = treeHeads \cup {sth[h]}
  <2>1. CASE SaveHead(h) \/ SaveHeadError(h)
    BY <2>1 DEF SaveHead, SaveHeadError, SaveSTH, Goto, InternalError, storeVars
  <2>2. CASE ~SaveHead(h) /\ ~SaveHeadError(h)
    BY <1>7, <2>2 DEF Receive, Handle, DedupMiss, DedupConflict, DedupError, InsertBegin,
       InsertCommit, InsertError, InsertAckLost, TreeAppend, ComputeRoot, Sign, CompactState,
       SaveState, SaveStateError, Reply, DrawIndex, CommitRow, SaveTreeState, storeVars
  <2> QED BY <2>1, <2>2
<1>8. CASE Beat
  <2>1. UNCHANGED treeHeads \/ (hbPc = "save" /\ treeHeads' = treeHeads \cup {hbSTH})
    BY <1>8 DEF Beat, BeatRoot, BeatSign, BeatSave, BeatError, BeatDone, SaveSTH, storeVars
  <2> QED BY <1>3, <1>5, <2>1
<1>9. CASE Serve
  <2>1. \/ UNCHANGED treeHeads \/ Beat
        \/ \E h \in Handlers : Receive(h) \/ Handle(h)
    BY <1>9 DEF Serve, SelectNext, RebuildNext, SelectDone, Crash, storeVars
  <2> QED BY <1>3, <1>6, <1>7, <1>8, <2>1
<1>10. CASE ~Serve
  <2>1. \/ UNCHANGED treeHeads
        \/ sdPc = "save" /\ treeHeads' = treeHeads \cup {sdSTH}
    BY <1>10, ServeOrSeed DEF RestartATL, OtherVars, vars, storeVars,
       SeedStart, SeedNothing, SeedDraw, SeedCommit, SeedSkip, SeedAckLost, SeedSign, SeedSave, SeedSaveState,
       SeedGoto, DrawIndex, CommitRow, SaveTreeState, SaveSTH
  <2> QED BY <1>3, <1>4, <2>1
<1> QED BY <1>9, <1>10

(* While it seeds, the seeder has the rows, and what it signs is of them. *)
LEMMA SeedOfRows ==
    ASSUME IInv, SeedInv, SignedOfRows, "insertAck" \notin Faults,
           [SeedNext]_<<vars, seederVars, selected>>, ignored' = {}
    PROVE  /\ sdPc' \in {"seed", "commit"} => OfRows(sdTree)' /\ Len(sdTree') = Len(entries')
           /\ sdPc' = "save" => OfRows(sdSTH.rootHash)'
<1>1. /\ Len(entries) \in Nat /\ DOMAIN entries = 1..Len(entries)
      /\ \A s \in Seq(Leaves) : OfRows(s) => OfRows(s)'
  BY RowsAppended
<1>2. SeederLocals /\ CommitsAscend
  BY DEF SeedInv
<1>3. CASE SeedStart
  <2>1. sdTree' = Log
    BY <1>2, <1>3, RowsByIndex DEF SeedStart, CommitsAscend, IInv
  <2>2. /\ Len(Log) = Len(entries) /\ DOMAIN Log = 1..Len(entries)
        /\ UNCHANGED entries /\ sdPc' = "seed"
    BY <1>3, LogOfRows DEF SeedStart, SeedGoto, storeVars, IInv
  <2>3. OfRows(sdTree)'
    BY <1>1, <2>1, <2>2 DEF OfRows, Log
  <2> QED BY <2>1, <2>2, <2>3
<1>4. CASE SeedCommit
  <2>1. PICK l \in Leaves :
             /\ sdTree' = Append(sdTree, l) /\ sdPc = "commit" /\ sdPc' = "seed"
             /\ Len(entries') = Len(entries) + 1
             /\ \A i \in DOMAIN entries : entries'[i] = entries[i]
             /\ entries'[Len(entries) + 1].leafHash = l
    <3>1. PICK l \in Leaves :
             /\ sdTree' = Append(sdTree, l) /\ sdPc = "commit" /\ sdPc' = "seed"
             /\ Len(entries') = Len(entries) + 1
             /\ \A i \in DOMAIN entries : entries'[i] = entries[i]
             /\ entries'[Len(entries) + 1] = [leafIndex |-> sdIndex, leafHash |-> l]
      BY <1>4, SeedCommitEffect
    <3> QED BY <3>1
  <2>2. /\ Len(sdTree') = Len(sdTree) + 1
        /\ DOMAIN sdTree' = DOMAIN sdTree \cup {Len(sdTree) + 1}
        /\ \A i \in DOMAIN sdTree : sdTree'[i] = sdTree[i]
        /\ sdTree'[Len(sdTree) + 1] = l
    BY <1>2, <2>1, LeafsAppend DEF SeederLocals
  <2>3. OfRows(sdTree) /\ Len(sdTree) = Len(entries) /\ DOMAIN sdTree = 1..Len(sdTree)
    BY <1>2, <2>1 DEF SignedOfRows, SeederLocals
  <2>4. OfRows(sdTree)'
    BY <1>1, <2>1, <2>2, <2>3 DEF OfRows
  <2> QED BY <2>1, <2>2, <2>3, <2>4
<1>5. CASE SeedSign
  <2>1. /\ sdPc = "seed" /\ sdPc' \in {"save", "restart"} /\ UNCHANGED entries
        /\ sdPc' = "save" => sdSTH'.rootHash = sdTree
    BY <1>5 DEF SeedSign, SeedGoto, storeVars
  <2> QED BY <2>1 DEF SignedOfRows, OfRows
<1>6. CASE SeedDraw \/ SeedSkip
  BY <1>6 DEF SeedDraw, SeedSkip, SeedGoto, DrawIndex, storeVars, SignedOfRows, OfRows
<1>7. CASE Serve /\ UNCHANGED seederVars
  <2>1. UNCHANGED <<sdPc, sdTree, sdSTH>>
    BY <1>7 DEF seederVars
  <2>2. UNCHANGED entries \/ sdPc = "submit"
    <3>1. SeedCommit \/ SeedAckLost => sdPc # "submit" /\ sdPc' # sdPc
      BY DEF SeedCommit, SeedAckLost, SeedGoto
    <3> QED BY <2>1, <3>1, RowsAppended, HandlerServes DEF Handle
  <2> QED BY <2>1, <2>2 DEF SignedOfRows, OfRows
<1>8. CASE UNCHANGED <<vars, seederVars, selected>>
  BY <1>8 DEF vars, storeVars, seederVars, SignedOfRows, OfRows
<1>9. CASE SeedNothing \/ SeedSave \/ SeedSaveState \/ RestartATL
  BY <1>9 DEF SeedNothing, SeedSave, SeedSaveState, RestartATL, SeedDone, SeedGoto
<1>10. ~SeedAckLost
  BY DEF SeedAckLost
<1> QED BY <1>3, <1>4, <1>5, <1>6, <1>7, <1>8, <1>9, <1>10, ServeOrSeed

LEMMA ServerOfRowsNext ==
    ASSUME IInv, SeedInv, ServerOfRows, CaughtUp, "insertAck" \notin Faults,
           [SeedNext]_<<vars, seederVars, selected>>
    PROVE  ServerOfRows'
BY TreeOfRowsNext, HandlersOfRows, BeatOfRows, ServerOfRowsKept

LEMMA SignedOfRowsNext ==
    ASSUME IInv, SeedInv, ServerOfRows, SignedOfRows, "insertAck" \notin Faults,
           [SeedNext]_<<vars, seederVars, selected>>, ignored' = {}
    PROVE  SignedOfRows'
BY HeadsOfRows, SeedOfRows DEF SignedOfRows
-----------------------------------------------------------------------------
(* CaughtUp. *)

(* What it comes to when handlers and heartbeat go on as they were. *)
LEMMA CaughtUpKept ==
    ASSUME CaughtUp, IInv, sdPc = "submit", phase = "serving",
           UNCHANGED <<entries, tree>>,
           \A g \in Handlers : /\ pc'[g] = "append" <=> pc[g] = "append"
                               /\ pc'[g] = "append" => body'[g] = body[g]
                               /\ pc'[g] \in Signed => \/ Len(sth'[g].rootHash) <= Len(tree)
                                                       \/ pc[g] \in Signed /\ sth'[g] = sth[g],
           hbPc' = "save" => \/ Len(hbSTH'.rootHash) <= Len(tree)
                             \/ hbPc = "save" /\ hbSTH' = hbSTH,
           \A head \in treeHeads' : Len(head.rootHash) <= Len(tree) \/ head \in treeHeads
    PROVE  CaughtUp'
BY DEF CaughtUp

(* A rebuild whose SELECT saw every row ends with all of them. *)
LEMMA CaughtUpDone ==
    ASSUME IInv, SeedInv, SelectDone, sdPc = "submit"
    PROVE  CaughtUp'
<1>1. /\ phase = "rebuild" /\ UNCHANGED <<storeVars, tree, handlerVars, hbVars>>
      /\ hbPc = "wait" /\ \A h \in Handlers : pc[h] = "idle"
  BY DEF SelectDone, IInv, QuietRebuild
<1>2. /\ OfRows(tree)
      /\ cursor = IF tree = <<>> THEN 0 ELSE entries[Len(tree)].leafIndex
      /\ cursor # 0 => selected = Len(entries)
      /\ \A i, j \in DOMAIN entries : i < j => entries[i].leafIndex < entries[j].leafIndex
  BY <1>1 DEF SeedInv, RebuildInOrder, CommitsAscend
<1>3. \A i \in DOMAIN entries : entries[i].leafIndex <= cursor
  <2>1. DOMAIN entries = 1..Len(entries)
    BY DEF IInv, TypeOK
  <2>2. CASE cursor = 0
    BY <2>2 DEF SelectDone, Rows
  <2>3. CASE cursor # 0
    BY <1>2, <2>1, <2>3 DEF SelectDone
  <2> QED BY <2>2, <2>3
<1>4. Len(tree) = Len(entries)
  BY <1>2, <1>3, RebuildHasAll
<1>5. \A head \in treeHeads : Len(head.rootHash) <= Len(tree)
  <2>1. \A head \in treeHeads : /\ Len(head.rootHash) \in Nat /\ head.treeSize \in Nat
                                /\ Len(head.rootHash) <= head.treeSize /\ head.treeSize <= Len(entries)
    <3> TAKE head \in treeHeads
    <3>1. head \in STH /\ HeadBounded(head)
      BY DEF IInv, TypeOK, RootsDurable
    <3> QED BY <3>1 DEF STH, HeadBounded
  <2>2. Len(entries) \in Nat
    BY DEF IInv, TypeOK
  <2> QED BY <1>4, <2>1, <2>2
<1> QED BY <1>1, <1>4, <1>5 DEF CaughtUp, Signed, storeVars, handlerVars, hbVars

LEMMA CaughtUpHandle ==
    ASSUME IInv, SeedInv, CaughtUp, "insertAck" \notin Faults,
           \A g, h \in Handlers : g = h, NEW h \in Handlers, Handle(h), UNCHANGED seederVars
    PROVE  CaughtUp'
<1>1. phase = "serving" /\ sdPc = "submit" /\ UNCHANGED hbVars
  BY HandlerServes
<1>2. /\ Len(entries) \in Nat /\ Len(tree) \in Nat
      /\ hbPc = "save" => Len(hbSTH.rootHash) \in Nat
      /\ \A head \in treeHeads : Len(head.rootHash) \in Nat
  BY DEF IInv, TypeOK, LocalsSet, STH
<1>3. CASE InsertCommit(h)
  <2>1. /\ leafIndex[h] \in 1..MaxIndex /\ body[h] \in Leaves /\ CommitRow(leafIndex[h], body[h])
        /\ pc[h] = "commit" /\ pc'[h] = "append" /\ UNCHANGED <<body, tree, treeHeads>>
    BY <1>3 DEF InsertCommit, CommitRow, Goto, IInv, TypeOK, LocalsSet, Working
  <2>2. Len(entries') = Len(entries) + 1 /\ entries'[Len(entries) + 1].leafHash = body[h]
    <3>1. /\ Len(entries') = Len(entries) + 1
          /\ entries'[Len(entries) + 1] = [leafIndex |-> leafIndex[h], leafHash |-> body[h]]
      BY <2>1, CommitRowEffect DEF IInv
    <3> QED BY <3>1
  <2>3. Len(tree) = Len(entries)
    BY <1>1, <2>1 DEF CaughtUp
  <2> QED BY <1>1, <1>2, <2>1, <2>2, <2>3 DEF CaughtUp, Signed, hbVars
<1>4. CASE TreeAppend(h)
  <2>1. /\ body[h] \in Leaves /\ tree' = Append(tree, body[h]) /\ pc[h] = "append" /\ pc'[h] = "root"
        /\ UNCHANGED <<entries, treeHeads>>
    BY <1>4 DEF TreeAppend, Goto, IInv, TypeOK, LocalsSet, Working, storeVars
  <2>2. Len(tree') = Len(tree) + 1
    BY <2>1, LeafsAppend DEF IInv, TypeOK
  <2> QED BY <1>1, <1>2, <2>1, <2>2 DEF CaughtUp, Signed, hbVars
<1>5. CASE Sign(h)
  <2>1. /\ pc[h] = "sign" /\ pc'[h] = "save" /\ sth'[h].rootHash = rootHash[h]
        /\ UNCHANGED <<entries, tree, treeHeads>>
    BY <1>5 DEF Sign, Goto, IInv, TypeOK, storeVars
  <2>2. Len(rootHash[h]) <= Len(tree)
    BY <2>1 DEF IInv, RootsDurable, RootOfTree
  <2> QED BY <1>1, <2>1, <2>2, CaughtUpKept DEF hbVars
<1>6. CASE SaveHead(h) \/ SaveHeadError(h)
  <2>1. /\ pc[h] = "save" /\ pc'[h] \in {"compact", "idle"} /\ (pc'[h] = "compact" => UNCHANGED sth)
        /\ UNCHANGED <<entries, tree>>
        /\ \A head \in treeHeads' : head = sth[h] \/ head \in treeHeads
    BY <1>6 DEF SaveHead, SaveHeadError, SaveSTH, Goto, InternalError, Return, IInv, TypeOK, storeVars
  <2>2. Len(sth[h].rootHash) <= Len(tree)
    BY <1>1, <2>1 DEF CaughtUp, Signed
  <2> QED BY <1>1, <2>1, <2>2, CaughtUpKept DEF hbVars, Signed
<1>7. CASE ~InsertCommit(h) /\ ~TreeAppend(h) /\ ~Sign(h) /\ ~SaveHead(h) /\ ~SaveHeadError(h)
  <2>1. UNCHANGED <<entries, tree, treeHeads>>
    BY <1>7 DEF Handle, DedupMiss, DedupConflict, DedupError, InsertBegin, InsertError, InsertAckLost,
                ComputeRoot, CompactState, SaveState, SaveStateError, Reply, InternalError, DrawIndex,
                SaveTreeState, storeVars
  <2>2. /\ pc[h] # "append" /\ pc'[h] # "append"
        /\ pc'[h] \in Signed => pc[h] \in Signed /\ sth'[h] = sth[h]
    BY <1>7 DEF Handle, DedupMiss, DedupConflict, DedupError, InsertBegin, InsertError, InsertAckLost,
                ComputeRoot, CompactState, SaveState, SaveStateError, Reply, InternalError, Goto, Return,
                Signed, IInv, TypeOK
  <2> QED BY <1>1, <2>1, <2>2, CaughtUpKept DEF hbVars
<1> QED BY <1>3, <1>4, <1>5, <1>6, <1>7

LEMMA CaughtUpNext ==
    ASSUME IInv, SeedInv, CaughtUp, "insertAck" \notin Faults, \A g, h \in Handlers : g = h,
           [SeedNext]_<<vars, seederVars, selected>>, "restart" \notin ignored'
    PROVE  CaughtUp'
<1>1. CASE phase' = "rebuild" \/ sdPc' # "submit"
  BY <1>1 DEF CaughtUp
<1>2. CASE Beat /\ UNCHANGED sdPc /\ sdPc = "submit"
  <2>1. phase = "serving" /\ UNCHANGED <<entries, tree, pc, body, sth>>
    BY <1>2 DEF Beat, BeatRoot, BeatSign, BeatSave, BeatError, BeatDone, SaveSTH, storeVars, handlerVars,
                IInv, QuietRebuild, TypeOK
  <2>2. hbPc' = "save" => Len(hbSTH'.rootHash) <= Len(tree)
    BY <1>2 DEF Beat, BeatRoot, BeatSign, BeatSave, BeatError, BeatDone, IInv, RootsDurable, RootOfTree
  <2>3. \A head \in treeHeads' : Len(head.rootHash) <= Len(tree) \/ head \in treeHeads
    BY <1>2, <2>1 DEF Beat, BeatRoot, BeatSign, BeatSave, BeatError, BeatDone, SaveSTH, storeVars, CaughtUp
  <2> QED BY <1>2, <2>1, <2>2, <2>3, CaughtUpKept
<1>3. ASSUME NEW h \in Handlers, Receive(h), UNCHANGED sdPc, sdPc = "submit" PROVE CaughtUp'
  <2>1. /\ phase = "serving" /\ UNCHANGED <<entries, tree, treeHeads, hbVars, sth>>
        /\ \A g \in Handlers : (pc'[g] = pc[g] /\ body'[g] = body[g]) \/ (pc[g] = "idle" /\ pc'[g] = "dedup")
    BY <1>3 DEF Receive, Goto, storeVars, IInv, TypeOK
  <2> QED BY <1>3, <2>1, CaughtUpKept DEF hbVars, Signed
<1>4. CASE UNCHANGED <<vars, seederVars, selected>>
  BY <1>4 DEF vars, storeVars, handlerVars, hbVars, processVars, seederVars, CaughtUp
<1>5. CASE RestartATL
  BY <1>1, <1>5 DEF RestartATL
<1>6. CASE Serve /\ UNCHANGED seederVars /\ sdPc' = "submit" /\ phase' # "rebuild"
  <2>1. UNCHANGED sdPc
    BY <1>6 DEF seederVars
  <2>2. \/ SelectDone \/ Beat
        \/ \E h \in Handlers : Receive(h) \/ Handle(h)
    BY <1>6 DEF Serve, SelectNext, RebuildNext, Crash
  <2> QED BY <1>2, <1>3, <1>6, <2>1, <2>2, CaughtUpDone, CaughtUpHandle
<1> QED BY <1>1, <1>4, <1>5, <1>6, ServeOrSeed
-----------------------------------------------------------------------------
(* Theorems. *)

LEMMA SeedInvNext ==
    ASSUME IInv, SeedInv, "insertAck" \notin Faults, \A g, h \in Handlers : g = h,
           [SeedNext]_<<vars, seederVars, selected>>
    PROVE  SeedInv'
<1>1. ignored \subseteq ignored'
  BY DEF SeedNext, Seed, SeedStart, SeedNothing, SeedDraw, SeedCommit, SeedSkip, SeedAckLost, SeedSign,
         SeedSave, SeedSaveState, RestartATL, seederVars
<1>2. "restart" \notin ignored' => ServerOfRows' /\ CaughtUp'
  BY <1>1, ServerOfRowsNext, CaughtUpNext DEF SeedInv
<1>3. ignored' = {} => SignedOfRows'
  <2>1. ignored' = {} => ignored = {} /\ ServerOfRows /\ SignedOfRows
    BY <1>1 DEF SeedInv
  <2> QED BY <2>1, SignedOfRowsNext
<1> QED BY <1>2, <1>3, SeederLocalsNext, CommitsAscendNext, RebuildInOrderNext DEF SeedInv

LEMMA SeedInvInit == SeedInit => IInv /\ SeedInv
<1> SUFFICES ASSUME SeedInit PROVE IInv /\ SeedInv
  OBVIOUS
<1>1. IInv
  BY InitInv DEF SeedInit
<1>2. /\ entries = <<>> /\ tree = <<>> /\ treeHeads = {} /\ phase = "rebuild" /\ cursor = 0
      /\ hbPc = "wait" /\ \A h \in Handlers : pc[h] = "idle"
      /\ sdPc = "submit" /\ sdTree = <<>> /\ sdIndex = 0
  BY DEF SeedInit, Init, StoreInit, Each
<1>3. <<>> \in Seq(Leaves) /\ 0 \in 0..MaxIndex
  BY MaxIndexAssumption
<1>4. SeederLocals /\ CommitsAscend
  BY <1>2, <1>3 DEF SeederLocals, CommitsAscend, Leafs
<1>5. RebuildInOrder /\ ServerOfRows /\ SignedOfRows /\ CaughtUp
  BY <1>2 DEF RebuildInOrder, ServerOfRows, SignedOfRows, CaughtUp, OfRows, Rooted, Signed
<1> QED BY <1>1, <1>4, <1>5 DEF SeedInv
(* One handler, and no row that is committed and reported to it as         *)
(* refused: the invariant holds in every state, also when the seeder       *)
(* passes over errors of its own, such as a row whose answer it lost.      *)
THEOREM SeedInvariance ==
    ASSUME "insertAck" \notin Faults, \A g, h \in Handlers : g = h
    PROVE  SeedSpec => [](IInv /\ SeedInv)
<1>1. IInv /\ SeedInv /\ [SeedNext]_<<vars, seederVars, selected>> => (IInv /\ SeedInv)'
  BY SeedNextIInv, SeedInvNext
<1> QED BY <1>1, SeedInvInit, PTL DEF SeedSpec

(* A root that server or seeder saved covers durable rows only, whatever   *)
(* errors the seeder passes over (cmd/bench-scale/main.go:225-277).        *)
THEOREM SeededHeadsDurable ==
    ASSUME "insertAck" \notin Faults, \A g, h \in Handlers : g = h
    PROVE  SeedSpec => []HeadsDurable
<1>1. IInv => HeadsDurable
  BY DEF IInv, RootsDurable, HeadBounded, HeadsDurable, CoveredLeaves
<1> QED BY <1>1, SeedInvariance, PTL

(* The sizes that server and seeder sign lie between the leaves under the  *)
(* root and the rows.                                                      *)
THEOREM SeededSizesBounded ==
    ASSUME "insertAck" \notin Faults, \A g, h \in Handlers : g = h
    PROVE  SeedSpec => []HeadSizesBounded
<1>1. IInv => HeadSizesBounded
  BY DEF IInv, RootsDurable, HeadBounded, HeadSizesBounded
<1> QED BY <1>1, SeedInvariance, PTL

(* "Always restart so ATL rebuilds tree from DB"                           *)
(* (cmd/bench-scale/main.go:158): unless a restart failed, a benchmark     *)
(* that submits does so to a server whose tree lacks no row, whatever rows *)
(* the seeder lost.                                                        *)
THEOREM SeededRowsServed ==
    ASSUME "insertAck" \notin Faults, \A g, h \in Handlers : g = h
    PROVE  SeedSpec => []SeededServed
<1>1. ASSUME IInv, SeedInv PROVE SeededServed
  <2> SUFFICES ASSUME sdPc = "submit", "restart" \notin ignored PROVE NoLostEntry
    BY DEF SeededServed
  <2>1. CASE phase = "rebuild"
    BY <1>1, <2>1, RebuildLosesNothing
  <2>2. CASE phase = "serving"
    <3> SUFFICES ASSUME NEW i \in DOMAIN entries
                 PROVE  \/ entries[i].leafHash \in Leafs(tree)
                        \/ \E h \in Handlers : pc[h] = "append" /\ body[h] = entries[i].leafHash
      BY DEF NoLostEntry, Rows
    <3>1. /\ DOMAIN entries = 1..Len(entries) /\ Len(entries) \in Nat
          /\ DOMAIN tree = 1..Len(tree) /\ Len(tree) \in Nat
      BY <1>1 DEF IInv, TypeOK
    <3>2. OfRows(tree) /\ CaughtUp
      BY <1>1 DEF SeedInv, ServerOfRows
    <3>3. \/ Len(tree) = Len(entries)
          \/ \E h \in Handlers : pc[h] = "append" /\ Len(entries) = Len(tree) + 1
      BY <2>2, <3>2 DEF CaughtUp
    <3>4. i \in DOMAIN tree \/ (i = Len(entries) /\ i # Len(tree))
      <4>1. Len(entries) = Len(tree) \/ Len(entries) = Len(tree) + 1
        BY <3>3
      <4>2. i \in 1..Len(entries)
        BY <3>1
      <4>3. CASE Len(entries) = Len(tree)
        BY <3>1, <4>2, <4>3
      <4>4. CASE Len(entries) = Len(tree) + 1
        <5>1. i <= Len(tree) \/ i = Len(entries)
          BY ONLY <3>1, <4>2, <4>4
        <5> QED BY <3>1, <4>2, <4>4, <5>1
      <4> QED BY <4>1, <4>3, <4>4
    <3>5. CASE i \in DOMAIN tree
      BY <3>2, <3>5 DEF OfRows, Leafs
    <3>6. CASE i = Len(entries) /\ i # Len(tree)
      BY <2>2, <3>2, <3>3, <3>6 DEF CaughtUp
    <3> QED BY <3>4, <3>5, <3>6
  <2> QED BY <1>1, <2>1, <2>2 DEF IInv, TypeOK
<1> QED BY <1>1, SeedInvariance, PTL

(* Until an error is passed over, the heads of the seeder and of the       *)
(* server are of one log, though the server's heartbeat signs its old tree *)
(* meanwhile, and the tree a benchmark submits to extends them all.        *)
THEOREM SeederAndServerSignOneLog ==
    ASSUME "insertAck" \notin Faults, \A g, h \in Handlers : g = h
    PROVE  SeedSpec => []HeadsOfOneLog
<1>1. ASSUME IInv, SeedInv PROVE HeadsOfOneLog
  <2> SUFFICES ASSUME ignored = {}
               PROVE  /\ \A a, b \in treeHeads : \/ PrefixOf(a.rootHash, b.rootHash)
                                                 \/ PrefixOf(b.rootHash, a.rootHash)
                      /\ sdPc = "submit" => HeadsConsistent
    BY DEF HeadsOfOneLog
  <2>1. tree \in Seq(Leaves) /\ OfRows(tree) /\ CaughtUp
    BY <1>1 DEF IInv, TypeOK, SeedInv, ServerOfRows
  <2>2. \A a \in treeHeads : /\ a.rootHash \in Seq(Leaves) /\ Len(a.rootHash) \in Nat
                             /\ OfRows(a.rootHash)
    BY <1>1 DEF IInv, TypeOK, STH, SeedInv, SignedOfRows
  <2>3. \A a, b \in treeHeads : PrefixOf(a.rootHash, b.rootHash) \/ PrefixOf(b.rootHash, a.rootHash)
    <3> TAKE a, b \in treeHeads
    <3>1. Len(a.rootHash) <= Len(b.rootHash) \/ Len(b.rootHash) <= Len(a.rootHash)
      BY <2>2
    <3> QED BY <2>2, <3>1, PrefixOfRows
  <2>4. sdPc = "submit" /\ phase = "serving" => \A a \in treeHeads : PrefixOf(a.rootHash, tree)
    BY <2>1, <2>2, PrefixOfRows DEF CaughtUp
  <2> QED BY <2>3, <2>4 DEF HeadsConsistent
<1> QED BY <1>1, SeedInvariance, PTL
-----------------------------------------------------------------------------
(* The sizes that the server has told of are served. *)

(* A tree that holds every row is as long as the table. *)
LEMMA TreeNoShorter ==
    ASSUME TypeOK, RowsUnique, Committed \subseteq Leafs(tree)
    PROVE  Len(entries) <= Len(tree)
<1> DEFINE n == Len(tree)
           m == Len(entries)
           f == [j \in 1..m |-> CHOOSE i \in 1..n : tree[i] = entries[j].leafHash]
<1>1. n \in Nat /\ m \in Nat /\ DOMAIN tree = 1..n /\ DOMAIN entries = 1..m
  BY DEF TypeOK
<1>2. \A j \in 1..m : \E i \in 1..n : tree[i] = entries[j].leafHash
  BY <1>1, CommittedRows DEF Leafs
<1>3. \A j \in 1..m : f[j] \in 1..n /\ tree[f[j]] = entries[j].leafHash
  BY <1>2
<1>4. f \in Injection(1..m, 1..n)
  BY <1>1, <1>3 DEF Injection, IsInjective, RowsUnique
<1> HIDE DEF f, n, m
<1>5. IsFiniteSet(1..n) /\ Cardinality(1..m) = m /\ Cardinality(1..n) = n
  <2>1. \A k \in Nat : IsFiniteSet(1..k) /\ Cardinality(1..k) = IF 1 > k THEN 0 ELSE k - 1 + 1
    BY FS_Interval
  <2> QED BY <1>1, <2>1
<1>6. Cardinality(1..m) <= Cardinality(1..n)
  BY <1>4, <1>5, FS_Injection
<1> QED BY <1>1, <1>5, <1>6 DEF n, m

(* The served tree does not become smaller. *)
LEMMA TreeGrows ==
    ASSUME IInv, [Next]_vars, phase = "serving", phase' = "serving"
    PROVE  Len(tree) \in Nat /\ Len(tree') \in Nat /\ Len(tree) <= Len(tree')
<1>1. Len(tree) \in Nat
  BY DEF IInv, TypeOK
<1>2. ASSUME NEW h \in Handlers, TreeAppend(h) PROVE Len(tree') = Len(tree) + 1
  BY <1>2, LeafsAppend DEF TreeAppend, Goto, IInv, TypeOK, LocalsSet, Working
<1>3. (\A h \in Handlers : ~TreeAppend(h)) => UNCHANGED tree
  BY DEF Next, Receive, Handle, DedupMiss, DedupConflict, DedupError, InsertBegin, InsertCommit,
         InsertError, InsertAckLost, ComputeRoot, Sign, SaveHead, SaveHeadError, CompactState,
         SaveState, SaveStateError, Reply, InternalError, RebuildNext, RebuildDone, Crash,
         Beat, BeatRoot, BeatSign, BeatSave, BeatError, BeatDone, vars
<1> QED BY <1>1, <1>2, <1>3

(* Heads and replies are only added. *)
LEMMA HeadsGrow == ASSUME [Next]_vars PROVE treeHeads \subseteq treeHeads' /\ created \subseteq created'
BY DEF Next, Receive, Handle, DedupMiss, DedupConflict, DedupError, InsertBegin, DrawIndex, InsertCommit,
       CommitRow, InsertError, InsertAckLost, TreeAppend, ComputeRoot, Sign, SaveHead, SaveHeadError,
       SaveSTH, CompactState, SaveState, SaveStateError, SaveTreeState, Reply, InternalError,
       RebuildNext, RebuildDone, Crash, Beat, BeatRoot, BeatSign, BeatSave, BeatError, BeatDone,
       vars, storeVars, clientVars

(* What a handler's step adds to heads and replies, and what it signs. *)
LEMMA HandlerSizes ==
    ASSUME IInv, NEW h \in Handlers, Receive(h) \/ Handle(h)
    PROVE  /\ UNCHANGED <<phase, hbVars>>
           /\ treeHeads' \subseteq treeHeads \cup (IF pc[h] = "save" THEN {sth[h]} ELSE {})
           /\ \A r \in created' \ created : pc[h] = "reply" /\ r.sth = sth[h]
           /\ \A g \in Handlers : pc'[g] \in Signed =>
                 \/ pc[g] \in Signed /\ sth'[g] = sth[g]
                 \/ sth'[g].treeSize = Len(tree')
           /\ \A g \in Handlers : pc'[g] \in Saved =>
                 \/ pc[g] \in Saved /\ sth'[g] = sth[g]
                 \/ sth'[g] \in treeHeads'
<1> USE DEF Handle
<1>1. UNCHANGED <<phase, hbVars>>
  BY DEF Receive, DedupMiss, DedupConflict, DedupError, InsertBegin, InsertCommit,
         InsertError, InsertAckLost, TreeAppend, ComputeRoot, Sign, SaveHead, SaveHeadError, CompactState,
         SaveState, SaveStateError, Reply, InternalError, processVars
<1>2. treeHeads' \subseteq treeHeads \cup (IF pc[h] = "save" THEN {sth[h]} ELSE {})
  BY DEF Receive, DedupMiss, DedupConflict, DedupError, InsertBegin, DrawIndex, InsertCommit,
         CommitRow, InsertError, InsertAckLost, TreeAppend, ComputeRoot, Sign, SaveHead, SaveHeadError,
         SaveSTH, CompactState, SaveState, SaveStateError, SaveTreeState, Reply, InternalError, Goto,
         storeVars
<1>3. \A r \in created' \ created : pc[h] = "reply" /\ r.sth = sth[h]
  BY DEF Receive, DedupMiss, DedupConflict, DedupError, InsertBegin, InsertCommit,
         InsertError, InsertAckLost, TreeAppend, ComputeRoot, Sign, SaveHead, SaveHeadError, CompactState,
         SaveState, SaveStateError, Reply, InternalError, clientVars
<1>4. \A g \in Handlers : pc'[g] \in Signed =>
         \/ pc[g] \in Signed /\ sth'[g] = sth[g]
         \/ sth'[g].treeSize = Len(tree')
  <2>1. pc'[h] \in Signed => (pc[h] \in Signed /\ UNCHANGED sth) \/ sth'[h].treeSize = Len(tree')
    BY DEF Receive, DedupMiss, DedupConflict, DedupError, InsertBegin, InsertCommit,
           InsertError, InsertAckLost, TreeAppend, ComputeRoot, Sign, SaveHead, SaveHeadError, CompactState,
           SaveState, SaveStateError, Reply, InternalError, Goto, Return, IInv, TypeOK, Signed
  <2> QED BY <2>1, OthersUntouched
<1>5. \A g \in Handlers : pc'[g] \in Saved =>
         \/ pc[g] \in Saved /\ sth'[g] = sth[g]
         \/ sth'[g] \in treeHeads'
  <2>1. pc'[h] \in Saved => (pc[h] \in Saved /\ UNCHANGED sth) \/ sth'[h] \in treeHeads'
    BY DEF Receive, DedupMiss, DedupConflict, DedupError, InsertBegin, InsertCommit,
           InsertError, InsertAckLost, TreeAppend, ComputeRoot, Sign, SaveHead, SaveHeadError, CompactState,
           SaveSTH, SaveState, SaveStateError, Reply, InternalError, Goto, Return, IInv, TypeOK, Saved
  <2> QED BY <2>1, OthersUntouched
<1> QED BY <1>1, <1>2, <1>3, <1>4, <1>5

(* The latest head is a saved one. *)
LEMMA LatestSaved ==
    ASSUME [Next]_vars
    PROVE  latestSTH' = latestSTH \/ latestSTH' \in treeHeads'
BY DEF Next, Receive, Handle, DedupMiss, DedupConflict, DedupError, InsertBegin, DrawIndex, InsertCommit,
       CommitRow, InsertError, InsertAckLost, TreeAppend, ComputeRoot, Sign, SaveHead, SaveHeadError,
       SaveSTH, CompactState, SaveState, SaveStateError, SaveTreeState, Reply, InternalError,
       RebuildNext, RebuildDone, Crash, Beat, BeatRoot, BeatSign, BeatSave, BeatError, BeatDone,
       vars, storeVars

LEMMA SizesServedNext ==
    ASSUME IInv, SizesServed, [Next]_vars
    PROVE  SizesServed'
<1>0. latestSTH' # Nil => latestSTH' \in treeHeads'
  BY HeadsGrow, LatestSaved DEF SizesServed
<1> USE DEF storeVars, handlerVars, hbVars, clientVars, processVars
<1>1. /\ \A h \in Handlers : pc[h] \in Signed => sth[h].treeSize \in Nat
      /\ hbPc = "save" => hbSTH.treeSize \in Nat
      /\ \A head \in treeHeads : head.treeSize \in Nat
      /\ Len(tree) \in Nat
  BY DEF IInv, TypeOK, LocalsSet, STH
<1>2. CASE UNCHANGED vars
  BY <1>0, <1>2 DEF SizesServed, vars
<1>3. CASE RebuildNext
  BY <1>0, <1>3 DEF SizesServed, RebuildNext
<1>4. CASE Crash
  BY <1>0, <1>4 DEF SizesServed, Crash, Each, Saved
<1>5. CASE RebuildDone
  <2>1. Len(entries) \in Nat /\ \A head \in treeHeads : head.treeSize <= Len(entries)
    BY DEF IInv, TypeOK, RootsDurable, HeadBounded
  <2>2. Committed \subseteq Leafs(tree)
    BY <1>5 DEF RebuildDone, Committed, Rows, IInv, RebuildSoFar
  <2>3. Len(entries) <= Len(tree)
    BY <2>2, TreeNoShorter DEF IInv
  <2>4. \A head \in treeHeads : head.treeSize <= Len(tree)
    BY <1>1, <2>1, <2>3
  <2>5. hbPc = "wait" /\ \A h \in Handlers : pc[h] = "idle"
    BY <1>5 DEF RebuildDone, IInv, QuietRebuild
  <2> QED BY <1>0, <1>5, <2>4, <2>5 DEF SizesServed, RebuildDone, Saved, Signed
<1>6. CASE Beat
  <2>1. UNCHANGED <<pc, sth, tree, phase, created>>
    BY <1>6 DEF Beat, BeatRoot, BeatSign, BeatSave, BeatError, BeatDone
  <2>2. treeHeads' \subseteq treeHeads \cup (IF hbPc = "save" THEN {hbSTH} ELSE {})
    BY <1>6 DEF Beat, BeatRoot, BeatSign, BeatSave, BeatError, BeatDone, SaveSTH
  <2>3. hbPc' = "save" => hbSTH'.treeSize = Len(tree)
    BY <1>6 DEF Beat, BeatRoot, BeatSign, BeatSave, BeatError, BeatDone
  <2>4. treeHeads \subseteq treeHeads'
    BY <1>6, HeadsGrow DEF Next
  <2> QED BY <1>0, <1>1, <2>1, <2>2, <2>3, <2>4 DEF SizesServed
<1>7. ASSUME NEW h \in Handlers, Receive(h) \/ Handle(h) PROVE SizesServed'
  <2>1. treeHeads \subseteq treeHeads' /\ created \subseteq created'
    BY <1>7, HeadsGrow DEF Next
  <2>2. /\ UNCHANGED <<phase, hbPc, hbSTH>>
        /\ treeHeads' \subseteq treeHeads \cup (IF pc[h] = "save" THEN {sth[h]} ELSE {})
        /\ \A r \in created' \ created : pc[h] = "reply" /\ r.sth = sth[h]
        /\ \A g \in Handlers : pc'[g] \in Signed =>
              \/ pc[g] \in Signed /\ sth'[g] = sth[g]
              \/ sth'[g].treeSize = Len(tree')
    BY <1>7, HandlerSizes
  <2>3. \A g \in Handlers : pc'[g] \in Saved => \/ pc[g] \in Saved /\ sth'[g] = sth[g]
                                                \/ sth'[g] \in treeHeads'
    BY <1>7, HandlerSizes
  <2>4. \A g \in Handlers : pc'[g] \in Saved => sth'[g] \in treeHeads'
    BY <2>1, <2>3 DEF SizesServed
  <2>5. \A r \in created' : r.sth \in treeHeads'
    BY <2>1, <2>2 DEF SizesServed, Saved
  <2>6. phase' = "serving" => Len(tree') \in Nat /\ Len(tree) <= Len(tree')
    BY <1>7, <2>2, TreeGrows DEF Next
  <2>7. phase' = "serving" => /\ \A g \in Handlers : pc'[g] \in Signed => sth'[g].treeSize <= Len(tree')
                              /\ hbPc' = "save" => hbSTH'.treeSize <= Len(tree')
    BY <1>1, <2>2, <2>6 DEF SizesServed
  <2>8. phase' = "serving" => \A head \in treeHeads' : head.treeSize <= Len(tree')
    BY <1>1, <2>2, <2>6 DEF SizesServed, Signed
  <2> QED BY <1>0, <2>4, <2>5, <2>7, <2>8 DEF SizesServed
<1> QED BY <1>2, <1>3, <1>4, <1>5, <1>6, <1>7 DEF Next
-----------------------------------------------------------------------------
(* The tool and its request. *)

(* A step of the tool and the server is one of the server or leaves it be. *)
LEMMA ServerUnderTool == [BenchNext]_<<vars, benchVars>> => [Next]_vars
BY ClientAssumption
DEF BenchNext, BenchStart, Submit, SubmitRefused, SubmitServed, SubmitAnswered, GetProof, Report,
    ServerCrash, OtherClient, Next

(* All sizes that the tool knows are served. *)
LEMMA KnownServed ==
    ASSUME IInv, SizesServed, StepOfTool, Known, phase = "serving"
    PROVE  /\ Len(tree) \in Nat
           /\ \A i \in DOMAIN samples : samples[i].treeSize \in Nat /\ samples[i].treeSize <= Len(tree)
<1>1. Len(tree) \in Nat /\ \A head \in treeHeads : head.treeSize \in Nat
  <2>1. tree \in Seq(Leaves) /\ treeHeads \subseteq STH
    BY DEF IInv, TypeOK
  <2> QED BY ONLY <2>1 DEF STH
<1>2. \A head \in treeHeads : head.treeSize <= Len(tree)
  BY DEF SizesServed
<1>3. \A i \in DOMAIN samples : \E head \in treeHeads : samples[i].treeSize = head.treeSize
  BY DEF SizesServed, Known
<1> QED BY <1>1, <1>2, <1>3 DEF Known

(* All indexes that the tool knows were drawn. *)
LEMMA KnownDrawn ==
    ASSUME IInv, RepliesAtRow, StepOfTool, Known, NEW i \in DOMAIN samples
    PROVE  samples[i].leafIndex \in Nat /\ lastIndex \in Nat /\ samples[i].leafIndex + 1 <= lastIndex
<1>1. samples[i].leafIndex \in Nat /\ lastIndex \in Nat
  <2> DEFINE Sample == [leafIndex : Nat, treeSize : Nat]
  <2>1. samples \in Seq(Sample)
    BY DEF StepOfTool
  <2> HIDE DEF Sample
  <2>2. samples[i] \in Sample
    BY <2>1
  <2> QED BY <2>2, MaxIndexAssumption DEF Sample, IInv, TypeOK
<1>2. PICK r \in created : samples[i].leafIndex = r.leafIndex
  BY DEF Known
<1>3. [leafIndex |-> r.leafIndex + 1, leafHash |-> r.leaf] \in Rows
  BY DEF RepliesAtRow
<1>4. PICK j \in DOMAIN entries : entries[j] = [leafIndex |-> r.leafIndex + 1, leafHash |-> r.leaf]
  BY <1>3 DEF Rows
<1>5. entries[j].leafIndex = r.leafIndex + 1
  BY <1>4
<1> QED BY <1>1, <1>2, <1>5 DEF IInv, IndexesDrawn

(* What the tool knows stays known. *)
LEMMA KnownKept ==
    ASSUME Known, [Next]_vars, UNCHANGED samples \/ samples' = <<>>
    PROVE  Known'
<1>1. treeHeads \subseteq treeHeads' /\ created \subseteq created'
  BY HeadsGrow
<1>2. CASE UNCHANGED samples
  BY <1>1, <1>2 DEF Known
<1>3. CASE samples' = <<>>
  BY <1>3 DEF Known
<1> QED BY <1>2, <1>3

(* The request keeps ahead while the server works on it. *)
LEMMA RequestServed ==
    ASSUME IInv, RepliesAtRow, BenchInv, Handle(Client), UNCHANGED samples
    PROVE  RequestAhead'
<1> USE ClientAssumption DEF BenchInv
<1>1. \A i \in DOMAIN samples : /\ samples[i].leafIndex \in Nat /\ lastIndex \in Nat
                                /\ samples[i].leafIndex + 1 <= lastIndex
  BY KnownDrawn
<1>2. phase = "serving"
  BY DEF Handle, DedupMiss, DedupConflict, DedupError, InsertBegin, InsertCommit, InsertError,
         InsertAckLost, TreeAppend, ComputeRoot, Sign, SaveHead, SaveHeadError, CompactState,
         SaveState, SaveStateError, Reply, Goto, InternalError, IInv, QuietRebuild, TypeOK
<1>3. /\ Len(tree) \in Nat
      /\ \A i \in DOMAIN samples : samples[i].treeSize \in Nat /\ samples[i].treeSize <= Len(tree)
  BY <1>2, KnownServed
<1>4. CASE InsertBegin(Client)
  <2>1. pc'[Client] = "commit" /\ leafIndex'[Client] = lastIndex + 1
    BY <1>4 DEF InsertBegin, DrawIndex, Goto, IInv, TypeOK
  <2> QED BY <1>1, <2>1 DEF RequestAhead, Signed
<1>5. CASE TreeAppend(Client)
  <2>1. pc[Client] = "append" /\ pc'[Client] = "root" /\ UNCHANGED leafIndex
    BY <1>5 DEF TreeAppend, Goto, IInv, TypeOK
  <2>2. Len(tree') = Len(tree) + 1
    BY <1>5, LeafsAppend DEF TreeAppend, Goto, IInv, TypeOK, LocalsSet, Working
  <2>3. LargerThanKnown(Len(tree))'
    BY <1>3, <2>2 DEF LargerThanKnown
  <2> QED BY <2>1, <2>3 DEF RequestAhead, Signed
<1>6. CASE ComputeRoot(Client) \/ Sign(Client)
  <2>1. /\ UNCHANGED <<tree, leafIndex>> /\ pc[Client] \in {"root", "sign"}
        /\ \/ pc'[Client] = "sign"
           \/ pc'[Client] = "save" /\ sth'[Client].treeSize = Len(tree)
    BY <1>6 DEF ComputeRoot, Sign, Goto, IInv, TypeOK
  <2>2. LargerThanKnown(Len(tree))
    BY <2>1 DEF RequestAhead
  <2>3. LargerThanKnown(Len(tree))' /\ (sth'[Client].treeSize = Len(tree) => LargerThanKnown(sth[Client].treeSize)')
    BY <2>1, <2>2 DEF LargerThanKnown
  <2> QED BY <2>1, <2>3 DEF RequestAhead, Rooted, Signed
<1>7. CASE ~InsertBegin(Client) /\ ~TreeAppend(Client) /\ ~ComputeRoot(Client) /\ ~Sign(Client)
  <2>1. \/ pc'[Client] \in {"idle", "insert"}
        \/ /\ pc[Client] = "commit" /\ pc'[Client] = "append"
           /\ UNCHANGED <<leafIndex, sth, tree>>
        \/ /\ pc[Client] \in Signed /\ pc'[Client] \in Saved
           /\ UNCHANGED <<leafIndex, sth, tree>>
    BY <1>7 DEF Handle, DedupMiss, DedupConflict, DedupError, InsertCommit, InsertError,
         InsertAckLost, SaveHead, SaveHeadError, CompactState,
         SaveState, SaveStateError, Reply, Goto, InternalError, Return, IInv, TypeOK, Signed, Saved
  <2> QED BY <2>1 DEF RequestAhead, LargerThanKnown, Rooted, Signed, Saved
<1> QED BY <1>4, <1>5, <1>6, <1>7

(* Nobody else touches the request of the tool. *)
LEMMA RequestUntouched ==
    ASSUME IInv, BenchInv, UNCHANGED samples,
           OtherClient \/ RebuildNext \/ RebuildDone \/ Beat
    PROVE  RequestAhead' /\ pc'[Client] = pc[Client]
<1> USE ClientAssumption DEF handlerVars
<1>1. /\ pc'[Client] = pc[Client] /\ leafIndex'[Client] = leafIndex[Client] /\ sth'[Client] = sth[Client]
      /\ phase = "serving" => phase' = "serving"
  <2>1. CASE OtherClient
    <3>1. PICK h \in Handlers \ {Client} : Receive(h) \/ Handle(h)
      BY <2>1 DEF OtherClient
    <3> QED BY <3>1, OthersUntouched, HandlerSizes
  <2>2. CASE RebuildNext \/ RebuildDone \/ Beat
    BY <2>2 DEF RebuildNext, RebuildDone, Beat, BeatRoot, BeatSign, BeatSave, BeatError, BeatDone, processVars
  <2> QED BY <2>1, <2>2
<1>2. phase = "serving" => \A i \in DOMAIN samples : samples[i].treeSize \in Nat
  BY KnownServed DEF BenchInv, StepOfTool
<1>3. pc[Client] # "idle" => phase = "serving"
  BY DEF IInv, QuietRebuild, TypeOK
<1>4. pc[Client] # "idle" => Len(tree) \in Nat /\ Len(tree') \in Nat /\ Len(tree) <= Len(tree')
  BY <1>1, <1>3, TreeGrows DEF Next, OtherClient
<1>5. pc[Client] \in {"root", "sign"} => LargerThanKnown(Len(tree))'
  <2> SUFFICES ASSUME pc[Client] \in {"root", "sign"} PROVE LargerThanKnown(Len(tree))'
    OBVIOUS
  <2>1. LargerThanKnown(Len(tree))
    BY DEF BenchInv, RequestAhead
  <2> QED BY <1>2, <1>3, <1>4, <2>1 DEF LargerThanKnown
<1> QED BY <1>1, <1>5 DEF BenchInv, RequestAhead, LargerThanKnown

(* A submission without a sample leaves nothing that has to ascend. *)
LEMMA FailedAscends ==
    ASSUME BenchInv, NEW n, SubmitFailed(n), step \notin {"start", "proof", "refused"}
    PROVE  /\ SamplesAscend' /\ ProofsServed' /\ step' \in {"submit", "fatal"}
           /\ samples' \in Seq([leafIndex : Nat, treeSize : Nat])
           /\ UNCHANGED samples \/ samples' = <<>>
<1>1. UNCHANGED samples \/ samples' = <<>>
  BY DEF SubmitFailed
<1>2. step' \in {"submit", "fatal"}
  BY DEF SubmitFailed
<1>3. SamplesAscend'
  BY <1>1 DEF BenchInv, SamplesAscend
<1>4. ProofsServed'
  BY <1>2 DEF ProofsServed
<1>5. samples' \in Seq([leafIndex : Nat, treeSize : Nat])
  <2> DEFINE Sample == [leafIndex : Nat, treeSize : Nat]
  <2>1. samples \in Seq(Sample)
    BY DEF BenchInv, StepOfTool
  <2> HIDE DEF Sample
  <2>2. CASE UNCHANGED samples
    BY <2>1, <2>2 DEF Sample
  <2>3. CASE samples' = <<>>
    BY <2>3 DEF Sample
  <2> QED BY <1>1, <2>2, <2>3
<1> QED BY <1>1, <1>2, <1>3, <1>4, <1>5

(* Steps of the tool that the server has no part in. *)
LEMMA ToolAlone ==
    ASSUME IInv, BenchInv, BenchStart \/ SubmitRefused \/ GetProof \/ Report
    PROVE  BenchInv'
<1> USE DEF BenchInv
<1>1. UNCHANGED vars
  BY DEF BenchStart, SubmitRefused, GetProof, Report
<1>2. SizesServed'
  BY <1>1, SizesServedNext
<1>3. CASE BenchStart
  <2>1. samples = <<>> /\ samples' = <<>> /\ step = "start" /\ step' \in {"submit", "fatal"}
    BY <1>3 DEF BenchStart, StepOfTool
  <2>2. pc[Client] = "idle" /\ pc' = pc
    BY <1>1, <2>1 DEF StepOfTool, vars, handlerVars
  <2>3. StepOfTool' /\ Known' /\ RequestAhead'
    BY <1>1, <2>1, <2>2 DEF StepOfTool, Known, RequestAhead, vars, storeVars, Rooted, Signed
  <2>4. SamplesAscend' /\ ProofsServed'
    BY <2>1 DEF SamplesAscend, ProofsServed
  <2> QED BY <1>2, <2>3, <2>4
<1>4. CASE SubmitRefused
  <2>1. /\ step = "submit" /\ SubmitFailed(sent + 1) /\ pc' = pc
    BY <1>1, <1>4 DEF SubmitRefused, vars, handlerVars
  <2>2. /\ SamplesAscend' /\ ProofsServed' /\ step' \in {"submit", "fatal"}
        /\ samples' \in Seq([leafIndex : Nat, treeSize : Nat])
        /\ UNCHANGED samples \/ samples' = <<>>
    BY <2>1, FailedAscends
  <2>3. pc[Client] = "idle"
    BY <2>1 DEF StepOfTool
  <2>4. StepOfTool'
    BY <2>1, <2>2, <2>3 DEF StepOfTool
  <2>5. Known'
    BY <1>1, <2>2, KnownKept
  <2>6. RequestAhead'
    BY <2>1, <2>3 DEF RequestAhead, Rooted, Signed
  <2> QED BY <1>2, <2>2, <2>4, <2>5, <2>6
<1>5. CASE GetProof \/ Report
  <2>1. /\ UNCHANGED samples /\ pc' = pc /\ step \in {"proof", "submit"}
        /\ step' \in {"fatal", "refused", "submit", "done"}
        /\ step' = "refused" => step = "proof"
    BY <1>1, <1>5 DEF GetProof, Report, vars, handlerVars
  <2>2. pc[Client] = "idle"
    BY <2>1 DEF StepOfTool
  <2>3. StepOfTool'
    BY <2>1, <2>2 DEF StepOfTool
  <2>4. Known'
    BY <1>1, <2>1, KnownKept
  <2>5. RequestAhead'
    BY <2>1, <2>2 DEF RequestAhead, Rooted, Signed
  <2>6. SamplesAscend'
    BY <2>1 DEF SamplesAscend
  <2>7. ProofsServed'
    <3> SUFFICES ASSUME step' = "refused"
                 PROVE  samples[Len(samples)].leafIndex >= samples[Len(samples)].treeSize
      BY <2>1 DEF ProofsServed
    <3> DEFINE index == samples[Len(samples)].leafIndex
               size == samples[Len(samples)].treeSize
    <3>1. phase # "rebuild" /\ InclusionProof(index, size) = Nil
      BY <1>5 DEF GetProof, Report
    <3>2. Len(samples) \in DOMAIN samples
      BY <2>1 DEF StepOfTool
    <3>3. size \in Nat /\ Len(tree) \in Nat /\ size <= Len(tree)
      BY <3>1, <3>2, KnownServed DEF IInv, TypeOK
    <3>4. SubSeq(tree, 1, size) # Nil
      <4>1. \A n \in Nat : n <= Len(tree) => SubSeq(tree, 1, n) \in Seq(Leaves)
        BY DEF IInv, TypeOK
      <4> HIDE DEF size
      <4> QED BY <3>3, <4>1, NilAssumption
    <3> HIDE DEF index, size
    <3>5. index >= size \/ size > Len(tree)
      BY <3>1, <3>4, Zenon DEF InclusionProof
    <3>6. index >= size
      BY <3>3, <3>5
    <3> QED BY <3>6 DEF index, size
  <2> QED BY <1>2, <2>3, <2>4, <2>5, <2>6, <2>7
<1> QED BY <1>3, <1>4, <1>5

(* The sample of a reply is further down the log and over a larger tree    *)
(* than what the tool knew before.                                         *)
LEMMA SampleAscends ==
    ASSUME IInv, RepliesAtRow, BenchInv, Reply(Client), NEW reply \in created' \ created,
           samples' = Append(samples, [leafIndex |-> reply.leafIndex, treeSize |-> reply.sth.treeSize])
    PROVE  /\ SamplesAscend' /\ Known' /\ samples' # <<>>
           /\ samples' \in Seq([leafIndex : Nat, treeSize : Nat])
<1> USE ClientAssumption DEF BenchInv
<1> DEFINE n == Len(samples)
           Sample == [leafIndex : Nat, treeSize : Nat]
<1>1. /\ pc[Client] = "reply" /\ reply.leafIndex = leafIndex[Client] - 1 /\ reply.sth = sth[Client]
  BY DEF Reply
<1>2. /\ leafIndex[Client] \in Nat \ {0} /\ sth[Client].treeSize \in Nat
  BY <1>1, MaxIndexAssumption DEF IInv, TypeOK, LocalsSet, STH, Rooted, Signed
<1>3. phase = "serving"
  BY <1>1 DEF IInv, QuietRebuild, TypeOK
<1>4. \A i \in DOMAIN samples : samples[i].leafIndex \in Nat /\ samples[i].treeSize \in Nat
  BY <1>3, KnownServed, KnownDrawn
<1>5. /\ LargerThanKnown(sth[Client].treeSize)
      /\ \A i \in DOMAIN samples : samples[i].leafIndex + 1 < leafIndex[Client]
  BY <1>1 DEF RequestAhead, Rooted, Signed
<1>6. /\ samples \in Seq(Sample)
      /\ [leafIndex |-> reply.leafIndex, treeSize |-> reply.sth.treeSize] \in Sample
  BY <1>1, <1>2 DEF StepOfTool
<1>7. /\ n \in Nat /\ DOMAIN samples = 1..n
      /\ samples' \in Seq(Sample) /\ DOMAIN samples' = 1..(n + 1)
      /\ \A i \in 1..n : samples'[i] = samples[i]
      /\ samples'[n + 1] = [leafIndex |-> reply.leafIndex, treeSize |-> reply.sth.treeSize]
  <2> HIDE DEF Sample
  <2> QED BY <1>6
<1> HIDE DEF n, Sample
<1>8. samples'[n + 1].leafIndex = leafIndex[Client] - 1 /\ samples'[n + 1].treeSize = sth[Client].treeSize
  BY <1>1, <1>7
<1>9. \A i \in 1..n : /\ samples'[i].treeSize < samples'[n + 1].treeSize
                      /\ samples'[i].leafIndex < samples'[n + 1].leafIndex
  <2>1. \A i \in 1..n : samples[i].treeSize < sth[Client].treeSize
    BY <1>5, <1>7 DEF LargerThanKnown
  <2>2. \A i \in 1..n : samples[i].leafIndex < leafIndex[Client] - 1
    <3> SUFFICES ASSUME NEW i \in 1..n PROVE samples[i].leafIndex < leafIndex[Client] - 1
      OBVIOUS
    <3>1. samples[i].leafIndex \in Nat /\ samples[i].leafIndex + 1 < leafIndex[Client] /\ leafIndex[Client] \in Nat
      BY <1>2, <1>4, <1>5, <1>7
    <3> QED BY ONLY <3>1
  <2> QED BY <1>7, <1>8, <2>1, <2>2
<1>10. SamplesAscend'
  <2> SUFFICES ASSUME NEW i \in 1..(n + 1)
               PROVE  \A j \in 1..(i - 1) : /\ samples'[j].treeSize < samples'[i].treeSize
                                            /\ samples'[j].leafIndex < samples'[i].leafIndex
    BY <1>7 DEF SamplesAscend
  <2>1. CASE i = n + 1
    <3>1. 1..(i - 1) = 1..n
      BY <1>7, <2>1
    <3> QED BY <1>9, <2>1, <3>1
  <2>2. CASE i # n + 1
    <3>1. i \in 1..n /\ \A j \in 1..(i - 1) : j \in 1..n
      BY <1>7, <2>2
    <3> QED BY <1>7, <3>1 DEF SamplesAscend
  <2> QED BY <2>1, <2>2
<1>11. Known'
  <2>1. treeHeads' = treeHeads /\ created \subseteq created'
    BY DEF Reply, storeVars
  <2>2. \A i \in 1..n : \E r \in created' : /\ samples'[i].leafIndex = r.leafIndex
                                            /\ samples'[i].treeSize = r.sth.treeSize
    BY <1>7, <2>1 DEF Known
  <2>3. samples'[n + 1].leafIndex = reply.leafIndex /\ samples'[n + 1].treeSize = reply.sth.treeSize
    BY <1>7
  <2>4. \A i \in DOMAIN samples' : i \in 1..n \/ i = n + 1
    BY <1>7
  <2> QED BY <2>1, <2>2, <2>3, <2>4 DEF Known
<1> QED BY <1>7, <1>10, <1>11 DEF Sample

(* How many payloads were sent is a number. *)
ToolTypeOK == tool \in Tools /\ sent \in Nat

LEMMA ToolTypes == BenchInit => ToolTypeOK
BY DEF BenchInit, ToolTypeOK

LEMMA ToolTypesNext == ToolTypeOK /\ [BenchNext]_<<vars, benchVars>> => ToolTypeOK'
BY DEF ToolTypeOK, BenchNext, BenchStart, Submit, SubmitRefused, SubmitServed, SubmitAnswered, GetProof,
       Report, ServerCrash, benchVars

(* A step of the server for the tool, and of others next to it. *)
LEMMA ToolServed ==
    ASSUME IInv, RepliesAtRow, ToolTypeOK, BenchInv, [Next]_vars,
           \/ Submit \/ SubmitServed \/ SubmitAnswered \/ ServerCrash
           \/ (OtherClient \/ RebuildNext \/ RebuildDone \/ Beat) /\ UNCHANGED benchVars
    PROVE  BenchInv'
<1> USE ClientAssumption DEF BenchInv
<1>1. SizesServed'
  BY SizesServedNext
<1>2. CASE Submit
  <2>1. /\ UNCHANGED samples /\ step' = "wait" /\ step = "submit"
        /\ pc'[Client] = "dedup"
    BY <1>2 DEF Submit, Receive, Goto, IInv, TypeOK
  <2>2. StepOfTool'
    BY <2>1 DEF StepOfTool
  <2>3. Known' /\ RequestAhead'
    BY <2>1, KnownKept DEF RequestAhead, Rooted, Signed
  <2>4. SamplesAscend' /\ ProofsServed'
    BY <2>1 DEF SamplesAscend, ProofsServed
  <2> QED BY <1>1, <2>2, <2>3, <2>4
<1>3. CASE SubmitServed
  <2>1. /\ UNCHANGED <<samples, step>> /\ pc'[Client] # "idle" /\ Handle(Client)
    BY <1>3 DEF SubmitServed, benchVars
  <2>2. pc[Client] # "idle"
    BY <2>1 DEF Handle, DedupMiss, DedupConflict, DedupError, InsertBegin, InsertCommit, InsertError,
         InsertAckLost, TreeAppend, ComputeRoot, Sign, SaveHead, SaveHeadError, CompactState,
         SaveState, SaveStateError, Reply, Goto, InternalError
  <2>3. StepOfTool'
    BY <2>1, <2>2 DEF StepOfTool
  <2>4. Known' /\ RequestAhead'
    BY <2>1, KnownKept, RequestServed
  <2>5. SamplesAscend' /\ ProofsServed'
    BY <2>1 DEF SamplesAscend, ProofsServed
  <2> QED BY <1>1, <2>3, <2>4, <2>5
<1>4. CASE SubmitAnswered
  <2>1. Handle(Client) /\ pc'[Client] = "idle"
    BY <1>4 DEF SubmitAnswered
  <2>2. step = "wait"
    BY <2>1 DEF StepOfTool, Handle, DedupMiss, DedupConflict, DedupError, InsertBegin, InsertCommit, InsertError,
         InsertAckLost, TreeAppend, ComputeRoot, Sign, SaveHead, SaveHeadError, CompactState,
         SaveState, SaveStateError, Reply, Goto, InternalError
  <2>3. RequestAhead'
    BY <2>1 DEF RequestAhead, Rooted, Signed
  <2>4. CASE SubmitFailed(sent)
    <3>1. /\ SamplesAscend' /\ ProofsServed' /\ step' \in {"submit", "fatal"}
          /\ samples' \in Seq([leafIndex : Nat, treeSize : Nat])
          /\ UNCHANGED samples \/ samples' = <<>>
      BY <2>2, <2>4, FailedAscends
    <3>2. StepOfTool'
      BY <2>1, <3>1 DEF StepOfTool
    <3>3. Known'
      BY <3>1, KnownKept
    <3> QED BY <1>1, <2>3, <3>1, <3>2, <3>3
  <2>5. ASSUME NEW reply \in created' \ created, UNCHANGED samples, step' = "submit"
        PROVE  BenchInv'
    <3>1. StepOfTool'
      BY <2>1, <2>5 DEF StepOfTool
    <3>2. Known'
      BY <2>5, KnownKept
    <3>3. SamplesAscend' /\ ProofsServed'
      BY <2>5 DEF SamplesAscend, ProofsServed
    <3> QED BY <1>1, <2>3, <3>1, <3>2, <3>3
  <2>6. ASSUME NEW reply \in created' \ created, step' \in {"submit", "proof"},
               samples' = Append(samples, [leafIndex |-> reply.leafIndex, treeSize |-> reply.sth.treeSize])
        PROVE  BenchInv'
    <3>1. Reply(Client)
      BY <2>1 DEF Handle, DedupMiss, DedupConflict, DedupError, InsertBegin, InsertCommit, InsertError,
           InsertAckLost, TreeAppend, ComputeRoot, Sign, SaveHead, SaveHeadError, CompactState,
           SaveState, SaveStateError, InternalError, clientVars
    <3>2. /\ SamplesAscend' /\ Known' /\ samples' # <<>>
          /\ samples' \in Seq([leafIndex : Nat, treeSize : Nat])
      BY <2>6, <3>1, SampleAscends
    <3>3. StepOfTool'
      BY <2>1, <2>6, <3>2 DEF StepOfTool
    <3>4. ProofsServed'
      BY <2>6 DEF ProofsServed
    <3> QED BY <1>1, <2>3, <3>2, <3>3, <3>4
  <2>7. \/ SubmitFailed(sent)
        \/ \E reply \in created' \ created :
              /\ step' \in {"submit", "proof"}
              /\ \/ UNCHANGED samples /\ step' = "submit"
                 \/ samples' = Append(samples, [leafIndex |-> reply.leafIndex, treeSize |-> reply.sth.treeSize])
    <3>1. ASSUME NEW reply \in created' \ created,
                 samples' = IF sent <= Warmup[tool] THEN samples
                            ELSE Append(samples, [leafIndex |-> reply.leafIndex,
                                                  treeSize |-> reply.sth.treeSize]),
                 step' = IF tool = "bench-compare" /\ sent > Warmup[tool] THEN "proof" ELSE "submit"
          PROVE  /\ step' \in {"submit", "proof"}
                 /\ \/ UNCHANGED samples /\ step' = "submit"
                    \/ samples' = Append(samples, [leafIndex |-> reply.leafIndex, treeSize |-> reply.sth.treeSize])
      <4>1. sent \in Nat /\ Warmup[tool] \in Nat
        BY WarmupAssumption DEF ToolTypeOK
      <4>2. CASE sent <= Warmup[tool]
        BY <3>1, <4>1, <4>2
      <4>3. CASE ~(sent <= Warmup[tool])
        BY <3>1, <4>3
      <4> QED BY <4>2, <4>3
    <3> QED BY <1>4, <3>1 DEF SubmitAnswered
  <2> QED BY <2>4, <2>5, <2>6, <2>7
<1>5. CASE ServerCrash
  <2>1. pc'[Client] = "idle"
    BY <1>5 DEF ServerCrash, Crash, Each
  <2>2. RequestAhead'
    BY <2>1 DEF RequestAhead, Rooted, Signed
  <2>3. CASE step = "wait"
    <3>1. /\ SamplesAscend' /\ ProofsServed' /\ step' \in {"submit", "fatal"}
          /\ samples' \in Seq([leafIndex : Nat, treeSize : Nat])
          /\ UNCHANGED samples \/ samples' = <<>>
      BY <1>5, <2>3, FailedAscends DEF ServerCrash
    <3>2. StepOfTool'
      BY <2>1, <3>1 DEF StepOfTool
    <3>3. Known'
      BY <3>1, KnownKept
    <3> QED BY <1>1, <2>2, <3>1, <3>2, <3>3
  <2>4. CASE step # "wait"
    <3>1. UNCHANGED <<samples, step>>
      BY <1>5, <2>4 DEF ServerCrash
    <3>2. StepOfTool' /\ SamplesAscend' /\ ProofsServed'
      BY <2>1, <2>4, <3>1 DEF StepOfTool, SamplesAscend, ProofsServed
    <3>3. Known'
      BY <3>1, KnownKept
    <3> QED BY <1>1, <2>2, <3>2, <3>3
  <2> QED BY <2>3, <2>4
<1>6. CASE (OtherClient \/ RebuildNext \/ RebuildDone \/ Beat) /\ UNCHANGED benchVars
  <2>1. UNCHANGED <<samples, step>>
    BY <1>6 DEF benchVars
  <2>2. RequestAhead' /\ pc'[Client] = pc[Client]
    BY <1>6, <2>1, RequestUntouched
  <2>3. StepOfTool' /\ SamplesAscend' /\ ProofsServed'
    BY <2>1, <2>2 DEF StepOfTool, SamplesAscend, ProofsServed
  <2>4. Known'
    BY <2>1, KnownKept
  <2> QED BY <1>1, <2>2, <2>3, <2>4
<1> QED BY <1>2, <1>3, <1>4, <1>5, <1>6
-----------------------------------------------------------------------------
(* The invariant. *)

LEMMA BenchInvInit == BenchInit => BenchInv
<1> SUFFICES ASSUME BenchInit PROVE BenchInv
  OBVIOUS
<1>1. /\ treeHeads = {} /\ latestSTH = Nil /\ created = {} /\ phase = "rebuild"
      /\ \A h \in Handlers : pc[h] = "idle"
      /\ step = "start" /\ samples = <<>>
  BY DEF BenchInit, Init, StoreInit, Each
<1>2. samples \in Seq([leafIndex : Nat, treeSize : Nat])
  BY <1>1
<1>3. SizesServed /\ StepOfTool
  BY <1>1, <1>2, ClientAssumption DEF SizesServed, StepOfTool, Saved, Signed
<1>4. Known /\ RequestAhead
  BY <1>1, ClientAssumption DEF Known, RequestAhead, Rooted, Signed
<1>5. SamplesAscend /\ ProofsServed
  BY <1>1 DEF SamplesAscend, ProofsServed
<1> QED BY <1>3, <1>4, <1>5 DEF BenchInv

LEMMA BenchInvNext ==
    ASSUME IInv, RepliesAtRow, ToolTypeOK, BenchInv, [BenchNext]_<<vars, benchVars>>
    PROVE  BenchInv'
<1>1. [Next]_vars
  BY ServerUnderTool
<1>2. CASE UNCHANGED <<vars, benchVars>>
  <2>1. SizesServed'
    BY <1>1, SizesServedNext DEF BenchInv
  <2>2. UNCHANGED <<samples, step, pc, leafIndex, sth, tree, created, treeHeads>>
    BY <1>2 DEF vars, benchVars, handlerVars, storeVars, clientVars
  <2>3. StepOfTool' /\ Known' /\ RequestAhead' /\ SamplesAscend' /\ ProofsServed'
    BY <2>2 DEF BenchInv, StepOfTool, Known, RequestAhead, LargerThanKnown, SamplesAscend, ProofsServed
  <2> QED BY <2>1, <2>3 DEF BenchInv
<1> QED BY <1>1, <1>2, ToolAlone, ToolServed DEF BenchNext

(* BenchInv holds next to any other clients, and so do the invariants of   *)
(* the server it builds on.                                                *)
THEOREM BenchInvariance == BenchSpec => [](IInv /\ BenchInv)
<1>1. BenchInit => IInv /\ RepliesAtRow /\ ToolTypeOK /\ BenchInv
  <2>1. BenchInit => Init
    BY DEF BenchInit
  <2>2. Init => RepliesAtRow
    BY DEF Init, RepliesAtRow, Each, Rooted, Signed
  <2> QED BY <2>1, <2>2, InitInv, ToolTypes, BenchInvInit
<1>2. IInv /\ RepliesAtRow /\ ToolTypeOK /\ BenchInv /\ [BenchNext]_<<vars, benchVars>>
      => (IInv /\ RepliesAtRow /\ ToolTypeOK /\ BenchInv)'
  BY ServerUnderTool, NextInv, RepliesAtRowNext, ToolTypesNext, BenchInvNext
<1> QED BY <1>1, <1>2, PTL DEF BenchSpec

(* Each sample of the benchmark is further down the log and over a larger  *)
(* tree than the one before, whoever else submits and however often the    *)
(* server restarts between two samples (bench/main.go:118-151).            *)
THEOREM SamplesAlwaysAscend == BenchSpec => []SamplesAscend
<1>1. BenchInv => SamplesAscend
  BY DEF BenchInv
<1> QED BY <1>1, BenchInvariance, PTL

(* A proof is refused only for an index that is not below its tree size,   *)
(* never because the server has less than the tree whose size it signed    *)
(* (bench-compare/main.go:374-386, handlers.go:167-196).                   *)
THEOREM ProofsAlwaysServed == BenchSpec => []ProofsServed
<1>1. BenchInv => ProofsServed
  BY DEF BenchInv
<1> QED BY <1>1, BenchInvariance, PTL
=============================================================================
