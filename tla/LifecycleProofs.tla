--------------------------- MODULE LifecycleProofs ---------------------------
(***************************************************************************)
(* The life cycle of the process implements LogServer: every step of       *)
(* Lifecycle is a step of a server whose statements may fail, a crash, or  *)
(* a stutter, for every value of the constants.                            *)
(***************************************************************************)
EXTENDS Lifecycle, TLAPS

(* The server's statements on the tables are those of the life cycle. *)
LEMMA SameTables ==
    ASSUME NEW i, NEW l, NEW head, NEW size
    PROVE  /\ Server!LeafHashExists(l) <=> LeafHashExists(l)
           /\ Server!CommitRow(i, l) <=> CommitRow(i, l)
           /\ Server!DrawIndex <=> DrawIndex
           /\ Server!SaveSTH(head) <=> SaveSTH(head)
           /\ Server!SaveTreeState(size) <=> SaveTreeState(size)
<1>1. Server!LeafHashExists(l) <=> LeafHashExists(l)
  BY DEF Server!LeafHashExists, LeafHashExists, Server!Committed, Committed, Server!Rows, Rows
<1> QED BY <1>1 DEF Server!CommitRow, CommitRow, Server!SaveSTH, SaveSTH, Server!SaveTreeState,
       SaveTreeState, Server!DrawIndex, DrawIndex

(* So are the assignments that its actions share. *)
LEMMA SameFrames ==
    ASSUME NEW h \in Handlers, NEW from, NEW to
    PROVE  /\ Server!Goto(h, from, to) <=> Goto(h, from, to)
           /\ Server!InternalError(h, from) <=> InternalError(h, from)
           /\ Server!Return(h) <=> Return(h)
BY DEF Server!Goto, Goto, Server!InternalError, InternalError, Server!Return, Return,
       Server!clientVars, clientVars, Server!hbVars, hbVars, Server!processVars, processVars

(* A step of a handler is one of the server, which may fail more often. *)
LEMMA HandleKept ==
    ASSUME NEW h \in Handlers, Handle(h)
    PROVE  Server!Handle(h)
<1> USE SameTables, SameFrames
<1> USE DEF Server!handlerVars, handlerVars, Server!hbVars, hbVars, Server!clientVars, clientVars,
            Server!processVars, processVars, Server!storeVars, storeVars
<1>1. CASE DedupMiss(h)
  BY <1>1 DEF DedupMiss, Server!DedupMiss, Server!Handle
<1>2. CASE DedupConflict(h)
  BY <1>2 DEF DedupConflict, Server!DedupConflict, Server!Handle
<1>3. CASE DedupError(h)
  BY <1>3 DEF DedupError, Server!DedupError, Server!Handle
<1>4. CASE InsertBegin(h)
  BY <1>4 DEF InsertBegin, Server!InsertBegin, Server!Handle
<1>5. CASE InsertCommit(h)
  BY <1>5 DEF InsertCommit, Server!InsertCommit, Server!Handle
<1>6. CASE InsertError(h)
  BY <1>6 DEF InsertError, Server!InsertError, Server!Handle
<1>7. CASE InsertAckLost(h)
  BY <1>7 DEF InsertAckLost, Server!InsertAckLost, Server!Handle
<1>8. CASE TreeAppend(h)
  BY <1>8 DEF TreeAppend, Server!TreeAppend, Server!Handle
<1>9. CASE ComputeRoot(h)
  BY <1>9 DEF ComputeRoot, Server!ComputeRoot, Server!Handle
<1>10. CASE Sign(h)
  BY <1>10 DEF Sign, Server!Sign, Server!Handle
<1>11. CASE SaveHead(h)
  BY <1>11 DEF SaveHead, Server!SaveHead, Server!Handle
<1>12. CASE SaveHeadError(h)
  BY <1>12 DEF SaveHeadError, Server!SaveHeadError, Server!Handle
<1>13. CASE CompactState(h)
  BY <1>13 DEF CompactState, Server!CompactState, Server!Handle
<1>14. CASE SaveState(h)
  BY <1>14 DEF SaveState, Server!SaveState, Server!Handle
<1>15. CASE SaveStateError(h)
  BY <1>15 DEF SaveStateError, Server!SaveStateError, Server!Handle
<1>16. CASE Reply(h)
  BY <1>16 DEF Reply, Server!Reply, Receipt, Server!Receipt, Server!Handle
<1> QED BY <1>1, <1>2, <1>3, <1>4, <1>5, <1>6, <1>7, <1>8, <1>9, <1>10, <1>11, <1>12, <1>13,
           <1>14, <1>15, <1>16 DEF Handle

(* A statement on a closed database fails, as a statement of the server may. *)
LEMMA ClosedKept ==
    ASSUME NEW h \in Handlers, DatabaseClosed(h)
    PROVE  Server!Handle(h)
<1>1. PICK call \in Statements : InternalError(h, call)
  BY DEF DatabaseClosed
<1>2. UNCHANGED storeVars /\ UNCHANGED Server!storeVars
  BY DEF DatabaseClosed, storeVars, Server!storeVars
<1>3. CASE call = "dedup"
  BY <1>1, <1>2, <1>3, SameFrames DEF Server!DedupError, Server!Handle, FaultKinds
<1>4. CASE call = "insert"
  BY <1>1, <1>2, <1>4, SameFrames DEF Server!InsertError, Server!Handle, FaultKinds
<1>5. CASE call = "save"
  BY <1>1, <1>2, <1>5, SameFrames DEF Server!SaveHeadError, Server!Handle, FaultKinds
<1>6. CASE call = "state"
  BY <1>1, <1>2, <1>6, SameFrames DEF Server!SaveStateError, Server!Handle, FaultKinds
<1> QED BY <1>3, <1>4, <1>5, <1>6 DEF Statements

(* Nothing else happens to a handler, also while the server shuts down. *)
LEMMA HandlerStepKept ==
    ASSUME NEW h \in Handlers, HandlerStep(h)
    PROVE  Server!Handle(h)
<1>1. ASSUME SavesHead(h) PROVE Handle(h)
  BY <1>1 DEF SavesHead, Handle
<1> QED BY <1>1, HandleKept, ClosedKept DEF HandlerStep

(* The end of the process, whatever brought it about, is a crash. *)
LEMMA EndKept == End => Server!Crash
BY DEF End, Crash, Server!Crash, Each, Server!Each, storeVars, Server!storeVars,
       clientVars, Server!clientVars

(* A beat is one of the server, on an open or a closed database. *)
LEMMA BeatKept == ASSUME BeatStep PROVE Server!Beat
<1> USE SameTables
<1> USE DEF Server!handlerVars, handlerVars, Server!hbVars, hbVars, Server!clientVars, clientVars,
            Server!processVars, processVars, Server!storeVars, storeVars
<1>1. BeatDone <=> Server!BeatDone
  BY DEF BeatDone, Server!BeatDone
<1>2. CASE BeatRoot \/ BeatSign
  BY <1>2 DEF BeatRoot, Server!BeatRoot, BeatSign, Server!BeatSign, Server!Beat
<1>3. CASE BeatSaves
  BY <1>1, <1>3 DEF BeatSaves, BeatSave, Server!BeatSave, Server!Beat
<1>4. CASE BeatFails
  BY <1>1, <1>4 DEF BeatFails, BeatError, Server!BeatError, Server!Beat, FaultKinds
<1> QED BY <1>2, <1>3, <1>4 DEF BeatStep

(* Start-up reads the rows the server reads. *)
LEMMA RebuildKept == ASSUME Rebuild PROVE Server!RebuildNext \/ Server!RebuildDone
BY DEF Rebuild, RebuildNext, Server!RebuildNext, RebuildDone, Server!RebuildDone,
       IsNextRow, Server!IsNextRow, TreeSize, Server!TreeSize, RowsAt, Server!RowsAt, Rows, Server!Rows,
       Server!handlerVars, handlerVars, Server!hbVars, hbVars, Server!clientVars, clientVars,
       Server!storeVars, storeVars

(* A request that the handler has read is one the server has received. *)
LEMMA ReceiveKept == ASSUME NEW h \in Handlers, Receive(h) PROVE Server!Receive(h)
BY SameFrames DEF Receive, Server!Receive, Server!hbVars, hbVars, Server!clientVars, clientVars,
       Server!processVars, processVars, Server!storeVars, storeVars

(* The two have the variables of LogServer in common. *)
LEMMA SameVars == Server!vars = vars /\ (Server!vars)' = vars'
BY DEF vars, Server!vars, Server!handlerVars, handlerVars, Server!hbVars, hbVars, Server!clientVars,
       clientVars, Server!processVars, processVars, Server!storeVars, storeVars

(* A step of the process, its listener, its signals, its heartbeat or of   *)
(* keygen is a step of the server or leaves it as it is.                   *)
LEMMA StepKept == [LifeNext]_allVars => [Server!Next]_(Server!vars)
<1> SUFFICES ASSUME [LifeNext]_allVars PROVE Server!Next \/ UNCHANGED vars
  BY SameVars
<1>1. CASE UNCHANGED allVars
  BY <1>1 DEF allVars
<1>2. CASE Kill \/ RebuildError \/ Exit \/ ListenError \/ HeartbeatPanic
  BY <1>2, EndKept DEF Kill, RebuildError, Exit, ListenError, HeartbeatPanic, Server!Next
<1>3. CASE Start \/ Listen \/ Signal \/ Shutdown \/ Drained \/ Deadline \/ HeartbeatStart
           \/ HeartbeatReturn \/ KeygenTruncate \/ KeygenWrite
  BY <1>3 DEF Start, Listen, Signal, Shutdown, Drained, Deadline, Close, HeartbeatStart,
              HeartbeatReturn, KeygenTruncate, KeygenWrite
<1>4. CASE Rebuild
  BY <1>4, RebuildKept DEF Server!Next
<1>5. ASSUME NEW h \in Handlers, Accept(h) \/ ReadAll(h) \/ HandlerStep(h)
      PROVE  Server!Next \/ UNCHANGED vars
  BY <1>5, ReceiveKept, HandlerStepKept DEF Accept, ReadAll, Server!Next
<1>6. CASE BeatStep
  BY <1>6, BeatKept DEF Server!Next
<1> QED BY <1>1, <1>2, <1>3, <1>4, <1>5, <1>6 DEF LifeNext

(* Whatever ends the process, in whatever state its requests are, and      *)
(* whatever still runs when the database is closed under it, the tables    *)
(* and the replies are those of a LogServer that crashed, with statements  *)
(* that failed (server.go:117-124, main.go:57, 164-174).                   *)
THEOREM LifecycleImplementsServer == LifeSpec => ServerKept
<1>1. LifeInit => Server!Init
  BY DEF LifeInit, Init, Server!Init, StoreInit, Server!StoreInit, Each, Server!Each
<1> QED BY <1>1, StepKept, PTL DEF LifeSpec, ServerKept, Server!Spec

(* What LogServerProofs and SerialProofs prove of every server holds of this. *)
Proved == INSTANCE SerialProofs WITH Faults <- Faults \cup (FaultKinds \ {"insertAck"})

(* The two instances of LogServer are the same specification. *)
LEMMA SameServer == /\ Server!Spec <=> Proved!Spec
                    /\ Server!SerialSpec <=> Proved!SerialSpec
BY DEF Server!Spec, Proved!Spec, Server!SerialSpec, Proved!SerialSpec,
       Server!OneAtATime, Proved!OneAtATime, Server!Init, Proved!Init, Server!StoreInit, Proved!StoreInit,
       Server!Each, Proved!Each, Server!Next, Proved!Next, Server!RebuildNext,
       Proved!RebuildNext, Server!RebuildDone, Proved!RebuildDone, Server!Receive,
       Proved!Receive, Server!Handle, Proved!Handle, Server!Beat, Proved!Beat, Server!Crash,
       Proved!Crash, Server!DedupMiss, Proved!DedupMiss, Server!DedupConflict,
       Proved!DedupConflict, Server!DedupError, Proved!DedupError, Server!InsertBegin,
       Proved!InsertBegin, Server!InsertCommit, Proved!InsertCommit, Server!InsertError,
       Proved!InsertError, Server!InsertAckLost, Proved!InsertAckLost, Server!TreeAppend,
       Proved!TreeAppend, Server!ComputeRoot, Proved!ComputeRoot, Server!Sign, Proved!Sign,
       Server!SaveHead, Proved!SaveHead, Server!SaveHeadError, Proved!SaveHeadError,
       Server!CompactState, Proved!CompactState, Server!SaveState, Proved!SaveState,
       Server!SaveStateError, Proved!SaveStateError, Server!Reply, Proved!Reply, Server!Receipt,
       Proved!Receipt, Server!BeatRoot, Proved!BeatRoot, Server!BeatSign, Proved!BeatSign,
       Server!BeatDone, Proved!BeatDone, Server!BeatSave, Proved!BeatSave, Server!BeatError,
       Proved!BeatError, Server!Goto, Proved!Goto, Server!Return, Proved!Return,
       Server!InternalError, Proved!InternalError, Server!CommitRow, Proved!CommitRow,
       Server!DrawIndex, Proved!DrawIndex, Server!SaveSTH, Proved!SaveSTH, Server!SaveTreeState,
       Proved!SaveTreeState, Server!LeafHashExists, Proved!LeafHashExists, Server!Committed,
       Proved!Committed, Server!Rows, Proved!Rows, Server!TreeSize, Proved!TreeSize,
       Server!RowsAt, Proved!RowsAt, Server!IsNextRow, Proved!IsNextRow, Server!vars,
       Proved!vars, Server!storeVars, Proved!storeVars, Server!handlerVars, Proved!handlerVars,
       Server!hbVars, Proved!hbVars, Server!clientVars, Proved!clientVars, Server!processVars,
       Proved!processVars

(* The assumptions of LogServer hold of the server with more failures. *)
LEMMA ProvedAssumptions ==
    /\ Proved!FaultsAssumption /\ Proved!HeartbeatAssumption /\ Proved!MaxCrashesAssumption
    /\ Proved!MaxIndexAssumption /\ Proved!NilAssumption
BY FaultsAssumption, HeartbeatAssumption, MaxCrashesAssumption, MaxIndexAssumption, NilAssumption
DEF Proved!FaultKinds, FaultKinds

(* However the process ends and whatever runs on a closed database, what a *)
(* client was told stays true: a leaf answered with 201 is durable and     *)
(* under a saved root, a leaf answered with 409 is durable                 *)
(* (handlers.go:59-62, 145, server.go:117-124, main.go:57).                *)
THEOREM RepliesHoldInAnyLife == LifeSpec => []RepliesHold
<1>1. Proved!Spec => []Proved!RepliesHold
  BY ProvedAssumptions, Proved!RepliesAreKept, PTL
<1>2. Proved!RepliesHold <=> RepliesHold
  BY DEF Proved!RepliesHold, RepliesHold, Proved!Committed, Committed, Proved!Rows, Rows,
         Proved!CoveredLeaves, CoveredLeaves, Proved!Leafs, Leafs
<1> QED BY <1>1, <1>2, SameServer, LifecycleImplementsServer, PTL DEF ServerKept

(* No end of the process loses a committed entry to the tree: a handler is  *)
(* about to append it, or the rebuild has it still ahead (server.go:117-124,*)
(* main.go:79-90).                                                          *)
THEOREM NothingLostInAnyLife ==
    ASSUME "insertAck" \notin Faults PROVE LifeSpec => []NoLostEntry
<1>1. "insertAck" \notin Faults \cup (FaultKinds \ {"insertAck"})
  OBVIOUS
<1>2. Proved!Spec => []Proved!NoLostEntry
  BY ProvedAssumptions, <1>1, Proved!NothingLost, PTL
<1>3. Proved!NoLostEntry <=> NoLostEntry
  BY DEF Proved!NoLostEntry, NoLostEntry, Proved!Rows, Rows, Proved!Leafs, Leafs
<1> QED BY <1>2, <1>3, SameServer, LifecycleImplementsServer, PTL DEF ServerKept

(* However the process ends, the index in a 201 retrieves the entry that   *)
(* was submitted (handlers.go:134-145, server.go:117-124, main.go:57).     *)
THEOREM RetrievedInAnyLife == LifeSpec => []EntryRetrieved
<1>1. Proved!Spec => []Proved!EntryRetrieved
  BY ProvedAssumptions, Proved!RepliesRetrieve, PTL
<1>2. Proved!EntryRetrieved <=> EntryRetrieved
  BY DEF Proved!EntryRetrieved, EntryRetrieved, Proved!GetEntry, GetEntry, Proved!RowsAt, RowsAt,
         Proved!Rows, Rows
<1> QED BY <1>1, <1>2, SameServer, LifecycleImplementsServer, PTL DEF ServerKept
-----------------------------------------------------------------------------
(* The types. *)

(* No step gives a variable of the process a value of another type. *)
LEMMA LifeTypeStep == LifeTypeOK /\ [LifeNext]_allVars => LifeTypeOK'
<1> SUFFICES ASSUME LifeTypeOK, [LifeNext]_allVars PROVE LifeTypeOK'
  OBVIOUS
<1> USE DEF LifeTypeOK
<1>1. CASE UNCHANGED allVars
  BY <1>1 DEF allVars, lifeVars, serveVars, keyVars
<1>2. CASE Kill \/ RebuildError \/ Exit \/ ListenError \/ HeartbeatPanic
  BY <1>2 DEF Kill, RebuildError, Exit, ListenError, HeartbeatPanic, End, keyVars
<1>3. CASE Start \/ Listen \/ Signal \/ Shutdown \/ Drained \/ Deadline \/ HeartbeatStart \/ HeartbeatReturn
  BY <1>3 DEF Start, Listen, Signal, Shutdown, Drained, Deadline, Close, HeartbeatStart, HeartbeatReturn,
              keyVars
<1>4. CASE Rebuild \/ KeygenTruncate \/ KeygenWrite
  BY <1>4 DEF Rebuild, KeygenTruncate, KeygenWrite, lifeVars, serveVars, keyVars
<1>5. ASSUME NEW h \in Handlers, Accept(h) \/ ReadAll(h) PROVE LifeTypeOK'
  BY <1>5 DEF Accept, ReadAll, keyVars
<1>6. SavedSTH => LifeTypeOK'
  BY DEF SavedSTH, serveVars
<1>7. UNCHANGED lifeVars => LifeTypeOK'
  BY DEF lifeVars, serveVars, keyVars
<1>8. ASSUME NEW h \in Handlers, HandlerStep(h) PROVE LifeTypeOK'
  BY <1>6, <1>7, <1>8 DEF HandlerStep, SavesHead, DatabaseClosed
<1>9. CASE BeatStep
  BY <1>6, <1>7, <1>9 DEF BeatStep, BeatSaves, BeatFails
<1> QED BY <1>1, <1>2, <1>3, <1>4, <1>5, <1>8, <1>9 DEF LifeNext

(* Every variable of the process holds a value of its type. *)
THEOREM LifeTypeCorrect == LifeSpec => []LifeTypeOK
<1>1. LifeInit => LifeTypeOK
  BY DurationAssumption DEF LifeInit, LifeTypeOK
<1> QED BY <1>1, LifeTypeStep, PTL DEF LifeSpec
-----------------------------------------------------------------------------
(* Requests and beats that do not overlap, in any life of the process. *)

LEMMA SerialLifeImplementsServer == SerialLifeSpec => Server!SerialSpec
<1>1. LifeInit => Server!Init
  BY DEF LifeInit, Init, Server!Init, StoreInit, Server!StoreInit, Each, Server!Each
<1>2. [LifeNext /\ OneAtATime']_allVars => [Server!Next /\ Server!OneAtATime']_(Server!vars)
  <2> SUFFICES ASSUME [LifeNext /\ OneAtATime']_allVars
               PROVE  (Server!Next /\ Server!OneAtATime') \/ UNCHANGED Server!vars
    OBVIOUS
  <2>1. [Server!Next]_(Server!vars)
    BY StepKept
  <2>2. CASE UNCHANGED allVars
    BY <2>2, SameVars DEF allVars
  <2>3. CASE OneAtATime'
    BY <2>1, <2>3 DEF OneAtATime, Server!OneAtATime
  <2> QED BY <2>2, <2>3
<1> QED BY <1>1, <1>2, PTL DEF SerialLifeSpec, Server!SerialSpec

LEMMA SerialLifeProved == SerialLifeSpec => Proved!SerialSpec
BY SerialLifeImplementsServer, SameServer

LEMMA FaultsReported ==
    ASSUME "insertAck" \notin Faults
    PROVE  "insertAck" \notin Faults \cup (FaultKinds \ {"insertAck"})
OBVIOUS

(* All heads ever signed are of one log that the served tree extends, if   *)
(* the process is killed, drained, cut at the deadline or closed under a   *)
(* request as well (handlers.go:84-97, server.go:117-124, main.go:57).     *)
THEOREM HeadsOfOneLogInAnyLife ==
    ASSUME "insertAck" \notin Faults PROVE SerialLifeSpec => []HeadsConsistent
<1>1. Proved!SerialSpec => []Proved!HeadsConsistent
  BY ProvedAssumptions, FaultsReported, Proved!HeadsAreOfOneLog, PTL
<1>2. Proved!HeadsConsistent <=> HeadsConsistent
  BY DEF Proved!HeadsConsistent, HeadsConsistent, Proved!PrefixOf, PrefixOf
<1> QED BY <1>1, <1>2, SerialLifeProved, PTL

(* A receipt verifies, whatever ended the process that had the request     *)
(* before (handlers.go:109-128, server.go:117-124).                        *)
THEOREM ReceiptsVerifyInAnyLife ==
    ASSUME "insertAck" \notin Faults PROVE SerialLifeSpec => []ReceiptsVerify
<1>1. Proved!SerialSpec => []Proved!ReceiptsVerify
  BY ProvedAssumptions, FaultsReported, Proved!ReceiptsAlwaysVerify, PTL
<1>2. Proved!ReceiptsVerify <=> ReceiptsVerify
  BY DEF Proved!ReceiptsVerify, ReceiptsVerify, Proved!Verifies, Verifies
<1> QED BY <1>1, <1>2, SerialLifeProved, PTL

(* No end of the process takes GET /v1/sth or tree_state back to a smaller *)
(* tree (handlers.go:94-107, server.go:117-124).                           *)
THEOREM SizesOnlyGrowInAnyLife ==
    ASSUME "insertAck" \notin Faults PROVE SerialLifeSpec => LatestNeverShrinks
<1>1. Proved!SerialSpec => Proved!LatestNeverShrinks
  BY ProvedAssumptions, FaultsReported, Proved!SizesOnlyGrow
<1>2. Proved!LatestNeverShrinks <=> LatestNeverShrinks
  BY DEF Proved!LatestNeverShrinks, LatestNeverShrinks, Proved!vars, vars, Proved!storeVars, storeVars,
         Proved!handlerVars, handlerVars, Proved!hbVars, hbVars, Proved!clientVars, clientVars,
         Proved!processVars, processVars
<1> QED BY <1>1, <1>2, SerialLifeProved

(* The process keeps the promise of TransparencyLog in any life: requests  *)
(* and beats that do not overlap are "append-only logging"                 *)
(* (policy/platform.go:11-12), whatever ends it.                           *)
THEOREM AppendOnlyInAnyLife ==
    ASSUME "insertAck" \notin Faults PROVE SerialLifeSpec => PromiseKept
<1>1. Proved!SerialSpec => Proved!PromiseKept
  BY ProvedAssumptions, FaultsReported, Proved!LogIsAppendOnly
<1>2. Proved!PromiseKept <=> PromiseKept
  BY DEF Proved!PromiseKept, PromiseKept, Proved!Promise!Spec, Promise!Spec, Proved!Promise!Init,
         Promise!Init, Proved!Promise!Next, Promise!Next, Proved!Promise!vars, Promise!vars,
         Proved!Promise!Add, Promise!Add, Proved!Promise!Publish, Promise!Publish,
         Proved!Promise!Prefix, Promise!Prefix, Proved!Promise!Acknowledge, Promise!Acknowledge,
         Proved!Promise!Covered, Promise!Covered
<1> QED BY <1>1, <1>2, SerialLifeProved
=============================================================================
