------------------------------- MODULE Seeder -------------------------------
(***************************************************************************)
(* bench-scale next to a running server (cmd/bench-scale/main.go:149-305): *)
(* seedDirect rebuilds a tree of its own from the database, inserts rows   *)
(* past the server, saves a head and tree_state, restartATL restarts the   *)
(* server, and only then the benchmark submits over HTTP, one entry after  *)
(* the other.  cmd/seed (cmd/seed/main.go:56-225) takes the same steps     *)
(* without the restart.  The heartbeat of the server goes on meanwhile.    *)
(* Seeding ends where the program is stopped, too.                         *)
(***************************************************************************)
EXTENDS LogServer

VARIABLES sdPc,    \* next call of the seeder; "submit" while it is not seeding
          sdTree,  \* its own tree
          sdIndex, \* leaf_index its INSERT drew
          sdSTH,   \* the head it signed
          ignored, \* errors it passed over: of a "row" that its tree lacks, of the "restart"
          selected \* rows that the SELECT of the server's rebuild sees

seederVars == <<sdPc, sdTree, sdIndex, sdSTH, ignored>>

SeedInit == /\ Init
            /\ sdPc = "submit" /\ sdTree = <<>> /\ sdIndex = 0 /\ sdSTH = Nil
            /\ ignored = {} /\ selected = 0

SeedGoto(from, to) == sdPc = from /\ sdPc' = to

OtherVars == <<tree, handlerVars, hbVars, clientVars, processVars, selected>>
-----------------------------------------------------------------------------
(* Variant for a mutant: the tree of the seeder starts empty. *)
SeedStartEmpty ==
    /\ \A h \in Handlers : pc[h] = "idle"
    /\ SeedGoto("submit", "seed")
    /\ sdTree' = <<>>
    /\ UNCHANGED <<storeVars, OtherVars, sdIndex, sdSTH, ignored>>

(* The rows of IterateLeafHashes. *)
LeafHashesInOrder ==
    [i \in DOMAIN entries |->
        (CHOOSE row \in Rows : Cardinality({r \in Rows : r.leafIndex <= row.leafIndex}) = i).leafHash]

(* seedDirect begins: RebuildNodeCache over one SELECT.  Its error is not  *)
(* looked at, nor is that of TreeSize, and the tree then has the rows that *)
(* came before it.                                                         *)
SeedStart ==
    /\ \A h \in Handlers : pc[h] = "idle"
    /\ SeedGoto("submit", "seed")
    /\ \/ sdTree' = LeafHashesInOrder /\ UNCHANGED ignored
       \/ /\ \E n \in 0..(Len(entries) - 1) : sdTree' = SubSeq(LeafHashesInOrder, 1, n)
          /\ ignored' = ignored \cup {"row"}
    /\ UNCHANGED <<storeVars, OtherVars, sdIndex, sdSTH>>

(* The log is of the target size already: it is restarted only. *)
SeedNothing == /\ \A h \in Handlers : pc[h] = "idle"
               /\ SeedGoto("submit", "restart")
               /\ UNCHANGED <<storeVars, OtherVars, sdTree, sdIndex, sdSTH, ignored>>

(* AppendEntry draws its index and commits the row, which the seeder       *)
(* appends to its own tree.                                                *)
SeedDraw == /\ SeedGoto("seed", "commit")
            /\ DrawIndex
            /\ sdIndex' = lastIndex'
            /\ UNCHANGED <<OtherVars, sdTree, sdSTH, ignored>>

SeedCommit == \E l \in Leaves :
    /\ SeedGoto("commit", "seed")
    /\ CommitRow(sdIndex, l)
    /\ sdTree' = Append(sdTree, l)
    /\ sdIndex' = 0
    /\ UNCHANGED <<OtherVars, sdSTH, ignored>>

(* Variant for a mutant: the error of AppendEntry is not looked at. *)
SeedSkipAppended == \E l \in Leaves :
    /\ SeedGoto("commit", "seed")
    /\ sdTree' = Append(sdTree, l)
    /\ sdIndex' = 0
    /\ UNCHANGED <<storeVars, OtherVars, sdSTH, ignored>>

(* On any error of AppendEntry the entry is skipped like a duplicate:      *)
(* when no row was committed,                                              *)
SeedSkip == /\ SeedGoto("commit", "seed")
            /\ sdIndex' = 0
            /\ UNCHANGED <<storeVars, OtherVars, sdTree, sdSTH, ignored>>

(* and when the row was committed and the answer lost.                     *)
SeedAckLost == /\ SeedGoto("commit", "seed")
               /\ \E l \in Leaves : CommitRow(sdIndex, l)
               /\ sdIndex' = 0
               /\ ignored' = ignored \cup {"row"}
               /\ UNCHANGED <<OtherVars, sdTree, sdSTH>>

(* RootHash and Sign, of a tree nobody else has; no head of an empty tree. *)
SeedSign == /\ SeedGoto("seed", IF sdTree = <<>> THEN "restart" ELSE "save")
            /\ sdSTH' = IF sdTree = <<>> THEN Nil ELSE [treeSize |-> Len(sdTree), rootHash |-> sdTree]
            /\ UNCHANGED <<storeVars, OtherVars, sdTree, sdIndex, ignored>>

(* SaveSTH and SaveTreeState, whose errors are not looked at. *)
SeedSave == /\ SeedGoto("save", "state")
            /\ SaveSTH(sdSTH) \/ UNCHANGED storeVars
            /\ UNCHANGED <<OtherVars, sdTree, sdIndex, sdSTH, ignored>>

SeedSaveState == /\ SeedGoto("state", "restart")
                 /\ SaveTreeState(Len(sdTree)) \/ UNCHANGED storeVars
                 /\ UNCHANGED <<OtherVars, sdTree, sdIndex, sdSTH, ignored>>

SeedDone == sdPc' = "submit" /\ sdTree' = <<>> /\ sdIndex' = 0 /\ sdSTH' = Nil

(* Variant for a mutant: the restart is left out. *)
RestartATLNever == /\ sdPc = "restart" /\ phase = "serving" /\ SeedDone
                   /\ UNCHANGED <<storeVars, OtherVars, ignored>>

(* docker compose restart ends the process, and GET /health answers when   *)
(* the next one listens; or it fails with a warning, and the old process   *)
(* answers.                                                                *)
RestartATL ==
    /\ sdPc = "restart" /\ SeedDone
    /\ \/ /\ phase' = "rebuild" /\ cursor' = 0 /\ tree' = <<>>
          /\ pc' = Each("idle") /\ body' = Each(Nil) /\ leafIndex' = Each(0)
          /\ rootHash' = Each(<<>>) /\ sth' = Each(Nil) /\ compact' = Each(0)
          /\ hbPc' = "wait" /\ hbRoot' = <<>> /\ hbSTH' = Nil
          /\ selected' = 0
          /\ UNCHANGED <<storeVars, clientVars, crashes, ignored>>
       \/ /\ ignored' = ignored \cup {"restart"} /\ phase = "serving"
          /\ UNCHANGED <<storeVars, OtherVars>>

Seed == \/ SeedStart \/ SeedNothing \/ SeedDraw \/ SeedCommit \/ SeedSkip \/ SeedAckLost
        \/ SeedSign \/ SeedSave \/ SeedSaveState \/ RestartATL

(* The rows of the server's rebuild are those its SELECT saw when it began: *)
(* a row that is committed later is not read.                              *)
SelectNext == /\ RebuildNext
              /\ cursor # 0 => \E i \in 1..selected : entries[i].leafIndex = cursor'
              /\ selected' = IF cursor = 0 THEN Len(entries) ELSE selected

SelectDone == /\ phase = "rebuild"
              /\ IF cursor = 0 THEN Rows = {} ELSE \A i \in 1..selected : entries[i].leafIndex <= cursor
              /\ phase' = "serving" /\ cursor' = 0 /\ selected' = 0
              /\ UNCHANGED <<storeVars, tree, handlerVars, hbVars, clientVars, crashes>>

Serve == \/ SelectNext \/ SelectDone
         \/ Crash /\ selected' = 0
         \/ /\ Beat \/ \E h \in Handlers : Handle(h) \/ (Receive(h) /\ sdPc = "submit")
            /\ UNCHANGED selected

SeedNext == (Serve /\ UNCHANGED seederVars) \/ Seed

SeedSpec == SeedInit /\ [][SeedNext]_<<vars, seederVars, selected>>
-----------------------------------------------------------------------------
(* "Always restart so ATL rebuilds tree from DB"                           *)
(* (cmd/bench-scale/main.go:158): when the benchmark submits and no        *)
(* restart failed, the server's tree holds every row seeded past it, those *)
(* included that the seeder took for refused or did not read.              *)
SeededServed == sdPc = "submit" /\ "restart" \notin ignored => NoLostEntry

(* Until an error is passed over, the heads of the seeder and of the       *)
(* server, whose heartbeat signs its old tree while rows are seeded past   *)
(* it, are heads of one log, and the tree that is served extends them all  *)
(* once the benchmark submits (main.go:149-160, 225-277).  After a row     *)
(* whose answer was lost (main.go:260) the seeder signs another log.       *)
HeadsOfOneLog ==
    ignored = {} =>
        /\ \A a, b \in treeHeads : PrefixOf(a.rootHash, b.rootHash) \/ PrefixOf(b.rootHash, a.rootHash)
        /\ sdPc = "submit" => HeadsConsistent
=============================================================================
