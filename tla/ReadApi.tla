------------------------------ MODULE ReadApi ------------------------------
(***************************************************************************)
(* The GET handlers (internal/api/handlers.go:148-242) over a running      *)
(* LogServer, and a monitor that uses them the way the verification        *)
(* functions of internal/merkle and internal/sth are meant to be used: it  *)
(* keeps the last head it has verified, fetches the latest one, asks for   *)
(* the consistency proof between the two and verifies it.  It survives the *)
(* crashes of the server; a request that finds no listener has no step.    *)
(*                                                                         *)
(* GET /v1/entries/{index} is GetEntry of EntryStore.                      *)
(*                                                                         *)
(* A proof is written as the two roots it leads to, MerkleTree says why.   *)
(***************************************************************************)
EXTENDS LogServer

ConsistencyProofs == [first : Seq(Leaves), second : Seq(Leaves)]

ASSUME NoProofAssumption == Nil \notin ConsistencyProofs

VARIABLES trusted,  \* the head the monitor has verified last, or Nil
          fetched,  \* the head it compares with the trusted one, or Nil
          alarm     \* a proof was refused or did not verify

monitorVars == <<trusted, fetched, alarm>>

ReadInit == Init /\ trusted = Nil /\ fetched = Nil /\ alarm = FALSE
-----------------------------------------------------------------------------
(* merkle.VerifyInclusion: the root recomputed with the leaf in its place. *)
VerifyInclusion(index, leaf, root, path) == [path EXCEPT ![index + 1] = leaf] = root

(* Variant for a mutant: a proof up to the current size is refused. *)
ConsistencyProofStrict(first, second) ==
    IF first > second \/ second >= Len(tree) THEN Nil
    ELSE [first |-> SubSeq(tree, 1, first), second |-> SubSeq(tree, 1, second)]

(* GET /v1/sth/consistency: the proof, or Nil for the reply 400. *)
ConsistencyProof(first, second) ==
    IF first > second \/ second > Len(tree) THEN Nil
    ELSE [first |-> SubSeq(tree, 1, first), second |-> SubSeq(tree, 1, second)]

(* merkle.VerifyConsistency: the empty tree is consistent with any, a tree *)
(* with itself without a proof, and otherwise both roots are recomputed.   *)
VerifyConsistency(old, new, proof) ==
    \/ old.treeSize = 0
    \/ old.treeSize = new.treeSize /\ old.rootHash = new.rootHash
    \/ /\ old.treeSize < new.treeSize
       /\ old.rootHash = proof.first /\ new.rootHash = proof.second

(* GET /v1/sth.  The first head is trusted; 404 while there is none. *)
GetSTH == /\ phase = "serving" /\ latestSTH # Nil
          /\ fetched = Nil
          /\ IF trusted = Nil THEN trusted' = latestSTH /\ UNCHANGED fetched
                              ELSE fetched' = latestSTH /\ UNCHANGED trusted
          /\ UNCHANGED <<vars, alarm>>

(* GET /v1/sth/consistency and the verification of what it returns. *)
GetConsistencyProof ==
    /\ phase = "serving" /\ fetched # Nil
    /\ LET proof == ConsistencyProof(trusted.treeSize, fetched.treeSize)
       IN  IF proof # Nil /\ VerifyConsistency(trusted, fetched, proof)
           THEN trusted' = fetched /\ UNCHANGED alarm
           ELSE alarm' = TRUE /\ UNCHANGED trusted
    /\ fetched' = Nil
    /\ UNCHANGED vars

ReadNext == \/ Next /\ UNCHANGED monitorVars
            \/ GetSTH
            \/ GetConsistencyProof

(* Requests and beats of the heartbeat that do not overlap. *)
SerialReadSpec == ReadInit /\ [][ReadNext /\ OneAtATime']_<<vars, monitorVars>>
-----------------------------------------------------------------------------
(* A monitor that follows the log never sees a proof refused or fail, and  *)
(* the head it trusts stays one of the tree that is served, over restarts  *)
(* between its two requests too (handlers.go:198-242, proof.go:26-43).     *)
NoAlarm == ~alarm

(* Every entry below the size of a head is retrieved by its index and      *)
(* proved to be under the head's root, as long as no value of the sequence *)
(* was wasted (handlers.go:148-196, entries.go:20-28, main.go:86).         *)
EntriesIncluded ==
    phase = "serving" /\ lastIndex = Len(entries) =>
        \A head \in treeHeads : \A index \in 0..(head.treeSize - 1) :
            LET path == InclusionProof(index, head.treeSize)
            IN  path # Nil /\ VerifyInclusion(index, GetEntry(index), head.rootHash, path)
=============================================================================
