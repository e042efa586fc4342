----------------------------- MODULE EntryStore -----------------------------
(***************************************************************************)
(* The tables of internal/store/schema.go and the statements of            *)
(* internal/store/entries.go, sth.go and tree_state.go.  PostgreSQL runs   *)
(* each statement atomically, with one exception the code can see: an      *)
(* INSERT into atl_entries draws its leaf_index from the BIGSERIAL         *)
(* sequence first, and the sequence keeps the draw even when the row is    *)
(* then refused.  A root hash is written as the sequence of leaf hashes    *)
(* it is computed from, which is sound for a collision-free hash; the      *)
(* hashes themselves are in MerkleTree.  Signatures and timestamps are     *)
(* left out.                                                               *)
(***************************************************************************)
EXTENDS Naturals, Sequences, FiniteSets

CONSTANTS Leaves,    \* leaf hashes (the SHA-256 of the entries clients submit)
          MaxIndex,  \* last value of the BIGSERIAL sequence: nextval then fails
          Nil        \* Go's nil

ASSUME MaxIndexAssumption == MaxIndex \in Nat
ASSUME NilAssumption == Nil \notin Leaves /\ Nil \notin Seq(Leaves)

VARIABLES entries,   \* atl_entries: rows [leafIndex, leafHash], in commit order
          lastIndex, \* last value drawn from the sequence of leaf_index
          treeHeads, \* tree_heads: [treeSize, rootHash]
          latestSTH, \* the row of tree_heads with the greatest id, or Nil
          treeState  \* tree_size in the single row of tree_state (0: no row)

storeVars == <<entries, lastIndex, treeHeads, latestSTH, treeState>>

STH == [treeSize : Nat, rootHash : Seq(Leaves)]

StoreInit == /\ entries = <<>>
             /\ lastIndex = 0
             /\ treeHeads = {}
             /\ latestSTH = Nil
             /\ treeState = 0

Rows == {entries[i] : i \in DOMAIN entries}
Committed == {row.leafHash : row \in Rows}

(* SELECT EXISTS(SELECT 1 FROM atl_entries WHERE leaf_hash = $1) *)
LeafHashExists(l) == l \in Committed

RowsAt(index) == {row \in Rows : row.leafIndex = index}

(* Variant for a mutant: the 0-based index is used as it is. *)
GetEntryOneBased(index) ==
    IF RowsAt(index) = {} THEN Nil ELSE (CHOOSE row \in RowsAt(index) : TRUE).leafHash

(* SELECT entry_cbor FROM atl_entries WHERE leaf_index = $1, of a 0-based  *)
(* index: the entry, or Nil for "not found".                               *)
GetEntry(index) ==
    IF RowsAt(index + 1) = {} THEN Nil ELSE (CHOOSE row \in RowsAt(index + 1) : TRUE).leafHash

(* SELECT COALESCE(MAX(leaf_index), 0) FROM atl_entries: not the number of *)
(* rows, but 0 only if there is none, which is all its callers rely on.    *)
TreeSize == IF Rows = {} THEN 0
            ELSE CHOOSE i \in 1..MaxIndex :
                    RowsAt(i) # {} /\ \A row \in Rows : row.leafIndex <= i

(* SELECT leaf_index, leaf_hash FROM atl_entries ORDER BY leaf_index ASC:  *)
(* the row that follows index i, if there is one.                          *)
IsNextRow(row, i) == /\ row \in Rows
                     /\ row.leafIndex > i
                     /\ \A r \in Rows : r.leafIndex > i => row.leafIndex <= r.leafIndex

(* The first half of AppendEntry: nextval of the BIGSERIAL column. *)
DrawIndex == /\ lastIndex < MaxIndex
             /\ lastIndex' = lastIndex + 1
             /\ UNCHANGED <<entries, treeHeads, latestSTH, treeState>>

(* Variant for a mutant: leaf_hash without its UNIQUE constraint. *)
CommitRowNotUnique(index, l) ==
    /\ entries' = Append(entries, [leafIndex |-> index, leafHash |-> l])
    /\ UNCHANGED <<lastIndex, treeHeads, latestSTH, treeState>>

(* The second half: the row is committed unless leaf_hash, UNIQUE, is taken. *)
CommitRow(index, l) == /\ ~LeafHashExists(l)
                       /\ entries' = Append(entries, [leafIndex |-> index, leafHash |-> l])
                       /\ UNCHANGED <<lastIndex, treeHeads, latestSTH, treeState>>

SaveSTH(head) == /\ treeHeads' = treeHeads \cup {head}
                 /\ latestSTH' = head
                 /\ UNCHANGED <<entries, lastIndex, treeState>>

(* The upsert keeps the size of whoever writes last.  compact_hashes and   *)
(* internal_nodes, which nothing but a test reads back, are left out.      *)
SaveTreeState(size) == /\ treeState' = size
                       /\ UNCHANGED <<entries, lastIndex, treeHeads, latestSTH>>
=============================================================================
