------------------------------ MODULE TreeState ------------------------------
(***************************************************************************)
(* The compact range that handlers persist: Tree.Append and CompactState   *)
(* (internal/merkle/tree.go), SaveTreeState and LoadTreeState              *)
(* (internal/store/tree_state.go), RestoreFromState.  CompactState returns *)
(* the slice of the range, not a copy; SaveTreeState encodes it after the  *)
(* mutex is released, while Append overwrites the same array in place.     *)
(*                                                                         *)
(* A slice is its array and its length.  The elements are []byte headers   *)
(* that all have the same length and capacity, so a read that races a      *)
(* write gets the old hash or the new one.  StateCodec has the columns.    *)
(***************************************************************************)
EXTENDS StateCodec

CONSTANTS Savers     \* handlers between tree.Append and SaveTreeState

VARIABLES end,       \* cr.End()
          arrays,    \* arrays allocated for cr.hashes, unused elements Nil
          current,   \* the array of cr.hashes
          length,    \* len(cr.hashes)
          pc,        \* next call of each handler
          slice,     \* of each handler: the result of CompactState
          encoded,   \* of each handler: the elements encodeHashes has read
          nodes,     \* t.nodes: Nil, or a map (with what in it, see MerkleTree)
          row,       \* the row of tree_state: [treeSize, compactHashes, internalNodes], or Nil
          written    \* the size and the hashes the row was encoded from

rangeVars == <<end, arrays, current, length>>
saverVars == <<pc, slice, encoded>>
rowVars == <<row, written>>
vars == <<rangeVars, saverVars, nodes, rowVars>>

hashes == SubSeq(arrays[current], 1, length)

(* The range of NewEmptyRange has a nil slice, an array of no elements. *)
Init == /\ end = 0 /\ arrays = << <<>> >> /\ current = 1 /\ length = 0
        /\ pc = [h \in Savers |-> "append"]
        /\ slice = [h \in Savers |-> Nil]
        /\ encoded = [h \in Savers |-> <<>>]
        /\ nodes = <<>>
        /\ row = Nil /\ written = Nil
-----------------------------------------------------------------------------
Goto(h, from, to) == pc[h] = from /\ pc' = [pc EXCEPT ![h] = to]

(* r.hashes = append(r.hashes[:n], seed): in place, or in a new array of   *)
(* twice the length when the array is full.                                *)
StoreHashes(new) ==
    LET n == Len(new)
        array == arrays[current]
    IN  IF n <= Len(array)
        THEN /\ arrays' = [arrays EXCEPT ![current][n] = new[n]]
             /\ UNCHANGED current
        ELSE /\ arrays' = Append(arrays, [i \in 1..(IF n = 1 THEN 1 ELSE 2 * (n - 1)) |->
                                             IF i <= n THEN new[i] ELSE Nil])
             /\ current' = Len(arrays) + 1

(* t.nodes[...] = leafHash panics if RestoreFromState was given a nil map. *)
TreeAppend(h) ==
    /\ end < MaxSize /\ nodes # Nil
    /\ Goto(h, "append", "compact")
    /\ LET new == RangeAppend(end, hashes, HashLeaf(end + 1)).hashes
       IN  StoreHashes(new) /\ length' = Len(new)
    /\ end' = end + 1
    /\ UNCHANGED <<slice, encoded, nodes, rowVars>>

CompactState(h) ==
    /\ Goto(h, "compact", "encode")
    /\ slice' = [slice EXCEPT ![h] = [size |-> end, array |-> current, length |-> length]]
    /\ encoded' = [encoded EXCEPT ![h] = <<>>]
    /\ UNCHANGED <<rangeVars, nodes, rowVars>>

(* Variant for a mutant: the array is encoded to its capacity. *)
EncodeCapacity(h) ==
    LET i == Len(encoded[h]) + 1
    IN  /\ pc[h] = "encode" /\ i <= Len(arrays[slice[h].array])
        /\ encoded' = [encoded EXCEPT ![h] = Append(@, arrays[slice[h].array][i])]
        /\ UNCHANGED <<rangeVars, pc, slice, nodes, rowVars>>

(* One element of the loop in encodeHashes. *)
Encode(h) ==
    LET i == Len(encoded[h]) + 1
    IN  /\ pc[h] = "encode" /\ i <= slice[h].length
        /\ encoded' = [encoded EXCEPT ![h] = Append(@, arrays[slice[h].array][i])]
        /\ UNCHANGED <<rangeVars, pc, slice, nodes, rowVars>>

(* The row of a size and hashes; no node is written, whatever nodes there are. *)
Row(size, hs) == [treeSize |-> size, compactHashes |-> encodeHashes(hs),
                  internalNodes |-> encodeNodeMap(<<>>, <<>>)]

Saved(h) == /\ Goto(h, "encode", "append")
            /\ Len(encoded[h]) = slice[h].length
            /\ slice' = [slice EXCEPT ![h] = Nil]
            /\ encoded' = [encoded EXCEPT ![h] = <<>>]
            /\ UNCHANGED <<rangeVars, nodes>>

(* Variant for a mutant: the size is read when the row is written. *)
SaveTreeStateLiveSize(h) == /\ Saved(h)
                            /\ row' = Row(end, encoded[h])
                            /\ written' = [size |-> end, hashes |-> encoded[h]]

(* The upsert, or an error before or after it is done. *)
SaveTreeState(h) == /\ Saved(h)
                    /\ \/ /\ row' = Row(slice[h].size, encoded[h])
                          /\ written' = [size |-> slice[h].size, hashes |-> encoded[h]]
                       \/ UNCHANGED rowVars

(* LoadTreeState: no row is the state of the empty tree, without a map. *)
Loaded == IF row = Nil THEN [size |-> 0, hashes |-> <<>>, nodes |-> Nil]
          ELSE [size |-> row.treeSize, hashes |-> decodeHashes(row.compactHashes),
                nodes |-> decodeNodeMap(row.internalNodes)]

NewProcess == /\ arrays' = <<Loaded.hashes>> /\ current' = 1 /\ length' = Len(Loaded.hashes)
              /\ nodes' = Loaded.nodes
              /\ pc' = [h \in Savers |-> "append"]
              /\ slice' = [h \in Savers |-> Nil]
              /\ encoded' = [h \in Savers |-> <<>>]
              /\ UNCHANGED rowVars

(* Variant for a mutant: the persisted size is not taken over. *)
RestoreHashesOnly == NewProcess /\ end' = 0

(* A new process loads the row into a new tree: LoadTreeState, then        *)
(* RestoreFromState, whose NewRange wants as many hashes as the size has   *)
(* perfect nodes.                                                          *)
Restore == /\ Len(Loaded.hashes) = Len(RangeNodes(0, Loaded.size))
           /\ NewProcess /\ end' = Loaded.size

Next == \/ \E h \in Savers : TreeAppend(h) \/ CompactState(h) \/ Encode(h) \/ SaveTreeState(h)
        \/ Restore

Spec == Init /\ [][Next]_vars
-----------------------------------------------------------------------------
(* A handler's slice lies in an array, and no handler has read more than   *)
(* its slice.                                                              *)
TypeOK == /\ end \in 0..MaxSize
          /\ current \in DOMAIN arrays /\ length \in 0..Len(arrays[current])
          /\ \A h \in Savers :
                /\ pc[h] \in {"append", "compact", "encode"}
                /\ slice[h] # Nil => /\ slice[h].array \in DOMAIN arrays
                                     /\ slice[h].length <= Len(arrays[slice[h].array])
                                     /\ Len(encoded[h]) <= slice[h].length

(* A range that is that of its leaves stays so, in place and in new        *)
(* arrays, and a new process gets one from a row that is whole             *)
(* (tree.go:33-49, 100-105).                                               *)
RangeStaysCorrect ==
    [][hashes = RangeHashes(end) /\ Loaded.hashes = RangeHashes(Loaded.size)
       => hashes' = RangeHashes(end')]_vars

(* Whatever handlers race, RestoreFromState never refuses the row: size    *)
(* and number of hashes fit (tree.go:81, tree_state.go:14-30).             *)
RowRestorable == Len(Loaded.hashes) = Len(RangeNodes(0, Loaded.size))

(* LoadTreeState gives back the size and the hashes that the last          *)
(* SaveTreeState which took effect was given, found by position in a       *)
(* column of any length, and none of the nodes it was given, which are not *)
(* written (tree_state.go:16-17, 49-85).                                   *)
StateComesBack == row # Nil => /\ Loaded.size = written.size
                               /\ Loaded.hashes = written.hashes
                               /\ Loaded.nodes = <<>>

(* A column that is cut anywhere never passes for a range: the decoder     *)
(* stops without an error, but with fewer hashes than NewRange wants       *)
(* (tree_state.go:71-78, tree.go:100-103).                                 *)
CutColumnRefused ==
    row # Nil => \A n \in 0..(Len(row.compactHashes) - 1) :
        Len(decodeHashes(SubSeq(row.compactHashes, 1, n))) < Len(RangeNodes(0, row.treeSize))

(* "SaveTreeState persists the compact range state."                       *)
(* (internal/store/tree_state.go:11): the hashes in the row are those of   *)
(* its size.                                                               *)
RowIsCompactState == Loaded.hashes = RangeHashes(Loaded.size)
=============================================================================
