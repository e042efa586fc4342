------------------------------ MODULE MerkleTree ------------------------------
(***************************************************************************)
(* merkle.Tree (internal/merkle/tree.go, proof.go): the compact range that *)
(* appends and root hashes work on, and the node cache that proofs are     *)
(* read from, one node at a time, while other goroutines append and        *)
(* compute roots.  Every method holds the mutex while it runs, except      *)
(* InclusionProof and ConsistencyProof, which take it for each node.       *)
(*                                                                         *)
(* Package proof of github.com/transparency-dev/merkle is modelled by what *)
(* it computes.                                                            *)
(* Leaves are appended in the order of their leaf_index, as handlers that  *)
(* run one after the other do; what concurrent handlers do to the order is *)
(* in LogServer.                                                           *)
(***************************************************************************)
EXTENDS CompactRange

CONSTANTS MaxGap,    \* bound on the draws of leaf_index that left no row
          Readers    \* goroutines that compute proofs

ASSUME MaxGapAssumption == MaxGap \in Nat

(* Nil is no hash of leaves. *)
ASSUME NilAssumption == \A b, e \in 0..MaxSize : b < e => MTH(b, e) # Nil

VARIABLES rows,      \* atl_entries: 0-based leaf_index of the k-th leaf
          end,       \* cr.End()
          hashes,    \* cr.Hashes()
          nodes,     \* t.nodes
          roots,     \* last result of RootHash: [size, root], or Nil
          request,   \* of each reader: the proof under way, or Nil
          fetched,   \* of each reader: hashes read so far
          answer     \* of each reader: the last proof returned, or Nil

treeVars == <<end, hashes, nodes>>
readerVars == <<request, fetched, answer>>
vars == <<rows, treeVars, roots, readerVars>>
-----------------------------------------------------------------------------
(* Package proof. *)

Reversed(s) == [i \in DOMAIN s |-> s[Len(s) - i + 1]]

(* proof.nodes: the nodes of an inclusion proof for node (level, index) in *)
(* a tree of the given size: the node, its siblings up to the fork with    *)
(* the right border, that border, which Rehash folds into one hash, and    *)
(* the left border.                                                        *)
ProofNodes(index, level, size) ==
    LET same == CHOOSE k \in 0..size :
                    /\ index \div Pow2[k] = (size \div Pow2[level]) \div Pow2[k]
                    /\ \A j \in 0..(k - 1) : index \div Pow2[j] # (size \div Pow2[level]) \div Pow2[j]
        inner == same - 1
        node == NewNodeID(level, index)
        fork == Ancestor(node, inner)
        right == Reversed(RangeNodes(Last(fork), size))
    IN  [ids   |-> <<node>> \o [i \in 1..inner |-> Sibling(Ancestor(node, i - 1))]
                       \o right \o Reversed(RangeNodes(0, First(fork))),
         begin |-> inner + 1, end |-> inner + 1 + Len(right)]

SkipFirst(p) == [ids |-> Tail(p.ids), begin |-> p.begin - 1, end |-> p.end - 1]

(* proof.Inclusion and proof.Consistency. *)
Inclusion(index, size) == SkipFirst(ProofNodes(index, 0, size))

Consistency(first, second) ==
    LET level == CHOOSE k \in 0..first : first % Pow2[k] = 0 /\ first % Pow2[k + 1] # 0
        index == (first - 1) \div Pow2[level]
        p == ProofNodes(index, level, second)
    IN  IF first = second THEN [ids |-> <<>>, begin |-> 0, end |-> 0]
        ELSE IF index = 0 THEN SkipFirst(p) ELSE p

(* Nodes.Rehash: positions begin..end-1 (from 0) are folded into one hash. *)
Rehash(p, hs) ==
    LET fold[i \in (p.begin + 1)..p.end] ==
          IF i = p.begin + 1 THEN hs[i] ELSE HashChildren(hs[i], fold[i - 1])
    IN  IF p.begin >= p.end THEN hs
        ELSE SubSeq(hs, 1, p.begin) \o <<fold[p.end]>> \o SubSeq(hs, p.end + 1, Len(hs))
-----------------------------------------------------------------------------
(* merkle.Tree. *)

Init == /\ rows = <<>>
        /\ end = 0 /\ hashes = <<>> /\ nodes = <<>>
        /\ roots = Nil
        /\ request = [r \in Readers |-> Nil]
        /\ fetched = [r \in Readers |-> <<>>]
        /\ answer = [r \in Readers |-> Nil]

(* The cache after t.nodes[id] = hash for each id of new. *)
Stored(new, cache) == [id \in DOMAIN new \cup DOMAIN cache |->
                          IF id \in DOMAIN new THEN new[id] ELSE cache[id]]

(* The hash of the k-th leaf, under the leaf at index. *)
Leaf(index, k) == [id \in {NewNodeID(0, index)} |-> HashLeaf(k)]

NextIndex == IF rows = <<>> THEN 0 ELSE rows[Len(rows)] + 1

(* A row is inserted, at an index that may skip draws without a row, and   *)
(* its leaf is appended: the leaf and the nodes it completes enter the     *)
(* cache, over whatever RootHash left there.                               *)
AppendLeaf ==
    \E gap \in 0..MaxGap :
        LET k == Len(rows) + 1
            r == RangeAppend(end, hashes, HashLeaf(k))
        IN  /\ k <= MaxSize
            /\ NextIndex + gap < k + MaxGap
            /\ rows' = Append(rows, NextIndex + gap)
            /\ end' = end + 1
            /\ hashes' = r.hashes
            /\ nodes' = Stored(r.visited, Stored(Leaf(end, k), nodes))
            /\ UNCHANGED <<roots, readerVars>>

(* Variant for a mutant: a cached top node is taken for the root. *)
RootHashCached ==
    /\ end > 0
    /\ LET r == GetRootHash(end, hashes)
           top == NewNodeID(CHOOSE k \in 0..end : Pow2[k] >= end /\ \A j \in 0..(k - 1) : Pow2[j] < end, 0)
       IN  /\ roots' = [size |-> end, root |-> IF top \in DOMAIN nodes THEN nodes[top] ELSE r.root]
           /\ nodes' = Stored(r.visited, nodes)
    /\ UNCHANGED <<rows, end, hashes, readerVars>>

(* The nodes of the right border enter the cache although they will change. *)
RootHash ==
    /\ end > 0
    /\ LET r == GetRootHash(end, hashes)
       IN  /\ roots' = [size |-> end, root |-> r.root]
           /\ nodes' = Stored(r.visited, nodes)
    /\ UNCHANGED <<rows, end, hashes, readerVars>>

(* Variant for a mutant: the visitor stores interior nodes only. *)
RebuiltInterior(n) ==
    LET state[k \in 0..n] ==
          IF k = 0 THEN [hashes |-> <<>>, nodes |-> <<>>]
          ELSE LET r == RangeAppend(k - 1, state[k - 1].hashes, HashLeaf(k))
                   inner == {id \in DOMAIN r.visited : id[1] > 0}
               IN  [hashes |-> r.hashes,
                    nodes  |-> Stored([id \in inner |-> r.visited[id]],
                                      Stored(Leaf(rows[k], k), state[k - 1].nodes))]
    IN  state[n]

(* RebuildNodeCache over rows 1..n: leaf k is stored at level 0 under its  *)
(* leaf_index, then appended as the k-th leaf.                             *)
Rebuilt(n) ==
    LET state[k \in 0..n] ==
          IF k = 0 THEN [hashes |-> <<>>, nodes |-> <<>>]
          ELSE LET r == RangeAppend(k - 1, state[k - 1].hashes, HashLeaf(k))
               IN  [hashes |-> r.hashes,
                    nodes  |-> Stored(r.visited, Stored(Leaf(rows[k], k), state[k - 1].nodes))]
    IN  state[n]

(* Variant for a mutant: the compact range is not emptied first. *)
RestartNoReset == /\ rows # <<>>
                  /\ end' = end + Len(rows)
                  /\ hashes' = Rebuilt(Len(rows)).hashes
                  /\ nodes' = Rebuilt(Len(rows)).nodes
                  /\ roots' = Nil
                  /\ UNCHANGED <<rows, readerVars>>

(* The process restarts: main.go:72-90. *)
Restart == /\ rows # <<>>
           /\ end' = Len(rows)
           /\ hashes' = Rebuilt(Len(rows)).hashes
           /\ nodes' = Rebuilt(Len(rows)).nodes
           /\ roots' = Nil
           /\ request' = [r \in Readers |-> Nil]
           /\ fetched' = [r \in Readers |-> <<>>]
           /\ answer' = [r \in Readers |-> Nil]
           /\ UNCHANGED rows

Ask(r, kind, first, size, p) ==
    /\ request[r] = Nil
    /\ request' = [request EXCEPT ![r] = [kind |-> kind, first |-> first, size |-> size, nodes |-> p]]
    /\ fetched' = [fetched EXCEPT ![r] = <<>>]
    /\ answer' = [answer EXCEPT ![r] = Nil]
    /\ UNCHANGED <<rows, treeVars, roots>>

(* The checks of InclusionProof and ConsistencyProof: the size is compared *)
(* with the size of the tree before any node is read.                      *)
InclusionProof(r) == \E size \in 1..end : \E index \in 0..(size - 1) :
                         Ask(r, "inclusion", index, size, Inclusion(index, size))

ConsistencyProof(r) == \E second \in 1..end : \E first \in 1..second :
                           Ask(r, "consistency", first, second, Consistency(first, second))

(* computeNode: the hash of a node from its children where it is not       *)
(* cached; Nil is its error, a leaf that is not cached.                    *)
NodeHash(id) ==
    LET hash[level \in 0..id[1]] ==
          [index \in {i \in 0..MaxSize : i \div Pow2[id[1] - level] = id[2]} |->
              LET n == NewNodeID(level, index)
              IN  IF n \in DOMAIN nodes THEN nodes[n]
                  ELSE IF level = 0 \/ Nil \in {hash[level - 1][2 * index], hash[level - 1][2 * index + 1]}
                       THEN Nil
                       ELSE HashChildren(hash[level - 1][2 * index], hash[level - 1][2 * index + 1])]
    IN  hash[id[1]][id[2]]

(* The node and the nodes below it that NodeHash computes, up to those     *)
(* that are cached: computeNode stores each of them.                       *)
ComputedNodes(id) ==
    LET below(n) == {m \in (0..n[1]) \X (0..MaxSize) : m[2] \div Pow2[n[1] - m[1]] = n[2]}
    IN  {n \in below(id) : /\ NodeHash(n) # Nil
                           /\ \A m \in below(id) : n \in below(m) => m \notin DOMAIN nodes}

Finish(r, proof) ==
    /\ answer' = [answer EXCEPT ![r] = [kind |-> request[r].kind, first |-> request[r].first,
                                        size |-> request[r].size, proof |-> proof]]
    /\ request' = [request EXCEPT ![r] = Nil]
    /\ fetched' = [fetched EXCEPT ![r] = <<>>]
    /\ UNCHANGED <<rows, end, hashes, roots>>

(* One round of fetchAndRehash.  A node that cannot be had ends the proof  *)
(* with an error, the answer Nil.  computeNode takes the mutex for each    *)
(* node it reads; nodes are never removed, so one step does.               *)
Fetch(r) ==
    /\ request[r] # Nil
    /\ Len(fetched[r]) < Len(request[r].nodes.ids)
    /\ LET id == request[r].nodes.ids[Len(fetched[r]) + 1]
       IN  /\ nodes' = Stored([n \in ComputedNodes(id) |-> NodeHash(n)], nodes)
           /\ IF NodeHash(id) = Nil
              THEN Finish(r, Nil)
              ELSE /\ fetched' = [fetched EXCEPT ![r] = Append(@, NodeHash(id))]
                   /\ UNCHANGED <<rows, end, hashes, roots, request, answer>>

(* Variant for a mutant: the hashes are returned without Rehash. *)
DeliverUnhashed(r) ==
    /\ request[r] # Nil
    /\ Len(fetched[r]) = Len(request[r].nodes.ids)
    /\ Finish(r, fetched[r])
    /\ UNCHANGED nodes

Deliver(r) ==
    /\ request[r] # Nil
    /\ Len(fetched[r]) = Len(request[r].nodes.ids)
    /\ Finish(r, Rehash(request[r].nodes, fetched[r]))
    /\ UNCHANGED nodes

Next == \/ AppendLeaf \/ RootHash \/ Restart
        \/ \E r \in Readers : InclusionProof(r) \/ ConsistencyProof(r) \/ Fetch(r) \/ Deliver(r)

Spec == Init /\ [][Next]_vars
-----------------------------------------------------------------------------
(* RFC 6962, section 2.1: the reference.                                   *)

InclusionPath(m, n) ==
    LET path[s \in Nat] ==
          [b \in Nat |->
              IF s <= 1 THEN <<>>
              ELSE LET k == Split(s)
                   IN  IF m < b + k THEN Append(path[k][b], MTH(b + k, b + s))
                       ELSE Append(path[s - k][b + k], MTH(b, b + k))]
    IN  path[n][0]

ConsistencyPath(m, n) ==
    LET sub[s \in Nat] ==
            [b \in Nat |->
              [whole \in BOOLEAN |->
                  IF s <= 1 \/ m = b + s THEN IF whole THEN <<>> ELSE <<MTH(b, b + s)>>
                  ELSE LET k == Split(s)
                       IN  IF m <= b + k THEN Append(sub[k][b][whole], MTH(b + k, b + s))
                           ELSE Append(sub[s - k][b + k][FALSE], MTH(b, b + k))]]
    IN  sub[n][0][TRUE]
-----------------------------------------------------------------------------
(* The variables are of the shape of the Go values. *)
TypeOK == /\ rows \in Seq(Nat) /\ Len(rows) <= MaxSize
          /\ end \in 0..MaxSize
          /\ Len(hashes) = Len(RangeNodes(0, end))
          /\ \A id \in DOMAIN nodes : id \in (0..MaxSize) \X (0..(MaxSize + MaxGap))
          /\ \A r \in Readers : request[r] = Nil => fetched[r] = <<>>

(* Every perfect subtree of the tree is cached with its hash, whatever     *)
(* RootHash wrote under the same id before, and after a rebuild over rows  *)
(* whose leaf_index has gaps (tree.go:34-68, 112-141).                     *)
CacheCorrect == \A id \in (0..end) \X (0..end) :
                    Last(id) <= end => id \in DOMAIN nodes /\ nodes[id] = NodeMTH(id)

(* The root of n leaves is that of RFC 6962, and what the compact range    *)
(* keeps is what a root of more leaves will need (tree.go:52-68).          *)
RootsCorrect == /\ roots # Nil => roots.root = MTH(0, roots.size)
                /\ hashes = RangeHashes(end)

(* A proof of sizes in range is never refused and is the one RFC 6962      *)
(* defines for the size that was asked, even if leaves were appended and   *)
(* roots computed while its nodes were being read one by one               *)
(* (proof.go:11-60).                                                       *)
AnswersCorrect ==
    \A r \in Readers : answer[r] # Nil =>
        answer[r].proof = IF answer[r].kind = "inclusion"
                          THEN InclusionPath(answer[r].first, answer[r].size)
                          ELSE ConsistencyPath(answer[r].first, answer[r].size)
=============================================================================
