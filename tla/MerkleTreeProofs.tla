-------------------------- MODULE MerkleTreeProofs --------------------------
(***************************************************************************)
(* Proofs about MerkleTree: the cache, the roots and the proofs it gives   *)
(* are those of RFC 6962 for any number of leaves and of readers.          *)
(***************************************************************************)
EXTENDS MerkleTree, CompactRangeProofs

-----------------------------------------------------------------------------
(* The cache. *)

(* Every perfect subtree of the first n leaves is cached with its hash. *)
Cached(cache, n) == \A id \in Nat \X Nat : Last(id) <= n => id \in DOMAIN cache /\ cache[id] = NodeMTH(id)

LEMMA PerfectBounds ==
    ASSUME NEW n \in Nat, NEW id \in Nat \X Nat, Last(id) <= n
    PROVE  id \in (0..n) \X (0..n) /\ First(id) < n /\ id[1] < n
<1>1. First(id) \in Nat /\ Last(id) = First(id) + Pow2[id[1]] /\ Pow2[id[1]] >= id[1] + 1
  BY NodeFacts, PowNat
<1>2. id[1] \in Nat /\ id[2] \in Nat /\ id = <<id[1], id[2]>>
  OBVIOUS
<1>3. ASSUME NEW q \in Nat, NEW p \in Nat, p >= 1 PROVE q * p >= q
  BY <1>3
<1>4. First(id) >= id[2]
  BY <1>1, <1>2, <1>3, PowNat DEF First
<1>5. First(id) < n /\ id[1] < n
  BY <1>1, <1>2, PowNat
<1>6. id[1] \in 0..n /\ id[2] \in 0..n
  BY <1>1, <1>2, <1>4, <1>5
<1> QED  BY <1>2, <1>5, <1>6

LEMMA CachedIs == ASSUME end \in Nat PROVE CacheCorrect <=> Cached(nodes, end)
<1>1. ASSUME NEW id \in (0..end) \X (0..end) PROVE id \in Nat \X Nat
  OBVIOUS
<1> QED  BY <1>1, PerfectBounds DEF CacheCorrect, Cached

LEMMA StoredDomain ==
    ASSUME NEW new, NEW cache
    PROVE  DOMAIN Stored(new, cache) = DOMAIN new \cup DOMAIN cache
BY DEF Stored

LEMMA StoredNew ==
    ASSUME NEW new, NEW cache, NEW id \in DOMAIN new
    PROVE  id \in DOMAIN Stored(new, cache) /\ Stored(new, cache)[id] = new[id]
BY DEF Stored

LEMMA StoredOld ==
    ASSUME NEW new, NEW cache, NEW id \in DOMAIN cache, id \notin DOMAIN new
    PROVE  id \in DOMAIN Stored(new, cache) /\ Stored(new, cache)[id] = cache[id]
BY DEF Stored

(* A node that leaf n completes ends at n + 1, one level for each bit. *)
LEMMA CompletedBy ==
    ASSUME NEW n \in Nat, NEW id \in Nat \X Nat, Last(id) = n + 1
    PROVE  id \in {NewNodeID(j, n \div Pow2[j]) : j \in 0..Completed(n)}
<1>1. id[1] \in Nat /\ id[2] \in Nat /\ id = <<id[1], id[2]>> /\ Aligned(id[1], n + 1)
  BY NodeFacts
<1>2. id[1] <= Completed(n)
  <2>1. CASE id[1] > Completed(n)
    <3>1. Completed(n) + 1 \in Nat /\ Completed(n) + 1 <= id[1]
      BY <1>1, <2>1, CompletedIs
    <3>2. Aligned(Completed(n) + 1, n + 1)
      BY <1>1, <3>1, AlignedBelow
    <3> QED  BY <3>2, CompletedIs
  <2> QED  BY <1>1, <2>1, CompletedIs
<1>3. Pow2[id[1]] \in Nat /\ Pow2[id[1]] > 0
  BY <1>1, PowNat
<1>4. n = id[2] * Pow2[id[1]] + (Pow2[id[1]] - 1)
  <2>1. Last(id) = id[2] * Pow2[id[1]] + Pow2[id[1]] /\ id[2] * Pow2[id[1]] \in Nat
    BY <1>1, <1>3, NextProduct, ProductNat DEF Last
  <2>2. ASSUME NEW a \in Nat, NEW p \in Nat, p > 0, a + p = n + 1 PROVE n = a + (p - 1)
    BY <2>2
  <2> QED  BY <2>1, <2>2, <1>3
<1>5. n \div Pow2[id[1]] = id[2]
  BY <1>1, <1>3, <1>4, DivLast
<1>6. id = NewNodeID(id[1], n \div Pow2[id[1]]) /\ id[1] \in 0..Completed(n)
  BY <1>1, <1>2, <1>5, CompletedIs DEF NewNodeID
<1> QED  BY <1>6

(* The leaf and what its append visits complete the cache, wherever the    *)
(* leaf is stored: an index below n is not an option, as every node of the *)
(* tree of n leaves is in use.                                             *)
LEMMA AppendCached ==
    ASSUME NEW n \in Nat, NEW index \in Nat, index >= n, NEW cache, Cached(cache, n)
    PROVE  LET r == RangeAppend(n, RangeHashes(n), HashLeaf(n + 1))
           IN  Cached(Stored(r.visited, Stored(Leaf(index, n + 1), cache)), n + 1)
<1> DEFINE r == RangeAppend(n, RangeHashes(n), HashLeaf(n + 1))
           inner == Stored(Leaf(index, n + 1), cache)
<1>1. /\ DOMAIN r.visited = {NewNodeID(j, n \div Pow2[j]) : j \in 0..Completed(n)}
      /\ \A id \in DOMAIN r.visited : r.visited[id] = NodeMTH(id)
  BY RangeAppendCorrect
<1>2. DOMAIN Leaf(index, n + 1) = {NewNodeID(0, index)}
  BY DEF Leaf
<1> HIDE DEF r
<1>3. SUFFICES ASSUME NEW id \in Nat \X Nat, Last(id) <= n + 1
               PROVE  /\ id \in DOMAIN Stored(r.visited, inner)
                      /\ Stored(r.visited, inner)[id] = NodeMTH(id)
  BY DEF Cached, r
<1>4. CASE id \in DOMAIN r.visited
  <2>1. id \in DOMAIN Stored(r.visited, inner) /\ Stored(r.visited, inner)[id] = r.visited[id]
    BY <1>4, StoredNew, Zenon
  <2> QED  BY <1>1, <1>4, <2>1, Zenon DEF inner
<1>5. CASE id \notin DOMAIN r.visited
  <2>1. Last(id) \in Nat /\ Last(id) # n + 1
    BY <1>1, <1>5, CompletedBy, NodeFacts
  <2>2. id \in DOMAIN cache /\ cache[id] = NodeMTH(id) /\ First(id) < n
    BY <1>3, <2>1, PerfectBounds DEF Cached
  <2>3. id # NewNodeID(0, index)
    <3>1. CASE id = NewNodeID(0, index)
      <4>1. First(id) = index
        BY <3>1, PowZero DEF First, NewNodeID
      <4> QED  BY <2>2, <4>1
    <3> QED  BY <3>1
  <2>4. id \in DOMAIN inner /\ inner[id] = NodeMTH(id)
    <3>1. id \notin DOMAIN Leaf(index, n + 1)
      BY <1>2, <2>3
    <3>2. id \in DOMAIN inner /\ inner[id] = cache[id]
      BY <2>2, <3>1, StoredOld
    <3> QED  BY <2>2, <3>2
  <2> HIDE DEF inner
  <2>5. id \in DOMAIN Stored(r.visited, inner) /\ Stored(r.visited, inner)[id] = inner[id]
    BY <1>5, <2>4, StoredOld
  <2> QED  BY <2>4, <2>5 DEF inner
<1> QED  BY <1>4, <1>5

(* Nodes that reach beyond the tree replace none of it. *)
LEMMA BeyondCached ==
    ASSUME NEW n \in Nat, NEW cache, Cached(cache, n), NEW new,
           \A id \in DOMAIN new : id \in Nat \X Nat => ~ (Last(id) <= n)
    PROVE  Cached(Stored(new, cache), n)
<1>1. SUFFICES ASSUME NEW id \in Nat \X Nat, Last(id) <= n
               PROVE  id \in DOMAIN Stored(new, cache) /\ Stored(new, cache)[id] = NodeMTH(id)
  BY DEF Cached
<1>2. id \in DOMAIN cache /\ cache[id] = NodeMTH(id)
  BY <1>1 DEF Cached
<1>3. id \notin DOMAIN new
  BY <1>1, <1>2
<1>4. id \in DOMAIN Stored(new, cache) /\ Stored(new, cache)[id] = cache[id]
  BY <1>2, <1>3, StoredOld
<1> QED  BY <1>2, <1>4

(* The ids in the cache. *)
InBounds(cache) == DOMAIN cache \subseteq (0..MaxSize) \X (0..(MaxSize + MaxGap))

LEMMA AppendBounds ==
    ASSUME NEW n \in Nat, n < MaxSize, NEW index \in 0..(MaxSize + MaxGap), NEW cache, InBounds(cache)
    PROVE  LET r == RangeAppend(n, RangeHashes(n), HashLeaf(n + 1))
           IN  InBounds(Stored(r.visited, Stored(Leaf(index, n + 1), cache)))
<1> DEFINE r == RangeAppend(n, RangeHashes(n), HashLeaf(n + 1))
           ids == {NewNodeID(j, n \div Pow2[j]) : j \in 0..Completed(n)}
           bounds == (0..MaxSize) \X (0..(MaxSize + MaxGap))
<1>1. DOMAIN r.visited = ids
  BY RangeAppendCorrect
<1> HIDE DEF r
<1>2. ASSUME NEW j \in 0..Completed(n) PROVE NewNodeID(j, n \div Pow2[j]) \in bounds
  <2> DEFINE id == NewNodeID(j, n \div Pow2[j])
  <2>1. j \in Nat /\ j <= Completed(n) /\ Completed(n) \in Nat
    BY CompletedIs
  <2>2. Aligned(j, n + 1)
    BY <2>1, CompletedIs, AlignedBelow
  <2>3. id \in Nat \X Nat /\ Last(id) = n + 1
    BY <2>1, <2>2, CompletedNode
  <2> HIDE DEF id
  <2>4. id \in (0..(n + 1)) \X (0..(n + 1))
    BY <2>3, PerfectBounds
  <2>5. id \in bounds
    BY <2>4, MaxSizeAssumption, MaxGapAssumption
  <2> QED  BY <2>5 DEF id
<1>3. ids \subseteq bounds
  BY <1>2
<1>4. DOMAIN Leaf(index, n + 1) \subseteq bounds
  BY MaxSizeAssumption DEF Leaf, NewNodeID
<1>5. DOMAIN Stored(r.visited, Stored(Leaf(index, n + 1), cache))
         = ids \cup (DOMAIN Leaf(index, n + 1) \cup DOMAIN cache)
  <2> DEFINE inner == Stored(Leaf(index, n + 1), cache)
  <2>1. DOMAIN inner = DOMAIN Leaf(index, n + 1) \cup DOMAIN cache
    BY StoredDomain
  <2> HIDE DEF inner
  <2>2. DOMAIN Stored(r.visited, inner) = ids \cup DOMAIN inner
    BY <1>1, StoredDomain
  <2> QED  BY <2>1, <2>2 DEF inner
<1> HIDE DEF ids
<1> QED  BY <1>3, <1>4, <1>5 DEF InBounds, r
-----------------------------------------------------------------------------
(* A rebuild. *)

(* No leaf_index is below the position of its leaf. *)
RowsOK == /\ rows \in Seq(Nat) /\ Len(rows) <= MaxSize
          /\ \A k \in 1..Len(rows) : rows[k] \in (k - 1)..(k + MaxGap - 1)

RebuildStep(f, k) ==
    IF k = 0 THEN [hashes |-> <<>>, nodes |-> <<>>]
    ELSE LET r == RangeAppend(k - 1, f[k - 1].hashes, HashLeaf(k))
         IN  [hashes |-> r.hashes,
              nodes  |-> Stored(r.visited, Stored(Leaf(rows[k], k), f[k - 1].nodes))]

IsRebuilt(f, n) == f = [k \in 0..n |-> RebuildStep(f, k)]

LEMMA RebuildExists == ASSUME NEW n \in Nat PROVE \E f : IsRebuilt(f, n)
<1> DEFINE S == {d \in Nat : \E f : IsRebuilt(f, d)}
<1>1. 0 \in S
  <2> DEFINE f == [k \in 0..0 |-> RebuildStep(<<>>, 0)]
  <2>1. \A k \in 0..0 : f[k] = RebuildStep(f, k)
    BY DEF RebuildStep
  <2>2. IsRebuilt(f, 0)
    BY <2>1 DEF IsRebuilt
  <2> QED  BY <2>2
<1>2. ASSUME NEW d \in Nat, d \in S PROVE d + 1 \in S
  <2>1. PICK f : IsRebuilt(f, d)
    BY <1>2
  <2> DEFINE g == [k \in 0..(d + 1) |-> IF k = d + 1 THEN RebuildStep(f, d + 1) ELSE f[k]]
  <2>2. \A k \in 0..d : g[k] = f[k]
    OBVIOUS
  <2>3. ASSUME NEW k \in 0..(d + 1) PROVE g[k] = RebuildStep(g, k)
    <3>1. k # 0 => k - 1 \in 0..d
      OBVIOUS
    <3>2. k # 0 => g[k - 1] = f[k - 1]
      BY <3>1, <2>2
    <3>3. RebuildStep(f, k) = RebuildStep(g, k)
      BY <3>2 DEF RebuildStep
    <3>4. k # d + 1 => f[k] = RebuildStep(f, k)
      BY <2>1 DEF IsRebuilt
    <3> QED  BY <3>3, <3>4
  <2>4. IsRebuilt(g, d + 1)
    BY <2>3 DEF IsRebuilt
  <2>5. \E f1 : IsRebuilt(f1, d + 1)
    BY <2>4, Zenon
  <2> QED  BY <2>5
<1> HIDE DEF S
<1>3. n \in S
  BY <1>1, <1>2, Induction
<1> QED  BY <1>3 DEF S

LEMMA RebuiltIs == ASSUME NEW n \in Nat PROVE \E f : IsRebuilt(f, n) /\ Rebuilt(n) = f[n]
<1> DEFINE c == CHOOSE f : IsRebuilt(f, n)
<1>1. IsRebuilt(c, n)
  BY RebuildExists, Zenon
<1>2. Rebuilt(n) = c[n]
  BY DEF Rebuilt, IsRebuilt, RebuildStep
<1> HIDE DEF c
<1> QED  BY <1>1, <1>2, Zenon

(* A rebuild over rows whose leaf_index has gaps gives the same range and  *)
(* the same perfect subtrees as appending the leaves one by one: what it   *)
(* stores under a leaf_index, the node of an earlier or a later leaf, is   *)
(* replaced before the tree reaches that leaf.                             *)
LEMMA RebuiltCorrect ==
    ASSUME RowsOK
    PROVE  LET r == Rebuilt(Len(rows))
           IN  r.hashes = RangeHashes(Len(rows)) /\ Cached(r.nodes, Len(rows)) /\ InBounds(r.nodes)
<1>1. Len(rows) \in Nat /\ Len(rows) <= MaxSize
  BY DEF RowsOK
<1>2. PICK f : IsRebuilt(f, Len(rows)) /\ Rebuilt(Len(rows)) = f[Len(rows)]
  BY <1>1, RebuiltIs
<1> DEFINE Good(k) == f[k].hashes = RangeHashes(k) /\ Cached(f[k].nodes, k) /\ InBounds(f[k].nodes)
           S == {k \in Nat : k <= Len(rows) => Good(k)}
<1>3. 0 \in S
  <2>1. f[0] = [hashes |-> <<>>, nodes |-> <<>>]
    BY <1>1, <1>2 DEF IsRebuilt, RebuildStep
  <2>2. RangeHashes(0) = <<>>
    BY RangeHashesSeq, RangeNodesEmpty
  <2>3. Cached(<<>>, 0)
    <3>1. ASSUME NEW id \in Nat \X Nat PROVE ~ (Last(id) <= 0)
      BY NodeFacts
    <3> QED  BY <3>1 DEF Cached
  <2>4. InBounds(<<>>)
    BY DEF InBounds
  <2> QED  BY <2>1, <2>2, <2>3, <2>4
<1>4. ASSUME NEW k \in Nat, k \in S PROVE k + 1 \in S
  <2>1. SUFFICES ASSUME k + 1 <= Len(rows) PROVE Good(k + 1)
    OBVIOUS
  <2>2. Good(k)
    BY <1>1, <1>4, <2>1
  <2> DEFINE r == RangeAppend(k, RangeHashes(k), HashLeaf(k + 1))
             stored == Stored(r.visited, Stored(Leaf(rows[k + 1], k + 1), f[k].nodes))
  <2>3. k + 1 \in 0..Len(rows) /\ k + 1 # 0 /\ (k + 1) - 1 = k
    BY <1>1, <2>1
  <2>4. f[k + 1] = RebuildStep(f, k + 1)
    BY <1>2, <2>3 DEF IsRebuilt
  <2>5. f[k + 1] = [hashes |-> r.hashes, nodes |-> stored]
    BY <2>2, <2>3, <2>4 DEF RebuildStep
  <2>6. rows[k + 1] \in Nat /\ rows[k + 1] >= k /\ rows[k + 1] <= MaxSize + MaxGap
    BY <1>1, <2>3, MaxGapAssumption, MaxSizeAssumption DEF RowsOK
  <2>7. k < MaxSize /\ rows[k + 1] \in 0..(MaxSize + MaxGap)
    BY <1>1, <2>1, <2>6, MaxSizeAssumption
  <2>8. r.hashes = RangeHashes(k + 1)
    BY RangeAppendCorrect
  <2>9. Cached(stored, k + 1)
    BY <2>2, <2>6, AppendCached
  <2>10. InBounds(stored)
    BY <2>2, <2>7, AppendBounds
  <2> HIDE DEF stored, r
  <2> QED  BY <2>5, <2>8, <2>9, <2>10
<1> HIDE DEF S
<1>5. Len(rows) \in S
  BY <1>1, <1>3, <1>4, Induction
<1> QED  BY <1>1, <1>2, <1>5 DEF S
-----------------------------------------------------------------------------
(* Reading a node. *)

(* The ids at a level under node id, as NodeHash goes through them. *)
HashStep(f, level, id) ==
    [index \in {i \in 0..MaxSize : i \div Pow2[id[1] - level] = id[2]} |->
        LET n == NewNodeID(level, index)
        IN  IF n \in DOMAIN nodes THEN nodes[n]
            ELSE IF level = 0 \/ Nil \in {f[level - 1][2 * index], f[level - 1][2 * index + 1]}
                 THEN Nil
                 ELSE HashChildren(f[level - 1][2 * index], f[level - 1][2 * index + 1])]

IsHash(f, d, id) == f = [level \in 0..d |-> HashStep(f, level, id)]

LEMMA HashStepCong ==
    ASSUME NEW f, NEW g, NEW level \in Nat, NEW id, level # 0 => f[level - 1] = g[level - 1]
    PROVE  HashStep(f, level, id) = HashStep(g, level, id)
BY DEF HashStep

LEMMA HashExists == ASSUME NEW id PROVE \A n \in Nat : \E f : IsHash(f, n, id)
<1> DEFINE S == {d \in Nat : \E f : IsHash(f, d, id)}
<1>1. 0 \in S
  <2> DEFINE f == [k \in 0..0 |-> HashStep(<<>>, 0, id)]
  <2>1. \A k \in 0..0 : f[k] = HashStep(f, k, id)
    BY HashStepCong
  <2>2. IsHash(f, 0, id)
    BY <2>1 DEF IsHash
  <2> QED  BY <2>2
<1>2. ASSUME NEW d \in Nat, d \in S PROVE d + 1 \in S
  <2>1. PICK f : IsHash(f, d, id)
    BY <1>2
  <2> DEFINE g == [k \in 0..(d + 1) |-> IF k = d + 1 THEN HashStep(f, d + 1, id) ELSE f[k]]
  <2>2. \A k \in 0..d : g[k] = f[k]
    OBVIOUS
  <2>3. ASSUME NEW k \in 0..(d + 1) PROVE g[k] = HashStep(g, k, id)
    <3>1. k # 0 => k - 1 \in 0..d
      OBVIOUS
    <3>2. k # 0 => g[k - 1] = f[k - 1]
      BY <3>1, <2>2
    <3>3. HashStep(f, k, id) = HashStep(g, k, id)
      BY <3>2, HashStepCong
    <3>4. k # d + 1 => f[k] = HashStep(f, k, id)
      BY <2>1 DEF IsHash
    <3> QED  BY <3>3, <3>4
  <2>4. IsHash(g, d + 1, id)
    BY <2>3 DEF IsHash
  <2>5. \E f1 : IsHash(f1, d + 1, id)
    BY <2>4, Zenon
  <2> QED  BY <2>5
<1> HIDE DEF S
<1>3. Nat \subseteq S
  BY <1>1, <1>2, Induction
<1> QED  BY <1>3 DEF S

LEMMA NodeHashDef ==
    ASSUME NEW id, id[1] \in Nat
    PROVE  \E f : NodeHash(id) = HashStep(f, id[1], id)[id[2]]
<1> DEFINE c == CHOOSE f : IsHash(f, id[1], id)
<1>1. IsHash(c, id[1], id)
  BY HashExists, Zenon
<1>2. NodeHash(id) = c[id[1]][id[2]]
  BY DEF NodeHash, IsHash, HashStep
<1> HIDE DEF c
<1>3. c[id[1]] = HashStep(c, id[1], id)
  BY <1>1 DEF IsHash
<1> QED  BY <1>2, <1>3, Zenon

(* A node that is cached is read, and nothing is computed or stored. *)
LEMMA CachedNodeHash ==
    ASSUME NEW id \in (0..MaxSize) \X (0..MaxSize), id \in DOMAIN nodes
    PROVE  NodeHash(id) = nodes[id] /\ ComputedNodes(id) = {}
<1>1. id[1] \in Nat /\ id[2] \in 0..MaxSize /\ id = NewNodeID(id[1], id[2])
  BY MaxSizeAssumption DEF NewNodeID
<1>2. PICK f : NodeHash(id) = HashStep(f, id[1], id)[id[2]]
  BY <1>1, NodeHashDef
<1>3. id[2] \div Pow2[id[1] - id[1]] = id[2]
  BY <1>1, PowZero, MaxSizeAssumption
<1>4. HashStep(f, id[1], id)[id[2]] = nodes[id]
  BY <1>1, <1>3 DEF HashStep
<1>5. ComputedNodes(id) = {}
  <2> DEFINE below(n) == {m \in (0..n[1]) \X (0..MaxSize) : m[2] \div Pow2[n[1] - m[1]] = n[2]}
  <2>1. id \in below(id)
    BY <1>1, <1>3
  <2>2. ComputedNodes(id) = {n \in below(id) : /\ NodeHash(n) # Nil
                                               /\ \A m \in below(id) : n \in below(m) => m \notin DOMAIN nodes}
    BY DEF ComputedNodes
  <2> HIDE DEF below
  <2> QED  BY <2>1, <2>2
<1> QED  BY <1>2, <1>4, <1>5
-----------------------------------------------------------------------------
(* The nodes above a node. *)

LEMMA ProductOrder ==
    ASSUME NEW a \in Nat, NEW b \in Nat, a <= b, NEW p \in Nat
    PROVE  a * p <= b * p
<1>1. PICK d \in Nat : b = a + d
  <2>1. b - a \in Nat /\ b = a + (b - a)
    OBVIOUS
  <2> QED  BY <2>1
<1>2. (a + d) * p = a * p + d * p
  OBVIOUS
<1>3. d * p \in Nat /\ a * p \in Nat
  BY ProductNat
<1> QED  BY <1>1, <1>2, <1>3

LEMMA DivAt ==
    ASSUME NEW q \in Nat, NEW d \in Nat, d > 0, NEW x \in Nat, q * d <= x, x < q * d + d
    PROVE  x \div d = q
<1>1. x \div d \in Nat /\ x % d \in 0..(d - 1) /\ x = (x \div d) * d + (x % d)
  BY DivFacts
<1>2. q * d \in Nat /\ (x \div d) * d \in Nat
  BY <1>1, ProductNat
<1>3. ~ (x \div d < q)
  <2>1. ASSUME x \div d < q PROVE FALSE
    <3>1. ((x \div d) + 1) * d <= q * d
      BY <1>1, <2>1, ProductOrder
    <3>2. ((x \div d) + 1) * d = (x \div d) * d + d
      BY <1>1, NextProduct
    <3> QED  BY <1>1, <1>2, <3>1, <3>2
  <2> QED  BY <2>1
<1>4. ~ (x \div d > q)
  <2>1. ASSUME x \div d > q PROVE FALSE
    <3>1. (q + 1) * d <= (x \div d) * d
      BY <1>1, <2>1, ProductOrder
    <3>2. (q + 1) * d = q * d + d
      BY NextProduct
    <3> QED  BY <1>1, <1>2, <3>1, <3>2
  <2> QED  BY <2>1
<1> QED  BY <1>1, <1>3, <1>4

LEMMA DivDiv ==
    ASSUME NEW x \in Nat, NEW b \in Nat, b > 0, NEW c \in Nat, c > 0
    PROVE  (x \div b) \div c = x \div (b * c)
<1> DEFINE q == x \div b
           p == q \div c
<1>1. q \in Nat /\ x % b \in 0..(b - 1) /\ x = q * b + (x % b)
  BY DivFacts
<1> HIDE DEF q
<1>2. p \in Nat /\ q % c \in 0..(c - 1) /\ q = p * c + (q % c)
  BY <1>1, DivFacts
<1> HIDE DEF p
<1>3. p * c \in Nat /\ b * c \in Nat /\ p * (b * c) \in Nat /\ q * b \in Nat
  BY <1>1, <1>2, ProductNat
<1>4. (p * c) * b = p * (b * c)
  BY <1>2
<1>5. p * (b * c) <= q * b
  <2>1. p * c <= q
    BY <1>1, <1>2, <1>3
  <2>2. (p * c) * b <= q * b
    BY <1>1, <1>3, <2>1, ProductOrder
  <2> QED  BY <1>4, <2>2
<1>6. q * b + b <= p * (b * c) + b * c
  <2>1. q + 1 <= p * c + c
    BY <1>1, <1>2, <1>3
  <2>2. (q + 1) * b <= (p * c + c) * b
    BY <1>1, <1>3, <2>1, ProductOrder
  <2>3. (q + 1) * b = q * b + b
    BY <1>1, NextProduct
  <2>4. ASSUME NEW m \in Nat PROVE (m + c) * b = m * b + b * c
    OBVIOUS
  <2>5. (p * c + c) * b = (p * c) * b + b * c
    BY <1>3, <2>4
  <2> QED  BY <1>4, <2>2, <2>3, <2>5
<1>7. p * (b * c) <= x /\ x < p * (b * c) + b * c /\ b * c > 0
  <2>1. b * c > 0
    <3>1. 1 * c <= b * c
      BY ProductOrder
    <3> QED  BY <3>1, <1>3
  <2> QED  BY <1>1, <1>3, <1>5, <1>6, <2>1
<1>8. x \div (b * c) = p
  BY <1>2, <1>3, <1>7, DivAt
<1> QED  BY <1>8 DEF p, q

LEMMA PowDiv ==
    ASSUME NEW x \in Nat, NEW k \in Nat, NEW j \in Nat
    PROVE  (x \div Pow2[k]) \div Pow2[j] = x \div Pow2[k + j]
<1>1. Pow2[k] \in Nat /\ Pow2[k] > 0 /\ Pow2[j] \in Nat /\ Pow2[j] > 0
  BY PowNat
<1>2. Pow2[k + j] = Pow2[k] * Pow2[j]
  BY PowSum
<1> QED  BY <1>1, <1>2, DivDiv

(* A node and its sibling are the halves of their parent. *)
Halves(v) ==
    LET p == Parent(v)
        s == Sibling(v)
    IN  /\ p \in Nat \X Nat /\ s \in Nat \X Nat /\ p[1] = v[1] + 1
        /\ \/ First(p) = First(v) /\ First(s) = Last(v) /\ Last(s) = Last(p)
           \/ First(p) = First(s) /\ Last(s) = First(v) /\ Last(v) = Last(p)
        /\ Last(p) = First(p) + 2 * Pow2[v[1]]

LEMMA ParentHalves == ASSUME NEW v \in Nat \X Nat PROVE Halves(v)
<1> DEFINE l == v[1]
           j == v[2]
           q == j \div 2
           P == Pow2[l]
<1>1. l \in Nat /\ j \in Nat /\ v = <<l, j>>
  OBVIOUS
<1>2. q \in Nat /\ j = 2 * q + (j % 2) /\ j % 2 \in {0, 1}
  BY <1>1
<1>3. P \in Nat /\ Pow2[l + 1] = 2 * P
  BY <1>1, PowNat, PowNext
<1>4. Parent(v) = <<l + 1, q>> /\ Parent(v) \in Nat \X Nat /\ Parent(v)[1] = l + 1 /\ Parent(v)[2] = q
  BY <1>1, <1>2 DEF Parent
<1>5. First(v) = j * P /\ Last(v) = (j + 1) * P
  BY DEF First, Last
<1> HIDE DEF l, j, q, P
<1>6. First(Parent(v)) = q * (2 * P) /\ Last(Parent(v)) = (q + 1) * (2 * P)
  BY <1>3, <1>4 DEF First, Last
<1>7. ASSUME NEW m \in Nat, NEW p \in Nat
      PROVE  /\ m * (2 * p) = (2 * m) * p /\ (m + 1) * (2 * p) = ((2 * m + 1) + 1) * p
             /\ (m + 1) * (2 * p) = m * (2 * p) + 2 * p
  OBVIOUS
<1>8. First(Parent(v)) = (2 * q) * P /\ Last(Parent(v)) = ((2 * q + 1) + 1) * P
  BY <1>2, <1>3, <1>6, <1>7
<1>9. Last(Parent(v)) = First(Parent(v)) + 2 * P
  BY <1>2, <1>3, <1>6, <1>7
<1>10. CASE j % 2 = 0
  <2>1. j = 2 * q
    BY <1>1, <1>2, <1>10
  <2>2. Sibling(v) = <<l, j + 1>> /\ Sibling(v) \in Nat \X Nat
    BY <1>1, <1>10 DEF Sibling, l, j
  <2>3. First(Sibling(v)) = (j + 1) * P /\ Last(Sibling(v)) = ((j + 1) + 1) * P
    BY <2>2, <1>1 DEF First, Last, P
  <2> QED  BY <1>4, <1>5, <1>8, <1>9, <2>1, <2>2, <2>3 DEF Halves, l, P
<1>11. CASE j % 2 = 1
  <2>1. j = 2 * q + 1 /\ j - 1 \in Nat /\ j - 1 = 2 * q /\ (j - 1) + 1 = j
    BY <1>1, <1>2, <1>11
  <2>2. Sibling(v) = <<l, j - 1>> /\ Sibling(v) \in Nat \X Nat
    BY <1>1, <1>11, <2>1 DEF Sibling, l, j
  <2>3. First(Sibling(v)) = (j - 1) * P /\ Last(Sibling(v)) = ((j - 1) + 1) * P
    BY <2>2, <2>1, <1>1 DEF First, Last, P
  <2> QED  BY <1>4, <1>5, <1>8, <1>9, <2>1, <2>2, <2>3 DEF Halves, l, P
<1> QED  BY <1>2, <1>10, <1>11

LEMMA AncestorZero == ASSUME NEW v \in Nat \X Nat PROVE Ancestor(v, 0) = v
<1>1. v = <<v[1], v[2]>> /\ v[1] + 0 = v[1] /\ v[2] \in Nat /\ v[2] \div 1 = v[2]
  OBVIOUS
<1> QED  BY <1>1, PowZero DEF Ancestor

LEMMA AncestorNext ==
    ASSUME NEW v \in Nat \X Nat, NEW i \in Nat
    PROVE  Ancestor(v, i + 1) = Parent(Ancestor(v, i))
<1>1. v[1] \in Nat /\ v[2] \in Nat
  OBVIOUS
<1>2. (v[2] \div Pow2[i]) \div Pow2[1] = v[2] \div Pow2[i + 1]
  BY <1>1, PowDiv
<1>3. Pow2[1] = 2
  <2>1. Pow2[0 + 1] = 2 * Pow2[0]
    BY PowNext
  <2> QED  BY <2>1, PowZero
<1>4. Ancestor(v, i) = <<v[1] + i, v[2] \div Pow2[i]>> /\ (v[1] + i) + 1 = v[1] + (i + 1)
  BY <1>1 DEF Ancestor
<1>5. Parent(Ancestor(v, i)) = <<v[1] + (i + 1), v[2] \div Pow2[i + 1]>>
  BY <1>2, <1>3, <1>4 DEF Parent
<1> QED  BY <1>5 DEF Ancestor

LEMMA AncestorFacts ==
    ASSUME NEW v \in Nat \X Nat, NEW i \in Nat
    PROVE  /\ Ancestor(v, i) \in Nat \X Nat /\ Ancestor(v, i)[1] = v[1] + i
           /\ First(Ancestor(v, i)) <= First(v) /\ Last(v) <= Last(Ancestor(v, i))
<1> DEFINE Good(k) == /\ Ancestor(v, k) \in Nat \X Nat /\ Ancestor(v, k)[1] = v[1] + k
                      /\ First(Ancestor(v, k)) <= First(v) /\ Last(v) <= Last(Ancestor(v, k))
           S == {k \in Nat : Good(k)}
<1>1. 0 \in S
  <2>1. Ancestor(v, 0) = v /\ First(v) \in Nat /\ Last(v) \in Nat
    BY AncestorZero, NodeFacts
  <2>2. Good(0)
    BY <2>1
  <2> QED  BY <2>2
<1>2. ASSUME NEW k \in Nat, k \in S PROVE k + 1 \in S
  <2> DEFINE u == Ancestor(v, k)
  <2>1. Good(k) /\ u \in Nat \X Nat
    BY <1>2
  <2>2. Ancestor(v, k + 1) = Parent(u) /\ Halves(u)
    BY <2>1, AncestorNext, ParentHalves
  <2>3. First(u) \in Nat /\ Last(u) \in Nat /\ First(v) \in Nat /\ Last(v) \in Nat
    BY <2>1, NodeFacts
  <2>4. Parent(u) \in Nat \X Nat /\ Sibling(u) \in Nat \X Nat /\ Parent(u)[1] = u[1] + 1
    BY <2>2 DEF Halves
  <2>5. /\ First(Parent(u)) \in Nat /\ Last(Parent(u)) \in Nat
        /\ First(Sibling(u)) \in Nat /\ Last(Sibling(u)) \in Nat
        /\ First(u) <= Last(u) /\ First(Sibling(u)) <= Last(Sibling(u))
    <3>1. ASSUME NEW w \in Nat \X Nat PROVE First(w) \in Nat /\ Last(w) \in Nat /\ First(w) <= Last(w)
      BY NodeFacts
    <3> QED  BY <3>1, <2>1, <2>4
  <2>6. First(Parent(u)) <= First(u) /\ Last(u) <= Last(Parent(u))
    BY <2>2, <2>3, <2>5 DEF Halves
  <2> HIDE DEF u
  <2>7. First(Parent(u)) <= First(v) /\ Last(v) <= Last(Parent(u))
    BY <2>1, <2>3, <2>5, <2>6 DEF u
  <2>8. Parent(u)[1] = v[1] + (k + 1)
    BY <2>1, <2>4 DEF u
  <2>9. Good(k + 1)
    BY <2>2, <2>4, <2>7, <2>8
  <2> QED  BY <2>9
<1> HIDE DEF S
<1>3. i \in S
  BY <1>1, <1>2, Induction
<1> QED  BY <1>3 DEF S

(* Two nodes of one level that cover the same leaf are one. *)
LEMMA NodeAt ==
    ASSUME NEW u \in Nat \X Nat, NEW v \in Nat \X Nat, u[1] = v[1], NEW x \in Nat,
           First(u) <= x, x < Last(u), First(v) <= x, x < Last(v)
    PROVE  u = v
<1>1. /\ First(u) \in Nat /\ Last(u) = First(u) + Pow2[u[1]] /\ Aligned(u[1], First(u))
      /\ First(v) \in Nat /\ Last(v) = First(v) + Pow2[u[1]] /\ Aligned(u[1], First(v))
      /\ u = <<u[1], u[2]>> /\ First(u) \div Pow2[u[1]] = u[2]
      /\ v = <<v[1], v[2]>> /\ First(v) \div Pow2[u[1]] = v[2] /\ u[1] \in Nat
  BY NodeFacts
<1>2. Pow2[u[1]] \in Nat
  BY <1>1, PowNat
<1>3. ~ (First(u) < First(v))
  BY <1>1, <1>2, AlignedGap
<1>4. ~ (First(v) < First(u))
  BY <1>1, <1>2, AlignedGap
<1>5. First(u) = First(v)
  BY <1>1, <1>3, <1>4
<1> QED  BY <1>1, <1>5
-----------------------------------------------------------------------------
(* The fork: the node of the range that covers a node, and where the path  *)
(* from that node meets the right border of the tree.                      *)

LEMMA RangePrefix ==
    ASSUME NEW n \in Nat, NEW s, IsRange(s, n), NEW c \in 1..Len(s)
    PROVE  RangeNodes(0, First(s[c])) = SubSeq(s, 1, c - 1)
<1> DEFINE t == SubSeq(s, 1, c - 1)
<1>1. s \in Seq(Nat \X Nat) /\ Len(s) \in Nat /\ s # <<>>
  BY DEF IsRange
<1>2. t \in Seq(Nat \X Nat) /\ Len(t) = c - 1 /\ \A i \in 1..(c - 1) : t[i] = s[i]
  <2> DEFINE m == c - 1
             N == Nat \X Nat
  <2>1. m \in 0..Len(s) /\ s \in Seq(N)
    BY <1>1
  <2> HIDE DEF m, N
  <2>2. \A i \in 1..m : s[i] \in N
    BY <2>1
  <2>3. /\ SubSeq(s, 1, m) \in Seq(N)
        /\ Len(SubSeq(s, 1, m)) = IF 1 <= m THEN m - 1 + 1 ELSE 0
        /\ \A i \in 1..(m - 1 + 1) : SubSeq(s, 1, m)[i] = s[1 + i - 1]
    BY <2>1, <2>2, SubSeqProperties
  <2>4. t = SubSeq(s, 1, m)
    BY DEF m
  <2> HIDE DEF t
  <2>5. t \in Seq(N) /\ Len(t) = m /\ \A i \in 1..m : t[i] = s[i]
    BY <2>1, <2>3, <2>4
  <2> QED  BY <2>5, Zenon DEF m, N
<1>3. First(s[c]) \in Nat
  BY SMTT(30), <1>1, NodeFacts
<1>4. \A i \in 1..(Len(s) - 1) : s[i + 1][1] < s[i][1] /\ First(s[i + 1]) = Last(s[i])
  BY DEF IsRange
<1>5. First(s[1]) = 0
  BY <1>1 DEF IsRange
<1> HIDE DEF t
<1>6. \A i \in 1..(Len(t) - 1) : t[i + 1][1] < t[i][1] /\ First(t[i + 1]) = Last(t[i])
  <2>1. SUFFICES ASSUME NEW i \in 1..(Len(t) - 1)
                 PROVE  t[i + 1][1] < t[i][1] /\ First(t[i + 1]) = Last(t[i])
    OBVIOUS
  <2>2. i \in 1..(c - 1) /\ i + 1 \in 1..(c - 1) /\ i \in 1..(Len(s) - 1)
    BY <1>1, <1>2
  <2> QED  BY <1>2, <1>4, <2>2
<1>7. t = <<>> => First(s[c]) = 0
  <2>1. ASSUME t = <<>> PROVE c = 1
    BY <1>2, <2>1
  <2> QED  BY <2>1, <1>5
<1>8. t # <<>> => First(t[1]) = 0 /\ Last(t[Len(t)]) = First(s[c])
  <2>1. ASSUME t # <<>> PROVE c - 1 \in 1..(Len(s) - 1) /\ 1 \in 1..(c - 1) /\ c - 1 \in 1..(c - 1) /\ (c - 1) + 1 = c
    BY <1>1, <1>2, <2>1
  <2>2. ASSUME t # <<>> PROVE t[1] = s[1] /\ t[Len(t)] = s[c - 1] /\ First(s[c]) = Last(s[c - 1])
    BY <1>2, <1>4, <2>1, <2>2
  <2> QED  BY <2>2, <1>5
<1>9. IsRange(t, First(s[c]))
  BY <1>2, <1>6, <1>7, <1>8 DEF IsRange
<1> QED  BY <1>3, <1>9, RangeIs DEF t

Fork(v, n, c) ==
    /\ c \in 1..Len(RangeNodes(0, n))
    /\ v[1] <= RangeNodes(0, n)[c][1]
    /\ RangeNodes(0, n)[c] = Ancestor(v, RangeNodes(0, n)[c][1] - v[1])
    /\ First(RangeNodes(0, n)[c]) <= First(v) /\ Last(v) <= Last(RangeNodes(0, n)[c])

LEMMA ForkExists ==
    ASSUME NEW n \in Nat, NEW v \in Nat \X Nat, Last(v) <= n
    PROVE  \E c : Fork(v, n, c)
<1> DEFINE s == RangeNodes(0, n)
           L == Len(s)
           x == First(v)
           T == {i \in 1..L : x < Last(s[i])}
<1>1. IsRange(s, n)
  BY RangeNodesIsRange
<1> HIDE DEF s
<1>2. x \in Nat /\ Last(v) \in Nat /\ Last(v) = x + Pow2[v[1]] /\ v[1] \in Nat
      /\ Pow2[v[1]] \in Nat /\ Pow2[v[1]] > 0 /\ Aligned(v[1], x) /\ Aligned(v[1], Last(v))
  BY NodeFacts
<1>3. /\ s \in Seq(Nat \X Nat) /\ L \in Nat /\ s # <<>> /\ L \in 1..L /\ 1 \in 1..L
      /\ Last(s[L]) = n /\ First(s[1]) = 0
      /\ \A i \in 1..(L - 1) : First(s[i + 1]) = Last(s[i])
  BY SMTT(30), <1>1, <1>2 DEF IsRange
<1> HIDE DEF x
<1>4. L \in T
  BY SMTT(30), <1>2, <1>3
<1>5. PICK c \in T : \A j \in T : c <= j
  <2>1. T \in SUBSET Nat /\ T # {}
    BY <1>4
  <2> HIDE DEF T
  <2> QED  BY <2>1, LeastNatural, Zenon
<1>6. c \in 1..L /\ x < Last(s[c]) /\ s[c] \in Nat \X Nat
  BY <1>3, <1>5
<1>7. First(s[c]) <= x
  <2>1. CASE c = 1
    BY <1>2, <1>3, <2>1
  <2>2. CASE c # 1
    <3>1. c - 1 \in 1..L /\ c - 1 \in 1..(L - 1) /\ (c - 1) + 1 = c /\ c - 1 < c
      BY <1>3, <1>6, <2>2
    <3>2. c - 1 \notin T
      BY <1>5, <1>6, <3>1
    <3>3. ~ (x < Last(s[c - 1])) /\ First(s[c]) = Last(s[c - 1])
      BY <1>3, <3>1, <3>2
    <3>4. First(s[c]) \in Nat
      BY <1>6, NodeFacts
    <3> QED  BY <1>2, <3>3, <3>4
  <2> QED  BY <2>1, <2>2
<1> DEFINE u == s[c]
           K == u[1]
<1>8. /\ K \in Nat /\ First(u) \in Nat /\ Last(u) \in Nat /\ Last(u) = First(u) + Pow2[K]
      /\ Pow2[K] \in Nat /\ Pow2[K] > 0 /\ Aligned(K, First(u)) /\ Aligned(K, Last(u))
  BY <1>6, NodeFacts
<1>9. Last(u) <= n /\ n < First(u) + 2 * Pow2[K]
  BY <1>1, <1>6, RangeTail
<1> HIDE DEF u, K
<1>10. v[1] <= K
  <2>1. SUFFICES ASSUME K < v[1] PROVE FALSE
    BY <1>2, <1>8
  <2>2. Aligned(K, x)
    BY <1>2, <1>8, <2>1, AlignedBelow
  <2>3. ~ (First(u) < x)
    <3>1. ASSUME First(u) < x PROVE First(u) + Pow2[K] <= x
      BY <3>1, <1>8, <2>2, AlignedGap
    <3> QED  BY <3>1, <1>2, <1>6, <1>8 DEF u
  <2>4. x = First(u)
    BY <1>2, <1>7, <1>8, <2>3 DEF u
  <2>5. 2 * Pow2[K] <= Pow2[v[1]]
    <3>1. Pow2[K + 1] = 2 * Pow2[K]
      BY <1>8, PowNext
    <3>2. K + 1 \in Nat /\ K + 1 <= v[1]
      BY <1>2, <1>8, <2>1
    <3>3. Pow2[K + 1] <= Pow2[v[1]]
      BY <1>2, <3>2, PowAligned
    <3> QED  BY <3>1, <3>3
  <2>6. ASSUME NEW a \in Nat, NEW p \in Nat, NEW q \in Nat, n < a + 2 * p, 2 * p <= q, a + q <= n
        PROVE  FALSE
    BY <2>6
  <2> QED  BY <1>2, <1>8, <1>9, <2>4, <2>5, <2>6
<1>11. Last(v) <= Last(u)
  <2>1. Aligned(v[1], Last(u))
    BY <1>2, <1>8, <1>10, AlignedBelow
  <2>2. x + Pow2[v[1]] <= Last(u)
    BY <1>2, <1>6, <2>1, AlignedGap DEF u
  <2> QED  BY <1>2, <2>2
<1>12. u = Ancestor(v, K - v[1])
  <2> DEFINE w == Ancestor(v, K - v[1])
  <2>1. K - v[1] \in Nat /\ v[1] + (K - v[1]) = K
    BY SMTT(30), <1>2, <1>8, <1>10
  <2>2. w \in Nat \X Nat /\ w[1] = K /\ First(w) <= x /\ Last(v) <= Last(w)
    BY <2>1, AncestorFacts DEF x
  <2> HIDE DEF w
  <2>3. First(w) \in Nat /\ Last(w) \in Nat
    BY <2>2, NodeFacts
  <2>4. x < Last(w)
    <3>1. x < Last(v) /\ Last(v) \in Nat /\ x \in Nat
      BY <1>2
    <3> HIDE DEF x
    <3> QED  BY <3>1, <2>2, <2>3
  <2>5. u \in Nat \X Nat /\ u[1] = K /\ First(u) <= x /\ x < Last(u)
    BY <1>6, <1>7 DEF u, K
  <2>6. u = w
    BY <1>2, <2>2, <2>4, <2>5, NodeAt
  <2> QED  BY <2>6 DEF w
<1>13. Fork(v, n, c)
  BY <1>6, <1>7, <1>10, <1>11, <1>12, Zenon DEF Fork, u, K, s, x
<1> QED  BY <1>13, Zenon

LEMMA ReversedSeq ==
    ASSUME NEW T, NEW s \in Seq(T)
    PROVE  /\ Reversed(s) \in Seq(T) /\ Len(Reversed(s)) = Len(s)
           /\ \A i \in 1..Len(s) : Reversed(s)[i] = s[Len(s) - i + 1]
<1>1. Len(s) \in Nat /\ DOMAIN s = 1..Len(s)
  OBVIOUS
<1>2. Reversed(s) = [i \in 1..Len(s) |-> s[Len(s) - i + 1]]
  BY <1>1 DEF Reversed
<1>3. ASSUME NEW i \in 1..Len(s) PROVE s[Len(s) - i + 1] \in T
  <2>1. Len(s) - i + 1 \in 1..Len(s)
    BY <1>1
  <2> QED  BY <2>1
<1> QED  BY <1>1, <1>2, <1>3

LEMMA ForkSame ==
    ASSUME NEW n \in Nat, NEW v \in Nat \X Nat, NEW c, Fork(v, n, c), NEW k \in Nat,
           k <= RangeNodes(0, n)[c][1] - v[1] + 1
    PROVE  v[2] \div Pow2[k] = (n \div Pow2[v[1]]) \div Pow2[k] <=> k = RangeNodes(0, n)[c][1] - v[1] + 1
<1> DEFINE s == RangeNodes(0, n)
           u == s[c]
           K == u[1]
           x == First(v)
           P == Pow2[v[1] + k]
<1>1. IsRange(s, n)
  BY RangeNodesIsRange
<1>2. c \in 1..Len(s) /\ u \in Nat \X Nat
  BY <1>1 DEF Fork, IsRange
<1>3. Last(u) <= n /\ n < First(u) + 2 * Pow2[K] /\ Aligned(K + 1, First(u))
  BY <1>1, <1>2, RangeTail, RangeEven
<1>4. v[1] <= K /\ First(u) <= x /\ Last(v) <= Last(u)
  BY DEF Fork
<1>5. k <= K - v[1] + 1
  OBVIOUS
<1>6. v[2] \div Pow2[k] = x \div P /\ (n \div Pow2[v[1]]) \div Pow2[k] = n \div P
  <2>1. v[1] \in Nat /\ v[2] = x \div Pow2[v[1]] /\ x \in Nat
    BY NodeFacts
  <2> HIDE DEF x
  <2>2. (x \div Pow2[v[1]]) \div Pow2[k] = x \div P /\ (n \div Pow2[v[1]]) \div Pow2[k] = n \div P
    <3>1. ASSUME NEW y \in Nat, NEW j \in Nat
          PROVE  (y \div Pow2[j]) \div Pow2[k] = y \div Pow2[j + k]
      BY PowDiv
    <3> QED  BY <2>1, <3>1, Zenon
  <2> QED  BY <2>1, <2>2
<1>7. /\ x \in Nat /\ Last(v) = x + Pow2[v[1]] /\ v[1] \in Nat /\ Pow2[v[1]] \in Nat /\ Pow2[v[1]] > 0
      /\ K \in Nat /\ First(u) \in Nat /\ Last(u) = First(u) + Pow2[K] /\ Pow2[K] \in Nat
      /\ Aligned(K, Last(u)) /\ Pow2[K + 1] = 2 * Pow2[K]
  BY <1>2, NodeFacts, PowNext
<1> HIDE DEF s, u, K, x
<1>8. v[1] + k \in Nat /\ P \in Nat /\ P > 0
  BY <1>7, PowNat
<1>9. ASSUME k = K - v[1] + 1 PROVE x \div P = n \div P
  <2>1. P = 2 * Pow2[K] /\ Aligned(v[1] + k, First(u))
    <3>1. v[1] + k = K + 1
      BY <1>7, <1>9
    <3> QED  BY <3>1, <1>3, <1>7
  <2>2. PICK q \in Nat : First(u) = q * P
    BY <2>1 DEF Aligned
  <2> HIDE DEF P
  <2>3. x < First(u) + P /\ n < First(u) + P /\ First(u) <= n
    BY <1>3, <1>4, <1>7, <2>1
  <2>4. x \div P = q
    BY <1>4, <1>7, <1>8, <2>2, <2>3, DivAt
  <2>5. n \div P = q
    BY <1>7, <1>8, <2>2, <2>3, DivAt
  <2> QED  BY <2>4, <2>5
<1>10. ASSUME k # K - v[1] + 1 PROVE x \div P # n \div P
  <2>1. v[1] + k <= K
    BY <1>5, <1>7, <1>10
  <2>2. Aligned(v[1] + k, Last(u))
    BY <1>7, <1>8, <2>1, AlignedBelow
  <2>3. PICK q \in Nat : Last(u) = q * P
    BY <2>2 DEF Aligned
  <2>4. x < q * P /\ q * P <= n /\ q * P \in Nat
    BY <1>3, <1>4, <1>7, <2>3
  <2> HIDE DEF P
  <2>5. /\ x \div P \in Nat /\ x % P \in 0..(P - 1) /\ x = (x \div P) * P + (x % P)
        /\ n \div P \in Nat /\ n % P \in 0..(P - 1) /\ n = (n \div P) * P + (n % P)
    BY <1>7, <1>8, DivFacts
  <2>6. SUFFICES ASSUME x \div P = n \div P PROVE FALSE
    OBVIOUS
  <2>7. CASE x \div P < q
    <3>1. ((n \div P) + 1) * P <= q * P
      BY <1>8, <2>5, <2>6, <2>7, ProductOrder
    <3>2. ((n \div P) + 1) * P = (n \div P) * P + P
      BY <1>8, <2>5, NextProduct
    <3>3. (n \div P) * P \in Nat
      BY <1>8, <2>5, ProductNat
    <3>4. ASSUME NEW a \in Nat, NEW b \in Nat, NEW r \in 0..(P - 1), n = a + r, a + P <= b, b <= n
          PROVE  FALSE
      BY <1>8, <3>4
    <3> QED  BY <1>8, <2>4, <2>5, <3>1, <3>2, <3>3, <3>4
  <2>8. CASE x \div P >= q
    <3>1. q * P <= (x \div P) * P
      BY <1>8, <2>5, <2>8, ProductOrder
    <3>2. (x \div P) * P \in Nat
      BY <1>8, <2>5, ProductNat
    <3> QED  BY <1>8, <2>4, <2>5, <3>1, <3>2
  <2> QED  BY <2>5, <2>7, <2>8
<1> QED  BY <1>6, <1>9, <1>10 DEF K, u, s

(* The ids of a proof, from the node to the left border. *)
PathIds(v, n, c) ==
    LET s == RangeNodes(0, n)
        inner == s[c][1] - v[1]
    IN  <<v>> \o [i \in 1..inner |-> Sibling(Ancestor(v, i - 1))]
              \o Reversed(SubSeq(s, c + 1, Len(s))) \o Reversed(SubSeq(s, 1, c - 1))

LEMMA ProofNodesAre ==
    ASSUME NEW n \in Nat, NEW v \in Nat \X Nat, NEW c, Fork(v, n, c)
    PROVE  LET s == RangeNodes(0, n)
               inner == s[c][1] - v[1]
           IN  ProofNodes(v[2], v[1], n) = [ids |-> PathIds(v, n, c), begin |-> inner + 1,
                                            end |-> inner + 1 + (Len(s) - c)]
<1> DEFINE s == RangeNodes(0, n)
           u == s[c]
           inner == u[1] - v[1]
           Same(k) == /\ v[2] \div Pow2[k] = (n \div Pow2[v[1]]) \div Pow2[k]
                      /\ \A j \in 0..(k - 1) : v[2] \div Pow2[j] # (n \div Pow2[v[1]]) \div Pow2[j]
           same == CHOOSE k \in 0..n : Same(k)
<1>1. IsRange(s, n)
  BY RangeNodesIsRange
<1>2. c \in 1..Len(s) /\ u \in Nat \X Nat /\ v[1] \in Nat /\ u[1] \in Nat /\ v[1] <= u[1]
  <2>1. c \in 1..Len(s) /\ v[1] <= u[1]
    BY DEF Fork
  <2>2. u \in Nat \X Nat
    BY <1>1, <2>1 DEF IsRange
  <2> HIDE DEF u
  <2> QED  BY <2>1, <2>2
<1>3. inner \in Nat
  BY <1>2
<1>4. inner + 1 <= n
  <2>1. Last(u) <= n /\ First(u) \in Nat /\ Last(u) = First(u) + Pow2[u[1]] /\ Pow2[u[1]] >= u[1] + 1
    BY <1>1, <1>2, RangeTail, NodeFacts, PowNat
  <2>2. Pow2[u[1]] \in Nat
    BY <1>2, PowNat
  <2>3. ASSUME NEW a \in Nat, NEW p \in Nat, NEW k \in Nat, NEW l \in Nat, a + p <= n, p >= k + 1, l <= k
        PROVE  (k - l) + 1 <= n
    BY <2>3
  <2> QED  BY SMTT(30), <1>2, <2>1, <2>2, <2>3
<1>5. ASSUME NEW k \in Nat PROVE Same(k) <=> k = inner + 1
  <2>1. ASSUME k = inner + 1 PROVE Same(k)
    <3>1. v[2] \div Pow2[k] = (n \div Pow2[v[1]]) \div Pow2[k]
      BY <1>3, <2>1, ForkSame
    <3>2. ASSUME NEW j \in 0..(k - 1) PROVE v[2] \div Pow2[j] # (n \div Pow2[v[1]]) \div Pow2[j]
      <4>1. j \in Nat /\ j <= inner + 1 /\ j # inner + 1
        BY <1>3, <2>1
      <4> QED  BY <4>1, ForkSame
    <3> QED  BY <3>1, <3>2
  <2>2. ASSUME Same(k), k # inner + 1 PROVE FALSE
    <3>1. CASE k < inner + 1
      <4>1. k <= inner + 1
        BY <1>3, <3>1
      <4> QED  BY <2>2, <4>1, ForkSame
    <3>2. CASE k > inner + 1
      <4>1. inner + 1 \in 0..(k - 1) /\ inner + 1 \in Nat /\ inner + 1 <= inner + 1
        BY <1>3, <3>2
      <4>2. v[2] \div Pow2[inner + 1] = (n \div Pow2[v[1]]) \div Pow2[inner + 1]
        BY <4>1, ForkSame
      <4> QED  BY <2>2, <4>1, <4>2
    <3> QED  BY <1>3, <2>2, <3>1, <3>2
  <2> QED  BY <2>1, <2>2
<1> HIDE DEF Same
<1>6. same = inner + 1
  <2>1. inner + 1 \in 0..n
    BY <1>3, <1>4
  <2>2. Same(inner + 1)
    BY <1>3, <1>5
  <2>3. same \in 0..n /\ Same(same)
    BY <2>1, <2>2, Zenon
  <2> HIDE DEF same
  <2>4. same \in Nat
    BY <2>3
  <2> QED  BY <2>3, <2>4, <1>5
<1>7. Ancestor(NewNodeID(v[1], v[2]), inner) = u /\ NewNodeID(v[1], v[2]) = v
  BY DEF NewNodeID, Fork
<1>8. /\ RangeNodes(0, First(u)) = SubSeq(s, 1, c - 1)
      /\ RangeNodes(Last(u), n) = SubSeq(s, c + 1, Len(s))
  BY <1>1, <1>2, RangePrefix, RangeFrom
<1>9. Len(Reversed(SubSeq(s, c + 1, Len(s)))) = Len(s) - c
  <2>1. s \in Seq(Nat \X Nat) /\ Len(s) \in Nat
    BY <1>1 DEF IsRange
  <2> HIDE DEF s
  <2>2. SubSeq(s, c + 1, Len(s)) \in Seq(Nat \X Nat) /\ Len(SubSeq(s, c + 1, Len(s))) = Len(s) - c
    BY SMTT(30), <1>2, <2>1
  <2> QED  BY <2>2, ReversedSeq
<1>10. same - 1 = inner
  <2> HIDE DEF same, inner
  <2> QED  BY <1>3, <1>6
<1> HIDE DEF s, u, same
<1>11. ProofNodes(v[2], v[1], n) =
         [ids |-> <<v>> \o [i \in 1..inner |-> Sibling(Ancestor(v, i - 1))]
                       \o Reversed(RangeNodes(Last(u), n)) \o Reversed(RangeNodes(0, First(u))),
          begin |-> inner + 1, end |-> inner + 1 + Len(Reversed(RangeNodes(Last(u), n)))]
  <2> HIDE DEF inner
  <2> QED  BY <1>7, <1>10 DEF ProofNodes, same, Same
<1> QED  BY <1>8, <1>9, <1>11 DEF PathIds, s, u
-----------------------------------------------------------------------------
(* The hashes of the ids of a proof. *)

LEMMA ConcatFacts ==
    ASSUME NEW T, NEW s \in Seq(T), NEW t \in Seq(T)
    PROVE  /\ s \o t \in Seq(T) /\ Len(s \o t) = Len(s) + Len(t)
           /\ \A i \in 1..Len(s) : (s \o t)[i] = s[i]
           /\ \A i \in 1..Len(t) : (s \o t)[Len(s) + i] = t[i]
OBVIOUS

TreeHashes == {MTH(b, e) : b \in Nat, e \in Nat}

LEMMA NodeMTHIn == ASSUME NEW id \in Nat \X Nat PROVE NodeMTH(id) \in TreeHashes
<1>1. First(id) \in Nat /\ Last(id) \in Nat
  BY NodeFacts
<1> QED  BY <1>1 DEF NodeMTH, TreeHashes

Hashes(ids) == [i \in 1..Len(ids) |-> NodeMTH(ids[i])]

LEMMA HashesSeq ==
    ASSUME NEW ids \in Seq(Nat \X Nat)
    PROVE  /\ Hashes(ids) \in Seq(TreeHashes) /\ Len(Hashes(ids)) = Len(ids)
           /\ \A i \in 1..Len(ids) : Hashes(ids)[i] = NodeMTH(ids[i])
<1>1. Len(ids) \in Nat /\ \A i \in 1..Len(ids) : ids[i] \in Nat \X Nat
  OBVIOUS
<1>2. \A i \in 1..Len(ids) : NodeMTH(ids[i]) \in TreeHashes
  BY <1>1, NodeMTHIn
<1> QED  BY <1>1, <1>2 DEF Hashes

LEMMA HashesConcat ==
    ASSUME NEW s \in Seq(Nat \X Nat), NEW t \in Seq(Nat \X Nat)
    PROVE  Hashes(s \o t) = Hashes(s) \o Hashes(t)
<1> DEFINE l == Hashes(s \o t)
           r == Hashes(s) \o Hashes(t)
<1>1. /\ s \o t \in Seq(Nat \X Nat) /\ Len(s \o t) = Len(s) + Len(t)
      /\ \A i \in 1..Len(s) : (s \o t)[i] = s[i]
      /\ \A i \in 1..Len(t) : (s \o t)[Len(s) + i] = t[i]
      /\ Len(s) \in Nat /\ Len(t) \in Nat
  BY ConcatFacts
<1>2. /\ l \in Seq(TreeHashes) /\ Len(l) = Len(s \o t)
      /\ \A i \in 1..Len(s \o t) : l[i] = NodeMTH((s \o t)[i])
  BY <1>1, HashesSeq
<1>3. /\ Hashes(s) \in Seq(TreeHashes) /\ Len(Hashes(s)) = Len(s)
      /\ \A i \in 1..Len(s) : Hashes(s)[i] = NodeMTH(s[i])
  BY HashesSeq
<1>4. /\ Hashes(t) \in Seq(TreeHashes) /\ Len(Hashes(t)) = Len(t)
      /\ \A i \in 1..Len(t) : Hashes(t)[i] = NodeMTH(t[i])
  BY HashesSeq
<1>5. /\ r \in Seq(TreeHashes) /\ Len(r) = Len(s) + Len(t)
      /\ \A i \in 1..Len(s) : r[i] = Hashes(s)[i]
      /\ \A i \in 1..Len(t) : r[Len(s) + i] = Hashes(t)[i]
  <2> DEFINE a == Hashes(s)
             b == Hashes(t)
  <2> HIDE DEF a, b
  <2>1. a \in Seq(TreeHashes) /\ Len(a) = Len(s) /\ b \in Seq(TreeHashes) /\ Len(b) = Len(t)
    BY <1>3, <1>4 DEF a, b
  <2>2. a \o b \in Seq(TreeHashes) /\ Len(a \o b) = Len(a) + Len(b)
    <3>1. a \in Seq(TreeHashes) /\ b \in Seq(TreeHashes)
      BY <2>1
    <3> QED  BY <3>1
  <2>3. ASSUME NEW i \in 1..Len(a) PROVE (a \o b)[i] = a[i]
    BY <2>1
  <2>4. ASSUME NEW i \in 1..Len(b) PROVE (a \o b)[Len(a) + i] = b[i]
    BY SMTT(30), <2>1
  <2> QED  BY <2>1, <2>2, <2>3, <2>4 DEF a, b
<1> HIDE DEF l, r
<1>6. ASSUME NEW i \in 1..Len(l) PROVE l[i] = r[i]
  <2>0. i \in 1..(Len(s) + Len(t)) /\ l[i] = NodeMTH((s \o t)[i])
    BY <1>1, <1>2
  <2>1. CASE i <= Len(s)
    <3>1. i \in 1..Len(s)
      BY <2>0, <2>1
    <3>2. (s \o t)[i] = s[i] /\ r[i] = Hashes(s)[i] /\ Hashes(s)[i] = NodeMTH(s[i])
      BY <1>1, <1>3, <1>5, <3>1
    <3> QED  BY <2>0, <3>2
  <2>2. CASE i > Len(s)
    <3>1. i - Len(s) \in 1..Len(t) /\ Len(s) + (i - Len(s)) = i
      BY <1>1, <2>0, <2>2
    <3>2. (s \o t)[i] = t[i - Len(s)] /\ r[i] = Hashes(t)[i - Len(s)]
      BY <1>1, <1>5, <3>1
    <3>3. Hashes(t)[i - Len(s)] = NodeMTH(t[i - Len(s)])
      BY <1>4, <3>1
    <3> QED  BY <2>0, <3>2, <3>3
  <2> QED  BY <1>1, <2>0, <2>1, <2>2
<1>7. l = r
  BY <1>1, <1>2, <1>5, <1>6, SeqEqual
<1> QED  BY <1>7 DEF l, r

Sibs(v, i) == [j \in 1..i |-> NodeMTH(Sibling(Ancestor(v, j - 1)))]
RightBorder(s, c) == [j \in 1..(Len(s) - c) |-> NodeMTH(s[Len(s) - j + 1])]
LeftBorder(s, c, i) == [j \in 1..(c - i) |-> NodeMTH(s[c - j])]

LEMMA SiblingNode ==
    ASSUME NEW v \in Nat \X Nat, NEW i \in Nat
    PROVE  /\ Sibling(Ancestor(v, i)) \in Nat \X Nat
           /\ Last(Sibling(Ancestor(v, i))) <= Last(Ancestor(v, i + 1))
<1> DEFINE u == Ancestor(v, i)
<1>1. u \in Nat \X Nat /\ Ancestor(v, i + 1) = Parent(u)
  BY AncestorFacts, AncestorNext
<1>2. Halves(u)
  BY <1>1, ParentHalves
<1> HIDE DEF u
<1>3. Sibling(u) \in Nat \X Nat /\ Parent(u) \in Nat \X Nat
  BY <1>2 DEF Halves
<1>4. /\ First(u) \in Nat /\ Last(u) \in Nat /\ First(u) <= Last(u)
      /\ Last(Sibling(u)) \in Nat /\ Last(Parent(u)) \in Nat
  BY <1>1, <1>3, NodeFacts
<1>5. Last(Sibling(u)) <= Last(Parent(u))
  BY <1>2, <1>4 DEF Halves
<1> QED  BY <1>1, <1>3, <1>5 DEF u

(* The parts of the ids of a proof. *)
PathParts(v, n, c) ==
    LET s == RangeNodes(0, n)
        inner == s[c][1] - v[1]
        sib == [i \in 1..inner |-> Sibling(Ancestor(v, i - 1))]
        r == Reversed(SubSeq(s, c + 1, Len(s)))
        l == Reversed(SubSeq(s, 1, c - 1))
        N == Nat \X Nat
    IN  /\ inner \in Nat /\ c \in 1..Len(s) /\ s \in Seq(N)
        /\ <<v>> \in Seq(N) /\ sib \in Seq(N) /\ Len(sib) = inner
        /\ r \in Seq(N) /\ Len(r) = Len(s) - c /\ \A j \in 1..(Len(s) - c) : r[j] = s[Len(s) - j + 1]
        /\ l \in Seq(N) /\ Len(l) = c - 1 /\ \A j \in 1..(c - 1) : l[j] = s[c - j]

LEMMA PathPartsAre ==
    ASSUME NEW n \in Nat, NEW v \in Nat \X Nat, NEW c, Fork(v, n, c)
    PROVE  PathParts(v, n, c)
<1> DEFINE s == RangeNodes(0, n)
           L == Len(s)
           inner == s[c][1] - v[1]
           sib == [i \in 1..inner |-> Sibling(Ancestor(v, i - 1))]
<1>1. s \in Seq(Nat \X Nat) /\ L \in Nat
  BY RangeNodesIsRange DEF IsRange
<1>2. c \in 1..L /\ s[c] \in Nat \X Nat /\ v[1] <= s[c][1]
  BY <1>1 DEF Fork
<1> HIDE DEF s
<1>3. inner \in Nat
  BY <1>2
<1> HIDE DEF inner
<1>4. ASSUME NEW i \in 1..inner PROVE Sibling(Ancestor(v, i - 1)) \in Nat \X Nat
  <2>1. i - 1 \in Nat
    BY <1>3
  <2> QED  BY <2>1, SiblingNode
<1>5. sib \in Seq(Nat \X Nat) /\ Len(sib) = inner /\ <<v>> \in Seq(Nat \X Nat)
  BY <1>3, <1>4
<1> DEFINE after == SubSeq(s, c + 1, L)
           before == SubSeq(s, 1, c - 1)
<1>6. after \in Seq(Nat \X Nat) /\ Len(after) = L - c /\ \A j \in 1..(L - c) : after[j] = s[c + j]
  <2>1. after \in Seq(Nat \X Nat) /\ Len(after) = L - c
    BY SMTT(30), <1>1, <1>2
  <2>2. ASSUME NEW j \in 1..(L - c) PROVE after[j] = s[c + j]
    <3>1. j \in 1..(L - (c + 1) + 1) /\ (c + 1) + j - 1 = c + j
      BY <1>1, <1>2
    <3>2. after[j] = s[(c + 1) + j - 1]
      BY <1>1, <1>2, <3>1
    <3> QED  BY <3>1, <3>2
  <2> QED  BY <2>1, <2>2
<1>7. before \in Seq(Nat \X Nat) /\ Len(before) = c - 1 /\ \A j \in 1..(c - 1) : before[j] = s[j]
  <2>1. before \in Seq(Nat \X Nat) /\ Len(before) = c - 1
    BY SMTT(30), <1>1, <1>2
  <2>2. ASSUME NEW j \in 1..(c - 1) PROVE before[j] = s[j]
    <3>1. j \in 1..((c - 1) - 1 + 1) /\ 1 + j - 1 = j
      BY <1>1, <1>2
    <3>2. before[j] = s[1 + j - 1]
      BY <1>1, <1>2, <3>1
    <3> QED  BY <3>1, <3>2
  <2> QED  BY <2>1, <2>2
<1> HIDE DEF after, before
<1> DEFINE r == Reversed(after)
           l == Reversed(before)
<1>8. /\ r \in Seq(Nat \X Nat) /\ Len(r) = L - c
      /\ \A j \in 1..(L - c) : r[j] = after[(L - c) - j + 1]
  <2>1. /\ r \in Seq(Nat \X Nat) /\ Len(r) = Len(after)
        /\ \A j \in 1..Len(after) : r[j] = after[Len(after) - j + 1]
    BY <1>6, ReversedSeq
  <2> QED  BY <1>6, <2>1
<1>9. /\ l \in Seq(Nat \X Nat) /\ Len(l) = c - 1
      /\ \A j \in 1..(c - 1) : l[j] = before[(c - 1) - j + 1]
  <2>1. /\ l \in Seq(Nat \X Nat) /\ Len(l) = Len(before)
        /\ \A j \in 1..Len(before) : l[j] = before[Len(before) - j + 1]
    BY <1>7, ReversedSeq
  <2> QED  BY <1>7, <2>1
<1> HIDE DEF r, l, sib
<1>10. ASSUME NEW j \in 1..(L - c) PROVE r[j] = s[L - j + 1]
  <2>1. (L - c) - j + 1 \in 1..(L - c) /\ c + ((L - c) - j + 1) = L - j + 1
    BY <1>1, <1>2
  <2> QED  BY <2>1, <1>6, <1>8
<1>11. ASSUME NEW j \in 1..(c - 1) PROVE l[j] = s[c - j]
  <2>1. (c - 1) - j + 1 \in 1..(c - 1) /\ (c - 1) - j + 1 = c - j
    BY <1>1, <1>2
  <2> QED  BY <2>1, <1>7, <1>9
<1> QED  BY <1>1, <1>2, <1>3, <1>5, <1>8, <1>9, <1>10, <1>11, Zenon DEF PathParts, s, inner, r, l, sib, after, before
-----------------------------------------------------------------------------
(* Paths.  P[b][e] is a path to node v in the leaves b to e - 1, for e in  *)
(* E: the path in the half that has v, and then the hash of the other.     *)

PathTo(P, v, E) ==
    \A b \in Nat, e \in E :
        b <= First(v) /\ Last(v) <= e /\ b + Pow2[v[1]] < e =>
            LET m == b + Split(e - b)
            IN  P[b][e] = IF Last(v) <= m THEN Append(P[b][m], MTH(m, e))
                          ELSE Append(P[m][e], MTH(b, m))

LEMMA AppendConcat ==
    ASSUME NEW s \in Seq(TreeHashes), NEW t \in Seq(TreeHashes), NEW h \in TreeHashes
    PROVE  Append(s \o t, h) = s \o Append(t, h)
<1>1. /\ s \o t \in Seq(TreeHashes) /\ Append(t, h) \in Seq(TreeHashes)
      /\ Len(s) \in Nat /\ Len(t) \in Nat
  OBVIOUS
<1>2. Append(s \o t, h) \in Seq(TreeHashes) /\ s \o Append(t, h) \in Seq(TreeHashes)
  BY <1>1
<1>3. Len(Append(s \o t, h)) = Len(s) + Len(t) + 1 /\ Len(s \o Append(t, h)) = Len(s) + Len(t) + 1
  BY <1>1
<1>4. ASSUME NEW i \in 1..(Len(s) + Len(t) + 1) PROVE Append(s \o t, h)[i] = (s \o Append(t, h))[i]
  BY <1>1
<1> QED  BY <1>2, <1>3, <1>4, SeqEqual

LEMMA SplitAt ==
    ASSUME NEW P, NEW v \in Nat \X Nat, NEW E, PathTo(P, v, E)
    PROVE  \A b \in Nat, e \in Nat, k \in Nat :
              e \in E /\ b + Pow2[k] < e /\ e <= b + 2 * Pow2[k] /\ b <= First(v) /\ Last(v) <= e /\ v[1] <= k =>
                  P[b][e] = IF Last(v) <= b + Pow2[k] THEN Append(P[b][b + Pow2[k]], MTH(b + Pow2[k], e))
                            ELSE Append(P[b + Pow2[k]][e], MTH(b, b + Pow2[k]))
<1>1. SUFFICES ASSUME NEW b \in Nat, NEW e \in Nat, NEW k \in Nat, e \in E, b + Pow2[k] < e,
                      e <= b + 2 * Pow2[k], b <= First(v), Last(v) <= e, v[1] <= k
               PROVE  P[b][e] = IF Last(v) <= b + Pow2[k]
                                THEN Append(P[b][b + Pow2[k]], MTH(b + Pow2[k], e))
                                ELSE Append(P[b + Pow2[k]][e], MTH(b, b + Pow2[k]))
  OBVIOUS
<1>2. Pow2[k] \in Nat /\ Pow2[v[1]] \in Nat /\ Pow2[v[1]] <= Pow2[k]
  BY <1>1, PowNat, PowAligned
<1>3. e - b \in Nat /\ Pow2[k] < e - b /\ e - b <= 2 * Pow2[k]
  BY <1>1, <1>2
<1>4. Split(e - b) = Pow2[k]
  BY <1>3, SplitIs
<1>5. b + Pow2[v[1]] < e
  BY <1>1, <1>2
<1> QED  BY <1>1, <1>4, <1>5 DEF PathTo

(* Within a perfect node. *)
LEMMA PathUp ==
    ASSUME NEW P, NEW v \in Nat \X Nat, NEW E, PathTo(P, v, E),
           P[First(v)][Last(v)] \in Seq(TreeHashes),
           NEW i \in Nat, \A j \in 1..i : Last(Ancestor(v, j)) \in E
    PROVE  LET u == Ancestor(v, i)
           IN  P[First(u)][Last(u)] = P[First(v)][Last(v)] \o Sibs(v, i) /\ Sibs(v, i) \in Seq(TreeHashes)
<1> DEFINE base == P[First(v)][Last(v)]
           At(u) == P[First(u)][Last(u)]
           Good(k) == At(Ancestor(v, k)) = base \o Sibs(v, k) /\ Sibs(v, k) \in Seq(TreeHashes)
           S == {k \in Nat : k <= i => Good(k)}
<1>1. 0 \in S
  <2>1. Ancestor(v, 0) = v
    BY AncestorZero
  <2>2. Sibs(v, 0) = <<>> /\ Sibs(v, 0) \in Seq(TreeHashes)
    BY DEF Sibs
  <2>3. base \o <<>> = base
    OBVIOUS
  <2> HIDE DEF base
  <2>4. At(v) = base
    BY DEF base
  <2> HIDE DEF At
  <2>5. Good(0)
    BY <2>1, <2>2, <2>3, <2>4
  <2> QED  BY <2>5
<1>2. ASSUME NEW k \in Nat, k \in S PROVE k + 1 \in S
  <2>0. SUFFICES ASSUME k + 1 <= i PROVE Good(k + 1)
    <3> HIDE DEF Good
    <3> QED  OBVIOUS
  <2> DEFINE u == Ancestor(v, k)
             w == Sibling(u)
             a == Ancestor(v, k + 1)
             p == Pow2[u[1]]
             m == First(a) + p
  <2>1. Good(k)
    BY <1>2, <2>0
  <2>2. u \in Nat \X Nat /\ u[1] = v[1] + k /\ First(u) <= First(v) /\ Last(v) <= Last(u)
    BY AncestorFacts
  <2>3. a = Parent(u) /\ Halves(u)
    BY <2>2, AncestorNext, ParentHalves
  <2>4. a \in Nat \X Nat /\ First(a) <= First(v) /\ Last(v) <= Last(a)
    BY AncestorFacts
  <2>5. w \in Nat \X Nat
    BY <2>3 DEF Halves
  <2>6. Last(a) \in E
    BY <2>0
  <2> HIDE DEF u, w, a
  <2>7. /\ u[1] \in Nat /\ v[1] <= u[1] /\ p \in Nat /\ p > 0
        /\ First(u) \in Nat /\ Last(u) = First(u) + p
        /\ First(a) \in Nat /\ Last(a) \in Nat /\ Last(a) = First(a) + 2 * p
        /\ First(v) \in Nat /\ Last(v) \in Nat /\ First(v) < Last(v)
        /\ First(w) \in Nat /\ Last(w) \in Nat
    <3>1. ASSUME NEW x \in Nat \X Nat
          PROVE  /\ First(x) \in Nat /\ Last(x) \in Nat /\ First(x) < Last(x) /\ x[1] \in Nat
                 /\ Last(x) = First(x) + Pow2[x[1]] /\ Pow2[x[1]] \in Nat /\ Pow2[x[1]] > 0
      BY NodeFacts
    <3>2. Last(a) = First(a) + 2 * p
      BY <2>3 DEF Halves, a
    <3>3. v[1] <= u[1]
      BY <2>2, <3>1
    <3> QED  BY <2>2, <2>4, <2>5, <3>1, <3>2, <3>3
  <2>8. At(a) = IF Last(v) <= m THEN Append(P[First(a)][m], MTH(m, Last(a)))
                ELSE Append(P[m][Last(a)], MTH(First(a), m))
    <3>1. First(a) + p < Last(a) /\ Last(a) <= First(a) + 2 * p
      <4> HIDE DEF p
      <4> QED  BY SMTT(30), <2>7
    <3>2. First(a) \in Nat /\ Last(a) \in Nat /\ u[1] \in Nat /\ v[1] <= u[1] /\ First(a) <= First(v) /\ Last(v) <= Last(a)
      BY <2>4, <2>7
    <3> DEFINE b == First(a)
               e == Last(a)
               k1 == u[1]
    <3> HIDE DEF b, e, k1
    <3>3. b \in Nat /\ e \in Nat /\ e \in E /\ k1 \in Nat /\ b + Pow2[k1] < e /\ e <= b + 2 * Pow2[k1]
          /\ b <= First(v) /\ Last(v) <= e /\ v[1] <= k1
      BY <2>6, <3>1, <3>2 DEF b, e, k1
    <3>4. P[b][e] = IF Last(v) <= b + Pow2[k1] THEN Append(P[b][b + Pow2[k1]], MTH(b + Pow2[k1], e))
                    ELSE Append(P[b + Pow2[k1]][e], MTH(b, b + Pow2[k1]))
      BY <3>3, SplitAt
    <3> QED  BY <3>4 DEF b, e, k1
  <2> HIDE DEF p
  <2>9. At(a) = Append(At(u), NodeMTH(w))
    <3>1. CASE First(a) = First(u) /\ First(w) = Last(u) /\ Last(w) = Last(a)
      <4>1. m = Last(u) /\ Last(v) <= m
        BY <2>2, <2>7, <3>1
      <4> QED  BY <2>8, <3>1, <4>1 DEF NodeMTH
    <3>2. CASE First(a) = First(w) /\ Last(w) = First(u) /\ Last(u) = Last(a)
      <4>1. m = First(u) /\ ~ (Last(v) <= m)
        <5>1. /\ First(u) \in Nat /\ First(a) \in Nat /\ p \in Nat /\ First(v) \in Nat /\ Last(v) \in Nat
              /\ First(u) + p = First(a) + 2 * p /\ First(u) <= First(v) /\ First(v) < Last(v)
          BY <2>2, <2>7, <3>2
        <5> QED  BY SMTT(30), <5>1
      <4> QED  BY <2>8, <3>2, <4>1 DEF NodeMTH
    <3> QED  BY <2>3, <3>1, <3>2 DEF Halves, w
  <2>10. NodeMTH(w) \in TreeHashes
    BY <2>5, NodeMTHIn
  <2>11. Sibs(v, k + 1) = Append(Sibs(v, k), NodeMTH(w)) /\ Sibs(v, k + 1) \in Seq(TreeHashes)
    <3> DEFINE x == Sibs(v, k)
               y == Append(x, NodeMTH(w))
    <3>1. x \in Seq(TreeHashes) /\ Len(x) = k /\ \A j \in 1..k : x[j] = NodeMTH(Sibling(Ancestor(v, j - 1)))
      BY <2>1 DEF Sibs
    <3> HIDE DEF x
    <3>2. y \in Seq(TreeHashes) /\ Len(y) = k + 1 /\ y[k + 1] = NodeMTH(w) /\ \A j \in 1..k : y[j] = x[j]
      BY <2>10, <3>1
    <3> HIDE DEF y
    <3>3. ASSUME NEW j \in 1..(k + 1) PROVE y[j] = NodeMTH(Sibling(Ancestor(v, j - 1)))
      <4>1. CASE j = k + 1
        <5>1. j - 1 = k
          BY <4>1
        <5> QED  BY <3>2, <4>1, <5>1 DEF w, u
      <4>2. CASE j # k + 1
        <5>1. j \in 1..k
          BY <4>2
        <5> QED  BY <3>1, <3>2, <5>1
      <4> QED  BY <4>1, <4>2
    <3>4. y = [j \in 1..(k + 1) |-> NodeMTH(Sibling(Ancestor(v, j - 1)))]
      BY <3>2, <3>3
    <3>5. Sibs(v, k + 1) = y
      BY <3>4, Zenon DEF Sibs
    <3> QED  BY <3>2, <3>5, Zenon DEF x, y
  <2>12. Append(base \o Sibs(v, k), NodeMTH(w)) = base \o Append(Sibs(v, k), NodeMTH(w))
    <3> HIDE DEF base
    <3>1. base \in Seq(TreeHashes)
      BY DEF base
    <3>2. Sibs(v, k) \in Seq(TreeHashes)
      BY <2>1
    <3> QED  BY <2>10, <3>1, <3>2, AppendConcat
  <2> HIDE DEF base, At
  <2>13. At(a) = base \o Sibs(v, k + 1)
    BY <2>1, <2>9, <2>11, <2>12 DEF u
  <2> QED  BY <2>11, <2>13 DEF a
<1> HIDE DEF S
<1>3. i \in S
  BY <1>1, <1>2, Induction
<1> QED  BY <1>3 DEF S

(* The hash of what is right of the fork. *)
Beyond(n, c) ==
    LET s == RangeNodes(0, n)
    IN  IF c = Len(s) THEN <<>> ELSE <<MTH(Last(s[c]), n)>>

RightPath(P, n, c) ==
    LET u == RangeNodes(0, n)[c]
    IN  /\ c = Len(RangeNodes(0, n)) => Last(u) = n
        /\ c # Len(RangeNodes(0, n)) => P[First(u)][n] = Append(P[First(u)][Last(u)], MTH(Last(u), n))

LEMMA PathRight ==
    ASSUME NEW n \in Nat, NEW v \in Nat \X Nat, NEW c, Fork(v, n, c),
           NEW P, NEW E, PathTo(P, v, E), n \in E
    PROVE  RightPath(P, n, c)
<1> DEFINE s == RangeNodes(0, n)
           u == s[c]
           b == First(u)
           k == u[1]
<1>1. IsRange(s, n)
  BY RangeNodesIsRange
<1>2. c \in 1..Len(s) /\ u \in Nat \X Nat /\ s # <<>>
  BY <1>1 DEF Fork, IsRange
<1>3. v[1] <= k /\ b <= First(v) /\ Last(v) <= Last(u)
  BY DEF Fork
<1>4. c = Len(s) => Last(u) = n
  BY <1>1, <1>2 DEF IsRange
<1>5. c # Len(s) => Last(u) < n
  BY <1>1, <1>2, RangeTail
<1>6. n < b + 2 * Pow2[k]
  BY <1>1, <1>2, RangeTail
<1>7. /\ b \in Nat /\ k \in Nat /\ Last(u) \in Nat /\ Pow2[k] \in Nat /\ Last(u) = b + Pow2[k]
      /\ Last(v) \in Nat
  BY <1>2, NodeFacts
<1> HIDE DEF s, u, b, k
<1>8. ASSUME c # Len(s) PROVE P[b][n] = Append(P[b][Last(u)], MTH(Last(u), n))
  <2>1. b + Pow2[k] < n /\ n <= b + 2 * Pow2[k] /\ Last(v) <= n /\ Last(v) <= b + Pow2[k]
    BY <1>3, <1>5, <1>6, <1>7, <1>8
  <2>3. b \in Nat /\ n \in Nat /\ k \in Nat /\ n \in E /\ b + Pow2[k] < n /\ n <= b + 2 * Pow2[k]
        /\ b <= First(v) /\ Last(v) <= n /\ v[1] <= k
    BY <1>3, <1>7, <2>1
  <2>4. P[b][n] = IF Last(v) <= b + Pow2[k] THEN Append(P[b][b + Pow2[k]], MTH(b + Pow2[k], n))
                  ELSE Append(P[b + Pow2[k]][n], MTH(b, b + Pow2[k]))
    BY <2>3, SplitAt
  <2>2. P[b][n] = Append(P[b][b + Pow2[k]], MTH(b + Pow2[k], n))
    BY <2>1, <2>4
  <2> QED  BY <1>7, <2>2
<1> QED  BY <1>4, <1>8, Zenon DEF s, u, b, RightPath

LEMMA PathLeft ==
    ASSUME NEW n \in Nat, NEW v \in Nat \X Nat, NEW c, Fork(v, n, c),
           NEW P, NEW E, PathTo(P, v, E), n \in E,
           NEW Y \in Seq(TreeHashes), P[First(RangeNodes(0, n)[c])][n] = Y
    PROVE  LET s == RangeNodes(0, n)
           IN  P[0][n] = Y \o LeftBorder(s, c, 1) /\ LeftBorder(s, c, 1) \in Seq(TreeHashes)
<1> DEFINE s == RangeNodes(0, n)
           Good(i) == /\ P[First(s[i])][n] = Y \o LeftBorder(s, c, i)
                      /\ LeftBorder(s, c, i) \in Seq(TreeHashes)
                      /\ First(s[i]) <= First(v) /\ v[1] <= s[i][1]
           S == {d \in Nat : d < c => Good(c - d)}
<1>1. IsRange(s, n)
  BY RangeNodesIsRange
<1>2. /\ c \in 1..Len(s) /\ s \in Seq(Nat \X Nat) /\ Len(s) \in Nat /\ First(s[1]) = 0
      /\ \A i \in 1..(Len(s) - 1) : s[i + 1][1] < s[i][1] /\ First(s[i + 1]) = Last(s[i])
  BY <1>1 DEF Fork, IsRange
<1>3. v[1] <= s[c][1] /\ First(s[c]) <= First(v) /\ Last(v) <= Last(s[c]) /\ P[First(s[c])][n] = Y
  BY DEF Fork
<1>4. /\ First(v) \in Nat /\ Last(v) \in Nat /\ First(v) < Last(v) /\ v[1] \in Nat
      /\ s[c] \in Nat \X Nat /\ Last(s[c]) \in Nat
  <2>1. s[c] \in Nat \X Nat
    BY <1>2
  <2> QED  BY SMTT(30), <2>1, NodeFacts
<1>5. Last(v) <= n
  <2>1. Last(s[c]) <= n
    BY <1>1, <1>2, RangeTail
  <2> QED  BY <1>3, <1>4, <2>1
<1> HIDE DEF s
<1>6. 0 \in S
  <2>1. LeftBorder(s, c, c) = <<>>
    BY <1>2 DEF LeftBorder
  <2>2. Y \o <<>> = Y /\ <<>> \in Seq(TreeHashes)
    OBVIOUS
  <2>3. Good(c)
    BY <1>3, <2>1, <2>2
  <2>4. c - 0 = c
    BY <1>2
  <2> HIDE DEF Good
  <2> QED  BY <2>3, <2>4
<1>7. ASSUME NEW d \in Nat, d \in S PROVE d + 1 \in S
  <2>0. SUFFICES ASSUME d + 1 < c PROVE Good(c - (d + 1))
    <3> HIDE DEF Good
    <3> QED  OBVIOUS
  <2> DEFINE i == c - (d + 1)
             w == s[i]
             b == First(w)
             k == w[1]
             x == LeftBorder(s, c, i + 1)
             h == NodeMTH(w)
  <2>1. i \in Nat /\ i + 1 = c - d /\ i \in 1..(Len(s) - 1) /\ i \in 1..Len(s) /\ i # Len(s)
        /\ i + 1 \in 1..Len(s) /\ c - i = (c - (i + 1)) + 1
        /\ c - (i + 1) \in Nat
    BY SMTT(30), <1>2, <2>0
  <2>2. Good(i + 1)
    <3> HIDE DEF Good
    <3> QED  BY <1>2, <1>7, <2>0, <2>1
  <2> HIDE DEF i
  <2>3. w \in Nat \X Nat /\ s[i + 1][1] < k /\ First(s[i + 1]) = Last(w) /\ s[i + 1] \in Nat \X Nat
    <3>1. s[i] \in Nat \X Nat /\ s[i + 1] \in Nat \X Nat
      <4>1. \A j \in 1..Len(s) : s[j] \in Nat \X Nat
        BY <1>2
      <4> QED  BY <2>1, <4>1
    <3>2. s[i + 1][1] < s[i][1] /\ First(s[i + 1]) = Last(s[i])
      BY <1>2, <2>1
    <3> QED  BY <3>1, <3>2
  <2>4. Last(w) < n /\ n < b + 2 * Pow2[k]
    BY <1>1, <2>1, RangeTail
  <2>5. /\ b \in Nat /\ k \in Nat /\ Pow2[k] \in Nat /\ Last(w) \in Nat /\ Last(w) = b + Pow2[k]
        /\ s[i + 1][1] \in Nat
    BY <2>3, NodeFacts
  <2>6. /\ P[Last(w)][n] = Y \o x /\ x \in Seq(TreeHashes)
        /\ Last(w) <= First(v) /\ v[1] <= s[i + 1][1]
    BY <2>2, <2>3
  <2> HIDE DEF w, b, k, x
  <2>7. v[1] <= k /\ b <= First(v) /\ b + Pow2[k] < n /\ n <= b + 2 * Pow2[k] /\ ~ (Last(v) <= b + Pow2[k])
    <3>1. s[i + 1][1] < k
      BY <2>3
    <3>2. v[1] <= k
      BY SMTT(30), <1>4, <2>5, <2>6, <3>1
    <3>3. ASSUME NEW f \in Nat, NEW l \in Nat, f < l, NEW p \in Nat, NEW z \in Nat, z = b + p,
                 z <= f, z < n, n < b + 2 * p
          PROVE  b <= f /\ b + p < n /\ n <= b + 2 * p /\ ~ (l <= b + p)
      BY <2>5, <3>3
    <3> QED  BY <1>4, <2>4, <2>5, <2>6, <3>2, <3>3
  <2>14. b \in Nat /\ n \in Nat /\ k \in Nat /\ n \in E /\ b + Pow2[k] < n /\ n <= b + 2 * Pow2[k]
        /\ b <= First(v) /\ Last(v) <= n /\ v[1] <= k
    BY <1>5, <2>5, <2>7
  <2>15. P[b][n] = IF Last(v) <= b + Pow2[k] THEN Append(P[b][b + Pow2[k]], MTH(b + Pow2[k], n))
                  ELSE Append(P[b + Pow2[k]][n], MTH(b, b + Pow2[k]))
    BY <2>14, SplitAt
  <2>8. P[b][n] = Append(P[b + Pow2[k]][n], MTH(b, b + Pow2[k]))
    BY <2>7, <2>15
  <2>9. P[b][n] = Append(Y \o x, h) /\ h \in TreeHashes
    <3>1. h \in TreeHashes
      BY <2>3, NodeMTHIn DEF h
    <3> QED  BY <2>5, <2>6, <2>8, <3>1 DEF NodeMTH, b
  <2>10. LeftBorder(s, c, i) = Append(x, h) /\ Append(x, h) \in Seq(TreeHashes)
    <3> DEFINE l == c - (i + 1)
    <3>1. x \in Seq(TreeHashes) /\ Len(x) = l /\ l \in Nat /\ \A j \in 1..l : x[j] = NodeMTH(s[c - j])
      BY <2>1, <2>6 DEF LeftBorder, x
    <3> HIDE DEF h
    <3> DEFINE y == Append(x, h)
    <3>2. y \in Seq(TreeHashes) /\ Len(y) = l + 1 /\ y[l + 1] = h /\ \A j \in 1..l : y[j] = x[j]
      BY <2>9, <3>1
    <3>3. c - i = l + 1 /\ c - (l + 1) = i
      BY <1>2, <2>1
    <3> HIDE DEF y, l
    <3>4. ASSUME NEW j \in 1..(l + 1) PROVE y[j] = NodeMTH(s[c - j])
      <4>1. CASE j = l + 1
        BY <3>2, <3>3, <4>1 DEF h, w
      <4>2. CASE j # l + 1
        <5>1. j \in 1..l
          BY <3>1, <4>2
        <5> QED  BY <3>1, <3>2, <5>1
      <4> QED  BY <4>1, <4>2
    <3>5. y = [j \in 1..(l + 1) |-> NodeMTH(s[c - j])]
      BY <3>2, <3>4
    <3> QED  BY <3>2, <3>3, <3>5 DEF LeftBorder, y
  <2> HIDE DEF h
  <2>11. Append(Y \o x, h) = Y \o Append(x, h)
    BY <2>6, <2>9, AppendConcat
  <2>12. P[First(s[i])][n] = Y \o LeftBorder(s, c, i)
    BY <2>9, <2>10, <2>11 DEF b, w
  <2>13. First(s[i]) <= First(v) /\ v[1] <= s[i][1]
    BY <2>7 DEF b, k, w
  <2> QED  BY <2>10, <2>12, <2>13 DEF i
<1> HIDE DEF S
<1>8. c - 1 \in S
  <2>1. c - 1 \in Nat
    BY <1>2
  <2> QED  BY <1>6, <1>7, <2>1, Induction
<1>9. Good(1)
  <2>1. c - 1 < c /\ c - (c - 1) = 1
    BY <1>2
  <2> HIDE DEF Good
  <2> QED  BY <1>8, <2>1 DEF S
<1> QED  BY <1>2, <1>9 DEF s

LEMMA ConcatEmpty == ASSUME NEW s \in Seq(TreeHashes) PROVE s \o <<>> = s
OBVIOUS

LEMMA ConcatOne ==
    ASSUME NEW s \in Seq(TreeHashes), NEW h \in TreeHashes
    PROVE  Append(s, h) = s \o <<h>> /\ Append(s, h) \in Seq(TreeHashes)
OBVIOUS

LEMMA ConcatIn ==
    ASSUME NEW s \in Seq(TreeHashes), NEW t \in Seq(TreeHashes)
    PROVE  s \o t \in Seq(TreeHashes) /\ Len(s \o t) = Len(s) + Len(t)
OBVIOUS

WholePath(P, n, v, c) ==
    LET s == RangeNodes(0, n)
        inner == s[c][1] - v[1]
    IN  /\ P[0][n] = P[First(v)][Last(v)] \o Sibs(v, inner) \o Beyond(n, c) \o LeftBorder(s, c, 1)
        /\ Sibs(v, inner) \in Seq(TreeHashes) /\ Beyond(n, c) \in Seq(TreeHashes)
        /\ LeftBorder(s, c, 1) \in Seq(TreeHashes)

(* The whole path to node v of a tree of n leaves. *)
LEMMA PathIs ==
    ASSUME NEW n \in Nat, NEW v \in Nat \X Nat, NEW c, Fork(v, n, c),
           NEW P, NEW E, PathTo(P, v, E), n \in E,
           \A j \in 1..(RangeNodes(0, n)[c][1] - v[1]) : Last(Ancestor(v, j)) \in E,
           P[First(v)][Last(v)] \in Seq(TreeHashes)
    PROVE  WholePath(P, n, v, c)
<1> DEFINE s == RangeNodes(0, n)
           u == s[c]
           inner == u[1] - v[1]
           base == P[First(v)][Last(v)]
           X == P[First(u)][Last(u)]
           Y == P[First(u)][n]
<1>1. c \in 1..Len(s) /\ u \in Nat \X Nat /\ v[1] <= u[1] /\ u = Ancestor(v, inner)
  <2>1. c \in 1..Len(s) /\ v[1] <= u[1] /\ u = Ancestor(v, inner)
    BY DEF Fork
  <2>2. u \in Nat \X Nat
    BY <2>1, RangeNodesIsRange, RangeIn
  <2> QED  BY <2>1, <2>2
<1>2. inner \in Nat /\ Last(u) \in Nat
  BY <1>1, NodeFacts
<1>3. X = base \o Sibs(v, inner) /\ Sibs(v, inner) \in Seq(TreeHashes)
  <2> DEFINE i == inner
  <2>1. i \in Nat /\ \A j \in 1..i : Last(Ancestor(v, j)) \in E
    BY <1>2
  <2> HIDE DEF i, s
  <2>2. P[First(Ancestor(v, i))][Last(Ancestor(v, i))] = P[First(v)][Last(v)] \o Sibs(v, i)
        /\ Sibs(v, i) \in Seq(TreeHashes)
    BY <2>1, PathUp
  <2> QED  BY <1>1, <2>2 DEF i
<1>4. /\ c = Len(s) => Last(u) = n
      /\ c # Len(s) => Y = Append(X, MTH(Last(u), n))
  <2>1. RightPath(P, n, c)
    BY PathRight
  <2> QED  BY <2>1, Zenon DEF RightPath
<1>5. base \in Seq(TreeHashes) /\ MTH(Last(u), n) \in TreeHashes
  BY <1>2 DEF TreeHashes
<1> HIDE DEF base, X, u
<1>6. X \in Seq(TreeHashes)
  <2> HIDE DEF inner
  <2> QED  BY <1>3, <1>5, ConcatIn
<1>7. Y = X \o Beyond(n, c) /\ Beyond(n, c) \in Seq(TreeHashes)
  <2>1. CASE c = Len(s)
    <3>1. Y = X /\ Beyond(n, c) = <<>>
      BY <1>4, <2>1 DEF X, Beyond
    <3>2. X \o <<>> = X
      BY <1>6, ConcatEmpty
    <3> QED  BY <3>1, <3>2
  <2>2. CASE c # Len(s)
    <3>1. Beyond(n, c) = <<MTH(Last(u), n)>>
      BY <2>2 DEF Beyond, u
    <3> DEFINE h == MTH(Last(u), n)
    <3>2. h \in TreeHashes /\ Y = Append(X, h)
      BY <1>4, <1>5, <2>2
    <3> HIDE DEF h
    <3>3. Append(X, h) = X \o <<h>>
      BY <1>6, <3>2, ConcatOne
    <3>4. <<h>> \in Seq(TreeHashes)
      BY <3>2
    <3> QED  BY <3>1, <3>2, <3>3, <3>4 DEF h
  <2> QED  BY <2>1, <2>2
<1>8. Y \in Seq(TreeHashes)
  <2> DEFINE z == Beyond(n, c)
  <2> HIDE DEF z, Y
  <2>1. z \in Seq(TreeHashes) /\ Y = X \o z
    BY <1>7 DEF z
  <2> QED  BY <1>6, <2>1, ConcatIn
<1>9. P[0][n] = Y \o LeftBorder(s, c, 1) /\ LeftBorder(s, c, 1) \in Seq(TreeHashes)
  BY <1>8, PathLeft DEF u
<1> QED  BY <1>3, <1>7, <1>9 DEF base, u, WholePath
-----------------------------------------------------------------------------
(* Rehash. *)

FoldStep(f, i, p, hs) == IF i = p.begin + 1 THEN hs[i] ELSE HashChildren(hs[i], f[i - 1])

IsFold(f, p, hs) == f = [i \in (p.begin + 1)..p.end |-> FoldStep(f, i, p, hs)]

LEMMA RehashDef ==
    ASSUME NEW p, NEW hs, NEW g, IsFold(g, p, hs)
    PROVE  \E f : IsFold(f, p, hs) /\ Rehash(p, hs) =
               IF p.begin >= p.end THEN hs
               ELSE SubSeq(hs, 1, p.begin) \o <<f[p.end]>> \o SubSeq(hs, p.end + 1, Len(hs))
<1> DEFINE c == CHOOSE f : IsFold(f, p, hs)
<1>1. IsFold(c, p, hs)
  BY Zenon
<1>2. Rehash(p, hs) = IF p.begin >= p.end THEN hs
                      ELSE SubSeq(hs, 1, p.begin) \o <<c[p.end]>> \o SubSeq(hs, p.end + 1, Len(hs))
  BY DEF Rehash, IsFold, FoldStep
<1> HIDE DEF c
<1> QED  BY <1>1, <1>2, Zenon

Parts(hs, A, B, C) ==
    /\ hs \in Seq(TreeHashes) /\ Len(hs) = Len(A) + Len(B) + Len(C)
    /\ \A j \in 1..Len(B) : hs[Len(A) + j] = B[j]
    /\ SubSeq(hs, 1, Len(A)) = A
    /\ SubSeq(hs, Len(A) + Len(B) + 1, Len(hs)) = C

LEMMA ThreeParts ==
    ASSUME NEW A \in Seq(TreeHashes), NEW B \in Seq(TreeHashes), NEW C \in Seq(TreeHashes)
    PROVE  Parts(A \o B \o C, A, B, C)
<1> DEFINE D == A \o B
           hs == D \o C
           l == Len(A)
           m == Len(B)
           n == Len(C)
<1>1. l \in Nat /\ m \in Nat /\ n \in Nat
  OBVIOUS
<1>2. /\ D \in Seq(TreeHashes) /\ Len(D) = l + m
      /\ \A i \in 1..l : D[i] = A[i]
      /\ \A i \in 1..m : D[l + i] = B[i]
  BY ConcatFacts
<1> HIDE DEF D, l, m, n
<1>3. /\ hs \in Seq(TreeHashes) /\ Len(hs) = l + m + n
      /\ \A i \in 1..(l + m) : hs[i] = D[i]
      /\ \A i \in 1..n : hs[l + m + i] = C[i]
  <2>1. /\ hs \in Seq(TreeHashes) /\ Len(hs) = Len(D) + n
        /\ \A i \in 1..Len(D) : hs[i] = D[i]
        /\ \A i \in 1..n : hs[Len(D) + i] = C[i]
    <3>1. D \in Seq(TreeHashes) /\ C \in Seq(TreeHashes)
      BY <1>2
    <3>2. hs \in Seq(TreeHashes) /\ Len(hs) = Len(D) + n
      BY <3>1 DEF n
    <3>3. ASSUME NEW i \in 1..Len(D) PROVE hs[i] = D[i]
      BY <3>1
    <3>4. ASSUME NEW i \in 1..n PROVE hs[Len(D) + i] = C[i]
      BY <3>1 DEF n
    <3> QED  BY <3>2, <3>3, <3>4
  <2> QED  BY <1>2, <2>1
<1> HIDE DEF hs
<1>4. ASSUME NEW j \in 1..m PROVE hs[l + j] = B[j]
  <2>1. l + j \in 1..(l + m)
    BY <1>1
  <2> QED  BY <1>2, <1>3, <2>1
<1>5. SubSeq(hs, 1, l) = A
  <2> DEFINE a == SubSeq(hs, 1, l)
  <2>1. a \in Seq(TreeHashes) /\ Len(a) = l
    BY <1>1, <1>3
  <2>2. ASSUME NEW i \in 1..l PROVE a[i] = A[i]
    <3>1. i \in 1..(l - 1 + 1) /\ 1 + i - 1 = i /\ i \in 1..(l + m)
      BY <1>1
    <3>2. a[i] = hs[1 + i - 1]
      BY <1>1, <1>3, <3>1
    <3> QED  BY <1>2, <1>3, <3>1, <3>2
  <2> HIDE DEF a
  <2>3. a = A
    BY <2>1, <2>2, SeqEqual DEF l
  <2> QED  BY <2>3 DEF a
<1>6. SubSeq(hs, l + m + 1, Len(hs)) = C
  <2> DEFINE a == SubSeq(hs, l + m + 1, l + m + n)
  <2>1. a \in Seq(TreeHashes) /\ Len(a) = n
    BY <1>1, <1>3
  <2>2. ASSUME NEW i \in 1..n PROVE a[i] = C[i]
    <3> DEFINE k == l + m
    <3>1. k \in Nat
      BY <1>1
    <3> HIDE DEF k
    <3>2. i \in 1..((k + n) - (k + 1) + 1) /\ (k + 1) + i - 1 = k + i /\ Len(hs) = k + n
      BY <1>1, <1>3, <3>1 DEF k
    <3>3. SubSeq(hs, k + 1, k + n)[i] = hs[(k + 1) + i - 1]
      BY <1>1, <1>3, <3>1, <3>2
    <3> QED  BY <1>3, <3>2, <3>3 DEF k
  <2> HIDE DEF a
  <2>3. a = C
    BY <2>1, <2>2, SeqEqual DEF n
  <2> QED  BY <1>3, <2>3 DEF a
<1> QED  BY <1>3, <1>4, <1>5, <1>6 DEF Parts, hs, D, l, m, n

Folds(w, B) == \A j \in 1..Len(B) : w[j] = IF j = 1 THEN B[j] ELSE HashChildren(B[j], w[j - 1])

Cuts(p, begin, end_) == p.begin = begin /\ p.end = end_

Rehashed(p, A, B, C, w) ==
    Rehash(p, A \o B \o C) = IF B = <<>> THEN A \o B \o C ELSE A \o <<w[Len(B)]>> \o C

LEMMA RehashIs ==
    ASSUME NEW A \in Seq(TreeHashes), NEW B \in Seq(TreeHashes), NEW C \in Seq(TreeHashes),
           NEW p, Cuts(p, Len(A), Len(A) + Len(B)),
           NEW w, Folds(w, B)
    PROVE  Rehashed(p, A, B, C, w)
<1> DEFINE hs == A \o B \o C
           l == Len(A)
           m == Len(B)
           g == [i \in (l + 1)..(l + m) |-> w[i - l]]
<1>1. l \in Nat /\ m \in Nat
  OBVIOUS
<1>2. /\ \A j \in 1..m : hs[l + j] = B[j]
      /\ SubSeq(hs, 1, l) = A /\ SubSeq(hs, l + m + 1, Len(hs)) = C
  <2>1. Parts(hs, A, B, C)
    BY ThreeParts
  <2> QED  BY <2>1 DEF Parts
<1>3. B = <<>> <=> m = 0
  OBVIOUS
<1>4. \A j \in 1..m : w[j] = IF j = 1 THEN B[j] ELSE HashChildren(B[j], w[j - 1])
  BY DEF Folds
<1>5. p.begin = l /\ p.end = l + m
  BY DEF Cuts
<1> HIDE DEF hs, l, m
<1>6. IsFold(g, p, hs)
  <2>1. ASSUME NEW i \in (l + 1)..(l + m) PROVE g[i] = FoldStep(g, i, p, hs)
    <3>1. i - l \in 1..m /\ l + (i - l) = i /\ (i - l = 1 <=> i = l + 1)
      BY <1>1
    <3>2. hs[i] = B[i - l]
      BY <1>2, <3>1
    <3>3. CASE i = l + 1
      BY <1>4, <1>5, <3>1, <3>2, <3>3 DEF FoldStep
    <3>4. CASE i # l + 1
      <4>1. i - 1 \in (l + 1)..(l + m) /\ (i - 1) - l = (i - l) - 1
        BY <1>1, <3>4
      <4>2. g[i - 1] = w[(i - l) - 1]
        BY <4>1
      <4> QED  BY <1>4, <1>5, <3>1, <3>2, <3>4, <4>2 DEF FoldStep
    <3> QED  BY <3>3, <3>4
  <2> QED  BY <1>5, <2>1 DEF IsFold
<1>7. PICK f : IsFold(f, p, hs) /\ Rehash(p, hs) =
                  IF p.begin >= p.end THEN hs
                  ELSE SubSeq(hs, 1, p.begin) \o <<f[p.end]>> \o SubSeq(hs, p.end + 1, Len(hs))
  <2> HIDE DEF g
  <2> QED  BY <1>6, RehashDef
<1>8. ASSUME NEW j \in Nat, j \in 1..m PROVE f[l + j] = w[j]
  <2> DEFINE S == {d \in Nat : d \in 1..m => f[l + d] = w[d]}
  <2>1. 0 \in S
    OBVIOUS
  <2>2. ASSUME NEW d \in Nat, d \in S PROVE d + 1 \in S
    <3>1. SUFFICES ASSUME d + 1 \in 1..m PROVE f[l + (d + 1)] = w[d + 1]
      OBVIOUS
    <3> DEFINE i == l + (d + 1)
    <3>2. i \in (l + 1)..(l + m) /\ (i = l + 1 <=> d + 1 = 1) /\ i - 1 = l + d /\ (d + 1) - 1 = d
      BY <1>1, <3>1
    <3>3. hs[i] = B[d + 1]
      BY <1>2, <3>1
    <3> HIDE DEF i
    <3>4. f[i] = IF i = l + 1 THEN hs[i] ELSE HashChildren(hs[i], f[i - 1])
      BY <1>5, <1>7, <3>2 DEF IsFold, FoldStep
    <3>5. w[d + 1] = IF d + 1 = 1 THEN B[d + 1] ELSE HashChildren(B[d + 1], w[d])
      BY <1>4, <3>1, <3>2
    <3>6. d # 0 => f[l + d] = w[d]
      BY <1>1, <2>2, <3>1
    <3>7. d + 1 # 1 => d # 0
      OBVIOUS
    <3> QED  BY <3>2, <3>3, <3>4, <3>5, <3>6, <3>7 DEF i
  <2> HIDE DEF S
  <2>3. j \in S
    BY <1>8, <2>1, <2>2, Induction
  <2> QED  BY <1>8, <2>3 DEF S
<1>9. CASE m = 0
  BY <1>1, <1>3, <1>5, <1>7, <1>9 DEF hs, Rehashed
<1>10. CASE m # 0
  <2>1. m \in 1..m /\ ~ (l >= l + m)
    BY <1>1, <1>10
  <2>2. f[l + m] = w[m]
    BY <1>1, <1>8, <2>1
  <2>3. Rehash(p, hs) = A \o <<w[m]>> \o C
    BY <1>2, <1>5, <1>7, <2>1, <2>2
  <2> QED  BY <1>3, <1>10, <2>3 DEF hs, m, Rehashed
<1> QED  BY <1>9, <1>10
-----------------------------------------------------------------------------
(* What the ids of a proof hash to, and what Rehash makes of it. *)

Associate(s, t, u) == (s \o t) \o u = s \o (t \o u)

NodeIds == Nat \X Nat

LEMMA NodeIdsAssoc ==
    ASSUME NEW s \in Seq(NodeIds), NEW t \in Seq(NodeIds), NEW u \in Seq(NodeIds)
    PROVE  Associate(s, t, u)
BY SMTT(30), ConcatAssociative DEF Associate

LEMMA IdsAssoc ==
    ASSUME NEW s \in Seq(Nat \X Nat), NEW t \in Seq(Nat \X Nat), NEW u \in Seq(Nat \X Nat)
    PROVE  Associate(s, t, u)
<1>1. s \in Seq(NodeIds) /\ t \in Seq(NodeIds) /\ u \in Seq(NodeIds)
  BY DEF NodeIds
<1> QED  BY <1>1, NodeIdsAssoc, Zenon

LEMMA HashesAssoc ==
    ASSUME NEW s \in Seq(TreeHashes), NEW t \in Seq(TreeHashes), NEW u \in Seq(TreeHashes)
    PROVE  Associate(s, t, u)
BY SMTT(30), ConcatAssociative DEF Associate

PathHashes(n, v, c) ==
    LET s == RangeNodes(0, n)
        inner == s[c][1] - v[1]
        ids == PathIds(v, n, c)
    IN  /\ ids \in Seq(Nat \X Nat) /\ ids # <<>> /\ Tail(ids) \in Seq(Nat \X Nat)
        /\ Hashes(ids) = <<NodeMTH(v)>> \o Sibs(v, inner) \o RightBorder(s, c) \o LeftBorder(s, c, 1)
        /\ Hashes(Tail(ids)) = Sibs(v, inner) \o RightBorder(s, c) \o LeftBorder(s, c, 1)
        /\ <<NodeMTH(v)>> \in Seq(TreeHashes)
        /\ Sibs(v, inner) \in Seq(TreeHashes) /\ Len(Sibs(v, inner)) = inner
        /\ RightBorder(s, c) \in Seq(TreeHashes) /\ Len(RightBorder(s, c)) = Len(s) - c
        /\ LeftBorder(s, c, 1) \in Seq(TreeHashes)

LEMMA PathHashesAre ==
    ASSUME NEW n \in Nat, NEW v \in Nat \X Nat, NEW c, Fork(v, n, c)
    PROVE  PathHashes(n, v, c)
<1> DEFINE s == RangeNodes(0, n)
           inner == s[c][1] - v[1]
           sib == [i \in 1..inner |-> Sibling(Ancestor(v, i - 1))]
           r == Reversed(SubSeq(s, c + 1, Len(s)))
           l == Reversed(SubSeq(s, 1, c - 1))
           N == Nat \X Nat
<1>1. /\ inner \in Nat /\ c \in 1..Len(s) /\ s \in Seq(N)
      /\ <<v>> \in Seq(N) /\ sib \in Seq(N) /\ Len(sib) = inner
      /\ r \in Seq(N) /\ Len(r) = Len(s) - c /\ \A j \in 1..(Len(s) - c) : r[j] = s[Len(s) - j + 1]
      /\ l \in Seq(N) /\ Len(l) = c - 1 /\ \A j \in 1..(c - 1) : l[j] = s[c - j]
  <2>1. PathParts(v, n, c)
    BY PathPartsAre
  <2> QED  BY <2>1, Zenon DEF PathParts
<1>2. PathIds(v, n, c) = <<v>> \o sib \o r \o l
  BY DEF PathIds
<1>3. Hashes(<<v>>) = <<NodeMTH(v)>>
  BY DEF Hashes
<1>4. Hashes(sib) = Sibs(v, inner)
  <2>1. \A i \in 1..inner : NodeMTH(sib[i]) = NodeMTH(Sibling(Ancestor(v, i - 1)))
    BY <1>1
  <2> HIDE DEF sib, inner
  <2> QED  BY <1>1, <2>1 DEF Hashes, Sibs
<1> HIDE DEF sib, inner, r, l, s
<1>5. Hashes(r) = RightBorder(s, c)
  BY <1>1 DEF Hashes, RightBorder
<1>6. Hashes(l) = LeftBorder(s, c, 1)
  BY <1>1 DEF Hashes, LeftBorder
<1> DEFINE t == sib \o r
           x == t \o l
<1>7. t \in Seq(N) /\ Hashes(t) = Hashes(sib) \o Hashes(r)
  <2> HIDE DEF N
  <2>1. t \in Seq(N)
    BY <1>1
  <2> QED  BY <1>1, <2>1, HashesConcat DEF N
<1> HIDE DEF t
<1>8. x \in Seq(N) /\ Hashes(x) = Hashes(t) \o Hashes(l)
  <2> HIDE DEF N
  <2>1. x \in Seq(N)
    BY <1>1, <1>7
  <2> QED  BY <1>1, <1>7, <2>1, HashesConcat DEF N
<1>9. <<v>> \o sib \o r \o l = <<v>> \o x
  <2> HIDE DEF N
  <2> DEFINE o == <<v>>
  <2>0. o \in Seq(N)
    BY <1>1
  <2> HIDE DEF o
  <2>3. sib \in Seq(N) /\ r \in Seq(N) /\ t \in Seq(N) /\ l \in Seq(N)
    BY <1>1, <1>7
  <2>4. \A d, e, f \in Seq(N) : (d \o e) \o f = d \o (e \o f)
    BY IdsAssoc, Zenon DEF N, Associate
  <2>1. (o \o sib) \o r = o \o (sib \o r)
    BY <2>0, <2>3, <2>4
  <2>2. (o \o t) \o l = o \o (t \o l)
    BY <2>0, <2>3, <2>4
  <2> QED  BY <2>1, <2>2 DEF t, o
<1> HIDE DEF x
<1> DEFINE ids == <<v>> \o x
<1>10. ids \in Seq(N) /\ ids # <<>> /\ Tail(ids) = x
  <2>1. ids \in Seq(N) /\ Len(ids) = Len(x) + 1 /\ Len(x) \in Nat
    BY <1>8
  <2>2. ASSUME NEW i \in 1..Len(x) PROVE ids[i + 1] = x[i]
    <3>1. <<v>> \in Seq(N) /\ Len(<<v>>) = 1 /\ x \in Seq(N) /\ i + 1 = 1 + i
      BY <1>1, <1>8
    <3> QED  BY <3>1
  <2> HIDE DEF ids
  <2>3. ids # <<>>
    BY <2>1
  <2>4. /\ Tail(ids) \in Seq(N) /\ Len(Tail(ids)) = Len(x)
        /\ \A i \in 1..Len(Tail(ids)) : Tail(ids)[i] = ids[i + 1]
    BY <2>1, <2>3, HeadTailProperties
  <2>5. Tail(ids) = x
    BY <1>8, <2>2, <2>4, SeqEqual
  <2> QED  BY <2>1, <2>3, <2>5
<1>11. Hashes(ids) = Hashes(<<v>>) \o Hashes(x)
  BY <1>1, <1>8, HashesConcat
<1> DEFINE one == <<NodeMTH(v)>>
           sibs == Sibs(v, inner)
           right == RightBorder(s, c)
           left == LeftBorder(s, c, 1)
<1>12. /\ one \in Seq(TreeHashes) /\ sibs \in Seq(TreeHashes) /\ Len(sibs) = inner
       /\ right \in Seq(TreeHashes) /\ Len(right) = Len(s) - c /\ left \in Seq(TreeHashes)
  <2>1. ASSUME NEW q \in Seq(N) PROVE Hashes(q) \in Seq(TreeHashes) /\ Len(Hashes(q)) = Len(q)
    BY <2>1, HashesSeq
  <2> QED  BY <1>1, <1>3, <1>4, <1>5, <1>6, <2>1
<1> HIDE DEF one, sibs, right, left, ids
<1>13. Hashes(x) = sibs \o right \o left
  BY <1>4, <1>5, <1>6, <1>7, <1>8 DEF sibs, right, left
<1>14. Hashes(ids) = one \o sibs \o right \o left
  <2>1. Hashes(ids) = one \o ((sibs \o right) \o left)
    BY <1>3, <1>11, <1>13 DEF one
  <2> DEFINE y == sibs \o right
  <2>2. y \in Seq(TreeHashes)
    BY <1>12, ConcatIn
  <2> HIDE DEF y
  <2>6. one \in Seq(TreeHashes) /\ y \in Seq(TreeHashes) /\ left \in Seq(TreeHashes)
    BY <1>12, <2>2
  <2>5. (one \o y) \o left = one \o (y \o left)
    <3>1. Associate(one, y, left)
      BY <2>6, HashesAssoc
    <3> QED  BY <3>1, Zenon DEF Associate
  <2>3. one \o ((sibs \o right) \o left) = (one \o (sibs \o right)) \o left
    BY <2>5, Zenon DEF y
  <2>4. one \o (sibs \o right) = (one \o sibs) \o right
    <3>1. one \in Seq(TreeHashes) /\ sibs \in Seq(TreeHashes) /\ right \in Seq(TreeHashes)
      BY <1>12
    <3>2. Associate(one, sibs, right)
      BY <3>1, HashesAssoc
    <3> QED  BY <3>2, Zenon DEF Associate
  <2> QED  BY <2>1, <2>3, <2>4
<1>15. PathIds(v, n, c) = ids
  BY <1>2, <1>9 DEF ids
<1> QED  BY <1>8, <1>10, <1>12, <1>13, <1>14, <1>15 DEF PathHashes, one, sibs, right, left, inner, s

(* Rehash folds the right border into the hash of all it covers. *)
LEMMA RehashBorder ==
    ASSUME NEW n \in Nat, NEW v \in Nat \X Nat, NEW c, Fork(v, n, c), NEW A \in Seq(TreeHashes),
           NEW p, p.begin = Len(A), p.end = Len(A) + (Len(RangeNodes(0, n)) - c)
    PROVE  LET s == RangeNodes(0, n)
           IN  Rehash(p, A \o RightBorder(s, c) \o LeftBorder(s, c, 1))
                  = A \o Beyond(n, c) \o LeftBorder(s, c, 1)
<1> DEFINE s == RangeNodes(0, n)
           L == Len(s)
           B == RightBorder(s, c)
           C == LeftBorder(s, c, 1)
           w == [j \in 1..(L - c) |-> MTH(First(s[L - j + 1]), n)]
<1>1. /\ IsRange(s, n) /\ s \in Seq(Nat \X Nat) /\ L \in Nat /\ c \in 1..L
      /\ \A i \in 1..(L - 1) : First(s[i + 1]) = Last(s[i])
      /\ \A i \in 1..L : s[i] \in Nat \X Nat
      /\ Last(s[L]) = n
  <2>1. IsRange(s, n)
    BY RangeNodesIsRange
  <2>2. c \in 1..L
    BY DEF Fork
  <2>3. s \in Seq(Nat \X Nat) /\ L \in Nat /\ \A i \in 1..(L - 1) : First(s[i + 1]) = Last(s[i])
    BY <2>1 DEF IsRange
  <2>4. s # <<>> /\ \A i \in 1..L : s[i] \in Nat \X Nat
    <3> HIDE DEF s
    <3>1. L \in 1..L
      BY <2>2, <2>3
    <3> QED  BY <2>3, <3>1
  <2>5. Last(s[L]) = n
    BY <2>1, <2>4 DEF IsRange
  <2> QED  BY <2>1, <2>2, <2>3, <2>4, <2>5
<1>2. /\ B \in Seq(TreeHashes) /\ Len(B) = L - c /\ C \in Seq(TreeHashes)
  <2>1. PathHashes(n, v, c)
    BY PathHashesAre
  <2> QED  BY <2>1 DEF PathHashes
<1>3. \A j \in 1..(L - c) : B[j] = NodeMTH(s[L - j + 1])
  BY DEF RightBorder
<1>4. /\ c = L => Beyond(n, c) = <<>>
      /\ c # L => Beyond(n, c) = <<MTH(Last(s[c]), n)>>
  BY DEF Beyond
<1>5. p.begin = Len(A) /\ p.end = Len(A) + Len(B)
  BY <1>2
<1> HIDE DEF s, B, C
<1>10. L \in Nat /\ c \in 1..L /\ Len(B) = L - c
  BY <1>1, <1>2
<1>6. ASSUME NEW j \in 1..Len(B) PROVE w[j] = IF j = 1 THEN B[j] ELSE HashChildren(B[j], w[j - 1])
  <2> DEFINE i == L - j + 1
  <2>1. j \in 1..(L - c) /\ i \in 1..L /\ (j # 1 => i \in 1..(L - 1) /\ i # L)
    BY <1>10
  <2>2. w[j] = MTH(First(s[i]), n) /\ B[j] = NodeMTH(s[i])
    BY <1>3, <2>1
  <2>3. CASE j = 1
    <3>1. i = L
      BY <1>1, <2>3
    <3> QED  BY <1>1, <2>2, <2>3, <3>1 DEF NodeMTH
  <2>4. CASE j # 1
    <3> DEFINE b == First(s[i])
               k == s[i][1]
               e == Last(s[i])
    <3>1. j - 1 \in 1..(L - c) /\ L - (j - 1) + 1 = i + 1
      <4> HIDE DEF i, w
      <4>1. j \in 1..(L - c) /\ L \in Nat /\ c \in Nat /\ i = L - j + 1
        BY <1>10, <2>1 DEF i
      <4> HIDE DEF L
      <4> QED  BY <4>1, <2>4
    <3>2. w[j - 1] = MTH(First(s[i + 1]), n)
      BY <3>1
    <3>3. First(s[i + 1]) = e
      BY <1>1, <2>1, <2>4
    <3>4. e < n /\ n < b + 2 * Pow2[k]
      BY <1>1, <2>1, <2>4, RangeTail
    <3>5. b \in Nat /\ k \in Nat /\ Pow2[k] \in Nat /\ e = b + Pow2[k]
      <4>1. s[i] \in Nat \X Nat
        BY <1>1, <2>1
      <4> QED  BY <4>1, NodeFacts
    <3> HIDE DEF b, k, e, i, w
    <3>6. Pow2[k] < n - b /\ n - b <= 2 * Pow2[k]
      BY SMTT(30), <3>4, <3>5
    <3>7. MTH(b, n) = HashChildren(MTH(b, b + Pow2[k]), MTH(b + Pow2[k], n))
      BY <3>5, <3>6, MthSplit
    <3>8. MTH(b, n) = HashChildren(MTH(b, e), MTH(e, n))
      BY <3>5, <3>7
    <3> QED  BY <2>2, <2>4, <3>2, <3>3, <3>8 DEF NodeMTH, b, e
  <2> QED  BY <2>3, <2>4
<1>7. Rehash(p, A \o B \o C) = IF B = <<>> THEN A \o B \o C ELSE A \o <<w[Len(B)]>> \o C
  <2> HIDE DEF w
  <2>1. Folds(w, B)
    BY <1>6 DEF Folds
  <2>2. B \in Seq(TreeHashes) /\ C \in Seq(TreeHashes)
    BY <1>2
  <2>3. Cuts(p, Len(A), Len(A) + Len(B))
    BY <1>5 DEF Cuts
  <2>4. Rehashed(p, A, B, C, w)
    BY <2>1, <2>2, <2>3, RehashIs
  <2> QED  BY <2>4 DEF Rehashed
<1>8. CASE c = L
  <2>1. B = <<>>
    BY <1>2, <1>8
  <2> QED  BY <1>4, <1>7, <1>8, <2>1 DEF s, B, C
<1>9. CASE c # L
  <2>1. B # <<>> /\ Len(B) \in 1..(L - c) /\ L - Len(B) + 1 = c + 1 /\ c \in 1..(L - 1)
    <3>1. Len(B) \in 1..(L - c) /\ L - Len(B) + 1 = c + 1 /\ c \in 1..(L - 1)
      BY <1>10, <1>9
    <3>2. B # <<>>
      BY <1>10, <1>9
    <3> QED  BY <3>1, <3>2
  <2>2. w[Len(B)] = MTH(Last(s[c]), n)
    <3>1. w[Len(B)] = MTH(First(s[c + 1]), n)
      BY <2>1
    <3>2. First(s[c + 1]) = Last(s[c])
      BY <1>1, <2>1
    <3> QED  BY <3>1, <3>2
  <2> HIDE DEF w
  <2> QED  BY <1>4, <1>7, <1>9, <2>1, <2>2 DEF s, B, C
<1> QED  BY <1>8, <1>9
-----------------------------------------------------------------------------
(* A proof is made of nodes that the tree it is asked for has. *)

LEMMA AncestorSum ==
    ASSUME NEW v \in Nat \X Nat, NEW i \in Nat, NEW j \in Nat
    PROVE  Ancestor(v, i + j) = Ancestor(Ancestor(v, i), j)
<1>1. v[1] \in Nat /\ v[2] \in Nat
  OBVIOUS
<1>2. (v[2] \div Pow2[i]) \div Pow2[j] = v[2] \div Pow2[i + j]
  BY <1>1, PowDiv
<1>3. (v[1] + i) + j = v[1] + (i + j)
  BY <1>1
<1> QED  BY <1>2, <1>3, Zenon DEF Ancestor

NodesOf(n) == {id \in Nat \X Nat : Last(id) <= n}

(* Every node of a path covers leaves of the tree only. *)
LEMMA PathWithin ==
    ASSUME NEW n \in Nat, NEW v \in Nat \X Nat, NEW c, Fork(v, n, c)
    PROVE  /\ PathIds(v, n, c) \in Seq(NodesOf(n)) /\ PathIds(v, n, c) # <<>>
           /\ Tail(PathIds(v, n, c)) \in Seq(NodesOf(n))
<1> DEFINE s == RangeNodes(0, n)
           inner == s[c][1] - v[1]
           sib == [i \in 1..inner |-> Sibling(Ancestor(v, i - 1))]
           r == Reversed(SubSeq(s, c + 1, Len(s)))
           l == Reversed(SubSeq(s, 1, c - 1))
           N == Nat \X Nat
           T == NodesOf(n)
<1>1. /\ inner \in Nat /\ c \in 1..Len(s) /\ s \in Seq(N)
      /\ <<v>> \in Seq(N) /\ sib \in Seq(N) /\ Len(sib) = inner
      /\ r \in Seq(N) /\ Len(r) = Len(s) - c /\ \A j \in 1..(Len(s) - c) : r[j] = s[Len(s) - j + 1]
      /\ l \in Seq(N) /\ Len(l) = c - 1 /\ \A j \in 1..(c - 1) : l[j] = s[c - j]
  <2>1. PathParts(v, n, c)
    BY PathPartsAre
  <2> QED  BY <2>1, Zenon DEF PathParts
<1>2. PathIds(v, n, c) = <<v>> \o sib \o r \o l
  BY DEF PathIds
<1>3. \A i \in 1..Len(s) : s[i] \in T
  <2>1. IsRange(s, n)
    BY RangeNodesIsRange
  <2>2. ASSUME NEW i \in 1..Len(s) PROVE s[i] \in T
    <3>1. s[i] \in N
      <4>1. s \in Seq(N)
        BY <1>1
      <4> HIDE DEF s, N
      <4> QED  BY <4>1
    <3>2. Last(s[i]) <= n
      BY <2>1, RangeTail
    <3> QED  BY <3>1, <3>2 DEF NodesOf
  <2> QED  BY <2>2
<1>4. s[c] = Ancestor(v, inner) /\ Last(v) <= Last(s[c])
  BY DEF Fork
<1>5. s[c] \in T
  BY <1>1, <1>3
<1>6. v \in T
  <2>1. Last(v) \in Nat /\ Last(s[c]) \in Nat /\ Last(s[c]) <= n
    BY <1>5, NodeFacts DEF NodesOf
  <2> QED  BY <1>4, <2>1 DEF NodesOf
<1> HIDE DEF s, inner
<1>0. inner \in Nat /\ Len(s) \in Nat /\ c \in 1..Len(s)
  BY <1>1
<1>7. sib \in Seq(T)
  <2>1. ASSUME NEW i \in 1..inner PROVE Sibling(Ancestor(v, i - 1)) \in T
    <3> DEFINE a == Ancestor(v, i)
               b == Sibling(Ancestor(v, i - 1))
    <3>1. i \in Nat /\ i - 1 \in Nat /\ inner - i \in Nat /\ i + (inner - i) = inner /\ (i - 1) + 1 = i
      BY <1>0
    <3>2. b \in N /\ Last(b) <= Last(a)
      BY <3>1, SiblingNode
    <3>3. a \in N /\ s[c] = Ancestor(a, inner - i)
      <4>1. a \in N
        BY <3>1, AncestorFacts
      <4>2. Ancestor(v, i + (inner - i)) = Ancestor(a, inner - i)
        BY <3>1, AncestorSum
      <4> QED  BY <1>4, <3>1, <4>1, <4>2
    <3> HIDE DEF a, b
    <3>4. Last(a) <= Last(s[c])
      BY <3>1, <3>3, AncestorFacts
    <3>5. Last(a) \in Nat /\ Last(b) \in Nat /\ Last(s[c]) \in Nat /\ Last(s[c]) <= n
      BY <1>5, <3>2, <3>3, NodeFacts DEF NodesOf
    <3>6. Last(b) <= n
      BY <3>2, <3>4, <3>5
    <3>7. b \in T
      BY <3>2, <3>6 DEF NodesOf
    <3> QED  BY <3>7 DEF b
  <2> HIDE DEF T
  <2> QED  BY <1>0, <2>1
<1>8. r \in Seq(T) /\ l \in Seq(T)
  <2> HIDE DEF T, r, l
  <2>1. ASSUME NEW j \in 1..(Len(s) - c) PROVE r[j] \in T
    <3>1. Len(s) - j + 1 \in 1..Len(s)
      BY <1>0
    <3> QED  BY <1>1, <1>3, <3>1
  <2>2. ASSUME NEW j \in 1..(c - 1) PROVE l[j] \in T
    <3>1. c - j \in 1..Len(s)
      BY <1>0
    <3> QED  BY <1>1, <1>3, <3>1
  <2>5. /\ Len(r) = Len(s) - c /\ r = [j \in 1..Len(r) |-> r[j]]
        /\ Len(l) = c - 1 /\ l = [j \in 1..Len(l) |-> l[j]]
    BY <1>1
  <2>6. Len(s) - c \in Nat /\ c - 1 \in Nat
    BY <1>0
  <2>3. r \in Seq(T)
    BY <2>1, <2>5, <2>6
  <2>4. l \in Seq(T)
    BY <2>2, <2>5, <2>6
  <2> QED  BY <2>3, <2>4
<1>9. <<v>> \o sib \o r \o l \in Seq(T) /\ <<v>> \o sib \o r \o l # <<>>
  <2> HIDE DEF T, sib, r, l
  <2> DEFINE x == <<v>> \o sib
             y == x \o r
  <2>1. x \in Seq(T) /\ Len(x) > 0
    BY <1>6, <1>7
  <2> HIDE DEF x
  <2>2. y \in Seq(T) /\ Len(y) > 0
    BY <1>8, <2>1
  <2> HIDE DEF y
  <2>3. y \o l \in Seq(T) /\ Len(y \o l) > 0
    BY <1>8, <2>2
  <2>4. y \o l # <<>>
    BY <2>3
  <2> QED  BY <2>3, <2>4 DEF x, y
<1> DEFINE ids == <<v>> \o sib \o r \o l
<1> HIDE DEF ids, T
<1>10. ids \in Seq(T) /\ ids # <<>>
  BY <1>9 DEF ids
<1>11. Tail(ids) \in Seq(T)
  BY <1>10
<1> QED  BY <1>2, <1>10, <1>11 DEF ids, T
-----------------------------------------------------------------------------
(* The paths of RFC 6962 obey their defining equations. *)

PathRow(f, s, m) ==
    [b \in Nat |->
        IF s <= 1 THEN <<>>
        ELSE IF m < b + Split(s) THEN Append(f[Split(s)][b], MTH(b + Split(s), b + s))
             ELSE Append(f[s - Split(s)][b + Split(s)], MTH(b, b + Split(s)))]

SubRow(f, s, m) ==
    [b \in Nat |->
      [whole \in BOOLEAN |->
        IF s <= 1 \/ m = b + s THEN IF whole THEN <<>> ELSE <<MTH(b, b + s)>>
        ELSE IF m <= b + Split(s) THEN Append(f[Split(s)][b][whole], MTH(b + Split(s), b + s))
             ELSE Append(f[s - Split(s)][b + Split(s)][FALSE], MTH(b, b + Split(s)))]]

LEMMA PathRowCong ==
    ASSUME NEW n \in Nat, NEW m, NEW f, NEW g, \A s \in 0..(n - 1) : f[s] = g[s]
    PROVE  PathRow(f, n, m) = PathRow(g, n, m) /\ SubRow(f, n, m) = SubRow(g, n, m)
<1>1. CASE n <= 1
  BY <1>1 DEF PathRow, SubRow
<1>2. CASE n > 1
  <2>1. Split(n) \in 0..(n - 1) /\ n - Split(n) \in 0..(n - 1)
    BY <1>2, SplitBounds
  <2>2. f[Split(n)] = g[Split(n)] /\ f[n - Split(n)] = g[n - Split(n)]
    BY <2>1
  <2> QED  BY <2>2, Zenon DEF PathRow, SubRow
<1> QED  BY <1>1, <1>2

(* Both kinds of rows, so that one argument serves the two paths. *)
Row(f, s, m, kind) == IF kind = "path" THEN PathRow(f, s, m) ELSE SubRow(f, s, m)

IsPath(f, n, m, kind) == f = [s \in 0..n |-> Row(f, s, m, kind)]

LEMMA RowCong ==
    ASSUME NEW n \in Nat, NEW m, NEW kind, NEW f, NEW g, \A s \in 0..(n - 1) : f[s] = g[s]
    PROVE  Row(f, n, m, kind) = Row(g, n, m, kind)
BY PathRowCong DEF Row

LEMMA PathPrefix == ASSUME NEW m, NEW kind PROVE \A n \in Nat : \E f : IsPath(f, n, m, kind)
<1> DEFINE S == {n \in Nat : \E f : IsPath(f, n, m, kind)}
           Extended(f, n) == [s \in 0..n |-> IF s = n THEN Row(f, s, m, kind) ELSE f[s]]
<1>1. ASSUME NEW n \in Nat, NEW f, \A s \in 0..(n - 1) : f[s] = Row(f, s, m, kind)
      PROVE  IsPath(Extended(f, n), n, m, kind)
  <2> DEFINE g == Extended(f, n)
  <2>1. \A s \in 0..(n - 1) : g[s] = f[s]
    OBVIOUS
  <2>2. g[n] = Row(f, n, m, kind)
    OBVIOUS
  <2>3. ASSUME NEW s \in 0..n PROVE g[s] = Row(g, s, m, kind)
    <3>1. \A q \in 0..(s - 1) : f[q] = g[q]
      BY <2>1
    <3>2. Row(f, s, m, kind) = Row(g, s, m, kind)
      BY <3>1, RowCong
    <3> QED  BY <3>2, <2>1, <2>2, <1>1
  <2>4. g = [s \in 0..n |-> Row(g, s, m, kind)]
    BY <2>3
  <2> QED  BY <2>4, Zenon DEF IsPath
<1>2. 0 \in S
  <2>1. \A f : \A s \in 0..(0 - 1) : f[s] = Row(f, s, m, kind)
    OBVIOUS
  <2>2. IsPath(Extended(<<>>, 0), 0, m, kind)
    BY <2>1, <1>1
  <2> QED  BY <2>2
<1>3. ASSUME NEW n \in Nat, n \in S PROVE n + 1 \in S
  <2>1. PICK f : IsPath(f, n, m, kind)
    BY <1>3
  <2>2. \A s \in 0..((n + 1) - 1) : f[s] = Row(f, s, m, kind)
    BY <2>1 DEF IsPath
  <2>3. IsPath(Extended(f, n + 1), n + 1, m, kind)
    BY <2>2, <1>1
  <2> QED  BY <2>3
<1> HIDE DEF S
<1>4. Nat \subseteq S
  BY <1>2, <1>3, Induction
<1> QED  BY <1>4 DEF S

LEMMA PathUnique ==
    ASSUME NEW m, NEW kind, NEW n \in Nat, NEW r \in Nat, n <= r,
           NEW f, NEW g, IsPath(f, n, m, kind), IsPath(g, r, m, kind)
    PROVE  \A s \in 0..n : f[s] = g[s]
<1> DEFINE S == {s \in Nat : s <= n => f[s] = g[s]}
<1>1. ASSUME NEW s \in Nat, \A q \in Nat : q < s => q \in S PROVE s \in S
  <2> SUFFICES ASSUME s <= n PROVE f[s] = g[s]
    OBVIOUS
  <2>1. s \in 0..n /\ s \in 0..r
    OBVIOUS
  <2>2. f[s] = Row(f, s, m, kind) /\ g[s] = Row(g, s, m, kind)
    BY <2>1 DEF IsPath
  <2>3. \A q \in 0..(s - 1) : f[q] = g[q]
    BY <1>1
  <2> QED  BY <2>2, <2>3, RowCong
<1> HIDE DEF S
<1>2. Nat \subseteq S
  BY <1>1, StrongInduction
<1> QED  BY <1>2 DEF S

IsWholePath(f, m, kind) == f = [s \in Nat |-> Row(f, s, m, kind)]

LEMMA PathExists == ASSUME NEW m, NEW kind PROVE \E f : IsWholePath(f, m, kind)
<1> DEFINE F(s) == CHOOSE f : IsPath(f, s, m, kind)
           g == [s \in Nat |-> F(s)[s]]
<1>1. \A s \in Nat : IsPath(F(s), s, m, kind)
  BY PathPrefix
<1> HIDE DEF F
<1>2. ASSUME NEW s \in Nat PROVE g[s] = Row(g, s, m, kind)
  <2>1. F(s)[s] = Row(F(s), s, m, kind)
    BY <1>1 DEF IsPath
  <2>2. \A q \in 0..(s - 1) : F(q)[q] = F(s)[q]
    BY <1>1, PathUnique
  <2>3. \A q \in 0..(s - 1) : F(s)[q] = g[q]
    BY <2>2
  <2>4. Row(F(s), s, m, kind) = Row(g, s, m, kind)
    BY <2>3, RowCong
  <2> QED  BY <2>1, <2>4
<1>3. g = [s \in Nat |-> Row(g, s, m, kind)]
  BY <1>2
<1>4. IsWholePath(g, m, kind)
  BY <1>3, Zenon DEF IsWholePath
<1> QED  BY <1>4

LEMMA InclusionPathDef ==
    ASSUME NEW m
    PROVE  \E f : /\ \A s \in Nat : f[s] = PathRow(f, s, m)
                  /\ \A n : InclusionPath(m, n) = f[n][0]
<1> DEFINE c == CHOOSE f : f = [s \in Nat |-> PathRow(f, s, m)]
<1>1. c = [s \in Nat |-> PathRow(c, s, m)]
  <2>1. \E f : f = [s \in Nat |-> PathRow(f, s, m)]
    <3>1. PICK f : IsWholePath(f, m, "path")
      BY PathExists
    <3>2. \A s \in Nat : Row(f, s, m, "path") = PathRow(f, s, m)
      BY DEF Row
    <3> QED  BY <3>1, <3>2 DEF IsWholePath
  <2> QED  BY <2>1
<1>2. \A n : InclusionPath(m, n) = c[n][0]
  BY DEF InclusionPath, PathRow
<1> HIDE DEF c
<1> QED  BY <1>1, <1>2

LEMMA ConsistencyPathDef ==
    ASSUME NEW m
    PROVE  \E f : /\ \A s \in Nat : f[s] = SubRow(f, s, m)
                  /\ \A n : ConsistencyPath(m, n) = f[n][0][TRUE]
<1> DEFINE c == CHOOSE f : f = [s \in Nat |-> SubRow(f, s, m)]
<1>1. c = [s \in Nat |-> SubRow(c, s, m)]
  <2>1. \E f : f = [s \in Nat |-> SubRow(f, s, m)]
    <3>1. PICK f : IsWholePath(f, m, "subproof")
      BY PathExists
    <3>2. \A s \in Nat : Row(f, s, m, "subproof") = SubRow(f, s, m)
      BY DEF Row
    <3> QED  BY <3>1, <3>2 DEF IsWholePath
  <2> QED  BY <2>1
<1>2. \A n : ConsistencyPath(m, n) = c[n][0][TRUE]
  BY DEF ConsistencyPath, SubRow
<1> HIDE DEF c
<1> QED  BY <1>1, <1>2
-----------------------------------------------------------------------------
(* Inclusion and Consistency ask for nodes that hash to those paths. *)

Rest(v, n, c) ==
    Sibs(v, RangeNodes(0, n)[c][1] - v[1]) \o Beyond(n, c) \o LeftBorder(RangeNodes(0, n), c, 1)

Proves(p, n, hs) == p.ids \in Seq(NodesOf(n)) /\ Rehash(p, Hashes(p.ids)) = hs

LEMMA ProofIs ==
    ASSUME NEW n \in Nat, NEW v \in Nat \X Nat, NEW c, Fork(v, n, c)
    PROVE  LET p == ProofNodes(v[2], v[1], n)
           IN  Proves(SkipFirst(p), n, Rest(v, n, c)) /\ Proves(p, n, <<NodeMTH(v)>> \o Rest(v, n, c))
<1> DEFINE s == RangeNodes(0, n)
           inner == s[c][1] - v[1]
           ids == PathIds(v, n, c)
           p == ProofNodes(v[2], v[1], n)
           q == SkipFirst(p)
           one == <<NodeMTH(v)>>
           sibs == Sibs(v, inner)
           right == RightBorder(s, c)
           left == LeftBorder(s, c, 1)
           beyond == Beyond(n, c)
<1>1. p = [ids |-> ids, begin |-> inner + 1, end |-> inner + 1 + (Len(s) - c)]
  BY ProofNodesAre
<1>2. /\ ids \in Seq(NodesOf(n)) /\ Tail(ids) \in Seq(NodesOf(n))
  BY PathWithin
<1>3. /\ Hashes(ids) = one \o sibs \o right \o left
      /\ Hashes(Tail(ids)) = sibs \o right \o left
      /\ one \in Seq(TreeHashes)
      /\ sibs \in Seq(TreeHashes) /\ Len(sibs) = inner
      /\ right \in Seq(TreeHashes) /\ left \in Seq(TreeHashes)
  <2>1. PathHashes(n, v, c)
    BY PathHashesAre
  <2> QED  BY <2>1, Zenon DEF PathHashes
<1>4. beyond \in Seq(TreeHashes)
  <2>1. c \in 1..Len(s) /\ s \in Seq(Nat \X Nat)
    BY RangeNodesIsRange DEF Fork, IsRange
  <2>4. s[c] \in Nat \X Nat
    BY <2>1
  <2>2. Last(s[c]) \in Nat
    BY <2>4, NodeFacts
  <2>3. MTH(Last(s[c]), n) \in TreeHashes
    BY <2>2 DEF TreeHashes
  <2> QED  BY <2>3 DEF Beyond
<1>5. inner \in Nat /\ Len(s) - c \in Nat
  <2>2. PathParts(v, n, c)
    BY PathPartsAre
  <2>1. inner \in Nat /\ c \in 1..Len(s) /\ s \in Seq(Nat \X Nat)
    BY <2>2, Zenon DEF PathParts
  <2> HIDE DEF s, inner
  <2> QED  BY <2>1
<1>6. /\ p.ids = ids /\ p.begin = inner + 1 /\ p.end = inner + 1 + (Len(s) - c)
      /\ q.ids = Tail(ids) /\ q.begin = inner /\ q.end = inner + (Len(s) - c)
  <2> HIDE DEF s, inner, ids, p
  <2> DEFINE l == Len(s) - c
  <2>1. inner \in Nat /\ l \in Nat /\ p = [ids |-> ids, begin |-> inner + 1, end |-> inner + 1 + l]
    BY <1>1, <1>5
  <2> HIDE DEF l
  <2>2. /\ p.ids = ids /\ p.begin = inner + 1 /\ p.end = inner + 1 + l
        /\ q.ids = Tail(ids) /\ q.begin = (inner + 1) - 1 /\ q.end = (inner + 1 + l) - 1
    BY <2>1 DEF SkipFirst
  <2>3. (inner + 1) - 1 = inner /\ (inner + 1 + l) - 1 = inner + l
    BY <2>1
  <2> QED  BY <2>2, <2>3 DEF l
<1> HIDE DEF p, q, ids
<1>7. Rehash(q, sibs \o right \o left) = sibs \o beyond \o left
  <2>1. q.begin = Len(sibs) /\ q.end = Len(sibs) + (Len(s) - c) /\ sibs \in Seq(TreeHashes)
    BY <1>3, <1>6
  <2> HIDE DEF sibs
  <2> QED  BY <2>1, RehashBorder
<1>8. Rehash(p, one \o sibs \o right \o left) = one \o sibs \o beyond \o left
  <2> DEFINE A == one \o sibs
  <2>1. A \in Seq(TreeHashes) /\ Len(A) = Len(one) + Len(sibs) /\ Len(one) = 1
    <3> HIDE DEF sibs
    <3>1. Len(one) = 1
      OBVIOUS
    <3> HIDE DEF one
    <3> QED  BY <1>3, <3>1, ConcatIn
  <2>2. 1 + inner = inner + 1
    BY <1>5
  <2>3. p.begin = Len(A) /\ p.end = Len(A) + (Len(s) - c)
    BY <1>3, <1>6, <2>1, <2>2
  <2> HIDE DEF A
  <2>4. Rehash(p, A \o right \o left) = A \o beyond \o left
    BY <2>1, <2>3, RehashBorder
  <2> QED  BY <2>4 DEF A
<1> HIDE DEF one, sibs, right, left, beyond, s, inner
<1>9. one \o sibs \o beyond \o left = one \o (sibs \o beyond \o left)
  <2> DEFINE y == sibs \o beyond
  <2>1. y \in Seq(TreeHashes)
    BY <1>3, <1>4, ConcatIn
  <2>2. (one \o sibs) \o beyond = one \o y
    <3>1. one \in Seq(TreeHashes) /\ sibs \in Seq(TreeHashes) /\ beyond \in Seq(TreeHashes)
      BY <1>3, <1>4
    <3>2. Associate(one, sibs, beyond)
      BY <3>1, HashesAssoc
    <3> QED  BY <3>2, Zenon DEF Associate
  <2> HIDE DEF y
  <2>3. one \in Seq(TreeHashes) /\ left \in Seq(TreeHashes)
    BY <1>3
  <2>4. (one \o y) \o left = one \o (y \o left)
    <3>1. y \in Seq(TreeHashes)
      BY <2>1
    <3>2. Associate(one, y, left)
      BY <3>1, <2>3, HashesAssoc
    <3> QED  BY <3>2, Zenon DEF Associate
  <2> QED  BY <2>2, <2>4, Zenon DEF y
<1>10. Rest(v, n, c) = sibs \o beyond \o left
  BY DEF Rest, sibs, beyond, left, s, inner
<1>11. Proves(q, n, Rest(v, n, c))
  BY <1>2, <1>3, <1>6, <1>7, <1>10, Zenon DEF Proves
<1>12. Proves(p, n, one \o Rest(v, n, c))
  BY <1>2, <1>3, <1>6, <1>8, <1>9, <1>10, Zenon DEF Proves
<1> QED  BY <1>11, <1>12 DEF p, q, one

LEMMA RestSeq ==
    ASSUME NEW n \in Nat, NEW v \in Nat \X Nat, NEW c, Fork(v, n, c),
           NEW P, NEW E, PathTo(P, v, E), n \in E,
           \A j \in 1..(RangeNodes(0, n)[c][1] - v[1]) : Last(Ancestor(v, j)) \in E,
           P[First(v)][Last(v)] \in Seq(TreeHashes)
    PROVE  P[0][n] = P[First(v)][Last(v)] \o Rest(v, n, c) /\ Rest(v, n, c) \in Seq(TreeHashes)
<1> DEFINE s == RangeNodes(0, n)
           inner == s[c][1] - v[1]
           base == P[First(v)][Last(v)]
           sibs == Sibs(v, inner)
           left == LeftBorder(s, c, 1)
           beyond == Beyond(n, c)
<1>0. WholePath(P, n, v, c)
  BY PathIs
<1>1. P[0][n] = base \o sibs \o beyond \o left
  BY <1>0, Zenon DEF WholePath
<1>2. sibs \in Seq(TreeHashes) /\ beyond \in Seq(TreeHashes) /\ left \in Seq(TreeHashes)
      /\ base \in Seq(TreeHashes)
  BY <1>0, Zenon DEF WholePath
<1>3. Rest(v, n, c) = sibs \o beyond \o left
  BY DEF Rest
<1> HIDE DEF sibs, beyond, left, base
<1> DEFINE y == sibs \o beyond
<1>4. y \in Seq(TreeHashes) /\ (base \o sibs) \o beyond = base \o y
  <2>1. y \in Seq(TreeHashes)
    BY <1>2, ConcatIn
  <2>2. (base \o sibs) \o beyond = base \o y
    <3>1. Associate(base, sibs, beyond)
      BY <1>2, HashesAssoc
    <3> QED  BY <3>1, Zenon DEF Associate
  <2> QED  BY <2>1, <2>2
<1> HIDE DEF y
<1>5. (base \o y) \o left = base \o (y \o left) /\ y \o left \in Seq(TreeHashes)
  <2>1. base \in Seq(TreeHashes) /\ left \in Seq(TreeHashes) /\ y \in Seq(TreeHashes)
    BY <1>2, <1>4
  <2>2. (base \o y) \o left = base \o (y \o left)
    <3>1. Associate(base, y, left)
      BY <2>1, HashesAssoc
    <3> QED  BY <3>1, Zenon DEF Associate
  <2>3. y \o left \in Seq(TreeHashes)
    BY <2>1, ConcatIn
  <2> QED  BY <2>2, <2>3
<1> QED  BY <1>1, <1>3, <1>4, <1>5, Zenon DEF y, base

(* The hashes of the nodes of Inclusion, folded, are the inclusion path.   *)
THEOREM InclusionRight ==
    ASSUME NEW n \in Nat, NEW m \in Nat, m < n
    PROVE  Proves(Inclusion(m, n), n, InclusionPath(m, n))
<1> DEFINE v == NewNodeID(0, m)
<1>1. v \in Nat \X Nat /\ v[1] = 0 /\ v[2] = m /\ First(v) = m /\ Last(v) = m + 1
  BY PowZero DEF NewNodeID, First, Last
<1>2. PICK f : /\ \A s \in Nat : f[s] = PathRow(f, s, m)
               /\ \A k : InclusionPath(m, k) = f[k][0]
  BY InclusionPathDef
<1> DEFINE P == [b \in Nat |-> [e \in Nat |-> f[e - b][b]]]
<1>3. PathTo(P, v, Nat)
  <2>1. SUFFICES ASSUME NEW b \in Nat, NEW e \in Nat, b <= First(v), Last(v) <= e, b + Pow2[v[1]] < e
                 PROVE  LET k == b + Split(e - b)
                        IN  P[b][e] = IF Last(v) <= k THEN Append(P[b][k], MTH(k, e))
                                      ELSE Append(P[k][e], MTH(b, k))
    BY Zenon DEF PathTo
  <2> DEFINE d == e - b
             h == Split(d)
  <2>2. d \in Nat /\ d > 1 /\ b + d = e
    BY <1>1, <2>1, PowZero
  <2> HIDE DEF d
  <2>3. h \in Nat /\ 0 < h /\ h < d
    BY <2>2, SplitBounds
  <2> HIDE DEF h
  <2>4. P[b][e] = f[d][b] /\ f[d] = PathRow(f, d, m)
    BY <1>2, <2>2 DEF d
  <2>5. f[d][b] = IF m < b + h THEN Append(f[h][b], MTH(b + h, b + d))
                  ELSE Append(f[d - h][b + h], MTH(b, b + h))
    <3>1. ~ (d <= 1)
      BY <2>2
    <3> QED  BY <2>4, <3>1 DEF PathRow, h
  <2>6. P[b][b + h] = f[h][b]
    <3>1. b + h \in Nat /\ (b + h) - b = h
      BY <2>3
    <3> QED  BY <3>1
  <2>7. P[b + h][e] = f[d - h][b + h]
    <3>1. b + h \in Nat /\ e - (b + h) = d - h
      BY <2>2, <2>3
    <3> QED  BY <3>1
  <2>8. m < b + h <=> Last(v) <= b + h
    BY <1>1, <2>3
  <2> HIDE DEF P, v
  <2>9. P[b][e] = IF Last(v) <= b + h THEN Append(P[b][b + h], MTH(b + h, e))
                  ELSE Append(P[b + h][e], MTH(b, b + h))
    BY <2>2, <2>4, <2>5, <2>6, <2>7, <2>8
  <2> QED  BY <2>9 DEF h, d
<1>4. P[First(v)][Last(v)] = <<>>
  <2>1. (m + 1) - m = 1 /\ m + 1 \in Nat
    OBVIOUS
  <2>2. P[m][m + 1] = f[1][m]
    BY <2>1
  <2>3. f[1] = PathRow(f, 1, m)
    BY <1>2
  <2>4. f[1][m] = <<>>
    BY <2>3 DEF PathRow
  <2> HIDE DEF P, v
  <2> QED  BY <1>1, <2>2, <2>4
<1>5. P[0][n] = InclusionPath(m, n)
  <2>1. n - 0 = n
    OBVIOUS
  <2> QED  BY <1>2, <2>1
<1> HIDE DEF P, v
<1>6. Last(v) <= n
  BY <1>1
<1>7. PICK c : Fork(v, n, c)
  BY <1>1, <1>6, ForkExists
<1>8. \A j \in 1..(RangeNodes(0, n)[c][1] - v[1]) : Last(Ancestor(v, j)) \in Nat
  <2>1. ASSUME NEW j \in Nat PROVE Last(Ancestor(v, j)) \in Nat
    <3>1. Ancestor(v, j) \in Nat \X Nat
      BY <1>1, AncestorFacts
    <3> QED  BY <3>1, NodeFacts
  <2>2. \A j \in 1..(RangeNodes(0, n)[c][1] - v[1]) : j \in Nat
    OBVIOUS
  <2> QED  BY <2>1, <2>2
<1>9. P[0][n] = P[First(v)][Last(v)] \o Rest(v, n, c) /\ Rest(v, n, c) \in Seq(TreeHashes)
  <2>1. P[First(v)][Last(v)] \in Seq(TreeHashes)
    BY <1>4
  <2> QED  BY <1>1, <1>3, <1>7, <1>8, <2>1, RestSeq
<1>10. InclusionPath(m, n) = Rest(v, n, c)
  <2>1. <<>> \o Rest(v, n, c) = Rest(v, n, c)
    BY <1>9
  <2> QED  BY <1>4, <1>5, <1>9, <2>1
<1>11. Proves(SkipFirst(ProofNodes(v[2], v[1], n)), n, Rest(v, n, c))
  BY <1>1, <1>7, ProofIs
<1> QED  BY <1>1, <1>10, <1>11 DEF Inclusion

(* The level at which Consistency starts: that of the last node of the     *)
(* tree of the first m leaves.                                             *)
ConsistencyLevel(m) == CHOOSE k \in 0..m : m % Pow2[k] = 0 /\ m % Pow2[k + 1] # 0

LEMMA ConsistencyLevelIs ==
    ASSUME NEW m \in Nat, m > 0
    PROVE  /\ ConsistencyLevel(m) \in Nat
           /\ Aligned(ConsistencyLevel(m), m) /\ ~ Aligned(ConsistencyLevel(m) + 1, m)
<1> DEFINE Is(j) == m % Pow2[j] = 0 /\ m % Pow2[j + 1] # 0
           n == m - 1
           k == Completed(n)
<1>1. n \in Nat /\ n + 1 = m
  OBVIOUS
<1>2. k \in Nat /\ Aligned(k, m) /\ ~ Aligned(k + 1, m)
  <2>1. k \in Nat /\ Aligned(k, n + 1) /\ ~ Aligned(k + 1, n + 1)
    <3> HIDE DEF n
    <3> QED  BY <1>1, CompletedIs
  <2> QED  BY <1>1, <2>1
<1> HIDE DEF n, k
<1>3. \A j \in Nat : Is(j) <=> Aligned(j, m) /\ ~ Aligned(j + 1, m)
  <2> TAKE j \in Nat
  <2>1. j + 1 \in Nat
    OBVIOUS
  <2> QED  BY <2>1, AlignedDiv
<1>4. k \in 0..m
  <2>1. 0 + Pow2[k] <= m
    BY <1>2, AlignedZero, AlignedGap
  <2> QED  BY <1>2, <2>1, PowNat
<1>5. ConsistencyLevel(m) = CHOOSE j \in 0..m : Is(j)
  BY DEF ConsistencyLevel
<1> HIDE DEF Is
<1>6. ConsistencyLevel(m) \in 0..m /\ Is(ConsistencyLevel(m))
  BY <1>2, <1>3, <1>4, <1>5
<1> QED  BY <1>3, <1>6

(* The node that ends at m, at that level. *)
LEMMA ConsistencyNode ==
    ASSUME NEW m \in Nat, m > 0
    PROVE  LET v == NewNodeID(ConsistencyLevel(m), (m - 1) \div Pow2[ConsistencyLevel(m)])
           IN  v \in Nat \X Nat /\ v[1] = ConsistencyLevel(m) /\ Last(v) = m
<1> DEFINE n == m - 1
<1>1. n \in Nat /\ n + 1 = m
  OBVIOUS
<1> HIDE DEF n
<1>2. ConsistencyLevel(m) \in Nat /\ Aligned(ConsistencyLevel(m), n + 1)
  BY <1>1, ConsistencyLevelIs
<1> QED  BY <1>1, <1>2, CompletedNode DEF n

(* The hashes of the nodes of Consistency, folded, are the subproof. *)
THEOREM ConsistencyRight ==
    ASSUME NEW n \in Nat, NEW m \in Nat, 0 < m, m <= n
    PROVE  Proves(Consistency(m, n), n, ConsistencyPath(m, n))
<1> DEFINE level == ConsistencyLevel(m)
           v == NewNodeID(level, (m - 1) \div Pow2[level])
<1>1. v \in Nat \X Nat /\ v[1] = level /\ Last(v) = m /\ v[2] = (m - 1) \div Pow2[level]
  BY ConsistencyNode DEF NewNodeID
<1>2. level \in Nat /\ Aligned(level, m) /\ ~ Aligned(level + 1, m)
  BY ConsistencyLevelIs
<1>3. /\ First(v) \in Nat /\ Pow2[level] \in Nat /\ Pow2[level] > 0 /\ m = First(v) + Pow2[level]
      /\ First(v) = 0 <=> v[2] = 0
  <2>1. First(v) \in Nat /\ Pow2[v[1]] \in Nat /\ Pow2[v[1]] > 0 /\ Last(v) = First(v) + Pow2[v[1]]
    BY <1>1, NodeFacts
  <2>2. First(v) = v[2] * Pow2[v[1]] /\ v[2] \in Nat
    BY <1>1 DEF First
  <2>3. ASSUME NEW a \in Nat, NEW p \in Nat, p > 0 PROVE a * p = 0 <=> a = 0
    BY <2>3
  <2> HIDE DEF v, level
  <2> QED  BY <1>1, <2>1, <2>2, <2>3
<1>4. PICK f : /\ \A s \in Nat : f[s] = SubRow(f, s, m)
               /\ \A k : ConsistencyPath(m, k) = f[k][0][TRUE]
  BY ConsistencyPathDef
<1> DEFINE P == [b \in Nat |-> [e \in Nat |-> f[e - b][b][b = 0]]]
           E == Nat \ {m}
           p == ProofNodes(v[2], v[1], n)
<1>5. Consistency(m, n) = IF m = n THEN [ids |-> <<>>, begin |-> 0, end |-> 0]
                          ELSE IF v[2] = 0 THEN SkipFirst(p) ELSE p
  <2> DEFINE index == (m - 1) \div Pow2[level]
             q == ProofNodes(index, level, n)
  <2>1. Consistency(m, n) = IF m = n THEN [ids |-> <<>>, begin |-> 0, end |-> 0]
                            ELSE IF index = 0 THEN SkipFirst(q) ELSE q
    BY Zenon DEF Consistency, ConsistencyLevel
  <2>2. index = v[2] /\ level = v[1]
    BY <1>1
  <2> HIDE DEF v, index, level
  <2> QED  BY <2>1, <2>2
<1> HIDE DEF v, level
<1>6. CASE m = n
  <2>1. ConsistencyPath(m, n) = <<>>
    <3>1. f[m] = SubRow(f, m, m) /\ ConsistencyPath(m, n) = f[m][0][TRUE]
      BY <1>4, <1>6
    <3>2. m = 0 + m
      OBVIOUS
    <3> QED  BY <3>1, <3>2 DEF SubRow
  <2> DEFINE q == Consistency(m, n)
  <2>2. q.ids = <<>> /\ q.begin = 0 /\ q.end = 0
    BY <1>5, <1>6
  <2> HIDE DEF q
  <2>3. Hashes(<<>>) = <<>> /\ <<>> \in Seq(NodesOf(n))
    BY DEF Hashes
  <2>4. Rehash(q, <<>>) = <<>>
    BY <2>2 DEF Rehash
  <2> QED  BY <2>1, <2>2, <2>3, <2>4 DEF Proves, q
<1>7. CASE m # n
  <2>1. PathTo(P, v, E)
    <3>1. SUFFICES ASSUME NEW b \in Nat, NEW e \in E, b <= First(v), Last(v) <= e, b + Pow2[v[1]] < e
                   PROVE  LET k == b + Split(e - b)
                          IN  P[b][e] = IF Last(v) <= k THEN Append(P[b][k], MTH(k, e))
                                        ELSE Append(P[k][e], MTH(b, k))
      BY Zenon DEF PathTo
    <3> DEFINE d == e - b
               h == Split(d)
               whole == b = 0
    <3>2. d \in Nat /\ d > 1 /\ b + d = e /\ e \in Nat /\ e # m
      BY <1>1, <1>3, <3>1
    <3> HIDE DEF d
    <3>3. h \in Nat /\ 0 < h /\ h < d
      BY <3>2, SplitBounds
    <3> HIDE DEF h
    <3>4. P[b][e] = f[d][b][whole] /\ f[d] = SubRow(f, d, m)
      BY <1>4, <3>2 DEF d
    <3>5. f[d][b][whole] = IF m <= b + h THEN Append(f[h][b][whole], MTH(b + h, b + d))
                           ELSE Append(f[d - h][b + h][FALSE], MTH(b, b + h))
      <4>1. ~ (d <= 1 \/ m = b + d)
        BY <3>2
      <4>2. whole \in BOOLEAN
        OBVIOUS
      <4> HIDE DEF whole
      <4> QED  BY <3>4, <4>1, <4>2 DEF SubRow, h
    <3>6. P[b][b + h] = f[h][b][whole]
      <4>1. b + h \in Nat /\ (b + h) - b = h
        BY <3>3
      <4> QED  BY <4>1
    <3>7. P[b + h][e] = f[d - h][b + h][FALSE]
      <4>1. b + h \in Nat /\ e - (b + h) = d - h /\ b + h # 0
        BY <3>2, <3>3
      <4>2. (b + h = 0) = FALSE
        BY <4>1
      <4>3. P[b + h][e] = f[e - (b + h)][b + h][b + h = 0]
        BY <3>2, <4>1
      <4> QED  BY <4>1, <4>2, <4>3
    <3> HIDE DEF P, whole
    <3>8. P[b][e] = IF Last(v) <= b + h THEN Append(P[b][b + h], MTH(b + h, e))
                    ELSE Append(P[b + h][e], MTH(b, b + h))
      BY <1>1, <3>2, <3>4, <3>5, <3>6, <3>7
    <3> QED  BY <3>8 DEF h, d
  <2> DEFINE base == IF v[2] = 0 THEN <<>> ELSE <<NodeMTH(v)>>
  <2>2. P[First(v)][Last(v)] = base
    <3> DEFINE b == First(v)
               d == Pow2[level]
               whole == b = 0
    <3>1. m - b = d /\ m = b + d /\ b \in Nat /\ d \in Nat
      BY <1>3
    <3>2. P[b][m] = f[d][b][whole]
      BY <3>1
    <3>3. whole \in BOOLEAN /\ whole = (v[2] = 0)
      BY <1>3
    <3> HIDE DEF b, d, whole
    <3>4. f[d] = SubRow(f, d, m)
      BY <1>4, <3>1
    <3>5. f[d][b][whole] = IF whole THEN <<>> ELSE <<MTH(b, b + d)>>
      BY <3>1, <3>3, <3>4 DEF SubRow
    <3>6. NodeMTH(v) = MTH(b, b + d)
      BY <1>1, <3>1 DEF NodeMTH, b
    <3> HIDE DEF P
    <3> QED  BY <1>1, <3>2, <3>3, <3>5, <3>6 DEF b
  <2>3. P[0][n] = ConsistencyPath(m, n)
    <3>1. n - 0 = n
      OBVIOUS
    <3>2. P[0][n] = f[n][0][0 = 0] /\ (0 = 0) = TRUE
      BY <3>1
    <3> QED  BY <1>4, <3>2
  <2> HIDE DEF P
  <2>4. PICK c : Fork(v, n, c)
    BY <1>1, ForkExists
  <2>5. n \in E
    BY <1>7
  <2>6. \A j \in 1..(RangeNodes(0, n)[c][1] - v[1]) : Last(Ancestor(v, j)) \in E
    <3>1. ASSUME NEW j \in Nat, j > 0 PROVE Last(Ancestor(v, j)) \in E
      <4>1. Ancestor(v, j) \in Nat \X Nat /\ Ancestor(v, j)[1] = level + j
        BY <1>1, AncestorFacts
      <4>2. Last(Ancestor(v, j)) \in Nat /\ Aligned(level + j, Last(Ancestor(v, j)))
        BY <4>1, NodeFacts
      <4>3. level + j \in Nat /\ level + 1 \in Nat /\ level + 1 <= level + j
        BY <1>2, <3>1
      <4>4. Aligned(level + 1, Last(Ancestor(v, j)))
        BY <4>2, <4>3, AlignedBelow
      <4> QED  BY <1>2, <4>2, <4>4
    <3>2. \A j \in 1..(RangeNodes(0, n)[c][1] - v[1]) : j \in Nat /\ j > 0
      OBVIOUS
    <3> HIDE DEF E
    <3> QED  BY <3>1, <3>2
  <2> HIDE DEF E
  <2>7. P[First(v)][Last(v)] \in Seq(TreeHashes)
    <3>1. NodeMTH(v) \in TreeHashes
      BY <1>1, NodeMTHIn
    <3>2. base \in Seq(TreeHashes)
      BY <3>1
    <3> QED  BY <2>2, <3>2
  <2>8. ConsistencyPath(m, n) = base \o Rest(v, n, c) /\ Rest(v, n, c) \in Seq(TreeHashes)
    <3>1. P[0][n] = P[First(v)][Last(v)] \o Rest(v, n, c) /\ Rest(v, n, c) \in Seq(TreeHashes)
      BY <1>1, <2>1, <2>4, <2>5, <2>6, <2>7, RestSeq
    <3> QED  BY <2>2, <2>3, <3>1
  <2>9. Proves(SkipFirst(p), n, Rest(v, n, c)) /\ Proves(p, n, <<NodeMTH(v)>> \o Rest(v, n, c))
    BY <1>1, <2>4, ProofIs
  <2> HIDE DEF p
  <2>10. CASE v[2] = 0
    <3>1. <<>> \o Rest(v, n, c) = Rest(v, n, c)
      BY <2>8
    <3> QED  BY <1>5, <1>7, <2>8, <2>9, <2>10, <3>1
  <2>11. CASE v[2] # 0
    BY <1>5, <1>7, <2>8, <2>9, <2>11
  <2> QED  BY <2>10, <2>11
<1> QED  BY <1>6, <1>7
-----------------------------------------------------------------------------
(* The inductive invariant.                                                *)

(* The tree holds the rows' leaves: the range is that of RFC 6962, every   *)
(* perfect subtree is cached, and leaf_index never falls behind.           *)
TreeOK == /\ RowsOK
          /\ end = Len(rows)
          /\ hashes = RangeHashes(end)
          /\ Cached(nodes, end)
          /\ InBounds(nodes)

PathOf(q) == IF q.kind = "inclusion" THEN InclusionPath(q.first, q.size)
             ELSE ConsistencyPath(q.first, q.size)

(* The nodes a reader is to fetch make the proof that was asked for, and   *)
(* are nodes of a tree that is not larger than the one there is.           *)
Asked(q, n) == q.size \in 1..n /\ Proves(q.nodes, q.size, PathOf(q))

Fetched(q, hs) == /\ hs \in Seq(TreeHashes)
                  /\ Len(hs) <= Len(q.nodes.ids)
                  /\ \A i \in 1..Len(hs) : hs[i] = NodeMTH(q.nodes.ids[i])

ReaderOK(r) == /\ request[r] = Nil => fetched[r] = <<>>
               /\ request[r] # Nil => Asked(request[r], end) /\ Fetched(request[r], fetched[r])

AnswerOK(r) == answer[r] # Nil => answer[r].proof = PathOf(answer[r])

Domains == DOMAIN request = Readers /\ DOMAIN fetched = Readers /\ DOMAIN answer = Readers

RootsOK == roots # Nil => roots.root = MTH(0, roots.size)

Inv == /\ TreeOK /\ RootsOK /\ Domains
       /\ \A r \in Readers : ReaderOK(r) /\ AnswerOK(r)

LEMMA InvImplies == Inv => TypeOK /\ CacheCorrect /\ RootsCorrect /\ AnswersCorrect
<1> SUFFICES ASSUME Inv PROVE TypeOK /\ CacheCorrect /\ RootsCorrect /\ AnswersCorrect
  OBVIOUS
<1>1. end \in Nat /\ end <= MaxSize
  BY MaxSizeAssumption DEF Inv, TreeOK, RowsOK
<1>2. TypeOK
  <2>1. Len(hashes) = Len(RangeNodes(0, end))
    BY <1>1, RangeHashesSeq DEF Inv, TreeOK
  <2>2. end \in 0..MaxSize
    BY <1>1, MaxSizeAssumption
  <2>3. \A id \in DOMAIN nodes : id \in (0..MaxSize) \X (0..(MaxSize + MaxGap))
    BY DEF Inv, TreeOK, InBounds
  <2>4. \A r \in Readers : request[r] = Nil => fetched[r] = <<>>
    BY DEF Inv, ReaderOK
  <2>5. rows \in Seq(Nat) /\ Len(rows) <= MaxSize
    BY DEF Inv, TreeOK, RowsOK
  <2> QED  BY <2>1, <2>2, <2>3, <2>4, <2>5, Zenon DEF TypeOK
<1>3. CacheCorrect
  BY <1>1, CachedIs DEF Inv, TreeOK
<1>4. RootsCorrect
  BY DEF Inv, TreeOK, RootsOK, RootsCorrect
<1>5. AnswersCorrect
  BY DEF Inv, AnswerOK, PathOf, AnswersCorrect
<1> QED  BY <1>2, <1>3, <1>4, <1>5

LEMMA InvInit == Init => Inv
<1> SUFFICES ASSUME Init PROVE Inv
  OBVIOUS
<1>1. TreeOK
  <2>1. RowsOK /\ end = Len(rows) /\ end = 0
    BY MaxSizeAssumption DEF Init, RowsOK
  <2>2. RangeHashes(0) = <<>>
    <3>1. RangeNodes(0, 0) = <<>>
      BY RangeNodesEmpty
    <3> QED  BY <3>1 DEF RangeHashes
  <2>3. Cached(<<>>, 0)
    <3>1. ASSUME NEW id \in Nat \X Nat PROVE ~ (Last(id) <= 0)
      <4>1. First(id) \in Nat /\ Last(id) = First(id) + Pow2[id[1]] /\ Pow2[id[1]] > 0 /\ Pow2[id[1]] \in Nat
        BY NodeFacts
      <4> QED  BY <4>1
    <3> QED  BY <3>1 DEF Cached
  <2>4. InBounds(<<>>)
    BY DEF InBounds
  <2> QED  BY <2>1, <2>2, <2>3, <2>4 DEF Init, TreeOK
<1>2. RootsOK /\ Domains /\ \A r \in Readers : ReaderOK(r) /\ AnswerOK(r)
  BY DEF Init, RootsOK, Domains, ReaderOK, AnswerOK
<1> QED  BY <1>1, <1>2 DEF Inv

(* A request stays good while the tree grows. *)
LEMMA AskedLater ==
    ASSUME NEW q, NEW n \in Nat, NEW k \in Nat, n <= k, Asked(q, n)
    PROVE  Asked(q, k)
BY DEF Asked

LEMMA InvAppendLeaf == Inv /\ AppendLeaf => Inv'
<1> SUFFICES ASSUME Inv, AppendLeaf PROVE Inv'
  OBVIOUS
<1>1. PICK gap \in 0..MaxGap :
         LET k == Len(rows) + 1
             r == RangeAppend(end, hashes, HashLeaf(k))
         IN  /\ k <= MaxSize
             /\ NextIndex + gap < k + MaxGap
             /\ rows' = Append(rows, NextIndex + gap)
             /\ end' = end + 1
             /\ hashes' = r.hashes
             /\ nodes' = Stored(r.visited, Stored(Leaf(end, k), nodes))
             /\ UNCHANGED <<roots, readerVars>>
  BY DEF AppendLeaf
<1>2. /\ RowsOK /\ end = Len(rows) /\ hashes = RangeHashes(end) /\ Cached(nodes, end) /\ InBounds(nodes)
      /\ end \in Nat /\ end < MaxSize /\ MaxSize \in Nat /\ MaxGap \in Nat
  <2>1. Len(rows) \in Nat
    BY DEF Inv, TreeOK, RowsOK
  <2> QED  BY <1>1, <2>1, MaxSizeAssumption, MaxGapAssumption DEF Inv, TreeOK
<1>3. RowsOK'
  <2> DEFINE x == NextIndex + gap
             l == Len(rows)
  <2>1. rows \in Seq(Nat) /\ l \in Nat /\ \A k \in 1..l : rows[k] \in (k - 1)..(k + MaxGap - 1)
    BY <1>2 DEF RowsOK
  <2>2. NextIndex \in Nat /\ NextIndex >= l
    <3>1. CASE rows = <<>>
      BY <2>1, <3>1 DEF NextIndex
    <3>2. CASE rows # <<>>
      <4>1. l \in 1..l
        BY <2>1, <3>2
      <4>2. rows[l] \in Nat /\ rows[l] >= l - 1
        BY <2>1, <4>1, <1>2
      <4> QED  BY <2>1, <3>2, <4>2 DEF NextIndex
    <3> QED  BY <3>1, <3>2
  <2>3. x \in Nat /\ x >= l /\ x < l + 1 + MaxGap /\ l + 1 <= MaxSize
    BY <1>1, <1>2, <2>1, <2>2
  <2>4. rows' = Append(rows, x)
    BY <1>1
  <2> HIDE DEF x
  <2>5. rows' \in Seq(Nat) /\ Len(rows') = l + 1 /\ rows'[l + 1] = x /\ \A k \in 1..l : rows'[k] = rows[k]
    BY <2>1, <2>3, <2>4
  <2> HIDE DEF l
  <2>6. ASSUME NEW k \in 1..(l + 1) PROVE rows'[k] \in (k - 1)..(k + MaxGap - 1)
    <3>1. CASE k = l + 1
      <4>1. x \in ((l + 1) - 1)..((l + 1) + MaxGap - 1)
        BY <1>2, <2>1, <2>3
      <4> QED  BY <2>5, <3>1, <4>1
    <3>2. CASE k # l + 1
      <4>1. k \in 1..l
        BY <2>1, <3>2
      <4> QED  BY <2>1, <2>5, <4>1
    <3> QED  BY <3>1, <3>2
  <2> QED  BY <2>3, <2>5, <2>6 DEF RowsOK
<1>4. end' = Len(rows')
  <2>1. rows \in Seq(Nat) /\ NextIndex + gap \in Nat
    <3>1. rows \in Seq(Nat) /\ Len(rows) \in Nat
      BY <1>2 DEF RowsOK
    <3>2. rows # <<>> => rows[Len(rows)] \in Nat
      BY <3>1
    <3> QED  BY <1>2, <3>1, <3>2 DEF NextIndex
  <2>2. Len(Append(rows, NextIndex + gap)) = Len(rows) + 1
    BY <2>1
  <2> QED  BY <1>1, <1>2, <2>2
<1> DEFINE r == RangeAppend(end, RangeHashes(end), HashLeaf(end + 1))
<1>5. /\ end' = end + 1 /\ hashes' = r.hashes
      /\ nodes' = Stored(r.visited, Stored(Leaf(end, end + 1), nodes))
      /\ UNCHANGED <<roots, request, fetched, answer>>
  BY <1>1, <1>2 DEF readerVars
<1>6. hashes' = RangeHashes(end')
  BY <1>2, <1>5, RangeAppendCorrect
<1>7. Cached(nodes', end')
  <2>1. Cached(Stored(r.visited, Stored(Leaf(end, end + 1), nodes)), end + 1)
    <3>1. end \in Nat /\ end >= end /\ Cached(nodes, end)
      BY <1>2
    <3> QED  BY <3>1, AppendCached
  <2> QED  BY <1>5, <2>1
<1>8. InBounds(nodes')
  <2>1. end \in 0..(MaxSize + MaxGap)
    BY <1>2
  <2>2. InBounds(Stored(r.visited, Stored(Leaf(end, end + 1), nodes)))
    BY <1>2, <2>1, AppendBounds
  <2> QED  BY <1>5, <2>2
<1> HIDE DEF r
<1>9. TreeOK'
  BY <1>3, <1>4, <1>6, <1>7, <1>8 DEF TreeOK, Cached, InBounds
<1>10. RootsOK' /\ Domains'
  BY <1>5 DEF Inv, RootsOK, Domains
<1>11. ASSUME NEW q \in Readers PROVE ReaderOK(q)' /\ AnswerOK(q)'
  <2>1. ReaderOK(q) /\ AnswerOK(q)
    BY <1>11 DEF Inv
  <2>2. Asked(request[q], end) => Asked(request[q], end + 1)
    BY <1>2, AskedLater
  <2> QED  BY <1>5, <2>1, <2>2 DEF ReaderOK, AnswerOK
<1> QED  BY <1>9, <1>10, <1>11 DEF Inv

LEMMA InvRootHash == Inv /\ RootHash => Inv'
<1> SUFFICES ASSUME Inv, RootHash PROVE Inv'
  OBVIOUS
<1> DEFINE r == GetRootHash(end, RangeHashes(end))
<1>1. /\ RowsOK /\ end = Len(rows) /\ hashes = RangeHashes(end) /\ Cached(nodes, end) /\ InBounds(nodes)
      /\ end \in Nat /\ end <= MaxSize /\ end > 0 /\ MaxSize \in Nat /\ MaxGap \in Nat
  BY MaxSizeAssumption, MaxGapAssumption DEF Inv, TreeOK, RowsOK, RootHash
<1>2. /\ roots' = [size |-> end, root |-> r.root] /\ nodes' = Stored(r.visited, nodes)
      /\ UNCHANGED <<rows, end, hashes, request, fetched, answer>>
  BY <1>1 DEF RootHash, readerVars
<1>3. /\ r.root = MTH(0, end)
      /\ \A id \in DOMAIN r.visited : id \in (1..end) \X (0..end) /\ First(id) < end /\ end < Last(id)
  BY <1>1, RootHashCorrect
<1> HIDE DEF r
<1>4. Cached(nodes', end)
  <2>1. ASSUME NEW id \in DOMAIN r.visited, id \in Nat \X Nat PROVE ~ (Last(id) <= end)
    <3>1. Last(id) \in Nat /\ end < Last(id)
      BY <1>3, <2>1, NodeFacts
    <3> QED  BY <1>1, <3>1
  <2>2. Cached(Stored(r.visited, nodes), end)
    BY <1>1, <2>1, BeyondCached
  <2> QED  BY <1>2, <2>2
<1>5. InBounds(nodes')
  <2>1. \A id \in DOMAIN r.visited : id \in (0..MaxSize) \X (0..(MaxSize + MaxGap))
    <3>1. 1..end \subseteq 0..MaxSize /\ 0..end \subseteq 0..(MaxSize + MaxGap)
      BY <1>1
    <3> QED  BY <1>3, <3>1
  <2> QED  BY <1>1, <1>2, <2>1, StoredDomain DEF InBounds
<1>6. TreeOK'
  BY <1>1, <1>2, <1>4, <1>5 DEF TreeOK, RowsOK, Cached, InBounds
<1>7. RootsOK'
  BY <1>2, <1>3 DEF RootsOK
<1>8. Domains' /\ \A q \in Readers : ReaderOK(q)' /\ AnswerOK(q)'
  BY <1>2 DEF Inv, Domains, ReaderOK, AnswerOK
<1> QED  BY <1>6, <1>7, <1>8 DEF Inv

LEMMA InvRestart == Inv /\ Restart => Inv'
<1> SUFFICES ASSUME Inv, Restart PROVE Inv'
  OBVIOUS
<1>1. /\ RowsOK /\ rows' = rows /\ end' = Len(rows) /\ roots' = Nil
      /\ hashes' = Rebuilt(Len(rows)).hashes /\ nodes' = Rebuilt(Len(rows)).nodes
      /\ request' = [r \in Readers |-> Nil] /\ fetched' = [r \in Readers |-> <<>>]
      /\ answer' = [r \in Readers |-> Nil]
  BY DEF Inv, TreeOK, Restart
<1> DEFINE s == Rebuilt(Len(rows))
<1>2. s.hashes = RangeHashes(Len(rows)) /\ Cached(s.nodes, Len(rows)) /\ InBounds(s.nodes)
  BY <1>1, RebuiltCorrect
<1> HIDE DEF s
<1>3. TreeOK'
  <2>1. RowsOK' /\ end' = Len(rows') /\ hashes' = RangeHashes(end')
    BY <1>1, <1>2 DEF RowsOK, s
  <2>2. Cached(nodes', end') /\ InBounds(nodes')
    BY <1>1, <1>2 DEF s
  <2> QED  BY <2>1, <2>2 DEF TreeOK, Cached, InBounds
<1>4. RootsOK' /\ Domains' /\ \A r \in Readers : ReaderOK(r)' /\ AnswerOK(r)'
  BY <1>1 DEF RootsOK, Domains, ReaderOK, AnswerOK
<1> QED  BY <1>3, <1>4 DEF Inv

LEMMA InvAsk ==
    ASSUME Inv, NEW r \in Readers, NEW kind, NEW first, NEW size \in 1..end, NEW p,
           Ask(r, kind, first, size, p),
           Proves(p, size, IF kind = "inclusion" THEN InclusionPath(first, size)
                           ELSE ConsistencyPath(first, size))
    PROVE  Inv'
<1> DEFINE q == [kind |-> kind, first |-> first, size |-> size, nodes |-> p]
<1>1. /\ request' = [request EXCEPT ![r] = q]
      /\ fetched' = [fetched EXCEPT ![r] = <<>>]
      /\ answer' = [answer EXCEPT ![r] = Nil]
      /\ UNCHANGED <<rows, end, hashes, nodes, roots>>
  BY DEF Ask, treeVars
<1>2. Asked(q, end) /\ Fetched(q, <<>>)
  <2>1. q.kind = kind /\ q.first = first /\ q.size = size /\ q.nodes = p
    OBVIOUS
  <2> HIDE DEF q
  <2>2. Asked(q, end)
    BY <2>1 DEF Asked, PathOf
  <2>3. <<>> \in Seq(TreeHashes) /\ Len(<<>>) = 0 /\ Len(q.nodes.ids) \in Nat
    BY <2>1 DEF Proves
  <2> QED  BY <2>2, <2>3 DEF Fetched
<1> HIDE DEF q
<1>3. Domains'
  BY <1>1 DEF Inv, Domains
<1>4. ASSUME NEW x \in Readers PROVE ReaderOK(x)' /\ AnswerOK(x)'
  <2>1. ReaderOK(x) /\ AnswerOK(x) /\ end' = end
    BY <1>1 DEF Inv
  <2>2. CASE x = r
    <3>1. request'[r] = q /\ fetched'[r] = <<>> /\ answer'[r] = Nil
      BY <1>1 DEF Inv, Domains
    <3> QED  BY <1>2, <2>1, <2>2, <3>1 DEF ReaderOK, AnswerOK
  <2>3. CASE x # r
    <3>1. request'[x] = request[x] /\ fetched'[x] = fetched[x] /\ answer'[x] = answer[x]
      BY <1>1, <2>3 DEF Inv, Domains
    <3> QED  BY <2>1, <3>1 DEF ReaderOK, AnswerOK
  <2> QED  BY <2>2, <2>3
<1>5. TreeOK' /\ RootsOK'
  BY <1>1 DEF Inv, TreeOK, RowsOK, RootsOK, Cached, InBounds
<1> QED  BY <1>3, <1>4, <1>5 DEF Inv

LEMMA InvInclusion == ASSUME Inv, NEW r \in Readers, InclusionProof(r) PROVE Inv'
<1>0. PICK size \in 1..end :
         \E index \in 0..(size - 1) : Ask(r, "inclusion", index, size, Inclusion(index, size))
  BY DEF InclusionProof
<1>1. PICK index \in 0..(size - 1) : Ask(r, "inclusion", index, size, Inclusion(index, size))
  BY <1>0
<1>2. end \in Nat
  BY DEF Inv, TreeOK, RowsOK
<1>3. size \in Nat /\ index \in Nat /\ index < size
  BY <1>2
<1>4. Proves(Inclusion(index, size), size, InclusionPath(index, size))
  BY <1>3, InclusionRight
<1> QED  BY <1>1, <1>4, InvAsk

LEMMA InvConsistency == ASSUME Inv, NEW r \in Readers, ConsistencyProof(r) PROVE Inv'
<1>0. PICK second \in 1..end :
         \E first \in 1..second : Ask(r, "consistency", first, second, Consistency(first, second))
  BY DEF ConsistencyProof
<1>1. PICK first \in 1..second : Ask(r, "consistency", first, second, Consistency(first, second))
  BY <1>0
<1>2. end \in Nat
  BY DEF Inv, TreeOK, RowsOK
<1>3. second \in Nat /\ first \in Nat /\ 0 < first /\ first <= second
  BY <1>2
<1>4. Proves(Consistency(first, second), second, ConsistencyPath(first, second))
  BY <1>3, ConsistencyRight
<1>5. "consistency" # "inclusion"
  OBVIOUS
<1> QED  BY <1>1, <1>4, <1>5, InvAsk

(* What a reader is about to fetch is in the cache, with its hash. *)
LEMMA FetchedNode ==
    ASSUME Inv, NEW q, Asked(q, end), NEW i \in 1..Len(q.nodes.ids)
    PROVE  LET id == q.nodes.ids[i]
           IN  /\ NodeHash(id) = NodeMTH(id) /\ NodeMTH(id) \in TreeHashes /\ NodeMTH(id) # Nil
               /\ Stored([n \in ComputedNodes(id) |-> NodeHash(n)], nodes) = Stored(<<>>, nodes)
<1> DEFINE id == q.nodes.ids[i]
<1>1. /\ end \in Nat /\ end <= MaxSize /\ MaxSize \in Nat /\ Cached(nodes, end)
      /\ q.size \in 1..end /\ q.nodes.ids \in Seq(NodesOf(q.size))
  BY MaxSizeAssumption DEF Inv, TreeOK, RowsOK, Asked, Proves
<1>2. id \in Nat \X Nat /\ Last(id) <= q.size
  <2>1. id \in NodesOf(q.size)
    BY <1>1
  <2> QED  BY <2>1 DEF NodesOf
<1> HIDE DEF id
<1>3. First(id) \in Nat /\ Last(id) \in Nat /\ First(id) < Last(id) /\ Last(id) <= end
  <2> DEFINE b == First(id)
             p == Pow2[id[1]]
             e == Last(id)
             s == q.size
  <2>1. b \in Nat /\ e = b + p /\ p > 0 /\ p \in Nat
    BY <1>2, NodeFacts
  <2>2. end \in Nat /\ s \in 1..end /\ e <= s
    BY <1>1, <1>2
  <2> HIDE DEF b, p, e, s
  <2>3. b \in Nat /\ e \in Nat /\ b < e /\ e <= end
    BY <2>1, <2>2
  <2> QED  BY <2>3 DEF b, e
<1>4. id \in (0..MaxSize) \X (0..MaxSize)
  <2>1. id \in (0..end) \X (0..end)
    BY <1>1, <1>2, <1>3, PerfectBounds
  <2>2. 0..end \subseteq 0..MaxSize
    BY <1>1
  <2> QED  BY <2>1, <2>2
<1>5. id \in DOMAIN nodes /\ nodes[id] = NodeMTH(id)
  BY <1>1, <1>2, <1>3 DEF Cached
<1>6. NodeHash(id) = NodeMTH(id) /\ ComputedNodes(id) = {}
  BY <1>4, <1>5, CachedNodeHash
<1>7. NodeMTH(id) \in TreeHashes
  BY <1>2, NodeMTHIn
<1>8. NodeMTH(id) # Nil
  <2>1. First(id) \in 0..MaxSize /\ Last(id) \in 0..MaxSize
    BY <1>1, <1>3
  <2> QED  BY <1>3, <2>1, NilAssumption DEF NodeMTH
<1>9. Stored([n \in ComputedNodes(id) |-> NodeHash(n)], nodes) = Stored(<<>>, nodes)
  <2>1. [n \in {} |-> NodeHash(n)] = <<>>
    OBVIOUS
  <2>2. [n \in ComputedNodes(id) |-> NodeHash(n)] = <<>>
    BY <1>6, <2>1
  <2> QED  BY <2>2
<1> QED  BY <1>6, <1>7, <1>8, <1>9 DEF id

LEMMA StoredNothing == ASSUME NEW cache, NEW n, Cached(cache, n), InBounds(cache)
                       PROVE  Cached(Stored(<<>>, cache), n) /\ InBounds(Stored(<<>>, cache))
<1>1. DOMAIN Stored(<<>>, cache) = DOMAIN cache
  BY DEF Stored
<1>2. \A id \in DOMAIN cache : Stored(<<>>, cache)[id] = cache[id]
  BY DEF Stored
<1> QED  BY <1>1, <1>2 DEF Cached, InBounds

LEMMA InvFetch == ASSUME Inv, NEW r \in Readers, Fetch(r) PROVE Inv'
<1> DEFINE q == request[r]
           i == Len(fetched[r]) + 1
           id == q.nodes.ids[i]
<1>1. /\ q # Nil /\ Asked(q, end) /\ Fetched(q, fetched[r])
  BY DEF Inv, ReaderOK, Fetch
<1>2. /\ fetched[r] \in Seq(TreeHashes) /\ Len(fetched[r]) \in Nat /\ i \in 1..Len(q.nodes.ids)
      /\ q.nodes.ids \in Seq(NodesOf(q.size))
  <2>1. fetched[r] \in Seq(TreeHashes) /\ Len(fetched[r]) < Len(q.nodes.ids)
    BY <1>1 DEF Fetched, Fetch
  <2>2. q.nodes.ids \in Seq(NodesOf(q.size))
    BY <1>1 DEF Asked, Proves
  <2>3. Len(fetched[r]) \in Nat /\ Len(q.nodes.ids) \in Nat
    BY <2>1, <2>2
  <2> QED  BY <2>1, <2>2, <2>3
<1>3. /\ NodeHash(id) = NodeMTH(id) /\ NodeMTH(id) \in TreeHashes /\ NodeMTH(id) # Nil
      /\ Stored([n \in ComputedNodes(id) |-> NodeHash(n)], nodes) = Stored(<<>>, nodes)
  <2> HIDE DEF i
  <2> QED  BY <1>1, <1>2, FetchedNode
<1>4. /\ nodes' = Stored(<<>>, nodes)
      /\ fetched' = [fetched EXCEPT ![r] = Append(fetched[r], NodeMTH(id))]
      /\ UNCHANGED <<rows, end, hashes, roots, request, answer>>
  BY <1>3 DEF Fetch
<1>5. Fetched(q, Append(fetched[r], NodeMTH(id)))
  <2> DEFINE hs == Append(fetched[r], NodeMTH(id))
  <2>1. hs \in Seq(TreeHashes) /\ Len(hs) = i /\ hs[i] = NodeMTH(id)
        /\ \A j \in 1..Len(fetched[r]) : hs[j] = fetched[r][j]
    <3> HIDE DEF id
    <3> QED  BY <1>2, <1>3
  <2> HIDE DEF hs
  <2>2. \A j \in 1..Len(fetched[r]) : fetched[r][j] = NodeMTH(q.nodes.ids[j])
    BY <1>1 DEF Fetched
  <2>3. ASSUME NEW j \in 1..Len(hs) PROVE hs[j] = NodeMTH(q.nodes.ids[j])
    <3>1. CASE j = i
      BY <2>1, <3>1
    <3>2. CASE j # i
      <4>1. j \in 1..Len(fetched[r])
        BY <1>2, <2>1, <3>2
      <4> QED  BY <2>1, <2>2, <4>1
    <3> QED  BY <3>1, <3>2
  <2>4. Len(hs) <= Len(q.nodes.ids)
    BY <1>2, <2>1
  <2>5. Fetched(q, hs)
    BY <2>1, <2>3, <2>4 DEF Fetched
  <2> QED  BY <2>5 DEF hs
<1>6. Domains'
  BY <1>4 DEF Inv, Domains
<1>7. ASSUME NEW x \in Readers PROVE ReaderOK(x)' /\ AnswerOK(x)'
  <2>1. ReaderOK(x) /\ AnswerOK(x) /\ end' = end /\ request' = request /\ answer' = answer
    BY <1>4 DEF Inv
  <2>2. CASE x = r
    <3>1. fetched'[r] = Append(fetched[r], NodeMTH(id))
      BY <1>4 DEF Inv, Domains
    <3> QED  BY <1>1, <1>5, <2>1, <2>2, <3>1 DEF ReaderOK, AnswerOK
  <2>3. CASE x # r
    <3>1. fetched'[x] = fetched[x]
      BY <1>4, <2>3 DEF Inv, Domains
    <3> QED  BY <2>1, <3>1 DEF ReaderOK, AnswerOK
  <2> QED  BY <2>2, <2>3
<1>8. TreeOK' /\ RootsOK'
  <2>1. Cached(nodes, end) /\ InBounds(nodes)
    BY DEF Inv, TreeOK
  <2>2. Cached(nodes', end) /\ InBounds(nodes')
    BY <1>4, <2>1, StoredNothing
  <2> QED  BY <1>4, <2>2 DEF Inv, TreeOK, RowsOK, RootsOK, Cached, InBounds
<1> QED  BY <1>6, <1>7, <1>8 DEF Inv

LEMMA InvDeliver == ASSUME Inv, NEW r \in Readers, Deliver(r) PROVE Inv'
<1> DEFINE q == request[r]
           a == [kind |-> q.kind, first |-> q.first, size |-> q.size,
                 proof |-> Rehash(q.nodes, fetched[r])]
<1>1. /\ q # Nil /\ Asked(q, end) /\ Fetched(q, fetched[r]) /\ Len(fetched[r]) = Len(q.nodes.ids)
  BY DEF Inv, ReaderOK, Deliver
<1>2. /\ answer' = [answer EXCEPT ![r] = a]
      /\ request' = [request EXCEPT ![r] = Nil]
      /\ fetched' = [fetched EXCEPT ![r] = <<>>]
      /\ UNCHANGED <<rows, end, hashes, roots, nodes>>
  BY DEF Deliver, Finish
<1>3. a.proof = PathOf(a)
  <2>1. Rehash(q.nodes, Hashes(q.nodes.ids)) = PathOf(q)
    BY <1>1 DEF Asked, Proves
  <2>2. fetched[r] = Hashes(q.nodes.ids)
    <3>1. fetched[r] = [i \in 1..Len(fetched[r]) |-> fetched[r][i]]
      BY <1>1 DEF Fetched
    <3> QED  BY <1>1, <3>1 DEF Fetched, Hashes
  <2>3. PathOf(a) = PathOf(q)
    BY DEF PathOf
  <2> QED  BY <2>1, <2>2, <2>3
<1> HIDE DEF a
<1>4. Domains'
  BY <1>2 DEF Inv, Domains
<1>5. ASSUME NEW x \in Readers PROVE ReaderOK(x)' /\ AnswerOK(x)'
  <2>1. ReaderOK(x) /\ AnswerOK(x) /\ end' = end
    BY <1>2 DEF Inv
  <2>2. CASE x = r
    <3>1. request'[r] = Nil /\ fetched'[r] = <<>> /\ answer'[r] = a
      BY <1>2 DEF Inv, Domains
    <3> QED  BY <1>3, <2>2, <3>1 DEF ReaderOK, AnswerOK
  <2>3. CASE x # r
    <3>1. request'[x] = request[x] /\ fetched'[x] = fetched[x] /\ answer'[x] = answer[x]
      BY <1>2, <2>3 DEF Inv, Domains
    <3> QED  BY <2>1, <3>1 DEF ReaderOK, AnswerOK
  <2> QED  BY <2>2, <2>3
<1>6. TreeOK' /\ RootsOK'
  BY <1>2 DEF Inv, TreeOK, RowsOK, RootsOK, Cached, InBounds
<1> QED  BY <1>4, <1>5, <1>6 DEF Inv

LEMMA InvStutters == Inv /\ UNCHANGED vars => Inv'
BY DEF Inv, TreeOK, RowsOK, RootsOK, Domains, ReaderOK, AnswerOK, Cached, InBounds,
       vars, treeVars, readerVars

(* Inv holds in every reachable state, for every bound and any readers. *)
THEOREM Invariance == Spec => []Inv
<1>1. Inv /\ [Next]_vars => Inv'
  <2> SUFFICES ASSUME Inv, [Next]_vars PROVE Inv'
    OBVIOUS
  <2>1. CASE AppendLeaf
    BY <2>1, InvAppendLeaf
  <2>2. CASE RootHash
    BY <2>2, InvRootHash
  <2>3. CASE Restart
    BY <2>3, InvRestart
  <2>4. ASSUME NEW r \in Readers, InclusionProof(r) \/ ConsistencyProof(r) \/ Fetch(r) \/ Deliver(r)
        PROVE  Inv'
    BY <2>4, InvInclusion, InvConsistency, InvFetch, InvDeliver
  <2>5. CASE UNCHANGED vars
    BY <2>5, InvStutters
  <2> QED  BY <2>1, <2>2, <2>3, <2>4, <2>5 DEF Next
<1> QED  BY <1>1, InvInit, PTL DEF Spec

(* The variables keep the shape of the Go values. *)
THEOREM TypeCorrect == Spec => []TypeOK
BY Invariance, InvImplies, PTL

(* A perfect subtree of the tree is cached with its hash: RootHash writes  *)
(* only nodes that reach beyond the tree, and an append or a rebuild       *)
(* replaces them before the tree reaches them (tree.go:34-68, 112-141).    *)
THEOREM CacheStaysCorrect == Spec => []CacheCorrect
BY Invariance, InvImplies, PTL

(* The compact range of n leaves and the root computed from it are those   *)
(* of RFC 6962, however the tree was built (tree.go:52-68, 112-141).       *)
THEOREM RootsStayCorrect == Spec => []RootsCorrect
BY Invariance, InvImplies, PTL

(* A proof is never refused and is the path RFC 6962 defines for the size  *)
(* asked, whatever happens between two of its reads (proof.go:11-60).      *)
THEOREM AnswersStayCorrect == Spec => []AnswersCorrect
BY Invariance, InvImplies, PTL
=============================================================================
