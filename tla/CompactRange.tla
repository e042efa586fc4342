---------------------------- MODULE CompactRange ----------------------------
(***************************************************************************)
(* The hashes of a Merkle tree: hash.go, the compact ranges of package     *)
(* compact of github.com/transparency-dev/merkle (modelled by what they    *)
(* compute), and the tree hash of RFC 6962 as the reference for both.      *)
(*                                                                         *)
(* Hashes are terms: the k-th leaf that is appended has hash <<k>>, a node *)
(* <<left, right>>.  Leaves and nodes never collide, which is what the     *)
(* RFC 6962 prefixes of hash.go give.                                      *)
(***************************************************************************)
EXTENDS Naturals, Sequences

CONSTANTS MaxSize,   \* bound on the leaves appended
          Nil        \* Go's nil

ASSUME MaxSizeAssumption == MaxSize \in Nat
-----------------------------------------------------------------------------
(* Package compact. *)

(* 1 << k. *)
Pow2[k \in Nat] == IF k = 0 THEN 1 ELSE 2 * Pow2[k - 1]

NewNodeID(level, index) == <<level, index>>
Parent(id) == <<id[1] + 1, id[2] \div 2>>
Sibling(id) == <<id[1], IF id[2] % 2 = 0 THEN id[2] + 1 ELSE id[2] - 1>>
Ancestor(id, i) == <<id[1] + i, id[2] \div Pow2[i]>>   \* Parent applied i times
HashLeaf(k) == <<k>>
HashChildren(l, r) == <<l, r>>

(* The leaves that node id covers are those from First(id) to Last(id) - 1. *)
First(id) == id[2] * Pow2[id[1]]
Last(id) == (id[2] + 1) * Pow2[id[1]]

(* Largest level of a perfect node that starts at b and stays below e. *)
FitLevel(b, e) == CHOOSE k \in 0..e : /\ b % Pow2[k] = 0 /\ b + Pow2[k] <= e
                                      /\ b % Pow2[k + 1] # 0 \/ b + Pow2[k + 1] > e

(* compact.RangeNodes: the perfect nodes that cover [begin, e), left to right. *)
RangeNodes(begin, e) ==
    LET cover[b \in 0..e] ==
          IF b = e THEN <<>>
          ELSE LET k == FitLevel(b, e)
               IN  <<NewNodeID(k, b \div Pow2[k])>> \o cover[b + Pow2[k]]
    IN  cover[begin]

(* Trailing one bits of n: how many nodes one more leaf completes. *)
Completed(n) == CHOOSE k \in 0..n : (n + 1) % Pow2[k] = 0 /\ (n + 1) % Pow2[k + 1] # 0

(* compact.Range.Append of leaf h to hashes hs of a range that ends at n:  *)
(* the hashes it keeps and the nodes it visits, (0, n) and every node the  *)
(* leaf completes.                                                         *)
RangeAppend(n, hs, h) ==
    LET t == Completed(n)
        up[j \in 0..t] == IF j = 0 THEN h ELSE HashChildren(hs[Len(hs) - j + 1], up[j - 1])
    IN  [hashes  |-> Append(SubSeq(hs, 1, Len(hs) - t), up[t]),
         visited |-> [id \in {NewNodeID(j, n \div Pow2[j]) : j \in 0..t} |-> up[id[1]]]]

(* compact.Range.GetRootHash: the hashes are joined from the right; each   *)
(* join is visited under the id of the parent of the hash on its left.     *)
GetRootHash(n, hs) ==
    LET ids == RangeNodes(0, n)
        join[i \in 1..Len(hs)] == IF i = Len(hs) THEN hs[i] ELSE HashChildren(hs[i], join[i + 1])
    IN  [root    |-> join[1],
         visited |-> [id \in {Parent(ids[i]) : i \in 1..(Len(hs) - 1)} |->
                         join[CHOOSE i \in 1..(Len(hs) - 1) : Parent(ids[i]) = id]]]
-----------------------------------------------------------------------------
(* RFC 6962, section 2.1, over leaves b+1..e: the reference.               *)

(* The largest power of two below n. *)
Split(n) == CHOOSE k \in {Pow2[i] : i \in 0..n} : k < n /\ 2 * k >= n

MTH(b, e) ==
    LET mth[n \in Nat] ==
          [i \in Nat |-> IF n <= 1 THEN HashLeaf(i + 1)
                         ELSE HashChildren(mth[Split(n)][i], mth[n - Split(n)][i + Split(n)])]
    IN  mth[e - b][b]

NodeMTH(id) == MTH(First(id), Last(id))

(* The compact range of the first n leaves. *)
RangeHashes(n) == [i \in DOMAIN RangeNodes(0, n) |-> NodeMTH(RangeNodes(0, n)[i])]
=============================================================================
