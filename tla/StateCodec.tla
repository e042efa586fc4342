----------------------------- MODULE StateCodec -----------------------------
(***************************************************************************)
(* The columns of tree_state: encodeHashes, decodeHashes, encodeNodeMap    *)
(* and decodeNodeMap (internal/store/tree_state.go:49-127), which write    *)
(* lengths before bytes and find them again by position.  A byte is a      *)
(* record: the hash it belongs to, or Nil, and its value, so that reading  *)
(* at a wrong position gives some number and never the hash.               *)
(***************************************************************************)
EXTENDS CompactRange

HashSize == 2   \* bytes of a hash, 32 in the code
-----------------------------------------------------------------------------
Byte(n) == [of |-> Nil, value |-> n]
HashBytes(h) == IF h = Nil THEN <<>> ELSE [k \in 1..HashSize |-> [of |-> h, value |-> k]]

(* The hash whose bytes these are, or Nil if they are no hash. *)
HashOf(bytes) ==
    IF bytes # <<>> /\ bytes = HashBytes(bytes[1].of) THEN bytes[1].of ELSE Nil

(* n >> (8 * k). *)
Shifted(n, k) ==
    LET shifted[i \in 0..k] == IF i = 0 THEN n ELSE shifted[i - 1] \div 256 IN shifted[k]

(* A size is a uint64. *)
ASSUME SizeAssumption == Shifted(MaxSize, 8) = 0

(* binary.BigEndian: the bytes of n, cut to the width, and their number. *)
BigEndian(width, n) == [k \in 1..width |-> Byte(Shifted(n, width - k) % 256)]
Uint(bytes) ==
    LET value[k \in 0..Len(bytes)] == IF k = 0 THEN 0 ELSE 256 * value[k - 1] + bytes[k].value
    IN  value[Len(bytes)]

(* [count:4], then for each hash what is written before its length, [len:4] *)
(* and [bytes].                                                            *)
Column(heads, hs) ==
    LET buf[i \in 0..Len(hs)] ==
          IF i = 0 THEN BigEndian(4, Len(hs))
          ELSE buf[i - 1] \o heads[i] \o BigEndian(4, Len(HashBytes(hs[i]))) \o HashBytes(hs[i])
    IN  buf[Len(hs)]

encodeHashes(hs) == Column([i \in DOMAIN hs |-> <<>>], hs)

(* [level:4][index:8] stands before the length.  The nodes are written in  *)
(* the order in which Go goes through the map.                             *)
encodeNodeMap(order, nodes) ==
    Column([i \in DOMAIN order |-> BigEndian(4, order[i][1]) \o BigEndian(8, order[i][2])],
           [i \in DOMAIN order |-> nodes[order[i]]])

(* What a decoder has read: the field that ends at byte last is added. *)
Take(data, head, d, last) ==
    [pos |-> last, stopped |-> FALSE,
     fields |-> Append(d.fields, [head |-> SubSeq(data, d.pos + 1, d.pos + head),
                                  hash |-> HashOf(SubSeq(data, d.pos + head + 1, last))])]

(* The length of the hash behind the head at d.pos. *)
HashLength(data, head, d) == Uint(SubSeq(data, d.pos + head - 3, d.pos + head))

(* Variants for mutants: a hash that is cut is taken as it is, or the      *)
(* position does not pass the head of a field.                             *)
ReadFieldClipped(data, head, d) ==
    IF d.stopped \/ d.pos + head > Len(data) THEN [d EXCEPT !.stopped = TRUE]
    ELSE LET last == d.pos + head + HashLength(data, head, d)
         IN  Take(data, head, d, IF last > Len(data) THEN Len(data) ELSE last)

ReadFieldNoHead(data, head, d) ==
    IF d.stopped \/ d.pos + head > Len(data) \/ d.pos + head + HashLength(data, head, d) > Len(data)
    THEN [d EXCEPT !.stopped = TRUE]
    ELSE [Take(data, head, d, d.pos + head + HashLength(data, head, d)) EXCEPT
              !.pos = d.pos + HashLength(data, head, d)]

(* One turn of a decoder's loop: the head of a field, whose last four      *)
(* bytes are the length of the hash behind it.  Data that ends too early   *)
(* stops the loop, with no error.                                          *)
ReadField(data, head, d) ==
    IF d.stopped \/ d.pos + head > Len(data) \/ d.pos + head + HashLength(data, head, d) > Len(data)
    THEN [d EXCEPT !.stopped = TRUE]
    ELSE Take(data, head, d, d.pos + head + HashLength(data, head, d))

Fields(data, head) ==
    IF Len(data) < 4 THEN <<>>
    ELSE LET count == Uint(SubSeq(data, 1, 4))
             read[i \in 0..count] ==
               IF i = 0 THEN [pos |-> 4, stopped |-> FALSE, fields |-> <<>>]
               ELSE ReadField(data, head, read[i - 1])
         IN  read[count].fields

decodeHashes(data) ==
    LET fields == Fields(data, 4) IN [i \in DOMAIN fields |-> fields[i].hash]

NodeOf(field) == NewNodeID(Uint(SubSeq(field.head, 1, 4)), Uint(SubSeq(field.head, 5, 12)))

decodeNodeMap(data) ==
    LET fields == Fields(data, 16)
        ids == {NodeOf(fields[i]) : i \in DOMAIN fields}
        Latest(id) == CHOOSE i \in DOMAIN fields :
                       NodeOf(fields[i]) = id /\ \A j \in DOMAIN fields : NodeOf(fields[j]) = id => j <= i
    IN  [id \in ids |-> fields[Latest(id)].hash]
=============================================================================
