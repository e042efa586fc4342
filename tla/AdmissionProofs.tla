--------------------------- MODULE AdmissionProofs ---------------------------
(***************************************************************************)
(* Theorems about Admission for any submitters, keys, key rotations and    *)
(* bodies: a stored commitment is a pair that was signed, and the metadata *)
(* of a row describes its entry.  They rest on signatures that nobody else *)
(* can make (SignaturesAssumption) and on hashes of one length.            *)
(***************************************************************************)
EXTENDS Admission, SequenceTheorems, TLAPS

(* Texts whose tails have the same length are cut in one way. *)
LEMMA SplitIsUnique ==
    ASSUME NEW S, NEW a \in Seq(S), NEW b \in Seq(S), NEW c \in Seq(S), NEW d \in Seq(S),
           a \o b = c \o d, Len(b) = Len(d)
    PROVE  a = c /\ b = d
<1>1. Len(a) \in Nat /\ Len(b) \in Nat /\ Len(c) \in Nat /\ Len(d) \in Nat
  OBVIOUS
<1>2. /\ Len(a \o b) = Len(a) + Len(b) /\ Len(c \o d) = Len(c) + Len(d)
      /\ \A i \in 1..(Len(a) + Len(b)) : (a \o b)[i] = IF i <= Len(a) THEN a[i] ELSE b[i - Len(a)]
      /\ \A i \in 1..(Len(c) + Len(d)) : (c \o d)[i] = IF i <= Len(c) THEN c[i] ELSE d[i - Len(c)]
  BY ConcatProperties
<1>3. Len(a) = Len(c)
  BY <1>1, <1>2
<1>4. \A i \in 1..Len(a) : a[i] = c[i]
  <2> TAKE i \in 1..Len(a)
  <2>1. i \in 1..(Len(a) + Len(b)) /\ i \in 1..(Len(c) + Len(d)) /\ i <= Len(a) /\ i <= Len(c)
    BY <1>1, <1>3
  <2> QED BY <1>2, <2>1
<1>5. \A i \in 1..Len(b) : b[i] = d[i]
  <2> TAKE i \in 1..Len(b)
  <2> DEFINE k == Len(a) + i
  <2>1. /\ k \in 1..(Len(a) + Len(b)) /\ k \in 1..(Len(c) + Len(d))
        /\ ~(k <= Len(a)) /\ ~(k <= Len(c))
        /\ k - Len(a) = i /\ k - Len(c) = i
    BY <1>1, <1>3
  <2> HIDE DEF k
  <2>2. (a \o b)[k] = b[k - Len(a)]
    BY <1>2, <2>1
  <2>3. (c \o d)[k] = d[k - Len(c)]
    BY <1>2, <2>1
  <2> QED BY <2>1, <2>2, <2>3
<1> QED BY <1>3, <1>4, <1>5, SeqEqual

-----------------------------------------------------------------------------
(* What the process has loaded are keys. *)
KeysLoaded ==
    /\ keyFiles \in [Submitters -> Keys \cup {Nil, "broken"}]
    /\ coordKeys # Nil => coordKeys \in [Submitters -> Keys \cup {Nil}]

AdmissionInv == KeysLoaded /\ CommitmentsSigned /\ MetadataDescribesEntry

(* A commitment that validates is a signed pair. *)
LEMMA CommitmentIsSigned ==
    ASSUME KeysLoaded, coordKeys # Nil, NEW body \in Bodies, ValidateCommitment(body)
    PROVE  \E pair \in SignedPairs :
              /\ pair.job = Value(body, 1) /\ pair.hash = Value(body, 2)
              /\ Value(body, 3) = Sig(pair.key, pair.job \o pair.hash)
<1> DEFINE submitter == Value(body, 4)[1]
           key == coordKeys[submitter]
<1>1. /\ Present(body, {1, 2, 3}) /\ body.fields[1] # Nil /\ body.fields[2] # Nil
      /\ Len(Value(body, 2)) = CommitmentHashLen
      /\ submitter \in Submitters /\ key # Nil
      /\ Value(body, 3) = Sig(key, Value(body, 1) \o Value(body, 2))
  BY DEF ValidateCommitment, Present, CommitmentSignature
<1>2. key \in Keys
  BY <1>1 DEF KeysLoaded
<1>3. Value(body, 1) \in Seq(Symbols) /\ Value(body, 2) \in Seq(Symbols)
  BY <1>1, TextsAssumption DEF Value
<1> HIDE DEF key
<1>4. PICK pair \in SignedPairs : pair.key = key /\ pair.job \o pair.hash = Value(body, 1) \o Value(body, 2)
  BY <1>1, <1>2, SignaturesAssumption
<1>5. pair.job \in Seq(Symbols) /\ pair.hash \in Seq(Symbols) /\ Len(pair.hash) = CommitmentHashLen
  BY PairsAssumption
<1>6. pair.job = Value(body, 1) /\ pair.hash = Value(body, 2)
  <2> DEFINE a == pair.job
             b == pair.hash
             c == Value(body, 1)
             d == Value(body, 2)
  <2>1. /\ a \in Seq(Symbols) /\ b \in Seq(Symbols) /\ c \in Seq(Symbols) /\ d \in Seq(Symbols)
        /\ a \o b = c \o d /\ Len(b) = Len(d)
    BY <1>1, <1>3, <1>4, <1>5
  <2> HIDE DEF a, b, c, d
  <2>2. \A w, x, y, z \in Seq(Symbols) : w \o x = y \o z /\ Len(x) = Len(z) => w = y /\ x = z
    BY SplitIsUnique
  <2>3. \A x, z \in Seq(Symbols) : a \o x = c \o z /\ Len(x) = Len(z) => a = c /\ x = z
    BY ONLY <2>1, <2>2, Zenon
  <2>4. a = c /\ b = d
    BY ONLY <2>1, <2>3, Zenon
  <2> QED BY <2>4 DEF a, b, c, d
<1> QED BY <1>1, <1>4, <1>6

(* The entry that is stored is of the type that was peeked. *)
LEMMA ValidatedType ==
    ASSUME NEW body, Validate(body)
    PROVE  /\ body.peeked = body.type /\ Unmarshal(body, body.type)
           /\ body.type = "Commitment" => ValidateCommitment(body)
BY DEF Validate, ValidateHA, ValidateLA, ValidateConfig, ValidateCommitment

LEMMA SubmitEntryInv == ASSUME AdmissionInv, SubmitEntry PROVE AdmissionInv'
<1>1. PICK submitter \in Submitters, key \in Keys, body \in Bodies :
         /\ coordKeys # Nil /\ Validate(body)
         /\ rows' = rows \cup {[entryType |-> body.peeked, body |-> body, submitterID |-> submitter,
                                metadata |-> ExtractMetadata(body.peeked, body)]}
         /\ UNCHANGED <<keyFiles, coordKeys>>
  BY DEF SubmitEntry
<1> DEFINE new == [entryType |-> body.peeked, body |-> body, submitterID |-> submitter,
                   metadata |-> ExtractMetadata(body.peeked, body)]
<1>2. /\ new.entryType = body.peeked /\ new.body = body
      /\ new.metadata = ExtractMetadata(body.peeked, body)
  OBVIOUS
<1>3. /\ body.peeked = body.type /\ Unmarshal(body, body.type)
      /\ body.type = "Commitment" => ValidateCommitment(body)
  BY <1>1, ValidatedType
<1>4. rows' = rows \cup {new}
  BY <1>1
<1> HIDE DEF new
<1>5. KeysLoaded'
  BY <1>1 DEF AdmissionInv, KeysLoaded
<1>6. CommitmentsSigned'
  <2>1. body.type = "Commitment" =>
          \E pair \in SignedPairs :
              /\ pair.job = Value(body, 1) /\ pair.hash = Value(body, 2)
              /\ Value(body, 3) = Sig(pair.key, pair.job \o pair.hash)
    BY <1>1, <1>3, CommitmentIsSigned DEF AdmissionInv
  <2> QED BY <1>1, <1>2, <1>4, <2>1 DEF AdmissionInv, CommitmentsSigned
<1>7. MetadataDescribesEntry'
  <2>1. /\ body.type # "Config" => new.metadata.jobID = body.fields[1]
        /\ body.type = "HA" => new.metadata.teePlatform = body.fields[2]
    BY <1>2, <1>3 DEF ExtractMetadata
  <2> QED BY <1>2, <1>3, <1>4, <2>1 DEF AdmissionInv, MetadataDescribesEntry
<1> QED BY <1>5, <1>6, <1>7 DEF AdmissionInv

(* A process that starts has loaded keys only. *)
LEMMA ServeInv == ASSUME AdmissionInv, Serve PROVE AdmissionInv'
<1>1. UNCHANGED <<keyFiles, rows>>
  BY DEF Serve
<1>2. KeysLoaded'
  <2>1. CASE "broken" \in {keyFiles[s] : s \in Submitters}
    BY <1>1, <2>1 DEF AdmissionInv, KeysLoaded, Serve
  <2>2. CASE "broken" \notin {keyFiles[s] : s \in Submitters}
    <3>1. coordKeys' = keyFiles
      BY <2>2 DEF Serve
    <3>2. keyFiles \in [Submitters -> Keys \cup {Nil}]
      BY <2>2 DEF AdmissionInv, KeysLoaded
    <3> QED BY <1>1, <3>1, <3>2 DEF AdmissionInv, KeysLoaded
  <2> QED BY <2>1, <2>2
<1>3. CommitmentsSigned'
  BY <1>1 DEF AdmissionInv, CommitmentsSigned
<1>4. MetadataDescribesEntry'
  BY <1>1 DEF AdmissionInv, MetadataDescribesEntry
<1> QED BY <1>2, <1>3, <1>4 DEF AdmissionInv

LEMMA AdmissionInvNext == AdmissionInv /\ [Next]_vars => AdmissionInv'
<1>1. ASSUME AdmissionInv, ReplaceKeyFile PROVE AdmissionInv'
  <2>1. KeysLoaded'
    BY <1>1 DEF ReplaceKeyFile, AdmissionInv, KeysLoaded
  <2> QED BY <1>1, <2>1 DEF ReplaceKeyFile, AdmissionInv, CommitmentsSigned, MetadataDescribesEntry
<1>2. ASSUME AdmissionInv, UNCHANGED vars PROVE AdmissionInv'
  BY <1>2 DEF vars, AdmissionInv, KeysLoaded, CommitmentsSigned, MetadataDescribesEntry
<1> QED BY <1>1, <1>2, SubmitEntryInv, ServeInv DEF Next

THEOREM AdmissionInvariance == Spec => []AdmissionInv
<1>1. Init => AdmissionInv
  BY DEF Init, AdmissionInv, KeysLoaded, CommitmentsSigned, MetadataDescribesEntry
<1> QED BY <1>1, AdmissionInvNext, PTL DEF Spec

(* Job and hash of a stored commitment were signed as this pair, by the    *)
(* signature stored with them, although it is over their concatenation     *)
(* (policy/commitment.go:23-46).                                           *)
THEOREM CommitmentsAlwaysSigned == Spec => []CommitmentsSigned
<1>1. AdmissionInv => CommitmentsSigned
  BY DEF AdmissionInv
<1> QED BY <1>1, AdmissionInvariance, PTL

(* The columns entry_type, job_id and tee_platform of a row say of the     *)
(* entry what whoever decodes it reads (handlers.go:34-65).                *)
THEOREM MetadataAlwaysDescribes == Spec => []MetadataDescribesEntry
<1>1. AdmissionInv => MetadataDescribesEntry
  BY DEF AdmissionInv
<1> QED BY <1>1, AdmissionInvariance, PTL
=============================================================================
