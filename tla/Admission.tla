----------------------------- MODULE Admission -----------------------------
(***************************************************************************)
(* What an entry has to pass before it is stored: the header signature     *)
(* (internal/api/auth.go), the peek at its type (internal/entry/cbor.go)   *)
(* and the registration policy (internal/policy), with the coordinator     *)
(* keys loaded at start-up (cmd/atl/main.go:101-140).                      *)
(*                                                                         *)
(* The body of a request is a CBOR map: what the peek and what a struct    *)
(* read at key 0, which may differ when the key comes twice, and the       *)
(* values at keys 1 to 5, each of a CBOR kind or absent (Nil, also for an  *)
(* empty one).  Texts and bytes are sequences.  A signature is its key     *)
(* followed by the bytes it is over, and nobody else can make it.          *)
(***************************************************************************)
EXTENDS Naturals, Sequences, FiniteSets

CONSTANTS Submitters,         \* ids of coordinators
          Keys,               \* their key pairs
          Symbols,            \* what texts and bytes are sequences of
          Bodies,             \* bodies of requests
          SignedPairs,        \* [key, job, hash]: the commitments that were signed
          AllowedSubmitters,  \* ATL_ALLOWED_SUBMITTERS, all when empty
          SupportedPlatforms,
          CommitmentHashLen,  \* 32 in the code
          MaxEntries,         \* bound on the rows stored
          Nil

ASSUME TextsAssumption == \A body \in Bodies : \A k \in 1..5 :
                              body.fields[k] # Nil => body.fields[k].value \in Seq(Symbols)

(* A coordinator signs jobs with SHA-256 hashes. *)
ASSUME PairsAssumption == \A pair \in SignedPairs :
                              /\ pair.job \in Seq(Symbols) /\ pair.hash \in Seq(Symbols)
                              /\ Len(pair.hash) = CommitmentHashLen

Types == {"HA", "LA", "Config", "Commitment"}
ValidEvents == {<<"key_creation">>, <<"key_rotation">>, <<"key_revocation">>}

VARIABLES keyFiles,  \* key file of each submitter: a key, "broken" or Nil
          coordKeys, \* the keys the process has loaded, or Nil while it is down
          rows       \* atl_entries

vars == <<keyFiles, coordKeys, rows>>

Init == /\ keyFiles \in [Submitters -> Keys \cup {Nil}]
        /\ coordKeys = Nil
        /\ rows = {}
-----------------------------------------------------------------------------
Sig(key, payload) == <<key>> \o payload

(* verifyCoordinatorAuth: [submitter, key] are the headers of the request, *)
(* key the one its signature over the body was made with.                  *)
VerifyCoordinatorAuth(submitter, key) ==
    /\ AllowedSubmitters # {} => submitter \in AllowedSubmitters
    /\ coordKeys[submitter] # Nil /\ coordKeys[submitter] = key

(* CBOR kinds of the struct fields at keys 1 to 5. *)
Kinds == [HA |-> <<"text", "text", "bytes", "bytes", "text">>,
          LA |-> <<"text", "text", "text", "text", "bytes">>,
          Config |-> <<"text", "bytes", "bytes", "text", "int">>,
          Commitment |-> <<"text", "bytes", "bytes", "text", "int">>]

Unmarshal(body, type) ==
    \A k \in 1..5 : body.fields[k] # Nil => body.fields[k].kind = Kinds[type][k]

Present(body, keys) == \A k \in keys : body.fields[k] # Nil
Value(body, k) == body.fields[k].value

(* main.go registers no AttestationVerifier, so none runs. *)
ValidateHA(body) ==
    /\ Unmarshal(body, "HA") /\ body.type = "HA"
    /\ Present(body, {1, 2, 3, 5})
    /\ Value(body, 2) \in SupportedPlatforms

(* Variant for a mutant: the type of the entry is not looked at again. *)
ValidateLAAnyType(body) == Unmarshal(body, "LA") /\ Present(body, {2, 4})

ValidateLA(body) ==
    /\ Unmarshal(body, "LA") /\ body.type = "LA"
    /\ Present(body, {2, 4})

ValidateConfig(body) ==
    /\ Unmarshal(body, "Config") /\ body.type = "Config"
    /\ Present(body, {1, 2, 4})
    /\ Value(body, 1) \in ValidEvents
    /\ Value(body, 1) = <<"key_rotation">> => Present(body, {3})

(* Nobody else can make a signature: one that verifies in a request is over *)
(* the bytes of a pair that was signed with the key.                       *)
ASSUME SignaturesAssumption ==
    \A body \in Bodies, key \in Keys :
        /\ Present(body, {1, 2, 3})
        /\ Value(body, 3) = Sig(key, Value(body, 1) \o Value(body, 2))
        => \E pair \in SignedPairs :
              pair.key = key /\ pair.job \o pair.hash = Value(body, 1) \o Value(body, 2)

CommitmentSignature(body) ==
    LET submitter == Value(body, 4)[1]
    IN  /\ submitter \in Submitters /\ coordKeys[submitter] # Nil
        /\ Value(body, 3) = Sig(coordKeys[submitter], Value(body, 1) \o Value(body, 2))

(* Variant for a mutant: a hash of any length is taken. *)
ValidateCommitmentAnyLength(body) ==
    /\ Unmarshal(body, "Commitment") /\ body.type = "Commitment"
    /\ Present(body, {1, 2, 3, 4})
    /\ CommitmentSignature(body)

ValidateCommitment(body) ==
    /\ Unmarshal(body, "Commitment") /\ body.type = "Commitment"
    /\ Present(body, {1, 2, 3, 4})
    /\ Len(Value(body, 2)) = CommitmentHashLen
    /\ CommitmentSignature(body)

(* Validate, by the peeked type. *)
Validate(body) == \/ body.peeked = "HA" /\ ValidateHA(body)
                  \/ body.peeked = "LA" /\ ValidateLA(body)
                  \/ body.peeked = "Config" /\ ValidateConfig(body)
                  \/ body.peeked = "Commitment" /\ ValidateCommitment(body)

(* extractMetadata: job_id and tee_platform of the row. *)
ExtractMetadata(type, body) ==
    IF type = "Config" \/ ~Unmarshal(body, type) THEN [jobID |-> Nil, teePlatform |-> Nil]
    ELSE [jobID |-> body.fields[1], teePlatform |-> IF type = "HA" THEN body.fields[2] ELSE Nil]
-----------------------------------------------------------------------------
(* The operator replaces a file in the key directory. *)
ReplaceKeyFile == \E s \in Submitters, file \in Keys \cup {Nil, "broken"} :
    /\ keyFiles' = [keyFiles EXCEPT ![s] = file]
    /\ UNCHANGED <<coordKeys, rows>>

(* The process starts: it ends with an error when any file is broken. *)
Serve == LET files == {keyFiles[s] : s \in Submitters}
         IN  /\ coordKeys' = IF "broken" \in files THEN Nil ELSE keyFiles
             /\ UNCHANGED <<keyFiles, rows>>

(* POST /v1/entries, one request that is stored; the replies 400, 401 and  *)
(* 409 leave everything as it is.                                          *)
SubmitEntry == \E submitter \in Submitters, key \in Keys, body \in Bodies :
    /\ coordKeys # Nil /\ Cardinality(rows) < MaxEntries
    /\ VerifyCoordinatorAuth(submitter, key)
    /\ body.peeked # Nil
    /\ Validate(body)
    /\ \A row \in rows : row.body # body
    /\ rows' = rows \cup {[entryType |-> body.peeked, body |-> body, submitterID |-> submitter,
                           metadata |-> ExtractMetadata(body.peeked, body)]}
    /\ UNCHANGED <<keyFiles, coordKeys>>

Next == ReplaceKeyFile \/ Serve \/ SubmitEntry

Spec == Init /\ [][Next]_vars
-----------------------------------------------------------------------------
(* The job and the hash of a stored commitment were signed as this pair,   *)
(* and the signature stored with them is that one, although it is over     *)
(* their concatenation, which can be split elsewhere                       *)
(* (internal/policy/commitment.go:23-46).  Whose key it was made with      *)
(* cannot be told: which key a submitter had is stored nowhere.            *)
CommitmentsSigned ==
    \A row \in rows : row.body.type = "Commitment" =>
        \E pair \in SignedPairs :
            /\ pair.job = Value(row.body, 1) /\ pair.hash = Value(row.body, 2)
            /\ Value(row.body, 3) = Sig(pair.key, pair.job \o pair.hash)

(* The columns entry_type, job_id and tee_platform of a row say of the     *)
(* entry what whoever decodes it reads, although type, policy and metadata *)
(* decode it separately (handlers.go:34-65).  The column submitter_id is   *)
(* the header's, which nothing compares with the entry's.                  *)
MetadataDescribesEntry ==
    \A row \in rows :
        /\ row.entryType = row.body.type /\ Unmarshal(row.body, row.body.type)
        /\ row.body.type # "Config" => row.metadata.jobID = row.body.fields[1]
        /\ row.body.type = "HA" => row.metadata.teePlatform = row.body.fields[2]
=============================================================================
