----------------------------- MODULE BenchClient -----------------------------
(***************************************************************************)
(* The benchmark tools next to a server that other clients use too.        *)
(* cmd/bench and cmd/bench-compare submit one entry after the other, each  *)
(* with a random payload, first some that are not measured and then the    *)
(* samples; bench-compare asks for the inclusion proof of each sample      *)
(* before the next.  An error is log.Fatalf and the report is lost, only   *)
(* bench-compare passes over those of its warm-up.  Client is the server's *)
(* goroutine that serves the tool, which has one request open at a time.   *)
(* Left out: durations and their statistics, the signed-database baseline  *)
(* of bench-compare (a table of its own that nobody else uses), and        *)
(* log_size_start and log_size_end, which are only printed and are 0 next  *)
(* to any log: getTreeSize looks for the text key tree_size in a head      *)
(* whose keys are integers (bench/main.go:284, sth/types.go:5).            *)
(***************************************************************************)
EXTENDS LogServer

Tools == {"bench", "bench-compare"}

CONSTANTS Client,   \* the handler of the tool's requests
          Payloads, \* the leaves the tool submits, in order
          Warmup    \* how many of them each tool does not measure

ASSUME ClientAssumption == Client \in Handlers
ASSUME PayloadsAssumption == Payloads \in Seq(Leaves)
ASSUME WarmupAssumption == Warmup \in [Tools -> Nat]

VARIABLES tool,    \* which of the two runs
          step,    \* what it does next
          sent,    \* how many payloads it has submitted
          samples  \* leaf_index and tree_size of the measured replies

benchVars == <<tool, step, sent, samples>>

BenchInit == /\ Init
             /\ tool \in Tools
             /\ step = "start" /\ sent = 0 /\ samples = <<>>

(* The check of /health. *)
BenchStart == /\ step = "start"
              /\ step' = IF phase = "serving" THEN "submit" ELSE "fatal"
              /\ UNCHANGED <<vars, tool, sent, samples>>

Ignored(n) == tool = "bench-compare" /\ n <= Warmup[tool]

(* What the tool does when its n-th submission fails: the process ends, or *)
(* it goes on to the next one.                                             *)
SubmitFailed(n) ==
    /\ step' = IF Ignored(n) THEN "submit" ELSE "fatal"
    /\ samples' = IF Ignored(n) THEN samples ELSE <<>>

(* submitOne and atlWrite: a payload nobody has submitted before. *)
Submit == /\ step = "submit" /\ sent < Len(Payloads)
          /\ Receive(Client)
          /\ body'[Client] = Payloads[sent + 1]
          /\ step' = "wait" /\ sent' = sent + 1
          /\ UNCHANGED <<tool, samples>>

(* No listener. *)
SubmitRefused == /\ step = "submit" /\ sent < Len(Payloads)
                 /\ phase = "rebuild"
                 /\ sent' = sent + 1
                 /\ SubmitFailed(sent + 1)
                 /\ UNCHANGED <<vars, tool>>

(* The server works on the request. *)
SubmitServed == /\ Handle(Client)
                /\ pc'[Client] # "idle"
                /\ UNCHANGED benchVars

(* The server answers: 201 gives a sample once the warm-up is over.  The   *)
(* sample whose proof is pending is the last one.                          *)
SubmitAnswered ==
    /\ Handle(Client)
    /\ pc'[Client] = "idle"
    /\ \/ /\ created' = created
          /\ SubmitFailed(sent)
       \/ \E reply \in created' \ created :
             /\ samples' = IF sent <= Warmup[tool] THEN samples
                           ELSE Append(samples, [leafIndex |-> reply.leafIndex,
                                                 treeSize |-> reply.sth.treeSize])
             /\ step' = IF tool = "bench-compare" /\ sent > Warmup[tool] THEN "proof" ELSE "submit"
    /\ UNCHANGED <<tool, sent>>

(* atlProofGen, with the index and the size of the reply. *)
GetProof == /\ step = "proof"
            /\ LET sample == samples[Len(samples)]
               IN  step' = IF phase = "rebuild" THEN "fatal"
                           ELSE IF InclusionProof(sample.leafIndex, sample.treeSize) = Nil
                                THEN "refused" ELSE "submit"
            /\ UNCHANGED <<vars, tool, sent, samples>>

(* The report is written. *)
Report == /\ step = "submit" /\ sent = Len(Payloads)
          /\ step' = "done"
          /\ UNCHANGED <<vars, tool, sent, samples>>

(* The process dies; a request that is open gets no answer. *)
ServerCrash == /\ Crash
               /\ IF step = "wait" THEN SubmitFailed(sent) ELSE UNCHANGED <<step, samples>>
               /\ UNCHANGED <<tool, sent>>

(* A request of somebody else, or one of the tool's delivered again: the   *)
(* signature is over the body alone.                                       *)
OtherClient == \E h \in Handlers \ {Client} :
                  \/ /\ Receive(h)
                     /\ \A i \in DOMAIN Payloads : body'[h] = Payloads[i] => i <= sent
                  \/ Handle(h)

BenchNext == \/ BenchStart \/ Submit \/ SubmitRefused \/ SubmitServed \/ SubmitAnswered
             \/ GetProof \/ Report \/ ServerCrash
             \/ (OtherClient \/ RebuildNext \/ RebuildDone \/ Beat) /\ UNCHANGED benchVars

BenchSpec == BenchInit /\ [][BenchNext]_<<vars, benchVars>>
-----------------------------------------------------------------------------
(* The x axis of the report grows with every sample: each is further down  *)
(* the log and over a larger tree than the one before, also when a head of *)
(* another client is saved late or the server restarts between two samples *)
(* (bench/main.go:133-151, bench-compare/main.go:206-226).                 *)
SamplesAscend ==
    \A i \in DOMAIN samples : \A j \in 1..(i - 1) :
        /\ samples[j].treeSize < samples[i].treeSize
        /\ samples[j].leafIndex < samples[i].leafIndex

(* The proof of a sample is refused only if its index is not below its own *)
(* tree size: the server has never less than the tree whose size it        *)
(* signed, also after a restart between the reply and the request          *)
(* (bench-compare/main.go:374-386, handlers.go:167-196).                   *)
ProofsServed ==
    step = "refused" =>
        samples[Len(samples)].leafIndex >= samples[Len(samples)].treeSize
=============================================================================
