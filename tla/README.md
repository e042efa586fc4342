# Verification of the Epsilon Attestation Transparency Log (ATL)

TLA+ models of the log server in this repository, the TLC runs that check them
on small instances, and TLAPS proofs of what must hold for every instance. The
code is a Go server over PostgreSQL: clients submit CBOR entries, the server
stores them, appends their leaf hashes to an in-memory Merkle tree, signs a
tree head (STH) for every append and on a timer, and hands out receipts and
proofs.

## 1. The system

| Part | Code | State | Operations |
|---|---|---|---|
| Submission handler | `internal/api/handlers.go` `handleSubmitEntry` | locals of one goroutine per request | authenticate, decode, policy, leaf hash, dedup check, `AppendEntry`, `tree.Append`, `RootHash`, `Size`, `Sign`, `SaveSTH`, `CompactState`, `SaveTreeState`, receipt, reply |
| Entry store | `internal/store` | tables `atl_entries`, `tree_heads`, `tree_state`, the BIGSERIAL sequence of `leaf_index` | one SQL statement per method, no transactions |
| Merkle tree | `internal/merkle` | compact range (size, hashes), node cache, mutex | `Append`, `RootHash`, `Size`, `CompactState`, `RebuildNodeCache`, `RestoreFromState`, `InclusionProof`, `ConsistencyProof` |
| STH heartbeat | `internal/sth/heartbeat.go` | ticker | sign and save a head every MMD |
| STH signing, keys | `internal/sth` | operator key | sign, verify, generate, load |
| Receipts | `internal/receipt` | operator key | generate and verify a COSE_Sign1 receipt |
| Read API | `internal/api/handlers.go` | none | entry, inclusion proof, STH, consistency proof, metadata, health |
| Admission | `internal/api/auth.go`, `internal/policy`, `internal/entry` | allowed submitters, coordinator keys, PCR0 list | verify signature, decode, validate by entry type |
| Serve command | `cmd/atl/main.go`, `internal/api/server.go`, `docker-compose.yml` | process, listener, context, operator key | rebuild tree, load keys, start heartbeat and listener, shut down, close the database, restart; `keygen` |
| Configuration | `internal/config` | environment variables | load |
| Seeders | `cmd/seed`, `cmd/bench-scale` | write the tables past the server | seed entries, head, tree state; restart the server |
| Benchmarks | `cmd/bench`, `cmd/bench-compare`, `cmd/bench-scale` | samples | submit one after the other, ask for proofs, report |

How they interact. Handlers run concurrently, one goroutine per request, and
share the database and one `merkle.Tree`. Each `Tree` method holds the tree's
mutex while it runs, each store method is one SQL statement; *nothing* is held
from one call to the next. The heartbeat goroutine shares the tree and the
`tree_heads` table with them. At start-up, before the listener exists, the tree
is rebuilt from `atl_entries ORDER BY leaf_index`; `tree_state` is written but
never read back by the server. `docker-compose.yml:25` restarts a process that
dies.

What is hard, and what must hold of each part:

* **Submission** - two handlers between dedup check and INSERT, between INSERT
  and append, between `RootHash` and `Size`; a statement that fails after part
  of the work is done; a crash between any two calls. Correct when the tree
  holds each committed entry once and nothing else, a saved head covers durable
  entries only, and a reply stays true.
* **Store** - the sequence keeps the draws of INSERTs that fail, so
  `leaf_index` has gaps; the INSERT that commits and loses its reply.
* **Tree** - roots cache hashes of nodes that are not complete yet; proofs read
  nodes one by one while leaves are appended. Correct when roots and proofs are
  those of RFC 6962 for the size asked.
* **Heads** - heads are saved in another order than they are signed. Correct
  when every two heads are consistent, the size is that of the root, and the
  latest head is the newest.
* **Heartbeat** - must bring every entry of the tree under a saved head.
* **Start-up** - must rebuild a tree that extends every head signed before.
* **Life cycle** - the deadline of the shutdown cuts handlers anywhere, the
  database is closed under those that go on, a tick may come after the
  cancellation, the interval may make the ticker panic, the key file may change
  or be half written at a restart. Correct when none of this shows as anything
  but a crash with failed statements, a signal always ends the process, and the
  service comes back with heads that verify.
* **Seeding** - writes the tables past a running server and passes over errors.
  Correct when the restart serves every row, and what is signed is of one log as
  long as no error was passed over.
* **Columns of tree_state** - lengths and positions computed by hand. Correct
  when what is decoded is what was encoded, or visibly less. The server writes
  the row and never reads it; tests restore from it.
* **Benchmarks** - next to other clients and across restarts. Correct when the
  samples ascend and the log still proves what it has answered.

`PROJECT.json` lists the hazards with their lines and the properties aimed at
each.

## 2. Modules

| Module | Models | Built on |
|---|---|---|
| `TransparencyLog` | the promise: one growing log, heads are prefixes, 201 only for covered entries | - |
| `EntryStore` | the tables and the statements on them | - |
| `LogServer` | submission handlers, heartbeat, rebuild, crash over the store | `EntryStore`, refines `TransparencyLog` |
| `LogServerInv` | the inductive invariant of `LogServer` in named parts | `LogServer` |
| `LogServerProofs` | theorems and proofs, of handlers that race | `LogServerInv`, TLAPS |
| `SerialInv`, `SerialProofs` | the inductive invariant of requests and beats that do not overlap; theorems and proofs | `LogServerInv`, `LogServerProofs` |
| `MCLogServer` | small instances for TLC, of the runs that find a violation | `LogServer` |
| `Lifecycle` | process, listener, shutdown, heartbeat loop, keys and restart around `LogServer`'s steps | `LogServer`, which it refines |
| `LifecycleProofs` | that refinement, and what it carries over | `Lifecycle`, `SerialProofs`, TLAPS |
| `BenchClient` | `bench` and `bench-compare` next to other clients | `LogServer` |
| `BenchClientInv` | its inductive invariant | `BenchClient`, `LogServerInv` |
| `ReadApi` | the GET handlers and a monitor that verifies what it reads | `LogServer` |
| `Seeder` | `bench-scale` seeding the database next to a running server | `LogServer` |
| `SeederInv` | its inductive invariant | `Seeder`, `SerialInv` |
| `ClientProofs` | theorems and proofs about `ReadApi`, `Seeder` and `BenchClient` | these, `SerialProofs`, TLAPS |
| `CompactRange` | the compact range and RFC 6962's tree hash, as functions | - |
| `CompactRangeProofs` | what these functions compute, for every number of leaves | `CompactRange`, TLAPS |
| `MerkleTree` | node cache, roots and proofs, against RFC 6962 | `CompactRange` |
| `MerkleTreeProofs` | its inductive invariant, theorems and proofs | `MerkleTree`, `CompactRangeProofs` |
| `StateCodec` | the columns of `tree_state`, byte by byte | `CompactRange` |
| `TreeState` | the range handlers persist, its shared slice, the row, `LoadTreeState`, `RestoreFromState` | `StateCodec` |
| `TreeStateProofs` | the codec and the inductive invariant, theorems and proofs | `TreeState`, `CompactRangeProofs` |
| `Admission` | header signature, policy, metadata columns, coordinator keys | - |
| `AdmissionProofs` | theorems and proofs | `Admission`, TLAPS |
| `MCReadApi`, `MCSeeder`, `MCAdmission`, `MCLifecycle`, `MCBenchClient` | small instances for TLC | the module named |

### EntryStore

`entries` is `atl_entries` in commit order, each row its `leafIndex` (the
BIGSERIAL value, from 1) and `leafHash`. `AppendEntry` is two operators,
because PostgreSQL draws the sequence value before it checks `UNIQUE
(leaf_hash)` and does not give it back: `DrawIndex` and `CommitRow`. Every
other statement is one operator. `latestSTH` is the row that `ORDER BY id DESC
LIMIT 1` selects. A root hash is the sequence of leaf hashes under it, which is
what a collision-free hash identifies; the real hashes are in `MerkleTree`.
`MaxIndex` is the last value of the sequence, after which `nextval` fails; the
runs set it small, the proofs leave it open.

### LogServer

| Action | Code |
|---|---|
| `RebuildNext`, `RebuildDone` | `main.go:79-90`, `RebuildNodeCache` over `IterateLeafHashes`, one row a step |
| `Receive` | `handlers.go:15-50`; a leaf stands for an entry admission lets through |
| `DedupMiss`, `DedupConflict`, `DedupError` | `:54-62` |
| `InsertBegin`, `InsertCommit`, `InsertError`, `InsertAckLost` | `:69-73` |
| `TreeAppend` | `:77-80` |
| `ComputeRoot`, `Sign` | `:84-93`; `Sign` reads `tree.Size()` |
| `SaveHead`, `SaveHeadError` | `:94-97`; on an error the row may be saved or not |
| `CompactState`, `SaveState`, `SaveStateError` | `:101-105` |
| `Reply` with `Receipt` | `:107-146` |
| `BeatRoot`, `BeatSign`, `BeatSave`, `BeatError` | `heartbeat.go:39-69` |
| `Crash` | process dies, is restarted; tree, requests and heartbeat are gone |

`pc[h]` is the call handler `h` makes next, the other variables by handler are
the Go locals of the same name (`leafIndex` keeps the value of the database,
one more than the Go variable). `Faults` selects the statements that may fail;
`insertAck` is the one whose failure the process is wrongly told about: the row
is committed and `AppendEntry` returns an error.

Choices worth knowing:

* An INSERT in flight when the process dies is rolled back (`Crash`) or has
  committed before (`InsertCommit`, then `Crash`). One that outlives the process
  and commits after the restart's SELECT is, for the new process, the
  `insertAck` fault.
* The rebuild reads one snapshot while no handler runs, so row by row over the
  current table is the same, unless somebody else writes the table: see
  `Seeder`. A rebuild that fails ends the process: `Crash` (`Lifecycle`,
  `RebuildError`).
* `Reply` reads size and path in one step. They are several calls, but a later
  append does not change what the path of the size already read is, so no
  client can tell (`MerkleTree`, `AnswersCorrect`, is about the path).
* `Sign`, `HashLeaf` and the compact range cannot fail on these values; their
  error returns have no step.
* The heartbeat signs 32 zero bytes for the empty tree, here `<<>>`.
* Signatures, timestamps, `compact_hashes` (in `TreeState`) and reply timings
  are left out.

### Lifecycle

`LogServer` says what handlers and beats do, `Lifecycle` when they may and how
they end. Its steps are the actions of `LogServer` under the conditions of the
process, and steps of its own:

| Action | Code |
|---|---|
| `Start` | `main.go:47-76`: the key is read; without one the process exits and is started again |
| `Rebuild`, `RebuildError` | `main.go:79-90` |
| `Listen`, `ListenError` | `server.go:109-115, 122-123` |
| `Accept`, `ReadAll` | the connection and `io.ReadAll`, `handlers.go:18`; no timeout is set on it |
| `Signal`, `Shutdown`, `Drained`, `Deadline` | `main.go:163-171`, `server.go:117-121` |
| `Exit` | the command returns, `s.Close` was called: `main.go:57, 173` |
| `HandlerStep` with `SavesHead`, `DatabaseClosed` | a handler's step; once the database is closed its next statement fails |
| `HeartbeatStart`, `HeartbeatPanic`, `HeartbeatReturn`, `BeatStep` | `heartbeat.go:39-53`; `NewTicker` panics unless the interval is positive |
| `KeygenTruncate`, `KeygenWrite` | `main.go:204`, `os.WriteFile` |
| `Kill` | anything that ends the process from outside |

`proc` is where the command is, `listening` the listener, `reading` the
handlers whose body has not arrived, `cancelled` the context. `interval` is
`time.Duration(MMDSeconds) * time.Second` with its overflow, in `Width` bits.
`latestKey` is the key that signed the latest head, `operatorKey` the one the
process has loaded and `metadata` serves. However the process ends, the step is
`End`, which is `Crash` of `LogServer` and clears what only the process knew.
`MaxCrashes` bounds the ends, and a signal, which leads to one, needs one left.
A statement under way when `s.Close` runs may still be done, which is the step
before `Drained` or `Deadline`; a commit under way afterwards may be too.

### BenchClient

One of the handlers serves the tool, which has one request open at a time:
`Submit` is `Receive` of that handler, `SubmitAnswered` the step in which it
returns, with a 201 if `created` has grown. `OtherClient` is any other handler,
and may submit the tool's last entries again, since the signature is over the
body alone. An error ends the tool and its samples are lost; `bench-compare`
passes over those of its warm-up. `refused` is the end of `bench-compare` after
a proof was refused. This happens: a gap in `leaf_index`, or another client,
can leave a reply whose index is not below its tree size; `ProofsServed` says
that it is the only reason. The sizes of the log that the tools print at start
and end are not modelled (section 3, the end).

### MerkleTree

`end` and `hashes` are the compact range, `nodes` the cache, `rows` the
`leaf_index` column. `AppendLeaf`, `RootHash`, `Restart` are the methods under
the mutex with every node their visitors store; a proof is `InclusionProof` or
`ConsistencyProof` (the checks and the list of nodes), one `Fetch` per node with
`computeNode` behind it, and `Deliver` with `Rehash`. The compact and proof
packages of `transparency-dev/merkle` are external, modelled by what they
compute from their use here; what `TreeState` needs too is in `CompactRange`.
`MTH`, `InclusionPath` and `ConsistencyPath` are
RFC 6962's recursive definitions, the reference everything is compared with.
Proofs are asked for with sizes in range only; the refusals of the others are in
`InclusionProof` of `LogServer` and `ConsistencyProof` of `ReadApi`.

### TreeState

`CompactState` returns the slice of the live range and `SaveTreeState` encodes
it after the mutex is released, so a slice is modelled as Go has it: an array
and a length, `append` in place while the array has room and in a new array of
twice the length when it has not. `Encode` reads one element a step. `Restore`
is a new process that loads the row into a tree, whose array is then the
decoded one. `row` holds the columns as bytes, written with `encodeHashes` and
read with `decodeHashes` of `StateCodec`; `written` remembers what the bytes
were made from. The column of nodes is that of the empty map, whatever
`SaveTreeState` is given (`tree_state.go:16-17`): `StateComesBack` says that
size and hashes come back and nodes never do. Without a row `LoadTreeState`
returns a nil map, with which the next `Append` would panic: `TreeAppend` is
then disabled.

### StateCodec

A byte is a number together with the hash it is a byte of, if any, so that a
decoder that reads at a wrong position gets some number and never a hash.
`ReadField` is one turn of the loop of a decoder: head, length, hash, or an
early end without an error when the data stops. A hash has two bytes instead of
32; a number is cut to the 4 or 8 bytes it is written in (`BigEndian`), and the
one thing assumed is that a size is a `uint64` (`SizeAssumption`). The order in
which Go goes through a map is a parameter of `encodeNodeMap`, which the server
calls with the empty map only; that `decodeNodeMap` undoes it for any map and
order is the theorem `NodesComeBack`.

### ReadApi

The operators `GetEntry` (in `EntryStore`), `InclusionProof`,
`ConsistencyProof` are the replies of the GET handlers, with `Nil` for 400 and
404; `GetSTH` and
`GetConsistencyProof` are the two requests of a monitor that keeps the head it
verified last. The server may append, crash and rebuild between them. A proof
is written as the leaves it is computed from; `MerkleTree` shows that the node
cache gives just that.

### Seeder

`SeedStart` to `SeedSaveState` are `seedDirect`, with a tree of its own and the
tables of the server; `RestartATL` ends the server's process, or fails with a
warning (`main.go:287-290`). `seedDirect` does not look at the error of its
rebuild either (`:237-239`), and skips an entry on every error of
`AppendEntry` (`:259-262`), also when the row was committed and its result lost
(`SeedAckLost`): after both, its tree lacks rows. `ignored` has `"row"` once one
of these two has happened and `"restart"` once a restart has failed.
The benchmark submits only while it is not seeding,
which is the guard on `Receive` in `Serve`. A log that has its size already is
only restarted (`SeedNothing`). Since rows are committed while a server that
crashed rebuilds its tree, the rebuild reads the rows of one SELECT here:
`selected` is how many of them that statement sees (`SelectNext`, `SelectDone`).

### Admission

One request a step, since admission shares nothing but the keys loaded at
start-up. A body is what the code reads of it: the type it peeks at, the type a
struct decodes, which can differ when key 0 comes twice, and at keys 1 to 5 a
CBOR kind and a value. `ReplaceKeyFile` and `Serve` change the keys between
requests. A row has the entry and the columns made from it; its `submitter_id`
is the header's (`auth.go:12`, `handlers.go:69`).

## 3. Runs

| Run | Instance | Shows |
|---|---|---|
| `concurrent` | a benchmark of 2 entries and 1 other client, 3 leaves, 3 draws, 1 crash, inserts that fail or lose their acknowledgement | `TreeOfEntries`, `HeadsDurable`, `RepliesHold`, `EntryRetrieved`, `HeadSizesBounded`; `SamplesAscend`, `ProofsServed`; the inductive invariant `IInv`, which has `TypeOK` in it |
| `lifecycle` | 1 handler, 1 leaf, 2 draws, heartbeat, 2 ends of the process, failing heads and lost acknowledgements of an INSERT, one good interval and one that overflows, 1 key rotation | `LifeTypeOK`, `RepliesHold`, that the process implements `LogServer` (`ServerKept`); `Answered`, `EventuallyCovered`, `ShutdownEnds`, `ServesAgain`, `LatestVerifies` |
| `sequential` | 1 handler, the heartbeat, 3 leaves, 4 draws, 2 crashes, all reported faults, a monitor; beats between requests | `SthCommitsToTree`, `HeadsConsistent`, `ReceiptsVerify`, `LatestNeverShrinks`, `NoAlarm`, `EntriesIncluded`, `NoLostEntry`, that the server implements `TransparencyLog` (`PromiseKept`); the inductive invariant `SInv` |
| `merkle` | up to 7 leaves, a gap of 1, one reader | `TypeOK`, `CacheCorrect`, `RootsCorrect`, `AnswersCorrect` |
| `persisted` | 2 savers, up to 7 leaves, failing saves, restores, columns cut at every byte | `TypeOK`, `RowRestorable`, `StateComesBack`, `CutColumnRefused`, `RangeStaysCorrect` |
| `seeding` | 1 handler, 2 leaves, 3 draws, heartbeat, 1 crash, a seeder whose rebuild, INSERTs (also committed ones) and restarts may fail and are passed over | `HeadsOfOneLog`, `SeededServed`, `HeadsDurable`; the inductive invariant `SeedInv` |
| `admission` | 2880 bodies, 1 submitter, 2 keys, 1 row | `CommitmentsSigned`, `MetadataDescribesEntry` |

Why the bounds are enough. Two handlers are what every race in the code needs
(each shared call is atomic, so a race is one step between two of another's).
The leaves of `concurrent` allow both the same entry twice, when the tool's
entry is submitted again, and different entries in either order;
three draws leave one gap and still two rows; four draws for three leaves put
the gap before, between or after them. One crash shows every state a crash can leave,
two a crash during a rebuild. `bench` takes its first entry for the warm-up and
measures the second, `bench-compare` measures both and asks for their proofs,
so that a second sample is compared with a first one and a proof is asked for
between two submissions; a longer run repeats this. Warm-up errors that
`bench-compare` passes over are in the model and the theorems and not met in the
run. Seven leaves give
compact ranges of one, two and three hashes, ephemeral nodes, a right border of
every shape, and take a range through every growth of its array up to length
three; a gap shifts every later leaf of a rebuild. One reader is enough because
readers share only the cache. `concurrent` runs without the heartbeat to stay
small: its races with a handler are in `lifecycle` and `seeding`, and the
theorems have all of it together. The other statements fail in `sequential`,
and next to another client in the theorems. `lifecycle` has one handler and one leaf:
what it adds to `LogServer` are conditions of the process, which do not relate
two handlers; that it refines `LogServer` is proved for any number. Two ends of
the process let a restart meet what the one before it left, and what the second
one finds half done. Saves of heads fail by themselves in it, and an INSERT may
be committed and reported as failed; the other statements fail when the database
is closed, and in `sequential`.
Rows of `Admission` do not depend on each
other, so one is enough. Leaves, which are only compared, are symmetric in
`seeding` and `sequential`, which check no liveness; the two properties of steps
in `sequential` treat leaves alike. `MaxCrashes`,
`MaxIndex`, `MaxSize`, `MaxGap` and `MaxEntries` are the only counters bounded.

Runs that are expected to find a violation. Each checks what a comment or a
document of the repository says, on the smallest instance that breaks it; each
is a finding of `PROJECT.json`.

| Run | Says | Trace |
|---|---|---|
| `raced_sizes` | an STH commits to the tree state (`sth/types.go:3`) | another handler appends between `RootHash` and `Size` |
| `forked_history` | consistency between any two sizes (`bench-compare/main.go:420`) | appends in the order opposite to `leaf_index`, then a restart |
| `raced_receipts` | receipts verify (`bench-compare/main.go:417`) | the receipt mixes an old root with a new size and path |
| `leaf_index` | the leaf index (`store/entries.go:8`) | a gap in `leaf_index` |
| `aliased_state` | persists the compact range state (`store/tree_state.go:11`) | another handler appends into the slice that is being encoded |

This is why the properties of `sequential` are stated for requests and beats
that do not overlap (`OneAtATime`, `SerialSpec`) and without lost
acknowledgements: without these restrictions they do not hold of this code.
Besides the runs above, an INSERT that commits and loses its result
leaves a row that enters the tree at the next rebuild, before leaves published
without it; and a head signed earlier by the heartbeat and saved later, after
the one of a request, is served as the latest. One handler does for the run,
since at most one is ever under way; the theorems are for any number. The properties of `concurrent` hold without these
restrictions. In `seeding`, `HeadsOfOneLog` holds until `bench-scale` passes over
any of its three errors (`main.go:237-239, 259-262, 287-290`), `SeededServed`
until a restart fails (`:287-290`), `HeadsDurable` and `SeedInv` in any case.

`EventuallyCovered` is about what the process holds (`Held`): in its tree, about
to be appended, or read by the rebuild that goes on. An entry whose INSERT lost
its result is in none of these before the next start, and no beat covers it until
then. The run has such entries, and checks that the next start brings them under
a head. `NoLostEntry` assumes that no acknowledgement is lost, and is in
`sequential` and in a theorem for any life of the process.

Disagreements that were seen while modelling and have no run of their own:

* `log_size_start` and `log_size_end` of the benchmarks are 0 for every log:
  `getTreeSize` looks for the text key `tree_size` (`bench/main.go:284`,
  `bench-scale/main.go:387`) in a `SignedTreeHead` that is encoded with integer
  keys (`handlers.go:208`, `sth/types.go:5`). `results/table5.json` shows the 0
  next to leaf indexes of a log with many entries.
* `store_test.go:143` expects the two nodes back that it gave to
  `SaveTreeState`, which saves none (`tree_state.go:16-17`).
* `policy/commitment.go:36` calls the signatures of commitments "auditable
  offline from the log archive alone". The key is looked up among those that
  are configured now (`:37-39`), and which key a stored one was checked with is
  kept nowhere: after a key file is replaced an auditor cannot tell.
  `CommitmentsSigned` only says that some key signed that very pair.
* The column `submitter_id` is the header's and the entry has one of its own;
  nothing compares them. `MetadataDescribesEntry` is about the other columns.

Fairness (`FairSpec` of `Lifecycle`). Weak fairness of each handler, of the
rebuild and of the heartbeat's start and beats: Go schedules a goroutine that
can run, a query returns or fails, the ticker fires. Weak fairness of `Start`
(docker-compose restarts), `Listen`, `Shutdown`, `Drained \/ Deadline` (the
timer of the context) and `Exit`; of `KeygenWrite`, a program that has begun.
Strong fairness of a beat that saves: a statement may fail any number of times
but not every time. No fairness of `Accept` and `ReadAll` (clients need not
come, nor send what they announced), of signals, failures or the end of the
process. `EventuallyCovered`, `ServesAgain` and `LatestVerifies` assume a
positive interval: with another one the process panics at each start.

## 4. Proofs

`LogServerProofs` proves, for every set of handlers and leaves, every
`MaxIndex` and `MaxCrashes`, with or without heartbeat, and every set of
faults:

* `TypeCorrect`, `TreeHoldsEntriesOnce` (`TreeOfEntries`),
  `RootsCoverDurableEntries` (`HeadsDurable`), `RepliesAreKept`
  (`RepliesHold`), `SizesAreBounded` (`HeadSizesBounded`), `RepliesRetrieve`
  (`EntryRetrieved`);
* `NothingLost` (`NoLostEntry`), assuming `"insertAck" \notin Faults`, which is
  needed: a lost acknowledgement does leave a row that no handler appends.

Assumed are only the named assumptions on the constants, which TLC evaluates in
every run: `MaxIndex`, `MaxCrashes`, `MaxSize` and `MaxGap` are naturals, `Nil`
is no leaf, no sequence of leaves, no proof and no hash of a tree, `Faults` is
among `FaultKinds`, `Heartbeat` a Boolean, `Duration` gives integers, the
benchmark's client is a handler and its entries are leaves, a size fits in 8
bytes, and those of `Admission` below.

The argument is the invariant `IInv` (`LogServerInv`), whose parts say what the
properties do not:

* `RowsUnique`, `IndexesDrawn` - no index is used twice and each handler that
  is about to commit has one of its own;
* `AppendsNew` - the handler about to append is the only one with its leaf,
  and its leaf is committed and not in the tree. This is what makes
  `TreeOfEntries` inductive: the commit is where the UNIQUE constraint decides
  the race of two handlers, and the append comes later;
* `QuietRebuild`, `RebuildSoFar` - while the tree is rebuilt nothing else runs
  and the tree holds exactly the rows up to the cursor;
* `RootsDurable` - every root in a local or a table covers committed leaves
  only, and its size is at least the number of leaves and at most the number of
  rows. The upper bound needs that the tree is no longer than the table, a
  cardinality argument (`TreeNoLonger`) from distinct leaves that are all
  committed;
* `BodyCovered` - from `ComputeRoot` on the root holds the handler's leaf, from
  `SaveHead` on a saved head does: what makes a 201 true.

`RepliesRetrieve` needs one more invariant, `RepliesAtRow`: from its commit on a
handler knows the index of its row, and so does the client it has replied to.
It is inductive because rows are only added (`RowsGrow`), and it suffices
because `RowsUnique` leaves `GetEntry` one row to choose at an index.

Every action has a lemma that it preserves `IInv`; actions that touch neither
rows, tree nor heads share `QuietStep` and `QuietReturn`.

`LifecycleProofs` proves that `Lifecycle` refines `LogServer` for every set of
handlers, every interval and any number of ends (`LifecycleImplementsServer`,
the property `ServerKept`): `Faults` is extended by the statements that a
closed database makes fail, `End` maps to `Crash`, a handler's step to itself,
a handler's step on the closed database to the error step of its statement, and
all else to a stutter. Instances of `LogServerProofs` and `SerialProofs` with
the larger `Faults` then give, for the process with all it goes through,
`RepliesHoldInAnyLife`, `NothingLostInAnyLife`, `RetrievedInAnyLife`, and, when
requests and beats do not overlap (`SerialLifeSpec`), `HeadsOfOneLogInAnyLife`,
`ReceiptsVerifyInAnyLife`, `SizesOnlyGrowInAnyLife` and `AppendOnlyInAnyLife`,
without a second invariant. `LifeTypeCorrect` is what `Lifecycle` adds itself.

### One at a time

`SerialProofs` is about `SerialSpec`: any handlers and the heartbeat, of which
one at most is under way in each state. Assuming `"insertAck" \notin Faults`,
it proves `SizesAreOfRoots` (`SthCommitsToTree`), `HeadsAreOfOneLog`
(`HeadsConsistent`), `ReceiptsAlwaysVerify` (`ReceiptsVerify`), `SizesOnlyGrow`
(`LatestNeverShrinks`) and `LogIsAppendOnly`: the server implements
`TransparencyLog` (`PromiseKept`). Neither assumption can be left out, as the
runs of section 3 show. They do not make the theorems hollow: crashes, gaps in
`leaf_index` and every other failure are there, and a server with one client
and no heartbeat is serial by itself (lemma `AloneIsSerial`). The invariant is
`IInv` together with `SInv`:

* `RowsAscend` - rows are committed in the order of their indexes, of which
  some are missing: index `k` of row `i` is at least `i`, and from `k` on there
  are at least as many draws as rows. This lets `Receipt` have a refused
  position, or the right one, and never that of another leaf;
* `TreeInOrder` - the tree has the rows in commit order, all of them or all but
  the one that is about to be appended. After a crash it starts empty, and the
  rebuild, which goes by `leaf_index`, finds the same order because
  `RowsAscend` (`RebuildReads`, `RebuildHasAll`);
* `LocalsCurrent` - a root that was read of the tree, and the head made from
  it, are those of the tree as it is now. This fails as soon as two overlap;
* `HeadsInOrder` - every saved head is of the first rows, with the size of its
  root, and not larger than the tree that is served.

A step of the refinement is then one of four: the commit of a row is `Add`, a
save of a head `Publish` of the first rows, a reply `Acknowledge`, and all else
a stutter.

`ClientProofs` adds the monitor: its two heads were saved (`MonitorInv`), and
any two saved heads are of the first rows, so the tree, which has no fewer,
proves their consistency (`MonitorNeverAlarmed`); the entry of a 201 is at its
position in it (`EntriesAreIncluded`).

### Benchmarks and seeding

`ClientProofs` is about `BenchClient` next to any number of clients that race,
with all faults and the heartbeat: `SamplesAlwaysAscend` (`SamplesAscend`) and `ProofsAlwaysServed`
(`ProofsServed`). Heads that race are not those of one log, but sizes still
only grow: `SizesServed` says that no head which may have been seen is larger
than the tree while it is served. It survives a restart because a size is at
most the number of rows (`HeadSizesBounded`), which the rebuilt tree has.
`RequestAhead` relates the request that is open to all earlier samples: it has
drawn a larger index than they have, and from its append on a larger size.
Of `BenchInv` the runs check two parts, `SamplesAscend` and `ProofsServed`.

Of `Seeder` it has `bench-scale` with one handler, since that submits one entry
after the other; the heartbeat overlaps with everything.
`SeededRowsServed` (`SeededServed`) needs the part of `SeedInv` that holds until
a restart fails: `ServerOfRows` (the server's tree and every root in its locals
are of the first rows, also those of the old tree that its heartbeat goes on
signing) and `CaughtUp` (while the benchmark submits, the tree has all rows but
one that is about to be appended). Rows that the seeder lost do not matter to
it: they are rows as any other, and the restart reads them.
`SeederAndServerSignOneLog` (`HeadsOfOneLog`) needs in addition what holds until
any error is passed over, `SignedOfRows`: every saved head is of the first rows,
and while it seeds the seeder's tree has them all.
`SeededHeadsDurable` and `SeededSizesBounded` need `IInv` only, which holds
whatever is passed over. The row that the seeder commits is past the cursor of
a rebuild (`RebuildInOrder`), and a rebuild whose SELECT did not see it ends
with a tree that lacks it; `CaughtUp` follows for the rebuild after the
restart, during which nobody seeds.

### Admission

`AdmissionProofs` proves `CommitmentsAlwaysSigned` (`CommitmentsSigned`) and
`MetadataAlwaysDescribes` (`MetadataDescribesEntry`) for any submitters, keys, key
files that change, and bodies. Three assumptions on the constants:
`TextsAssumption` (what a body has at a key is a sequence of symbols),
`SignaturesAssumption` (signatures cannot be forged: a body that has one of a
key over some text has it because a commitment was signed whose job and hash
make up that text) and `PairsAssumption` (the hashes of signed commitments have
the length the policy demands). The code signs job and hash without a
separator; that they are nevertheless the pair that was signed is
`SplitIsUnique`, from the one length of hashes.

### Merkle tree

A recursive function is `CHOOSE g : g = [... g ...]`, so nothing can be said of
it before some such `g` is known to exist. Each has a lemma for that, and one
that unfolds it. Both need induction over numbers, which `Induction` and
`StrongInduction` state for sets instead of operators: a set of naturals is all
of them because it has no least exception (`LeastNatural`). Facts about what
the functions compute are then proved by induction over a set of the numbers
that have them.

`CompactRangeProofs`: the nodes of `RangeNodes(0, n)` are the binary
representation of `n` (`IsRange`): adjacent, each aligned at its level, levels
falling. From it `RangeAppendCorrect` and `RootHashCorrect`: for every `n`,
`RangeAppend` keeps the range of one more leaf and visits exactly the nodes that
leaf completes, each with its hash, and `GetRootHash` is RFC 6962's tree hash.
The joins that it visits all reach beyond leaf `n`, which is why storing them
does no harm to the nodes proofs are read from.

`MerkleTreeProofs`, for every `MaxSize`, every gap and any readers:
`TypeCorrect`, `CacheStaysCorrect` (`CacheCorrect`), `RootsStayCorrect`
(`RootsCorrect`) and `AnswersStayCorrect` (`AnswersCorrect`). `Inv` says of the
tree that the range is `RangeHashes(end)`, that every node whose leaves are all
in the tree is cached with its hash (`Cached`), and that no key is far beyond
the tree (`InBounds`). A rebuild stores leaf `k` at its `leaf_index`, which may
be larger than `k - 1` and never is smaller (`RowsOK`): `RebuiltCorrect` shows
that every such place is written again before the tree reaches it. Of a
reader `Inv` says that the nodes it is to fetch make up the proof that was asked
for (`Asked`) and lie in a tree that is not larger than the one there is, and
that what it has fetched are their hashes; `Cached` is only about nodes that no
later append changes, so this survives every step of others. That the nodes make
up the proof is `InclusionRight` and `ConsistencyRight`, for every size: the node
is below one node of the range of that size (`Fork`), what is right of that one
folds into one hash, and RFC 6962's recursion goes the same way down.

### Columns and row of tree_state

`TreeStateProofs`: `HashesComeBack` and `NodesComeBack` (decoding what was
encoded gives it back, whatever the hashes and the order of the map, for any
number of them that fits the count) and `CutHashes` (a column cut at any byte
before its end decodes to fewer hashes).
They rest on `UintBigEndian` (a number that fits is read back from its bytes)
and `ReadAll` (the loop of a decoder is at the start of field `i` after `i - 1`
turns, and stops in the field where the data ends). That the number of hashes
fits four bytes is not assumed: a range of `n` leaves has no more nodes than `n`
has bits (`RangeShort`), and `n` has at most 64.

For any savers, failures and restores these give `RowStaysRestorable`
(`RowRestorable`), `StateAlwaysComesBack` (`StateComesBack`),
`CutColumnAlwaysRefused` (`CutColumnRefused`), `TypeCorrect` and `RangeAlwaysStaysCorrect`
(`RangeStaysCorrect`), from `Inv`: the live slice has as many hashes as its size
demands and its array has room for them (`RangeOK`); so has each slice that was
handed out, for the size that was read with it (`SliceOK`); and the row is the
encoding of what was written (`RowFits`). `Inv` cannot say that the row has
the *right* hashes, since with two handlers it may not: that is the finding of
`aliased_state`. This is why `RangeStaysCorrect` is about steps, and about
restores of a right row.

### Only model-checked

Liveness under fairness, which is out of the prover's reach (`Answered`,
`EventuallyCovered`, `ShutdownEnds`, `ServesAgain`, `LatestVerifies`), and the
findings, which are counterexamples. Every other property of a run has a
theorem.

## 5. Not modelled yet, and the plan

Done in this order: `TransparencyLog`, `EntryStore`, `LogServer` with its
invariant and proofs, `MerkleTree`, `TreeState`, `ReadApi`, `Admission`,
`Seeder`, `StateCodec`, `Lifecycle` with its proofs, `BenchClient`, the proofs
of `MerkleTree` and `TreeState`. Left: `ReadApi` with several handlers, what a
monitor can still rely on when heads race.

Left out for good: CBOR and COSE encodings and the layout of key files, which
are a library's; values of the environment that `Load` refuses, with which the
service never starts; timing, statistics and output of the benchmarks and the
signed-database baseline of `bench-compare`, a table that one client writes and
reads alone; scripts. `GetSTHBySize` and `InternalNodes` are called by tests
only.
