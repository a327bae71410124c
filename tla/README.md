# Specifications of batch2go

TLA+ modules for the parts of batch2go whose correctness depends on
interleaving, failure, time or arithmetic over several processes' records, and
for the files and declarations a run starts from and leaves behind,
with their TLC configurations and machine-checked proofs of the safety of the
envelope proxy, the event writer, the shared path, the run's lifecycle, the trace
collector, the adapter, the archive, the preparation of a run and the verdict on its
evidence. `PROJECT.json` maps every definition to the
lines it translates and names, for every checked property, a mutation of the
code that breaks it.

    tlc -config MCProxySafety.cfg MCProxy      one run
    tlapm SharedPathProofs.tla                 the proofs of one module

## 1. The system

batch2go measures what batching costs in an inference service. A *run* executes
one cell of a factorial design. Cohorts of B logical requests leave one barrier
together, cross a load generator, a proxy, an adapter and Triton, and every
process writes event records with timestamps of one monotonic clock. A validator
then decides from the records alone whether the run was what its label says.
Cell D0 bypasses proxy and adapter, F00 sends one envelope per request (A=off),
F10 sends one envelope per cohort (A=on). The build implements no other cell.

| component | state | operations | interacts by |
|---|---|---|---|
| envelope proxy (`internal/proxy`) | the forming cohorts by id, the closed flag; of a formation its slots, count, timer, verdict and `done` channel | `Submit` (`forward`, `aggregate`), `join`, `expire`, `sealAndSend`, `await`, `Close` | one gRPC handler goroutine per request, timers, one call of the adapter per envelope, one record per request |
| event writer (`internal/events/writer.go`) | an active bank, channels of free and pending banks, counters, the sticky flush error | `Record`, `rotateLocked`, `flush`, `Close` | called from every handler, one flusher goroutine |
| barrier and load generator (`internal/workload`, `runner/run.go`) | arrivals, the gate, a context and a record per member | `Arrive`, `releaseCohort` | B goroutines and a wait group, client calls |
| shared and direct client (`internal/client`) | none | `Send` | gRPC to the proxy, or to Triton |
| run lifecycle and services (`internal/runner`) | the launched processes, exit statuses, the first death, the stopping flag, two contexts, the bundle and the verdict on disk | `Run`, `execute`, `startAndWait`, `watch`, `explain`, `Stop`, `finalizeVerdict` | child processes, one watcher goroutine each, signals, files |
| trace collector (`internal/triton/trace.go`) | the budget at the start, files seen, traces collected | `NewTraceCollector`, `settle`, `Collect` (`checkServerCount`, `flush`, `drain`) | Triton's trace settings over gRPC, its trace files over the file system |
| adapter and executor (`internal/adapter`, `internal/executor`, `cmd/adapter`) | the process's phase, its files, one result slot per member of a call | `run`, `Execute`, `Submit`, `dispatchSkew` | gRPC handlers, B submission goroutines each, signals, one record per member |
| validator (`internal/validate`) | none, a function of the records | `Join` and one function per check | reads all streams |
| envelope, identity, schema | none | `Independent`, `Aggregate`, `Validate`; stages, owners and masks | used by all |
| bundle and archive (`runner/bundle.go`, `runner/validate.go`, `events/codec.go`, `events/parquet`) | the streams and counters, `events.parquet`, `bundle.json`, `verdict.json` | `externalStreamRecord`, `archive`, `WriteBundle`, `ValidateBundle`, `ValidateStreams` | files only, by run and operator |
| manifest, suite, comparison (`internal/manifest`, `runner/suite.go`, `runner/implementation.go`) | none, declarations | `Validate`, `LoadSuite`, `SameImplementation` | read before and after the runs |
| model repository (`internal/modelrepo`) | catalog, artifact file, runtime directory | `LoadCatalog`, `Verify`, `Materialize` | files that Triton reads later |
| gateway and smoke client (`triton/gateway.go`, `cmd/smoke`) | none; the server's models and counters | `WaitLive`, `UnloadAll`, `Quiesce`, `LoadModel`, `ModelIdentity`, `Statistics` | gRPC to one shared server |
| GC recorder, clock domain | pause counters; the domain's identity | `Start`, `Stop`; `Establish`, `Now` | the runtime and the kernel |
| test kit (`internal/testkit`) | none | `Build` and one fixture per fault | the validator's tests |

### Where it is hard, and what makes it correct

`PROJECT.json` lists the hazards by line. In short:

* *Proxy.* Four parties may settle one formation: the member that completes it,
  a malformed member, the timer, and shutdown. The one that completes it finishes
  outside the mutex. Correct means that `done` is closed once, a cohort id travels
  at most once and whole or fails whole, every caller gets its own answer and
  leaves one true record, and nobody waits for ever, even at shutdown.
* *Writer.* Banks change hands without a common lock, and a channel send happens
  under the mutex. Correct means no record lost, repeated or reordered behind a
  clean `Close`, no blocking, and an end.
* *Load generator and network.* Requests and replies are lost, deadlines race
  answers. Correct means the two processes' records never add up to a success
  that did not happen, and a cohort said
  not to have formed did not form.
* *Lifecycle.* Processes die, hang, ignore signals; the operator interrupts.
  Correct means that a completed run had a whole data plane, a failure keeps its
  cause and its scope, nothing survives the run, what is on disk agrees with what
  was returned, and the run ends.
* *Traces.* Triton samples, rotates and writes on its own schedule. Correct means
  that a collection that succeeds is complete and undisturbed, and that it ends.
* *Verdict.* Honest records of every interleaving must pass, lost or coalesced
  members must not; the conservation arithmetic mixes instants of several members
  and must neither lose nor double count time.
* *Adapter.* Concurrent members fill one envelope's answer, handlers wait for a Triton
  that need not answer, and a signal comes at any point of startup, service and
  shutdown. Correct means that it executes what a builder of its run builds and nothing
  else, accounts for every member, vouches only for a finished stream, and ends.
* *Archive.* The same records exist in memory, on the wire and as rows; the verdict is
  written between two writes of the bundle; a second run meets the files of the first.
  Correct means that neither conversion changes a verdict, that every planted fault is
  named, and that a run that returned ok left only files of its own that agree.
* *Preparation.* The server is shared, outlives runs, and acknowledges before it acts;
  the artifact is verified, read, copied and loaded in separate steps. Correct means
  that the bytes measured are the ones the manifest names, that counters vouch for the
  run alone, that leftovers do no harm, and that a green suite compared like with like.

## 2. Modules

| module | models | lines of code it reads from |
|---|---|---|
| `Proxy` | the envelope proxy, whole | `proxy/proxy.go`, `proxy/cohort.go` |
| `CohortContract` | what the proxy promises its callers: no lock, timer or registry; implemented by `Proxy` (`KeepsContract`) | - |
| `EventWriter` | the event writer | `events/writer.go` |
| `EventWriterProofs` | theorems about `EventWriter`, with lemmas about sequences joined and flattened | - |
| `SharedPath` | extends `Proxy` with barrier, load generator, shared client, network, and the part of the verdict about formation and status | `workload/barrier.go`, `runner/run.go`, `client/shared`, `validate` |
| `SharedPathProofs` | theorems about `Proxy` (its formations, what its callers are told, the refinement of `CohortContract`), and about `SharedPath` on top of them | - |
| `RunLifecycle` | run, services, watchers, stop, bundle | `runner/run.go`, `runner/services.go` |
| `RunLifecycleProofs` | theorems about `RunLifecycle` | - |
| `BackendTraces` | trace collector and backend timestamps, with an external Triton | `triton/trace.go`, `runner/run.go` |
| `BackendTracesProofs` | theorems about `BackendTraces` | - |
| `Identity` | cells, factors, member ids | `identity` |
| `Verdict` | the validator as operators over a sequence of records, any number of cohorts | `validate`, `events/schema.go` |
| `RunEvidence` | extends `Verdict`: who takes which timestamp when, what each process records, and the verdict on it | `runner/run.go`, `proxy`, `adapter`, `executor` |
| `RunEvidenceProofs` | theorems about `RunEvidence` and the join and checks of `Verdict` | - |
| `Adapter` | the adapter process, its handlers, the executor, Triton's submission, the envelope contract | `cmd/adapter`, `adapter`, `executor`, `envelope`, `triton/submit.go` |
| `AdapterProofs` | theorems about `Adapter` | - |
| `Fixtures` | extends `Verdict`: the test kit's evidence of every cell, and the faults it plants | `testkit` |
| `RecordCodec` | extends `Verdict`: stream messages and archive rows | `events/codec.go`, `events/parquet` |
| `Archive` | extends `Fixtures` and `RecordCodec`: streams, counters, archive, bundle and verdict on disk, over two attempts | `runner/run.go`, `runner/bundle.go`, `runner/validate.go`, `cmd/runner` |
| `ArchiveProofs` | theorems about `RecordCodec` and `Archive` | - |
| `Manifest` | manifest and suite checks, implementation comparison | `manifest`, `runner/suite.go`, `runner/implementation.go` |
| `ModelRepository` | catalog, digests, rendered configuration | `modelrepo` |
| `GCRecorder` | pause statistics from bucket counters | `runner/gc.go` |
| `Preparation` | extends the last three and `Fixtures`: a suite's runs on a shared server | `runner/run.go`, `triton/gateway.go`, `modelrepo`, `cmd/runner`, `cmd/smoke` |
| `PreparationProofs` | theorems about `Preparation` | - |
| `MCProxy`, `MCRunLifecycle` | symmetry, and the tuple of services, for TLC | - |

How state and actions correspond to the code:

* **Proxy.** A handler is a call with a program counter `pc`; a formation is named
  by the call that opened it, so `slots`, `arrived`, `sealed`, `deadline`,
  `terminal` and `done` are functions on calls. `done` counts how often the
  channel was closed, which is what makes a second close visible. What `join` does
  under the mutex is one action per outcome (`JoinAfterClose`, `JoinJudged`,
  `JoinMalformed`, `JoinHeld`, `JoinCompletes`); the completing handler then goes
  on in two further steps without the mutex (`SealAndSend`, `BackendAnswers`).
  The timer fires (`TimerFires`) and its callback obtains the mutex (`Expire`) in
  two steps, since `Stop` can lose in between. A held handler wakes (`Wake`) or
  leaves because its context ended (`Leave`). Ordinals run to B, one beyond the
  range, so that a stray one can come. Of a record we keep its status and which
  group of stages it carries.
* **EventWriter.** `Record` is taking a number, the critical section, and counting;
  the flusher takes a bank, writes it or fails, frees it. `contents` is what is in
  each bank, and `sink` what is in the file.
* **SharedPath.** Every action of `Proxy` is kept. A call of `Submit` is the
  delivery of a member's request, its context ends when the member's deadline
  passes or the client gave up, and its reply may be lost. Contexts expire in the
  order they were created, since they have the same timeout.
* **RunLifecycle.** `step` is where `execute` stands. Every process has an exit
  code, a one-place channel `exit`, and a watcher. `Stop` is modelled signal by
  signal, with its grace period and kill. Cohorts are only released, failed or
  served here.
* **BackendTraces.** A setting is Triton's trace configuration, replaced before
  and after the run to force its buffer to a file. Files appear and grow in steps
  of their own, so the collector can find them empty or cut short.
* **Verdict** is the code's checks one for one, each a set of defect kinds.
  **RunEvidence** stamps the schema's stages at any pace of a clock that all
  processes share and has every process record what its code records.
* **Adapter.** `phase` is where `run` of `cmd/adapter` stands, from its wiring through
  listener, signal handler, service, drain and close to its counters. A call is a
  handler goroutine with an envelope; `sub` is its members' goroutines and `results` the
  slots they fill. Submit's return and the store into the slot are two steps, so those of
  one goroutine come between those of another. `outcomes` is history, read by no action:
  what each submission came to, under its call and member. What arrives is every
  envelope a builder of this run makes, one of each kind of other run (schema, run id,
  cell, clock, B), and one for each single respect in which an envelope can drift from
  the contract. Triton's answer takes every shape `parseResponse` tells apart. A payload
  is its size.
* **Archive.** The evidence of an attempt is a fixture, so every check of the validator
  has a case that only it catches. `pc` follows `execute` from its streams to `Run`'s
  last write; files carry the attempt that wrote them, which no property of the code's
  own sees. A kill tears the file that is being written.
* **Preparation.** Two clients, the runner and the smoke client, run the same gateway
  steps against one server, whose models are gone, ready, failed or unloading. A file is
  its content; a digest is the content it was taken of. `meddled` is history: whether
  anybody but the runner did anything to the contract at hand. Pauses are multisets over
  three lengths. Requests are executed or refused and nothing else; their interleavings
  are `Proxy`'s, `Adapter`'s and `RunLifecycle`'s.

The models keep control and abstract data. A payload is the call that brought it,
a trace its request, an error its kind. Messages' wording, encodings and byte
counts do not occur.

## 3. Runs

| run | instance | distinct states | shows |
|---|---|---|---|
| `proxy_safety` | 4 calls, 2 cohort ids, B=2, A=on, symmetry on calls and cohorts | 1.15 M | the proxy's invariants |
| `proxy_liveness` | 3 calls, 1 cohort id, B=2 | 95 k | the contract; every call returns; shutdown releases |
| `proxy_forward` | 3 calls, A=off | small | records agree with answers where nothing is aggregated |
| `writer` | 4 records, 3 banks of one record | 118 k | the rotation of banks, close |
| `shared_path` | one cohort of 2, lossy network | 87 k | diagnosis and statuses are true; a release ends |
| `run_lifecycle` | 2 services, 2 cohorts | 202 k | completion, causes, scope, shutdown, end |
| `backend_traces` | 2 requests, 2 strangers, rotation at 2, margin 1 | 1.83 M | completeness, isolation, end of a collection |
| `run_evidence` | a cohort of 2 in each cell, 3 instants | 1.40 M | the verdict is right, the arithmetic exact |
| `adapter` | 2 calls, 2 cohort ids, B=2, every shared cell | 538 k | admission, accounting, counters, shutdown |
| `archive` | 2 cohorts of 2 after a warm-up, 7 cells, every planted fault, 2 attempts | 9.2 k | faults are named, codecs and files keep the verdict |
| `preparation` | suites of 1 to 3 contracts, manifests with up to two fields edited, 2 interferences | 680 k | what is served, counted and compared is what was declared |
| `backend_traces_refused` | 2 requests, 1 stranger | violated | the finding of section 6 |

What the properties say is in the comment above each. The ones that join several facts:
`FailureKeepsCauseAndScope` (a failure that a death caused is explained by it, and a
cohort's failure stays the cohort's), `DoneMeansTheRunsOwn` (every request has its whole
trace and nobody else's was counted), `UnsoundRunIsNamed` (a member lost, refused or
coalesced is a defect by name, in whatever order the streams are read) and
`ConservationIsExact` (the spans tile a cohort's makespan, a member's residual is its
unnamed time, and coverage is the union of its intervals).

Why the bounds are enough. *Proxy*: with B=2 a cohort can be complete, short by
one, or over by one, and four calls are a whole cohort with a duplicate and a late
member, or two cohorts. With two ids what belongs to one can be told from what
belongs to the other. The proofs remove the bound for the invariants they cover.
*Writer*: three banks is the least number where one is active, one pending, and one
with the flusher; one record per bank makes every call rotate, and four records go
once around and drop. *SharedPath*: two members are one that is held and one that
is late, lost or refused; an instance with B=3 (9.2 M states) was checked too, and
takes too long to keep. *Lifecycle*: two processes are a first to die and one left;
two cohorts are one that fails and one that must still be released. *Traces*: a
stranger can stand in for a missing request or fill a rotation, and two exhaust the
budget (`Budget` is what the run expects plus a margin) before a request arrives.
*RunEvidence*: three instants make any two stamps equal, ordered or separated by
another member's. Tolerance 5 (percent) and skew bound 1 are such that both sides of
each comparison occur. *Adapter*: two calls are one that hangs and one that is answered
while the process drains; B=2 has a repeated, a missing, a stray and a swapped member.
*Archive*: two cohorts are what the checks across cohorts compare, the warm-up makes the
first recorded id differ from zero, and two attempts are one that leaves files and one
that meets them. *Preparation*: `MaxEvents` = 2 interferences of different kinds (artifact
regenerated, server restarted, load failed, clock stepped) beside the smoke client, which
is always there; three contracts are the least with two runs of one cell; pairs of edits
to a manifest reach guards that depend on each other. Statuses, cells and outcomes are
not bounded: they are the code's own sets, except that `proxy_safety` lets results be ok
only (`proxy_liveness` and `proxy_forward` have both statuses).

Deadlock checking is off everywhere because the systems stop: calls return, runs end.
What must not stop early is stated as liveness.

### Fairness

* *Proxy*: weak fairness of each handler. Goroutines are scheduled, and the backend's
  answer is included because `sealAndSend` calls it under a context with a deadline.
  Timers are fair only as a premise inside `EveryCallReturns`, so that
  `ShutdownReleasesHeld` is shown to need no deadline. Nobody must call `Submit` or
  `Close`, and no context must end.
* *Writer*: a `Record` or `Close` under way continues, and the flusher runs. Nobody
  must call either.
* *SharedPath*: goroutines, handlers and timers run and deadlines pass. The network
  is asked for nothing.
* *Lifecycle*: the runner's goroutines run, its timers fire (they are alternatives
  within its steps), and a killed process goes down. The processes are asked for
  nothing else: they may hang at startup, serve for ever, ignore SIGINT.
* *Traces*: the runner continues and its timeout comes. Triton is asked for nothing.
* *Adapter*: the process's and the handlers' goroutines run, and callers' contexts end,
  since the proxy calls under a request deadline. Triton is asked for no answer, and no
  signal must come.
* `RunEvidence`, `Archive` and `Preparation` check states only. One thing is assumed of
  the server in `Preparation`: a model whose teardown has begun is gone before
  `Quiesce` gives up (`QuiesceTimeout`), which is what its timeout is for.

## 4. Proofs

Every theorem holds for all values of the constants that the assumptions of its module
allow, where a run checks one instance.

| module | theorem | states |
|---|---|---|
| `SharedPathProofs`, `Proxy` | `DoneClosesOnce` | `ClosedOnce` |
| | `CohortTravelsOnce` | `OneEnvelopePerCohort` |
| | `EnvelopeIsWhole` | `EnvelopeIsItsCohort` |
| | `OnlyShortCohortsFail` | `FailedOnlyIfShort` |
| | `CloseIsFinal` | `NothingFormsAfterClose` |
| | `TypesHold` | `TypeOK`, which no run repeats |
| | `AnswersBelong` | `AnswersAreOwn` |
| | `RecordsAreTrue` | `RecordTellsTheFate` |
| | `ProxyImplementsContract` | `KeepsContract`, the refinement, for A=on |
| `EventWriterProofs` | `SendsNeverBlock` | `NoSendBlocks` |
| | `StreamGrows` | `StreamOnlyGrows`, an action property |
| | `CleanCloseIsComplete` | `CleanCloseKeepsAll` |
| | `OneHandPerBank`, `TypesHold` | `BankInOneHand`, `TypeOK`, which no run repeats |
| `SharedPathProofs`, `SharedPath` | `PathDrivesTheProxy` | `PathSpec => Spec`, so what is proved of `Proxy` holds on the path |
| | `NamedFailureIsReal` | `DiagnosisIsTrue` |
| | `JudgedOkWasServed` | `OkMeansServed` |
| `RunLifecycleProofs` | `CompletedRunWasWhole` | `CompletedMeansWhole` |
| | `ShutdownKillsNobody` | `ShutdownIsNotADeath` |
| | `EndsAreNamed` | `FailureKeepsCauseAndScope`, an action property |
| `BackendTracesProofs` | `DoneRunsHoldTheirOwn` | `DoneMeansTheRunsOwn` |
| `AdapterProofs` | `BuilderAndValidatorAgree` | `AdmitsWhatItsRunBuilds` |
| | `StatsCanBeTrusted` | `StatsVouchForTheStream` |
| | `NoMemberGoesMissing` | `EveryMemberIsAccounted` |
| `PreparationProofs` | `MeasuresItsModel` | `MeasuresWhatItsManifestNames` |
| | `CountsVouch` | `CountsVouchForTheRun` |
| | `GreenSuite` | `GreenMeansOneModel` |
| | `LeftoversHarmless` | `LeftoversAreHarmless` |
| | `PercentileIsABound` | `P99BoundsThePauses` |
| `RunEvidenceProofs` | `InvariantHolds` | `IInv`, with the type invariant |
| | `UnsoundRunsAreNamed` | `UnsoundRunIsNamed` |
| | `SoundRunsAreAccepted` | `SoundRunIsAccepted` |
| | `FlightsHold` | `Flying`, an invariant of every member's flight |
| | `RunsAreConserved` | `ConservationIsExact` |
| `ArchiveProofs` | `StreamKeepsItsRecords` | a closed stream reads back as what was written |
| | `ArchiveKeepsItsRecords` | the archive reads back as what was written |
| | `PassedLeavesItsOwnFiles` | `OwnFiles`, the first half of `CompletedMeansItsOwn` |
| | `VerdictsOfARunAgree` | `VerdictsAgree`: archive and streams are judged alike |
| | `ARunIsJudgedByItsOwn` | `CompletedMeansItsOwn`, where `VerdictSurvivesTheArchive` |

Almost none of the properties is inductive by itself. Each module has an inductive
invariant (`IInv`, `FateInv`, `BankInv`, `PathInv`), a lemma for each action that the
action keeps it, and theorems that follow from it.

**Proxy: formations.** That `done` is closed once depends on who may still close it, so
`Handlers` says that a handler between the seal and its close is the only one of its
formation and that `done` is still open. That a cohort id travels once depends on the
registry, so `Registered` says that the registry never forgets an id that was opened, that
an unsettled formation is the one it shows, and that no two formations have the same id.
That an envelope is whole depends on counting: `Formations` says that `arrived` is the
number of filled slots and that `sealed` means B of them, so with B ordinals in all none
is empty (`FullMeansEveryOrdinal`, from the cardinality theorems); `Admitted` says what is
in a slot. That only short cohorts fail is the same fact read backwards, with `terminal`
and `sealed` excluding each other. `Typed` is the part of the type invariant the induction
needs; `TypesHold` adds the answers and records, by a second induction on top of the first.

**Proxy: fates.** An answer is handed out long after the payload was admitted, so the
invariant has to follow the payload (`Places`): the formation a handler points to holds
its payload at its ordinal unless it failed, and a formation whose `done` was closed
without a cause has sent its envelope. `Fates` is then what each of the ways out of a
handler establishes. The steps of others disturb neither, because formations only grow
(`Grows`). For the refinement, `FateInv` gives each step of `Proxy` its image: admissions,
seals, failures and answers are steps of `CohortContract`, and the rest changes nothing a
caller can tell. It is a theorem for A=on, since the contract is about cohorts and
`KeepsContract` is checked for A=on alone.

**Writer.** Banks are tokens. `Hands` counts them: `Banks - 1` besides the active one, and
at most `Banks` once `Close` gave the last away, which is why no channel is ever full.
`Distinct` says that no two hands hold the same one and `Reset` that a free one is empty.
With these a step's effect on `Stream` can be computed: rotating, sending, taking and
writing a bank leave it as it was, and only a call in its critical section appends to it.
`Accepted` and `Counted` follow the calls between the mutex and the atomic counters, which
lag behind the stream. `Stream` joins the contents of the banks, which is a fold; what a
fold of appended, prefixed or regrouped sequences gives is stated first, derived from
the uniqueness of the recursive function behind `FlattenSeq` and the least counterexample
(`LeastNatural`).

**Shared path.** `PathInv` adds how the load generator's state hangs together with the
proxy's. From it every step of the path is a step of `Proxy` or leaves it alone, and the
members' identities are distinct, so the fates proved there can be read off the two
processes' records.

**Lifecycle.** `Launched` and `Watched` relate the list of processes to their watchers.
`Stopped` is a loop invariant of `Stop`: what it has not complained of, from the last
process to the one it has come to, went down cleanly. `Deaths` says where a recorded death
and a cancelled context come from. `EndsAreNamed` needs both beside the step itself.

**Traces.** The tally is a number and the traces are names. `Tally` ties them together
from the first reading on: what it counted is the requests sampled and the strangers
sampled. A collection ends with every request sampled, so the comparison with the number of
requests leaves no room for a stranger.

**Adapter.** Two lemmas about the envelope contract: what the builder builds is valid
(`BuiltIsValid`, with `CanonicalOrderSorts`, that the canonical order is a permutation in
which ordinals ascend), and an envelope with a single drift is refused (`DriftIsCaught`).
An admitted envelope names distinct members, `Handlers` carries that through the fan-out,
and so records of one call are as many as its members and those of two calls are
different. `Accounts` states that count as a cardinality, with the drops beside it. That a
member is answered with the outcome of its own submission takes both directions between
goroutines and the history: what a goroutine's submission came to is there under its
member, and in its slot once it stored it (`Kept`), and nothing else is there (`History`).
Members are distinct, so a member's history is one outcome, and it is the one in its slot;
the payload a record carries is found by the same identity (`PayloadByIdentity`).

**Preparation.** Everybody may load the entry at any time, so what the runner loaded says
nothing about what is served later. `Contents` says instead where the chosen artifact's
bytes are: in the repository from the verified copy on, so that whoever loads the entry
loads them, on the server once the runner's load is through, and in whatever the window
executed. `Counts` ties the server's counter to the runner's own: as long as the entry was
not replaced in the window and is ready, it is the first reading, what the runner had
executed and what strangers had. Unless there was a reload, a difference equal to the
requests then leaves no room for a stranger. A bundle that says completed was written
while both held (`BundleOK`), and a suite goes on past such bundles only. `Declarations`
needs the suites' manifests to declare numbers, edited or not (`SuitesCountable`).
`LeftoversAreHarmless` is the converse, that a run nothing is wrong with passes, and has an
invariant of its own (`Untroubled`): as long as nobody interferes the smoke client and the
machine are where they started, the runner holds the catalog's artifact and finds its own
copy in the repository (`Holding`), what it has not yet unloaded is on its list and after
the poll nothing is left (`Emptying`), the window is its own (`Clean`), and completed
bundles differ in nothing but what their manifests say (`AlikeBut`). That no comparison
fails also depends on which pairs the accepted suites compare (`PairsAlike`). The
theorems are about the suites `Init` starts, for any contents of the artifact's file and
any number of interferences.

`P99BoundsThePauses` is about data: a bag of pauses by length, the bag of those before it,
and a histogram of both that only says how many fell into each bucket. It is proved for
every pair of bags (`PercentileBounds`). What the reading finds in the buckets is the run's
own, since the earlier pauses are in both readings (`CountsAreTheRuns`); the buckets up to
an edge hold the pauses below it (`BucketAdds`, `EdgesRise`), so the first edge at which
they are 99 in 100 lets at most one in 100 past. That rests on the laws of a sum over a
finite set, which are proved first. The library defines the sum by a recursive function,
and an induction over the set would need a hypothesis passed as an operator; instead the
sets at which a law fails have a smallest one (`LeastNatural`), and taking the member the
function takes next out of it gives a smaller. That the recursive function exists and is
the only one is the first such law (`AddsAgree`, `AddsExists`).

**Evidence and verdict.** The verdict is a function of some four records of each member, written
at different points of a path on which anything may happen to the others. `Right` says of a
member nothing happened to that its instants are those of the topology up to the point it
is at (`Timed`), that they rise along the chain (`Ordered`), and that it belongs to the
execution it had (`Executes`); `Exclusive` says that of two executions one was over when
the other began, `Agreeing` that an envelope's five instants are one reading for all its
members, and `Fate` what the load generator recorded of a failed submission. The induction
is over the stages of every cell (`Legs`) and uses that the server has one instance.
`JudgedHonestly` carries the verdict past its own step: nothing but the clock moves after
it, and no record reads the clock.

The theorems then compute the join. A stream is listed in whatever order its calls ended
(`SetIsListed`, `StreamLists`), and all that is known of the concatenated streams is what
they list (`RecordsList`): of each process at most one record of each member
(`SightingsOnce`). No stage has two tellers (`ToldOnce`) and no two statuses one rank
(`RanksDiffer`), so the join of a member does not depend on where its records are
(`JoinOfWritten`): that the reverse order joins to the same is a corollary. For
`UnsoundRunsAreNamed` one record with a failure is then enough to be the joined status
(`FailureIsNamed`), and the attestations and the histogram each name a coalesced execution
(`CoalescingIsNamed`). For `SoundRunsAreAccepted` the join of a served member is computed
whole (`ServedIsHonest`), and each of the checks has a lemma that it finds nothing
(`AggregationIsClean`, `IntegrityIsClean`, `StagesAreClean`, `OrderingIsClean`,
`MembershipIsClean`, `ContaminationIsClean`, `SerializationIsClean`, `ReleaseIsClean`,
`FanOutIsClean`); what is left can only be about durations (`DurationsAreNamed`).

`RunsAreConserved` is about every run, those that lost a member too, so it needs an
invariant of its own (`Flying`): a completion comes after its send, and a member that
was executed has the instants of its point in order even when its submission then fails
(`Carried`), since from the execution on a member can only go the rest of the way
(`Ways`). The rest is arithmetic over sequences. In each chain the spans meet end to end
(`ChainIsConnected`), and each ends no earlier than it starts, in a member's instants by
`Ordered` and in the cohort's because what the last member paces is never followed by
what the first one does; so what they took telescopes to the makespan
(`ChainTelescopes`, `CohortIsTiled`), and what a member's residual leaves is what no
span names (`ResidualIsUnnamed`). Sorting the flights puts each at one place
(`ByStartSorts`), and at every place the walk has counted the units before its current
stretch and holds the others in it (`Walked`, kept by `CoverWalks`), so at the last it
has counted the union (`FlightsAreCovered`). What a fold computes is an induction over
its places, again as a least counterexample: the library's recursive function over sets
of places exists and is read off after each of them (`FoldExists`, `TimeAddsUp`,
`CoverStrides`).

**Archive.** A record comes back from either form if both have a place for it (`Storable`):
a claimed size of zero only beside no members, since the wire leaves zeros out, and no
value that is itself a null. `VerdictSurvivesTheArchive` checks that every record the
streams of a run hold is of that kind. The invariant (`IInv` of `ArchiveProofs`) says
whose each file is: the archive is the attempt's from the moment it is written until it is
judged and made of streams nobody writes any more, the description is the bundle in memory,
and a verdict met before the attempt's own is an older attempt's. That what passed left
its own files follows without more (`PassedLeavesItsOwnFiles`). The rest of
`CompletedMeansItsOwn` is about the evidence: that a passed verdict means sound evidence,
and that archive and streams do not disagree, which would leave a completed bundle beside
an error (section 6). `ARunIsJudgedByItsOwn` derives it from `VerdictSurvivesTheArchive`,
which it takes as a premise and the run checks for every fixture.

**Assumptions.** Those the modules declare, which TLC evaluates in their runs: finitely
many calls, requests and records, positive B, bank numbers and sizes, `Services` a
sequence, and `None` distinct from every value it shares a place with (a nil pointer is no
record, a missing status no status, a null not the name the archive gives to what has
none; of `RunEvidence` that the identity's bits have room for every ordinal of the cohort,
`MaxOrdinal`, which the manifest check demands of B). Nothing is assumed of the environment.

**Only model-checked.** Liveness, since fairness and `ENABLED` are beyond the prover. Three
invariants, in each of which most of what is said is what a computation over bounded data
comes to:

* `PlantedFaultIsNamed` and `VerdictSurvivesTheArchive` (`Archive`): the evidence is the
  test kit's fixtures, one by one, and TLC enumerates them. `ArchiveProofs` has what does
  not depend on the fixtures.
* `AcceptedManifestIsRealizable` (`Preparation`): it judges a manifest by running the
  validator on an honest fixture, sums and walk included.

## 5. Not modelled

The generated protobuf code, which is accessors of messages the modules abstract, and the
analysis package, which reads an archive and keeps nothing. They are most of the lines no
definition maps to.

Left out of modelled parts, because no guard, state or verdict depends on it: flag
parsing, printing and logging; the bytes of tensors, messages and rows, and the byte
accounting of envelopes; the fields of a record no check reads (sequence, execution and
Triton request ids, sizes); the summaries reported beside a verdict, and the comparison of
adapter CPU time across Factor A; heap peaks and the sampler that takes them; the clock's
certification, which measures the machine; the choice of a client by cell (`path.go`).

Bounds of the composition: `RunEvidence` lets members be lost, refused, failed or late but
leaves to `SharedPath` how they leave the proxy while held. `Proxy` keeps the adapter's
answer abstract (an envelope's results in any order, or an error), and `Adapter` shows
what such an answer holds; the two are not one state machine. A repository written by hand
between a run's `Materialize` and its `LoadModel` is not modelled: the code has nothing
that would notice. Traces left by an earlier failed run that used the same request ids are
not modelled.

## 6. Findings

One run is kept as a violation: **members refused at the proxy end the run**
(`backend_traces_refused`). `checkServerCount` compares the tally with all released
requests, so the run fails before `recordBackendTimestamps` could pass the refused ones
over, as its comment says it does.

Five more statements of comments or documents are kept beside the properties of their
module. None is in a configuration; each is violated when it is added as an `INVARIANT` to
the configuration named, and TLC's counterexample is what the code does instead.

| statement | configuration | what the code does |
|---|---|---|
| `SharedPath.UnformedIsNamed` | `SharedPath.cfg` | A cohort that failed at its deadline is not named if its missing member arrives late: `join` refuses the member but its arrival is recorded, and `findFormationFailures` asks for a member without arrival (aggregation.go:33, ADR 0010). |
| `RunLifecycle.DeathIsTheCause` | `MCRunLifecycle.cfg` | A death between warm-up and first cohort is reported as "context canceled": two calls in between return without `explain` (run.go:378, services.go:265). |
| `RunEvidence.SymptomsAreDisplaced` | `RunEvidence.cfg` | An unformed cohort is a conservation defect too: `checkConservation` gets the records the other checks are spared, and the load generator always records a completion. The test fixture removes that stage (validate.go:325, defects.go:465). |
| `Archive.VerdictIsTheRunsOwn` | `Archive.cfg` | A second run that fails before its archive leaves a bundle without the archive's name; validation falls back to `events.parquet`, which is the first run's, and may pass (runner/validate.go:77). |
| `Preparation.EveryRunOfAPairIsCompared` | `Preparation.cfg` | A suite with several runs of a cell compares the first bundle of each cell of a pair only (cmd/runner/main.go:290). |

Met while modelling, without a statement of their own:

* `sealAndSend` uses the completing member's context; its comment argues that the
  deadlines are about the same, and indeed nothing makes that one the latest.
* `drain` marks a file as seen before it finds it empty, and never reads it again.
* A process that exits cleanly and unasked just before `Stop` takes the mutex counts
  as shut down, where a test says such an exit is a death; in the other direction an
  obedient exit after a terminal's SIGINT can be recorded as a death before the
  runner's own context ends.
* When archive and streams disagree, `Run` fails, but the completed bundle and its
  passed verdict stay on disk. `VerdictSurvivesTheArchive` shows that no conversion
  makes them disagree. A runner killed between a rejecting verdict and the second
  write of its bundle leaves the bundle completed.
* `fan_out_serial` words its defect as a full sequence, yet for B of three or more one
  pair of neighbours that does not overlap is enough to report it.
* A SIGINT that reaches the adapter between its listener and its signal handler, or
  before `Serve`, ends it without counters, after the runner saw the port open.
* A shared cell's manifest without an adapter address is accepted and refused only when
  services start, with the server emptied and loaded by then.
* An entry reloaded between the two readings of its counters starts them over; unless
  they end below where they began, `Delta` cannot tell, so `CountsVouchForTheRun`
  excepts a reload.
* The reported p99 of pauses is no upper bound when it falls in the last bucket, whose
  upper edge is infinite.

## 7. Plan

Modelled, in the order of importance: the proxy with its contract and its proofs; the
writer, on which all evidence rests; the shared path; the lifecycle; the backend's
traces; the verdict with the evidence it judges; the adapter; the archive with the test
kit's faults; the preparation of a run. What is left to model is in section 5.

What is left to prove is listed in section 4 under what is only model-checked, with what
stands in the way.
