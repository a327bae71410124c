----------------------------- MODULE Preparation -----------------------------
(***************************************************************************)
(* An acceptance suite from its file to its verdict (cmd/runner: contracts,*)
(* internal/runner: Run, prepareModel, prepareServer), on a Triton server  *)
(* that earlier sessions used and the smoke client uses at the same time   *)
(* (internal/triton: gateway.go, cmd/smoke).                               *)
(*                                                                         *)
(* Every contract materializes the model repository anew while the server  *)
(* keeps running, empties the server, loads one entry, and measures it     *)
(* between two readings of the server's counters.  The artifact can be     *)
(* regenerated, the server restarted and the wall clock stepped at any     *)
(* time.  What happens to a request between the runner and the server is   *)
(* the business of Proxy, Adapter and RunLifecycle; here it is executed,   *)
(* or refused because its model is not there.                              *)
(***************************************************************************)
EXTENDS Fixtures, Manifest, ModelRepository, GCRecorder

CONSTANTS
  Original, Regenerated,  \* contents of the artifact's file
  Truncated,              \* what a write that was cut short leaves
  MaxEvents               \* how often something interferes

ASSUME PreparationAssumption ==
  /\ Original # Regenerated /\ Truncated \notin {Original, Regenerated}
  /\ None \notin {Original, Regenerated, Truncated, "graph", "individual", "completed", "failed"}
  /\ MaxEvents \in Nat

VARIABLES
  suite,    \* the suite file, with the manifests it names
  at,       \* the contract the runner is at
  pc,       \* where each client stands
  mine,     \* what each client holds
  catalog,  \* the artifact catalog
  file,     \* the artifact's file
  repo,     \* the runtime model repository
  live,     \* whether the server answers
  models,   \* what the server has of each model
  bundles,  \* per contract, the bundle on disk
  gc,       \* the collector's pauses around the run, and what the recorder made of them
  btime,    \* the boot time the kernel reports, which follows the wall clock
  window,   \* of the counters' window: what was executed in it
  events,   \* what interfered so far
  meddled   \* whether anything interfered with the contract at hand

diskVars   == <<catalog, file, repo>>
serverVars == <<live, models>>
worldVars  == <<btime, events>>
vars == <<suite, at, pc, mine, diskVars, serverVars, bundles, gc, worldVars, window, meddled>>

Clients == {"runner", "smoke"}
Names   == {EntryName("graph", "unbatched"), EntryName("graph", "dynamic"), EntryName("old", "unbatched")}

m == suite.contracts[at]

\* The entry a client asks the server for.
NameOf(c) == IF c = "runner" THEN ModelEntryName(m) ELSE EntryName("graph", "unbatched")

-----------------------------------------------------------------------------
(* How a client goes on, and how it ends.                                  *)

Goes(c, there) == pc' = [pc EXCEPT ![c] = there]
Holds(c, field, value) == mine' = [mine EXCEPT ![c][field] = value]

NoWindow == [stray |-> 0, reloaded |-> FALSE, served |-> {}]
Nothing == [artifact |-> None, blob |-> None, todo |-> {}, identity |-> None, domain |-> None,
         before |-> 0, sent |-> 0, failed |-> 0, delta |-> 0]

\* A run that has its directory leaves a bundle even when it fails.
Opened == pc["runner"] \in {"services", "warm", "before", "send", "stop", "after", "judge"}

FailedBundle == [state |-> "failed", cell |-> m.cell]

\* What stands for the bundle of a contract that left none.
NoBundle == [state |-> None]

Fails(c) ==
  /\ Goes(c, "failed")
  /\ bundles' = IF c = "runner" /\ Opened THEN [bundles EXCEPT ![at] = FailedBundle] ELSE bundles
  /\ UNCHANGED mine

-----------------------------------------------------------------------------
(* The suite, and prepareModel.                                            *)

LoadsSuite ==
  /\ pc["runner"] = "start"
  /\ IF LoadSuite(suite) THEN Goes("runner", "prepare") /\ at' = 1 ELSE Goes("runner", "refused") /\ UNCHANGED at
  /\ UNCHANGED <<suite, mine, diskVars, serverVars, bundles, gc, worldVars, window, meddled>>

\* The domain's identity hashes the boot and the boot time the kernel reports.
Establish == <<"boot", btime>>

\* Establish, LoadCatalog, Artifact, the digest the manifest names, and whether
\* the graph attests its members.
Prepares ==
  /\ pc["runner"] = "prepare"
  /\ IF /\ m.cell \in ImplementedCells
        /\ LoadCatalog(catalog, None)
        /\ Listed(catalog, m.model.artifact) # {}
        /\ LET a == ArtifactOf(catalog, m.model.artifact)
           IN m.model.digest \in {None, a.digest} /\ SelfAttesting(a)
     THEN /\ Goes("runner", "verify")
          /\ mine' = [mine EXCEPT !["runner"] =
               [Nothing EXCEPT !.artifact = ArtifactOf(catalog, m.model.artifact), !.domain = Establish]]
          /\ UNCHANGED bundles
     ELSE Fails("runner")
  /\ UNCHANGED <<suite, at, diskVars, serverVars, gc, worldVars, window, meddled>>

VerifiesArtifact ==
  /\ pc["runner"] = "verify"
  /\ IF Verify(file, mine["runner"].artifact)
     THEN Goes("runner", "read") /\ UNCHANGED <<mine, bundles>>
     ELSE Fails("runner")
  /\ UNCHANGED <<suite, at, diskVars, serverVars, gc, worldVars, window, meddled>>

ReadsArtifact ==
  /\ pc["runner"] = "read"
  /\ Holds("runner", "blob", file)
  /\ Goes("runner", "clear")
  /\ UNCHANGED <<suite, at, diskVars, serverVars, bundles, gc, worldVars, window, meddled>>

clearDir ==
  /\ pc["runner"] = "clear"
  /\ repo' = <<>>
  /\ Goes("runner", "write")
  /\ UNCHANGED <<suite, at, mine, catalog, file, serverVars, bundles, gc, worldVars, window, meddled>>

\* A mutant: the copy is trusted.
CopyTrusted(content, a) == TRUE

\* Whether the copy that was written is the artifact.
CopyVerified(content, a) == Verify(content, a)

\* The model file is written, read back and verified, and only then configured.
materializeEntry ==
  /\ pc["runner"] = "write"
  /\ LET a    == mine["runner"].artifact
         size == m.cohort.size
     IN \E content \in {mine["runner"].blob} \cup (IF pc["smoke"] = "absent" THEN {} ELSE {Truncated}) :
          /\ meddled' = (meddled \/ content = Truncated)
          /\ IF CopyVerified(content, a) /\ Renderable(a, MaxBatch(m.model.entry, size))
             THEN /\ repo' = [n \in {ModelEntryName(m)} |-> Materialized(a, m.model.entry, size, content)]
                  /\ Goes("runner", "live")
                  /\ UNCHANGED <<mine, bundles>>
             ELSE /\ repo' = [n \in {ModelEntryName(m)} |-> [content |-> content]]
                  /\ Fails("runner")
  /\ UNCHANGED <<suite, at, catalog, file, serverVars, gc, worldVars, window>>

-----------------------------------------------------------------------------
(* prepareServer, for either client: live, empty, loaded, checked.         *)

WaitLive(c) ==
  /\ pc[c] = "live"
  /\ live
  /\ Goes(c, "sweep")
  /\ UNCHANGED <<suite, at, mine, diskVars, serverVars, bundles, gc, worldVars, window, meddled>>

\* A mutant: only what is ready.
ReadyIndex == {n \in Names : models[n].state = "ready"}

\* Everything in the server's index, whatever state it is in.
Index == DOMAIN repo \cup {n \in Names : models[n].state # "gone"}

UnloadAll(c) ==
  /\ pc[c] = "sweep"
  /\ live
  /\ Holds(c, "todo", Index)
  /\ Goes(c, IF Index = {} THEN "poll" ELSE "unload")
  /\ UNCHANGED <<suite, at, diskVars, serverVars, bundles, gc, worldVars, window, meddled>>

\* The server answers an unload before the model is torn down.
UnloadModel(c) ==
  /\ pc[c] = "unload"
  /\ live
  /\ \E n \in mine[c].todo :
       /\ Holds(c, "todo", mine[c].todo \ {n})
       /\ models' = [models EXCEPT ![n].state = IF @ = "gone" THEN @ ELSE "unloading"]
       /\ Goes(c, IF mine[c].todo = {n} THEN "poll" ELSE "unload")
  /\ UNCHANGED <<suite, at, diskVars, live, bundles, gc, worldVars, window, meddled>>

\* A server with a model that failed or is being torn down is not ready.
ServerReady == \A n \in Names : models[n].state \notin {"failed", "unloading"}
ReadyModels == {n \in Names : models[n].state = "ready"}

Quiesce(c) ==
  /\ pc[c] = "poll"
  /\ live
  /\ ServerReady /\ ReadyModels = {}
  /\ Goes(c, "load")
  /\ UNCHANGED <<suite, at, mine, diskVars, serverVars, bundles, gc, worldVars, window, meddled>>

\* After QuiesceTimeout, in which whatever was being torn down is gone.
QuiesceTimeout(c) ==
  /\ pc[c] = "poll"
  /\ live
  /\ \A n \in Names : models[n].state # "unloading"
  /\ ~ServerReady \/ ReadyModels # {}
  /\ Fails(c)
  /\ UNCHANGED <<suite, at, diskVars, serverVars, gc, worldVars, window, meddled>>

InWindow == pc["runner"] \in {"send", "stop", "after"}

\* The server reads the entry from the repository.  A model that is loaded as it
\* stands there stays; otherwise its counters start over.
LoadModel(c) ==
  LET n == NameOf(c) IN
  /\ pc[c] = "load"
  /\ live
  /\ IF n \in DOMAIN repo /\ "config" \in DOMAIN repo[n]
     THEN LET fresh == [state |-> "ready", content |-> repo[n].content, config |-> repo[n].config, count |-> 0]
              kept  == models[n] = [fresh EXCEPT !.count = models[n].count]
          IN /\ models' = [models EXCEPT ![n] = IF kept THEN @ ELSE fresh]
             /\ window' = [window EXCEPT !.reloaded = @ \/ (InWindow /\ ~kept)]
             /\ Goes(c, "identify")
             /\ UNCHANGED <<mine, bundles>>
     ELSE /\ models' = [models EXCEPT ![n].state = "failed"]
          /\ Fails(c)
          /\ UNCHANGED window
  /\ UNCHANGED <<suite, at, diskVars, live, gc, worldVars, meddled>>

Ready(n) == live /\ models[n].state = "ready"

\* What the server says it serves is what the entry says.
verifyServedEntry(config, n) ==
  /\ config.name = n
  /\ config.instances = 1
  /\ {"DATA", "PADDING", "UID"} \subseteq DOMAIN config.inputs
  /\ "UIDSET" \in DOMAIN config.outputs
  /\ n[2] = "unbatched" => config.maxBatch = 0 /\ ~config.dynamic

ModelIdentity(c) ==
  LET n == NameOf(c) IN
  /\ pc[c] = "identify"
  /\ IF Ready(n) /\ verifyServedEntry(models[n].config, n)
     THEN /\ Goes(c, IF c = "runner" THEN "services" ELSE "before")
          /\ Holds(c, "identity", [config |-> models[n].config])
          /\ UNCHANGED bundles
     ELSE Fails(c)
  /\ UNCHANGED <<suite, at, diskVars, serverVars, gc, worldVars, window, meddled>>

\* Any call fails while the server is away; WaitLive's 90 seconds are up.
CallFails(c) ==
  /\ pc[c] \in {"live", "sweep", "unload", "poll", "load"}
  /\ ~live
  /\ Fails(c)
  /\ UNCHANGED <<suite, at, diskVars, serverVars, gc, worldVars, window, meddled>>

-----------------------------------------------------------------------------
(* The run, between the two readings of the server's counters.             *)

\* The services establish the clock for themselves and refuse another domain; a
\* shared path without an adapter's address is refused here.
startServices ==
  /\ pc["runner"] = "services"
  /\ IF UsesProxy(m.cell) => m.transport.adapter /\ Establish = mine["runner"].domain
     THEN Goes("runner", "warm") /\ UNCHANGED <<mine, bundles>>
     ELSE Fails("runner")
  /\ UNCHANGED <<suite, at, diskVars, serverVars, gc, worldVars, window, meddled>>

\* The warm-up ends the run when it fails: no record would tell of it.
WarmsUp ==
  LET n == NameOf("runner") IN
  /\ pc["runner"] = "warm"
  /\ IF Ready(n)
     THEN /\ models' = [models EXCEPT ![n].count = @ + m.cohort.warmup * m.cohort.size]
          /\ Goes("runner", "before")
          /\ UNCHANGED <<mine, bundles>>
     ELSE Fails("runner") /\ UNCHANGED models
  /\ UNCHANGED <<suite, at, diskVars, live, gc, worldVars, window, meddled>>

\* Pauses by their length: those of the process so far, those of the run.
Earlier == {[d \in {1} |-> n] : n \in {0, 150}}
During  == {[d \in {1, 5, 9} |-> CASE d = 1 -> n[1] [] d = 5 -> n[2] [] d = 9 -> n[3]] :
              n \in {<<0, 0, 0>>, <<0, 1, 0>>, <<99, 1, 0>>, <<99, 0, 2>>}}

\* The counters before, and GCRecorder.Start.
Statistics(c) ==
  /\ pc[c] = "before"
  /\ IF Ready(NameOf(c))
     THEN /\ Holds(c, "before", models[NameOf(c)].count)
          /\ Goes(c, "send")
          /\ IF c = "runner"
             THEN \E earlier \in Earlier : gc' = [earlier |-> earlier] /\ window' = NoWindow
             ELSE UNCHANGED <<gc, window>>
          /\ UNCHANGED bundles
     ELSE Fails(c) /\ UNCHANGED <<gc, window>>
  /\ UNCHANGED <<suite, at, diskVars, serverVars, worldVars, meddled>>

RequestsOf(c) == IF c = "runner" THEN m.cohort.count * m.cohort.size ELSE 1

\* One request.  A refused one is recorded as failed and the run goes on; it ends
\* the smoke client.
Submit(c) ==
  LET n == NameOf(c) IN
  /\ pc[c] = "send"
  /\ IF Ready(n)
     THEN /\ models' = [models EXCEPT ![n].count = @ + 1]
          /\ Holds(c, "sent", mine[c].sent + 1)
          /\ window' = IF c = "runner" THEN [window EXCEPT !.served = @ \cup {models[n].content}]
                       ELSE IF InWindow /\ n = NameOf("runner") THEN [window EXCEPT !.stray = @ + 1]
                       ELSE window
          /\ Goes(c, IF mine[c].sent + 1 < RequestsOf(c) THEN "send" ELSE IF c = "runner" THEN "stop" ELSE "after")
          /\ UNCHANGED bundles
     ELSE /\ IF c = "runner"
             THEN /\ mine' = [mine EXCEPT ![c].sent = @ + 1, ![c].failed = @ + 1]
                  /\ Goes(c, IF mine[c].sent + 1 < RequestsOf(c) THEN "send" ELSE "stop")
                  /\ UNCHANGED bundles
             ELSE Fails(c)
          /\ UNCHANGED <<models, window>>
  /\ UNCHANGED <<suite, at, diskVars, live, gc, worldVars, meddled>>

\* What the recorder makes of a run's pauses after those that went before.
Recorded(earlier, during) ==
  LET total == [d \in DOMAIN during |-> during[d] + (IF d \in DOMAIN earlier THEN earlier[d] ELSE 0)]
  IN [earlier |-> earlier, during |-> during, stats |-> pauseDelta(Histogram(earlier), Histogram(total))]

Recordings == {Recorded(earlier, during) : earlier \in Earlier, during \in During}

\* GCRecorder.Stop, as soon as the last cohort is answered.
StopsRecorder ==
  /\ pc["runner"] = "stop"
  /\ \E r \in Recordings : r.earlier = gc.earlier /\ gc' = r
  /\ Goes("runner", "after")
  /\ UNCHANGED <<suite, at, mine, diskVars, serverVars, bundles, worldVars, window, meddled>>

\* Delta refuses counters that went backwards.
Backwards(before, after) == after < before

Delta(before, after) == after - before

\* The counters after.  They are read once, when everything is answered.
StatisticsAfter(c) ==
  LET n == NameOf(c) IN
  /\ pc[c] = "after"
  /\ IF Ready(n) /\ ~Backwards(mine[c].before, models[n].count)
     THEN /\ Holds(c, "delta", Delta(mine[c].before, models[n].count))
          /\ Goes(c, "judge")
          /\ UNCHANGED bundles
     ELSE Fails(c)
  /\ gc' = IF c = "runner" THEN None ELSE gc
  /\ UNCHANGED <<suite, at, diskVars, serverVars, worldVars, window, meddled>>

\* What the manifest and the server's counters ask of the records.  No execution
\* holds two requests: that is the entry's configuration.
ExpectationOf(manifest, delta) ==
  [cell |-> manifest.cell, domain |-> "boot", cohortSize |-> manifest.cohort.size,
   cohortCount |-> manifest.cohort.count, first |-> manifest.cohort.warmup,
   batchSize |-> manifest.expected.batchSize, executions |-> manifest.expected.executions,
   tolerance |-> manifest.tolerance, maxWait |-> manifest.expected.maxWait, maxSkew |-> manifest.expected.maxSkew,
   executionDelta |-> delta, inferenceDelta |-> delta,
   histogram |-> IF delta > 0 THEN [size \in {1} |-> delta] ELSE <<>>, dropped |-> 0]

\* The honest run of a manifest's cell.
HonestRun(manifest) == Build(NewSpec(manifest.cell, manifest.cohort.size, manifest.cohort.count, manifest.cohort.warmup))

\* The adapter describes the channel it opened and the limits it serves under.
AdapterRecord ==
  [executor |-> "individual", modelEntry |-> ModelEntryName(m),
   downstream |-> m.transport.maxMessageBytes, serving |-> m.transport.maxMessageBytes]

\* A direct cell's bundle holds no adapter's record.
NoAdapter == [executor |-> None]

NewBundle(state) ==
  [state |-> state, cell |-> m.cell, adapter |-> IF UsesProxy(m.cell) THEN AdapterRecord ELSE NoAdapter,
   entry |-> Entry(mine["runner"].artifact, m.model.entry, m.cohort.size),
   identity |-> mine["runner"].identity, window |-> window]

\* The verdict: every request has its records and the counters agree.  The suite
\* goes on to its next contract, or to its comparisons, and stops at the first
\* failure.
JudgesContract ==
  LET passed == /\ mine["runner"].failed = 0
                /\ checkContamination(ExpectationOf(m, mine["runner"].delta)) = {}
  IN /\ pc["runner"] = "judge"
     /\ bundles' = [bundles EXCEPT ![at] = NewBundle(IF passed THEN "completed" ELSE "failed")]
     /\ at' = IF passed /\ at < Len(suite.contracts) THEN at + 1 ELSE at
     /\ Goes("runner", IF ~passed THEN "failed" ELSE IF at < Len(suite.contracts) THEN "prepare" ELSE "compare")
     /\ window' = NoWindow
     /\ mine' = [mine EXCEPT !["runner"] = Nothing]
     /\ UNCHANGED <<suite, diskVars, serverVars, gc, worldVars, meddled>>

\* Of each pair, the bundles of the two cells' first contracts are compared.
ComparesCells ==
  /\ pc["runner"] = "compare"
  /\ LET of(cell) == bundles[bundleForCell(suite.contracts, cell)]
     IN Goes("runner", IF \A p \in suite.pairs : SameImplementation(of(p.a), of(p.b), NoAdapter) THEN "green" ELSE "unequal")
  /\ UNCHANGED <<suite, at, mine, diskVars, serverVars, bundles, gc, worldVars, window, meddled>>

-----------------------------------------------------------------------------
(* The smoke client and everything else that happens.                      *)

\* The smoke client reads the catalog and goes to the server.
SmokeStarts ==
  /\ pc["smoke"] = "ready"
  /\ IF LoadCatalog(catalog, None) /\ Listed(catalog, "graph") # {} /\ SelfAttesting(ArtifactOf(catalog, "graph"))
     THEN Goes("smoke", "live")
     ELSE Goes("smoke", "failed")
  /\ meddled' = TRUE
  /\ UNCHANGED <<suite, at, mine, diskVars, serverVars, bundles, gc, worldVars, window>>

\* The operator builds a repository by hand, of one entry or of several.
OperatorMaterializes ==
  /\ pc = [c \in Clients |-> IF c = "runner" THEN "start" ELSE "ready"]
  /\ LoadCatalog(catalog, None)
  /\ Listed(catalog, "graph") # {}
  /\ LET a == ArtifactOf(catalog, "graph") IN
     /\ Verify(file, a)
     /\ \E kinds \in SUBSET {"unbatched", "dynamic"} \ {{}} :
          repo' = [n \in {EntryName("graph", k) : k \in kinds} |-> Materialized(a, n[2], 4, file)]
  /\ UNCHANGED <<suite, at, pc, mine, catalog, file, serverVars, bundles, gc, worldVars, window, meddled>>

\* It was answered, and its answer holds its own uid alone; it wants to have been
\* the only one to be executed.
SmokeJudges ==
  /\ pc["smoke"] = "judge"
  /\ Goes("smoke", IF mine["smoke"].delta = 1 THEN "ok" ELSE "failed")
  /\ UNCHANGED <<suite, at, mine, diskVars, serverVars, bundles, gc, worldVars, window, meddled>>

Interferes ==
  /\ pc["smoke"] # "absent"
  /\ Cardinality(events) < MaxEvents
  /\ meddled' = TRUE
  /\ UNCHANGED <<suite, at, mine, repo, gc, window>>

Regenerates ==
  /\ Interferes
  /\ "file" \notin events
  /\ file' = Regenerated
  /\ events' = events \cup {"file"}
  /\ UNCHANGED <<pc, bundles, catalog, serverVars, btime>>

\* The catalog follows the file, in a step of its own.
Catalogues ==
  /\ "file" \in events
  /\ catalog.artifacts[1].digest # file
  /\ catalog' = [catalog EXCEPT !.artifacts[1].digest = file]
  /\ meddled' = TRUE
  /\ UNCHANGED <<suite, at, pc, mine, file, repo, serverVars, bundles, gc, worldVars, window>>

ServerDies ==
  /\ Interferes
  /\ live
  /\ live' = FALSE
  /\ models' = [n \in Names |-> [models[n] EXCEPT !.state = "gone", !.count = 0]]
  /\ events' = events \cup {"restart"}
  /\ UNCHANGED <<pc, bundles, catalog, file, btime>>

ServerStarts ==
  /\ ~live
  /\ live' = TRUE
  /\ UNCHANGED <<suite, at, pc, mine, diskVars, models, bundles, gc, worldVars, window, meddled>>

\* The server cannot load a model, and has a failed one.
LoadFails(c) ==
  /\ Interferes
  /\ pc[c] = "load"
  /\ live
  /\ models' = [models EXCEPT ![NameOf(c)].state = "failed"]
  /\ events' = events \cup {"load"}
  /\ Goes(c, "failed")
  /\ UNCHANGED <<bundles, catalog, file, live, btime>>

TearsDown ==
  /\ \E n \in Names : /\ models[n].state = "unloading"
                      /\ models' = [models EXCEPT ![n].state = "gone"]
  /\ UNCHANGED <<suite, at, pc, mine, diskVars, live, bundles, gc, worldVars, window, meddled>>

\* The wall clock is set; the kernel's boot time follows it.
ClockSteps ==
  /\ Interferes
  /\ btime = 0
  /\ btime' = 1
  /\ events' = events \cup {"clock"}
  /\ UNCHANGED <<pc, bundles, catalog, file, serverVars>>

-----------------------------------------------------------------------------
(* The suites and the states they are started in.                          *)

Suite(contracts, pairs) == [schemaVersion |-> SuiteSchemaVersion, contracts |-> contracts, pairs |-> pairs]

Contract(run, cell, digest) == Manifest(run, cell, 1, 2, 1, "graph", digest)

Catalog(a) == [schemaVersion |-> CatalogSchemaVersion, artifacts |-> <<a>>]
Graph == Artifact("graph", Original, TRUE)

\* The declared suite, with and without the digest named.
Declared ==
  {Suite(<<Contract("r1", "F00", d), Contract("r2", "F10", d)>>, {[a |-> "F00", b |-> "F10"]}) : d \in {None, Original}}

\* Two cohort sizes, one of the later contracts with another message limit.
TwoSizes ==
  Suite(<<Contract("r1", "F00", None), Contract("r2", "F10", None),
          [Contract("r3", "F10", None) EXCEPT !.transport.maxMessageBytes = 2]>>, {[a |-> "F00", b |-> "F10"]})

\* What can be wrong with one field of a manifest.
Edits(x) ==
  {x, [x EXCEPT !.schemaVersion = 2], [x EXCEPT !.given = @ \ {"run_id"}], [x EXCEPT !.given = @ \ {"trace_dir"}],
   [x EXCEPT !.transport.proxy = ~@], [x EXCEPT !.transport.adapter = FALSE], [x EXCEPT !.transport.maxMessageBytes = 0],
   [x EXCEPT !.cohort.size = 0], [x EXCEPT !.cohort.size = 1], [x EXCEPT !.cohort.size = 2^uidOrdinalBits],
   [x EXCEPT !.cohort.count = 0], [x EXCEPT !.cohort.warmup = -1], [x EXCEPT !.cohort.warmup = 0],
   [x EXCEPT !.cohort.deadline = 0], [x EXCEPT !.cohort.deadline = 30], [x EXCEPT !.workload.timeout = 0],
   [x EXCEPT !.workload.timeout = 5], [x EXCEPT !.workload.mode = "sequential"], [x EXCEPT !.model.entry = "dynamic"],
   [x EXCEPT !.model.digest = Regenerated], [x EXCEPT !.gc.gogc = 0], [x EXCEPT !.gc.gomemlimit = 0],
   [x EXCEPT !.expected.executions = 1], [x EXCEPT !.expected.perCohort = 1], [x EXCEPT !.expected.batchSize = 2],
   [x EXCEPT !.expected.maxWait = 0], [x EXCEPT !.expected.maxSkew = 0], [x EXCEPT !.tolerance = 0],
   [x EXCEPT !.tolerance = 100]}

Edited ==
  {Suite(<<e>>, {}) : e \in UNION {Edits(d) : d \in UNION {Edits(Manifest("r1", cell, 2, 1, 1, "graph", None)) : cell \in AllCells}}}

Misdeclared ==
  {Suite(<<>>, {}), [Suite(<<Contract("r1", "F00", None)>>, {}) EXCEPT !.schemaVersion = 1],
   Suite(<<Contract("r1", "F00", None), Contract("r1", "F10", None)>>, {}),
   Suite(<<Contract("r1", "F00", None)>>, {[a |-> "F00", b |-> "F00"]}),
   Suite(<<Contract("r1", "F00", None)>>, {[a |-> "F00", b |-> "F10"]})}

\* Catalogs a run refuses, here or when the entry is rendered.
BadCatalogs ==
  {[Catalog(Graph) EXCEPT !.schemaVersion = 2], [Catalog(Graph) EXCEPT !.artifacts = <<>>],
   Catalog([Graph EXCEPT !.id = None]), Catalog([Graph EXCEPT !.digest = None]), Catalog([Graph EXCEPT !.id = "old"]),
   Catalog([Graph EXCEPT !.attesting = FALSE]), Catalog([Graph EXCEPT !.digest = Regenerated]),
   Catalog([Graph EXCEPT !.sized = "wrongly"]), Catalog([Graph EXCEPT !.outputs = <<>>]),
   Catalog([Graph EXCEPT !.outputs.UIDSET = Tensor("BOOL", <<1>>)])}

Unloaded == [state |-> "gone", content |-> Original, config |-> renderConfig(Graph, "unbatched", 0), count |-> 0]

\* Nothing interferes with a suite or a catalog that is to be refused; a declared
\* suite meets whatever earlier sessions left.
Init ==
  /\ \/ /\ suite \in Edited \cup Misdeclared \cup {TwoSizes}
        /\ catalog = Catalog(Graph)
        /\ models = [n \in Names |-> Unloaded]
        /\ pc = [c \in Clients |-> IF c = "runner" THEN "start" ELSE "absent"]
     \/ /\ suite \in Declared
        /\ catalog \in BadCatalogs
        /\ models = [n \in Names |-> Unloaded]
        /\ pc = [c \in Clients |-> IF c = "runner" THEN "start" ELSE "absent"]
     \/ /\ suite \in Declared
        /\ catalog = Catalog(Graph)
        /\ \E left \in [{"graph", "old"} -> {"gone", "ready", "failed", "unloading"}] :
             models = [n \in Names |-> IF n[2] = "dynamic" THEN Unloaded
                                      ELSE [Unloaded EXCEPT !.state = left[n[1]], !.count = 1]]
        /\ pc = [c \in Clients |-> IF c = "runner" THEN "start" ELSE "ready"]
  /\ at = 0
  /\ mine = [c \in Clients |-> Nothing]
  /\ file = Original
  /\ repo = EntryName("old", "unbatched") :> [content |-> Original, config |-> Unloaded.config]
  /\ live = TRUE
  /\ bundles = [i \in 1 .. 3 |-> NoBundle]
  /\ gc = None
  /\ btime = 0
  /\ window = NoWindow
  /\ events = {}
  /\ meddled = FALSE

prepareModel == Prepares \/ VerifiesArtifact \/ ReadsArtifact \/ clearDir \/ materializeEntry

prepareServer(c) ==
  \/ WaitLive(c) \/ UnloadAll(c) \/ UnloadModel(c) \/ Quiesce(c) \/ QuiesceTimeout(c)
  \/ LoadModel(c) \/ ModelIdentity(c) \/ CallFails(c)

Measures(c) == Statistics(c) \/ Submit(c) \/ StatisticsAfter(c)

Runner ==
  \/ LoadsSuite \/ prepareModel \/ prepareServer("runner") \/ startServices \/ WarmsUp
  \/ Measures("runner") \/ StopsRecorder \/ JudgesContract \/ ComparesCells

Smoke == SmokeStarts \/ prepareServer("smoke") \/ Measures("smoke") \/ SmokeJudges

Server == ServerDies \/ ServerStarts \/ TearsDown \/ \E c \in Clients : LoadFails(c)

Next == Runner \/ Smoke \/ OperatorMaterializes \/ Server \/ Regenerates \/ Catalogues \/ ClockSteps

Spec == Init /\ [][Next]_vars

-----------------------------------------------------------------------------
(* Properties.                                                             *)

Contracts == DOMAIN suite.contracts
Completed(i) == bundles[i].state = "completed"

\* "A manifest cannot expect something its own cell cannot produce": the records
\* an honest run of an accepted manifest leaves are not rejected on the
\* expectations it declares.
AcceptedManifestIsRealizable ==
  pc["runner"] = "prepare" /\ at = 1 /\ ~meddled =>
    \A i \in Contracts :
      LET honest == HonestRun(suite.contracts[i])
      IN Validate(ExpectationOf(suite.contracts[i], honest.exp.executions), Join(honest.records)) = {}

\* What a completed run measured is what its bundle says and its manifest names,
\* whatever happened to the artifact while it was verified, copied and loaded, and
\* whatever the server held before.
MeasuresWhatItsManifestNames ==
  \A i \in Contracts : Completed(i) =>
    /\ bundles[i].window.served = {bundles[i].entry.digest}
    /\ suite.contracts[i].model.digest \in {None, bundles[i].entry.digest}

\* A run the counters vouch for had the entry to itself, unless the entry was
\* loaded again between the two readings.
CountsVouchForTheRun ==
  \A i \in Contracts : Completed(i) => bundles[i].window.reloaded \/ bundles[i].window.stray = 0

\* Nothing that earlier sessions left on the server fails a suite: if nobody
\* interferes and the catalog, the digest and the addresses are right, no step of
\* the lifecycle refuses, no count is off and no comparison fails.
LeftoversAreHarmless ==
  pc["runner"] \in {"failed", "unequal"} =>
    \/ meddled
    \/ catalog # Catalog(Graph)
    \/ \E i \in Contracts : \/ suite.contracts[i].model.digest = Regenerated
                            \/ UsesProxy(suite.contracts[i].cell) /\ ~suite.contracts[i].transport.adapter

\* A green suite ran every contract, and the two cells of a pair were served by
\* the same bytes under the same limits.
GreenMeansOneModel ==
  pc["runner"] = "green" =>
    /\ \A i \in Contracts : Completed(i)
    /\ \A p \in suite.pairs :
         LET i == bundleForCell(suite.contracts, p.a)
             j == bundleForCell(suite.contracts, p.b)
         IN /\ bundles[i].window.served = bundles[j].window.served
            /\ suite.contracts[i].transport.maxMessageBytes = suite.contracts[j].transport.maxMessageBytes

\* The pause 99 in 100 of the run's pauses do not exceed.
TrueP99(pauses) ==
  LET upTo(d) == MapThenSumSet(LAMBDA e : pauses[e], {e \in DOMAIN pauses : e <= d})
      n == MapThenSumSet(LAMBDA e : pauses[e], DOMAIN pauses)
  IN Min({d \in DOMAIN pauses : 100 * upTo(d) >= 99 * n})

\* "An upper bound on the true value": the percentile that is reported bounds the
\* run's own pauses, however many went before them.  In the last bucket, which has
\* no upper edge, it does not.
P99BoundsThePauses ==
  pc["runner"] = "after" /\ (\E d \in DOMAIN gc.during : gc.during[d] > 0) =>
    LET p99 == TrueP99(gc.during)
    IN bucketBounds(BucketOf(p99)).hi # Infinite => p99 <= gc.stats.p99

\* "The cell pairs whose runs must resolve to one implementation" (suite.go): all
\* the runs of both cells.
EveryRunOfAPairIsCompared ==
  pc["runner"] = "green" =>
    \A p \in suite.pairs : \A i, j \in Contracts :
      suite.contracts[i].cell = p.a /\ suite.contracts[j].cell = p.b =>
        diffImplementations(ImplementationOf(bundles[i]), ImplementationOf(bundles[j])) = {}

=============================================================================
