------------------------------ MODULE Manifest ------------------------------
(***************************************************************************)
(* What is declared before anything runs (internal/manifest, and           *)
(* internal/runner: suite.go, implementation.go): a run's manifest, the    *)
(* acceptance suite that orders manifests, and the comparison of two cells *)
(* the suite asserts, as pure operators.                                   *)
(*                                                                         *)
(* Of a required text only whether it is there is kept; of a limit, whether*)
(* it is set, and which of two values it has.                              *)
(***************************************************************************)
EXTENDS Identity, Sequences, FiniteSets

-----------------------------------------------------------------------------
(* One run.                                                                *)

SchemaVersion == 1

\* The texts every manifest has to give.
Required == {"experiment_id", "session_id", "run_id", "environment", "catalog",
             "artifact_id", "runtime_dir", "triton_endpoint", "bundle_dir", "trace_dir"}

EntryKinds == {"unbatched", "dynamic", "explicit"}

\* The manifest of a cell as it should be written.
Manifest(run, cell, size, count, warmup, artifact, digest) ==
  LET perCohort == IF VectorizesCompute(cell) THEN 1 ELSE size IN
  [schemaVersion |-> SchemaVersion, given |-> Required, run |-> run, cell |-> cell,
   cohort    |-> [size |-> size, count |-> count, warmup |-> warmup,
                  deadline |-> IF AggregatesEnvelopes(cell) THEN 5 ELSE 0],
   model     |-> [artifact |-> artifact, entry |-> "unbatched", digest |-> digest],
   workload  |-> [mode |-> "fixed-cohort", timeout |-> 30],
   transport |-> [proxy |-> UsesProxy(cell), adapter |-> UsesProxy(cell), maxMessageBytes |-> 1],
   gc        |-> [gogc |-> 1, gomemlimit |-> 1],
   expected  |-> [executions |-> count * perCohort, perCohort |-> perCohort,
                  batchSize |-> IF VectorizesCompute(cell) THEN size ELSE 1,
                  maxWait |-> IF UsesProxy(cell) THEN 100 ELSE 0,
                  maxSkew |-> IF AggregatesEnvelopes(cell) THEN 25 ELSE 0],
   tolerance |-> 5]

MaxOrdinal == 2^uidOrdinalBits - 1

\* A mutant: the shape of an execution is taken as it is declared.
ShapeUnchecked(m) ==
  LET e == m.expected IN
  /\ e.executions = m.cohort.count * e.perCohort
  /\ AggregatesEnvelopes(m.cell) => e.maxSkew > 0
  /\ e.perCohort = m.cohort.size

\* The evidence tuple agrees with the cell's contract.
validateExpectedEvidence(m) ==
  LET e == m.expected IN
  /\ e.executions = m.cohort.count * e.perCohort
  /\ AggregatesEnvelopes(m.cell) => e.maxSkew > 0
  /\ IF VectorizesCompute(m.cell)
     THEN /\ e.perCohort = 1
          /\ e.batchSize = m.cohort.size
     ELSE /\ e.perCohort = m.cohort.size
          /\ e.batchSize = 1
          /\ UsesProxy(m.cell) => e.maxWait > 0

\* The entry the cell's factor V asks for, among those this slice serves.
EntryMatches(m) == m.model.entry = "unbatched" /\ ~VectorizesCompute(m.cell)

\* Validate accepts a manifest iff none of its checks refuses.
ValidManifest(m) ==
  /\ m.schemaVersion = SchemaVersion
  /\ Required \subseteq m.given
  /\ m.cell \in ImplementedCells
  /\ UsesProxy(m.cell) <=> m.transport.proxy
  /\ m.cohort.size \in 1 .. MaxOrdinal
  /\ m.cohort.count > 0
  /\ m.cohort.warmup >= 0
  /\ m.workload.mode = "fixed-cohort"
  /\ IF AggregatesEnvelopes(m.cell) THEN m.cohort.deadline > 0 ELSE m.cohort.deadline = 0
  /\ m.workload.timeout > 0
  /\ AggregatesEnvelopes(m.cell) => m.cohort.deadline < m.workload.timeout
  /\ EntryMatches(m)
  /\ m.transport.maxMessageBytes > 0
  /\ m.gc.gogc > 0 /\ m.gc.gomemlimit > 0
  /\ validateExpectedEvidence(m)
  /\ 0 < m.tolerance /\ m.tolerance < 100

\* The Triton model name of an artifact's entry.
EntryName(artifact, kind) == <<artifact, kind>>
ModelEntryName(m) == EntryName(m.model.artifact, m.model.entry)

-----------------------------------------------------------------------------
(* The acceptance suite: contracts in order, and pairs of cells.           *)

SuiteSchemaVersion == 2

\* The bundle directory of a manifest.
Dir(m) == m.run

CellsOf(contracts) == {contracts[i].cell : i \in DOMAIN contracts}

\* LoadSuite reads every manifest before the first one runs.
LoadSuite(suite) ==
  /\ suite.schemaVersion = SuiteSchemaVersion
  /\ suite.contracts # <<>>
  /\ \A i \in DOMAIN suite.contracts : ValidManifest(suite.contracts[i])
  /\ \A i, j \in DOMAIN suite.contracts :
       i # j => Dir(suite.contracts[i]) # Dir(suite.contracts[j])
  /\ \A p \in suite.pairs : p.a # p.b /\ {p.a, p.b} \subseteq CellsOf(suite.contracts)

\* The first contract of a cell is the one whose bundle is compared.
bundleForCell(contracts, cell) ==
  CHOOSE i \in DOMAIN contracts :
    /\ contracts[i].cell = cell
    /\ \A j \in 1 .. i - 1 : contracts[j].cell # cell

\* A mutant: the artifact's bytes are not among the properties.
DigestLeftOut(b) ==
  [executor   |-> b.adapter.executor,
   modelEntry |-> b.adapter.modelEntry,
   downstream |-> b.adapter.downstream,
   artifact   |-> b.entry.artifact,
   served     |-> b.identity.config]

\* What two cells must share: what the adapter says it wired, the channel it
\* opened and served, the artifact and its configuration, and what Triton says it
\* serves.  The cell, the run, the seed and the bounds stay out.
ImplementationOf(b) ==
  [executor       |-> b.adapter.executor,
   modelEntry     |-> b.adapter.modelEntry,
   downstream     |-> b.adapter.downstream,
   serving        |-> b.adapter.serving,
   artifact       |-> b.entry.artifact,
   artifactDigest |-> b.entry.digest,
   config         |-> b.entry.config,
   kind           |-> b.entry.kind,
   served         |-> b.identity.config]

diffImplementations(x, y) == {p \in DOMAIN x : x[p] # y[p]}

\* SameImplementation holds of two completed bundles of two cells, both of which
\* carry an adapter's record, that differ in nothing.  A bundle that is not there
\* has no state.
SameImplementation(a, b, missing) ==
  /\ a.state = "completed" /\ b.state = "completed"
  /\ a.cell # b.cell
  /\ a.adapter # missing /\ b.adapter # missing
  /\ diffImplementations(ImplementationOf(a), ImplementationOf(b)) = {}

=============================================================================
