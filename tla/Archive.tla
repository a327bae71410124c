------------------------------- MODULE Archive -------------------------------
(***************************************************************************)
(* What a run leaves on disk and what becomes of it (internal/runner:      *)
(* run.go, bundle.go, validate.go): the processes' streams and their       *)
(* counters, the archive made of them, the bundle's description, and the   *)
(* verdict that is reached from those files alone, by the run itself and   *)
(* by the operator (cmd/runner: judgeBundle).                              *)
(*                                                                         *)
(* The evidence of an attempt is a fixture of the test kit with at most    *)
(* one fault in it.  Before it is written it is judged as the offline seam *)
(* judges it, in memory.  A bundle directory is named by the run id, so a  *)
(* second attempt of the same manifest meets the files of the first.  The  *)
(* runner can be killed at any step, a service at any point of its stream. *)
(***************************************************************************)
EXTENDS Fixtures, RecordCodec

CONSTANTS
  TargetB,   \* members of a cohort
  Count,     \* recorded cohorts of a run
  Warmup,    \* warm-up cohorts, numbered before them
  Attempts   \* how often the manifest is run

ASSUME ArchiveAssumption ==
  /\ {TargetB, Count, Attempts} \subseteq Nat \ {0}
  /\ Warmup \in Nat
  /\ None \notin {"ok", "error", "killed"}

VARIABLES
  cell,      \* the cell of the manifest
  fault,     \* what is wrong with the evidence of this attempt
  evidence,  \* the fixture with the defects it has when judged in memory, and the warm-up
  attempt,   \* how many attempts were begun
  pc,        \* where Run stands
  returned,  \* what the attempt came to
  bundle,    \* the bundle in the runner's memory
  streams,   \* per emitter, the stream in the bundle directory
  stats,     \* per service, the counters beside its stream
  process,   \* the adapter's process record
  archived,  \* events.parquet
  described, \* bundle.json
  verdict    \* verdict.json

runVars  == <<cell, fault, evidence, attempt>>
diskVars == <<streams, stats, process, archived, described, verdict>>
vars == <<runVars, pc, returned, bundle, diskVars>>

FixtureSpec(c) == NewSpec(c, TargetB, Count, Warmup)

\* What the warm-up left at the services.  It wrote no records elsewhere.
WarmupRecords(s) ==
  SelectSeq(FlattenSeq([i \in 1 .. Warmup |-> cohortRecords([s EXCEPT !.first = 0], i - 1)]),
            LAMBDA r : r.emitter \in {"proxy", "adapter"})

InMemory(b) == [records |-> b.records, exp |-> b.exp, defects |-> Judged(b), warmup |-> WarmupRecords(b.spec)]

Evidence(c, f) == InMemory(Fixture(FixtureSpec(c), f))

Writers == {e \in Emitters : OwnedStages(cell, e) # {}}
Services == Writers \cap {"proxy", "adapter"}

Encoded(records) == [i \in DOMAIN records |-> appendRecord(records[i])]

\* The messages of one process, those of the warm-up first.
Messages(emitter) ==
  Encoded(SelectSeq(evidence.warmup \o evidence.records, LAMBDA r : r.emitter = emitter))

\* Where a fixture's dropped records were dropped: the proxy, or the only process
\* there is besides the backend.
Dropped(emitter) ==
  IF emitter = (IF UsesProxy(cell) THEN "proxy" ELSE "loadgen") THEN evidence.exp.dropped ELSE 0

-----------------------------------------------------------------------------
(* The bundle.                                                             *)

NoStatistics == [executionDelta |-> 0, inferenceDelta |-> 0, histogram |-> <<>>]

NewBundle ==
  [by |-> attempt, state |-> None, statistics |-> NoStatistics, streams |-> <<>>,
   archive |-> None, firstRecorded |-> 0]

StreamRecord(emitter, dropped) == [emitter |-> emitter, dropped |-> dropped]

\* Expectation: the manifest's part, the backend's statistics and the streams'
\* losses.
Expectation(b) ==
  [evidence.exp EXCEPT
     !.dropped = SumFunction([i \in DOMAIN b.streams |-> b.streams[i].dropped]),
     !.executionDelta = b.statistics.executionDelta,
     !.inferenceDelta = b.statistics.inferenceDelta,
     !.histogram = b.statistics.histogram]

\* Warm-up records stay out of what is judged.
RecordedOnly(records, first) == SelectSeq(records, LAMBDA r : CohortOf(r.member) >= first)

\* Every record of the bundle's streams, or None if one cannot be read.
ReadStreams(b) ==
  LET read == [i \in DOMAIN b.streams |-> ReadStream(streams[b.streams[i].emitter])]
  IN IF \E i \in DOMAIN read : read[i] = None THEN None ELSE FlattenSeq(read)

\* ValidateBundle: bundle.json and events.parquet, whoever wrote it last.  An
\* archive this build cannot read, or of another schema, is an error.
ValidateBundle ==
  LET records == Read(archived.rows) IN
  IF \/ described = None \/ described.torn
     \/ archived = None \/ archived.torn
     \/ records = None
     \/ \E i \in DOMAIN records : records[i].version # 1
  THEN None
  ELSE [bundleBy |-> described.by, archiveBy |-> archived.by,
        defects |-> Validate(Expectation(described), Join(records))]

\* What of a bundle's streams is judged and archived.
Recorded(b) == RecordedOnly(ReadStreams(b), b.firstRecorded)

ValidateStreams(b) == Validate(Expectation(b), Join(Recorded(b)))

Passed(v) == v.defects = {}

-----------------------------------------------------------------------------
(* execute, from the streams that are opened to the archive.               *)

\* The processes truncate the streams they open; the adapter describes itself.
\* Everything else an earlier attempt left stays.
OpensStreams ==
  /\ pc = "opening"
  /\ streams' = [e \in Writers |-> Stream(<<>>, FALSE)]
  /\ process' = IF UsesProxy(cell) THEN attempt ELSE process
  /\ pc' = "measuring"
  /\ UNCHANGED <<runVars, returned, bundle, stats, archived, described, verdict>>

\* A stage of execute returns an error.
Fails ==
  /\ pc \in {"opening", "stopped", "tracing"}
  /\ pc' = "failing"
  /\ UNCHANGED <<runVars, returned, bundle, diskVars>>

\* The run is over and the services have shut down: each closed its stream and
\* left its counters.
ServicesStop ==
  /\ pc = "measuring"
  /\ streams' = [e \in Writers |-> IF e = "triton" THEN streams[e] ELSE Stream(Messages(e), FALSE)]
  /\ stats' = [e \in Services |-> [written |-> Len(Messages(e)), dropped |-> Dropped(e)]] @@ stats
  /\ pc' = "stopped"
  /\ UNCHANGED <<runVars, returned, bundle, process, archived, described, verdict>>

\* A service dies with part of its stream flushed, possibly part of a message,
\* and no counters; Stop's error ends execute.
ServiceDies(e) ==
  /\ pc = "measuring"
  /\ \E torn \in BOOLEAN :
       streams' = [streams EXCEPT ![e] = Stream(SubSeq(Messages(e), 1, 1), torn)]
  /\ pc' = "failing"
  /\ UNCHANGED <<runVars, returned, bundle, stats, process, archived, described, verdict>>

TakesStatistics ==
  /\ pc = "stopped"
  /\ bundle' = [bundle EXCEPT !.statistics =
       [executionDelta |-> evidence.exp.executionDelta, inferenceDelta |-> evidence.exp.inferenceDelta,
        histogram |-> evidence.exp.histogram]]
  /\ pc' = "tracing"
  /\ UNCHANGED <<runVars, returned, diskVars>>

\* The traces are in and the runner's own two streams closed.
ClosesStreams ==
  /\ pc = "tracing"
  /\ streams' = [streams EXCEPT !["triton"] = Stream(Messages("triton"), FALSE)]
  /\ bundle' = [bundle EXCEPT !.streams = <<StreamRecord("loadgen", Dropped("loadgen")),
                                            StreamRecord("triton", 0)>>]
  /\ pc' = "accounting"
  /\ UNCHANGED <<runVars, returned, stats, process, archived, described, verdict>>

\* externalStreamRecord: the stream can be read, its counters are there and agree.
Accounts(e) ==
  /\ ReadStream(streams[e]) # None
  /\ e \in DOMAIN stats
  /\ stats[e].written = Len(ReadStream(streams[e]))

AccountsForServices ==
  /\ pc = "accounting"
  /\ IF (\A e \in Services : Accounts(e)) /\ (UsesProxy(cell) => process # None)
     THEN /\ bundle' = [bundle EXCEPT
               !.streams = @ \o (IF ~UsesProxy(cell) THEN <<>>
                                 ELSE <<StreamRecord("proxy", stats["proxy"].dropped),
                                        StreamRecord("adapter", stats["adapter"].dropped)>>),
               !.firstRecorded = Warmup]
          /\ pc' = "archiving"
     ELSE pc' = "failing" /\ UNCHANGED bundle
  /\ UNCHANGED <<runVars, returned, diskVars>>

Archives ==
  /\ pc = "archiving"
  /\ archived' = [by |-> attempt, torn |-> FALSE,
                  rows |-> Write(Recorded(bundle))]
  /\ bundle' = [bundle EXCEPT !.archive = "events.parquet"]
  /\ pc' = "completed"
  /\ UNCHANGED <<runVars, returned, streams, stats, process, described, verdict>>

-----------------------------------------------------------------------------
(* Run, around execute.                                                    *)

WriteBundle(b) ==
  described' = [by |-> b.by, state |-> b.state, statistics |-> b.statistics, streams |-> b.streams,
                archive |-> b.archive, firstRecorded |-> b.firstRecorded, torn |-> FALSE]

Returns(result) ==
  /\ returned' = result
  /\ pc' = "idle"

WritesCompleted ==
  /\ pc = "completed"
  /\ bundle' = [bundle EXCEPT !.state = "completed"]
  /\ WriteBundle(bundle')
  /\ pc' = "judging"
  /\ UNCHANGED <<runVars, returned, streams, stats, process, archived, verdict>>

WritesFailed ==
  /\ pc = "failing"
  /\ bundle' = [bundle EXCEPT !.state = "failed"]
  /\ WriteBundle(bundle')
  /\ Returns("error")
  /\ UNCHANGED <<runVars, streams, stats, process, archived, verdict>>

\* finalizeVerdict: the files are judged and the verdict put beside them ...
JudgesArchive ==
  /\ pc = "judging"
  /\ IF ValidateBundle = None
     THEN Returns("error") /\ UNCHANGED verdict
     ELSE verdict' = ValidateBundle /\ pc' = "crosschecking" /\ UNCHANGED returned
  /\ UNCHANGED <<runVars, bundle, streams, stats, process, archived, described>>

\* ... and then the raw streams, which have to come to the same.
JudgesStreams ==
  /\ pc = "crosschecking"
  /\ IF Passed(verdict) # (ValidateStreams(described) = {}) THEN Returns("error")
     ELSE IF Passed(verdict) THEN Returns("ok")
     ELSE pc' = "rejecting" /\ UNCHANGED returned
  /\ UNCHANGED <<runVars, bundle, diskVars>>

\* Mutant: a rejected run is written as it was.
RejectedAsItWas == bundle

\* What a rejected run writes is the bundle it completed with, failed.
Rejected == [bundle EXCEPT !.state = "failed"]

WritesRejected ==
  /\ pc = "rejecting"
  /\ bundle' = Rejected
  /\ WriteBundle(bundle')
  /\ Returns("error")
  /\ UNCHANGED <<runVars, streams, stats, process, archived, verdict>>

\* The runner is killed; a file it was writing is left in part.
Killed ==
  /\ pc # "idle"
  /\ Returns("killed")
  /\ \/ UNCHANGED <<archived, described>>
     \/ /\ pc = "archiving"
        /\ archived' = [by |-> attempt, torn |-> TRUE, rows |-> <<>>]
        /\ UNCHANGED described
     \/ /\ pc \in {"completed", "failing", "rejecting"}
        /\ described' = [by |-> attempt, torn |-> TRUE]
        /\ UNCHANGED archived
  /\ UNCHANGED <<runVars, bundle, streams, stats, process, verdict>>

-----------------------------------------------------------------------------
(* The operator.                                                           *)

\* judgeBundle, of a directory no run is working in.
OperatorJudges ==
  /\ pc = "idle"
  /\ returned # None
  /\ ValidateBundle # None
  /\ verdict' = ValidateBundle
  /\ UNCHANGED <<runVars, pc, returned, bundle, streams, stats, process, archived, described>>

\* The faults a manifest is run again after, and those it then meets.
Retried == {Sound, Fault("dropped_records", None, None)}

\* A cell this build runs is run: NewLayout leaves what it finds.
Runs ==
  /\ pc = "idle"
  /\ returned = None
  /\ cell \in ImplementedCells
  /\ attempt' = 1
  /\ bundle' = [NewBundle EXCEPT !.by = 1]
  /\ pc' = "opening"
  /\ UNCHANGED <<cell, fault, evidence, returned, diskVars>>

RunsAgain ==
  /\ pc = "idle"
  /\ returned # None
  /\ attempt < Attempts
  /\ fault \in Retried
  /\ fault' \in Retried
  /\ evidence' = Evidence(cell, fault')
  /\ attempt' = attempt + 1
  /\ bundle' = [NewBundle EXCEPT !.by = attempt + 1]
  /\ pc' = "opening"
  /\ returned' = None
  /\ UNCHANGED <<cell, diskVars>>

-----------------------------------------------------------------------------

Init ==
  /\ cell \in AllCells
  /\ fault \in Faults(cell)
  /\ evidence = Evidence(cell, fault)
  /\ attempt = 0 /\ pc = "idle" /\ returned = None
  /\ bundle = None
  /\ streams = <<>> /\ stats = <<>> /\ process = None
  /\ archived = None /\ described = None /\ verdict = None

Next ==
  \/ Runs \/ RunsAgain \/ OpensStreams \/ Fails \/ ServicesStop \/ TakesStatistics \/ ClosesStreams
  \/ AccountsForServices \/ Archives \/ WritesCompleted \/ WritesFailed
  \/ JudgesArchive \/ JudgesStreams \/ WritesRejected \/ Killed \/ OperatorJudges
  \/ \E e \in Services : ServiceDies(e)

Spec == Init /\ [][Next]_vars

-----------------------------------------------------------------------------
(* What must hold.                                                         *)

\* The seam: in every cell of the design, what was planted is named by its own
\* defect, and evidence with nothing planted has none (internal/testkit,
\* validate_test.go).
PlantedFaultIsNamed ==
  IF fault.kind = None THEN evidence.defects = {} ELSE fault.kind \in evidence.defects

\* Every record the streams hold has its place in the archive.
Archivable(records) ==
  /\ records = [i \in 1 .. Len(records) |-> records[i]]
  /\ \A i \in 1 .. Len(records) : Storable(records[i])

\* The verdict Run reaches from its files, through the wire, the archive and
\* the bundle, is the one its evidence has in memory: neither conversion changes
\* what a check sees, and the backend's and the streams' counters arrive.
VerdictSurvivesTheArchive ==
  pc = "crosschecking" =>
    /\ verdict = [bundleBy |-> attempt, archiveBy |-> attempt, defects |-> evidence.defects]
    /\ Archivable(Recorded(described))

\* Run returns without error only when every file in the directory is of this
\* attempt, says that it completed and passed, and the evidence is sound; and a
\* run that was rejected does not stay completed, unless it was killed first.
CompletedMeansItsOwn ==
  /\ returned = "ok" =>
       /\ described.by = attempt /\ ~described.torn /\ described.state = "completed"
       /\ archived.by = attempt /\ ~archived.torn
       /\ verdict.bundleBy = attempt /\ verdict.archiveBy = attempt /\ Passed(verdict)
       /\ UsesProxy(cell) => process = attempt
       /\ evidence.defects = {}
  /\ returned = "error" /\ verdict # None =>
       (verdict.bundleBy = attempt /\ ~Passed(verdict) => described.state = "failed")

-----------------------------------------------------------------------------
(* What a comment says and the code does not do.                           *)

\* "Every step that could silently substitute something is a check" (Run): the
\* archive a run passes on is the archive that run wrote.
VerdictIsTheRunsOwn ==
  verdict # None /\ Passed(verdict) => verdict.bundleBy = verdict.archiveBy

=============================================================================
