---------------------------- MODULE BackendTraces ----------------------------
(***************************************************************************)
(* How one run gathers the backend's timestamps: TraceCollector            *)
(* (internal/triton/trace.go), the requests execute releases between its   *)
(* construction and Collect, and recordBackendTimestamps                   *)
(* (internal/runner/run.go).                                               *)
(*                                                                         *)
(* Triton is external and modelled by what the collector relies on.  It    *)
(* samples every request while the trace budget lasts.  A trace belongs to *)
(* the setting it was sampled under, and is released to it after the       *)
(* response was written.  A setting writes its traces to a file of their   *)
(* own when it holds Rotation of them, and what is left when it was        *)
(* replaced and its last trace is released.  A file grows from empty to    *)
(* complete while it is written.                                           *)
(***************************************************************************)
EXTENDS Naturals, FiniteSets, Sequences

CONSTANTS
  Requests,  \* the recorded logical requests of the run
  Others,    \* warm-up requests, and other traffic under the trace setting
  Rotation,  \* TraceRotation
  Margin,    \* traceBudgetMargin
  None

ASSUME BackendTracesAssumption ==
  /\ IsFiniteSet(Requests) /\ IsFiniteSet(Others)
  /\ Requests # {}
  /\ Requests \cap Others = {}
  /\ Rotation \in Nat \ {0}
  /\ Margin \in Nat \ {0}

All == Requests \cup Others

\* The settings of one run: the one it found, NewTraceCollector's and flush's.
Settings == 0 .. 2

VARIABLES
  client,     \* what the load generator knows of each request
  backend,    \* how far the backend is with each request
  under,      \* the setting each sampled request was sampled under
  whole,      \* the traces that carry all three timestamps
  setting,    \* the trace setting in force
  remaining,  \* its remaining trace_count
  buffer,     \* the released traces each setting holds
  files,      \* the indexed files, in the order they were created
  pc,         \* where the collector stands
  reason,     \* why it failed
  budgetAt,   \* TraceCollector.budgetAt
  seen,       \* TraceCollector.seen
  collected,  \* TraceCollector.collected
  stream,     \* the requests recorded in the triton stream
  others      \* the others sampled between the two readings of the tally

clientVars  == <<client>>
serverVars  == <<backend, under, whole, setting, remaining, buffer>>
collectVars == <<pc, reason, budgetAt, seen, collected, stream>>
vars == <<clientVars, serverVars, files, collectVars, others>>

Budget == Cardinality(Requests) + Margin

-----------------------------------------------------------------------------
(* The backend.                                                            *)

\* A request may reach the backend: the run's own while it releases cohorts, if
\* the proxy did not refuse it; the others' at any time.
MayArrive(x) ==
  /\ backend[x] = "none"
  /\ x \in Requests => pc = "running" /\ client[x] \in {"sent", "failed"}

\* It is sampled while the budget lasts.
Arrives(x) ==
  /\ MayArrive(x)
  /\ remaining > 0
  /\ remaining' = remaining - 1
  /\ backend' = [backend EXCEPT ![x] = "executing"]
  /\ under' = [under EXCEPT ![x] = setting]
  /\ others' = IF x \in Others /\ pc \in {"running", "counting"} THEN others \cup {x} ELSE others
  /\ UNCHANGED <<clientVars, whole, setting, buffer, files, collectVars>>

\* Past the budget it is executed all the same.
ArrivesUntraced(x) ==
  /\ MayArrive(x)
  /\ remaining = 0
  /\ backend' = [backend EXCEPT ![x] = "untraced"]
  /\ UNCHANGED <<clientVars, under, whole, setting, remaining, buffer, files, collectVars, others>>

\* The execution completes, or dies before it computed.
Executes(x) ==
  /\ backend[x] = "executing"
  /\ backend' = [backend EXCEPT ![x] = "answered"]
  /\ whole' \in {whole, whole \cup {x}}
  /\ UNCHANGED <<clientVars, under, setting, remaining, buffer, files, collectVars, others>>

\* The frontend releases the trace to its setting.
Releases(x) ==
  /\ backend[x] = "answered"
  /\ backend' = [backend EXCEPT ![x] = "released"]
  /\ buffer' = [buffer EXCEPT ![under[x]] = @ \cup {x}]
  /\ UNCHANGED <<clientVars, under, whole, setting, remaining, files, collectVars, others>>

\* A setting writes: it is full, or it was replaced and its last trace is in.
Writes(s) ==
  /\ buffer[s] # {}
  /\ \/ Cardinality(buffer[s]) >= Rotation
     \/ /\ s < setting
        /\ \A x \in All : backend[x] \in {"executing", "answered"} => under[x] # s
  /\ files' = Append(files, [traces |-> buffer[s], size |-> "empty"])
  /\ buffer' = [buffer EXCEPT ![s] = {}]
  /\ UNCHANGED <<clientVars, backend, under, whole, setting, remaining, collectVars, others>>

\* A file that was created receives some of its bytes, then the rest.
Grows(i) ==
  /\ \/ files[i].size = "empty" /\ files' = [files EXCEPT ![i].size = "partial"]
     \/ files[i].size = "partial" /\ files' = [files EXCEPT ![i].size = "complete"]
  /\ UNCHANGED <<clientVars, serverVars, collectVars, others>>

\* applySettings: a new setting with a full budget.
Replaces ==
  /\ setting' = setting + 1
  /\ remaining' = Budget
  /\ UNCHANGED <<backend, under, whole, buffer>>

-----------------------------------------------------------------------------
(* The requests, as the load generator sees them.                          *)

Sends(x) ==
  /\ pc = "running"
  /\ client[x] = "idle"
  /\ client' = [client EXCEPT ![x] = "sent"]
  /\ UNCHANGED <<serverVars, files, collectVars, others>>

\* The proxy refuses the request (its cohort did not form), so it never reaches
\* the backend.
IsRefused(x) ==
  /\ client[x] = "sent"
  /\ backend[x] = "none"
  /\ client' = [client EXCEPT ![x] = "refused"]
  /\ UNCHANGED <<serverVars, files, collectVars, others>>

\* The answer comes, or the caller fails for another reason meanwhile.
Ends(x) ==
  /\ client[x] = "sent"
  /\ \/ /\ backend[x] = "untraced" \/ (x \in whole /\ backend[x] \in {"answered", "released"})
        /\ client' = [client EXCEPT ![x] = "ok"]
     \/ client' = [client EXCEPT ![x] = "failed"]
  /\ UNCHANGED <<serverVars, files, collectVars, others>>

-----------------------------------------------------------------------------
(* The collector.                                                          *)

Becomes(where) == pc' = where /\ UNCHANGED reason

GivesUp(why) == pc' = "failed" /\ reason' = why

\* NewTraceCollector: replace the setting ...
StartsFresh ==
  /\ pc = "new"
  /\ Replaces
  /\ Becomes("settling")
  /\ UNCHANGED <<clientVars, files, budgetAt, seen, collected, stream, others>>

\* ... let the files settle, which may look so too early, and remove them (a
\* file that is gone is one that will not be read) ...
Clears ==
  /\ pc = "settling"
  /\ seen' = DOMAIN files
  /\ Becomes("reading")
  /\ UNCHANGED <<clientVars, serverVars, files, budgetAt, collected, stream, others>>

\* ... and read the tally this run starts from.
ReadsTally ==
  /\ pc = "reading"
  /\ budgetAt' = remaining
  /\ Becomes("running")
  /\ UNCHANGED <<clientVars, serverVars, files, seen, collected, stream, others>>

\* Every cohort was released and the data plane is down: Collect begins.
BeginsCollect ==
  /\ pc = "running"
  /\ \A x \in Requests : client[x] \in {"ok", "failed", "refused"}
  /\ Becomes("counting")
  /\ UNCHANGED <<clientVars, serverVars, files, budgetAt, seen, collected, stream, others>>

\* checkServerCount's second question.
CountAgrees == budgetAt - remaining = Cardinality(Requests)

\* checkServerCount.
Counts ==
  /\ pc = "counting"
  /\ \/ remaining = 0 /\ GivesUp("exhausted")
     \/ remaining > 0 /\ ~CountAgrees /\ GivesUp("count")
     \/ remaining > 0 /\ CountAgrees /\ Becomes("flushing")
  /\ UNCHANGED <<clientVars, serverVars, files, budgetAt, seen, collected, stream, others>>

\* flush, which restores the budget.
Flushes ==
  /\ pc = "flushing"
  /\ Replaces
  /\ budgetAt' = Budget
  /\ Becomes("draining")
  /\ UNCHANGED <<clientVars, files, seen, collected, stream, others>>

\* Mutant: an incomplete trace counts as found.
FoundIncomplete(traces) == traces \cap Requests

\* The expected requests among these traces, with all three timestamps.
Found(traces) == traces \cap Requests \cap whole

\* drain and the check of what has come in: every file is read once.  An empty
\* one yields nothing, one cut short does not parse.
Drains ==
  LET new == DOMAIN files \ seen
      read == UNION {files[i].traces : i \in {j \in new : files[j].size = "complete"}}
  IN
  /\ pc = "draining"
  /\ \/ /\ \E i \in new : files[i].size = "partial"
        /\ GivesUp("unparsable")
        /\ UNCHANGED <<seen, collected>>
     \/ /\ \A i \in new : files[i].size # "partial"
        /\ seen' = seen \cup new
        /\ collected' = collected \cup read
        /\ IF Found(collected') = Requests THEN Becomes("recording") ELSE Becomes("draining")
  /\ UNCHANGED <<clientVars, serverVars, files, budgetAt, stream, others>>

\* Mutant: the wait has no bound.
WaitsForEver == FALSE

\* FlushTimeout.
TimesOut ==
  /\ pc = "draining"
  /\ GivesUp("timeout")
  /\ UNCHANGED <<clientVars, serverVars, files, budgetAt, seen, collected, stream, others>>

\* The traces that become records: complete, and of this run.
Recorded == collected \cap Requests \cap whole

\* recordBackendTimestamps: a request of this run without a complete trace is
\* missing unless its caller saw it fail.
Records ==
  /\ pc = "recording"
  /\ stream' = Recorded
  /\ IF \E x \in Requests \ stream' : client[x] = "ok" THEN GivesUp("missing") ELSE Becomes("done")
  /\ UNCHANGED <<clientVars, serverVars, files, budgetAt, seen, collected, others>>

\* The context ends or a call of Triton fails.
Aborts ==
  /\ pc \in {"new", "settling", "reading", "counting", "flushing", "draining"}
  /\ GivesUp("aborted")
  /\ UNCHANGED <<clientVars, serverVars, files, budgetAt, seen, collected, stream, others>>

-----------------------------------------------------------------------------

Init ==
  /\ client = [x \in Requests |-> "idle"]
  /\ backend = [x \in All |-> "none"]
  /\ under = [x \in All |-> None]
  /\ whole = {}
  /\ setting = 0
  /\ remaining = Budget
  /\ buffer = [s \in Settings |-> {}]
  /\ files = <<>>
  /\ pc = "new" /\ reason = None
  /\ budgetAt = 0
  /\ seen = {} /\ collected = {} /\ stream = {}
  /\ others = {}

Backend ==
  \/ \E x \in All : Executes(x) \/ Releases(x)
  \/ \E s \in Settings : Writes(s)
  \/ \E i \in DOMAIN files : Grows(i)

Collecting ==
  StartsFresh \/ Clears \/ ReadsTally \/ BeginsCollect \/ Counts \/ Flushes \/ Drains \/ TimesOut \/ Records

Next ==
  \/ Backend \/ Collecting \/ Aborts
  \/ \E x \in All : Arrives(x) \/ ArrivesUntraced(x)
  \/ \E x \in Requests : Sends(x) \/ IsRefused(x) \/ Ends(x)

Spec == Init /\ [][Next]_vars

\* The runner goes on, and its timeout comes: the drain alone, which can be
\* repeated for ever, does not keep it from doing so.  Nothing is asked of
\* Triton.
FairSpec == Spec /\ WF_vars(Collecting) /\ WF_vars(TimesOut) /\ \A x \in Requests : WF_vars(Ends(x))

-----------------------------------------------------------------------------
(* What must hold.                                                         *)

\* A run that gets past the collection has the three timestamps of every request
\* it released, whatever arrived, died, was rotated out early or flushed late,
\* and nobody else's traffic ran through the backend between the two tallies: a
\* stranger cannot stand in for a request that never arrived, because the tally
\* is checked by number and the traces by name (checkServerCount).
DoneMeansTheRunsOwn == pc = "done" => stream = Requests /\ others = {}

\* The collection ends, whatever Triton writes or fails to write.
CollectionEnds == pc = "counting" ~> pc \in {"done", "failed"}

-----------------------------------------------------------------------------
(* What comments say and the code does not do.                             *)

\* "Those members are passed over": requests refused at the proxy do not end
\* the run while every other one was sampled and nobody else was.
RefusedArePassedOver ==
  pc = "failed" /\ reason = "count" =>
    \/ others # {}
    \/ \E x \in Requests : client[x] # "refused" /\ backend[x] = "none"

=============================================================================
