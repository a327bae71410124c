------------------------------ MODULE Adapter ------------------------------
(***************************************************************************)
(* The backend adapter process: cmd/adapter, internal/adapter, the         *)
(* individual executor and Triton's submission engine behind it, and the   *)
(* envelope contract of internal/envelope both ends are held to.           *)
(*                                                                         *)
(* Every call of Execute is a gRPC handler on a goroutine of its own, and  *)
(* it submits its members to Triton on one goroutine each.  Callers        *)
(* hanging up, Triton's answers, SIGINT and SIGKILL happen beside them.    *)
(* Bytes are abstracted to payload sizes; timestamps are RunEvidence's.    *)
(***************************************************************************)
EXTENDS Identity, Integers, FiniteSets, Sequences, SequencesExt

CONSTANTS
  Calls,    \* the calls of Execute, one handler goroutine each
  Cohorts,  \* the cohort ids members may carry
  TargetB,  \* the cohort size the run declared
  None

ASSUME AdapterAssumption ==
  /\ IsFiniteSet(Calls)
  /\ Cohorts \subseteq Nat
  /\ TargetB \in Nat \ {0}
  /\ None \notin [cell : AllCells, executor : {"individual"}]

VARIABLES
  cell,       \* --cell
  clock,      \* the clock domain this process establishes
  phase,      \* where run() of cmd/adapter stands
  signalled,  \* SIGINT or SIGTERM was caught
  exit,       \* how the process ended
  disk,       \* the files at --events; None is the previous run's, or none at all
  stream,     \* the records the writer took
  dropped,    \* the records it refused
  pc,         \* where each handler stands
  env,        \* the envelope each call brought
  ctx,        \* the caller's context: live or ended
  sub,        \* each goroutine of a fan-out: the member it names, its state, what
              \* its submission came to
  results,    \* each call's result slots
  answer,     \* what each call returned
  outcomes    \* history: what each submission came to; no action reads it

processVars == <<cell, clock, phase, signalled, exit, disk>>
streamVars  == <<stream, dropped>>
callVars    == <<pc, env, ctx, sub, results, answer, outcomes>>
vars == <<processVars, streamVars, callVars>>

-----------------------------------------------------------------------------
(* Executor selection.                                                     *)

\* The executor a cell's declared factors require, and whether it is linked in.
Kind(c) ==
  CASE ~VectorizesCompute(c) -> "individual"
    [] PreformsBatch(c)      -> "preformed"
    [] OTHER                 -> "dynamic"
SelectKind(c) == IF Kind(c) = "individual" THEN Kind(c) ELSE None

-----------------------------------------------------------------------------
(* The envelope contract.                                                  *)

\* The run-scoped identity a builder stamps on its envelopes, and what the
\* adapter expects of them.
Config(run, c, k, b) == [schema |-> 1, run |-> run, cell |-> c, clock |-> k, targetB |-> b]
Expectation == Config("this", cell, clock, TargetB)

base(cfg) == [config |-> cfg, vectorize |-> VectorizesCompute(cfg.cell)]

\* One member on the wire.  A payload is its size.
LogicalRequest(m, payload) ==
  [cohort |-> m.cohort, ordinal |-> m.ordinal, uid |-> UID(m.cohort, m.ordinal), payload |-> payload]

Independent(cfg, r) ==
  [base |-> base(cfg), cohort |-> r.cohort, expected |-> 1, aggregate |-> FALSE,
   seal |-> FALSE, requests |-> <<r>>]

\* The place of the i-th member among its cohort's.  Members with one ordinal,
\* which are refused whatever their order, keep theirs.
place(rs, i) ==
  Cardinality({j \in DOMAIN rs : \/ rs[j].ordinal < rs[i].ordinal
                                 \/ rs[j].ordinal = rs[i].ordinal /\ j <= i})

canonicalOrder(rs) == [k \in DOMAIN rs |-> rs[CHOOSE i \in DOMAIN rs : place(rs, i) = k]]

\* Mutant: counting members is taken for membership.
CountsMembers(rs, b) == Len(rs) = b

checkCohortMembership(rs, b) ==
  /\ \A i \in DOMAIN rs : rs[i].ordinal < b
  /\ \A o \in 0 .. b - 1 : Cardinality({i \in DOMAIN rs : rs[i].ordinal = o}) = 1

checkCanonicalOrder(rs) ==
  \A i \in 2 .. Len(rs) : rs[i].ordinal > rs[i - 1].ordinal

\* Aggregate: the whole cohort in one message, or an error.
Aggregate(cfg, rs) ==
  LET built == [base |-> base(cfg), cohort |-> rs[1].cohort, expected |-> Len(rs),
                aggregate |-> TRUE, seal |-> TRUE, requests |-> canonicalOrder(rs)]
  IN IF /\ \A i \in DOMAIN rs : rs[i].cohort = rs[1].cohort
        /\ checkCohortMembership(built.requests, cfg.targetB)
     THEN built ELSE None

checkMember(r, e) ==
  /\ r.uid = UID(r.cohort, r.ordinal)
  /\ r.cohort = e.cohort
  /\ r.payload > 0

\* envelope.Validate.
Validate(e, exp) ==
  /\ e.base.config = exp
  /\ e.aggregate = AggregatesEnvelopes(exp.cell)
  /\ e.base.vectorize = VectorizesCompute(exp.cell)
  /\ Len(e.requests) = e.expected
  /\ Len(e.requests) = IF e.aggregate THEN exp.targetB ELSE 1
  /\ e.seal = e.aggregate
  /\ \A i \in DOMAIN e.requests : checkMember(e.requests[i], e)
  /\ e.aggregate => checkCohortMembership(e.requests, exp.targetB)
  /\ checkCanonicalOrder(e.requests)

-----------------------------------------------------------------------------
(* What may arrive: envelopes a proxy of this run or of another one built, *)
(* and envelopes that drifted from the contract in one respect.            *)

Logical == {LogicalRequest([cohort |-> c, ordinal |-> o], o + 1) : c \in Cohorts, o \in 0 .. TargetB}

BuiltBy(cfg) ==
  IF AggregatesEnvelopes(cfg.cell)
  THEN {Aggregate(cfg, rs) : rs \in [1 .. cfg.targetB -> Logical]} \ {None}
  ELSE {Independent(cfg, r) : r \in Logical}

Foreign ==
  {[Expectation EXCEPT !.schema = 2], [Expectation EXCEPT !.run = "other"],
   [Expectation EXCEPT !.clock = "other"], [Expectation EXCEPT !.targetB = TargetB + 1],
   [Expectation EXCEPT !.cell = IF cell = "F00" THEN "F10" ELSE "F00"]}

Drifts(e) ==
  LET rs == e.requests IN
  {[e EXCEPT !.expected = @ + 1], [e EXCEPT !.seal = ~@], [e EXCEPT !.aggregate = ~@],
   [e EXCEPT !.base.vectorize = ~@],
   [e EXCEPT !.requests = Tail(rs)], [e EXCEPT !.requests = Reverse(rs)],
   [e EXCEPT !.requests = [i \in DOMAIN rs |-> rs[1]]],
   [e EXCEPT !.requests[Len(rs)] = LogicalRequest([cohort |-> rs[1].cohort, ordinal |-> TargetB], TargetB + 1)],
   [e EXCEPT !.requests[1].uid = @ + 1], [e EXCEPT !.requests[1].payload = 0],
   [e EXCEPT !.cohort = @ + 1]}

Samples(cfg) == {e \in BuiltBy(cfg) : e.cohort = Min(Cohorts) /\ e.requests[1].ordinal = 0}

Arriving ==
  BuiltBy(Expectation)
    \cup (UNION {Samples(cfg) : cfg \in Foreign})
    \cup (UNION {Drifts(e) : e \in Samples(Expectation)})

-----------------------------------------------------------------------------
(* The process: run() of cmd/adapter.                                      *)

Exits(how) ==
  /\ phase' = "exited"
  /\ exit' = how

\* Flags, cell, clock domain and executor are judged before a file is touched.
Refuses ==
  /\ phase = "wiring"
  /\ cell \notin ImplementedCells \/ clock # "run's" \/ SelectKind(cell) = None
  /\ Exits("error")
  /\ UNCHANGED <<cell, clock, signalled, disk, streamVars, callVars>>

\* NewFileWriter truncates the stream; the files beside it stay.
OpensStream ==
  /\ phase = "wiring"
  /\ cell \in ImplementedCells /\ clock = "run's" /\ SelectKind(cell) # None
  /\ phase' = "wired"
  /\ disk' = [disk EXCEPT !.stream = "open"]
  /\ UNCHANGED <<cell, clock, signalled, exit, streamVars, callVars>>

\* WriteProcessRecord, before anything is served.
Describes ==
  /\ phase = "wired"
  /\ phase' = "described"
  /\ disk' = [disk EXCEPT !.process = [cell |-> cell, executor |-> SelectKind(cell)]]
  /\ UNCHANGED <<cell, clock, signalled, exit, streamVars, callVars>>

Listens ==
  /\ phase = "described"
  /\ phase' = "listening"
  /\ UNCHANGED <<cell, clock, signalled, exit, disk, streamVars, callVars>>

\* NotifyContext: from here on a signal is caught.
Arms ==
  /\ phase = "listening"
  /\ phase' = "armed"
  /\ UNCHANGED <<cell, clock, signalled, exit, disk, streamVars, callVars>>

Serves ==
  /\ phase = "armed"
  /\ phase' = "serving"
  /\ UNCHANGED <<cell, clock, signalled, exit, disk, streamVars, callVars>>

\* A step of the wiring fails; the deferred writer.Close runs, WriteStats
\* does not.  Serve fails when GracefulStop came first.
WiringFails ==
  /\ \/ phase \in {"wired", "described"}
     \/ phase = "armed" /\ signalled
  /\ Exits("error")
  /\ disk' = [disk EXCEPT !.stream = "closed"]
  /\ UNCHANGED <<cell, clock, signalled, streamVars, callVars>>

\* SIGINT: caught once NotifyContext ran, fatal before.
Interrupt ==
  /\ phase # "exited"
  /\ ~signalled
  /\ signalled' = TRUE
  /\ IF phase \in {"wiring", "wired", "described", "listening"}
     THEN Exits("killed") ELSE UNCHANGED <<phase, exit>>
  /\ UNCHANGED <<cell, clock, disk, streamVars, callVars>>

\* SIGKILL, or a crash.
Killed ==
  /\ phase # "exited"
  /\ Exits("killed")
  /\ UNCHANGED <<cell, clock, signalled, disk, streamVars, callVars>>

\* GracefulStop: nothing more is accepted.
Drains ==
  /\ phase = "serving" /\ signalled
  /\ phase' = "draining"
  /\ UNCHANGED <<cell, clock, signalled, exit, disk, streamVars, callVars>>

\* Mutant: Serve returns as soon as the listener is closed.
ReturnsAtOnce == TRUE

\* Serve returns when every handler has.
HandlersReturned == \A c \in Calls : pc[c] # "running"

\* Serve returned, and the writer is closed.
ClosesStream ==
  /\ phase = "draining"
  /\ HandlersReturned
  /\ phase' = "closing"
  /\ disk' = [disk EXCEPT !.stream = "closed"]
  /\ UNCHANGED <<cell, clock, signalled, exit, streamVars, callVars>>

\* writer.Close failed: no stats.
CloseFails ==
  /\ phase = "closing"
  /\ Exits("error")
  /\ UNCHANGED <<cell, clock, signalled, disk, streamVars, callVars>>

WritesStats ==
  /\ phase = "closing"
  /\ Exits("ok")
  /\ disk' = [disk EXCEPT !.stats = [written |-> Cardinality(stream), dropped |-> dropped]]
  /\ UNCHANGED <<cell, clock, signalled, streamVars, callVars>>

Process ==
  \/ Refuses \/ OpensStream \/ Describes \/ Listens \/ Arms \/ Serves \/ WiringFails
  \/ Drains \/ ClosesStream \/ CloseFails \/ WritesStats

-----------------------------------------------------------------------------
(* The handler: Service.Execute over the individual executor.              *)

Alive == phase # "exited"

MemberOf(r) == [cohort |-> r.cohort, ordinal |-> r.ordinal]

\* Mutant: every goroutine captures the loop's last member.
CapturesLast(e, i) == MemberOf(e.requests[Len(e.requests)])

\* The member goroutine i of the fan-out was handed.
Captured(e, i) == MemberOf(e.requests[i])

\* The first thing a goroutine does is call Submit, and Submit ModelInfer.
Submitting(m) == [member |-> m, state |-> "submitting", out |-> None]

\* What a submission comes to.
Attests(membership) == [status |-> "ok", membership |-> membership]
Failed == [status |-> "error", membership |-> <<>>]

\* What a slot holds of a member; make leaves the zero value in each.
MemberResult(m, out) == [member |-> m, status |-> out.status, membership |-> out.membership]
Zero == MemberResult([cohort |-> 0, ordinal |-> 0], Attests(<<>>))

\* Validate refuses the envelope: no record, no submission.  With its handler
\* gRPC ends the call's context, here and below.
ExecuteRefuses(c) ==
  /\ phase = "serving" /\ pc[c] = "idle"
  /\ \E e \in Arriving :
       /\ ~Validate(e, Expectation)
       /\ env' = [env EXCEPT ![c] = e]
  /\ pc' = [pc EXCEPT ![c] = "returned"]
  /\ ctx' = [ctx EXCEPT ![c] = "ended"]
  /\ UNCHANGED <<processVars, streamVars, sub, results, answer, outcomes>>

\* The envelope is admitted, and its members' goroutines are started.
ExecuteFansOut(c) ==
  /\ phase = "serving" /\ pc[c] = "idle"
  /\ \E e \in Arriving :
       /\ Validate(e, Expectation)
       /\ env' = [env EXCEPT ![c] = e]
       /\ sub' = [sub EXCEPT ![c] = [i \in DOMAIN e.requests |-> Submitting(Captured(e, i))]]
       /\ results' = [results EXCEPT ![c] = [i \in DOMAIN e.requests |-> Zero]]
  /\ pc' = [pc EXCEPT ![c] = "running"]
  /\ UNCHANGED <<processVars, streamVars, ctx, answer, outcomes>>

\* Submit returns to its goroutine.
Returns(c, i, out) ==
  /\ Alive /\ pc[c] = "running"
  /\ sub[c][i].state = "submitting"
  /\ sub' = [sub EXCEPT ![c][i].state = "returned", ![c][i].out = out]
  /\ outcomes' = outcomes \cup {[call |-> c, member |-> sub[c][i].member, out |-> out]}
  /\ UNCHANGED <<processVars, streamVars, pc, env, ctx, results, answer>>

\* Triton's uid_set for a submission of one member: a row per member, each
\* the whole execution's membership.  None: the output is not there.
UIDSets(m) ==
  LET own == UID(m.cohort, m.ordinal) IN
  {None, << <<own>> >>, << <<own, own + 1>> >>, << <<own>>, <<own>> >>, << <<own>>, <<own + 1>> >>}

\* parseResponse: one row per submitted member, and rows that agree.
WellShaped(rows, n) ==
  /\ rows # None
  /\ Len(rows) = n
  /\ \A r \in DOMAIN rows : rows[r] = rows[1]

\* Triton answers, and Submit returns what the answer attests or an error.
SubmitReturns(c, i) ==
  \E rows \in UIDSets(sub[c][i].member) :
    Returns(c, i, IF WellShaped(rows, 1) THEN Attests(rows[1]) ELSE Failed)

\* The call fails at Triton or on the way.
SubmitFails(c, i) == Returns(c, i, Failed)

\* Mutant: the submission outlives the call it is for.
SubmitDetached(c, i) == FALSE /\ UNCHANGED vars

\* ModelInfer returns once the call's context ends.
SubmitCancelled(c, i) ==
  /\ ctx[c] = "ended"
  /\ Returns(c, i, Failed)

\* Mutant: the goroutines of a call share the variable the last of them assigned to.
SharesOut(c, i) ==
  LET last == sub[c][Len(sub[c])] IN IF last.out # None THEN last.out ELSE sub[c][i].out

\* What the goroutine puts into its slot, of its own variables.
Own(c, i) == sub[c][i].out

\* The goroutine fills its slot and is done.
Stores(c, i) ==
  /\ Alive /\ pc[c] = "running"
  /\ sub[c][i].state = "returned"
  /\ results' = [results EXCEPT ![c][i] = MemberResult(sub[c][i].member, Own(c, i))]
  /\ sub' = [sub EXCEPT ![c][i].state = "done"]
  /\ UNCHANGED <<processVars, streamVars, pc, env, ctx, answer, outcomes>>

payloadBytesByMember(e, m) ==
  (CHOOSE r \in Range(e.requests) : MemberOf(r) = m).payload

\* Service.record: one record for the member, served or not.
record(c, i) ==
  {[call |-> c, member |-> results[c][i].member, status |-> results[c][i].status,
    membership |-> results[c][i].membership,
    logicalBytes |-> payloadBytesByMember(env[c], results[c][i].member),
    dispatched |-> Len(results[c])]}

logicalResult(m) == [member |-> m.member, status |-> m.status, membership |-> m.membership]

\* The fan-out is complete: every member is recorded and reported.  The
\* writer may have no bank for some of the records.
ExecuteReturns(c) ==
  /\ Alive /\ pc[c] = "running"
  /\ \A i \in DOMAIN sub[c] : sub[c][i].state = "done"
  /\ LET records == UNION {record(c, i) : i \in DOMAIN results[c]} IN
     \E taken \in IF disk.stream = "open" THEN SUBSET records ELSE {{}} :
       /\ stream' = stream \cup taken
       /\ dropped' = dropped + Cardinality(records \ taken)
  /\ answer' = [answer EXCEPT ![c] = [i \in DOMAIN results[c] |-> logicalResult(results[c][i])]]
  /\ pc' = [pc EXCEPT ![c] = "returned"]
  /\ ctx' = [ctx EXCEPT ![c] = "ended"]
  /\ UNCHANGED <<processVars, env, sub, results, outcomes>>

\* The caller's deadline passes, or it hangs up.
ContextEnds(c) ==
  /\ Alive /\ pc[c] = "running" /\ ctx[c] = "live"
  /\ ctx' = [ctx EXCEPT ![c] = "ended"]
  /\ UNCHANGED <<processVars, streamVars, pc, env, sub, results, answer, outcomes>>

Handler(c) ==
  \/ ExecuteReturns(c)
  \/ \E i \in DOMAIN sub[c] : SubmitCancelled(c, i) \/ Stores(c, i)

Execute(c) ==
  \/ ExecuteRefuses(c) \/ ExecuteFansOut(c) \/ Handler(c) \/ ContextEnds(c)
  \/ \E i \in DOMAIN sub[c] : SubmitReturns(c, i) \/ SubmitFails(c, i)

-----------------------------------------------------------------------------

Init ==
  /\ cell \in AllCells \ {"D0"}  \* the direct path has no adapter
  /\ clock \in {"run's", "other"}
  /\ phase = "wiring" /\ exit = None /\ signalled = FALSE
  /\ disk = [stream |-> "previous", process |-> None, stats |-> None]
  /\ stream = {} /\ dropped = 0
  /\ pc = [c \in Calls |-> "idle"]
  /\ env = [c \in Calls |-> None]
  /\ ctx = [c \in Calls |-> "live"]
  /\ sub = [c \in Calls |-> <<>>]
  /\ results = [c \in Calls |-> <<>>]
  /\ answer = [c \in Calls |-> None]
  /\ outcomes = {}

Next ==
  \/ Process
  \/ Interrupt
  \/ Killed
  \/ \E c \in Calls : Execute(c)

\* The Go scheduler runs every goroutine, and every call of the proxy's has a
\* deadline (request_timeout_millis).  Triton owes no answer.
Spec ==
  /\ Init /\ [][Next]_vars
  /\ WF_vars(Process)
  /\ \A c \in Calls : WF_vars(Handler(c)) /\ WF_vars(ContextEnds(c))

-----------------------------------------------------------------------------
(* Properties.                                                             *)

\* The envelope of this call was handed to the executor.
Admitted(c) == sub[c] # <<>>

\* What the adapter executes is exactly what a builder of its own run would
\* have built from non-empty payloads, whatever reaches it: Builder and
\* Validate, written for opposite ends of the wire, agree on one contract.
AdmitsWhatItsRunBuilds ==
  \A c \in Calls : pc[c] # "idle" =>
    (Admitted(c) <=> env[c] \in BuiltBy(Expectation))

\* The members of answered envelopes.
Answered == UNION {{c} \X DOMAIN sub[c] : c \in {d \in Calls : pc[d] = "returned"}}

\* Everything the submissions of this member by this call came to.
CameTo(c, m) == {o.out : o \in {p \in outcomes : p.call = c /\ p.member = m}}

\* An answered envelope reports its members in the order it carried them.  Each was
\* submitted once, and what that submission came to, and no other member's, is what
\* is reported of it (executor.Result).  Records say what the answer says, of the
\* member's own payload, and a member without one is counted as dropped
\* (Service.record, logicalResult, payloadBytesByMember).
EveryMemberIsAccounted ==
  /\ \A c \in Calls : pc[c] = "returned" /\ Admitted(c) =>
       /\ Len(answer[c]) = Len(env[c].requests)
       /\ \A i \in DOMAIN env[c].requests :
            /\ answer[c][i].member = MemberOf(env[c].requests[i])
            /\ CameTo(c, MemberOf(env[c].requests[i])) =
                 {[status |-> answer[c][i].status, membership |-> answer[c][i].membership]}
       /\ \A r \in stream : r.call = c =>
            \E i \in DOMAIN answer[c] :
              /\ answer[c][i] = [member |-> r.member, status |-> r.status, membership |-> r.membership]
              /\ r.logicalBytes = env[c].requests[i].payload
  /\ Cardinality(stream) + dropped = Cardinality(Answered)

\* A stats file of this process vouches for the stream: it was closed after
\* the last handler returned, so every member that was answered is in it or
\* counted as dropped, and the process record beside it is this process's.
StatsVouchForTheStream ==
  disk.stats # None =>
    /\ exit = "ok" /\ disk.stream = "closed" /\ disk.process # None
    /\ \A c \in Calls : pc[c] # "running"
    /\ disk.stats = [written |-> Cardinality(stream), dropped |-> dropped]

\* A caught signal ends the process even when Triton never answers, because
\* the handlers GracefulStop waits for die with their callers' contexts.
ShutdownEnds == signalled ~> phase = "exited"

=============================================================================
