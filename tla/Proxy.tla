------------------------------- MODULE Proxy -------------------------------
(***************************************************************************)
(* The envelope proxy: internal/proxy/proxy.go and internal/proxy/cohort.go. *)
(*                                                                         *)
(* Every call of Submit is a gRPC handler on a goroutine of its own.  At   *)
(* A=on (Aggregates) the handler joins the forming cohort its request      *)
(* names, and the handler that completes the cohort seals it, sends one    *)
(* envelope for all of them and closes the cohort's done channel.  At      *)
(* A=off it forwards its request alone.  The formation deadline timers,    *)
(* Close (the SIGINT path of cmd/proxy) and the callers' contexts run      *)
(* beside the handlers.                                                    *)
(*                                                                         *)
(* A formation is a heap object; it is named by the call that opened it.   *)
(* A payload is named by the call that brought it.  Timestamps are         *)
(* abstracted to which of them a record carries.                           *)
(***************************************************************************)
EXTENDS Naturals, FiniteSets, Sequences

CONSTANTS
  Calls,       \* the calls of Submit, one handler goroutine each
  Cohorts,     \* the cohort ids requests may carry
  TargetB,     \* B, the cohort size the manifest declared
  Aggregates,  \* the cell's factor A
  Statuses,    \* the statuses a result may have, among "ok" and "error"
  None         \* no such thing: a nil pointer, an empty slot, no record

ASSUME ProxyAssumption ==
  /\ IsFiniteSet(Calls)
  /\ TargetB \in Nat \ {0}
  /\ Aggregates \in BOOLEAN
  /\ Statuses \subseteq {"ok", "error"}
  /\ None \notin Calls
  /\ None \notin {"ordinalOutside", "arrivedTwice", "deadline", "shutdown", "builder"}
  /\ Calls \cap {"unknown", "sealedAlready"} = {}

Ordinals == 0 .. TargetB - 1

\* What a request may claim to be.  TargetB stands for every ordinal outside
\* the cohort.
Members == [cohort : Cohorts, ordinal : 0 .. TargetB]

Results == [cohort : Cohorts, ordinal : 0 .. TargetB, status : Statuses]

\* The two verdicts a cohort id can have in the registry beside a formation.
Unknown       == "unknown"
SealedAlready == "sealedAlready"

\* The slots of a formation that failed (nil): the payloads are let go.
Released == <<>>

\* What a call that gets no result of its own returns.
Failed == [status |-> "failed"]

VARIABLES
  pc,        \* where each handler stands
  member,    \* the logical request each call carries
  ctx,       \* the caller's context: live, past its deadline, or cancelled
  joined,    \* the formation each handler holds a pointer to
  answer,    \* what each call returned: a result, or Failed
  record,    \* the proxy record each call left in the event stream
  registry,  \* Service.forming
  closed,    \* Service.closed
  slots,     \* formation.slots: whose payload sits at each ordinal
  arrived,   \* formation.arrived
  sealed,    \* formation.sealed
  deadline,  \* formation.deadline, the timer
  terminal,  \* formation.terminal, the cause
  done,      \* how often formation.done was closed
  env,       \* the payloads of the envelope that was handed to the backend
  resp,      \* the results that came back
  sendErr    \* formation.sendErr

handlerVars   == <<pc, member, ctx, joined, answer, record>>
registryVars  == <<registry, closed>>
formationVars == <<slots, arrived, sealed, deadline, terminal, done, env, resp, sendErr>>
vars == <<handlerVars, registryVars, formationVars>>

-----------------------------------------------------------------------------
(* Records and answers.                                                    *)

\* recordArrival: the member arrived, and nothing after that happened to it.
Arrival(status) == [stages |-> "arrival", status |-> status]
\* Mutant: forward records every outcome as ok.
RecordedOk(stages, status) ==
  [stages |-> stages, status |-> IF stages = "forwarded" THEN "ok" ELSE status]

\* The records of the two paths.  "sealed": the member's arrival and fan-out,
\* its cohort's seal, send and response (aggregate).  "forwarded": the same
\* without the seal, which the load generator owns at A=off (forward).
Recorded(stages, status) == [stages |-> stages, status |-> status]

Return(c, result, rec) ==
  /\ pc' = [pc EXCEPT ![c] = "returned"]
  /\ answer' = [answer EXCEPT ![c] = result]
  /\ record' = [record EXCEPT ![c] = rec]

\* Mutant: results are taken by position.
ResultAtPosition(results, m) == {i \in DOMAIN results : i = m.ordinal + 1}

\* memberResult: the results of a response that are this member's.
OwnResults(results, m) ==
  {i \in DOMAIN results : results[i].cohort = m.cohort /\ results[i].ordinal = m.ordinal}

\* The tail both paths share: find the member's own result, record it with
\* the stages of the path, and return it.
ReturnOwnResult(c, results, stages) ==
  LET own == OwnResults(results, member[c]) IN
  \/ /\ own = {}
     /\ Return(c, Failed, Recorded(stages, "error"))
  \/ \E i \in own :
       /\ \A j \in own : i <= j
       /\ Return(c, results[i], Recorded(stages, results[i].status))

\* A response lists results of the envelope's own members, each at most once,
\* in any order.
Responses(ms) ==
  LET answers == [cohort : {m.cohort : m \in ms}, ordinal : {m.ordinal : m \in ms},
                  status : Statuses]
  IN {r \in UNION {[1 .. n -> answers] : n \in 0 .. Cardinality(ms)} :
        \A i, j \in DOMAIN r : r[i].ordinal = r[j].ordinal => i = j}

-----------------------------------------------------------------------------
(* Formation.                                                              *)

CohortOf(f) == member[f].cohort

\* Mutant: failing a cohort wakes nobody.
FailLockedSilently(F, cause) ==
  /\ terminal' = [f \in Calls |-> IF f \in F THEN cause ELSE terminal[f]]
  /\ slots' = [f \in Calls |-> IF f \in F THEN Released ELSE slots[f]]
  /\ UNCHANGED done

\* failLocked: a cohort is judged, and everyone it holds is woken.  F is the
\* set of formations judged in one critical section.
FailLocked(F, cause) ==
  /\ terminal' = [f \in Calls |-> IF f \in F THEN cause ELSE terminal[f]]
  /\ slots' = [f \in Calls |-> IF f \in F THEN Released ELSE slots[f]]
  /\ done' = [f \in Calls |-> IF f \in F THEN done[f] + 1 ELSE done[f]]

\* time.Timer.Stop: a timer that has fired is no longer there to stop.
Stop(timer) == IF timer = "armed" THEN "stopped" ELSE timer

\* join's refusal: the caller gets the cause and the arrival is recorded.
Refuse(c) ==
  /\ Return(c, Failed, Arrival("error"))
  /\ UNCHANGED joined

\* join, first guard: the proxy assembles no more cohorts.
JoinAfterClose(c) ==
  /\ closed
  /\ Refuse(c)
  /\ UNCHANGED <<registry, formationVars>>

\* The cohort id has travelled, or its formation has failed.
Judged(k) ==
  \/ registry[k] = SealedAlready
  \/ \E f \in Calls : registry[k] = f /\ terminal[f] # None

\* join, second guard: a late member inherits the verdict.
JoinJudged(c, m) ==
  /\ ~closed
  /\ Judged(m.cohort)
  /\ Refuse(c)
  /\ UNCHANGED <<registry, formationVars>>

\* The formation a member of cohort k meets: the one in the registry, or the
\* one this very call opens.
Met(c, k) == IF registry[k] = Unknown THEN c ELSE registry[k]

\* Mutant: join no longer looks at closed.
FormingAnyway(k) == ~Judged(k)

\* The cohort id is undecided, so join goes on to admission.
Forming(k) == ~closed /\ ~Judged(k)

\* What opening a formation does to its timer.
Armed(c, m) ==
  IF registry[m.cohort] = Unknown THEN [deadline EXCEPT ![c] = "armed"] ELSE deadline

\* Mutant: members are counted, and an ordinal that came twice counts twice.
MalformedByRange(f, m) == m.ordinal >= TargetB

\* The two malformations: an ordinal outside the cohort, or admitted before.
Malformed(f, m) == m.ordinal < TargetB => slots[f][m.ordinal] # None

\* join, the switch: either malformation fails the whole cohort.
JoinMalformed(c, m) ==
  LET f == Met(c, m.cohort) IN
  /\ Forming(m.cohort)
  /\ Malformed(f, m)
  /\ FailLocked({f}, IF m.ordinal >= TargetB THEN "ordinalOutside" ELSE "arrivedTwice")
  /\ registry' = [registry EXCEPT ![m.cohort] = f]
  /\ deadline' = Armed(c, m)
  /\ Refuse(c)
  /\ UNCHANGED <<arrived, sealed, env, resp, sendErr>>

\* join, admission of a member that leaves the cohort incomplete.
JoinHeld(c, m) ==
  LET f == Met(c, m.cohort) IN
  /\ Forming(m.cohort)
  /\ ~Malformed(f, m)
  /\ arrived[f] + 1 < TargetB
  /\ slots' = [slots EXCEPT ![f][m.ordinal] = c]
  /\ arrived' = [arrived EXCEPT ![f] = @ + 1]
  /\ registry' = [registry EXCEPT ![m.cohort] = f]
  /\ deadline' = Armed(c, m)
  /\ joined' = [joined EXCEPT ![c] = f]
  /\ pc' = [pc EXCEPT ![c] = "waiting"]
  /\ UNCHANGED <<answer, record, sealed, terminal, done, env, resp, sendErr>>

\* Mutant: a cohort that sealed is simply dropped from the registry.
DeletedAfterSeal == Unknown

\* What stays in the registry under the id of a cohort that sealed.
VerdictAfterSeal == SealedAlready

\* join, admission of the member that completes the cohort: sealed under the
\* same lock, the timer stopped if it can be, the id spoken for.
JoinCompletes(c, m) ==
  LET f == Met(c, m.cohort) IN
  /\ Forming(m.cohort)
  /\ ~Malformed(f, m)
  /\ arrived[f] + 1 >= TargetB
  /\ slots' = [slots EXCEPT ![f][m.ordinal] = c]
  /\ arrived' = [arrived EXCEPT ![f] = @ + 1]
  /\ sealed' = [sealed EXCEPT ![f] = TRUE]
  /\ deadline' = [Armed(c, m) EXCEPT ![f] = Stop(@)]
  /\ registry' = [registry EXCEPT ![m.cohort] = VerdictAfterSeal]
  /\ joined' = [joined EXCEPT ![c] = f]
  /\ pc' = [pc EXCEPT ![c] = "sealing"]
  /\ UNCHANGED <<answer, record, terminal, done, env, resp, sendErr>>

\* Submit at A=on, up to the release of the mutex in join.
Submit(c, m) ==
  /\ Aggregates
  /\ pc[c] = "idle"
  /\ member' = [member EXCEPT ![c] = m]
  /\ \/ JoinAfterClose(c)
     \/ JoinJudged(c, m)
     \/ JoinMalformed(c, m)
     \/ JoinHeld(c, m)
     \/ JoinCompletes(c, m)
  /\ UNCHANGED <<ctx, closed>>

\* Submit's own refusals (a uid that is not the identity's, another run): no
\* join and no record.
SubmitRejected(c) ==
  /\ pc[c] = "idle"
  /\ pc' = [pc EXCEPT ![c] = "returned"]
  /\ answer' = [answer EXCEPT ![c] = Failed]
  /\ UNCHANGED <<member, ctx, joined, record, registryVars, formationVars>>

\* assembled and Builder.Aggregate.  The walk over the slots names every
\* ordinal whether or not it was admitted, so the builder's membership check
\* passes unless the slots were let go; then it names ordinal 0 B times.
AggregateAccepts(s) == s # Released \/ TargetB = 1

\* sealAndSend up to backend.Execute, without the lock.
SealAndSend(c) ==
  LET f == joined[c] IN
  /\ pc[c] = "sealing"
  /\ IF AggregateAccepts(slots[f])
     THEN /\ env' = [env EXCEPT ![f] = slots[f]]
          /\ pc' = [pc EXCEPT ![c] = "executing"]
          /\ UNCHANGED <<slots, terminal, done>>
     ELSE /\ FailLocked({f}, "builder")
          /\ pc' = [pc EXCEPT ![c] = "waiting"]
          /\ UNCHANGED env
  /\ UNCHANGED <<member, ctx, joined, answer, record, registryVars,
                 arrived, sealed, deadline, resp, sendErr>>

\* The rest of sealAndSend, after backend.Execute: keep the outcome, close done.
BackendAnswers(c) ==
  LET f == joined[c] IN
  /\ pc[c] = "executing"
  /\ \/ \E r \in Responses([cohort : {CohortOf(f)}, ordinal : Ordinals]) :
          /\ resp' = [resp EXCEPT ![f] = r]
          /\ UNCHANGED sendErr
     \/ /\ sendErr' = [sendErr EXCEPT ![f] = TRUE]
        /\ UNCHANGED resp
  /\ done' = [done EXCEPT ![f] = @ + 1]
  /\ pc' = [pc EXCEPT ![c] = "waiting"]
  /\ UNCHANGED <<member, ctx, joined, answer, record, registryVars,
                 slots, arrived, sealed, deadline, terminal, env>>

\* await returns nil, and aggregate answers from the formation's fields.
Wake(c) ==
  LET f == joined[c] IN
  /\ pc[c] = "waiting"
  /\ done[f] > 0
  /\ \/ /\ terminal[f] # None
        /\ Return(c, Failed, Arrival("error"))
     \/ /\ terminal[f] = None
        /\ sendErr[f]
        /\ Return(c, Failed, Recorded("sealed", "error"))
     \/ /\ terminal[f] = None
        /\ ~sendErr[f]
        /\ ReturnOwnResult(c, resp[f], "sealed")
  /\ UNCHANGED <<member, ctx, joined, registryVars, formationVars>>

\* Mutant: every departure is worded as a timeout.
DepartedLate(c) == "timeout"

\* departureStatus: only a deadline makes a timeout.
DepartureStatus(c) == IF ctx[c] = "deadline" THEN "timeout" ELSE "error"

\* await returns the context's error: this member leaves alone, and its slot
\* stays admitted.
Leave(c) ==
  /\ pc[c] = "waiting"
  /\ done[joined[c]] = 0
  /\ ctx[c] # "live"
  /\ Return(c, Failed, Arrival(DepartureStatus(c)))
  /\ UNCHANGED <<member, ctx, joined, registryVars, formationVars>>

-----------------------------------------------------------------------------
(* A=off: forward.                                                         *)

\* forward up to backend.Execute: an envelope of one.
Forward(c, m) ==
  /\ ~Aggregates
  /\ pc[c] = "idle"
  /\ member' = [member EXCEPT ![c] = m]
  /\ env' = [env EXCEPT ![c] = [o \in {m.ordinal} |-> c]]
  /\ pc' = [pc EXCEPT ![c] = "forwarding"]
  /\ UNCHANGED <<ctx, joined, answer, record, registryVars,
                 slots, arrived, sealed, deadline, terminal, done, resp, sendErr>>

\* forward after backend.Execute: exactly one record on each of its exits.
ForwardAnswered(c) ==
  /\ pc[c] = "forwarding"
  /\ \/ Return(c, Failed, Recorded("forwarded", "error"))
     \/ \E r \in Responses({member[c]}) : ReturnOwnResult(c, r, "forwarded")
  /\ UNCHANGED <<member, ctx, joined, registryVars, formationVars>>

-----------------------------------------------------------------------------
(* What runs beside the handlers.                                          *)

\* The runtime starts expire's goroutine; it has yet to reach the mutex.
TimerFires(f) ==
  /\ deadline[f] = "armed"
  /\ deadline' = [deadline EXCEPT ![f] = "fired"]
  /\ UNCHANGED <<handlerVars, registryVars,
                 slots, arrived, sealed, terminal, done, env, resp, sendErr>>

\* Mutant: a sealed cohort does not count as settled.
SettledByVerdict(f) == terminal[f] # None

\* The question expire and Close ask first.
Settled(f) == sealed[f] \/ terminal[f] # None

\* expire, under the mutex.
Expire(f) ==
  /\ deadline[f] = "fired"
  /\ deadline' = [deadline EXCEPT ![f] = "spent"]
  /\ FailLocked({f} \ {g \in Calls : Settled(g)}, "deadline")
  /\ UNCHANGED <<handlerVars, registryVars, arrived, sealed, env, resp, sendErr>>

\* Mutant: Close only refuses new members.
CloseRefusesOnly ==
  /\ ~closed
  /\ closed' = TRUE
  /\ UNCHANGED <<handlerVars, registry, formationVars>>

\* Close: every unsettled formation of the registry fails, its timer stopped.
Close ==
  LET held == {f \in Calls : (\E k \in Cohorts : registry[k] = f) /\ ~Settled(f)} IN
  /\ ~closed
  /\ closed' = TRUE
  /\ FailLocked(held, "shutdown")
  /\ deadline' = [f \in Calls |-> IF f \in held THEN Stop(deadline[f]) ELSE deadline[f]]
  /\ UNCHANGED <<handlerVars, registry, arrived, sealed, env, resp, sendErr>>

\* A caller's context ends while its call is held.  (When it ends under
\* backend.Execute the call fails, which BackendAnswers and ForwardAnswered
\* may do at any time.)
ContextEnds(c) ==
  /\ pc[c] = "waiting"
  /\ done[joined[c]] = 0
  /\ ctx[c] = "live"
  /\ \E why \in {"deadline", "cancelled"} : ctx' = [ctx EXCEPT ![c] = why]
  /\ UNCHANGED <<pc, member, joined, answer, record, registryVars, formationVars>>

-----------------------------------------------------------------------------

Init ==
  /\ pc = [c \in Calls |-> "idle"]
  /\ member = [c \in Calls |-> None]
  /\ ctx = [c \in Calls |-> "live"]
  /\ joined = [c \in Calls |-> None]
  /\ answer = [c \in Calls |-> None]
  /\ record = [c \in Calls |-> None]
  /\ registry = [k \in Cohorts |-> Unknown]
  /\ closed = FALSE
  /\ slots = [f \in Calls |-> [o \in Ordinals |-> None]]
  /\ arrived = [f \in Calls |-> 0]
  /\ sealed = [f \in Calls |-> FALSE]
  /\ deadline = [f \in Calls |-> "unset"]
  /\ terminal = [f \in Calls |-> None]
  /\ done = [f \in Calls |-> 0]
  /\ env = [f \in Calls |-> None]
  /\ resp = [f \in Calls |-> <<>>]
  /\ sendErr = [f \in Calls |-> FALSE]

\* What one handler does by itself once it was called.
Handler(c) == SealAndSend(c) \/ BackendAnswers(c) \/ Wake(c) \/ Leave(c) \/ ForwardAnswered(c)

Next ==
  \/ \E c \in Calls, m \in Members : Submit(c, m) \/ Forward(c, m)
  \/ \E c \in Calls : SubmitRejected(c) \/ Handler(c) \/ ContextEnds(c)
  \/ \E f \in Calls : TimerFires(f) \/ Expire(f)
  \/ Close

Spec == Init /\ [][Next]_vars

\* Handlers run, and backend.Execute returns: the call it makes carries the
\* sealing member's deadline, so it ends even if the backend is silent.
HandlerFairness == \A c \in Calls : WF_vars(Handler(c))

\* An armed timer fires and its goroutine obtains the mutex.
TimerFairness == \A f \in Calls : WF_vars(TimerFires(f)) /\ WF_vars(Expire(f))

\* The handlers run; no formation deadline need ever come.
FairSpec == Spec /\ HandlerFairness

-----------------------------------------------------------------------------
(* What must hold.                                                         *)

Settlements == {"ordinalOutside", "arrivedTwice", "deadline", "shutdown", "builder"}

Slots == [Ordinals -> Calls \cup {None}]

\* At each of some ordinals, somebody's payload.
Envelopes == UNION {[O -> Calls] : O \in SUBSET (0 .. TargetB)}

\* The stages a proxy record carries and the status it names.
Records == [stages : {"arrival", "sealed", "forwarded"}, status : {"ok", "error", "timeout"}]

\* None stands for nil, so it is none of the things a pointer may be to.
ASSUME NoneAssumption == None \notin Results \cup Envelopes \cup Records \cup {Failed}

\* Every variable holds what its Go field can hold.  In particular what is
\* handed to the backend holds a call's payload at each of its ordinals, never
\* the empty payload of a slot nobody filled (assembled, Builder.Aggregate).
TypeOK ==
  /\ pc \in [Calls -> {"idle", "sealing", "executing", "waiting", "forwarding", "returned"}]
  /\ member \in [Calls -> Members \cup {None}]
  /\ ctx \in [Calls -> {"live", "deadline", "cancelled"}]
  /\ joined \in [Calls -> Calls \cup {None}]
  /\ answer \in [Calls -> Results \cup {Failed, None}]
  /\ record \in [Calls -> Records \cup {None}]
  /\ registry \in [Cohorts -> Calls \cup {Unknown, SealedAlready}]
  /\ closed \in BOOLEAN
  /\ slots \in [Calls -> Slots \cup {Released}]
  /\ arrived \in [Calls -> 0 .. TargetB]
  /\ sealed \in [Calls -> BOOLEAN]
  /\ deadline \in [Calls -> {"unset", "armed", "fired", "stopped", "spent"}]
  /\ terminal \in [Calls -> Settlements \cup {None}]
  /\ done \in [Calls -> Nat]
  /\ env \in [Calls -> Envelopes \cup {None}]
  /\ resp \in [Calls -> Seq(Results)]
  /\ sendErr \in [Calls -> BOOLEAN]

\* done closes exactly once (formation.done): whichever of the sealing member,
\* the timer, Close and a malformed arrival settles a formation, no other does.
\* A second close would panic the proxy.
ClosedOnce == \A f \in Calls : done[f] <= 1

\* No cohort id travels twice, however many members arrive after its seal
\* (the marker sealedAlready leaves in the registry).
OneEnvelopePerCohort ==
  Aggregates => \A f, g \in Calls :
    env[f] # None /\ env[g] # None /\ CohortOf(f) = CohortOf(g) => f = g

\* What travels is the cohort: at each ordinal the payload of a call that asked
\* for exactly that ordinal of that cohort (join's duplicate and range checks).
EnvelopeIsItsCohort ==
  Aggregates => \A f \in Calls : env[f] # None =>
    /\ DOMAIN env[f] = Ordinals
    /\ \A o \in Ordinals :
         env[f][o] \in Calls /\ member[env[f][o]] = [cohort |-> CohortOf(f), ordinal |-> o]

\* The envelope in which a call's payload would have travelled.
CarriedBy(c) == IF Aggregates THEN joined[c] ELSE c

\* Nobody is handed a neighbour's answer (memberResult), and nobody whose
\* payload did not travel is handed any.
AnswersAreOwn ==
  \A c \in Calls : answer[c] \notin {None, Failed} =>
    /\ answer[c].cohort = member[c].cohort
    /\ answer[c].ordinal = member[c].ordinal
    /\ CarriedBy(c) # None
    /\ env[CarriedBy(c)] # None
    /\ env[CarriedBy(c)][member[c].ordinal] = c

\* The record a call leaves agrees with its fate (recordArrival and the two
\* record closures): it names envelope stages only if the call's payload
\* travelled, it says ok exactly when the caller was told ok, and only a
\* caller whose deadline passed while it was held is recorded as a timeout.
RecordTellsTheFate ==
  \A c \in Calls : record[c] # None =>
    /\ record[c].stages # "arrival" =>
         /\ env[CarriedBy(c)] # None
         /\ env[CarriedBy(c)][member[c].ordinal] = c
    /\ record[c].status = "ok" <=> answer[c] \notin {None, Failed} /\ answer[c].status = "ok"
    /\ record[c].status = "timeout" => record[c].stages = "arrival" /\ ctx[c] = "deadline"
    /\ record[c].stages = "arrival" /\ joined[c] # None /\ ctx[c] = "live" =>
         terminal[joined[c]] # None

\* After Close nothing is left forming: a formation opened then would be one
\* nobody finishes (Service.closed).
NothingFormsAfterClose ==
  closed => \A k \in Cohorts : registry[k] \in Calls => terminal[registry[k]] # None

\* The deadline and the shutdown fail only cohorts that are short of members,
\* and the builder never refuses what admission passed (sealAndSend's comment
\* calls that branch unreachable).
FailedOnlyIfShort ==
  \A f \in Calls :
    /\ terminal[f] \in {"deadline", "shutdown"} => arrived[f] < TargetB
    /\ terminal[f] # "builder"

-----------------------------------------------------------------------------
(* The proxy implements the contract of its callers.                       *)

\* The formations that were opened for cohort k.
Opened(k) == {f \in Calls : deadline[f] # "unset" /\ CohortOf(f) = k}

VerdictOf(k) ==
  IF \E f \in Opened(k) : env[f] # None THEN "travelled"
  ELSE IF \E f \in Opened(k) : terminal[f] # None THEN "failed"
  ELSE "open"

CarriedFor(k) == {c \in Calls : \E f \in Opened(k), o \in Ordinals : env[f] # None /\ env[f][o] = c}

OutcomeOf(c) == 
  CASE answer[c] = None -> None [] answer[c] = Failed -> "error" [] OTHER -> "result"

Contract == INSTANCE CohortContract WITH
  asked   <- member,
  verdict <- [k \in Cohorts |-> VerdictOf(k)],
  carried <- [k \in Cohorts |-> CarriedFor(k)],
  outcome <- [c \in Calls |-> OutcomeOf(c)]

\* Whatever the arrivals, timers, departures and shutdown do, callers see a
\* proxy that decides each cohort id at most once.
KeepsContract == Contract!Spec

-----------------------------------------------------------------------------
(* Liveness.                                                               *)

\* Where formation deadlines come, every call that entered the proxy returns, even
\* if its own context never ends: an incomplete cohort is bounded (expire).
EveryCallReturns == TimerFairness => \A c \in Calls : pc[c] # "idle" ~> pc[c] = "returned"

\* Shutdown waits for no formation deadline: once Close ran, every held call
\* returns although no timer ever fires (Close's comment).
ShutdownReleasesHeld == \A c \in Calls : closed /\ pc[c] = "waiting" ~> pc[c] = "returned"

=============================================================================
