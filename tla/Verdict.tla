------------------------------- MODULE Verdict -------------------------------
(***************************************************************************)
(* The result validator (internal/validate): the join of every process's   *)
(* records and the checks over it, as pure operators.                      *)
(*                                                                         *)
(* A request is its uid, so that requests are ordered as sortedRequests    *)
(* orders them.  A stage is its number in the schema                       *)
(* (internal/events/schema.go), a presence mask the domain of the stages a *)
(* record carries.  Wording, medians and fractions are left out: a check   *)
(* yields the kinds of defect it reports.                                  *)
(*                                                                         *)
(* An expectation is a record of the cell, the clock domain (None where    *)
(* none is declared), cohortSize, cohortCount, first (the first cohort),   *)
(* batchSize, executions, tolerance in percent, maxWait and maxSkew (0     *)
(* where there is no bound), the backend's executionDelta, inferenceDelta  *)
(* and histogram, and the number of dropped records.                       *)
(***************************************************************************)
EXTENDS Identity, Integers, FiniteSets, FiniteSetsExt, Sequences, SequencesExt, TLC

CONSTANTS
  minArrivalSpread,  \* 20 microseconds, in ticks of the clock
  None

ASSUME VerdictAssumption == minArrivalSpread \in Nat

\* What one cohort of a run releases, and the whole run.
CohortMembers(cohort, size) == {UID(cohort, o) : o \in 0 .. size - 1}

Requests(exp) ==
  UNION {CohortMembers(c, exp.cohortSize) : c \in exp.first .. exp.first + exp.cohortCount - 1}

Emitters == {"loadgen", "proxy", "adapter", "triton"}
Stages   == 1 .. 15

Sched == 1
ClientSend == 2
ProxyRecv == 3
CohortSeal == 4
ProxySend == 5
AdapterRecv == 6
AdapterDispatch == 7
QueueStart == 8
ComputeStart == 9
ComputeEnd == 10
AdapterResult == 11
AdapterSend == 12
ProxyRespRecv == 13
ProxyFanout == 14
ClientRecv == 15

-----------------------------------------------------------------------------
(* The schema.                                                             *)

SealOwner(cell) == IF AggregatesEnvelopes(cell) THEN "proxy" ELSE "loadgen"

TopologyMask(cell) ==
  IF cell = "D0"
  THEN {Sched, ClientSend, ClientRecv, CohortSeal, QueueStart, ComputeStart, ComputeEnd}
  ELSE Stages

OwnStages(emitter) ==
  CASE emitter = "loadgen" -> {Sched, ClientSend, ClientRecv}
    [] emitter = "proxy"   -> {ProxyRecv, ProxySend, ProxyRespRecv, ProxyFanout}
    [] emitter = "adapter" -> {AdapterRecv, AdapterDispatch, AdapterResult, AdapterSend}
    [] emitter = "triton"  -> {QueueStart, ComputeStart, ComputeEnd}

OwnedStages(cell, emitter) ==
  (OwnStages(emitter) \cup (IF SealOwner(cell) = emitter THEN {CohortSeal} ELSE {}))
    \cap TopologyMask(cell)

EnvelopeStages == {CohortSeal, ProxySend, AdapterRecv, AdapterSend, ProxyRespRecv}

\* A span of the chain, and whether the cycle model names it.
Span(start, end, accounted) == [start |-> start, end |-> end, accounted |-> accounted]

sharedPathTail ==
  << Span(ProxySend, AdapterRecv, TRUE), Span(AdapterRecv, AdapterDispatch, FALSE),
     Span(AdapterDispatch, QueueStart, TRUE), Span(QueueStart, ComputeStart, TRUE),
     Span(ComputeStart, ComputeEnd, TRUE), Span(ComputeEnd, AdapterResult, TRUE),
     Span(AdapterResult, AdapterSend, FALSE), Span(AdapterSend, ProxyRespRecv, TRUE),
     Span(ProxyRespRecv, ProxyFanout, TRUE), Span(ProxyFanout, ClientRecv, TRUE) >>

Chain(cell) ==
  CASE cell = "D0" ->
         << Span(Sched, CohortSeal, FALSE), Span(CohortSeal, ClientSend, FALSE),
            Span(ClientSend, QueueStart, TRUE), Span(QueueStart, ComputeStart, TRUE),
            Span(ComputeStart, ComputeEnd, TRUE), Span(ComputeEnd, ClientRecv, TRUE) >>
    [] cell \in {"F00", "F01", "F00seq"} ->
         << Span(Sched, CohortSeal, FALSE), Span(CohortSeal, ClientSend, FALSE),
            Span(ClientSend, ProxyRecv, TRUE), Span(ProxyRecv, ProxySend, TRUE) >> \o sharedPathTail
    [] cell \in {"F10", "F11D", "F11P"} ->
         << Span(Sched, ClientSend, FALSE), Span(ClientSend, ProxyRecv, TRUE),
            Span(ProxyRecv, CohortSeal, TRUE), Span(CohortSeal, ProxySend, TRUE) >> \o sharedPathTail

\* PreCycle: the span sits before the client send.
PreCycle(spans, i) == \A j \in 1 .. i : spans[j].start # ClientSend

-----------------------------------------------------------------------------
(* The join.                                                               *)

\* Mutant: what succeeded anywhere succeeded.
RankOkFirst(status) ==
  CASE status = "ok" -> 3 [] status = "timeout" -> 2 [] status = "error" -> 1 [] OTHER -> 0

\* statusRank.
StatusRank(status) ==
  CASE status = "timeout" -> 3 [] status = "error" -> 2 [] status = "ok" -> 1 [] OTHER -> 0

\* One request of the join, from where its records are in the sequence.  What the
\* last record that carries a thing says of it replaced what was there, but for the
\* status: there the most diagnostic one stays.
JoinedFrom(records, of) ==
  LET attesting  == {i \in of : records[i].membership # {}}
      batched    == {i \in of : records[i].batchSize # 0}
      enveloped  == {i \in of : records[i].envelope # None}
      released   == {i \in of : records[i].dispatch # None}
      telling    == {i \in of : \A k \in of : StatusRank(records[k].status) <= StatusRank(records[i].status)}
      stages     == UNION {DOMAIN records[i].stages : i \in of}
      last(s)    == records[Max({i \in of : s \in DOMAIN records[i].stages})]
      by(at, e)  == {i \in at : records[i].emitter = e}
      sources(at) == {records[i].emitter : i \in at}
  IN [stages     |-> [s \in stages |-> last(s).stages[s]],
      owner      |-> [s \in stages |-> last(s).emitter],
      status     |-> records[Min(telling)].status,
      count      |-> [e \in Emitters |-> Cardinality(by(of, e))],
      domains    |-> {records[i].domain : i \in of},
      versions   |-> {records[i].version : i \in of},
      attested   |-> [e \in sources(attesting) |-> records[Max(by(attesting, e))].membership],
      membership |-> IF attesting = {} THEN {} ELSE records[Max(attesting)].membership,
      claimed    |-> IF attesting = {} THEN 0 ELSE records[Max(attesting)].claimed,
      batchSize  |-> IF batched = {} THEN 0 ELSE records[Max(batched)].batchSize,
      envelope   |-> IF enveloped = {} THEN None ELSE records[Max(enveloped)].envelope,
      dispatch   |-> [e \in sources(released) |-> records[Max(by(released, e))].dispatch]]

Join(records) ==
  [m \in {records[i].member : i \in DOMAIN records} |->
     JoinedFrom(records, {i \in DOMAIN records : records[i].member = m})]

Has(j, stage) == stage \in DOMAIN j.stages

\* The members of a joined run that carry this stage, and their instants.
Carrying(joined, stage) == {m \in DOMAIN joined : Has(joined[m], stage)}
Instants(joined, stage) == {joined[m].stages[stage] : m \in Carrying(joined, stage)}

\* The cohorts of a joined run, and the part of it that is one of them.
Cohorts(joined) == {CohortOf(m) : m \in DOMAIN joined}
OfCohort(joined, c) == Restrict(joined, {m \in DOMAIN joined : CohortOf(m) = c})

-----------------------------------------------------------------------------
(* The checks.                                                             *)

\* A defect kind, reported when the condition holds.
When(condition, kind) == IF condition THEN {kind} ELSE {}

\* findFormationFailures: a cohort some of whose members the proxy held and
\* never sealed, while others never arrived.
Held(members)   == Carrying(members, ProxyRecv) \ Carrying(members, CohortSeal)
Absent(members) == DOMAIN members \ Carrying(members, ProxyRecv)
Unformed(members) == Held(members) # {} /\ Absent(members) # {}

FailedCohorts(cell, joined) ==
  {c \in Cohorts(joined) : AggregatesEnvelopes(cell) /\ Unformed(OfCohort(joined, c))}

\* withoutCohorts: a cohort that never formed is hidden from a check.
Shown(cell, joined) ==
  Restrict(joined, {m \in DOMAIN joined : CohortOf(m) \notin FailedCohorts(cell, joined)})

EnvelopesOf(joined) == {joined[m].envelope : m \in DOMAIN joined} \ {None}

\* envelopeOwners: the cohorts that had members in an envelope.
envelopeOwners(joined, e) == {CohortOf(m) : m \in {n \in DOMAIN joined : joined[n].envelope = e}}

checkAggregation(cell, joined) ==
  LET shown == Shown(cell, joined)
      of(c) == OfCohort(shown, c)
  IN IF ~AggregatesEnvelopes(cell) THEN {}
     ELSE When(\E c \in Cohorts(shown) : Cardinality(EnvelopesOf(of(c))) # 1, "envelope_cardinality")
          \cup When(\E c \in Cohorts(shown) : \E s \in EnvelopeStages : Cardinality(Instants(of(c), s)) > 1,
                    "envelope_stage_disagreement")
          \cup When(\E e \in EnvelopesOf(shown) : Cardinality(envelopeOwners(shown, e)) > 1,
                    "envelope_cardinality")

checkFormation(cell, joined) == When(FailedCohorts(cell, joined) # {}, "formation_failure")

checkRecordIntegrity(exp, joined) ==
  LET recorded == Requests(exp) \cap DOMAIN joined IN
  When(exp.dropped > 0, "dropped_records")
  \cup When(Requests(exp) \ DOMAIN joined # {}, "missing_request")
  \cup When(DOMAIN joined \ Requests(exp) # {}, "duplicate_record")
  \cup When(\E m \in recorded : \E e \in Emitters : joined[m].count[e] > 1, "duplicate_record")
  \cup When(\E m \in recorded : Cardinality(joined[m].versions) > 1, "schema_version")
  \cup When(\E m \in recorded : joined[m].status # "ok", "request_failed")

checkClockDomain(exp, joined) ==
  When(\E m \in DOMAIN joined :
         \/ Cardinality(joined[m].domains) > 1
         \/ exp.domain # None /\ joined[m].domains # {exp.domain}, "cross_clock_domain")

checkPresence(cell, joined) ==
  When(\E m \in DOMAIN joined : TopologyMask(cell) \ DOMAIN joined[m].stages # {}, "missing_timestamp")
  \cup When(\E m \in DOMAIN joined : DOMAIN joined[m].stages \ TopologyMask(cell) # {}, "unexpected_stage")

checkStageOwnership(cell, joined) ==
  When(\E m \in DOMAIN joined : \E s \in DOMAIN joined[m].stages :
         s \notin OwnedStages(cell, joined[m].owner[s]), "stage_ownership")

checkOrdering(cell, joined) ==
  When(\E m \in DOMAIN joined : \E i \in DOMAIN Chain(cell) :
         LET span == Chain(cell)[i] IN
         /\ Has(joined[m], span.start) /\ Has(joined[m], span.end)
         /\ joined[m].stages[span.end] < joined[m].stages[span.start], "non_monotonic")

\* Mutant: the sets are compared, their size is not looked at.
MembershipOfAnySize(exp, joined) ==
  When(\E m \in DOMAIN joined : m \notin joined[m].membership, "membership_mismatch")

\* What is wrong with the set a request's execution attested.  An attested set of
\* the wrong size ends the judgement of that request.
attestation(exp, m, j) ==
  LET size == Cardinality(j.membership)
      echo == exp.batchSize > 1 /\ j.membership = {m}
  IN CASE size = 0 -> {"membership_mismatch"}
       [] OTHER ->
            When(j.claimed # size, "truncated_evidence")
            \cup When(m \notin j.membership, "membership_mismatch")
            \cup (IF size # exp.batchSize
                  THEN {IF echo THEN "own_uid_echo" ELSE "membership_mismatch"}
                  ELSE When(\/ j.batchSize # exp.batchSize
                            \/ \E u \in j.membership : \/ CohortOf(u) # CohortOf(m)
                                                       \/ OrdinalOf(u) >= exp.cohortSize,
                            "membership_mismatch"))

checkMembership(exp, joined) ==
  When(\E m \in DOMAIN joined : \E a, b \in DOMAIN joined[m].attested :
         joined[m].attested[a] # joined[m].attested[b], "membership_disagreement")
  \cup UNION {attestation(exp, m, joined[m]) : m \in DOMAIN joined}

\* A mutant: more executions than were asked for are none too many.
EnoughExecutions(exp) ==
  When(exp.executionDelta < exp.executions \/ exp.inferenceDelta < exp.cohortCount * exp.cohortSize, "execution_count")
  \cup When(DOMAIN exp.histogram \ {exp.batchSize} # {}, "coalesced_singles")

\* What the backend's own statistics say.
checkContamination(exp) ==
  When(\/ exp.executionDelta # exp.executions
       \/ exp.inferenceDelta # exp.cohortCount * exp.cohortSize
       \/ exp.histogram = <<>> /\ exp.executions > 0, "execution_count")
  \cup When(DOMAIN exp.histogram \ {exp.batchSize} # {}, "coalesced_singles")

\* The windows between two stages, of the members that carry both.
Windows(joined, start, end) ==
  {[start |-> joined[m].stages[start], end |-> joined[m].stages[end], member |-> m] :
     m \in Carrying(joined, start) \cap Carrying(joined, end)}

\* In the order of their starts; sort.Slice leaves equal ones of a dozen in the
\* order of the requests.
Before(v, w) == v.start < w.start \/ (v.start = w.start /\ v.member < w.member)

\* The windows sorted, and the pairs of one and the next.
ByStart(windows) ==
  LET earlier(w) == {v \in windows : Before(v, w)}
  IN [i \in 1 .. Cardinality(windows) |->
        CHOOSE w \in windows : Cardinality(earlier(w)) = i - 1]

Neighbours(windows) ==
  {pair \in windows \X windows :
     /\ Before(pair[1], pair[2])
     /\ ~\E u \in windows : Before(pair[1], u) /\ Before(u, pair[2])}

\* Of two windows in the order of their starts.
Overlapping(v, w) == w.start < v.end

checkExecutionSerialization(cell, joined) ==
  LET windows(c) == Windows(OfCohort(joined, c), ComputeStart, ComputeEnd)
  IN When(/\ ~VectorizesCompute(cell)
          /\ \E c \in Cohorts(joined) : \E pair \in Neighbours(windows(c)) :
               Overlapping(pair[1], pair[2]), "overlapping_executions")

\* spread, over the members that carry the stage.
Spread(instants) == IF instants = {} THEN 0 ELSE Max(instants) - Min(instants)

\* At A=off the adapter dispatches on arrival: members that arrived apart and
\* left together were joined.  collapsedSpreadFraction is a quarter.
checkAdapterDispatch(exp, joined) ==
  LET timed == Carrying(joined, AdapterRecv) \cap Carrying(joined, AdapterDispatch)
      wait(m) == joined[m].stages[AdapterDispatch] - joined[m].stages[AdapterRecv]
      of(c) == Restrict(joined, {m \in timed : CohortOf(m) = c})
      arrived(c) == Spread(Instants(of(c), AdapterRecv))
      left(c) == Spread(Instants(of(c), AdapterDispatch))
  IN When(/\ UsesProxy(exp.cell)
          /\ ~AggregatesEnvelopes(exp.cell)
          /\ \/ exp.maxWait > 0 /\ \E m \in timed : wait(m) > exp.maxWait
             \/ \E c \in Cohorts(joined) : /\ Cardinality(DOMAIN of(c)) >= 2
                                           /\ arrived(c) >= minArrivalSpread
                                           /\ 4 * left(c) < arrived(c), "adapter_waiting")

\* judgeRelease over the members of one envelope.
judgeRelease(exp, members) ==
  LET witnesses == {m \in DOMAIN members : "adapter" \in DOMAIN members[m].dispatch}
      observed == Spread(Instants(members, AdapterDispatch))
      windows  == Windows(members, AdapterDispatch, AdapterResult)
  IN IF witnesses = {} THEN {"dispatch_evidence"}
     ELSE LET reported == members[Min(witnesses)].dispatch["adapter"] IN
          When(reported.dispatched # Cardinality(DOMAIN members) \/ reported.skew # observed,
               "dispatch_evidence")
          \cup When(exp.maxSkew > 0 /\ observed > exp.maxSkew, "dispatch_skew")
          \cup When(\E pair \in Neighbours(windows) : ~Overlapping(pair[1], pair[2]), "fan_out_serial")

\* Grouped by envelope, not by cohort.
checkFanOut(exp, joined) ==
  LET carried(e) == {m \in DOMAIN joined : joined[m].envelope = e} IN
  CASE ~UsesProxy(exp.cell) -> {}
    [] AggregatesEnvelopes(exp.cell) /\ exp.maxSkew <= 0 -> {"dispatch_skew"}
    [] OTHER ->
         When(\E m \in DOMAIN joined :
                joined[m].envelope # None /\ DOMAIN joined[m].dispatch \ {"adapter"} # {},
              "dispatch_evidence")
         \cup UNION {judgeRelease(exp, Restrict(joined, carried(e))) : e \in EnvelopesOf(joined)}

-----------------------------------------------------------------------------
(* Conservation.                                                           *)

\* The spans of the cycle whose two instants are known.
Measured(spans, instants) ==
  {i \in DOMAIN spans : /\ ~PreCycle(spans, i)
                        /\ {spans[i].start, spans[i].end} \subseteq DOMAIN instants}

\* The time the cycle model names (accounted), or does not.
TimeIn(spans, instants, accounted) ==
  LET of == {i \in Measured(spans, instants) : spans[i].accounted = accounted}
      add(sum, i) == IF i \in of THEN sum + (instants[spans[i].end] - instants[spans[i].start]) ELSE sum
  IN FoldLeftDomain(add, 0, spans)

Exceeds(residual, whole, tolerance) ==
  whole > 0 /\ (IF residual < 0 THEN -residual ELSE residual) * 100 > tolerance * whole

\* A request's own path, judged where it has an envelope to itself.
memberResidual(cell, j) ==
  j.stages[ClientRecv] - j.stages[ClientSend] - TimeIn(Chain(cell), j.stages, TRUE)

memberExceeds(exp, j) ==
  /\ \A i \in DOMAIN Chain(exp.cell) : Has(j, Chain(exp.cell)[i].start) /\ Has(j, Chain(exp.cell)[i].end)
  /\ Exceeds(memberResidual(exp.cell, j), j.stages[ClientRecv] - j.stages[ClientSend], exp.tolerance)

\* The members' intervals in flight.
InFlight(joined) == {w \in Windows(joined, ClientSend, ClientRecv) : w.start <= w.end}

Makespan(joined) ==
  Max({w.end : w \in InFlight(joined)}) - Min({w.start : w \in InFlight(joined)})

\* cohortCoverage's walk: the next interval extends the current stretch or opens
\* a new one.
Cover(c, w) ==
  IF w.start > c.end
  THEN [covered |-> c.covered + (c.end - c.start), start |-> w.start, end |-> w.end]
  ELSE [c EXCEPT !.end = Max({c.end, w.end})]

Covered(joined) ==
  LET spans == ByStart(InFlight(joined))
      first == [covered |-> 0, start |-> spans[1].start, end |-> spans[1].end]
      walk  == FoldLeft(Cover, first, Tail(spans))
  IN walk.covered + (walk.end - walk.start)

\* Mutant: the cohort's execution ends with its first member's.
PacedByFirst(stage) == stage \in {AdapterResult, AdapterSend, ProxyRespRecv, ProxyFanout}

pacedByLastMember(stage) ==
  stage \in {ComputeEnd, AdapterResult, AdapterSend, ProxyRespRecv, ProxyFanout, ClientRecv}

\* The instants of the cohort's own critical path.
cohortInstants(joined) ==
  [s \in {t \in Stages : Carrying(joined, t) # {}} |->
     IF pacedByLastMember(s) THEN Max(Instants(joined, s)) ELSE Min(Instants(joined, s))]

cohortResidual(cell, members) ==
  Makespan(members) - TimeIn(Chain(cell), cohortInstants(members), TRUE)

\* gateOnMembers: at A=off every path is judged, at A=on every cohort's.
checkConservation(exp, joined) ==
  LET of(c) == OfCohort(joined, c) IN
  When(IF AggregatesEnvelopes(exp.cell)
       THEN \E c \in Cohorts(joined) :
              /\ InFlight(of(c)) # {}
              /\ Exceeds(cohortResidual(exp.cell, of(c)), Makespan(of(c)), exp.tolerance)
       ELSE \E m \in DOMAIN joined : memberExceeds(exp, joined[m]),
       "conservation")

-----------------------------------------------------------------------------

\* Validate: every check, most of them without a cohort that never formed.
Validate(exp, joined) ==
  LET shown == Shown(exp.cell, joined) IN
  checkAggregation(exp.cell, joined) \cup checkFormation(exp.cell, joined)
  \cup checkRecordIntegrity(exp, joined) \cup checkClockDomain(exp, joined)
  \cup checkPresence(exp.cell, shown) \cup checkStageOwnership(exp.cell, joined)
  \cup checkOrdering(exp.cell, joined) \cup checkMembership(exp, shown)
  \cup checkContamination(exp) \cup checkAdapterDispatch(exp, shown)
  \cup checkConservation(exp, joined) \cup checkExecutionSerialization(exp.cell, joined)
  \cup checkFanOut(exp, shown)

=============================================================================
