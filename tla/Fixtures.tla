------------------------------ MODULE Fixtures ------------------------------
(***************************************************************************)
(* The evidence the offline seam judges (internal/testkit): the records an *)
(* honest run of any cell leaves, built from known delays, and the faults  *)
(* that are planted in them, as pure operators.                            *)
(*                                                                         *)
(* One tick of the clock is ten microseconds.  A bundle is its spec, its   *)
(* records and the expectation they are judged against.                    *)
(***************************************************************************)
EXTENDS Verdict, Functions

-----------------------------------------------------------------------------
(* The spec of a fixture.                                                  *)

\* defaultStageDelays, by the span they are the length of.
defaultStageDelays ==
  (<<Sched, CohortSeal>> :> 3) @@ (<<CohortSeal, ClientSend>> :> 2) @@ (<<Sched, ClientSend>> :> 2)
  @@ (<<ClientSend, QueueStart>> :> 20) @@ (<<ClientSend, ProxyRecv>> :> 20)
  @@ (<<ProxyRecv, CohortSeal>> :> 3) @@ (<<ProxyRecv, ProxySend>> :> 15) @@ (<<CohortSeal, ProxySend>> :> 15)
  @@ (<<ProxySend, AdapterRecv>> :> 20) @@ (<<AdapterRecv, AdapterDispatch>> :> 2)
  @@ (<<AdapterDispatch, QueueStart>> :> 10) @@ (<<QueueStart, ComputeStart>> :> 100)
  @@ (<<ComputeStart, ComputeEnd>> :> 500) @@ (<<ComputeEnd, AdapterResult>> :> 10)
  @@ (<<ComputeEnd, ClientRecv>> :> 20) @@ (<<AdapterResult, AdapterSend>> :> 2)
  @@ (<<AdapterSend, ProxyRespRecv>> :> 20) @@ (<<ProxyRespRecv, ProxyFanout>> :> 15)
  @@ (<<ProxyFanout, ClientRecv>> :> 20)

CohortGap         == 5000
MemberStagger     == 20
InterExecutionGap == 10

\* dispatchStagger sets a release's submissions apart, reportedSkew is what the
\* adapter says of it, where that is not what it did.
NewSpec(cell, size, count, first) ==
  [cell |-> cell, size |-> size, count |-> count, first |-> first, domain |-> "boot",
   delays |-> defaultStageDelays, dispatchStagger |-> 0, reportedSkew |-> None, tolerance |-> 5]

WithDelay(s, start, end, ticks) == [s EXCEPT !.delays[<<start, end>>] = ticks]

Delay(s, start, end) == s.delays[<<start, end>>]

evidenceBatch(s) == IF VectorizesCompute(s.cell) THEN s.size ELSE 1
executionsPerCohort(s) == IF VectorizesCompute(s.cell) THEN 1 ELSE s.size
dispatchedPerFanOut(s) == IF AggregatesEnvelopes(s.cell) THEN s.size ELSE 1

-----------------------------------------------------------------------------
(* The instants of one cohort, by ordinal.                                 *)

Ordinals(s) == 0 .. s.size - 1

ChainStages(spans) == <<spans[1].start>> \o [i \in DOMAIN spans |-> spans[i].end]

\* How far into the chain a stage lies.
Into(s, stage) ==
  LET spans == Chain(s.cell)
      order == ChainStages(spans)
      at == CHOOSE i \in DOMAIN order : order[i] = stage
  IN MapThenSumSet(LAMBDA j : Delay(s, spans[j].start, spans[j].end), 1 .. at - 1)

\* When the one instance takes each member up: it is served in turn.
InTurn(s, ready) ==
  LET computes[o \in Ordinals(s)] ==
        IF o = 0 \/ evidenceBatch(s) > 1 THEN ready[o]
        ELSE Max({ready[o], computes[o - 1] + Delay(s, ComputeStart, ComputeEnd) + InterExecutionGap})
  IN computes

\* Every member walks the chain by itself, and waits for its predecessor's
\* execution; what follows shifts with it.
independentCohort(s, start) ==
  LET order == ToSet(ChainStages(Chain(s.cell)))
      begin(o) == start + o * MemberStagger
      ready == [o \in Ordinals(s) |-> begin(o) + Into(s, ComputeStart)]
      shift(o) == InTurn(s, ready)[o] - ready[o]
  IN [o \in Ordinals(s) |-> [t \in order |->
        begin(o) + Into(s, t) + (IF t \in {q \in order : Into(s, q) >= Into(s, ComputeStart)} THEN shift(o) ELSE 0)]]

\* The cohort shares its envelope: one seal after the last arrival, one dispatch
\* of everybody, one response after the last result.
aggregateCohort(s, start) ==
  LET d(a, b) == Delay(s, a, b)
      sched(o)  == start + o * MemberStagger
      send(o)   == sched(o) + d(Sched, ClientSend)
      recv(o)   == send(o) + d(ClientSend, ProxyRecv)
      seal      == Max({recv(o) : o \in Ordinals(s)}) + d(ProxyRecv, CohortSeal)
      packed    == seal + d(CohortSeal, ProxySend)
      arrived   == packed + d(ProxySend, AdapterRecv)
      submitted(o) == arrived + d(AdapterRecv, AdapterDispatch)
                      + (IF evidenceBatch(s) = 1 THEN o * s.dispatchStagger ELSE 0)
      queued(o) == submitted(o) + d(AdapterDispatch, QueueStart)
      computes  == InTurn(s, [o \in Ordinals(s) |-> queued(o) + d(QueueStart, ComputeStart)])
      computed(o) == computes[o] + d(ComputeStart, ComputeEnd)
      result(o) == computed(o) + d(ComputeEnd, AdapterResult)
      answered  == Max({result(o) : o \in Ordinals(s)}) + d(AdapterResult, AdapterSend)
      returned  == answered + d(AdapterSend, ProxyRespRecv)
      fanned    == returned + d(ProxyRespRecv, ProxyFanout)
  IN [o \in Ordinals(s) |->
        <<sched(o), send(o), recv(o), seal, packed, arrived, submitted(o), queued(o), computes[o],
          computed(o), result(o), answered, returned, fanned, fanned + d(ProxyFanout, ClientRecv)>>]

-----------------------------------------------------------------------------
(* The records.                                                            *)

membership(s, m) ==
  IF evidenceBatch(s) = 1 THEN {m} ELSE CohortMembers(CohortOf(m), s.size)

SetMembership(r, uids) == [r EXCEPT !.membership = uids, !.claimed = Cardinality(uids)]

\* What one process leaves of a member: the stages it owns, its envelope where it
\* saw one, the release and the attestation where it observed them.
emitterRecord(s, emitter, m, ts, envelope, skew) ==
  LET attests   == emitter = "loadgen" \/ (emitter = "adapter" /\ UsesProxy(s.cell))
      releases  == emitter = "adapter" /\ UsesProxy(s.cell)
      plain     == [emitter |-> emitter, member |-> m, status |-> "ok", domain |-> s.domain, version |-> 1,
                    stages |-> Restrict(ts, OwnedStages(s.cell, emitter)),
                    membership |-> {}, claimed |-> 0,
                    batchSize |-> IF attests THEN evidenceBatch(s) ELSE 0,
                    envelope |-> IF emitter \in {"proxy", "adapter"} THEN envelope ELSE None,
                    dispatch |-> IF releases
                                 THEN [dispatched |-> dispatchedPerFanOut(s),
                                       skew |-> IF s.reportedSkew = None THEN skew ELSE s.reportedSkew,
                                       cpu |-> Delay(s, AdapterRecv, AdapterDispatch), scope |-> "process"]
                                 ELSE None]
  IN IF attests THEN SetMembership(plain, membership(s, m)) ELSE plain

InOrder == <<"loadgen", "proxy", "adapter", "triton">>

splitByEmitter(s, m, ts, envelope, skew) ==
  LET present == SelectSeq(InOrder, LAMBDA e : OwnedStages(s.cell, e) # {})
  IN [i \in DOMAIN present |-> emitterRecord(s, present[i], m, ts, envelope, skew)]

\* Cohort c of the fixture, the first being 0.
cohortRecords(s, c) ==
  LET start  == 1 + c * CohortGap
      stamps == IF AggregatesEnvelopes(s.cell) THEN aggregateCohort(s, start) ELSE independentCohort(s, start)
      skew   == IF AggregatesEnvelopes(s.cell)
                THEN Spread({stamps[o][AdapterDispatch] : o \in Ordinals(s)}) ELSE 0
      envelope(o) == IF AggregatesEnvelopes(s.cell) THEN c + 1 ELSE c * s.size + o + 1
  IN FlattenSeq([i \in 1 .. s.size |->
       splitByEmitter(s, UID(s.first + c, i - 1), stamps[i - 1], envelope(i - 1), skew)])

\* At A=on a fixture that does not travel as one envelope per cohort, or at V=on
\* not as one execution, is refused.
checkGranularity(b) ==
  LET of(c) == SelectSeq(b.records, LAMBDA r : CohortOf(r.member) = c)
      carried(c, f(_), P(_)) == {f(of(c)[i]) : i \in {j \in DOMAIN of(c) : P(of(c)[j])}}
  IN AggregatesEnvelopes(b.spec.cell) =>
       \A c \in b.spec.first .. b.spec.first + b.spec.count - 1 :
         /\ Cardinality(carried(c, LAMBDA r : r.envelope, LAMBDA r : r.envelope # None)) = 1
         /\ \A t \in EnvelopeStages :
              Cardinality(carried(c, LAMBDA r : r.stages[t], LAMBDA r : Has(r, t))) <= 1
         /\ VectorizesCompute(b.spec.cell) =>
              Cardinality(carried(c, LAMBDA r : <<r.stages[ComputeStart], r.stages[ComputeEnd]>>,
                                  LAMBDA r : Has(r, ComputeStart) /\ Has(r, ComputeEnd))) = 1

\* Build judges its own output, and returns no bundle where it is refused.
Build(s) ==
  LET executions == s.count * executionsPerCohort(s)
      unpack == Delay(s, AdapterRecv, AdapterDispatch)
      bundle ==
        [spec    |-> s,
         records |-> FlattenSeq([i \in 1 .. s.count |-> cohortRecords(s, i - 1)]),
         exp     |-> [cell |-> s.cell, domain |-> s.domain, cohortSize |-> s.size, cohortCount |-> s.count,
                      first |-> s.first, batchSize |-> evidenceBatch(s), executions |-> executions,
                      tolerance |-> s.tolerance, maxWait |-> 4 * unpack, maxSkew |-> 2 * unpack,
                      executionDelta |-> executions, inferenceDelta |-> s.count * s.size,
                      histogram |-> evidenceBatch(s) :> executions, dropped |-> 0]]
  IN IF checkGranularity(bundle) THEN bundle ELSE None

-----------------------------------------------------------------------------
(* The faults that are planted.                                            *)

\* Every record that passes the test is replaced by what f makes of it.
Altering(b, P(_), f(_)) ==
  [b EXCEPT !.records = [i \in DOMAIN @ |-> IF P(@[i]) THEN f(@[i]) ELSE @[i]]]

Keeping(b, P(_)) == [b EXCEPT !.records = SelectSeq(@, P)]

FirstRequest(b) == UID(b.spec.first, 0)
OfFirst(b, r) == r.member = FirstRequest(b)
InFirstCohort(b, r) == CohortOf(r.member) = b.spec.first

Without(r, stage) == [r EXCEPT !.stages = Restrict(@, DOMAIN @ \ {stage})]
SetStage(r, stage, at) == [r EXCEPT !.stages = (stage :> at) @@ @]

WithMissingTimestamp(b, emitter, stage) ==
  Altering(b, LAMBDA r : OfFirst(b, r) /\ r.emitter = emitter, LAMBDA r : Without(r, stage))

WithUnexpectedStage(b, stage, at) ==
  Altering(b, LAMBDA r : OfFirst(b, r) /\ r.emitter = "loadgen", LAMBDA r : SetStage(r, stage, at))

\* The attestation of the first request, at every process that carries it.
mutateMembership(b, f(_)) ==
  Altering(b, LAMBDA r : OfFirst(b, r) /\ r.membership # {}, LAMBDA r : SetMembership(r, f(r.membership)))

WithForeignCohortMembership(b) ==
  mutateMembership(b, LAMBDA uids : (uids \ {Max(uids)}) \cup {UID(b.spec.first + 999, 0)})

WithOwnUIDEcho(b) ==
  Altering(b, LAMBDA r : r.membership # {}, LAMBDA r : SetMembership(r, {r.member}))

WithCoalescedSingles(b) ==
  [b EXCEPT !.exp.executionDelta = @ - 1,
            !.exp.histogram = (1 :> b.exp.executions - 2) @@ (2 :> 1)]

WithCrossClockDomain(b, emitter) ==
  Altering(b, LAMBDA r : r.emitter = emitter, LAMBDA r : [r EXCEPT !.domain = "otherboot"])

WithNonMonotonicPath(b, emitter, stage, delta) ==
  Altering(b, LAMBDA r : OfFirst(b, r) /\ r.emitter = emitter,
           LAMBDA r : SetStage(r, stage, r.stages[stage] - delta))

WithDroppedRecords(b, n) == [b EXCEPT !.exp.dropped = n]

WithMissingRequest(b) == Keeping(b, LAMBDA r : ~OfFirst(b, r))

WithTruncatedMembership(b) ==
  Altering(b, LAMBDA r : OfFirst(b, r) /\ r.membership # {}, LAMBDA r : [r EXCEPT !.claimed = @ + 7])

\* Everybody is dispatched when the last of the cohort has arrived.
WithAdapterJoin(b) ==
  LET adapters == {i \in DOMAIN b.records : b.records[i].emitter = "adapter"}
      release(c) == Max({b.records[i].stages[AdapterRecv] :
                           i \in {j \in adapters : CohortOf(b.records[j].member) = c}})
  IN Altering(b, LAMBDA r : r.emitter = "adapter",
              LAMBDA r : SetStage(r, AdapterDispatch, release(CohortOf(r.member))))

WithSealFromWrongEmitter(b) ==
  LET owner == CHOOSE i \in DOMAIN b.records : OfFirst(b, b.records[i]) /\ b.records[i].emitter = "loadgen"
      seal  == b.records[owner].stages[CohortSeal]
  IN Altering(Altering(b, LAMBDA r : OfFirst(b, r) /\ r.emitter = "loadgen", LAMBDA r : Without(r, CohortSeal)),
              LAMBDA r : OfFirst(b, r) /\ r.emitter = "proxy", LAMBDA r : SetStage(r, CohortSeal, seal))

WithDisagreeingMembershipSources(b) ==
  Altering(b, LAMBDA r : OfFirst(b, r) /\ r.emitter = "adapter",
           LAMBDA r : SetMembership(r, {UID(CohortOf(u) + 1, OrdinalOf(u)) : u \in r.membership}))

WithMembershipOnlyFromOneSource(b, keep) ==
  Altering(b, LAMBDA r : r.emitter # keep, LAMBDA r : SetMembership(r, {}))

WithOverlappingExecutions(b) ==
  LET first == CHOOSE i \in DOMAIN b.records : OfFirst(b, b.records[i]) /\ b.records[i].emitter = "triton"
      at(stage) == b.records[first].stages[stage]
  IN Altering(b, LAMBDA r : InFirstCohort(b, r) /\ r.emitter = "triton",
              LAMBDA r : SetStage(SetStage(r, ComputeStart, at(ComputeStart)), ComputeEnd, at(ComputeEnd)))

WithPerMemberEnvelopes(b) ==
  Altering(b, LAMBDA r : InFirstCohort(b, r) /\ r.envelope # None,
           LAMBDA r : [r EXCEPT !.envelope = @ + OrdinalOf(r.member) * 1000])

withStaggeredEnvelopeStage(b, stage) ==
  Altering(b, LAMBDA r : InFirstCohort(b, r) /\ Has(r, stage),
           LAMBDA r : SetStage(r, stage, r.stages[stage] + OrdinalOf(r.member)))

\* The last member of the first cohort never reached the proxy: the held ones
\* were failed with it, and nobody but the proxy and the load generator knows.
WithFailedFormation(b) ==
  LET absent(r) == OrdinalOf(r.member) = b.spec.size - 1
      unsent(r) == [Without(r, ClientRecv) EXCEPT !.status = IF absent(r) THEN "timeout" ELSE "error"]
      held(r)   == [SetMembership(r, {}) EXCEPT !.stages = Restrict(@, {ProxyRecv}), !.status = "error",
                                                !.envelope = None, !.batchSize = 0]
      kept == Keeping(b, LAMBDA r : \/ ~InFirstCohort(b, r)
                                    \/ r.emitter = "loadgen"
                                    \/ r.emitter = "proxy" /\ ~absent(r))
  IN Altering(kept, LAMBDA r : InFirstCohort(b, r),
              LAMBDA r : IF r.emitter = "loadgen" THEN unsent(r) ELSE held(r))

-----------------------------------------------------------------------------
(* The faults of a cell, the defect each has to be named by, and the       *)
(* bundle each is planted in.                                              *)

Fault(kind, emitter, stage) == [kind |-> kind, emitter |-> emitter, stage |-> stage]

Sound == Fault(None, None, None)

\* A second source of the attestation may be missing: that is no defect.
OneSource == Fault(None, "adapter", None)

Faults(cell) ==
  LET staged(e) == OwnedStages(cell, e)
      plain(kinds) == {Fault(k, None, None) : k \in kinds}
  IN {Sound}
     \cup {Fault("missing_timestamp", p[1], p[2]) : p \in {q \in Emitters \X Stages : q[2] \in staged(q[1])}}
     \cup {Fault("non_monotonic", p[1], p[2]) : p \in {q \in Emitters \X Stages : q[2] \in staged(q[1]) \ {Sched}}}
     \cup {Fault("cross_clock_domain", e, None) : e \in {f \in Emitters : staged(f) # {}}}
     \cup {Fault("unexpected_stage", None, t) : t \in Stages \ TopologyMask(cell)}
     \cup plain({"membership_mismatch", "dropped_records", "missing_request", "truncated_evidence"})
     \cup (IF VectorizesCompute(cell) THEN plain({"own_uid_echo"})
           ELSE plain({"coalesced_singles", "overlapping_executions"}))
     \cup (IF ~UsesProxy(cell) THEN {}
           ELSE plain({"membership_disagreement", "dispatch_evidence", "conservation"}) \cup {OneSource})
     \cup (IF UsesProxy(cell) /\ ~AggregatesEnvelopes(cell) THEN plain({"adapter_waiting", "stage_ownership"}) ELSE {})
     \cup (IF AggregatesEnvelopes(cell)
           THEN plain({"envelope_cardinality", "formation_failure"})
                \cup {Fault("envelope_stage_disagreement", None, t) : t \in EnvelopeStages}
           ELSE {})
     \cup (IF AggregatesEnvelopes(cell) /\ ~VectorizesCompute(cell)
           THEN plain({"dispatch_skew", "fan_out_serial"}) ELSE {})

\* A release spread past the bound, or past the submissions themselves, a skew
\* misreported and an unnamed delay are asked of the spec.
specOf(s, fault) ==
  CASE fault.kind = "dispatch_skew"     -> [s EXCEPT !.dispatchStagger = 5]
    [] fault.kind = "fan_out_serial"    -> [s EXCEPT !.dispatchStagger = 700]
    [] fault.kind = "dispatch_evidence" -> [s EXCEPT !.reportedSkew = 1]
    [] fault.kind = "conservation"      -> WithDelay(s, AdapterRecv, AdapterDispatch, 100)
    [] OTHER -> s

Plant(b, fault) ==
  CASE fault = OneSource -> WithMembershipOnlyFromOneSource(b, fault.emitter)
    [] fault.kind = "missing_timestamp"  -> WithMissingTimestamp(b, fault.emitter, fault.stage)
    [] fault.kind = "unexpected_stage"   -> WithUnexpectedStage(b, fault.stage, 1)
    [] fault.kind = "membership_mismatch" -> WithForeignCohortMembership(b)
    [] fault.kind = "own_uid_echo"       -> WithOwnUIDEcho(b)
    [] fault.kind = "coalesced_singles"  -> WithCoalescedSingles(b)
    [] fault.kind = "cross_clock_domain" -> WithCrossClockDomain(b, fault.emitter)
    [] fault.kind = "non_monotonic"      -> WithNonMonotonicPath(b, fault.emitter, fault.stage, 1000)
    [] fault.kind = "dropped_records"    -> WithDroppedRecords(b, 1)
    [] fault.kind = "missing_request"    -> WithMissingRequest(b)
    [] fault.kind = "truncated_evidence" -> WithTruncatedMembership(b)
    [] fault.kind = "adapter_waiting"    -> WithAdapterJoin(b)
    [] fault.kind = "stage_ownership"    -> WithSealFromWrongEmitter(b)
    [] fault.kind = "membership_disagreement" -> WithDisagreeingMembershipSources(b)
    [] fault.kind = "overlapping_executions"  -> WithOverlappingExecutions(b)
    [] fault.kind = "envelope_cardinality"    -> WithPerMemberEnvelopes(b)
    [] fault.kind = "envelope_stage_disagreement" -> withStaggeredEnvelopeStage(b, fault.stage)
    [] fault.kind = "formation_failure"  -> WithFailedFormation(b)
    [] OTHER -> b

Fixture(s, fault) == Plant(Build(specOf(s, fault)), fault)

Judged(b) == Validate(b.exp, Join(b.records))

=============================================================================
