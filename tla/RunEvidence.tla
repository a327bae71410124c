----------------------------- MODULE RunEvidence -----------------------------
(***************************************************************************)
(* One cohort of an honest run, from its release to its verdict: when each *)
(* process takes each timestamp of the schema, what it records of it, and  *)
(* what the validator (module Verdict) makes of the records.  The cell is  *)
(* one of the three the build implements: D0 has neither proxy nor         *)
(* adapter, F00 one envelope per member, F10 one per cohort.               *)
(*                                                                         *)
(* The clock is CLOCK_MONOTONIC, the same in every process, and ticks at   *)
(* any time.  A member's request may be lost on its way, its cohort may    *)
(* fail to form, its envelope or its execution may fail, its reply may     *)
(* come too late.  The backend is external: one model instance, whose      *)
(* scheduler may coalesce what is queued, though the cells at V=off forbid *)
(* it.  How calls interleave inside the proxy, and how they leave it when  *)
(* their deadline passes, is the subject of modules Proxy and SharedPath.  *)
(***************************************************************************)
EXTENDS Verdict

CONSTANTS
  TargetB,    \* members of the cohort
  Tolerance,  \* the conservation tolerance, in percent
  SkewBound,  \* MaxDispatchSkewNanos
  MaxTime     \* how far the clock runs

ASSUME RunEvidenceAssumption ==
  /\ {TargetB, SkewBound, MaxTime} \subseteq Nat \ {0}
  /\ Tolerance \in Nat
  /\ TargetB <= 2^uidOrdinalBits
  /\ None \notin {"ok", "error", "timeout", "boot"} \cup [dispatched : Nat, skew : Int]
  /\ \A group \in SUBSET CohortMembers(0, TargetB) : None # group

VARIABLES
  cell,    \* the cell of the run
  now,     \* the clock
  pc,      \* how far each member is
  ts,      \* the instants taken on each member's behalf
  batch,   \* the members executed together with each
  failed,  \* the members whose submission returned an error
  status,  \* the outcome the load generator recorded
  joined,  \* the validator's join
  defects  \* its verdict

vars == <<cell, now, pc, ts, batch, failed, status, joined, defects>>

\* The one cohort is the first of its run.
Members == CohortMembers(0, TargetB)

\* The members that travel in one envelope with m.
Envelope(m) == IF AggregatesEnvelopes(cell) THEN Members ELSE {m}
Envelopes == {Envelope(m) : m \in Members}

\* The members of this group are at this point.
All(group, point) == \A m \in group : pc[m] = point

\* The clock is read once for the group.
Stamp(group, stage) ==
  ts' = [m \in Members |->
           IF m \in group
           THEN [s \in DOMAIN ts[m] \cup {stage} |-> IF s = stage THEN now ELSE ts[m][s]]
           ELSE ts[m]]

Move(group, point) == pc' = [m \in Members |-> IF m \in group THEN point ELSE pc[m]]

\* A step that takes a group from one point to the next and reads the clock.
Step(group, from, stage, to) ==
  /\ All(group, from)
  /\ Stamp(group, stage)
  /\ Move(group, to)
  /\ UNCHANGED <<cell, now, joined, defects>>

Tick ==
  /\ now < MaxTime
  /\ now' = now + 1
  /\ UNCHANGED <<cell, pc, ts, batch, failed, status, joined, defects>>

-----------------------------------------------------------------------------
(* The load generator.                                                     *)

\* The barrier's last arrival releases everybody; at A=off that is the seal.
BarrierReleases ==
  /\ All(Members, "barrier")
  /\ IF SealOwner(cell) = "loadgen" THEN Stamp(Members, CohortSeal) ELSE UNCHANGED ts
  /\ Move(Members, "released")
  /\ UNCHANGED <<cell, now, batch, failed, status, joined, defects>>

Sends(m) == Step({m}, "released", ClientSend, "sent") /\ UNCHANGED <<batch, failed, status>>

\* client.Send returned: t_client_recv is read whatever it returned.
Receives(m, from, outcome) ==
  /\ Step({m}, from, ClientRecv, "recorded")
  /\ status' = [status EXCEPT ![m] = outcome]
  /\ UNCHANGED <<batch, failed>>

\* The reply is in, or the deadline passed first.
ClientReceives(m) ==
  \/ Receives(m, "answered", IF m \in failed THEN "error" ELSE "ok")
  \/ Receives(m, "answered", "timeout")
  \/ Receives(m, "refused", "error")
  \/ Receives(m, "lost", "timeout")

-----------------------------------------------------------------------------
(* The proxy.                                                              *)

\* The request does not reach the proxy.
Lost(m) ==
  /\ cell # "D0"
  /\ pc[m] = "sent"
  /\ Move({m}, "lost")
  /\ UNCHANGED <<cell, now, ts, batch, failed, status, joined, defects>>

\* A cohort that was judged takes nobody in.
Judged == \E m \in Members : pc[m] \in {"refused", "recorded"} /\ ProxyRecv \in DOMAIN ts[m]

ReachesProxy(m) ==
  /\ cell # "D0"
  /\ Step({m}, "sent", ProxyRecv, IF AggregatesEnvelopes(cell) /\ Judged THEN "refused" ELSE "held")
  /\ UNCHANGED <<batch, failed, status>>

\* The cohort is complete.
Seals ==
  /\ AggregatesEnvelopes(cell)
  /\ Step(Members, "held", CohortSeal, "sealed")
  /\ UNCHANGED <<batch, failed, status>>

\* The formation deadline: everybody held is failed with the cohort.
FormationFails ==
  LET held == {m \in Members : pc[m] = "held"} IN
  /\ AggregatesEnvelopes(cell)
  /\ held \notin {{}, Members}
  /\ Move(held, "refused")
  /\ UNCHANGED <<cell, now, ts, batch, failed, status, joined, defects>>

ProxySends(group) ==
  /\ Step(group, IF AggregatesEnvelopes(cell) THEN "sealed" ELSE "held", ProxySend, "enveloped")
  /\ UNCHANGED <<batch, failed, status>>

ProxyReceives(group) ==
  /\ Step(group, "responded", ProxyRespRecv, "returning")
  /\ UNCHANGED <<batch, failed, status>>

\* Execute failed: the adapter rejected the envelope, or was not there.
EnvelopeFails(group) ==
  /\ Step(group, "enveloped", ProxyRespRecv, "returning")
  /\ failed' = failed \cup group
  /\ UNCHANGED <<batch, status>>

FansOut(m) == Step({m}, "returning", ProxyFanout, "answered") /\ UNCHANGED <<batch, failed, status>>

-----------------------------------------------------------------------------
(* The adapter and its individual executor.                                *)

AdapterReceives(group) ==
  /\ Step(group, "enveloped", AdapterRecv, "unpacked")
  /\ UNCHANGED <<batch, failed, status>>

\* One goroutine per member.
Dispatches(m) ==
  /\ Step({m}, "unpacked", AdapterDispatch, "dispatched")
  /\ UNCHANGED <<batch, failed, status>>

\* Submit returns, with an error before or after the execution, or without one.
SubmitReturns(m) ==
  /\ cell # "D0"
  /\ \/ pc[m] \in {"dispatched", "queued"} /\ failed' = failed \cup {m}
     \/ pc[m] = "computed" /\ failed' \in {failed, failed \cup {m}}
  /\ Step({m}, pc[m], AdapterResult, "returned")
  /\ UNCHANGED <<batch, status>>

\* wg.Wait, then the response.
AdapterSends(group) ==
  /\ Step(group, "returned", AdapterSend, "responded")
  /\ UNCHANGED <<batch, failed, status>>

\* On the direct path the submitter returns to the load generator.
DirectReturns(m) ==
  /\ cell = "D0"
  /\ \/ pc[m] \in {"sent", "queued"} /\ failed' = failed \cup {m}
     \/ pc[m] = "computed" /\ failed' \in {failed, failed \cup {m}}
  /\ Move({m}, "answered")
  /\ UNCHANGED <<cell, now, ts, batch, status, joined, defects>>

-----------------------------------------------------------------------------
(* The backend.                                                            *)

Enqueues(m) ==
  /\ Step({m}, IF cell = "D0" THEN "sent" ELSE "dispatched", QueueStart, "queued")
  /\ UNCHANGED <<batch, failed, status>>

\* The one instance takes a request, or coalesces several.
Computes(group) ==
  /\ \A m \in Members : pc[m] # "computing"
  /\ Step(group, "queued", ComputeStart, "computing")
  /\ batch' = [m \in Members |-> IF m \in group THEN group ELSE batch[m]]
  /\ UNCHANGED <<failed, status>>

\* An execution takes time.
Completes(group) ==
  /\ \A m \in group : batch[m] = group /\ pc[m] = "computing" /\ ts[m][ComputeStart] < now
  /\ Step(group, "computing", ComputeEnd, "computed")
  /\ UNCHANGED <<batch, failed, status>>

-----------------------------------------------------------------------------
(* The records and the verdict.                                            *)

Keeping(m, stages) == [s \in stages \cap DOMAIN ts[m] |-> ts[m][s]]

Record(emitter, m, stages, outcome) ==
  [emitter |-> emitter, member |-> m, stages |-> Keeping(m, stages), status |-> outcome,
   domain |-> "boot", version |-> 1, membership |-> {}, claimed |-> 0, batchSize |-> 0,
   envelope |-> None, dispatch |-> None]

\* SetMembership and the batch size beside it.
Attesting(record, set) ==
  [record EXCEPT !.membership = set, !.claimed = Cardinality(set), !.batchSize = Cardinality(set)]

\* releaseCohort: attestation only of what came back.
LoadGenRecord(m) ==
  Attesting(Record("loadgen", m, {Sched, ClientSend, ClientRecv}
                                 \cup (IF SealOwner(cell) = "loadgen" THEN {CohortSeal} ELSE {}), status[m]),
            IF status[m] = "ok" THEN batch[m] ELSE {})

Travelled(m) == ProxySend \in DOMAIN ts[m]

\* recordArrival for a refused member, forward's or aggregate's record otherwise.
ProxyRecord(m) ==
  IF Travelled(m)
  THEN [Record("proxy", m, {ProxyRecv, ProxySend, ProxyRespRecv, ProxyFanout}
                           \cup (IF SealOwner(cell) = "proxy" THEN {CohortSeal} ELSE {}),
               IF m \in failed THEN "error" ELSE "ok")
          EXCEPT !.envelope = Envelope(m)]
  ELSE Record("proxy", m, {ProxyRecv}, "error")

\* Mutant: the skew is read off in the order of the envelope.
SkewInOrder(group) == ts[Max(group)][AdapterDispatch] - ts[Min(group)][AdapterDispatch]

\* dispatchSkew.
DispatchSkew(group) ==
  Max({ts[m][AdapterDispatch] : m \in group}) - Min({ts[m][AdapterDispatch] : m \in group})

AdapterRecord(m) ==
  [Attesting(Record("adapter", m, {AdapterRecv, AdapterDispatch, AdapterResult, AdapterSend},
                    IF m \in failed THEN "error" ELSE "ok"),
             IF m \in failed THEN {} ELSE batch[m])
     EXCEPT !.envelope = Envelope(m),
            !.dispatch = [dispatched |-> Cardinality(Envelope(m)), skew |-> DispatchSkew(Envelope(m))]]

\* recordBackendTimestamps: a complete trace, under the load generator's status.
TritonRecord(m) == Record("triton", m, {QueueStart, ComputeStart, ComputeEnd}, status[m])

\* Which process leaves a record of the member, and what it says.
Writes(emitter, m) ==
  CASE emitter = "loadgen" -> TRUE
    [] emitter = "proxy"   -> ProxyRecv \in DOMAIN ts[m]
    [] emitter = "adapter" -> AdapterSend \in DOMAIN ts[m]
    [] emitter = "triton"  -> ComputeEnd \in DOMAIN ts[m]

Written(emitter, m) ==
  CASE emitter = "loadgen" -> LoadGenRecord(m)
    [] emitter = "proxy"   -> ProxyRecord(m)
    [] emitter = "adapter" -> AdapterRecord(m)
    [] emitter = "triton"  -> TritonRecord(m)

\* Each process's stream, in whatever order its calls ended.
Stream(emitter) ==
  LET writers == SetToSeq({m \in Members : Writes(emitter, m)})
  IN [i \in DOMAIN writers |-> Written(emitter, writers[i])]

\* What was recorded, stream after stream.
Records(order) ==
  Stream(order[1]) \o Stream(order[2]) \o Stream(order[3]) \o Stream(order[4])

Executed == {m \in Members : ComputeEnd \in DOMAIN ts[m]}

\* What the run was to produce, and the backend's statistics over it.
Expected ==
  LET executions == {batch[m] : m \in Executed}
      sizes == {Cardinality(e) : e \in executions}
  IN [cell |-> cell, domain |-> "boot", cohortSize |-> TargetB, cohortCount |-> 1, first |-> 0,
      batchSize |-> 1, executions |-> TargetB, tolerance |-> Tolerance, maxWait |-> 0,
      maxSkew |-> SkewBound, executionDelta |-> Cardinality(executions),
      inferenceDelta |-> Cardinality(Executed),
      histogram |-> [n \in sizes |-> Cardinality({e \in executions : Cardinality(e) = n})],
      dropped |-> 0]

InOrder == <<"loadgen", "proxy", "adapter", "triton">>

\* Everybody is recorded: the validator joins and judges.
Judges ==
  /\ All(Members, "recorded")
  /\ defects = None
  /\ joined' = Join(Records(InOrder))
  /\ defects' = Validate(Expected, joined')
  /\ UNCHANGED <<cell, now, pc, ts, batch, failed, status>>

-----------------------------------------------------------------------------

Init ==
  /\ cell \in ImplementedCells
  /\ now = 1
  /\ pc = [m \in Members |-> "barrier"]
  /\ ts = [m \in Members |-> [s \in {Sched} |-> 1]]
  /\ batch = [m \in Members |-> {}]
  /\ failed = {}
  /\ status = [m \in Members |-> None]
  /\ joined = <<>> /\ defects = None

Next ==
  \/ Tick \/ BarrierReleases \/ Seals \/ FormationFails \/ Judges
  \/ \E m \in Members :
       \/ Sends(m) \/ Lost(m) \/ ReachesProxy(m) \/ FansOut(m) \/ ClientReceives(m)
       \/ Dispatches(m) \/ SubmitReturns(m) \/ DirectReturns(m) \/ Enqueues(m)
  \/ \E g \in Envelopes : ProxySends(g) \/ ProxyReceives(g) \/ EnvelopeFails(g)
                           \/ AdapterReceives(g) \/ AdapterSends(g)
  \/ \E g \in (SUBSET Members) \ {{}} : Computes(g) \/ Completes(g)

Spec == Init /\ [][Next]_vars

-----------------------------------------------------------------------------
(* What must hold.                                                         *)

\* Defects that depend on how long things took.
TimingDefects == {"conservation", "dispatch_skew", "fan_out_serial", "adapter_waiting"}

\* Verdict and evidence are there.
Done == defects # None

Served == \A m \in Members : status[m] = "ok"
Coalesced == \E m \in Members : Cardinality(batch[m]) > 1

\* A run in which every member was served, by an execution of its own, has no
\* defect but those that depend on durations: whatever the interleaving, honest
\* records carry every stage of the topology, from its owner, in chain order,
\* agree on the envelope's five instants, and the adapter's skew is the one its
\* own instants show.
SoundRunIsAccepted == Done /\ Served /\ ~Coalesced => defects \subseteq TimingDefects

\* A run that lost a member, at whichever process and however its records are
\* ranked against those of the processes that saw nothing wrong, is rejected, and
\* an execution the scheduler coalesced is named from the attestation that
\* travelled with the records, not only from the backend's histogram.  The order
\* in which the streams are read decides nothing (Join, statusRank).
UnsoundRunIsNamed ==
  Done =>
    /\ ~Served => "request_failed" \in defects
    /\ Served /\ Coalesced => {"membership_mismatch", "coalesced_singles"} \subseteq defects
    /\ joined = Join(Records(Reverse(InOrder)))

\* Where a cohort shared an envelope and was executed, the instants of its
\* critical path tile its makespan: no span is negative although its two ends
\* are different members', the named and the unnamed time add up to the makespan,
\* and the formation wait is the longest any member had (decomposeCohorts).
CohortTilesMakespan ==
  AggregatesEnvelopes(cell) /\ Executed = Members =>
    LET instants == cohortInstants(joined)
        spans == Chain(cell)
    IN /\ \A i \in DOMAIN spans : instants[spans[i].start] <= instants[spans[i].end]
       /\ TimeIn(spans, instants, TRUE) + TimeIn(spans, instants, FALSE) = Makespan(joined)
       /\ instants[CohortSeal] - instants[ProxyRecv] =
            Max({ts[m][CohortSeal] - ts[m][ProxyRecv] : m \in Members})

\* Where every member has an envelope to itself, what the gate sees of it is
\* exactly the time between its send and its completion that no stage names.
MemberResidualIsUnnamed ==
  ~AggregatesEnvelopes(cell) =>
    \A m \in Executed : m \notin failed =>
      memberResidual(cell, joined[m]) = TimeIn(Chain(cell), joined[m].stages, FALSE)

\* The walk over the sorted intervals measures their union: as many units of the
\* clock as some member was in flight in (cohortCoverage).
CoverageIsTheUnion ==
  Covered(joined) =
    Cardinality({t \in 1 .. MaxTime : \E m \in Members : ts[m][ClientSend] <= t /\ t < ts[m][ClientRecv]})

\* The conservation arithmetic counts every instant of a run once, whoever paced
\* the cohort and however its members' flights overlap (checkConservation).
ConservationIsExact ==
  Done => CohortTilesMakespan /\ MemberResidualIsUnnamed /\ CoverageIsTheUnion

-----------------------------------------------------------------------------
(* What comments say and the code does not do.                             *)

\* "the symptoms it produces are displaced rather than added to": a cohort that
\* never formed is reported by its own defect and its members' statuses.
SymptomsAreDisplaced ==
  Done /\ "formation_failure" \in defects => "conservation" \notin defects

=============================================================================
