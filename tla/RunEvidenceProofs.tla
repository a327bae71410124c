------------------------- MODULE RunEvidenceProofs -------------------------
(***************************************************************************)
(* For a cohort of every size, every reading of the clock and every bound: *)
(* an honest run in which each member was served by an execution of its    *)
(* own is accepted but for its durations, and a run that lost a member or  *)
(* coalesced an execution is named (SoundRunIsAccepted, UnsoundRunIsNamed).*)
(*                                                                         *)
(* The inductive invariant says of a member that nothing went wrong with   *)
(* which instants it has (Timed: those of the topology up to the point it  *)
(* is at, whatever its neighbours are doing), that they are in the order   *)
(* of the chain (Ordered), and of the executions that no two of them share *)
(* the instance (Exclusive).  The join is then computed once and for all   *)
(* (JoinOfWritten): each request's four records tell different things, so  *)
(* that neither the order of the streams nor the order within one matters. *)
(*                                                                         *)
(* The conservation arithmetic is exact of every run, losses and failures  *)
(* included (ConservationIsExact): a second invariant follows each flight  *)
(* (Flying), the spans of a chain are shown to meet end to end, so that    *)
(* what they took telescopes, and the walk over the flights in the order   *)
(* of their starts to have seen, at each of them, the units of those it    *)
(* has come to (Walked).                                                   *)
(***************************************************************************)
EXTENDS RunEvidence, FiniteSetTheorems, SequenceTheorems, WellFoundedInduction, TLAPS

-----------------------------------------------------------------------------
(* The invariant.                                                          *)

\* Where a stage stands in the chain of the cell, and the last stage taken when a
\* member has come to a point: at A=off the seal lies between the schedule and
\* the send.
Place(stage) == IF stage = CohortSeal /\ SealOwner(cell) = "loadgen" THEN 3 ELSE 2 * stage

Reached(point) ==
  CASE point = "barrier"   -> 2  [] point = "released"   -> 3  [] point = "sent"      -> 4
    [] point = "held"      -> 6  [] point = "sealed"     -> 8  [] point = "enveloped" -> 10
    [] point = "unpacked"  -> 12 [] point = "dispatched" -> 14 [] point = "queued"    -> 16
    [] point = "computing" -> 18 [] point = "computed"   -> 20 [] point = "returned"  -> 22
    [] point = "responded" -> 24 [] point = "returning"  -> 26 [] point = "answered"  -> 28
    [] point = "recorded"  -> 30

\* The stages a member that nothing happened to has taken when it is there.
Passed(point) == {s \in TopologyMask(cell) : Place(s) <= Reached(point)}

DirectPoints ==
  {"barrier", "released", "sent", "queued", "computing", "computed", "answered", "recorded"}

SharedPoints ==
  DirectPoints \cup {"held", "sealed", "enveloped", "unpacked", "dispatched", "returned",
                     "responded", "returning", "lost", "refused"}

Points == IF cell = "D0" THEN DirectPoints ELSE SharedPoints

\* The instants are known, and none of them is later than the clock.
Clocked(taken, clock) ==
  DOMAIN taken \subseteq Stages /\ \A s \in DOMAIN taken : taken[s] \in Nat /\ taken[s] <= clock

TypeOK ==
  /\ cell \in ImplementedCells
  /\ now \in Nat
  /\ pc \in [Members -> Points]
  /\ DOMAIN ts = Members
  /\ \A m \in Members : Clocked(ts[m], now)
  /\ batch \in [Members -> SUBSET Members]
  /\ failed \in SUBSET Members
  /\ status \in [Members -> {"ok", "error", "timeout", None}]

\* Nothing happened to the member so far.
Sound(m) ==
  /\ m \notin failed
  /\ pc[m] \notin {"lost", "refused"}
  /\ pc[m] = "recorded" => status[m] = "ok"

Timed(m) == DOMAIN ts[m] = Passed(pc[m])

Ordered(m) ==
  \A s, t \in DOMAIN ts[m] : Place(s) <= Place(t) => ts[m][s] <= ts[m][t]

\* A member that was executed is one of those executed with it, and its execution
\* took time.
Executes(m) ==
  ComputeStart \in DOMAIN ts[m] =>
    /\ m \in batch[m]
    /\ ComputeEnd \notin DOMAIN ts[m] \/ ts[m][ComputeStart] < ts[m][ComputeEnd]

\* m's execution was over when n's began.
EndsBefore(m, n) == ComputeEnd \in DOMAIN ts[m] /\ ts[m][ComputeEnd] <= ts[n][ComputeStart]

Exclusive(m, n) ==
  ComputeStart \in DOMAIN ts[m] /\ ComputeStart \in DOMAIN ts[n] =>
    batch[m] = batch[n] \/ EndsBefore(m, n) \/ EndsBefore(n, m)

\* As long as nothing happened to it, a member is where its instants say.
Right(m) == Sound(m) => Timed(m) /\ Ordered(m) /\ Executes(m)

\* What is read once for an envelope is the same for all of it.
Agreeing ==
  AggregatesEnvelopes(cell) =>
    \A s \in EnvelopeStages : \A m, n \in Members :
      s \in DOMAIN ts[m] => s \in DOMAIN ts[n] /\ ts[m][s] = ts[n][s]

\* A submission fails when it is over, and then its member is not ok.
Fate(m) ==
  /\ m \in failed => pc[m] \in {"returned", "responded", "returning", "answered", "recorded"}
  /\ pc[m] = "recorded" <=> status[m] # None
  /\ status[m] = "ok" => m \notin failed

\* The verdict is the one on the records as they still are.
JudgedHonestly ==
  Done => /\ All(Members, "recorded")
          /\ joined = Join(Records(InOrder))
          /\ defects = Validate(Expected, joined)

IInv ==
  /\ TypeOK
  /\ Agreeing
  /\ JudgedHonestly
  /\ \A m \in Members : Fate(m)
  /\ \A m \in Members : Right(m)
  /\ \A m, n \in Members : Sound(m) /\ Sound(n) => Exclusive(m, n)

-----------------------------------------------------------------------------
(* The way through the cell.                                               *)

\* Going from one point to the next takes this stage, and no other stage of the
\* topology lies in between.
Leg(from, stage, to) ==
  /\ stage \in TopologyMask(cell)
  /\ Passed(to) = Passed(from) \cup {stage}
  /\ \A s \in Passed(from) : Place(s) < Place(stage)

\* How far each point is.
LEMMA ReachedValues ==
  /\ Reached("barrier") = 2 /\ Reached("released") = 3 /\ Reached("sent") = 4
  /\ Reached("held") = 6 /\ Reached("sealed") = 8 /\ Reached("enveloped") = 10
  /\ Reached("unpacked") = 12 /\ Reached("dispatched") = 14 /\ Reached("queued") = 16
  /\ Reached("computing") = 18 /\ Reached("computed") = 20 /\ Reached("returned") = 22
  /\ Reached("responded") = 24 /\ Reached("returning") = 26 /\ Reached("answered") = 28
  /\ Reached("recorded") = 30
BY DEF Reached

\* The place of each stage in each of the cells this build runs.
LEMMA PlaceValues ==
  ASSUME cell \in ImplementedCells
  PROVE  /\ \A s \in Stages : Place(s) = IF s = 4 /\ cell # "F10" THEN 3 ELSE 2 * s
         /\ TopologyMask(cell) = IF cell = "D0" THEN {1, 2, 15, 4, 8, 9, 10} ELSE 1 .. 15
         /\ AggregatesEnvelopes(cell) <=> cell = "F10"
         /\ SealOwner(cell) = "loadgen" <=> cell # "F10"
         /\ UsesProxy(cell) <=> cell # "D0"
         /\ ~VectorizesCompute(cell)
<1>1. cell = "D0" \/ cell = "F00" \/ cell = "F10"
  BY DEF ImplementedCells
<1>2. AggregatesEnvelopes(cell) <=> cell = "F10"
  BY <1>1 DEF AggregatesEnvelopes
<1>3. SealOwner(cell) = "loadgen" <=> cell # "F10"
  BY <1>2 DEF SealOwner
<1>4. TopologyMask(cell) = IF cell = "D0" THEN {1, 2, 15, 4, 8, 9, 10} ELSE 1 .. 15
  BY DEF TopologyMask, Stages, Sched, ClientSend, ClientRecv, CohortSeal, QueueStart, ComputeStart,
         ComputeEnd
<1>5. \A s \in Stages : Place(s) = IF s = 4 /\ cell # "F10" THEN 3 ELSE 2 * s
  BY <1>3 DEF Place, CohortSeal
<1>6. ~VectorizesCompute(cell) /\ (UsesProxy(cell) <=> cell # "D0")
  BY <1>1 DEF VectorizesCompute, UsesProxy
<1> QED
  BY <1>2, <1>3, <1>4, <1>5, <1>6

\* Every step a member takes past a stage is a leg of its cell.
LEMMA Legs ==
  ASSUME cell \in ImplementedCells
  PROVE  /\ cell # "F10" => Leg("barrier", CohortSeal, "released")
         /\ cell = "F10" => Passed("released") = Passed("barrier")
         /\ Leg("released", ClientSend, "sent")
         /\ cell # "D0" => Leg("sent", ProxyRecv, "held")
         /\ cell = "F10" => Leg("held", CohortSeal, "sealed") /\ Leg("sealed", ProxySend, "enveloped")
         /\ cell = "F00" => Leg("held", ProxySend, "enveloped")
         /\ cell # "D0" => Leg("enveloped", AdapterRecv, "unpacked")
         /\ cell # "D0" => Leg("unpacked", AdapterDispatch, "dispatched")
         /\ cell # "D0" => Leg("dispatched", QueueStart, "queued")
         /\ cell = "D0" => Leg("sent", QueueStart, "queued")
         /\ Leg("queued", ComputeStart, "computing")
         /\ Leg("computing", ComputeEnd, "computed")
         /\ cell # "D0" => Leg("computed", AdapterResult, "returned")
         /\ cell # "D0" => Leg("returned", AdapterSend, "responded")
         /\ cell # "D0" => Leg("responded", ProxyRespRecv, "returning")
         /\ cell # "D0" => Leg("returning", ProxyFanout, "answered")
         /\ cell = "D0" => Passed("answered") = Passed("computed")
         /\ Leg("answered", ClientRecv, "recorded")
<1> DEFINE mask == TopologyMask(cell)
<1>1. /\ mask \subseteq 1 .. 15
      /\ cell = "D0" => mask = {1, 2, 15, 4, 8, 9, 10}
      /\ cell # "D0" => mask = 1 .. 15
  BY PlaceValues
<1>2. \A s \in 1 .. 15 : Place(s) = IF s = 4 /\ cell # "F10" THEN 3 ELSE 2 * s
  BY PlaceValues DEF Stages
<1>3. \A p : Passed(p) = {s \in mask : Place(s) <= Reached(p)}
  BY DEF Passed
<1>4. \A f, x, t : Leg(f, x, t) <=> /\ x \in mask
                                    /\ Passed(t) = Passed(f) \cup {x}
                                    /\ \A s \in Passed(f) : Place(s) < Place(x)
  BY DEF Leg
<1>0. cell = "D0" \/ cell = "F00" \/ cell = "F10"
  BY DEF ImplementedCells
<1> HIDE DEF mask
<1> USE <1>0, <1>1, <1>2, <1>3, <1>4, ReachedValues
        DEF Sched, ClientSend, ProxyRecv, CohortSeal, ProxySend, AdapterRecv, AdapterDispatch, QueueStart,
            ComputeStart, ComputeEnd, AdapterResult, AdapterSend, ProxyRespRecv, ProxyFanout, ClientRecv
<1>5. cell # "F10" => Leg("barrier", CohortSeal, "released")
  OBVIOUS
<1>6. cell = "F10" => Passed("released") = Passed("barrier")
  OBVIOUS
<1>7. Leg("released", ClientSend, "sent")
  OBVIOUS
<1>8. cell # "D0" => Leg("sent", ProxyRecv, "held")
  OBVIOUS
<1>9. cell = "F10" => Leg("held", CohortSeal, "sealed") /\ Leg("sealed", ProxySend, "enveloped")
  OBVIOUS
<1>10. cell = "F00" => Leg("held", ProxySend, "enveloped")
  OBVIOUS
<1>11. cell # "D0" => Leg("enveloped", AdapterRecv, "unpacked")
  OBVIOUS
<1>12. cell # "D0" => Leg("unpacked", AdapterDispatch, "dispatched")
  OBVIOUS
<1>13. cell # "D0" => Leg("dispatched", QueueStart, "queued")
  OBVIOUS
<1>14. cell = "D0" => Leg("sent", QueueStart, "queued")
  OBVIOUS
<1>15. Leg("queued", ComputeStart, "computing")
  OBVIOUS
<1>16. Leg("computing", ComputeEnd, "computed")
  OBVIOUS
<1>17. cell # "D0" => Leg("computed", AdapterResult, "returned")
  OBVIOUS
<1>18. cell # "D0" => Leg("returned", AdapterSend, "responded")
  OBVIOUS
<1>19. cell # "D0" => Leg("responded", ProxyRespRecv, "returning")
  OBVIOUS
<1>20. cell # "D0" => Leg("returning", ProxyFanout, "answered")
  OBVIOUS
<1>21. cell = "D0" => Passed("answered") = Passed("computed")
  OBVIOUS
<1>22. Leg("answered", ClientRecv, "recorded")
  OBVIOUS
<1> QED
  BY <1>5, <1>6, <1>7, <1>8, <1>9, <1>10, <1>11, <1>12, <1>13, <1>14, <1>15, <1>16, <1>17, <1>18, <1>19,
     <1>20, <1>21, <1>22

-----------------------------------------------------------------------------
(* What a step does to the members it moves.                               *)

\* A member's instants with one more.
With(taken, stage, instant) ==
  [s \in DOMAIN taken \cup {stage} |-> IF s = stage THEN instant ELSE taken[s]]

\* One more reading of the clock keeps them so.
LEMMA WithIsClocked ==
  ASSUME NEW taken, NEW clock \in Nat, Clocked(taken, clock), NEW stage \in Stages
  PROVE  Clocked(With(taken, stage, clock), clock)
BY DEF Clocked, With

\* What Stamp and Move do, member by member.
LEMMA StampMoves ==
  ASSUME TypeOK, NEW group \in SUBSET Members, NEW stage \in Stages, NEW to \in Points,
         Stamp(group, stage), Move(group, to), now' = now
  PROVE  /\ pc' \in [Members -> Points] /\ DOMAIN ts' = Members
         /\ \A m \in Members : Clocked(ts'[m], now')
         /\ \A m \in group : pc'[m] = to /\ ts'[m] = With(ts[m], stage, now)
         /\ \A m \in Members \ group : pc'[m] = pc[m] /\ ts'[m] = ts[m]
<1>1. now \in Nat /\ pc \in [Members -> Points] /\ \A m \in Members : Clocked(ts[m], now)
  BY DEF TypeOK
<1>2. ts' = [m \in Members |-> IF m \in group THEN With(ts[m], stage, now) ELSE ts[m]]
  BY DEF Stamp, With
<1>3. pc' = [m \in Members |-> IF m \in group THEN to ELSE pc[m]]
  BY DEF Move
<1>4. \A m \in Members : Clocked(ts'[m], now')
  BY <1>1, <1>2, WithIsClocked
<1> QED
  BY <1>1, <1>2, <1>3, <1>4

\* What a step of a group comes to.
Moved(group, from, stage, to) ==
  /\ pc' \in [Members -> Points] /\ DOMAIN ts' = Members
  /\ \A m \in Members : Clocked(ts'[m], now')
  /\ \A m \in group : pc[m] = from /\ pc'[m] = to /\ ts'[m] = With(ts[m], stage, now)
  /\ \A m \in Members \ group : pc'[m] = pc[m] /\ ts'[m] = ts[m]
  /\ cell' = cell /\ now' = now /\ joined' = joined /\ defects' = defects

\* A step of a group waits for all of it, and moves it.
LEMMA StepEffect ==
  ASSUME TypeOK, NEW group \in SUBSET Members, NEW from, NEW stage \in Stages, NEW to \in Points,
         Step(group, from, stage, to)
  PROVE  Moved(group, from, stage, to)
<1>1. Stamp(group, stage) /\ Move(group, to) /\ All(group, from)
  BY DEF Step
<1>2. cell' = cell /\ now' = now /\ joined' = joined /\ defects' = defects
  BY DEF Step
<1> QED
  BY <1>1, <1>2, StampMoves DEF All, Moved

\* The groups that travel together are made of members.
LEMMA GroupsAreMembers ==
  /\ \A m \in Members : {m} \in SUBSET Members
  /\ \A g \in Envelopes : g \in SUBSET Members /\ g # {}
  /\ cell = "F10" => Envelopes \subseteq {Members}
BY DEF Envelopes, Envelope, AggregatesEnvelopes

\* The cohort has a member, and not more than a cohort holds.
LEMMA MembersFacts ==
  /\ Members = 0 .. TargetB - 1 /\ 0 \in Members /\ IsFiniteSet(Members) /\ Cardinality(Members) = TargetB
  /\ \A m \in Members : CohortOf(m) = 0 /\ OrdinalOf(m) = m /\ m \in Nat /\ OrdinalOf(m) < TargetB
<1>1. TargetB \in Nat \ {0} /\ TargetB <= 2^uidOrdinalBits
  BY RunEvidenceAssumption
<1>2. 2^uidOrdinalBits \in Nat \ {0}
  BY SMT DEF uidOrdinalBits
<1>3. PICK d \in Nat \ {0} : d = 2^uidOrdinalBits
  BY <1>2
<1>4. \A o \in Int : UID(0, o) = (0 * d) + o
  BY <1>3, Zenon DEF UID
<1>5. \A o \in Int : UID(0, o) = o
  BY <1>3, <1>4
<1>6. Members = {o : o \in 0 .. TargetB - 1}
  BY <1>1, <1>5 DEF Members, CohortMembers
<1>7. Members = 0 .. TargetB - 1
  BY <1>6
<1>8. IsFiniteSet(Members) /\ Cardinality(Members) = TargetB
  BY <1>1, <1>7, FS_Interval
<1>9. \A m \in Members : CohortOf(m) = m \div d /\ OrdinalOf(m) = m % d
  BY <1>3, Zenon DEF CohortOf, OrdinalOf
<1>10. \A m \in Members : m \in Nat /\ m < d
  BY <1>1, <1>3, <1>7
<1>11. \A m \in Nat : m < d => (m \div d) = 0 /\ (m % d) = m
  BY <1>3
<1>12. \A m \in Members : CohortOf(m) = 0 /\ OrdinalOf(m) = m
  BY <1>9, <1>10, <1>11, Zenon
<1>13. \A m \in Members : m < TargetB
  BY <1>1, <1>7
<1>14. 0 \in Members
  BY <1>1, <1>7
<1>15. \A m \in Members : OrdinalOf(m) < TargetB
  BY <1>12, <1>13, Zenon
<1> QED
  BY <1>7, <1>8, <1>10, <1>12, <1>14, <1>15, Zenon

-----------------------------------------------------------------------------
(* Types and fates.                                                        *)

\* The outcome of a member is none of the three statuses while there is none.
LEMMA NoneIsNoStatus == None \notin {"ok", "error", "timeout", "boot"}
BY RunEvidenceAssumption

\* The type of the next state, from its parts.
LEMMA TypeFromParts ==
  ASSUME TypeOK, cell' = cell, now' \in Nat, pc' \in [Members -> Points], DOMAIN ts' = Members,
         \A m \in Members : Clocked(ts'[m], now'), batch' \in [Members -> SUBSET Members],
         failed' \in SUBSET Members, status' \in [Members -> {"ok", "error", "timeout", None}]
  PROVE  TypeOK'
BY DEF TypeOK, Points

\* The stages are those of the schema.
LEMMA StagesNamed ==
  {Sched, ClientSend, ProxyRecv, CohortSeal, ProxySend, AdapterRecv, AdapterDispatch, QueueStart,
   ComputeStart, ComputeEnd, AdapterResult, AdapterSend, ProxyRespRecv, ProxyFanout, ClientRecv}
    \subseteq Stages
BY DEF Stages, Sched, ClientSend, ProxyRecv, CohortSeal, ProxySend, AdapterRecv, AdapterDispatch,
       QueueStart, ComputeStart, ComputeEnd, AdapterResult, AdapterSend, ProxyRespRecv, ProxyFanout,
       ClientRecv

\* The points that both kinds of cell have, and those of a cell with a proxy.
LEMMA PointsNamed ==
  /\ DirectPoints \subseteq Points
  /\ cell # "D0" => Points = SharedPoints
  /\ cell = "D0" => Points = DirectPoints
BY DEF Points, SharedPoints

\* Every step keeps the types, and what is known of a member's fate.
LEMMA NextKeepsTypes ==
  ASSUME TypeOK, \A m \in Members : Fate(m), Next
  PROVE  TypeOK' /\ \A m \in Members : Fate(m)'
<1>t. /\ cell \in ImplementedCells /\ now \in Nat /\ pc \in [Members -> Points] /\ DOMAIN ts = Members
      /\ \A m \in Members : Clocked(ts[m], now)
      /\ batch \in [Members -> SUBSET Members] /\ failed \in SUBSET Members
      /\ status \in [Members -> {"ok", "error", "timeout", None}]
  BY DEF TypeOK
<1>f. \A m \in Members :
        /\ m \in failed => pc[m] \in {"returned", "responded", "returning", "answered", "recorded"}
        /\ pc[m] = "recorded" <=> status[m] # None
        /\ status[m] = "ok" => m \notin failed
  BY DEF Fate
<1>q. ASSUME NEW group \in SUBSET Members, NEW from, NEW stage \in Stages, NEW to \in Points,
             Step(group, from, stage, to), UNCHANGED <<batch, failed, status>>,
             from # "recorded", to # "recorded",
             from \in {"returned", "responded", "returning", "answered", "recorded"} =>
               to \in {"returned", "responded", "returning", "answered", "recorded"}
      PROVE  TypeOK' /\ \A m \in Members : Fate(m)'
  <2>1. /\ pc' \in [Members -> Points] /\ DOMAIN ts' = Members
        /\ \A m \in Members : Clocked(ts'[m], now')
        /\ \A m \in group : pc[m] = from /\ pc'[m] = to
        /\ \A m \in Members \ group : pc'[m] = pc[m]
        /\ cell' = cell /\ now' = now
    <3>1. Moved(group, from, stage, to)
      BY <1>q, StepEffect
    <3> QED
      BY <3>1 DEF Moved
  <2>2. TypeOK'
    BY <1>t, <1>q, <2>1, TypeFromParts
  <2>3. \A m \in Members : Fate(m)'
    BY <1>f, <1>q, <2>1 DEF Fate
  <2> QED
    BY <2>2, <2>3
<1> USE GroupsAreMembers, StagesNamed, PointsNamed
<1>1. CASE Tick
  <2>1. now' = now + 1 /\ UNCHANGED <<cell, pc, ts, batch, failed, status>>
    BY <1>1 DEF Tick
  <2>2. \A m \in Members : Clocked(ts'[m], now')
    BY <1>t, <2>1 DEF Clocked
  <2>3. TypeOK'
    BY <1>t, <2>1, <2>2, TypeFromParts
  <2> QED
    BY <1>f, <2>1, <2>3 DEF Fate
<1>2. CASE BarrierReleases
  <2>1. All(Members, "barrier") /\ Move(Members, "released") /\ UNCHANGED <<cell, now, batch, failed, status>>
    BY <1>2 DEF BarrierReleases
  <2>2. "released" \in Points /\ Members \in SUBSET Members
    BY DEF DirectPoints
  <2>3. pc' = [m \in Members |-> "released"] /\ \A m \in Members : pc[m] = "barrier"
    BY <2>1 DEF Move, All
  <2>4. CASE SealOwner(cell) = "loadgen"
    <3>1. Stamp(Members, CohortSeal)
      BY <1>2, <2>4 DEF BarrierReleases
    <3>2. DOMAIN ts' = Members /\ \A m \in Members : Clocked(ts'[m], now')
      BY <2>1, <2>2, <3>1, StampMoves
    <3> QED
      BY <1>t, <1>f, <2>1, <2>2, <2>3, <3>2, TypeFromParts DEF Fate
  <2>5. CASE SealOwner(cell) # "loadgen"
    <3>1. ts' = ts
      BY <1>2, <2>5 DEF BarrierReleases
    <3> QED
      BY <1>t, <1>f, <2>1, <2>2, <2>3, <3>1, TypeFromParts DEF Fate
  <2> QED
    BY <2>4, <2>5
<1>3. CASE Seals
  BY <1>3, <1>q, PlaceValues, <1>t DEF Seals, SharedPoints
<1>4. CASE FormationFails
  <2> DEFINE held == {m \in Members : pc[m] = "held"}
  <2>1. /\ held # {} /\ Move(held, "refused")
        /\ UNCHANGED <<cell, now, ts, batch, failed, status>>
    BY <1>4 DEF FormationFails
  <2>2. cell # "D0"
    BY <1>t, <2>1, PointsNamed DEF DirectPoints
  <2>3. pc' = [m \in Members |-> IF m \in held THEN "refused" ELSE pc[m]]
    BY <2>1 DEF Move
  <2>4. "refused" \in Points
    BY <2>2 DEF SharedPoints
  <2>5. pc' \in [Members -> Points]
    BY <1>t, <2>3, <2>4
  <2> QED
    BY <1>t, <1>f, <2>1, <2>3, <2>5, TypeFromParts DEF Fate
<1>5. CASE Judges
  BY <1>5, <1>t, <1>f, TypeFromParts DEF Judges, Fate
<1>6. ASSUME NEW m \in Members, Sends(m)
      PROVE  TypeOK' /\ \A n \in Members : Fate(n)'
  BY <1>6, <1>q DEF Sends, DirectPoints
<1>7. ASSUME NEW m \in Members, Lost(m)
      PROVE  TypeOK' /\ \A n \in Members : Fate(n)'
  <2>1. /\ cell # "D0" /\ pc[m] = "sent" /\ Move({m}, "lost")
        /\ UNCHANGED <<cell, now, ts, batch, failed, status>>
    BY <1>7 DEF Lost
  <2>2. pc' = [n \in Members |-> IF n = m THEN "lost" ELSE pc[n]]
    BY <2>1 DEF Move
  <2>3. "lost" \in Points
    BY <2>1 DEF SharedPoints
  <2>4. pc' \in [Members -> Points]
    BY <1>t, <2>2, <2>3
  <2> QED
    BY <1>t, <1>f, <2>1, <2>2, <2>4, TypeFromParts DEF Fate
<1>8. ASSUME NEW m \in Members, ReachesProxy(m)
      PROVE  TypeOK' /\ \A n \in Members : Fate(n)'
  <2>1. PICK to \in {"held", "refused"} : Step({m}, "sent", ProxyRecv, to)
    BY <1>8 DEF ReachesProxy
  <2>2. cell # "D0" /\ UNCHANGED <<batch, failed, status>>
    BY <1>8 DEF ReachesProxy
  <2>3. to \in Points
    BY <2>2 DEF SharedPoints
  <2> QED
    BY <1>q, <2>1, <2>2, <2>3
<1>9. ASSUME NEW m \in Members, FansOut(m)
      PROVE  TypeOK' /\ \A n \in Members : Fate(n)'
  BY <1>9, <1>q DEF FansOut, DirectPoints
<1>10. ASSUME NEW m \in Members, ClientReceives(m)
       PROVE  TypeOK' /\ \A n \in Members : Fate(n)'
  <2>1. PICK from \in {"answered", "refused", "lost"}, outcome \in {"ok", "error", "timeout"} :
          Receives(m, from, outcome) /\ (outcome = "ok" => m \notin failed)
    BY <1>10 DEF ClientReceives
  <2>2. /\ Step({m}, from, ClientRecv, "recorded")
        /\ status' = [status EXCEPT ![m] = outcome]
        /\ UNCHANGED <<batch, failed>>
    BY <2>1 DEF Receives
  <2>3. "recorded" \in Points
    BY DEF DirectPoints
  <2>4. /\ pc' \in [Members -> Points] /\ DOMAIN ts' = Members
        /\ \A n \in Members : Clocked(ts'[n], now')
        /\ pc[m] = from /\ pc'[m] = "recorded"
        /\ \A n \in Members \ {m} : pc'[n] = pc[n]
        /\ cell' = cell /\ now' = now
    <3>1. Moved({m}, from, ClientRecv, "recorded")
      BY <2>2, <2>3, StepEffect
    <3> QED
      BY <3>1 DEF Moved
  <2>5. TypeOK'
    BY <1>t, <2>2, <2>4, TypeFromParts
  <2>6. status'[m] = outcome /\ outcome # None /\ \A n \in Members \ {m} : status'[n] = status[n]
    BY <1>t, <2>2, NoneIsNoStatus
  <2>7. \A n \in Members : Fate(n)'
    BY <1>f, <2>1, <2>2, <2>4, <2>6 DEF Fate
  <2> QED
    BY <2>5, <2>7
<1>11. ASSUME NEW m \in Members, Dispatches(m)
       PROVE  TypeOK' /\ \A n \in Members : Fate(n)'
  <2>1. Step({m}, "unpacked", AdapterDispatch, "dispatched") /\ UNCHANGED <<batch, failed, status>>
    BY <1>11 DEF Dispatches
  <2>2. pc[m] = "unpacked"
    BY <2>1 DEF Step, All
  <2>3. "dispatched" \in Points
    BY <1>t, <2>2 DEF DirectPoints, SharedPoints
  <2> QED
    BY <1>q, <2>1, <2>3
<1>12. ASSUME NEW m \in Members, SubmitReturns(m)
       PROVE  TypeOK' /\ \A n \in Members : Fate(n)'
  <2>1. /\ cell # "D0" /\ pc[m] \in {"dispatched", "queued", "computed"}
        /\ failed' \in {failed, failed \cup {m}} /\ UNCHANGED <<batch, status>>
        /\ Step({m}, pc[m], AdapterResult, "returned")
    BY <1>12 DEF SubmitReturns
  <2>2. "returned" \in Points
    BY <2>1 DEF SharedPoints
  <2>3. /\ pc' \in [Members -> Points] /\ DOMAIN ts' = Members
        /\ \A n \in Members : Clocked(ts'[n], now')
        /\ pc'[m] = "returned"
        /\ \A n \in Members \ {m} : pc'[n] = pc[n]
        /\ cell' = cell /\ now' = now
    <3>1. Moved({m}, pc[m], AdapterResult, "returned")
      BY <2>1, <2>2, StepEffect
    <3> QED
      BY <3>1 DEF Moved
  <2>4. TypeOK'
    BY <1>t, <2>1, <2>3, TypeFromParts
  <2>5. \A n \in Members : Fate(n)'
    BY <1>f, <2>1, <2>3, NoneIsNoStatus DEF Fate
  <2> QED
    BY <2>4, <2>5
<1>13. ASSUME NEW m \in Members, DirectReturns(m)
       PROVE  TypeOK' /\ \A n \in Members : Fate(n)'
  <2>1. /\ pc[m] \in {"sent", "queued", "computed"} /\ Move({m}, "answered")
        /\ failed' \in {failed, failed \cup {m}} /\ UNCHANGED <<cell, now, ts, batch, status>>
    BY <1>13 DEF DirectReturns
  <2>2. "answered" \in Points
    BY DEF DirectPoints
  <2>3. pc' = [n \in Members |-> IF n = m THEN "answered" ELSE pc[n]]
    BY <2>1 DEF Move
  <2>4. pc' \in [Members -> Points]
    BY <1>t, <2>2, <2>3
  <2>5. TypeOK'
    BY <1>t, <2>1, <2>4, TypeFromParts
  <2>6. \A n \in Members : Fate(n)'
    BY <1>f, <2>1, <2>3, NoneIsNoStatus DEF Fate
  <2> QED
    BY <2>5, <2>6
<1>14. ASSUME NEW m \in Members, Enqueues(m)
       PROVE  TypeOK' /\ \A n \in Members : Fate(n)'
  <2>1. PICK from \in {"sent", "dispatched"} : Step({m}, from, QueueStart, "queued")
    BY <1>14 DEF Enqueues
  <2>2. UNCHANGED <<batch, failed, status>>
    BY <1>14 DEF Enqueues
  <2>3. "queued" \in Points
    BY DEF DirectPoints
  <2> QED
    BY <1>q, <2>1, <2>2, <2>3
<1>15. ASSUME NEW g \in Envelopes,
              ProxySends(g) \/ ProxyReceives(g) \/ AdapterReceives(g) \/ AdapterSends(g)
       PROVE  TypeOK' /\ \A n \in Members : Fate(n)'
  <2>1. PICK leg \in {<<"sealed", ProxySend, "enveloped">>, <<"held", ProxySend, "enveloped">>,
                      <<"responded", ProxyRespRecv, "returning">>, <<"enveloped", AdapterRecv, "unpacked">>,
                      <<"returned", AdapterSend, "responded">>} : Step(g, leg[1], leg[2], leg[3])
    BY <1>15 DEF ProxySends, ProxyReceives, AdapterReceives, AdapterSends
  <2>2. UNCHANGED <<batch, failed, status>>
    BY <1>15 DEF ProxySends, ProxyReceives, AdapterReceives, AdapterSends
  <2>3. PICK n \in g : pc[n] = leg[1]
    BY <2>1 DEF Step, All
  <2>4. leg[3] \in Points
    BY <1>t, <2>1, <2>3 DEF DirectPoints, SharedPoints
  <2> QED
    BY <1>q, <2>1, <2>2, <2>4
<1>16. ASSUME NEW g \in Envelopes, EnvelopeFails(g)
       PROVE  TypeOK' /\ \A n \in Members : Fate(n)'
  <2>1. /\ Step(g, "enveloped", ProxyRespRecv, "returning")
        /\ failed' = failed \cup g /\ UNCHANGED <<batch, status>>
    BY <1>16 DEF EnvelopeFails
  <2>2. PICK n \in g : pc[n] = "enveloped"
    BY <2>1 DEF Step, All
  <2>3. "returning" \in Points
    BY <1>t, <2>2 DEF DirectPoints, SharedPoints
  <2>4. /\ pc' \in [Members -> Points] /\ DOMAIN ts' = Members
        /\ \A k \in Members : Clocked(ts'[k], now')
        /\ \A k \in g : pc[k] = "enveloped" /\ pc'[k] = "returning"
        /\ \A k \in Members \ g : pc'[k] = pc[k]
        /\ cell' = cell /\ now' = now
    <3>1. Moved(g, "enveloped", ProxyRespRecv, "returning")
      BY <2>1, <2>3, StepEffect
    <3> QED
      BY <3>1 DEF Moved
  <2>5. TypeOK'
    BY <1>t, <2>1, <2>4, TypeFromParts
  <2>6. \A k \in Members : Fate(k)'
    BY <1>f, <2>1, <2>4, NoneIsNoStatus DEF Fate
  <2> QED
    BY <2>5, <2>6
<1>17. ASSUME NEW g \in (SUBSET Members) \ {{}}, Computes(g)
       PROVE  TypeOK' /\ \A n \in Members : Fate(n)'
  <2>1. /\ Step(g, "queued", ComputeStart, "computing")
        /\ batch' = [m \in Members |-> IF m \in g THEN g ELSE batch[m]]
        /\ UNCHANGED <<failed, status>>
    BY <1>17 DEF Computes
  <2>2. "computing" \in Points
    BY DEF DirectPoints
  <2>3. /\ pc' \in [Members -> Points] /\ DOMAIN ts' = Members
        /\ \A k \in Members : Clocked(ts'[k], now')
        /\ \A k \in g : pc[k] = "queued" /\ pc'[k] = "computing"
        /\ \A k \in Members \ g : pc'[k] = pc[k]
        /\ cell' = cell /\ now' = now
    <3>1. Moved(g, "queued", ComputeStart, "computing")
      BY <2>1, <2>2, StepEffect
    <3> QED
      BY <3>1 DEF Moved
  <2>4. TypeOK'
    BY <1>t, <2>1, <2>3, TypeFromParts
  <2>5. \A k \in Members : Fate(k)'
    BY <1>f, <2>1, <2>3 DEF Fate
  <2> QED
    BY <2>4, <2>5
<1>18. ASSUME NEW g \in (SUBSET Members) \ {{}}, Completes(g)
       PROVE  TypeOK' /\ \A n \in Members : Fate(n)'
  BY <1>18, <1>q DEF Completes, DirectPoints
<1> QED
  BY <1>1, <1>2, <1>3, <1>4, <1>5, <1>6, <1>7, <1>8, <1>9, <1>10, <1>11, <1>12, <1>13, <1>14, <1>15, <1>16,
     <1>17, <1>18 DEF Next

-----------------------------------------------------------------------------
(* What a member that nothing happened to has taken.                       *)

\* Its execution is as it was.
SameWindow(m) ==
  /\ batch'[m] = batch[m]
  /\ \A s \in {ComputeStart, ComputeEnd} :
       /\ s \in DOMAIN ts'[m] <=> s \in DOMAIN ts[m]
       /\ s \in DOMAIN ts[m] => ts'[m][s] = ts[m][s]

\* A step that leaves a member's execution alone leaves it right.
Kept(m) == (Sound(m)' => Sound(m)) /\ Right(m)' /\ SameWindow(m)

\* A stage's place is the cell's affair, and so is what was passed.
LEMMA CellDecides ==
  ASSUME cell' = cell
  PROVE  /\ \A s \in Stages : Place(s)' = Place(s)
         /\ \A p \in SharedPoints : Passed(p)' = Passed(p)
BY DEF Place, SealOwner, AggregatesEnvelopes, Passed, TopologyMask, Reached

\* The next stage on its way leaves a member with the instants of its point, in
\* their order.
LEMMA TakenInOrder ==
  ASSUME TypeOK, cell' = cell, NEW m \in Members, Timed(m), Ordered(m), NEW stage \in Stages,
         NEW to \in Points, pc'[m] = to, ts'[m] = With(ts[m], stage, now), Leg(pc[m], stage, to)
  PROVE  Timed(m)' /\ Ordered(m)'
<1> DEFINE had == DOMAIN ts[m]
<1>1. had = Passed(pc[m]) /\ had \subseteq Stages /\ now \in Nat /\ \A s \in had : ts[m][s] \in Nat /\ ts[m][s] <= now
  BY DEF TypeOK, Clocked, Timed
<1>2. Passed(to) = had \cup {stage} /\ \A s \in had : Place(s) < Place(stage)
  BY <1>1 DEF Leg
<1>3. DOMAIN ts'[m] = had \cup {stage} /\ \A s \in had \cup {stage} : ts'[m][s] = IF s = stage THEN now ELSE ts[m][s]
  BY DEF With
<1>4. to \in SharedPoints
  BY DEF Points, SharedPoints
<1>5. Timed(m)'
  BY <1>2, <1>3, <1>4, CellDecides DEF Timed
<1>6. \A s \in Stages : Place(s) \in Int
  BY DEF Place, Stages
<1>7. \A s, t \in had : Place(s) <= Place(t) => ts[m][s] <= ts[m][t]
  BY DEF Ordered
<1>8. \A s, t \in had \cup {stage} : Place(s) <= Place(t) => ts'[m][s] <= ts'[m][t]
  <2> TAKE s, t \in had \cup {stage}
  <2>1. CASE t = stage
    BY <1>1, <1>3, <2>1
  <2>2. CASE t # stage /\ s = stage
    BY <1>1, <1>2, <1>6, <2>2
  <2>3. CASE t # stage /\ s # stage
    BY <1>3, <1>7, <2>3
  <2> QED
    BY <2>1, <2>2, <2>3
<1>9. \A s \in had \cup {stage} : Place(s)' = Place(s)
  BY <1>1, CellDecides
<1>10. Ordered(m)'
  BY <1>3, <1>8, <1>9 DEF Ordered
<1> QED
  BY <1>5, <1>10

\* A member the step does not touch is as right as it was.
LEMMA UntouchedIsKept ==
  ASSUME cell' = cell, NEW m \in Members, TypeOK, Right(m), pc'[m] = pc[m], ts'[m] = ts[m],
         batch'[m] = batch[m], failed \subseteq failed', status'[m] = status[m]
  PROVE  Kept(m)
<1>1. Sound(m)' => Sound(m)
  BY DEF Sound
<1>2. SameWindow(m)
  BY DEF SameWindow
<1>3. pc[m] \in SharedPoints /\ DOMAIN ts[m] \subseteq Stages
  BY DEF TypeOK, Points, SharedPoints, Clocked
<1>4. Timed(m) => Timed(m)'
  BY <1>3, CellDecides DEF Timed
<1>5. Ordered(m) => Ordered(m)'
  BY <1>3, CellDecides DEF Ordered
<1>6. Executes(m) => Executes(m)'
  BY DEF Executes
<1> QED
  BY <1>1, <1>2, <1>4, <1>5, <1>6 DEF Kept, Right

\* The last three facts of a member that is taken past a stage which is not one of
\* its execution's.
LEMMA TakenIsKept ==
  ASSUME TypeOK, cell' = cell, NEW m \in Members, Right(m), NEW stage \in Stages, NEW to \in Points,
         pc'[m] = to, ts'[m] = With(ts[m], stage, now), Sound(m)' => Sound(m) /\ Leg(pc[m], stage, to),
         stage \notin {ComputeStart, ComputeEnd}, batch'[m] = batch[m]
  PROVE  Kept(m)
<1>1. SameWindow(m)
  BY DEF SameWindow, With
<1>2. ASSUME Sound(m)' PROVE Timed(m)' /\ Ordered(m)' /\ Executes(m)'
  <2>1. Timed(m) /\ Ordered(m) /\ Executes(m) /\ Leg(pc[m], stage, to)
    BY <1>2 DEF Right
  <2>2. Timed(m)' /\ Ordered(m)'
    BY <2>1, TakenInOrder
  <2>3. Executes(m)'
    BY <2>1, <1>1 DEF Executes, SameWindow
  <2> QED
    BY <2>2, <2>3
<1> QED
  BY <1>1, <1>2 DEF Kept, Right

\* A whole group going one leg further, its execution apart.
LEMMA GroupIsKept ==
  ASSUME TypeOK, \A m \in Members : Right(m), NEW group \in SUBSET Members, NEW from, NEW stage \in Stages,
         NEW to \in Points, Moved(group, from, stage, to), Leg(from, stage, to),
         stage \notin {ComputeStart, ComputeEnd}, from \notin {"lost", "refused", "recorded"},
         UNCHANGED <<batch, status>>, failed \subseteq failed'
  PROVE  \A m \in Members : Kept(m)
<1>1. /\ \A m \in group : pc[m] = from /\ pc'[m] = to /\ ts'[m] = With(ts[m], stage, now)
      /\ \A m \in Members \ group : pc'[m] = pc[m] /\ ts'[m] = ts[m]
      /\ cell' = cell
  BY DEF Moved
<1>2. ASSUME NEW m \in group PROVE Kept(m)
  <2>1. Sound(m)' => Sound(m) /\ Leg(pc[m], stage, to)
    BY <1>1 DEF Sound
  <2> QED
    BY <1>1, <2>1, TakenIsKept
<1>3. ASSUME NEW m \in Members \ group PROVE Kept(m)
  BY <1>1, UntouchedIsKept
<1> QED
  BY <1>2, <1>3

\* Every step but the backend's two leaves each member's execution alone, and each
\* member right.
LEMMA OthersKeep ==
  ASSUME TypeOK, \A m \in Members : Fate(m), \A m \in Members : Right(m), Next,
         ~\E g \in (SUBSET Members) \ {{}} : Computes(g) \/ Completes(g)
  PROVE  \A m \in Members : Kept(m)
<1>t. /\ cell \in ImplementedCells /\ pc \in [Members -> Points] /\ DOMAIN ts = Members
      /\ batch \in [Members -> SUBSET Members] /\ failed \in SUBSET Members
      /\ status \in [Members -> {"ok", "error", "timeout", None}]
  BY DEF TypeOK
<1>c. /\ cell = "D0" \/ cell = "F00" \/ cell = "F10"
      /\ AggregatesEnvelopes(cell) <=> cell = "F10"
      /\ SealOwner(cell) = "loadgen" <=> cell # "F10"
  BY <1>t, PlaceValues DEF ImplementedCells
<1>g. ASSUME NEW group \in SUBSET Members, NEW from, NEW stage \in Stages, NEW to \in Points,
             Step(group, from, stage, to), Leg(from, stage, to),
             stage \notin {ComputeStart, ComputeEnd}, from \notin {"lost", "refused", "recorded"},
             UNCHANGED <<batch, status>>, failed \subseteq failed'
      PROVE  \A m \in Members : Kept(m)
  <2>1. Moved(group, from, stage, to)
    BY <1>g, StepEffect
  <2> QED
    BY <1>g, <2>1, GroupIsKept
<1>s. /\ Sched # ComputeStart /\ \A s \in {Sched, ClientSend, ProxyRecv, CohortSeal, ProxySend, AdapterRecv,
               AdapterDispatch, QueueStart, AdapterResult, AdapterSend, ProxyRespRecv, ProxyFanout, ClientRecv} :
           s \notin {ComputeStart, ComputeEnd}
  BY DEF Sched, ClientSend, ProxyRecv, CohortSeal, ProxySend, AdapterRecv, AdapterDispatch, QueueStart,
         ComputeStart, ComputeEnd, AdapterResult, AdapterSend, ProxyRespRecv, ProxyFanout, ClientRecv
<1>1. CASE Tick
  <2>1. UNCHANGED <<cell, pc, ts, batch, failed, status>>
    BY <1>1 DEF Tick
  <2> QED
    BY <2>1, UntouchedIsKept
<1>2. CASE BarrierReleases
  <2>1. /\ All(Members, "barrier") /\ Move(Members, "released") /\ UNCHANGED <<cell, now, batch, failed, status>>
    BY <1>2 DEF BarrierReleases
  <2>2. "released" \in Points /\ Members \in SUBSET Members
    BY PointsNamed DEF DirectPoints
  <2>3. \A m \in Members : pc[m] = "barrier" /\ pc'[m] = "released"
    BY <2>1 DEF Move, All
  <2>4. CASE cell # "F10"
    <3>1. Stamp(Members, CohortSeal)
      BY <1>2, <1>c, <2>4 DEF BarrierReleases
    <3>2. \A m \in Members : ts'[m] = With(ts[m], CohortSeal, now)
      BY <2>1, <2>2, <3>1, StampMoves, StagesNamed
    <3>3. Leg("barrier", CohortSeal, "released")
      BY <1>t, <2>4, Legs
    <3>4. \A m \in Members : Sound(m)' => Sound(m)
      BY <2>1, <2>3 DEF Sound
    <3> QED
      BY <1>s, <2>1, <2>2, <2>3, <3>2, <3>3, <3>4, TakenIsKept, StagesNamed
  <2>5. CASE cell = "F10"
    <3>1. ts' = ts
      BY <1>2, <1>c, <2>5 DEF BarrierReleases
    <3>2. Passed("released") = Passed("barrier")
      BY <1>t, <2>5, Legs
    <3> SUFFICES ASSUME NEW m \in Members PROVE Kept(m)
      OBVIOUS
    <3>3. Sound(m)' => Sound(m)
      BY <2>1, <2>3 DEF Sound
    <3>4. SameWindow(m)
      BY <2>1, <3>1 DEF SameWindow
    <3>5. Timed(m) => Timed(m)'
      BY <2>1, <2>3, <3>1, <3>2, CellDecides DEF Timed, SharedPoints, DirectPoints
    <3>6. Ordered(m) => Ordered(m)'
      <4>1. DOMAIN ts[m] \subseteq Stages
        BY DEF TypeOK, Clocked
      <4> QED
        BY <2>1, <3>1, <4>1, CellDecides DEF Ordered
    <3>7. Executes(m) => Executes(m)'
      BY <2>1, <3>1 DEF Executes
    <3> QED
      BY <3>3, <3>4, <3>5, <3>6, <3>7 DEF Kept, Right
  <2> QED
    BY <2>4, <2>5
<1>3. CASE Seals
  <2>1. cell = "F10" /\ Step(Members, "held", CohortSeal, "sealed") /\ UNCHANGED <<batch, failed, status>>
    BY <1>3, <1>c DEF Seals
  <2>2. "sealed" \in Points /\ Leg("held", CohortSeal, "sealed")
    BY <1>t, <2>1, PointsNamed, Legs DEF SharedPoints
  <2> QED
    BY <1>g, <1>s, <2>1, <2>2, StagesNamed
<1>4. CASE FormationFails
  <2> DEFINE held == {m \in Members : pc[m] = "held"}
  <2>1. /\ Move(held, "refused") /\ UNCHANGED <<cell, now, ts, batch, failed, status>>
    BY <1>4 DEF FormationFails
  <2>2. pc' = [m \in Members |-> IF m \in held THEN "refused" ELSE pc[m]]
    BY <2>1 DEF Move
  <2>3. ASSUME NEW m \in Members, m \in held PROVE Kept(m)
    <3>1. ~Sound(m)'
      BY <2>2, <2>3 DEF Sound
    <3>2. SameWindow(m)
      BY <2>1 DEF SameWindow
    <3> QED
      BY <3>1, <3>2 DEF Kept, Right
  <2>4. ASSUME NEW m \in Members, m \notin held PROVE Kept(m)
    BY <2>1, <2>2, <2>4, UntouchedIsKept
  <2> QED
    BY <2>3, <2>4
<1>5. CASE Judges
  <2>1. UNCHANGED <<cell, now, pc, ts, batch, failed, status>>
    BY <1>5 DEF Judges
  <2> QED
    BY <2>1, UntouchedIsKept
<1>6. ASSUME NEW m \in Members, Sends(m) PROVE \A n \in Members : Kept(n)
  <2>1. Step({m}, "released", ClientSend, "sent") /\ UNCHANGED <<batch, failed, status>>
    BY <1>6 DEF Sends
  <2>2. "sent" \in Points /\ Leg("released", ClientSend, "sent") /\ {m} \in SUBSET Members
    BY <1>t, PointsNamed, Legs DEF DirectPoints
  <2> QED
    BY <1>g, <1>s, <2>1, <2>2, StagesNamed
<1>7. ASSUME NEW m \in Members, Lost(m) PROVE \A n \in Members : Kept(n)
  <2>1. Move({m}, "lost") /\ UNCHANGED <<cell, now, ts, batch, failed, status>>
    BY <1>7 DEF Lost
  <2>2. pc' = [n \in Members |-> IF n = m THEN "lost" ELSE pc[n]]
    BY <2>1 DEF Move
  <2>3. Kept(m)
    <3>1. ~Sound(m)'
      BY <2>2 DEF Sound
    <3>2. SameWindow(m)
      BY <2>1 DEF SameWindow
    <3> QED
      BY <3>1, <3>2 DEF Kept, Right
  <2>4. ASSUME NEW n \in Members, n # m PROVE Kept(n)
    BY <2>1, <2>2, <2>4, UntouchedIsKept
  <2> QED
    BY <2>3, <2>4
<1>8. ASSUME NEW m \in Members, ReachesProxy(m) PROVE \A n \in Members : Kept(n)
  <2>1. PICK to \in {"held", "refused"} : Step({m}, "sent", ProxyRecv, to)
    BY <1>8 DEF ReachesProxy
  <2>2. cell # "D0" /\ UNCHANGED <<batch, failed, status>>
    BY <1>8 DEF ReachesProxy
  <2>3. to \in Points /\ {m} \in SUBSET Members
    BY <2>2, PointsNamed DEF SharedPoints
  <2>4. CASE to = "held"
    BY <1>g, <1>s, <1>t, <2>1, <2>2, <2>3, <2>4, Legs, StagesNamed
  <2>5. CASE to = "refused"
    <3>1. Moved({m}, "sent", ProxyRecv, to)
      BY <2>1, <2>3, StepEffect, StagesNamed
    <3>2. /\ pc'[m] = "refused" /\ ts'[m] = With(ts[m], ProxyRecv, now)
          /\ \A n \in Members \ {m} : pc'[n] = pc[n] /\ ts'[n] = ts[n]
          /\ cell' = cell
      BY <2>5, <3>1 DEF Moved
    <3>3. Kept(m)
      BY <1>s, <2>2, <3>2 DEF Kept, Right, Sound, SameWindow, With
    <3>4. ASSUME NEW n \in Members, n # m PROVE Kept(n)
      BY <2>2, <3>2, <3>4, UntouchedIsKept
    <3> QED
      BY <3>3, <3>4
  <2> QED
    BY <2>1, <2>4, <2>5
<1>9. ASSUME NEW m \in Members, FansOut(m) PROVE \A n \in Members : Kept(n)
  <2>1. Step({m}, "returning", ProxyFanout, "answered") /\ UNCHANGED <<batch, failed, status>>
    BY <1>9 DEF FansOut
  <2>2. pc[m] = "returning" /\ {m} \in SUBSET Members
    BY <2>1 DEF Step, All
  <2>3. "answered" \in Points /\ cell # "D0"
    BY <1>t, <2>2, PointsNamed DEF DirectPoints
  <2> QED
    BY <1>g, <1>s, <1>t, <2>1, <2>2, <2>3, Legs, StagesNamed
<1>10. ASSUME NEW m \in Members, ClientReceives(m) PROVE \A n \in Members : Kept(n)
  <2>1. PICK from \in {"answered", "refused", "lost"}, outcome \in {"ok", "error", "timeout"} :
          Receives(m, from, outcome) /\ (outcome = "ok" => from = "answered" /\ m \notin failed)
    BY <1>10 DEF ClientReceives
  <2>2. /\ Step({m}, from, ClientRecv, "recorded")
        /\ status' = [status EXCEPT ![m] = outcome]
        /\ UNCHANGED <<batch, failed>>
    BY <2>1 DEF Receives
  <2>3. "recorded" \in Points /\ {m} \in SUBSET Members
    BY PointsNamed DEF DirectPoints
  <2>4. Moved({m}, from, ClientRecv, "recorded")
    BY <2>2, <2>3, StepEffect, StagesNamed
  <2>5. /\ pc[m] = from /\ pc'[m] = "recorded" /\ ts'[m] = With(ts[m], ClientRecv, now)
        /\ \A n \in Members \ {m} : pc'[n] = pc[n] /\ ts'[n] = ts[n]
        /\ cell' = cell
    BY <2>4 DEF Moved
  <2>6. status'[m] = outcome /\ \A n \in Members \ {m} : status'[n] = status[n]
    BY <1>t, <2>2
  <2>7. Leg("answered", ClientRecv, "recorded")
    BY <1>t, Legs
  <2>8. Sound(m)' => Sound(m) /\ from = "answered"
    BY <2>1, <2>2, <2>5, <2>6 DEF Sound
  <2>9. Sound(m)' => Sound(m) /\ Leg(pc[m], ClientRecv, "recorded")
    BY <2>5, <2>7, <2>8
  <2>10. Kept(m)
    BY <1>s, <2>2, <2>3, <2>5, <2>9, TakenIsKept, StagesNamed
  <2>11. ASSUME NEW n \in Members, n # m PROVE Kept(n)
    BY <2>2, <2>5, <2>6, <2>11, UntouchedIsKept
  <2> QED
    BY <2>10, <2>11
<1>11. ASSUME NEW m \in Members, Dispatches(m) PROVE \A n \in Members : Kept(n)
  <2>1. Step({m}, "unpacked", AdapterDispatch, "dispatched") /\ UNCHANGED <<batch, failed, status>>
    BY <1>11 DEF Dispatches
  <2>2. pc[m] = "unpacked" /\ {m} \in SUBSET Members
    BY <2>1 DEF Step, All
  <2>3. "dispatched" \in Points /\ cell # "D0"
    BY <1>t, <2>2, PointsNamed DEF DirectPoints, SharedPoints
  <2> QED
    BY <1>g, <1>s, <1>t, <2>1, <2>2, <2>3, Legs, StagesNamed
<1>12. ASSUME NEW m \in Members, SubmitReturns(m) PROVE \A n \in Members : Kept(n)
  <2>1. /\ cell # "D0" /\ failed \subseteq failed' /\ UNCHANGED <<batch, status>>
        /\ pc[m] = "computed" \/ m \in failed'
        /\ pc[m] \in {"dispatched", "queued", "computed"}
        /\ Step({m}, pc[m], AdapterResult, "returned")
    BY <1>12 DEF SubmitReturns
  <2>2. "returned" \in Points /\ {m} \in SUBSET Members
    BY <2>1, PointsNamed DEF SharedPoints
  <2>3. Moved({m}, pc[m], AdapterResult, "returned")
    BY <2>1, <2>2, StepEffect, StagesNamed
  <2>4. /\ pc'[m] = "returned" /\ ts'[m] = With(ts[m], AdapterResult, now)
        /\ \A n \in Members \ {m} : pc'[n] = pc[n] /\ ts'[n] = ts[n]
        /\ cell' = cell
    BY <2>3 DEF Moved
  <2>5. Leg("computed", AdapterResult, "returned")
    BY <1>t, <2>1, Legs
  <2>6. Sound(m)' => Sound(m) /\ Leg(pc[m], AdapterResult, "returned")
    BY <2>1, <2>5 DEF Sound
  <2>7. Kept(m)
    BY <1>s, <2>1, <2>2, <2>4, <2>6, TakenIsKept, StagesNamed
  <2>8. ASSUME NEW n \in Members, n # m PROVE Kept(n)
    BY <2>1, <2>4, <2>8, UntouchedIsKept
  <2> QED
    BY <2>7, <2>8
<1>13. ASSUME NEW m \in Members, DirectReturns(m) PROVE \A n \in Members : Kept(n)
  <2>1. /\ cell = "D0" /\ failed \subseteq failed' /\ UNCHANGED <<cell, now, ts, batch, status>>
        /\ pc[m] = "computed" \/ m \in failed'
        /\ pc[m] \in {"sent", "queued", "computed"}
        /\ Move({m}, "answered")
    BY <1>13 DEF DirectReturns
  <2>2. pc' = [n \in Members |-> IF n = m THEN "answered" ELSE pc[n]]
    BY <2>1 DEF Move
  <2>3. Kept(m)
    <3>1. Sound(m)' => Sound(m) /\ pc[m] = "computed"
      BY <2>1 DEF Sound
    <3>2. SameWindow(m)
      BY <2>1 DEF SameWindow
    <3>3. Passed("answered") = Passed("computed")
      BY <1>t, <2>1, Legs
    <3>4. pc[m] = "computed" /\ Timed(m) => Timed(m)'
      BY <2>1, <2>2, <3>3, CellDecides DEF Timed, SharedPoints, DirectPoints
    <3>5. Ordered(m) => Ordered(m)'
      <4>1. DOMAIN ts[m] \subseteq Stages
        BY DEF TypeOK, Clocked
      <4> QED
        BY <2>1, <4>1, CellDecides DEF Ordered
    <3>6. Executes(m) => Executes(m)'
      BY <2>1 DEF Executes
    <3> QED
      BY <3>1, <3>2, <3>4, <3>5, <3>6 DEF Kept, Right
  <2>4. ASSUME NEW n \in Members, n # m PROVE Kept(n)
    BY <2>1, <2>2, <2>4, UntouchedIsKept
  <2> QED
    BY <2>3, <2>4
<1>14. ASSUME NEW m \in Members, Enqueues(m) PROVE \A n \in Members : Kept(n)
  <2> DEFINE from == IF cell = "D0" THEN "sent" ELSE "dispatched"
  <2>1. Step({m}, from, QueueStart, "queued") /\ UNCHANGED <<batch, failed, status>>
    BY <1>14 DEF Enqueues
  <2>2. "queued" \in Points /\ {m} \in SUBSET Members
    BY PointsNamed DEF DirectPoints
  <2>3. Leg(from, QueueStart, "queued") /\ from \in {"sent", "dispatched"}
    BY <1>t, Legs
  <2> HIDE DEF from
  <2> QED
    BY <1>g, <1>s, <2>1, <2>2, <2>3, StagesNamed
<1>15. ASSUME NEW g \in Envelopes,
              ProxySends(g) \/ ProxyReceives(g) \/ AdapterReceives(g) \/ AdapterSends(g)
       PROVE  \A n \in Members : Kept(n)
  <2>1. PICK leg \in {<<"sealed", ProxySend, "enveloped">>, <<"held", ProxySend, "enveloped">>,
                      <<"responded", ProxyRespRecv, "returning">>, <<"enveloped", AdapterRecv, "unpacked">>,
                      <<"returned", AdapterSend, "responded">>} :
          /\ Step(g, leg[1], leg[2], leg[3])
          /\ leg[1] = "sealed" => cell = "F10"
          /\ leg[1] = "held" => cell # "F10"
    BY <1>15, <1>c DEF ProxySends, ProxyReceives, AdapterReceives, AdapterSends
  <2>2. UNCHANGED <<batch, failed, status>>
    BY <1>15 DEF ProxySends, ProxyReceives, AdapterReceives, AdapterSends
  <2>3. g \in SUBSET Members /\ g # {}
    BY GroupsAreMembers
  <2>4. PICK n \in g : pc[n] = leg[1]
    BY <2>1, <2>3 DEF Step, All
  <2>5. cell # "D0" /\ leg[3] \in Points
    BY <1>t, <2>1, <2>3, <2>4, PointsNamed DEF DirectPoints, SharedPoints
  <2>6. Leg(leg[1], leg[2], leg[3])
    BY <1>t, <1>c, <2>1, <2>5, Legs
  <2> QED
    BY <1>g, <1>s, <2>1, <2>2, <2>3, <2>5, <2>6, StagesNamed
<1>16. ASSUME NEW g \in Envelopes, EnvelopeFails(g) PROVE \A n \in Members : Kept(n)
  <2>1. /\ Step(g, "enveloped", ProxyRespRecv, "returning")
        /\ failed' = failed \cup g /\ UNCHANGED <<batch, status>>
    BY <1>16 DEF EnvelopeFails
  <2>2. g \in SUBSET Members /\ g # {}
    BY GroupsAreMembers
  <2>3. PICK n \in g : pc[n] = "enveloped"
    BY <2>1, <2>2 DEF Step, All
  <2>4. "returning" \in Points
    BY <1>t, <2>2, <2>3, PointsNamed DEF DirectPoints, SharedPoints
  <2>5. Moved(g, "enveloped", ProxyRespRecv, "returning")
    BY <2>1, <2>2, <2>4, StepEffect, StagesNamed
  <2>6. /\ \A k \in g : ts'[k] = With(ts[k], ProxyRespRecv, now)
        /\ \A k \in Members \ g : pc'[k] = pc[k] /\ ts'[k] = ts[k]
        /\ cell' = cell
    BY <2>5 DEF Moved
  <2>7. ASSUME NEW k \in g PROVE Kept(k)
    <3>1. ~Sound(k)'
      BY <2>1 DEF Sound
    <3>2. ts'[k] = With(ts[k], ProxyRespRecv, now) /\ batch' = batch
      BY <2>1, <2>6
    <3>3. SameWindow(k)
      BY ONLY <3>2 DEF SameWindow, With, ProxyRespRecv, ComputeStart, ComputeEnd
    <3> QED
      BY <3>1, <3>3 DEF Kept, Right
  <2>8. ASSUME NEW k \in Members \ g PROVE Kept(k)
    BY <2>1, <2>6, UntouchedIsKept
  <2> QED
    BY <2>7, <2>8
<1> QED
  BY <1>1, <1>2, <1>3, <1>4, <1>5, <1>6, <1>7, <1>8, <1>9, <1>10, <1>11, <1>12, <1>13, <1>14, <1>15, <1>16
     DEF Next

-----------------------------------------------------------------------------
(* The one instance.                                                       *)

\* A member that began its execution and is not being executed has ended it.
LEMMA ExecutionPoints ==
  ASSUME cell \in ImplementedCells
  PROVE  /\ ComputeEnd \notin Passed("computing") /\ ComputeEnd \notin Passed("queued")
         /\ \A p \in SharedPoints \ {"lost", "refused", "computing"} :
              ComputeStart \in Passed(p) => ComputeEnd \in Passed(p)
<1>1. Place(ComputeStart) = 18 /\ Place(ComputeEnd) = 20
  BY PlaceValues, StagesNamed DEF ComputeStart, ComputeEnd, Stages
<1>2. ComputeEnd \in TopologyMask(cell)
  BY PlaceValues DEF ComputeEnd
<1>3. \A p \in SharedPoints \ {"lost", "refused", "computing"} : Reached(p) >= 18 => Reached(p) >= 20
  BY ReachedValues DEF SharedPoints, DirectPoints
<1>4. \A p \in SharedPoints \ {"lost", "refused"} : Reached(p) \in Nat
  BY ReachedValues DEF SharedPoints, DirectPoints
<1>5. ComputeEnd \notin Passed("computing") /\ ComputeEnd \notin Passed("queued")
  BY <1>1, ReachedValues DEF Passed
<1>6. ASSUME NEW p \in SharedPoints \ {"lost", "refused", "computing"}, ComputeStart \in Passed(p)
      PROVE  ComputeEnd \in Passed(p)
  <2>1. 18 <= Reached(p)
    BY <1>1, <1>6 DEF Passed
  <2>2. 20 <= Reached(p)
    BY <1>3, <1>4, <2>1
  <2> QED
    BY <1>1, <1>2, <2>2 DEF Passed
<1> QED
  BY <1>5, <1>6

\* Executions that are left alone stay apart.
LEMMA ExclusiveKept ==
  ASSUME NEW m \in Members, NEW n \in Members, SameWindow(m), SameWindow(n), Exclusive(m, n)
  PROVE  Exclusive(m, n)'
BY DEF SameWindow, Exclusive, EndsBefore

\* The instance takes a request, or several, when it is free: they have each other
\* for company, and every execution before theirs is over.
LEMMA ComputesKeeps ==
  ASSUME IInv, NEW g \in SUBSET Members, Computes(g)
  PROVE  /\ \A m \in Members : Right(m)'
         /\ \A m, n \in Members : Sound(m)' /\ Sound(n)' => Exclusive(m, n)'
<1>t. /\ TypeOK /\ cell \in ImplementedCells /\ pc \in [Members -> Points] /\ batch \in [Members -> SUBSET Members]
      /\ \A m \in Members : Right(m)
      /\ \A m, n \in Members : Sound(m) /\ Sound(n) => Exclusive(m, n)
      /\ now \in Nat /\ \A m \in Members : Clocked(ts[m], now)
  BY DEF IInv, TypeOK
<1>1. /\ \A m \in Members : pc[m] # "computing"
      /\ Step(g, "queued", ComputeStart, "computing")
      /\ batch' = [m \in Members |-> IF m \in g THEN g ELSE batch[m]]
      /\ UNCHANGED <<failed, status>>
  BY DEF Computes
<1>2. "computing" \in Points
  BY PointsNamed DEF DirectPoints
<1>3. Moved(g, "queued", ComputeStart, "computing")
  BY <1>t, <1>1, <1>2, StepEffect, StagesNamed
<1>4. /\ \A m \in g : pc[m] = "queued" /\ pc'[m] = "computing" /\ ts'[m] = With(ts[m], ComputeStart, now)
      /\ \A m \in Members \ g : pc'[m] = pc[m] /\ ts'[m] = ts[m]
      /\ cell' = cell
  BY <1>3 DEF Moved
<1>5. \A m \in Members : Sound(m)' => Sound(m)
  BY <1>1, <1>4 DEF Sound
<1>6. \A m \in Members \ g : Kept(m)
  BY <1>t, <1>1, <1>4, UntouchedIsKept
<1>7. Leg("queued", ComputeStart, "computing")
  BY <1>t, Legs
<1>8. ASSUME NEW m \in g, Sound(m)' PROVE Timed(m)' /\ Ordered(m)' /\ Executes(m)'
  <2>1. Timed(m) /\ Ordered(m)
    BY <1>t, <1>5, <1>8 DEF Right
  <2>2. Timed(m)' /\ Ordered(m)'
    BY <1>t, <1>2, <1>4, <1>7, <2>1, TakenInOrder, StagesNamed
  <2>3. ComputeEnd \notin DOMAIN ts[m]
    BY <1>t, <1>4, <2>1, ExecutionPoints DEF Timed
  <2>4. ComputeEnd \notin DOMAIN ts'[m]
    <3>1. ts'[m] = With(ts[m], ComputeStart, now)
      BY <1>4
    <3> QED
      BY ONLY <2>3, <3>1 DEF With, ComputeStart, ComputeEnd
  <2>5. m \in batch'[m]
    BY <1>1
  <2> QED
    BY <2>2, <2>4, <2>5 DEF Executes
<1>9. \A m \in Members : Right(m)'
  BY <1>6, <1>8 DEF Right, Kept
<1>10. ASSUME NEW m \in g, NEW n \in Members \ g, Sound(n), ComputeStart \in DOMAIN ts[n]
       PROVE  EndsBefore(n, m)'
  <2>1. Timed(n)
    BY <1>t, <1>10 DEF Right
  <2>2. pc[n] \in SharedPoints \ {"lost", "refused", "computing"}
    BY <1>t, <1>1, <1>10 DEF Sound, Points, SharedPoints
  <2>3. ComputeEnd \in DOMAIN ts[n]
    BY <1>t, <1>10, <2>1, <2>2, ExecutionPoints DEF Timed
  <2>4. ts[n][ComputeEnd] <= now
    BY <1>t, <2>3 DEF Clocked
  <2>5. ts'[m][ComputeStart] = now /\ ts'[n] = ts[n]
    BY <1>4 DEF With
  <2> QED
    BY <2>3, <2>4, <2>5 DEF EndsBefore
<1>11. ASSUME NEW m \in Members, NEW n \in Members, Sound(m)', Sound(n)' PROVE Exclusive(m, n)'
  <2>1. CASE m \in g /\ n \in g
    <3>1. batch'[m] = batch'[n]
      BY <1>1, <2>1
    <3> QED
      BY <3>1 DEF Exclusive
  <2>2. CASE m \in g /\ n \notin g
    <3>1. ts'[n] = ts[n] /\ Sound(n)
      BY <1>4, <1>5, <1>11, <2>2
    <3> QED
      BY <1>10, <2>2, <3>1 DEF Exclusive
  <2>3. CASE m \notin g /\ n \in g
    <3>1. ts'[m] = ts[m] /\ Sound(m)
      BY <1>4, <1>5, <1>11, <2>3
    <3> QED
      BY <1>10, <2>3, <3>1 DEF Exclusive
  <2>4. CASE m \notin g /\ n \notin g
    <3>1. SameWindow(m) /\ SameWindow(n) /\ Exclusive(m, n)
      BY <1>t, <1>5, <1>6, <1>11, <2>4 DEF Kept
    <3> QED
      BY <3>1, ExclusiveKept
  <2> QED
    BY <2>1, <2>2, <2>3, <2>4
<1> QED
  BY <1>9, <1>11

\* An execution ends later than it began, and nothing that was over before it began
\* is disturbed.
LEMMA CompletesKeeps ==
  ASSUME IInv, NEW g \in SUBSET Members, Completes(g)
  PROVE  /\ \A m \in Members : Right(m)'
         /\ \A m, n \in Members : Sound(m)' /\ Sound(n)' => Exclusive(m, n)'
<1>t. /\ TypeOK /\ cell \in ImplementedCells /\ pc \in [Members -> Points]
      /\ \A m \in Members : Right(m)
      /\ \A m, n \in Members : Sound(m) /\ Sound(n) => Exclusive(m, n)
      /\ now \in Nat /\ \A m \in Members : Clocked(ts[m], now)
  BY DEF IInv, TypeOK
<1>1. /\ \A m \in g : batch[m] = g /\ ts[m][ComputeStart] < now
      /\ Step(g, "computing", ComputeEnd, "computed")
      /\ UNCHANGED <<batch, failed, status>>
  BY DEF Completes
<1>2. "computed" \in Points
  BY PointsNamed DEF DirectPoints
<1>3. Moved(g, "computing", ComputeEnd, "computed")
  BY <1>t, <1>1, <1>2, StepEffect, StagesNamed
<1>4. /\ \A m \in g : pc[m] = "computing" /\ pc'[m] = "computed" /\ ts'[m] = With(ts[m], ComputeEnd, now)
      /\ \A m \in Members \ g : pc'[m] = pc[m] /\ ts'[m] = ts[m]
      /\ cell' = cell
  BY <1>3 DEF Moved
<1>5. \A m \in Members : Sound(m)' => Sound(m)
  BY <1>1, <1>4 DEF Sound
<1>6. \A m \in Members \ g : Kept(m)
  BY <1>t, <1>1, <1>4, UntouchedIsKept
<1>7. Leg("computing", ComputeEnd, "computed")
  BY <1>t, Legs
<1>8. ASSUME NEW m \in g, Sound(m)' PROVE Timed(m)' /\ Ordered(m)' /\ Executes(m)'
  <2>1. Timed(m) /\ Ordered(m) /\ Executes(m)
    BY <1>t, <1>5, <1>8 DEF Right
  <2>2. Timed(m)' /\ Ordered(m)'
    BY <1>t, <1>2, <1>4, <1>7, <2>1, TakenInOrder, StagesNamed
  <2>3. Executes(m)'
    <3>1. ts'[m] = With(ts[m], ComputeEnd, now) /\ batch'[m] = batch[m] /\ ts[m][ComputeStart] < now
      BY <1>1, <1>4
    <3> QED
      BY ONLY <2>1, <3>1 DEF Executes, With, ComputeStart, ComputeEnd
  <2> QED
    BY <2>2, <2>3
<1>9. \A m \in Members : Right(m)'
  BY <1>6, <1>8 DEF Right, Kept
<1>10. ASSUME NEW m \in Members, NEW n \in Members, Sound(m), Sound(n), m \in g
       PROVE  ~EndsBefore(m, n)
  <2>1. Timed(m)
    BY <1>t, <1>10 DEF Right
  <2>2. ComputeEnd \notin DOMAIN ts[m]
    BY <1>t, <1>4, <1>10, <2>1, ExecutionPoints DEF Timed
  <2> QED
    BY <2>2 DEF EndsBefore
<1>11. \A m \in Members : /\ ComputeStart \in DOMAIN ts'[m] <=> ComputeStart \in DOMAIN ts[m]
                          /\ ComputeStart \in DOMAIN ts[m] => ts'[m][ComputeStart] = ts[m][ComputeStart]
  <2> TAKE m \in Members
  <2>1. CASE m \in g
    <3>1. ts'[m] = With(ts[m], ComputeEnd, now)
      BY <1>4, <2>1
    <3> QED
      BY ONLY <3>1 DEF With, ComputeStart, ComputeEnd
  <2>2. CASE m \notin g
    BY <1>4, <2>2
  <2> QED
    BY <2>1, <2>2
<1>12. ASSUME NEW m \in Members, NEW n \in Members, Sound(m), Sound(n), EndsBefore(m, n),
              ComputeStart \in DOMAIN ts[n]
       PROVE  EndsBefore(m, n)'
  <2>1. m \notin g
    BY <1>10, <1>12
  <2>2. ts'[m] = ts[m]
    BY <1>4, <2>1
  <2> QED
    BY <1>11, <1>12, <2>2 DEF EndsBefore
<1>13. ASSUME NEW m \in Members, NEW n \in Members, Sound(m)', Sound(n)' PROVE Exclusive(m, n)'
  <2>1. Sound(m) /\ Sound(n) /\ Exclusive(m, n)
    BY <1>t, <1>5, <1>13
  <2>2. batch'[m] = batch[m] /\ batch'[n] = batch[n]
    BY <1>1
  <2> QED
    BY <1>11, <1>12, <2>1, <2>2 DEF Exclusive
<1> QED
  BY <1>9, <1>13

-----------------------------------------------------------------------------
(* The envelope, and the verdict.                                          *)

\* A member's instants that are read for a whole envelope are as they were.
SameShared(m) ==
  \A s \in EnvelopeStages :
    /\ s \in DOMAIN ts'[m] <=> s \in DOMAIN ts[m]
    /\ s \in DOMAIN ts[m] => ts'[m][s] = ts[m][s]

\* Members whose shared instants are as they were agree as they did.
LEMMA SharedKept ==
  ASSUME Agreeing, cell' = cell, \A m \in Members : SameShared(m)
  PROVE  Agreeing'
BY DEF Agreeing, SameShared, AggregatesEnvelopes

\* A member that takes a stage of its own does not touch those of its envelope.
LEMMA OwnStageKeeps ==
  ASSUME Agreeing, cell' = cell, NEW group \in SUBSET Members, NEW stage \in Stages \ EnvelopeStages,
         \A m \in group : ts'[m] = With(ts[m], stage, now), \A m \in Members \ group : ts'[m] = ts[m]
  PROVE  Agreeing'
<1>1. ASSUME NEW m \in Members PROVE SameShared(m)
  <2>1. CASE m \in group
    <3>1. ts'[m] = With(ts[m], stage, now)
      BY <2>1
    <3> QED
      BY <3>1 DEF SameShared, With
  <2>2. CASE m \notin group
    BY <2>2 DEF SameShared
  <2> QED
    BY <2>1, <2>2
<1> QED
  BY <1>1, SharedKept

\* One reading of the clock for everybody is the same for everybody.
LEMMA CommonReadingAgrees ==
  ASSUME Agreeing, cell' = cell, NEW stage \in Stages,
         \A m \in Members : ts'[m] = With(ts[m], stage, now)
  PROVE  Agreeing'
<1>1. SUFFICES ASSUME AggregatesEnvelopes(cell), NEW s \in EnvelopeStages, NEW m \in Members, NEW n \in Members,
                      s \in DOMAIN ts'[m]
               PROVE  s \in DOMAIN ts'[n] /\ ts'[m][s] = ts'[n][s]
  BY DEF Agreeing, AggregatesEnvelopes
<1>2. s \in DOMAIN ts[m] => s \in DOMAIN ts[n] /\ ts[m][s] = ts[n][s]
  BY <1>1 DEF Agreeing
<1>3. ts'[m] = With(ts[m], stage, now) /\ ts'[n] = With(ts[n], stage, now)
  OBVIOUS
<1> QED
  BY <1>1, <1>2, <1>3 DEF With

\* No step makes the members of an envelope disagree on what is read for it.
LEMMA NextKeepsAgreeing ==
  ASSUME TypeOK, Agreeing, Next
  PROVE  Agreeing'
<1>t. cell \in ImplementedCells /\ pc \in [Members -> Points] /\ (AggregatesEnvelopes(cell) <=> cell = "F10")
  BY PlaceValues DEF TypeOK
<1>c. cell' = cell
  BY DEF Next, Tick, BarrierReleases, Seals, FormationFails, Judges, Sends, Lost, ReachesProxy, FansOut,
         ClientReceives, Receives, Dispatches, SubmitReturns, DirectReturns, Enqueues, ProxySends,
         ProxyReceives, EnvelopeFails, AdapterReceives, AdapterSends, Computes, Completes, Step
<1>n. cell # "F10" => Agreeing'
  BY <1>t, <1>c DEF Agreeing
<1> SUFFICES ASSUME cell = "F10" PROVE Agreeing'
  BY <1>n
<1>p. Points = SharedPoints
  BY PointsNamed
<1>1. ASSUME UNCHANGED ts PROVE Agreeing'
  <2>1. \A m \in Members : SameShared(m)
    BY <1>1 DEF SameShared
  <2> QED
    BY <1>c, <2>1, SharedKept
<1>2. ASSUME NEW g \in SUBSET Members, NEW from, NEW stage \in Stages \ EnvelopeStages, NEW to \in SharedPoints,
             Step(g, from, stage, to)
      PROVE  Agreeing'
  <2>1. Moved(g, from, stage, to)
    BY <1>2, <1>p, StepEffect
  <2>2. /\ \A m \in g : ts'[m] = With(ts[m], stage, now)
        /\ \A m \in Members \ g : ts'[m] = ts[m]
    BY <2>1 DEF Moved
  <2> QED
    BY <1>c, <2>2, OwnStageKeeps
<1>3. ASSUME NEW from, NEW stage \in Stages, NEW to \in SharedPoints, Step(Members, from, stage, to)
      PROVE  Agreeing'
  <2>1. Moved(Members, from, stage, to)
    BY <1>3, <1>p, StepEffect
  <2>2. \A m \in Members : ts'[m] = With(ts[m], stage, now)
    BY <2>1 DEF Moved
  <2> QED
    BY <1>c, <2>2, CommonReadingAgrees
<1>o. {Sched, ClientSend, ProxyRecv, AdapterDispatch, QueueStart, ComputeStart, ComputeEnd, AdapterResult,
       ProxyFanout, ClientRecv} \subseteq Stages \ EnvelopeStages
  BY DEF Stages, EnvelopeStages, Sched, ClientSend, ProxyRecv, CohortSeal, ProxySend, AdapterRecv,
         AdapterDispatch, QueueStart, ComputeStart, ComputeEnd, AdapterResult, AdapterSend, ProxyRespRecv,
         ProxyFanout, ClientRecv
<1>e. Envelopes \subseteq {Members}
  BY GroupsAreMembers
<1>4. CASE Tick \/ BarrierReleases \/ FormationFails \/ Judges
  <2>1. SealOwner(cell) # "loadgen"
    BY <1>t, PlaceValues
  <2> QED
    BY <1>1, <1>4, <2>1 DEF Tick, BarrierReleases, FormationFails, Judges
<1>5. CASE Seals
  BY <1>3, <1>5, StagesNamed DEF Seals, SharedPoints
<1>6. ASSUME NEW m \in Members, Lost(m) \/ DirectReturns(m) PROVE Agreeing'
  BY <1>1, <1>6 DEF Lost, DirectReturns
<1>7. ASSUME NEW m \in Members,
             Sends(m) \/ ReachesProxy(m) \/ FansOut(m) \/ Dispatches(m) \/ SubmitReturns(m) \/ Enqueues(m)
      PROVE  Agreeing'
  <2>1. {m} \in SUBSET Members
    OBVIOUS
  <2>2. CASE Sends(m)
    BY <1>2, <1>o, <2>1, <2>2 DEF Sends, SharedPoints, DirectPoints
  <2>3. CASE ReachesProxy(m)
    <3>1. PICK to \in {"held", "refused"} : Step({m}, "sent", ProxyRecv, to)
      BY <2>3 DEF ReachesProxy
    <3>2. to \in SharedPoints
      BY DEF SharedPoints
    <3> QED
      BY <1>2, <1>o, <2>1, <3>1, <3>2
  <2>4. CASE FansOut(m)
    BY <1>2, <1>o, <2>1, <2>4 DEF FansOut, SharedPoints, DirectPoints
  <2>5. CASE Dispatches(m)
    BY <1>2, <1>o, <2>1, <2>5 DEF Dispatches, SharedPoints
  <2>6. CASE SubmitReturns(m)
    <3>1. Step({m}, pc[m], AdapterResult, "returned")
      BY <2>6 DEF SubmitReturns
    <3>2. "returned" \in SharedPoints
      BY DEF SharedPoints
    <3>3. Moved({m}, pc[m], AdapterResult, "returned")
      BY <1>o, <1>p, <2>1, <3>1, <3>2, StepEffect
    <3>4. /\ \A n \in {m} : ts'[n] = With(ts[n], AdapterResult, now)
          /\ \A n \in Members \ {m} : ts'[n] = ts[n]
      BY <3>3 DEF Moved
    <3> QED
      BY <1>c, <1>o, <2>1, <3>4, OwnStageKeeps
  <2>7. CASE Enqueues(m)
    <3>1. Step({m}, "dispatched", QueueStart, "queued")
      BY <2>7 DEF Enqueues
    <3> QED
      BY <1>2, <1>o, <2>1, <3>1 DEF SharedPoints, DirectPoints
  <2> QED
    BY <1>7, <2>2, <2>3, <2>4, <2>5, <2>6, <2>7
<1>8. ASSUME NEW m \in Members, ClientReceives(m) PROVE Agreeing'
  <2>1. PICK from \in {"answered", "refused", "lost"} : Step({m}, from, ClientRecv, "recorded")
    BY <1>8 DEF ClientReceives, Receives
  <2> QED
    BY <1>2, <1>o, <2>1 DEF SharedPoints, DirectPoints
<1>9. ASSUME NEW g \in Envelopes, \/ ProxySends(g) \/ ProxyReceives(g) \/ EnvelopeFails(g)
                                  \/ AdapterReceives(g) \/ AdapterSends(g)
      PROVE  Agreeing'
  <2>1. g = Members
    BY <1>e
  <2>2. PICK leg \in {<<"sealed", ProxySend, "enveloped">>, <<"held", ProxySend, "enveloped">>,
                      <<"responded", ProxyRespRecv, "returning">>, <<"enveloped", AdapterRecv, "unpacked">>,
                      <<"returned", AdapterSend, "responded">>, <<"enveloped", ProxyRespRecv, "returning">>} :
          Step(Members, leg[1], leg[2], leg[3])
    BY <1>9, <2>1 DEF ProxySends, ProxyReceives, EnvelopeFails, AdapterReceives, AdapterSends
  <2>3. leg[2] \in Stages /\ leg[3] \in SharedPoints
    BY StagesNamed DEF SharedPoints
  <2> QED
    BY <1>3, <2>2, <2>3
<1>10. ASSUME NEW g \in (SUBSET Members) \ {{}}, Computes(g) \/ Completes(g) PROVE Agreeing'
  BY <1>2, <1>10, <1>o DEF Computes, Completes, SharedPoints, DirectPoints
<1> QED
  BY <1>4, <1>5, <1>6, <1>7, <1>8, <1>9, <1>10 DEF Next

\* When everybody is recorded and judged, the clock is all that still moves.
LEMMA OnlyTheClock ==
  ASSUME TypeOK, Done, All(Members, "recorded"), Next
  PROVE  Tick
<1>1. \A m \in Members : pc[m] = "recorded"
  BY DEF All
<1>2. ~BarrierReleases /\ ~Seals /\ ~FormationFails /\ ~Judges
  BY <1>1, MembersFacts DEF BarrierReleases, Seals, FormationFails, Judges, Step, All, Done
<1>3. ASSUME NEW m \in Members
      PROVE  ~(\/ Sends(m) \/ Lost(m) \/ ReachesProxy(m) \/ FansOut(m) \/ ClientReceives(m)
               \/ Dispatches(m) \/ SubmitReturns(m) \/ DirectReturns(m) \/ Enqueues(m))
  BY <1>1 DEF Sends, Lost, ReachesProxy, FansOut, ClientReceives, Receives, Dispatches, SubmitReturns,
              DirectReturns, Enqueues, Step, All
<1>4. ASSUME NEW g \in Envelopes
      PROVE  ~(\/ ProxySends(g) \/ ProxyReceives(g) \/ EnvelopeFails(g) \/ AdapterReceives(g)
               \/ AdapterSends(g))
  <2>1. PICK m \in g : pc[m] = "recorded"
    BY <1>1, GroupsAreMembers
  <2> QED
    BY <2>1 DEF ProxySends, ProxyReceives, EnvelopeFails, AdapterReceives, AdapterSends, Step, All
<1>5. ASSUME NEW g \in (SUBSET Members) \ {{}} PROVE ~(Computes(g) \/ Completes(g))
  <2>0. g \subseteq Members /\ g # {}
    OBVIOUS
  <2>1. g \subseteq Members /\ \E m \in g : TRUE
    BY <2>0
  <2>2. PICK m \in g : pc[m] = "recorded"
    BY <1>1, <2>1
  <2> QED
    BY <2>2 DEF Computes, Completes, Step, All
<1> QED
  BY <1>2, <1>3, <1>4, <1>5 DEF Next

\* The records are those of the run, whatever the clock and the validator do.
LEMMA RecordsStay ==
  ASSUME UNCHANGED <<cell, ts, batch, failed, status>>
  PROVE  /\ Records(InOrder)' = Records(InOrder)
         /\ Expected' = Expected
<1>1. /\ \A m, stages : Keeping(m, stages)' = Keeping(m, stages)
      /\ \A m : Envelope(m)' = Envelope(m)
  BY DEF Keeping, Envelope
<1>2. \A e, m, stages, outcome : Record(e, m, stages, outcome)' = Record(e, m, stages, outcome)
  BY <1>1 DEF Record
<1>3. \A m : LoadGenRecord(m)' = LoadGenRecord(m)
  BY <1>2 DEF LoadGenRecord
<1>4. \A m : ProxyRecord(m)' = ProxyRecord(m)
  BY <1>1, <1>2 DEF ProxyRecord, Travelled
<1>5. \A g : DispatchSkew(g)' = DispatchSkew(g)
  BY DEF DispatchSkew
<1>6. \A m : AdapterRecord(m)' = AdapterRecord(m)
  BY <1>1, <1>2, <1>5 DEF AdapterRecord
<1>7. \A m : TritonRecord(m)' = TritonRecord(m)
  BY <1>2 DEF TritonRecord
<1>8. \A e, m : Writes(e, m)' = Writes(e, m) /\ Written(e, m)' = Written(e, m)
  BY <1>3, <1>4, <1>6, <1>7 DEF Writes, Written
<1>9. \A e : Stream(e)' = Stream(e)
  BY <1>8 DEF Stream
<1>10. Records(InOrder)' = Records(InOrder)
  BY <1>9 DEF Records
<1>11. Executed' = Executed
  BY DEF Executed
<1>12. Expected' = Expected
  BY <1>11 DEF Expected
<1> QED
  BY <1>10, <1>12

-----------------------------------------------------------------------------
(* The invariant holds.                                                    *)

\* The invariant holds at the start.
LEMMA InitEstablishes ==
  ASSUME Init
  PROVE  IInv
<1>1. /\ cell \in ImplementedCells /\ now = 1 /\ pc = [m \in Members |-> "barrier"]
      /\ ts = [m \in Members |-> [s \in {Sched} |-> 1]] /\ batch = [m \in Members |-> {}]
      /\ failed = {} /\ status = [m \in Members |-> None] /\ defects = None
  BY DEF Init
<1>2. "barrier" \in Points
  BY PointsNamed DEF DirectPoints
<1>3. \A m \in Members : DOMAIN ts[m] = {1} /\ ts[m][1] = 1
  BY <1>1 DEF Sched
<1>4. TypeOK
  <2>1. \A m \in Members : Clocked(ts[m], now)
    BY <1>1, <1>3 DEF Clocked, Stages
  <2> QED
    BY <1>1, <1>2, <2>1 DEF TypeOK
<1>5. Agreeing
  BY <1>3 DEF Agreeing
<1>6. JudgedHonestly
  BY <1>1 DEF JudgedHonestly, Done
<1>7. \A m \in Members : Fate(m)
  BY <1>1, NoneIsNoStatus DEF Fate
<1>8. Passed("barrier") = {1}
  <2>1. /\ \A s \in Stages : Place(s) = IF s = 4 /\ cell # "F10" THEN 3 ELSE 2 * s
        /\ TopologyMask(cell) = IF cell = "D0" THEN {1, 2, 15, 4, 8, 9, 10} ELSE 1 .. 15
    BY <1>1, PlaceValues
  <2> QED
    BY <2>1, ReachedValues DEF Passed, Stages
<1>9. \A m \in Members : Timed(m) /\ Ordered(m) /\ Executes(m)
  BY <1>1, <1>3, <1>8 DEF Timed, Ordered, Executes, ComputeStart
<1>10. \A m, n \in Members : Exclusive(m, n)
  BY <1>3 DEF Exclusive, ComputeStart
<1> QED
  BY <1>4, <1>5, <1>6, <1>7, <1>9, <1>10 DEF IInv, Right

\* Every step keeps it.
LEMMA NextKeeps ==
  ASSUME IInv, Next
  PROVE  IInv'
<1>t. /\ TypeOK /\ Agreeing /\ JudgedHonestly /\ \A m \in Members : Fate(m)
      /\ \A m \in Members : Right(m)
      /\ \A m, n \in Members : Sound(m) /\ Sound(n) => Exclusive(m, n)
  BY DEF IInv
<1>1. TypeOK' /\ \A m \in Members : Fate(m)'
  BY <1>t, NextKeepsTypes
<1>2. Agreeing'
  BY <1>t, NextKeepsAgreeing
<1>3. JudgedHonestly'
  <2>1. CASE Done
    <3>1. All(Members, "recorded") /\ joined = Join(Records(InOrder)) /\ defects = Validate(Expected, joined)
      BY <1>t, <2>1 DEF JudgedHonestly
    <3>2. UNCHANGED <<cell, pc, ts, batch, failed, status, joined, defects>>
      BY <1>t, <2>1, <3>1, OnlyTheClock DEF Tick
    <3>3. Records(InOrder)' = Records(InOrder) /\ Expected' = Expected
      BY <3>2, RecordsStay
    <3> QED
      BY <3>1, <3>2, <3>3 DEF JudgedHonestly, All
  <2>2. CASE Judges
    <3>1. /\ All(Members, "recorded") /\ joined' = Join(Records(InOrder)) /\ defects' = Validate(Expected, joined')
          /\ UNCHANGED <<cell, now, pc, ts, batch, failed, status>>
      BY <2>2 DEF Judges
    <3>2. Records(InOrder)' = Records(InOrder) /\ Expected' = Expected
      BY <3>1, RecordsStay
    <3> QED
      BY <3>1, <3>2 DEF JudgedHonestly, All
  <2>3. CASE ~Done /\ ~Judges
    <3>1. defects' = defects
      BY <2>3 DEF Next, Tick, BarrierReleases, Seals, FormationFails, Sends, Lost, ReachesProxy, FansOut,
         ClientReceives, Receives, Dispatches, SubmitReturns, DirectReturns, Enqueues, ProxySends,
         ProxyReceives, EnvelopeFails, AdapterReceives, AdapterSends, Computes, Completes, Step
    <3> QED
      BY <2>3, <3>1 DEF JudgedHonestly, Done
  <2> QED
    BY <2>1, <2>2, <2>3
<1>4. CASE ~\E g \in (SUBSET Members) \ {{}} : Computes(g) \/ Completes(g)
  <2>1. \A m \in Members : Kept(m)
    BY <1>t, <1>4, OthersKeep
  <2>2. \A m \in Members : Right(m)'
    BY <2>1 DEF Kept
  <2>3. ASSUME NEW m \in Members, NEW n \in Members, Sound(m)', Sound(n)' PROVE Exclusive(m, n)'
    BY <1>t, <2>1, <2>3, ExclusiveKept DEF Kept
  <2> QED
    BY <1>1, <1>2, <1>3, <2>2, <2>3 DEF IInv
<1>5. ASSUME NEW g \in (SUBSET Members) \ {{}}, Computes(g) \/ Completes(g) PROVE IInv'
  <2>1. /\ \A m \in Members : Right(m)'
        /\ \A m, n \in Members : Sound(m)' /\ Sound(n)' => Exclusive(m, n)'
    BY <1>5, ComputesKeeps, CompletesKeeps
  <2> QED
    BY <1>1, <1>2, <1>3, <2>1 DEF IInv
<1> QED
  BY <1>4, <1>5

\* A step that changes nothing changes no part of it.
LEMMA StutterKeeps ==
  ASSUME IInv, UNCHANGED vars
  PROVE  IInv'
<1>t. /\ TypeOK /\ Agreeing /\ JudgedHonestly /\ \A m \in Members : Fate(m)
      /\ \A m \in Members : Right(m)
      /\ \A m, n \in Members : Sound(m) /\ Sound(n) => Exclusive(m, n)
  BY DEF IInv
<1>1. UNCHANGED <<cell, now, pc, ts, batch, failed, status, joined, defects>>
  BY DEF vars
<1>2. TypeOK' /\ \A m \in Members : Fate(m)'
  BY <1>t, <1>1 DEF TypeOK, Points, Fate
<1>3. Agreeing'
  BY <1>t, <1>1, SharedKept DEF SameShared
<1>4. JudgedHonestly'
  BY <1>t, <1>1, RecordsStay DEF JudgedHonestly, Done, All
<1>5. \A m \in Members : Kept(m)
  BY <1>t, <1>1, UntouchedIsKept
<1>6. \A m \in Members : Right(m)'
  BY <1>5 DEF Kept
<1>7. \A m, n \in Members : Sound(m)' /\ Sound(n)' => Exclusive(m, n)'
  BY <1>t, <1>5, ExclusiveKept DEF Kept
<1> QED
  BY <1>2, <1>3, <1>4, <1>6, <1>7 DEF IInv

\* In every state of an honest run: as long as nothing happened to it, a member has
\* exactly the instants of the topology up to the point it is at, in the order of
\* the chain; no two executions share the instance; and the verdict is the one on
\* the records the processes left.
THEOREM InvariantHolds == Spec => []IInv
<1>1. Init => IInv
  BY InitEstablishes
<1>2. IInv /\ [Next]_vars => IInv'
  BY NextKeeps, StutterKeeps
<1> QED
  BY <1>1, <1>2, PTL DEF Spec

-----------------------------------------------------------------------------
(* What the streams list.                                                  *)

\* A bounded nonempty set of naturals has a greatest and a least member.
LEMMA BoundsAreMembers ==
  ASSUME NEW S \in SUBSET Nat, S # {}, NEW bound \in Nat, \A i \in S : i <= bound
  PROVE  /\ Max(S) \in S /\ \A i \in S : i <= Max(S)
         /\ Min(S) \in S /\ \A i \in S : Min(S) <= i
<1> DEFINE Below == {p \in Nat \X Nat : p[1] < p[2]}
<1>1. IsWellFoundedOn(Below, Nat)
  BY NatLessThanWellFounded DEF OpToRel
<1> HIDE DEF Below
<1>2. ASSUME NEW T \in SUBSET Nat, T # {} PROVE \E n \in T : \A m \in T : n <= m
  <2>1. PICK n \in T : \A m \in T : <<m, n>> \notin Below
    BY <1>1, <1>2, WFMin
  <2>2. \A m \in T : m < n => <<m, n>> \in Below
    BY DEF Below
  <2>3. \A m \in T : ~(m < n)
    BY <2>1, <2>2
  <2>4. \A m \in T : n <= m
    BY <2>3
  <2> QED
    BY <2>4
<1>3. \E n \in S : \A m \in S : n <= m
  BY <1>2
<1>4. \E n \in S : \A m \in S : n >= m
  <2> DEFINE T == {bound - i : i \in S}
  <2>1. T \in SUBSET Nat /\ T # {}
    <3>1. \A i \in S : bound - i \in Nat
      OBVIOUS
    <3>2. PICK i \in S : TRUE
      OBVIOUS
    <3> QED
      BY <3>1, <3>2
  <2>2. PICK t \in T : \A u \in T : t <= u
    BY <1>2, <2>1
  <2>3. PICK n \in S : t = bound - n
    OBVIOUS
  <2>4. ASSUME NEW m \in S PROVE n >= m
    <3>1. bound - n <= bound - m
      BY <2>2, <2>3
    <3> QED
      BY <3>1
  <2> QED
    BY <2>4
<1>5. Max(S) \in S /\ \A i \in S : Max(S) >= i
  BY <1>4, Zenon DEF Max
<1>6. Min(S) \in S /\ \A i \in S : Min(S) <= i
  BY <1>3, Zenon DEF Min
<1> QED
  BY <1>5, <1>6

\* Every finite set can be listed, each of its members once.
LEMMA SetIsListed ==
  ASSUME NEW S, IsFiniteSet(S)
  PROVE  /\ SetToSeq(S) \in [1 .. Cardinality(S) -> S] /\ Cardinality(S) \in Nat
         /\ \A a, b \in 1 .. Cardinality(S) : SetToSeq(S)[a] = SetToSeq(S)[b] => a = b
         /\ \A x \in S : \E a \in 1 .. Cardinality(S) : SetToSeq(S)[a] = x
<1> DEFINE n == Cardinality(S)
<1>1. n \in Nat /\ \E f \in [1 .. n -> S] : IsInjective(f)
  BY FS_CardinalityType DEF ExistsBijection, Bijection, Injection
<1>2. SetToSeq(S) \in [1 .. n -> S] /\ IsInjective(SetToSeq(S))
  BY <1>1 DEF SetToSeq
<1>3. PICK f : f = SetToSeq(S)
  OBVIOUS
<1>4. f \in Injection(1 .. n, S)
  BY <1>2, <1>3 DEF Injection
<1>5. IsFiniteSet(1 .. n) /\ Cardinality(1 .. n) = n
  BY <1>1, FS_Interval
<1>6. f \in Surjection(1 .. n, S)
  BY <1>4, <1>5, FS_Injection
<1>7. \A x \in S : \E a \in 1 .. n : f[a] = x
  BY <1>6 DEF Surjection
<1> QED
  BY <1>1, <1>2, <1>3, <1>7 DEF IsInjective

\* What the processes can leave.
Everything == UNION {{Written(e, m) : m \in Members} : e \in Emitters}

\* The records a sequence lists: each of those that these processes left, once.
Listing(records, emitters) ==
  /\ records \in Seq(Everything)
  /\ \A i \in DOMAIN records :
       /\ records[i].emitter \in emitters /\ records[i].member \in Members
       /\ Writes(records[i].emitter, records[i].member)
       /\ records[i] = Written(records[i].emitter, records[i].member)
  /\ \A i, k \in DOMAIN records :
       records[i].emitter = records[k].emitter /\ records[i].member = records[k].member => i = k
  /\ \A e \in emitters, m \in Members : Writes(e, m) => \E i \in DOMAIN records : records[i] = Written(e, m)

\* The stages a process can tell of, and the process that tells of a stage.
Told(emitter) == OwnStages(emitter) \cup (IF SealOwner(cell) = emitter THEN {CohortSeal} ELSE {})

\* What is in a record, whichever process left it.
Faithful(w, e, m) ==
  /\ w.emitter = e /\ w.member = m /\ w.domain = "boot" /\ w.version = 1
  /\ DOMAIN w.stages \subseteq Told(e) \cap DOMAIN ts[m]
  /\ \A s \in DOMAIN w.stages : w.stages[s] = ts[m][s]
  /\ w.membership # {} => w.membership = batch[m]
  /\ w.claimed = Cardinality(w.membership) /\ w.batchSize = Cardinality(w.membership)
  /\ w.envelope # None => w.envelope = Envelope(m)
  /\ w.dispatch # None => e = "adapter"
  /\ w.status \in {"ok", "error", "timeout", None}

\* A record a process writes is faithful: it tells what the process saw, and no more.
LEMMA WrittenIsFaithful ==
  ASSUME TypeOK, NEW e \in Emitters, NEW m \in Members
  PROVE  Faithful(Written(e, m), e, m)
<1> DEFINE plain(stages, outcome) == Record(e, m, stages, outcome)
<1>s. status[m] \in {"ok", "error", "timeout", None}
  BY DEF TypeOK
<1>1. ASSUME NEW stages, NEW outcome \in {"ok", "error", "timeout", None}, stages \subseteq Told(e)
      PROVE  Faithful(plain(stages, outcome), e, m)
  <2>1. plain(stages, outcome) =
          [emitter |-> e, member |-> m, stages |-> Keeping(m, stages), status |-> outcome,
           domain |-> "boot", version |-> 1, membership |-> {}, claimed |-> 0, batchSize |-> 0,
           envelope |-> None, dispatch |-> None]
    BY DEF Record
  <2>2. DOMAIN Keeping(m, stages) = stages \cap DOMAIN ts[m] /\ \A s \in DOMAIN Keeping(m, stages) : Keeping(m, stages)[s] = ts[m][s]
    BY DEF Keeping
  <2>3. Cardinality({}) = 0
    BY FS_EmptySet
  <2>4. DOMAIN Keeping(m, stages) \subseteq Told(e) \cap DOMAIN ts[m]
    BY <1>1, <2>2
  <2> HIDE DEF plain
  <2> QED
    BY <1>1, <2>1, <2>2, <2>3, <2>4 DEF Faithful
<1>2. ASSUME NEW w, Faithful(w, e, m), NEW set \in {{}, batch[m]},
             DOMAIN w = {"emitter", "member", "stages", "status", "domain", "version", "membership", "claimed",
                         "batchSize", "envelope", "dispatch"}
      PROVE  Faithful(Attesting(w, set), e, m)
  <2>1. PICK v : v = Attesting(w, set)
    OBVIOUS
  <2>2. v = [w EXCEPT !.membership = set, !.claimed = Cardinality(set), !.batchSize = Cardinality(set)]
    BY <2>1 DEF Attesting
  <2>3. /\ v.membership = set /\ v.claimed = Cardinality(set) /\ v.batchSize = Cardinality(set)
        /\ v.emitter = w.emitter /\ v.member = w.member /\ v.domain = w.domain /\ v.version = w.version
        /\ v.stages = w.stages /\ v.envelope = w.envelope /\ v.dispatch = w.dispatch /\ v.status = w.status
    BY <1>2, <2>2
  <2>4. Faithful(v, e, m)
    BY <1>2, <2>3 DEF Faithful
  <2> QED
    BY <2>1, <2>4
<1>3. \A stages, outcome : DOMAIN plain(stages, outcome) =
        {"emitter", "member", "stages", "status", "domain", "version", "membership", "claimed", "batchSize",
         "envelope", "dispatch"}
  BY DEF Record
<1>4. CASE e = "loadgen"
  <2>1. Written(e, m) = LoadGenRecord(m)
    BY <1>4 DEF Written
  <2> DEFINE stages == {Sched, ClientSend, ClientRecv} \cup (IF SealOwner(cell) = "loadgen" THEN {CohortSeal} ELSE {})
             set == IF status[m] = "ok" THEN batch[m] ELSE {}
  <2>2. LoadGenRecord(m) = Attesting(plain(stages, status[m]), set)
    BY <1>4 DEF LoadGenRecord
  <2>3. stages \subseteq Told(e)
    BY <1>4 DEF Told, OwnStages
  <2>4. Faithful(plain(stages, status[m]), e, m)
    BY <1>1, <1>s, <2>3
  <2>5. set \in {{}, batch[m]}
    OBVIOUS
  <2> HIDE DEF plain, stages, set
  <2> QED
    BY <1>2, <1>3, <2>1, <2>2, <2>4, <2>5
<1>5. CASE e = "triton"
  <2>1. Written(e, m) = plain({QueueStart, ComputeStart, ComputeEnd}, status[m])
    BY <1>5 DEF Written, TritonRecord
  <2>2. {QueueStart, ComputeStart, ComputeEnd} \subseteq Told(e)
    BY <1>5 DEF Told, OwnStages
  <2> HIDE DEF plain
  <2> QED
    BY <1>1, <1>s, <2>1, <2>2
<1>6. CASE e = "proxy"
  <2>1. Written(e, m) = ProxyRecord(m)
    BY <1>6 DEF Written
  <2> DEFINE stages == {ProxyRecv, ProxySend, ProxyRespRecv, ProxyFanout}
                         \cup (IF SealOwner(cell) = "proxy" THEN {CohortSeal} ELSE {})
             outcome == IF m \in failed THEN "error" ELSE "ok"
  <2>2. ProxyRecord(m) = IF Travelled(m) THEN [plain(stages, outcome) EXCEPT !.envelope = Envelope(m)]
                         ELSE plain({ProxyRecv}, "error")
    BY <1>6 DEF ProxyRecord
  <2>3. stages \subseteq Told(e) /\ {ProxyRecv} \subseteq Told(e)
    BY <1>6 DEF Told, OwnStages
  <2>4. Faithful(plain(stages, outcome), e, m) /\ Faithful(plain({ProxyRecv}, "error"), e, m)
    BY <1>1, <2>3
  <2> HIDE DEF plain, stages, outcome
  <2>5. PICK w : w = plain(stages, outcome)
    OBVIOUS
  <2>6. PICK v : v = [w EXCEPT !.envelope = Envelope(m)]
    OBVIOUS
  <2>d. DOMAIN w = {"emitter", "member", "stages", "status", "domain", "version", "membership", "claimed", "batchSize",
                    "envelope", "dispatch"}
    BY <1>3, <2>5
  <2>7. /\ v.envelope = Envelope(m)
        /\ v.emitter = w.emitter /\ v.member = w.member /\ v.domain = w.domain /\ v.version = w.version
        /\ v.stages = w.stages /\ v.membership = w.membership /\ v.claimed = w.claimed
        /\ v.batchSize = w.batchSize /\ v.dispatch = w.dispatch /\ v.status = w.status
    BY <2>6, <2>d
  <2>8. Faithful(v, e, m)
    BY <2>4, <2>5, <2>7 DEF Faithful
  <2> QED
    BY <2>1, <2>2, <2>4, <2>5, <2>6, <2>8
<1>7. CASE e = "adapter"
  <2>1. Written(e, m) = AdapterRecord(m)
    BY <1>7 DEF Written
  <2> DEFINE stages == {AdapterRecv, AdapterDispatch, AdapterResult, AdapterSend}
             outcome == IF m \in failed THEN "error" ELSE "ok"
             set == IF m \in failed THEN {} ELSE batch[m]
             dispatch == [dispatched |-> Cardinality(Envelope(m)), skew |-> DispatchSkew(Envelope(m))]
  <2>2. AdapterRecord(m) =
          [Attesting(plain(stages, outcome), set) EXCEPT !.envelope = Envelope(m), !.dispatch = dispatch]
    BY <1>7 DEF AdapterRecord
  <2>3. stages \subseteq Told(e)
    BY <1>7 DEF Told, OwnStages
  <2>4. Faithful(plain(stages, outcome), e, m)
    BY <1>1, <2>3
  <2>x. set \in {{}, batch[m]}
    OBVIOUS
  <2> HIDE DEF plain, stages, outcome, set, dispatch
  <2>5. PICK w : w = Attesting(plain(stages, outcome), set)
    OBVIOUS
  <2>6. Faithful(w, e, m)
    BY <1>2, <1>3, <2>4, <2>5, <2>x
  <2>d. DOMAIN w = {"emitter", "member", "stages", "status", "domain", "version", "membership", "claimed", "batchSize",
                    "envelope", "dispatch"}
    BY <1>3, <2>5 DEF Attesting
  <2>7. PICK v : v = [w EXCEPT !.envelope = Envelope(m), !.dispatch = dispatch]
    OBVIOUS
  <2>8. /\ v.envelope = Envelope(m)
        /\ v.emitter = w.emitter /\ v.member = w.member /\ v.domain = w.domain /\ v.version = w.version
        /\ v.stages = w.stages /\ v.membership = w.membership /\ v.claimed = w.claimed
        /\ v.batchSize = w.batchSize /\ v.status = w.status
    BY <2>7, <2>d
  <2>9. Faithful(v, e, m)
    BY <1>7, <2>6, <2>8 DEF Faithful
  <2> QED
    BY <2>1, <2>2, <2>5, <2>7, <2>9
<1> QED
  BY <1>4, <1>5, <1>6, <1>7 DEF Emitters

\* A process's stream lists what the process left.
LEMMA StreamLists ==
  ASSUME TypeOK, NEW e \in Emitters
  PROVE  Listing(Stream(e), {e})
<1> DEFINE S == {m \in Members : Writes(e, m)}
           n == Cardinality(S)
           w == SetToSeq(S)
<1>1. IsFiniteSet(S)
  BY MembersFacts, FS_Subset
<1>2. /\ w \in [1 .. n -> S] /\ n \in Nat /\ \A a, b \in 1 .. n : w[a] = w[b] => a = b
      /\ \A x \in S : \E a \in 1 .. n : w[a] = x
  BY <1>1, SetIsListed
<1>3. Stream(e) = [i \in 1 .. n |-> Written(e, w[i])]
  BY <1>2 DEF Stream
<1>4. \A m \in Members : Written(e, m).emitter = e /\ Written(e, m).member = m
  BY WrittenIsFaithful DEF Faithful
<1>5. \A i \in 1 .. n : w[i] \in Members /\ Writes(e, w[i])
  BY <1>2
<1>6. \A m \in Members : Writes(e, m) => \E i \in 1 .. n : w[i] = m
  BY <1>2
<1> HIDE DEF S, n, w
<1>7. PICK r : r = Stream(e)
  OBVIOUS
<1>8. DOMAIN r = 1 .. n /\ \A i \in 1 .. n : r[i] = Written(e, w[i]) /\ r[i].emitter = e /\ r[i].member = w[i]
  BY <1>3, <1>4, <1>5, <1>7
<1>9. r \in Seq(Everything)
  <2>1. \A i \in 1 .. n : Written(e, w[i]) \in Everything
    BY <1>5 DEF Everything
  <2> QED
    BY <1>2, <1>3, <1>7, <2>1
<1>10. \A i \in DOMAIN r : r[i].emitter \in {e} /\ r[i].member \in Members
         /\ Writes(r[i].emitter, r[i].member) /\ r[i] = Written(r[i].emitter, r[i].member)
  BY <1>5, <1>8
<1>11. \A i, k \in DOMAIN r : r[i].member = r[k].member => i = k
  BY <1>2, <1>8
<1>12. \A m \in Members : Writes(e, m) => \E i \in DOMAIN r : r[i] = Written(e, m)
  BY <1>6, <1>8
<1>13. Listing(r, {e})
  BY <1>9, <1>10, <1>11, <1>12 DEF Listing
<1> QED
  BY <1>7, <1>13

\* The streams of different processes, one after the other, list what all of them
\* left.
LEMMA ListingsJoin ==
  ASSUME NEW E, NEW F, NEW r, NEW s, Listing(r, E), Listing(s, F), E \cap F = {}
  PROVE  Listing(r \o s, E \cup F)
<1>3. r \in Seq(Everything) /\ s \in Seq(Everything)
  BY DEF Listing
<1>4. PICK t : t = r \o s
  OBVIOUS
<1>5. PICK a \in Nat, b \in Nat : a = Len(r) /\ b = Len(s)
  BY <1>3
<1>6. /\ t \in Seq(Everything) /\ Len(t) = a + b
      /\ \A i \in 1 .. a + b : t[i] = IF i <= a THEN r[i] ELSE s[i - a]
  BY <1>3, <1>4, <1>5, ConcatProperties
<1>7. DOMAIN r = 1 .. a /\ DOMAIN s = 1 .. b /\ DOMAIN t = 1 .. a + b
  BY <1>3, <1>5, <1>6
<1>8. \A i \in 1 .. a + b : \/ i \in 1 .. a /\ t[i] = r[i]
                            \/ i - a \in 1 .. b /\ t[i] = s[i - a]
  BY <1>6
<1>9. /\ \A i \in 1 .. a : i \in 1 .. a + b /\ t[i] = r[i]
      /\ \A i \in 1 .. b : i + a \in 1 .. a + b /\ t[i + a] = s[i]
  <2>1. \A i \in 1 .. b : i + a \in 1 .. a + b /\ ~(i + a <= a) /\ (i + a) - a = i
    OBVIOUS
  <2> QED
    BY <1>6, <2>1
<1>e. /\ \A i \in 1 .. a : r[i].emitter \in E /\ r[i].member \in Members
           /\ Writes(r[i].emitter, r[i].member) /\ r[i] = Written(r[i].emitter, r[i].member)
      /\ \A i, k \in 1 .. a : r[i].emitter = r[k].emitter /\ r[i].member = r[k].member => i = k
      /\ \A e \in E, m \in Members : Writes(e, m) => \E i \in 1 .. a : r[i] = Written(e, m)
  BY <1>7 DEF Listing
<1>f. /\ \A i \in 1 .. b : s[i].emitter \in F /\ s[i].member \in Members
           /\ Writes(s[i].emitter, s[i].member) /\ s[i] = Written(s[i].emitter, s[i].member)
      /\ \A i, k \in 1 .. b : s[i].emitter = s[k].emitter /\ s[i].member = s[k].member => i = k
      /\ \A e \in F, m \in Members : Writes(e, m) => \E i \in 1 .. b : s[i] = Written(e, m)
  BY <1>7 DEF Listing
<1>10. \A i \in 1 .. a + b : t[i].emitter \in E \cup F /\ t[i].member \in Members
         /\ Writes(t[i].emitter, t[i].member) /\ t[i] = Written(t[i].emitter, t[i].member)
  BY <1>8, <1>e, <1>f
<1>11. ASSUME NEW i \in 1 .. a + b, NEW k \in 1 .. a + b,
              t[i].emitter = t[k].emitter, t[i].member = t[k].member
       PROVE  i = k
  <2>1. CASE i \in 1 .. a /\ t[i] = r[i] /\ k \in 1 .. a /\ t[k] = r[k]
    BY <1>11, <1>e, <2>1
  <2>2. CASE i \in 1 .. a /\ t[i] = r[i] /\ k - a \in 1 .. b /\ t[k] = s[k - a]
    <3>1. t[i].emitter \in E /\ t[k].emitter \in F
      BY <1>e, <1>f, <2>2
    <3> QED
      BY <1>11, <3>1
  <2>3. CASE i - a \in 1 .. b /\ t[i] = s[i - a] /\ k \in 1 .. a /\ t[k] = r[k]
    <3>1. t[k].emitter \in E /\ t[i].emitter \in F
      BY <1>e, <1>f, <2>3
    <3> QED
      BY <1>11, <3>1
  <2>4. CASE i - a \in 1 .. b /\ t[i] = s[i - a] /\ k - a \in 1 .. b /\ t[k] = s[k - a]
    <3>1. i - a = k - a
      BY <1>11, <1>f, <2>4
    <3> QED
      BY <3>1
  <2> QED
    BY <1>8, <2>1, <2>2, <2>3, <2>4
<1>12. ASSUME NEW e \in E \cup F, NEW m \in Members, Writes(e, m)
       PROVE  \E i \in 1 .. a + b : t[i] = Written(e, m)
  <2>1. CASE e \in E
    BY <1>9, <1>12, <1>e, <2>1
  <2>2. CASE e \in F
    <3>1. PICK i \in 1 .. b : s[i] = Written(e, m)
      BY <1>12, <1>f, <2>2
    <3> QED
      BY <1>9, <3>1
  <2> QED
    BY <2>1, <2>2
<1>14. Listing(t, E \cup F)
  <2>1. DOMAIN t = 1 .. a + b /\ t \in Seq(Everything)
    BY <1>6, <1>7
  <2>2. \A i, k \in DOMAIN t : t[i].emitter = t[k].emitter /\ t[i].member = t[k].member => i = k
    BY <1>11, <2>1
  <2>3. \A e \in E \cup F, m \in Members : Writes(e, m) => \E i \in DOMAIN t : t[i] = Written(e, m)
    BY <1>12, <2>1
  <2> QED
    BY <1>10, <2>1, <2>2, <2>3 DEF Listing
<1> QED
  BY <1>4, <1>14

\* What was recorded is listed, in whichever order the streams are read.
LEMMA RecordsList ==
  ASSUME TypeOK
  PROVE  Listing(Records(InOrder), Emitters) /\ Listing(Records(Reverse(InOrder)), Emitters)
<1>1. /\ Listing(Stream("loadgen"), {"loadgen"}) /\ Listing(Stream("proxy"), {"proxy"})
      /\ Listing(Stream("adapter"), {"adapter"}) /\ Listing(Stream("triton"), {"triton"})
  BY StreamLists DEF Emitters
<1>2. Listing(Records(InOrder), Emitters)
  <2>1. Listing(Stream("loadgen") \o Stream("proxy"), {"loadgen"} \cup {"proxy"})
    BY <1>1, ListingsJoin
  <2>2. Listing((Stream("loadgen") \o Stream("proxy")) \o Stream("adapter"),
                ({"loadgen"} \cup {"proxy"}) \cup {"adapter"})
    BY <1>1, <2>1, ListingsJoin
  <2>3. Listing(((Stream("loadgen") \o Stream("proxy")) \o Stream("adapter")) \o Stream("triton"),
                (({"loadgen"} \cup {"proxy"}) \cup {"adapter"}) \cup {"triton"})
    BY <1>1, <2>2, ListingsJoin
  <2>4. (({"loadgen"} \cup {"proxy"}) \cup {"adapter"}) \cup {"triton"} = Emitters
    BY DEF Emitters
  <2>5. Records(InOrder) = ((Stream("loadgen") \o Stream("proxy")) \o Stream("adapter")) \o Stream("triton")
    BY DEF Records, InOrder
  <2> QED
    BY <2>3, <2>4, <2>5
<1>3. Listing(Records(Reverse(InOrder)), Emitters)
  <2>1. Listing(Stream("triton") \o Stream("adapter"), {"triton"} \cup {"adapter"})
    BY <1>1, ListingsJoin
  <2>2. Listing((Stream("triton") \o Stream("adapter")) \o Stream("proxy"),
                ({"triton"} \cup {"adapter"}) \cup {"proxy"})
    BY <1>1, <2>1, ListingsJoin
  <2>3. Listing(((Stream("triton") \o Stream("adapter")) \o Stream("proxy")) \o Stream("loadgen"),
                (({"triton"} \cup {"adapter"}) \cup {"proxy"}) \cup {"loadgen"})
    BY <1>1, <2>2, ListingsJoin
  <2>4. (({"triton"} \cup {"adapter"}) \cup {"proxy"}) \cup {"loadgen"} = Emitters
    BY DEF Emitters
  <2>5. /\ Reverse(InOrder)[1] = "triton" /\ Reverse(InOrder)[2] = "adapter"
        /\ Reverse(InOrder)[3] = "proxy" /\ Reverse(InOrder)[4] = "loadgen"
    BY DEF Reverse, InOrder
  <2>6. Records(Reverse(InOrder)) = ((Stream("triton") \o Stream("adapter")) \o Stream("proxy")) \o Stream("loadgen")
    BY <2>5 DEF Records
  <2> QED
    BY <2>3, <2>4, <2>6
<1> QED
  BY <1>2, <1>3

-----------------------------------------------------------------------------
(* The join of what they list.                                             *)

\* Who left a record of the member, and which of them say what.
Leaving(m)   == {e \in Emitters : Writes(e, m)}
Attests(m)   == {e \in Leaving(m) : Written(e, m).membership # {}}
Batches(m)   == {e \in Leaving(m) : Written(e, m).batchSize # 0}
Enveloping(m) == {e \in Leaving(m) : Written(e, m).envelope # None}
Releasing(m) == {e \in Leaving(m) : Written(e, m).dispatch # None}

\* The stages that came through, and whose each is.
Seen(m)   == UNION {DOMAIN Written(e, m).stages : e \in Leaving(m)}
Teller(s) == CHOOSE e \in Emitters : s \in Told(e)

\* The most diagnostic status.
Foremost(st, m) ==
  /\ \E e \in Leaving(m) : Written(e, m).status = st
  /\ \A e \in Leaving(m) : StatusRank(Written(e, m).status) <= StatusRank(st)

Outcome(m) == CHOOSE st : Foremost(st, m)

\* The join of a member's records, whatever order they were read in.
JoinedOnce(m) ==
  [stages     |-> [s \in Seen(m) |-> ts[m][s]],
   owner      |-> [s \in Seen(m) |-> Teller(s)],
   status     |-> Outcome(m),
   count      |-> [e \in Emitters |-> IF Writes(e, m) THEN 1 ELSE 0],
   domains    |-> {"boot"},
   versions   |-> {1},
   attested   |-> [e \in Attests(m) |-> batch[m]],
   membership |-> IF Attests(m) = {} THEN {} ELSE batch[m],
   claimed    |-> IF Attests(m) = {} THEN 0 ELSE Cardinality(batch[m]),
   batchSize  |-> IF Batches(m) = {} THEN 0 ELSE Cardinality(batch[m]),
   envelope   |-> IF Enveloping(m) = {} THEN None ELSE Envelope(m),
   dispatch   |-> [e \in Releasing(m) |-> Written(e, m).dispatch]]

\* No two processes tell of the same stage.
LEMMA ToldOnce ==
  ASSUME cell \in ImplementedCells, NEW s, NEW d \in Emitters, NEW e \in Emitters, s \in Told(d), s \in Told(e)
  PROVE  d = e
BY PlaceValues
   DEF Told, OwnStages, SealOwner, Emitters, Sched, ClientSend, ProxyRecv, CohortSeal, ProxySend, AdapterRecv,
       AdapterDispatch, QueueStart, ComputeStart, ComputeEnd, AdapterResult, AdapterSend, ProxyRespRecv,
       ProxyFanout, ClientRecv

\* The ranks tell the statuses apart.
LEMMA RanksDiffer ==
  /\ StatusRank("timeout") = 3 /\ StatusRank("error") = 2 /\ StatusRank("ok") = 1 /\ StatusRank(None) = 0
  /\ \A a, b \in {"ok", "error", "timeout", None} : StatusRank(a) = StatusRank(b) => a = b
  /\ \A a \in {"ok", "error", "timeout", None} : StatusRank(a) \in 0 .. 3
<1>1. StatusRank("timeout") = 3 /\ StatusRank("error") = 2 /\ StatusRank("ok") = 1
  BY DEF StatusRank
<1>2. StatusRank(None) = 0
  BY NoneIsNoStatus DEF StatusRank
<1> QED
  BY <1>1, <1>2

\* Where the records of one member are in a sequence.
Sightings(records, m) == {i \in DOMAIN records : records[i].member = m}

\* Each process that left one is seen once.
LEMMA SightingsOnce ==
  ASSUME TypeOK, NEW R, Listing(R, Emitters), NEW m \in Members
  PROVE  /\ Sightings(R, m) \in SUBSET Nat /\ Len(R) \in Nat /\ \A i \in Sightings(R, m) : i <= Len(R)
         /\ \A i \in Sightings(R, m) : R[i].emitter \in Leaving(m) /\ R[i] = Written(R[i].emitter, m)
         /\ \A i, k \in Sightings(R, m) : R[i].emitter = R[k].emitter => i = k
         /\ \A e \in Leaving(m) : \E i \in Sightings(R, m) : R[i].emitter = e /\ R[i] = Written(e, m)
<1>1. /\ R \in Seq(Everything)
      /\ \A i \in DOMAIN R :
           /\ R[i].emitter \in Emitters /\ R[i].member \in Members
           /\ Writes(R[i].emitter, R[i].member)
           /\ R[i] = Written(R[i].emitter, R[i].member)
      /\ \A i, k \in DOMAIN R : R[i].emitter = R[k].emitter /\ R[i].member = R[k].member => i = k
      /\ \A e \in Emitters, n \in Members : Writes(e, n) => \E i \in DOMAIN R : R[i] = Written(e, n)
  BY DEF Listing
<1>2. \A e \in Emitters : Written(e, m).emitter = e /\ Written(e, m).member = m
  BY WrittenIsFaithful DEF Faithful
<1>3. Len(R) \in Nat /\ DOMAIN R = 1 .. Len(R)
  BY <1>1
<1>4. \A i \in DOMAIN R : i \in Nat /\ i <= Len(R)
  BY <1>3
<1>5. \A e \in Leaving(m) : \E i \in Sightings(R, m) : R[i].emitter = e /\ R[i] = Written(e, m)
  BY <1>1, <1>2 DEF Leaving, Sightings
<1> QED
  BY <1>1, <1>3, <1>4, <1>5 DEF Leaving, Sightings

\* The status of a joined request is the most diagnostic of its records'.
LEMMA StatusJoined ==
  ASSUME TypeOK, NEW R, Listing(R, Emitters), NEW m \in Members
  PROVE  LET of == Sightings(R, m)
             telling == {i \in of : \A k \in of : StatusRank(R[k].status) <= StatusRank(R[i].status)}
         IN  R[Min(telling)].status = Outcome(m) /\ Foremost(Outcome(m), m)
<1> DEFINE of == Sightings(R, m)
           rank(i) == StatusRank(R[i].status)
           telling == {i \in of : \A k \in of : rank(k) <= rank(i)}
<1>1. /\ of \in SUBSET Nat /\ Len(R) \in Nat /\ \A i \in of : i <= Len(R)
      /\ \A i \in of : R[i].emitter \in Leaving(m) /\ R[i] = Written(R[i].emitter, m)
      /\ \A e \in Leaving(m) : \E i \in of : R[i].emitter = e /\ R[i] = Written(e, m)
  BY SightingsOnce
<1>2. \A e \in Leaving(m) : Written(e, m).status \in {"ok", "error", "timeout", None}
  BY WrittenIsFaithful DEF Leaving, Faithful
<1>3. \A i \in of : R[i].status \in {"ok", "error", "timeout", None}
  BY <1>1, <1>2
<1>4. \A i \in of : rank(i) \in 0 .. 3
  BY <1>3, RanksDiffer
<1>5. "loadgen" \in Leaving(m)
  BY DEF Leaving, Writes, Emitters
<1>6. PICK first \in of : TRUE
  BY <1>1, <1>5
<1> HIDE DEF of, rank
<1>7. telling # {}
  <2> DEFINE ranks == {rank(i) : i \in of}
  <2>1. ranks \in SUBSET Nat /\ ranks # {} /\ \A x \in ranks : x <= 3
    BY <1>4, <1>6
  <2> HIDE DEF ranks
  <2>2. Max(ranks) \in ranks /\ \A x \in ranks : x <= Max(ranks)
    BY <2>1, BoundsAreMembers
  <2>3. PICK i \in of : rank(i) = Max(ranks)
    BY <2>2 DEF ranks
  <2>4. \A k \in of : rank(k) <= rank(i)
    BY <2>2, <2>3 DEF ranks
  <2> QED
    BY <2>4
<1>8. telling \in SUBSET Nat /\ \A i \in telling : i <= Len(R)
  BY <1>1
<1>9. Min(telling) \in telling
  BY <1>1, <1>7, <1>8, BoundsAreMembers
<1>10. \A i \in telling : Foremost(R[i].status, m)
  BY <1>1 DEF Foremost, rank
<1>11. \A a, b : Foremost(a, m) /\ Foremost(b, m) => a = b
  <2> SUFFICES ASSUME NEW a, NEW b, Foremost(a, m), Foremost(b, m) PROVE a = b
    OBVIOUS
  <2>1. a \in {"ok", "error", "timeout", None} /\ b \in {"ok", "error", "timeout", None}
    BY <1>2 DEF Foremost
  <2>2. StatusRank(a) <= StatusRank(b) /\ StatusRank(b) <= StatusRank(a)
    BY DEF Foremost
  <2>3. StatusRank(a) \in 0 .. 3 /\ StatusRank(b) \in 0 .. 3
    BY <2>1, RanksDiffer
  <2>4. StatusRank(a) = StatusRank(b)
    BY <2>2, <2>3
  <2> QED
    BY <2>1, <2>4, RanksDiffer
<1>12. Foremost(R[Min(telling)].status, m)
  BY <1>9, <1>10
<1>13. Foremost(Outcome(m), m)
  BY <1>12, Zenon DEF Outcome
<1> QED
  BY <1>11, <1>12, <1>13 DEF of, rank

\* What a member's records come to does not depend on the order they were read in.
LEMMA SightingsJoined ==
  ASSUME TypeOK, NEW R, Listing(R, Emitters), NEW m \in Members
  PROVE  JoinedFrom(R, Sightings(R, m)) = JoinedOnce(m)
<1> DEFINE of == Sightings(R, m)
           attesting  == {i \in of : R[i].membership # {}}
           batched    == {i \in of : R[i].batchSize # 0}
           enveloped  == {i \in of : R[i].envelope # None}
           released   == {i \in of : R[i].dispatch # None}
           telling    == {i \in of : \A k \in of : StatusRank(R[k].status) <= StatusRank(R[i].status)}
           stages     == UNION {DOMAIN R[i].stages : i \in of}
           last(s)    == R[Max({i \in of : s \in DOMAIN R[i].stages})]
           by(at, e)  == {i \in at : R[i].emitter = e}
           sources(at) == {R[i].emitter : i \in at}
<1>1. /\ of \in SUBSET Nat /\ Len(R) \in Nat /\ \A i \in of : i <= Len(R)
      /\ \A i \in of : R[i].emitter \in Leaving(m) /\ R[i] = Written(R[i].emitter, m)
      /\ \A i, k \in of : R[i].emitter = R[k].emitter => i = k
      /\ \A e \in Leaving(m) : \E i \in of : R[i].emitter = e /\ R[i] = Written(e, m)
  BY SightingsOnce
<1>2. \A e \in Leaving(m) : Faithful(Written(e, m), e, m)
  BY WrittenIsFaithful DEF Leaving
<1>3. \A i \in of : Faithful(R[i], R[i].emitter, m)
  BY <1>1, <1>2
<1>4. R[Min(telling)].status = Outcome(m)
  BY StatusJoined
<1>5. \A S \in SUBSET of : S # {} => Max(S) \in S
  <2> SUFFICES ASSUME NEW S \in SUBSET of, S # {} PROVE Max(S) \in S
    OBVIOUS
  <2>1. S \in SUBSET Nat /\ \A i \in S : i <= Len(R)
    BY <1>1
  <2> QED
    BY <1>1, <2>1, BoundsAreMembers
<1>c. cell \in ImplementedCells
  BY DEF TypeOK
<1> HIDE DEF of
<1>6. stages = Seen(m)
  BY <1>1 DEF Seen
<1>7. ASSUME NEW s \in Seen(m) PROVE last(s).stages[s] = ts[m][s] /\ last(s).emitter = Teller(s)
  <2> DEFINE S == {i \in of : s \in DOMAIN R[i].stages}
  <2>1. S \in SUBSET of /\ S # {}
    BY <1>6, <1>7
  <2>2. Max(S) \in S
    BY <1>5, <2>1
  <2>3. PICK i \in S : i = Max(S)
    BY <2>2
  <2>4. s \in DOMAIN R[i].stages /\ Faithful(R[i], R[i].emitter, m) /\ R[i].emitter \in Leaving(m)
    BY <1>1, <1>3
  <2>5. R[i].stages[s] = ts[m][s] /\ s \in Told(R[i].emitter)
    BY <2>4 DEF Faithful
  <2>6. PICK e \in Emitters : e = R[i].emitter /\ s \in Told(e)
    BY <2>4, <2>5 DEF Leaving
  <2>7. Teller(s) \in Emitters /\ s \in Told(Teller(s))
    BY <2>6, Zenon DEF Teller
  <2>8. Teller(s) = e
    BY <1>c, <2>6, <2>7, ToldOnce
  <2> QED
    BY <2>3, <2>5, <2>6, <2>8
<1>8. ASSUME NEW e \in Emitters PROVE Cardinality(by(of, e)) = IF Writes(e, m) THEN 1 ELSE 0
  <2>1. CASE e \in Leaving(m)
    <3>1. PICK i \in of : R[i].emitter = e
      BY <1>1, <2>1
    <3>2. by(of, e) = {i}
      BY <1>1, <3>1
    <3>3. Cardinality({i}) = 1
      BY FS_Singleton
    <3> QED
      BY <2>1, <3>2, <3>3 DEF Leaving
  <2>2. CASE e \notin Leaving(m)
    <3>1. by(of, e) = {}
      BY <1>1, <2>2
    <3> QED
      BY <1>8, <2>2, <3>1, FS_EmptySet DEF Leaving
  <2> QED
    BY <2>1, <2>2
<1>9. {R[i].domain : i \in of} = {"boot"} /\ {R[i].version : i \in of} = {1}
  <2>1. \A i \in of : R[i].domain = "boot" /\ R[i].version = 1
    BY <1>3 DEF Faithful
  <2>2. "loadgen" \in Leaving(m)
    BY DEF Leaving, Writes, Emitters
  <2>3. PICK i \in of : TRUE
    BY <1>1, <2>2
  <2> QED
    BY <2>1, <2>3
<1>10. /\ sources(attesting) = Attests(m) /\ (attesting = {} <=> Attests(m) = {})
       /\ (batched = {} <=> Batches(m) = {})
       /\ (enveloped = {} <=> Enveloping(m) = {})
       /\ sources(released) = Releasing(m)
  <2>1. sources(attesting) = Attests(m)
    BY <1>1 DEF Attests
  <2>2. sources(batched) = Batches(m)
    BY <1>1 DEF Batches
  <2>3. sources(enveloped) = Enveloping(m)
    BY <1>1 DEF Enveloping
  <2>4. sources(released) = Releasing(m)
    BY <1>1 DEF Releasing
  <2>5. \A at : at = {} <=> sources(at) = {}
    OBVIOUS
  <2> HIDE DEF attesting, batched, enveloped, released, sources
  <2> QED
    BY <2>1, <2>2, <2>3, <2>4, <2>5
<1>11. ASSUME NEW e \in Attests(m) PROVE R[Max(by(attesting, e))].membership = batch[m]
  <2> DEFINE S == by(attesting, e)
  <2>1. S \in SUBSET of /\ S # {}
    BY <1>1, <1>11 DEF Attests
  <2>2. Max(S) \in S
    BY <1>5, <2>1
  <2> QED
    BY <1>3, <2>2 DEF Faithful
<1>12. attesting # {} => R[Max(attesting)].membership = batch[m] /\ R[Max(attesting)].claimed = Cardinality(batch[m])
  <2> SUFFICES ASSUME attesting # {} PROVE R[Max(attesting)].membership = batch[m]
                                           /\ R[Max(attesting)].claimed = Cardinality(batch[m])
    OBVIOUS
  <2>1. Max(attesting) \in attesting
    BY <1>5
  <2> QED
    BY <1>3, <2>1 DEF Faithful
<1>13. batched # {} => R[Max(batched)].batchSize = Cardinality(batch[m])
  <2> SUFFICES ASSUME batched # {} PROVE R[Max(batched)].batchSize = Cardinality(batch[m])
    OBVIOUS
  <2>1. Max(batched) \in batched
    BY <1>5
  <2>2. PICK i \in of : i = Max(batched) /\ R[i].batchSize # 0
    BY <2>1
  <2>3. R[i].batchSize = Cardinality(R[i].membership) /\ (R[i].membership # {} => R[i].membership = batch[m])
    BY <1>3 DEF Faithful
  <2>4. R[i].membership # {}
    BY <2>2, <2>3, FS_EmptySet
  <2> QED
    BY <2>2, <2>3, <2>4
<1>14. enveloped # {} => R[Max(enveloped)].envelope = Envelope(m)
  <2> SUFFICES ASSUME enveloped # {} PROVE R[Max(enveloped)].envelope = Envelope(m)
    OBVIOUS
  <2>1. Max(enveloped) \in enveloped
    BY <1>5
  <2> QED
    BY <1>3, <2>1 DEF Faithful
<1>15. ASSUME NEW e \in Releasing(m) PROVE R[Max(by(released, e))].dispatch = Written(e, m).dispatch
  <2> DEFINE S == by(released, e)
  <2>1. S \in SUBSET of /\ S # {}
    BY <1>1, <1>15 DEF Releasing
  <2>2. Max(S) \in S
    BY <1>5, <2>1
  <2> QED
    BY <1>1, <2>2
<1>16. JoinedFrom(R, of) =
         [stages     |-> [s \in stages |-> last(s).stages[s]],
          owner      |-> [s \in stages |-> last(s).emitter],
          status     |-> R[Min(telling)].status,
          count      |-> [e \in Emitters |-> Cardinality(by(of, e))],
          domains    |-> {R[i].domain : i \in of},
          versions   |-> {R[i].version : i \in of},
          attested   |-> [e \in sources(attesting) |-> R[Max(by(attesting, e))].membership],
          membership |-> IF attesting = {} THEN {} ELSE R[Max(attesting)].membership,
          claimed    |-> IF attesting = {} THEN 0 ELSE R[Max(attesting)].claimed,
          batchSize  |-> IF batched = {} THEN 0 ELSE R[Max(batched)].batchSize,
          envelope   |-> IF enveloped = {} THEN None ELSE R[Max(enveloped)].envelope,
          dispatch   |-> [e \in sources(released) |-> R[Max(by(released, e))].dispatch]]
  BY DEF JoinedFrom
<1> HIDE DEF attesting, batched, enveloped, released, telling, stages, last, by, sources
<1>17. /\ [s \in stages |-> last(s).stages[s]] = [s \in Seen(m) |-> ts[m][s]]
       /\ [s \in stages |-> last(s).emitter] = [s \in Seen(m) |-> Teller(s)]
  BY <1>6, <1>7
<1>18. [e \in Emitters |-> Cardinality(by(of, e))] = [e \in Emitters |-> IF Writes(e, m) THEN 1 ELSE 0]
  BY <1>8
<1>19. [e \in sources(attesting) |-> R[Max(by(attesting, e))].membership] = [e \in Attests(m) |-> batch[m]]
  BY <1>10, <1>11
<1>20. [e \in sources(released) |-> R[Max(by(released, e))].dispatch] = [e \in Releasing(m) |-> Written(e, m).dispatch]
  BY <1>10, <1>15
<1>21. /\ (IF attesting = {} THEN {} ELSE R[Max(attesting)].membership) = IF Attests(m) = {} THEN {} ELSE batch[m]
       /\ (IF attesting = {} THEN 0 ELSE R[Max(attesting)].claimed)
            = IF Attests(m) = {} THEN 0 ELSE Cardinality(batch[m])
       /\ (IF batched = {} THEN 0 ELSE R[Max(batched)].batchSize)
            = IF Batches(m) = {} THEN 0 ELSE Cardinality(batch[m])
       /\ (IF enveloped = {} THEN None ELSE R[Max(enveloped)].envelope)
            = IF Enveloping(m) = {} THEN None ELSE Envelope(m)
  BY <1>10, <1>12, <1>13, <1>14
<1> QED
  BY <1>4, <1>9, <1>16, <1>17, <1>18, <1>19, <1>20, <1>21, Zenon DEF JoinedOnce, of

\* The validator's join of an honest run, from what each process left.
LEMMA JoinOfWritten ==
  ASSUME TypeOK, NEW R, Listing(R, Emitters)
  PROVE  Join(R) = [m \in Members |-> JoinedOnce(m)]
<1>1. {R[i].member : i \in DOMAIN R} = Members
  <2>1. \A i \in DOMAIN R : R[i].member \in Members
    BY DEF Listing
  <2>2. ASSUME NEW m \in Members PROVE \E i \in DOMAIN R : R[i].member = m
    <3>1. "loadgen" \in Emitters /\ Writes("loadgen", m)
      BY DEF Emitters, Writes
    <3>2. PICK i \in DOMAIN R : R[i] = Written("loadgen", m)
      BY <3>1 DEF Listing
    <3>3. Written("loadgen", m).member = m
      BY <3>1, WrittenIsFaithful DEF Faithful
    <3> QED
      BY <3>2, <3>3
  <2> QED
    BY <2>1, <2>2
<1>2. \A m \in Members : JoinedFrom(R, {i \in DOMAIN R : R[i].member = m}) = JoinedOnce(m)
  BY SightingsJoined DEF Sightings
<1> QED
  BY <1>1, <1>2, Zenon DEF Join

-----------------------------------------------------------------------------
(* The verdict on a run.                                                   *)

\* The evidence of a finished run is the join of what each process left.
LEMMA VerdictOnRecords ==
  ASSUME IInv, Done
  PROVE  /\ joined = [m \in Members |-> JoinedOnce(m)]
         /\ joined = Join(Records(Reverse(InOrder)))
         /\ defects = Validate(Expected, joined)
         /\ \A m \in Members : pc[m] = "recorded"
<1>1. TypeOK /\ JudgedHonestly
  BY DEF IInv
<1>2. Listing(Records(InOrder), Emitters) /\ Listing(Records(Reverse(InOrder)), Emitters)
  BY <1>1, RecordsList
<1>3. /\ Join(Records(InOrder)) = [m \in Members |-> JoinedOnce(m)]
      /\ Join(Records(Reverse(InOrder))) = [m \in Members |-> JoinedOnce(m)]
  BY <1>1, <1>2, JoinOfWritten
<1> QED
  BY <1>1, <1>3 DEF JudgedHonestly, All

\* What the run was to produce.
LEMMA ExpectedFields ==
  /\ Expected.cell = cell /\ Expected.domain = "boot" /\ Expected.cohortSize = TargetB
  /\ Expected.cohortCount = 1 /\ Expected.first = 0 /\ Expected.batchSize = 1
  /\ Expected.executions = TargetB /\ Expected.maxWait = 0 /\ Expected.maxSkew = SkewBound
  /\ Expected.executionDelta = Cardinality({batch[m] : m \in Executed})
  /\ Expected.inferenceDelta = Cardinality(Executed) /\ Expected.dropped = 0
  /\ DOMAIN Expected.histogram = {Cardinality(b) : b \in {batch[m] : m \in Executed}}
BY Zenon DEF Expected

\* Those are the requests of the one cohort.
LEMMA RequestsAreMembers == Requests(Expected) = Members
<1>1. Requests(Expected) = UNION {CohortMembers(c, TargetB) : c \in 0 .. 0 + 1 - 1}
  BY ExpectedFields, Zenon DEF Requests
<1>2. 0 .. 0 + 1 - 1 = {0}
  OBVIOUS
<1>3. UNION {CohortMembers(c, TargetB) : c \in {0}} = CohortMembers(0, TargetB)
  OBVIOUS
<1> QED
  BY <1>1, <1>2, <1>3 DEF Members

\* A member that was served had nothing happen to it, and has every instant of its
\* topology.
LEMMA ServedIsSound ==
  ASSUME IInv, Done, Served, NEW m \in Members
  PROVE  /\ Sound(m) /\ m \notin failed /\ status[m] = "ok"
         /\ DOMAIN ts[m] = TopologyMask(cell) /\ Ordered(m) /\ Executes(m)
<1>t. TypeOK /\ Fate(m) /\ Right(m) /\ pc[m] = "recorded"
  BY VerdictOnRecords DEF IInv
<1>1. status[m] = "ok" /\ m \notin failed
  BY <1>t DEF Served, Fate
<1>2. Sound(m)
  BY <1>t, <1>1 DEF Sound
<1>3. Timed(m) /\ Ordered(m) /\ Executes(m)
  BY <1>t, <1>2 DEF Right
<1>4. Passed("recorded") = TopologyMask(cell)
  <2>1. /\ cell \in ImplementedCells /\ \A s \in Stages : Place(s) = IF s = 4 /\ cell # "F10" THEN 3 ELSE 2 * s
        /\ TopologyMask(cell) = IF cell = "D0" THEN {1, 2, 15, 4, 8, 9, 10} ELSE 1 .. 15
    BY <1>t, PlaceValues DEF TypeOK
  <2>2. \A s \in 1 .. 15 : Place(s) <= 30
    BY <2>1 DEF Stages
  <2>3. TopologyMask(cell) \subseteq 1 .. 15
    BY <2>1
  <2> QED
    BY <2>2, <2>3, ReachedValues DEF Passed
<1> QED
  BY <1>t, <1>1, <1>2, <1>3, <1>4 DEF Timed

\* The stages of the topology, by name.
LEMMA MaskNamed ==
  ASSUME cell \in ImplementedCells
  PROVE  /\ {Sched, ClientSend, ClientRecv, CohortSeal, QueueStart, ComputeStart, ComputeEnd} \subseteq TopologyMask(cell)
         /\ cell = "D0" => TopologyMask(cell) =
                             {Sched, ClientSend, ClientRecv, CohortSeal, QueueStart, ComputeStart, ComputeEnd}
         /\ cell # "D0" => TopologyMask(cell) = Stages
BY StagesNamed DEF TopologyMask

\* What the join shows of a member that was served.
Honest(j, m) ==
  /\ DOMAIN j.stages = TopologyMask(cell)
  /\ \A s \in TopologyMask(cell) : j.stages[s] = ts[m][s] /\ s \in OwnedStages(cell, j.owner[s])
  /\ j.status = "ok" /\ \A e \in Emitters : j.count[e] \in {0, 1}
  /\ j.domains = {"boot"} /\ j.versions = {1}
  /\ \A a \in DOMAIN j.attested : j.attested[a] = batch[m]
  /\ j.membership = batch[m] /\ j.claimed = Cardinality(batch[m]) /\ j.batchSize = Cardinality(batch[m])
  /\ cell # "D0" =>
       /\ j.envelope = Envelope(m)
       /\ DOMAIN j.dispatch = {"adapter"}
       /\ j.dispatch["adapter"] = [dispatched |-> Cardinality(Envelope(m)), skew |-> DispatchSkew(Envelope(m))]

\* The skew of an envelope whose members were all dispatched is a number.
LEMMA SkewIsANumber ==
  ASSUME TypeOK, NEW g \in SUBSET Members, g # {}, \A m \in g : AdapterDispatch \in DOMAIN ts[m]
  PROVE  DispatchSkew(g) \in Int
<1> DEFINE S == {ts[m][AdapterDispatch] : m \in g}
<1>1. now \in Nat /\ \A m \in Members : Clocked(ts[m], now)
  BY DEF TypeOK
<1>2. \A m \in g : ts[m][AdapterDispatch] \in Nat /\ ts[m][AdapterDispatch] <= now
  BY <1>1 DEF Clocked
<1>3. S \in SUBSET Nat /\ S # {} /\ \A i \in S : i <= now
  BY <1>2
<1> HIDE DEF S
<1>4. Max(S) \in S /\ Min(S) \in S
  BY <1>1, <1>3, BoundsAreMembers
<1>5. DispatchSkew(g) = Max(S) - Min(S)
  BY DEF DispatchSkew, S
<1>6. PICK a \in Nat, b \in Nat : a = Max(S) /\ b = Min(S)
  BY <1>3, <1>4
<1> QED
  BY <1>5, <1>6

\* What each process left of a member that was served.
LEMMA ServedRecords ==
  ASSUME IInv, Done, Served, NEW m \in Members
  PROVE  /\ Leaving(m) = IF cell = "D0" THEN {"loadgen", "triton"} ELSE Emitters
         /\ \A e \in Leaving(m) : /\ DOMAIN Written(e, m).stages = Told(e)
                                  /\ Written(e, m).status = "ok"
         /\ Written("loadgen", m).membership = batch[m] /\ Written("loadgen", m).batchSize = Cardinality(batch[m])
         /\ cell # "D0" => /\ Written("adapter", m).envelope = Envelope(m)
                           /\ Written("adapter", m).dispatch =
                                [dispatched |-> Cardinality(Envelope(m)), skew |-> DispatchSkew(Envelope(m))]
<1>t. TypeOK /\ cell \in ImplementedCells
  BY DEF IInv, TypeOK
<1>1. m \notin failed /\ status[m] = "ok" /\ DOMAIN ts[m] = TopologyMask(cell)
  BY ServedIsSound
<1>2. /\ {Sched, ClientSend, ClientRecv, CohortSeal, QueueStart, ComputeStart, ComputeEnd} \subseteq TopologyMask(cell)
      /\ cell = "D0" => TopologyMask(cell) =
                          {Sched, ClientSend, ClientRecv, CohortSeal, QueueStart, ComputeStart, ComputeEnd}
      /\ cell # "D0" => TopologyMask(cell) = Stages
      /\ cell = "D0" => SealOwner(cell) = "loadgen"
      /\ SealOwner(cell) \in {"loadgen", "proxy"}
  BY <1>t, MaskNamed, PlaceValues DEF SealOwner
<1>3. ProxyRecv \in DOMAIN ts[m] <=> cell # "D0"
  BY <1>1, <1>2, StagesNamed
     DEF Sched, ClientSend, ProxyRecv, CohortSeal, QueueStart, ComputeStart, ComputeEnd, ClientRecv
<1>4. AdapterSend \in DOMAIN ts[m] <=> cell # "D0"
  BY <1>1, <1>2, StagesNamed
     DEF Sched, ClientSend, AdapterSend, CohortSeal, QueueStart, ComputeStart, ComputeEnd, ClientRecv
<1>5. ComputeEnd \in DOMAIN ts[m]
  BY <1>1, <1>2
<1>6. Leaving(m) = IF cell = "D0" THEN {"loadgen", "triton"} ELSE Emitters
  BY <1>3, <1>4, <1>5 DEF Leaving, Writes, Emitters
<1>7. Travelled(m) <=> cell # "D0"
  BY <1>1, <1>2, StagesNamed
     DEF Travelled, Sched, ClientSend, ProxySend, CohortSeal, QueueStart, ComputeStart, ComputeEnd, ClientRecv
<1>8. \A e, stages, outcome : Record(e, m, stages, outcome).status = outcome
        /\ Record(e, m, stages, outcome).stages = Keeping(m, stages)
        /\ DOMAIN Record(e, m, stages, outcome) =
             {"emitter", "member", "stages", "status", "domain", "version", "membership", "claimed", "batchSize",
              "envelope", "dispatch"}
  BY DEF Record
<1>9. \A stages \in SUBSET DOMAIN ts[m] : DOMAIN Keeping(m, stages) = stages
  BY DEF Keeping
<1>10. /\ Written("loadgen", m).status = "ok" /\ DOMAIN Written("loadgen", m).stages = Told("loadgen")
       /\ Written("loadgen", m).membership = batch[m] /\ Written("loadgen", m).batchSize = Cardinality(batch[m])
  <2> DEFINE stages == {Sched, ClientSend, ClientRecv} \cup (IF SealOwner(cell) = "loadgen" THEN {CohortSeal} ELSE {})
  <2>1. Written("loadgen", m) = Attesting(Record("loadgen", m, stages, "ok"), batch[m])
    BY <1>1 DEF Written, LoadGenRecord
  <2>2. stages = Told("loadgen")
    BY DEF Told, OwnStages
  <2>3. stages \subseteq DOMAIN ts[m]
    BY <1>1, <1>2
  <2>4. DOMAIN Keeping(m, stages) = stages
    BY <1>9, <2>3
  <2> HIDE DEF stages
  <2>5. PICK w : w = Record("loadgen", m, stages, "ok")
    OBVIOUS
  <2>6. /\ Attesting(w, batch[m]).status = w.status /\ Attesting(w, batch[m]).stages = w.stages
        /\ Attesting(w, batch[m]).membership = batch[m] /\ Attesting(w, batch[m]).batchSize = Cardinality(batch[m])
    BY <1>8, <2>5 DEF Attesting
  <2> QED
    BY <1>8, <2>1, <2>2, <2>4, <2>5, <2>6
<1>11. Written("triton", m).status = "ok" /\ DOMAIN Written("triton", m).stages = Told("triton")
  <2> DEFINE stages == {QueueStart, ComputeStart, ComputeEnd}
  <2>1. Written("triton", m) = Record("triton", m, stages, "ok")
    BY <1>1 DEF Written, TritonRecord
  <2>2. stages = Told("triton")
    BY <1>2 DEF Told, OwnStages
  <2>3. stages \subseteq DOMAIN ts[m]
    BY <1>1, <1>2
  <2> QED
    BY <1>8, <1>9, <2>1, <2>2, <2>3
<1>12. ASSUME cell # "D0" PROVE Written("proxy", m).status = "ok" /\ DOMAIN Written("proxy", m).stages = Told("proxy")
  <2> DEFINE stages == {ProxyRecv, ProxySend, ProxyRespRecv, ProxyFanout}
                         \cup (IF SealOwner(cell) = "proxy" THEN {CohortSeal} ELSE {})
  <2>1. Written("proxy", m) = [Record("proxy", m, stages, "ok") EXCEPT !.envelope = Envelope(m)]
    BY <1>1, <1>7, <1>12 DEF Written, ProxyRecord
  <2>2. stages = Told("proxy")
    BY DEF Told, OwnStages
  <2>3. stages \subseteq DOMAIN ts[m]
    BY <1>1, <1>2, <1>12, StagesNamed
  <2>4. DOMAIN Keeping(m, stages) = stages
    BY <1>9, <2>3
  <2> HIDE DEF stages
  <2>5. PICK w : w = Record("proxy", m, stages, "ok")
    OBVIOUS
  <2>6. [w EXCEPT !.envelope = Envelope(m)].status = w.status /\ [w EXCEPT !.envelope = Envelope(m)].stages = w.stages
    BY <1>8, <2>5
  <2> QED
    BY <1>8, <2>1, <2>2, <2>4, <2>5, <2>6
<1>13. ASSUME cell # "D0"
       PROVE  /\ Written("adapter", m).status = "ok" /\ DOMAIN Written("adapter", m).stages = Told("adapter")
              /\ Written("adapter", m).envelope = Envelope(m)
              /\ Written("adapter", m).dispatch =
                   [dispatched |-> Cardinality(Envelope(m)), skew |-> DispatchSkew(Envelope(m))]
  <2> DEFINE stages == {AdapterRecv, AdapterDispatch, AdapterResult, AdapterSend}
             dispatch == [dispatched |-> Cardinality(Envelope(m)), skew |-> DispatchSkew(Envelope(m))]
  <2>1. Written("adapter", m) = [Attesting(Record("adapter", m, stages, "ok"), batch[m])
                                   EXCEPT !.envelope = Envelope(m), !.dispatch = dispatch]
    BY <1>1 DEF Written, AdapterRecord
  <2>2. stages = Told("adapter")
    BY <1>2 DEF Told, OwnStages
  <2>3. stages \subseteq DOMAIN ts[m]
    BY <1>1, <1>2, <1>13, StagesNamed
  <2>4. DOMAIN Keeping(m, stages) = stages
    BY <1>9, <2>3
  <2>x. dispatch = [dispatched |-> Cardinality(Envelope(m)), skew |-> DispatchSkew(Envelope(m))]
    OBVIOUS
  <2> HIDE DEF stages, dispatch
  <2>5. PICK w : w = Record("adapter", m, stages, "ok")
    OBVIOUS
  <2>6. PICK v : v = Attesting(w, batch[m])
    OBVIOUS
  <2>7. /\ v.status = w.status /\ v.stages = w.stages
        /\ DOMAIN v = {"emitter", "member", "stages", "status", "domain", "version", "membership", "claimed",
                       "batchSize", "envelope", "dispatch"}
    BY <1>8, <2>5, <2>6 DEF Attesting
  <2>8. PICK u : u = [v EXCEPT !.envelope = Envelope(m), !.dispatch = dispatch]
    OBVIOUS
  <2>9. u.status = v.status /\ u.stages = v.stages /\ u.envelope = Envelope(m) /\ u.dispatch = dispatch
    BY <2>7, <2>8
  <2>10. Written("adapter", m) = u
    BY <2>1, <2>5, <2>6, <2>8
  <2>11. w.status = "ok" /\ DOMAIN w.stages = Told("adapter")
    BY <1>8, <2>2, <2>4, <2>5
  <2> QED
    BY <2>7, <2>9, <2>10, <2>11, <2>x
<1>14. \A e \in Leaving(m) : DOMAIN Written(e, m).stages = Told(e) /\ Written(e, m).status = "ok"
  BY <1>6, <1>10, <1>11, <1>12, <1>13 DEF Emitters
<1> QED
  BY <1>6, <1>10, <1>13, <1>14

\* The join of a member that was served shows all of it.
LEMMA ServedIsHonest ==
  ASSUME IInv, Done, Served, NEW m \in Members
  PROVE  Honest(JoinedOnce(m), m)
<1>t. /\ TypeOK /\ cell \in ImplementedCells /\ batch[m] \in SUBSET Members
      /\ \A n \in Members : DOMAIN ts[n] = TopologyMask(cell)
  BY ServedIsSound DEF IInv, TypeOK
<1>1. /\ Leaving(m) = IF cell = "D0" THEN {"loadgen", "triton"} ELSE Emitters
      /\ \A e \in Leaving(m) : DOMAIN Written(e, m).stages = Told(e)
      /\ \A e \in Leaving(m) : Written(e, m).status = "ok"
      /\ Written("loadgen", m).membership = batch[m] /\ Written("loadgen", m).batchSize = Cardinality(batch[m])
      /\ cell # "D0" => /\ Written("adapter", m).envelope = Envelope(m)
                        /\ Written("adapter", m).dispatch =
                             [dispatched |-> Cardinality(Envelope(m)), skew |-> DispatchSkew(Envelope(m))]
  BY ServedRecords
<1>m. /\ {Sched, ClientSend, ClientRecv, CohortSeal, QueueStart, ComputeStart, ComputeEnd} \subseteq TopologyMask(cell)
      /\ cell = "D0" => TopologyMask(cell) =
                          {Sched, ClientSend, ClientRecv, CohortSeal, QueueStart, ComputeStart, ComputeEnd}
      /\ cell # "D0" => TopologyMask(cell) = Stages
      /\ cell = "D0" => SealOwner(cell) = "loadgen"
      /\ SealOwner(cell) \in {"loadgen", "proxy"}
  BY <1>t, MaskNamed, PlaceValues DEF SealOwner
<1>2. \A s \in TopologyMask(cell) : \E e \in Leaving(m) : s \in Told(e)
  BY <1>1, <1>m
     DEF Told, OwnStages, Emitters, Stages, Sched, ClientSend, ProxyRecv, CohortSeal, ProxySend, AdapterRecv,
         AdapterDispatch, QueueStart, ComputeStart, ComputeEnd, AdapterResult, AdapterSend, ProxyRespRecv,
         ProxyFanout, ClientRecv
<1>3. Seen(m) = TopologyMask(cell)
  <2>1. Leaving(m) \subseteq Emitters
    BY DEF Leaving
  <2>2. \A e \in Leaving(m) : DOMAIN Written(e, m).stages \subseteq DOMAIN ts[m]
    BY <1>t, <2>1, WrittenIsFaithful DEF Faithful
  <2> QED
    BY <1>1, <1>2, <1>t, <2>2 DEF Seen
<1>4. \A s \in TopologyMask(cell) : s \in OwnedStages(cell, Teller(s))
  <2> SUFFICES ASSUME NEW s \in TopologyMask(cell) PROVE s \in OwnedStages(cell, Teller(s))
    OBVIOUS
  <2>1. \E e \in Emitters : s \in Told(e)
    BY <1>2 DEF Leaving
  <2>2. Teller(s) \in Emitters /\ s \in Told(Teller(s))
    BY <2>1, Zenon DEF Teller
  <2> QED
    BY <2>2 DEF OwnedStages, Told
<1>5. Outcome(m) = "ok"
  <2>1. Listing(Records(InOrder), Emitters)
    BY <1>t, RecordsList
  <2>2. Foremost(Outcome(m), m)
    BY <1>t, <2>1, StatusJoined
  <2> QED
    BY <1>1, <2>2 DEF Foremost
<1>6. batch[m] # {} /\ IsFiniteSet(batch[m]) /\ Cardinality(batch[m]) # 0
  <2>1. m \in batch[m]
    BY <1>m, <1>t, ServedIsSound DEF Executes
  <2>2. IsFiniteSet(batch[m])
    BY <1>t, MembersFacts, FS_Subset
  <2> QED
    BY <2>1, <2>2, FS_EmptySet
<1>7. Attests(m) # {} /\ Batches(m) # {}
  BY <1>1, <1>6 DEF Attests, Batches, Emitters
<1>8. ASSUME cell # "D0"
      PROVE  /\ Enveloping(m) # {}
             /\ Releasing(m) = {"adapter"}
  <2>1. Envelope(m) \in SUBSET Members /\ Envelope(m) # {}
    BY DEF Envelope
  <2>2. None # Envelope(m)
    BY <2>1, RunEvidenceAssumption DEF Members
  <2>3. Enveloping(m) # {}
    BY <1>1, <1>8, <2>2 DEF Enveloping, Emitters
  <2>4. DispatchSkew(Envelope(m)) \in Int
    BY <1>8, <1>m, <1>t, <2>1, SkewIsANumber, StagesNamed
  <2>5. Cardinality(Envelope(m)) \in Nat
    BY <2>1, MembersFacts, FS_Subset, FS_CardinalityType
  <2>6. [dispatched |-> Cardinality(Envelope(m)), skew |-> DispatchSkew(Envelope(m))] \in [dispatched : Nat, skew : Int]
    BY <2>4, <2>5
  <2>7. Written("adapter", m).dispatch # None
    BY <1>1, <1>8, <2>6, RunEvidenceAssumption
  <2>8. \A e \in Leaving(m) : Written(e, m).dispatch # None => e = "adapter"
    BY <1>t, WrittenIsFaithful DEF Faithful, Leaving
  <2> QED
    BY <1>1, <1>8, <2>3, <2>7, <2>8 DEF Releasing, Emitters
<1>9. PICK j : j = JoinedOnce(m)
  OBVIOUS
<1>10. /\ j.stages = [s \in TopologyMask(cell) |-> ts[m][s]]
       /\ j.owner = [s \in TopologyMask(cell) |-> Teller(s)]
       /\ j.status = "ok" /\ j.count = [e \in Emitters |-> IF Writes(e, m) THEN 1 ELSE 0]
       /\ j.domains = {"boot"} /\ j.versions = {1}
       /\ j.attested = [e \in Attests(m) |-> batch[m]]
       /\ j.membership = batch[m] /\ j.claimed = Cardinality(batch[m]) /\ j.batchSize = Cardinality(batch[m])
       /\ j.envelope = (IF Enveloping(m) = {} THEN None ELSE Envelope(m))
       /\ j.dispatch = [e \in Releasing(m) |-> Written(e, m).dispatch]
  BY <1>3, <1>5, <1>7, <1>9 DEF JoinedOnce
<1>11. cell # "D0" => /\ j.envelope = Envelope(m)
                      /\ DOMAIN j.dispatch = {"adapter"}
                      /\ j.dispatch["adapter"] =
                           [dispatched |-> Cardinality(Envelope(m)), skew |-> DispatchSkew(Envelope(m))]
  BY <1>1, <1>8, <1>10
<1>12. Honest(j, m)
  BY <1>4, <1>10, <1>11 DEF Honest
<1> QED
  BY <1>9, <1>12

-----------------------------------------------------------------------------
(* A run in which something happened.                                      *)

\* A part of the joined run.
LEMMA PartOf ==
  ASSUME NEW j, NEW S
  PROVE  DOMAIN Restrict(j, S) = S /\ \A m \in S : Restrict(j, S)[m] = j[m]
BY DEF Restrict

\* The whole cohort is of cohort 0.
LEMMA OneCohort ==
  ASSUME DOMAIN joined = Members
  PROVE  /\ Cohorts(joined) = {0}
         /\ DOMAIN OfCohort(joined, 0) = Members /\ \A m \in Members : OfCohort(joined, 0)[m] = joined[m]
<1>1. \A m \in Members : CohortOf(m) = 0
  BY MembersFacts
<1>2. 0 \in Members
  BY MembersFacts
<1>3. Cohorts(joined) = {0}
  BY <1>1, <1>2 DEF Cohorts
<1>4. {m \in DOMAIN joined : CohortOf(m) = 0} = Members
  BY <1>1
<1> QED
  BY <1>3, <1>4, PartOf DEF OfCohort

\* What the join of a cohort that was served shows.
LEMMA ServedJoin ==
  ASSUME IInv, Done, Served
  PROVE  DOMAIN joined = Members /\ \A m \in Members : Honest(joined[m], m)
BY VerdictOnRecords, ServedIsHonest

\* A cohort that was served has formed, and no check leaves it out.
LEMMA ServedIsShown ==
  ASSUME IInv, Done, Served
  PROVE  FailedCohorts(cell, joined) = {} /\ Shown(cell, joined) = joined
<1>1. joined = [m \in Members |-> JoinedOnce(m)] /\ cell \in ImplementedCells
  BY VerdictOnRecords DEF IInv, TypeOK
<1>2. DOMAIN joined = Members /\ \A m \in Members : Honest(joined[m], m)
  BY ServedJoin
<1>3. FailedCohorts(cell, joined) = {}
  <2> SUFFICES ASSUME AggregatesEnvelopes(cell), NEW c \in Cohorts(joined), Unformed(OfCohort(joined, c)) PROVE FALSE
    BY DEF FailedCohorts
  <2>1. cell # "D0"
    BY DEF AggregatesEnvelopes
  <2>2. \A m \in Members : ProxyRecv \in DOMAIN joined[m].stages
    BY <1>1, <1>2, <2>1, MaskNamed, StagesNamed DEF Honest
  <2>3. \A m \in DOMAIN OfCohort(joined, c) : m \in Members /\ OfCohort(joined, c)[m] = joined[m]
    BY <1>2, PartOf DEF OfCohort
  <2>4. Absent(OfCohort(joined, c)) = {}
    BY <2>2, <2>3 DEF Absent, Carrying, Has
  <2> QED
    BY <2>4 DEF Unformed
<1>4. {m \in DOMAIN joined : CohortOf(m) \notin FailedCohorts(cell, joined)} = Members
  BY <1>2, <1>3
<1>5. Shown(cell, joined) = [m \in Members |-> joined[m]]
  BY <1>4 DEF Shown, Restrict
<1> QED
  BY <1>1, <1>3, <1>5

\* A member that was not served is named.
LEMMA FailureIsNamed ==
  ASSUME IInv, Done, ~Served
  PROVE  "request_failed" \in defects
<1>t. TypeOK /\ \A m \in Members : Fate(m)
  BY DEF IInv
<1>1. /\ joined = [m \in Members |-> JoinedOnce(m)] /\ defects = Validate(Expected, joined)
      /\ \A m \in Members : pc[m] = "recorded"
  BY VerdictOnRecords
<1>2. PICK m \in Members : status[m] # "ok"
  BY DEF Served
<1>3. status[m] \in {"error", "timeout"}
  BY <1>t, <1>1, <1>2 DEF TypeOK, Fate
<1>4. Written("loadgen", m).status = status[m]
  <2>1. Written("loadgen", m) = LoadGenRecord(m)
    BY DEF Written
  <2>2. \A stages, outcome : /\ Record("loadgen", m, stages, outcome).status = outcome
                             /\ DOMAIN Record("loadgen", m, stages, outcome) =
                                  {"emitter", "member", "stages", "status", "domain", "version", "membership",
                                   "claimed", "batchSize", "envelope", "dispatch"}
    BY DEF Record
  <2> DEFINE stages == {Sched, ClientSend, ClientRecv} \cup (IF SealOwner(cell) = "loadgen" THEN {CohortSeal} ELSE {})
             set == IF status[m] = "ok" THEN batch[m] ELSE {}
  <2>x. LoadGenRecord(m) = Attesting(Record("loadgen", m, stages, status[m]), set)
    BY DEF LoadGenRecord
  <2> HIDE DEF stages, set
  <2>3. PICK w : w = Record("loadgen", m, stages, status[m])
    OBVIOUS
  <2>4. Attesting(w, set).status = w.status
    BY <2>2, <2>3 DEF Attesting
  <2> QED
    BY <2>1, <2>2, <2>3, <2>4, <2>x
<1>5. Foremost(Outcome(m), m)
  BY <1>t, RecordsList, StatusJoined
<1>6. StatusRank(status[m]) <= StatusRank(Outcome(m))
  <2>1. "loadgen" \in Leaving(m)
    BY DEF Leaving, Writes, Emitters
  <2> QED
    BY <1>4, <1>5, <2>1 DEF Foremost
<1>7. Outcome(m) # "ok"
  BY <1>3, <1>6, RanksDiffer
<1>8. joined[m].status # "ok"
  BY <1>1, <1>7 DEF JoinedOnce
<1>9. m \in Requests(Expected) \cap DOMAIN joined
  BY <1>1, RequestsAreMembers
<1>10. "request_failed" \in checkRecordIntegrity(Expected, joined)
  BY <1>8, <1>9 DEF checkRecordIntegrity, When
<1> QED
  BY <1>1, <1>10 DEF Validate

\* An execution of several is named by what the members attested and by the
\* backend's statistics.
LEMMA CoalescingIsNamed ==
  ASSUME IInv, Done, Served, Coalesced
  PROVE  {"membership_mismatch", "coalesced_singles"} \subseteq defects
<1>1. defects = Validate(Expected, joined)
  BY VerdictOnRecords
<1>2. DOMAIN joined = Members /\ \A m \in Members : Honest(joined[m], m)
  BY ServedJoin
<1>3. Shown(Expected.cell, joined) = joined
  BY ServedIsShown, ExpectedFields
<1>4. PICK m \in Members : Cardinality(batch[m]) > 1
  BY DEF Coalesced
<1>5. cell \in ImplementedCells /\ batch[m] \in SUBSET Members
  BY DEF IInv, TypeOK
<1>6. Cardinality(batch[m]) \in Nat
  BY <1>5, MembersFacts, FS_Subset, FS_CardinalityType
<1>7. "membership_mismatch" \in attestation(Expected, m, joined[m])
  <2>1. joined[m].membership = batch[m]
    BY <1>2 DEF Honest
  <2>2. Expected.batchSize = 1
    BY ExpectedFields
  <2>3. Cardinality(joined[m].membership) # 0 /\ Cardinality(joined[m].membership) # 1
    BY <1>4, <1>6, <2>1
  <2> QED
    BY <2>2, <2>3 DEF attestation
<1>8. "membership_mismatch" \in checkMembership(Expected, joined)
  BY <1>2, <1>7 DEF checkMembership
<1>9. "coalesced_singles" \in checkContamination(Expected)
  <2>1. ComputeEnd \in DOMAIN ts[m]
    BY <1>5, MaskNamed, ServedIsSound
  <2>2. m \in Executed
    BY <2>1 DEF Executed
  <2>3. Cardinality(batch[m]) \in DOMAIN Expected.histogram
    BY <2>2, ExpectedFields
  <2>4. Cardinality(batch[m]) # 1
    BY <1>4, <1>6
  <2>5. DOMAIN Expected.histogram \ {Expected.batchSize} # {}
    BY <2>3, <2>4, ExpectedFields
  <2> QED
    BY <2>5 DEF checkContamination, When
<1> QED
  BY <1>1, <1>3, <1>8, <1>9 DEF Validate

\* In every honest run, of a cohort of every size: a lost member and a coalesced
\* execution are named, and the order in which the streams are read decides nothing.
THEOREM UnsoundRunsAreNamed == Spec => []UnsoundRunIsNamed
<1>1. IInv => UnsoundRunIsNamed
  BY FailureIsNamed, CoalescingIsNamed, VerdictOnRecords DEF UnsoundRunIsNamed
<1> QED
  BY <1>1, InvariantHolds, PTL

-----------------------------------------------------------------------------
(* A run in which nothing happened: no check but those of durations finds  *)
(* anything in what the processes left.                                    *)

\* A check reports its kind or nothing.
LEMMA WhenReports ==
  ASSUME NEW condition, NEW kind
  PROVE  When(condition, kind) \subseteq {kind} /\ (~condition => When(condition, kind) = {})
BY DEF When

\* Every member was executed, on its own.
LEMMA ExecutedAlone ==
  ASSUME IInv, Done, Served, ~Coalesced
  PROVE  Executed = Members /\ \A m \in Members : batch[m] = {m}
<1>t. TypeOK /\ cell \in ImplementedCells
  BY DEF IInv, TypeOK
<1>1. ASSUME NEW m \in Members PROVE ComputeEnd \in DOMAIN ts[m] /\ batch[m] = {m}
  <2>1. DOMAIN ts[m] = TopologyMask(cell) /\ Executes(m)
    BY ServedIsSound
  <2>2. ComputeStart \in DOMAIN ts[m] /\ ComputeEnd \in DOMAIN ts[m]
    BY <1>t, <2>1, MaskNamed
  <2>3. m \in batch[m] /\ batch[m] \in SUBSET Members
    BY <1>t, <2>1, <2>2 DEF Executes, TypeOK
  <2>4. IsFiniteSet(batch[m]) /\ Cardinality(batch[m]) \in Nat
    BY <2>3, MembersFacts, FS_Subset, FS_CardinalityType
  <2>5. Cardinality(batch[m]) <= 1
    BY <2>4 DEF Coalesced
  <2>6. Cardinality({m}) = 1 /\ Cardinality({m}) <= Cardinality(batch[m])
    BY <2>3, <2>4, FS_Subset, FS_Singleton
  <2>7. Cardinality(batch[m]) = Cardinality({m}) /\ {m} \in SUBSET batch[m]
    BY <2>3, <2>4, <2>5, <2>6
  <2> QED
    BY <2>2, <2>4, <2>7, FS_Subset
<1> QED
  BY <1>1 DEF Executed

\* One envelope for the cohort, and its five instants are one each.
LEMMA AggregationIsClean ==
  ASSUME IInv, Done, Served
  PROVE  checkAggregation(cell, joined) = {}
<1> SUFFICES ASSUME AggregatesEnvelopes(cell) PROVE checkAggregation(cell, joined) = {}
  BY DEF checkAggregation
<1>t. TypeOK /\ Agreeing /\ cell \in ImplementedCells /\ cell # "D0"
  BY DEF IInv, TypeOK, AggregatesEnvelopes
<1>1. DOMAIN joined = Members /\ \A m \in Members : Honest(joined[m], m)
  BY ServedJoin
<1>2. Shown(cell, joined) = joined
  BY ServedIsShown
<1>3. /\ Cohorts(joined) = {0}
      /\ DOMAIN OfCohort(joined, 0) = Members /\ \A m \in Members : OfCohort(joined, 0)[m] = joined[m]
  BY <1>1, OneCohort
<1>4. \A m \in Members : joined[m].envelope = Members
  BY <1>1, <1>t DEF Honest, Envelope
<1>5. 0 \in Members /\ Members # None
  <2>1. 0 \in Members
    BY MembersFacts
  <2>2. Members \in SUBSET CohortMembers(0, TargetB)
    BY DEF Members
  <2> QED
    BY <2>1, <2>2, RunEvidenceAssumption
<1>6. EnvelopesOf(joined) = {Members} /\ EnvelopesOf(OfCohort(joined, 0)) = {Members}
  BY <1>1, <1>3, <1>4, <1>5 DEF EnvelopesOf
<1>7. ASSUME NEW s \in EnvelopeStages PROVE ~(Cardinality(Instants(OfCohort(joined, 0), s)) > 1)
  <2>1. s \in TopologyMask(cell)
    BY <1>t, MaskNamed, StagesNamed DEF EnvelopeStages
  <2>2. \A m \in Members : DOMAIN ts[m] = TopologyMask(cell)
    BY ServedIsSound
  <2>3. \A m \in Members : ts[m][s] = ts[0][s]
    BY <1>5, <1>t, <2>1, <2>2 DEF Agreeing
  <2>4. \A m \in Members : s \in DOMAIN joined[m].stages /\ joined[m].stages[s] = ts[0][s]
    BY <1>1, <2>1, <2>3 DEF Honest
  <2>5. Instants(OfCohort(joined, 0), s) = {ts[0][s]}
    BY <1>3, <1>5, <2>4 DEF Instants, Carrying, Has
  <2>6. Cardinality({ts[0][s]}) = 1
    BY FS_Singleton
  <2> QED
    BY <2>5, <2>6
<1>8. ~(Cardinality(envelopeOwners(joined, Members)) > 1)
  <2>1. \A m \in Members : CohortOf(m) = 0
    BY MembersFacts
  <2>2. envelopeOwners(joined, Members) = {0}
    BY <1>1, <1>4, <1>5, <2>1 DEF envelopeOwners
  <2> QED
    BY <2>2, FS_Singleton
<1>9. Cardinality({Members}) = 1
  BY FS_Singleton
<1>10. ~\E c \in Cohorts(joined) : Cardinality(EnvelopesOf(OfCohort(joined, c))) # 1
  BY <1>3, <1>6, <1>9
<1>11. ~\E c \in Cohorts(joined) : \E s \in EnvelopeStages : Cardinality(Instants(OfCohort(joined, c), s)) > 1
  BY <1>3, <1>7
<1>12. ~\E e \in EnvelopesOf(joined) : Cardinality(envelopeOwners(joined, e)) > 1
  BY <1>6, <1>8
<1> QED
  BY <1>2, <1>10, <1>11, <1>12, WhenReports DEF checkAggregation

\* Every request is there, once, and went well.
LEMMA IntegrityIsClean ==
  ASSUME IInv, Done, Served
  PROVE  checkRecordIntegrity(Expected, joined) = {}
<1>1. DOMAIN joined = Members /\ \A m \in Members : Honest(joined[m], m)
  BY ServedJoin
<1>2. Requests(Expected) = Members /\ Expected.dropped = 0
  BY RequestsAreMembers, ExpectedFields
<1>3. ASSUME NEW m \in Members
      PROVE  /\ joined[m].status = "ok" /\ Cardinality(joined[m].versions) = 1
             /\ \A e \in Emitters : ~(joined[m].count[e] > 1)
  <2>1. joined[m].status = "ok" /\ joined[m].versions = {1} /\ \A e \in Emitters : joined[m].count[e] \in {0, 1}
    BY <1>1 DEF Honest
  <2>2. Cardinality({1}) = 1
    BY FS_Singleton
  <2> QED
    BY <2>1, <2>2
<1>4. Requests(Expected) \cap DOMAIN joined = Members
  BY <1>1, <1>2
<1>5. ~(Expected.dropped > 0) /\ Requests(Expected) \ DOMAIN joined = {} /\ DOMAIN joined \ Requests(Expected) = {}
  BY <1>1, <1>2
<1>6. /\ ~\E m \in Members : \E e \in Emitters : joined[m].count[e] > 1
      /\ ~\E m \in Members : Cardinality(joined[m].versions) > 1
      /\ ~\E m \in Members : joined[m].status # "ok"
  BY <1>3
<1> QED
  BY <1>4, <1>5, <1>6 DEF checkRecordIntegrity, When

\* One clock, every stage of the topology and no other, each from its owner.
LEMMA StagesAreClean ==
  ASSUME IInv, Done, Served
  PROVE  /\ checkClockDomain(Expected, joined) = {}
         /\ checkPresence(cell, joined) = {}
         /\ checkStageOwnership(cell, joined) = {}
<1>1. DOMAIN joined = Members /\ \A m \in Members : Honest(joined[m], m)
  BY ServedJoin
<1>2. Expected.domain = "boot"
  BY ExpectedFields
<1>3. checkClockDomain(Expected, joined) = {}
  <2>1. \A m \in Members : joined[m].domains = {"boot"}
    BY <1>1 DEF Honest
  <2>3. Cardinality({"boot"}) = 1
    BY FS_Singleton
  <2>2. ~\E m \in DOMAIN joined : \/ Cardinality(joined[m].domains) > 1
                                  \/ Expected.domain # None /\ joined[m].domains # {Expected.domain}
    BY <1>1, <1>2, <2>1, <2>3
  <2> QED
    BY <2>2, WhenReports DEF checkClockDomain
<1>4. checkPresence(cell, joined) = {}
  <2>1. \A m \in DOMAIN joined : DOMAIN joined[m].stages = TopologyMask(cell)
    BY <1>1 DEF Honest
  <2>2. /\ ~\E m \in DOMAIN joined : TopologyMask(cell) \ DOMAIN joined[m].stages # {}
        /\ ~\E m \in DOMAIN joined : DOMAIN joined[m].stages \ TopologyMask(cell) # {}
    BY <2>1
  <2> QED
    BY <2>2, WhenReports DEF checkPresence
<1>5. checkStageOwnership(cell, joined) = {}
  <2>1. ~\E m \in DOMAIN joined : \E s \in DOMAIN joined[m].stages : s \notin OwnedStages(cell, joined[m].owner[s])
    BY <1>1 DEF Honest
  <2> QED
    BY <2>1, WhenReports DEF checkStageOwnership
<1> QED
  BY <1>3, <1>4, <1>5

\* A chain runs through the topology in the order of its places.
LEMMA ChainsRise ==
  ASSUME cell \in ImplementedCells, NEW i \in DOMAIN Chain(cell)
  PROVE  Place(Chain(cell)[i].start) <= Place(Chain(cell)[i].end)
<1> DEFINE Rising == {span \in [start : Stages, end : Stages, accounted : BOOLEAN] :
                       Place(span.start) <= Place(span.end)}
<1>1. \A s \in Stages : Place(s) = IF s = 4 /\ cell # "F10" THEN 3 ELSE 2 * s
  BY PlaceValues
<1>2. \A a, b \in Stages : Place(a) <= Place(b) => Span(a, b, TRUE) \in Rising /\ Span(a, b, FALSE) \in Rising
  BY DEF Span
<1> HIDE DEF Rising
<1>3. /\ Place(Sched) <= Place(ClientSend) /\ Place(ClientSend) <= Place(ProxyRecv)
      /\ Place(ClientSend) <= Place(QueueStart) /\ Place(ProxyRecv) <= Place(ProxySend)
      /\ Place(ProxySend) <= Place(AdapterRecv) /\ Place(AdapterRecv) <= Place(AdapterDispatch)
      /\ Place(AdapterDispatch) <= Place(QueueStart) /\ Place(QueueStart) <= Place(ComputeStart)
      /\ Place(ComputeStart) <= Place(ComputeEnd) /\ Place(ComputeEnd) <= Place(AdapterResult)
      /\ Place(AdapterResult) <= Place(AdapterSend) /\ Place(AdapterSend) <= Place(ProxyRespRecv)
      /\ Place(ProxyRespRecv) <= Place(ProxyFanout) /\ Place(ProxyFanout) <= Place(ClientRecv)
      /\ Place(ComputeEnd) <= Place(ClientRecv)
      /\ cell # "F10" => Place(Sched) <= Place(CohortSeal) /\ Place(CohortSeal) <= Place(ClientSend)
      /\ cell = "F10" => Place(ProxyRecv) <= Place(CohortSeal) /\ Place(CohortSeal) <= Place(ProxySend)
  BY <1>1 DEF Stages, Sched, ClientSend, ProxyRecv, CohortSeal, ProxySend, AdapterRecv, AdapterDispatch,
              QueueStart, ComputeStart, ComputeEnd, AdapterResult, AdapterSend, ProxyRespRecv,
              ProxyFanout, ClientRecv
<1>4. /\ Sched \in Stages /\ ClientSend \in Stages /\ ProxyRecv \in Stages /\ CohortSeal \in Stages
      /\ ProxySend \in Stages /\ AdapterRecv \in Stages /\ AdapterDispatch \in Stages /\ QueueStart \in Stages
      /\ ComputeStart \in Stages /\ ComputeEnd \in Stages /\ AdapterResult \in Stages /\ AdapterSend \in Stages
      /\ ProxyRespRecv \in Stages /\ ProxyFanout \in Stages /\ ClientRecv \in Stages
  BY StagesNamed
<1>5. /\ Span(Sched, ClientSend, FALSE) \in Rising /\ Span(ClientSend, ProxyRecv, TRUE) \in Rising
      /\ Span(ClientSend, QueueStart, TRUE) \in Rising /\ Span(ProxyRecv, ProxySend, TRUE) \in Rising
      /\ Span(ComputeEnd, ClientRecv, TRUE) \in Rising
  BY <1>2, <1>3, <1>4, Zenon
<1>6. /\ Span(ProxySend, AdapterRecv, TRUE) \in Rising /\ Span(AdapterRecv, AdapterDispatch, FALSE) \in Rising
      /\ Span(AdapterDispatch, QueueStart, TRUE) \in Rising /\ Span(QueueStart, ComputeStart, TRUE) \in Rising
      /\ Span(ComputeStart, ComputeEnd, TRUE) \in Rising /\ Span(ComputeEnd, AdapterResult, TRUE) \in Rising
      /\ Span(AdapterResult, AdapterSend, FALSE) \in Rising /\ Span(AdapterSend, ProxyRespRecv, TRUE) \in Rising
      /\ Span(ProxyRespRecv, ProxyFanout, TRUE) \in Rising /\ Span(ProxyFanout, ClientRecv, TRUE) \in Rising
  BY <1>2, <1>3, <1>4, Zenon
<1>7. cell # "F10" => Span(Sched, CohortSeal, FALSE) \in Rising /\ Span(CohortSeal, ClientSend, FALSE) \in Rising
  BY <1>2, <1>3, <1>4, Zenon
<1>8. cell = "F10" => Span(ProxyRecv, CohortSeal, TRUE) \in Rising /\ Span(CohortSeal, ProxySend, TRUE) \in Rising
  BY <1>2, <1>3, <1>4, Zenon
<1>9. sharedPathTail \in Seq(Rising)
  <2>1. \A a, b, c, d, e, f, g, h, k, l \in Rising : <<a, b, c, d, e, f, g, h, k, l>> \in Seq(Rising)
    OBVIOUS
  <2> QED
    BY <1>6, <2>1, Zenon DEF sharedPathTail
<1>10. \A a, b, c, d \in Rising : <<a, b, c, d>> \o sharedPathTail \in Seq(Rising)
  <2>1. \A a, b, c, d \in Rising : <<a, b, c, d>> \in Seq(Rising)
    OBVIOUS
  <2> QED
    BY <1>9, <2>1, ConcatProperties
<1>11. ASSUME cell = "D0" PROVE Chain(cell) \in Seq(Rising)
  <2>1. \A a, b, c, d, e, f \in Rising : <<a, b, c, d, e, f>> \in Seq(Rising)
    OBVIOUS
  <2>2. Chain(cell) = << Span(Sched, CohortSeal, FALSE), Span(CohortSeal, ClientSend, FALSE),
            Span(ClientSend, QueueStart, TRUE), Span(QueueStart, ComputeStart, TRUE),
            Span(ComputeStart, ComputeEnd, TRUE), Span(ComputeEnd, ClientRecv, TRUE) >>
    BY <1>11 DEF Chain
  <2>3. Span(Sched, CohortSeal, FALSE) \in Rising /\ Span(CohortSeal, ClientSend, FALSE) \in Rising
    BY <1>7, <1>11
  <2>4. << Span(Sched, CohortSeal, FALSE), Span(CohortSeal, ClientSend, FALSE),
            Span(ClientSend, QueueStart, TRUE), Span(QueueStart, ComputeStart, TRUE),
            Span(ComputeStart, ComputeEnd, TRUE), Span(ComputeEnd, ClientRecv, TRUE) >> \in Seq(Rising)
    BY <1>5, <1>6, <2>1, <2>3, Zenon
  <2> QED
    BY <2>2, <2>4, Zenon
<1>12. ASSUME cell = "F00" PROVE Chain(cell) \in Seq(Rising)
  <2>1. Chain(cell) = << Span(Sched, CohortSeal, FALSE), Span(CohortSeal, ClientSend, FALSE),
            Span(ClientSend, ProxyRecv, TRUE), Span(ProxyRecv, ProxySend, TRUE) >> \o sharedPathTail
    BY <1>12 DEF Chain
  <2>2. Span(Sched, CohortSeal, FALSE) \in Rising /\ Span(CohortSeal, ClientSend, FALSE) \in Rising
    BY <1>7, <1>12
  <2> QED
    BY <1>5, <1>10, <2>1, <2>2, Zenon
<1>13. ASSUME cell = "F10" PROVE Chain(cell) \in Seq(Rising)
  <2>1. Chain(cell) = << Span(Sched, ClientSend, FALSE), Span(ClientSend, ProxyRecv, TRUE),
            Span(ProxyRecv, CohortSeal, TRUE), Span(CohortSeal, ProxySend, TRUE) >> \o sharedPathTail
    BY <1>13 DEF Chain
  <2> QED
    BY <1>5, <1>8, <1>10, <1>13, <2>1, Zenon
<1>14. Chain(cell) \in Seq(Rising)
  BY <1>11, <1>12, <1>13 DEF ImplementedCells
<1>15. Chain(cell)[i] \in Rising
  BY <1>14
<1> QED
  BY <1>15 DEF Rising

\* A served member's instants are numbers, in the order of their places.
LEMMA ServedInstants ==
  ASSUME IInv, Done, Served, NEW m \in Members, NEW s \in TopologyMask(cell)
  PROVE  ts[m][s] \in Nat /\ ts[m][s] <= now /\ now \in Nat
BY ServedIsSound DEF IInv, TypeOK, Clocked

\* No span of the chain is negative.
LEMMA OrderingIsClean ==
  ASSUME IInv, Done, Served
  PROVE  checkOrdering(cell, joined) = {}
<1>t. cell \in ImplementedCells
  BY DEF IInv, TypeOK
<1>1. DOMAIN joined = Members /\ \A m \in Members : Honest(joined[m], m)
  BY ServedJoin
<1>2. ASSUME NEW m \in Members, NEW i \in DOMAIN Chain(cell),
             Has(joined[m], Chain(cell)[i].start), Has(joined[m], Chain(cell)[i].end)
      PROVE  ~(joined[m].stages[Chain(cell)[i].end] < joined[m].stages[Chain(cell)[i].start])
  <2>1. PICK a, b : a = Chain(cell)[i].start /\ b = Chain(cell)[i].end
    OBVIOUS
  <2>2. Place(a) <= Place(b)
    BY <1>t, <2>1, ChainsRise
  <2>3. a \in TopologyMask(cell) /\ b \in TopologyMask(cell)
    BY <1>1, <1>2, <2>1 DEF Has, Honest
  <2>4. joined[m].stages[a] = ts[m][a] /\ joined[m].stages[b] = ts[m][b]
    BY <1>1, <2>3 DEF Honest
  <2>5. ts[m][a] <= ts[m][b]
    BY <2>2, <2>3, ServedIsSound DEF Ordered
  <2>6. ts[m][a] \in Nat /\ ts[m][b] \in Nat
    BY <2>3, ServedInstants
  <2>7. ~(ts[m][b] < ts[m][a])
    BY <2>5, <2>6
  <2> QED
    BY <2>1, <2>4, <2>7
<1>3. ~\E m \in DOMAIN joined : \E i \in DOMAIN Chain(cell) :
         LET span == Chain(cell)[i] IN
         /\ Has(joined[m], span.start) /\ Has(joined[m], span.end)
         /\ joined[m].stages[span.end] < joined[m].stages[span.start]
  BY <1>1, <1>2
<1> QED
  BY <1>3, WhenReports DEF checkOrdering

\* Each member attested the execution it had to itself.
LEMMA MembershipIsClean ==
  ASSUME IInv, Done, Served, ~Coalesced
  PROVE  checkMembership(Expected, joined) = {}
<1>1. DOMAIN joined = Members /\ \A m \in Members : Honest(joined[m], m)
  BY ServedJoin
<1>2. ASSUME NEW m \in Members PROVE attestation(Expected, m, joined[m]) = {}
  <2>1. PICK j : j = joined[m]
    OBVIOUS
  <2>2. j.membership = {m} /\ j.claimed = Cardinality({m}) /\ j.batchSize = Cardinality({m})
    BY <1>1, <2>1, ExecutedAlone DEF Honest
  <2>3. Cardinality({m}) = 1 /\ Cardinality(j.membership) = 1 /\ j.claimed = 1 /\ j.batchSize = 1
    BY <2>2, FS_Singleton
  <2>4. Expected.batchSize = 1 /\ Expected.cohortSize = TargetB
    BY ExpectedFields
  <2>5. /\ When(j.claimed # Cardinality(j.membership), "truncated_evidence") = {}
        /\ When(m \notin j.membership, "membership_mismatch") = {}
    BY <2>2, <2>3 DEF When
  <2>6. ~\E u \in j.membership : \/ CohortOf(u) # CohortOf(m)
                                 \/ OrdinalOf(u) >= Expected.cohortSize
    <3>1. OrdinalOf(m) = m /\ m \in Nat /\ OrdinalOf(m) < TargetB
      BY MembersFacts
    <3>2. ~(OrdinalOf(m) >= TargetB)
      BY <3>1, RunEvidenceAssumption
    <3> QED
      BY <2>2, <2>4, <3>2
  <2>7. When(\/ j.batchSize # Expected.batchSize
             \/ \E u \in j.membership : \/ CohortOf(u) # CohortOf(m)
                                        \/ OrdinalOf(u) >= Expected.cohortSize,
             "membership_mismatch") = {}
    BY <2>3, <2>4, <2>6 DEF When
  <2> DEFINE echo == Expected.batchSize > 1 /\ j.membership = {m}
             rest == When(\/ j.batchSize # Expected.batchSize
                          \/ \E u \in j.membership : \/ CohortOf(u) # CohortOf(m)
                                                     \/ OrdinalOf(u) >= Expected.cohortSize,
                          "membership_mismatch")
             sized == IF Cardinality(j.membership) # Expected.batchSize
                      THEN {IF echo THEN "own_uid_echo" ELSE "membership_mismatch"} ELSE rest
  <2>8. attestation(Expected, m, j) = {}
    <3>1. attestation(Expected, m, j) =
            CASE Cardinality(j.membership) = 0 -> {"membership_mismatch"}
              [] OTHER -> When(j.claimed # Cardinality(j.membership), "truncated_evidence")
                          \cup When(m \notin j.membership, "membership_mismatch") \cup sized
      BY DEF attestation
    <3>2. sized = {}
      BY <2>3, <2>4, <2>7
    <3> HIDE DEF sized
    <3> QED
      BY <2>3, <2>5, <3>1, <3>2
  <2> QED
    BY <2>1, <2>8
<1>3. ~\E m \in DOMAIN joined : \E a, b \in DOMAIN joined[m].attested : joined[m].attested[a] # joined[m].attested[b]
  <2>1. \A m \in Members : \A a \in DOMAIN joined[m].attested : joined[m].attested[a] = batch[m]
    BY <1>1, Zenon DEF Honest
  <2> QED
    BY <1>1, <2>1
<1>4. When(\E m \in DOMAIN joined : \E a, b \in DOMAIN joined[m].attested :
             joined[m].attested[a] # joined[m].attested[b], "membership_disagreement") = {}
  BY <1>3 DEF When
<1>5. UNION {attestation(Expected, m, joined[m]) : m \in DOMAIN joined} = {}
  BY <1>1, <1>2
<1> QED
  BY <1>4, <1>5 DEF checkMembership

\* The backend executed as many as there are members, each of size one.
LEMMA ContaminationIsClean ==
  ASSUME IInv, Done, Served, ~Coalesced
  PROVE  checkContamination(Expected) = {}
<1>1. Executed = Members /\ \A m \in Members : batch[m] = {m}
  BY ExecutedAlone
<1>m. 0 \in Members /\ IsFiniteSet(Members) /\ Cardinality(Members) = TargetB
  BY MembersFacts
<1> DEFINE singles == {{m} : m \in Members}
<1>2. {batch[m] : m \in Executed} = singles
  BY <1>1
<1>3. Cardinality(singles) = TargetB
  <2>1. PICK f : f = [m \in Members |-> {m}]
    OBVIOUS
  <2>2. f \in Bijection(Members, singles)
    BY <2>1 DEF Bijection, Injection, Surjection, IsInjective
  <2>3. ExistsBijection(Members, singles)
    BY <2>2 DEF ExistsBijection
  <2> QED
    BY <1>m, <2>3, FS_Bijection
<1>4. {Cardinality(b) : b \in singles} = {1}
  <2>1. \A m \in Members : Cardinality({m}) = 1
    BY FS_Singleton
  <2> QED
    BY <1>m, <2>1
<1> HIDE DEF singles
<1>5. /\ Expected.executionDelta = TargetB /\ Expected.inferenceDelta = TargetB
      /\ DOMAIN Expected.histogram = {1} /\ Expected.executions = TargetB
      /\ Expected.cohortCount = 1 /\ Expected.cohortSize = TargetB /\ Expected.batchSize = 1
  BY <1>1, <1>2, <1>3, <1>4, <1>m, ExpectedFields
<1>6. Expected.histogram # <<>>
  <2>1. DOMAIN <<>> = {}
    OBVIOUS
  <2>2. 1 \in DOMAIN Expected.histogram
    BY <1>5
  <2> QED
    BY <2>1, <2>2, Zenon
<1>7. 1 * TargetB = TargetB
  BY RunEvidenceAssumption
<1>8. DOMAIN Expected.histogram \ {Expected.batchSize} = {}
  BY <1>5
<1>9. Expected.inferenceDelta = Expected.cohortCount * Expected.cohortSize
  BY <1>5, <1>7
<1> QED
  BY <1>5, <1>6, <1>8, <1>9 DEF checkContamination, When

\* The executions followed one another.
LEMMA SerializationIsClean ==
  ASSUME IInv, Done, Served, ~Coalesced
  PROVE  checkExecutionSerialization(cell, joined) = {}
<1>t. /\ cell \in ImplementedCells
      /\ \A m, n \in Members : Sound(m) /\ Sound(n) => Exclusive(m, n)
  BY DEF IInv, TypeOK
<1>1. DOMAIN joined = Members /\ \A m \in Members : Honest(joined[m], m)
  BY ServedJoin
<1>2. /\ Cohorts(joined) = {0}
      /\ DOMAIN OfCohort(joined, 0) = Members /\ \A m \in Members : OfCohort(joined, 0)[m] = joined[m]
  BY <1>1, OneCohort
<1> DEFINE windows == Windows(OfCohort(joined, 0), ComputeStart, ComputeEnd)
<1>m. ComputeStart \in TopologyMask(cell) /\ ComputeEnd \in TopologyMask(cell)
  BY <1>t, MaskNamed
<1>3. \A m \in Members : /\ joined[m].stages[ComputeStart] = ts[m][ComputeStart]
                         /\ joined[m].stages[ComputeEnd] = ts[m][ComputeEnd]
  BY <1>1, <1>m DEF Honest
<1>4. ASSUME NEW w \in windows
      PROVE  w.member \in Members /\ w.start = ts[w.member][ComputeStart] /\ w.end = ts[w.member][ComputeEnd]
  <2>1. PICK m \in DOMAIN OfCohort(joined, 0) :
          w = [start |-> OfCohort(joined, 0)[m].stages[ComputeStart], end |-> OfCohort(joined, 0)[m].stages[ComputeEnd],
               member |-> m]
    BY <1>4 DEF Windows, Carrying
  <2>2. m \in Members /\ OfCohort(joined, 0)[m] = joined[m]
    BY <1>2, <2>1
  <2> QED
    BY <1>3, <2>1, <2>2
<1> HIDE DEF windows
<1>5. ASSUME NEW v \in windows, NEW w \in windows, Before(v, w) PROVE ~Overlapping(v, w)
  <2>1. PICK m \in Members, n \in Members : m = v.member /\ n = w.member
    BY <1>4
  <2>2. /\ v.start = ts[m][ComputeStart] /\ v.end = ts[m][ComputeEnd]
        /\ w.start = ts[n][ComputeStart] /\ w.end = ts[n][ComputeEnd]
    BY <1>4, <2>1
  <2>3. m \in Nat /\ n \in Nat
    BY MembersFacts
  <2>4. ts[m][ComputeStart] \in Nat /\ ts[m][ComputeEnd] \in Nat /\ ts[n][ComputeStart] \in Nat /\ ts[n][ComputeEnd] \in Nat
    BY <1>m, ServedInstants
  <2>5. Exclusive(m, n) /\ Executes(m) /\ Executes(n)
    BY <1>t, ServedIsSound
  <2>6. /\ ComputeStart \in DOMAIN ts[m] /\ ComputeStart \in DOMAIN ts[n]
        /\ ComputeEnd \in DOMAIN ts[m] /\ ComputeEnd \in DOMAIN ts[n]
    BY <1>m, ServedIsSound
  <2>7. ts[n][ComputeStart] < ts[n][ComputeEnd]
    BY <2>5, <2>6 DEF Executes
  <2>8. m # n
    BY <1>5, <2>1, <2>2, <2>3, <2>4 DEF Before
  <2>9. batch[m] # batch[n]
    <3>1. batch[m] = {m} /\ batch[n] = {n}
      BY ExecutedAlone
    <3> QED
      BY <2>8, <3>1
  <2>10. ts[m][ComputeEnd] <= ts[n][ComputeStart] \/ ts[n][ComputeEnd] <= ts[m][ComputeStart]
    BY <2>5, <2>6, <2>9 DEF Exclusive, EndsBefore
  <2>11. ts[m][ComputeStart] <= ts[n][ComputeStart]
    BY <1>5, <2>2, <2>4 DEF Before
  <2>12. ~(ts[n][ComputeStart] < ts[m][ComputeEnd])
    BY <2>4, <2>7, <2>10, <2>11
  <2> QED
    BY <2>2, <2>12 DEF Overlapping
<1>6. ~\E pair \in Neighbours(windows) : Overlapping(pair[1], pair[2])
  <2> SUFFICES ASSUME NEW pair \in Neighbours(windows) PROVE ~Overlapping(pair[1], pair[2])
    OBVIOUS
  <2>1. pair \in windows \X windows /\ Before(pair[1], pair[2])
    BY DEF Neighbours
  <2>2. pair[1] \in windows /\ pair[2] \in windows
    BY <2>1
  <2> QED
    BY <1>5, <2>1, <2>2
<1>7. ~\E c \in Cohorts(joined) : \E pair \in Neighbours(Windows(OfCohort(joined, c), ComputeStart, ComputeEnd)) :
         Overlapping(pair[1], pair[2])
  BY <1>2, <1>6 DEF windows
<1> QED
  BY <1>7, WhenReports DEF checkExecutionSerialization

\* The members that an envelope carried are the ones it was made of.
LEMMA CarriedTogether ==
  ASSUME NEW n \in Members
  PROVE  /\ {m \in Members : Envelope(m) = Envelope(n)} = Envelope(n)
         /\ \A m \in Envelope(n) : m \in Members /\ Envelope(m) = Envelope(n)
         /\ n \in Envelope(n)
BY DEF Envelope

\* The adapter's own figures are those its instants show.
LEMMA ReleaseIsClean ==
  ASSUME IInv, Done, Served, cell # "D0", NEW n \in Members
  PROVE  judgeRelease(Expected, Restrict(joined, Envelope(n))) \subseteq {"dispatch_skew", "fan_out_serial"}
<1>t. TypeOK /\ cell \in ImplementedCells
  BY DEF IInv, TypeOK
<1>1. DOMAIN joined = Members /\ \A m \in Members : Honest(joined[m], m)
  BY ServedJoin
<1>2. PICK g : g = Envelope(n)
  OBVIOUS
<1>3. n \in g /\ \A m \in g : m \in Members /\ Envelope(m) = g
  BY <1>2, CarriedTogether
<1>4. PICK members : members = Restrict(joined, g)
  OBVIOUS
<1>5. DOMAIN members = g /\ \A m \in g : members[m] = joined[m]
  BY <1>4, PartOf
<1>6. \A m \in g : /\ DOMAIN members[m].dispatch = {"adapter"}
                   /\ members[m].dispatch["adapter"] = [dispatched |-> Cardinality(g), skew |-> DispatchSkew(g)]
  BY <1>1, <1>3, <1>5 DEF Honest
<1> DEFINE witnesses == {m \in DOMAIN members : "adapter" \in DOMAIN members[m].dispatch}
           observed == Spread(Instants(members, AdapterDispatch))
           windows == Windows(members, AdapterDispatch, AdapterResult)
           reported == members[Min(witnesses)].dispatch["adapter"]
<1>7. witnesses = g
  BY <1>5, <1>6
<1>8. Min(g) \in g
  <2>1. g \in SUBSET Nat /\ g # {}
    BY <1>3, MembersFacts
  <2>2. TargetB \in Nat /\ \A m \in g : m <= TargetB
    <3>1. TargetB \in Nat /\ Members = 0 .. TargetB - 1
      BY MembersFacts, RunEvidenceAssumption
    <3> QED
      BY <1>3, <3>1
  <2> QED
    BY <2>1, <2>2, BoundsAreMembers
<1>9. reported.dispatched = Cardinality(g) /\ reported.skew = DispatchSkew(g)
  BY <1>6, <1>7, <1>8
<1>10. observed = DispatchSkew(g)
  <2>1. AdapterDispatch \in TopologyMask(cell)
    BY <1>t, MaskNamed, StagesNamed
  <2>2. \A m \in g : AdapterDispatch \in DOMAIN members[m].stages
          /\ members[m].stages[AdapterDispatch] = ts[m][AdapterDispatch]
    <3>1. \A m \in Members : AdapterDispatch \in DOMAIN joined[m].stages
            /\ joined[m].stages[AdapterDispatch] = ts[m][AdapterDispatch]
      BY <1>1, <2>1, Zenon DEF Honest
    <3> QED
      BY <1>3, <1>5, <3>1
  <2>3. Instants(members, AdapterDispatch) = {ts[m][AdapterDispatch] : m \in g}
    BY <1>5, <2>2 DEF Instants, Carrying, Has
  <2>4. {ts[m][AdapterDispatch] : m \in g} # {}
    BY <1>3
  <2> QED
    BY <2>3, <2>4 DEF Spread, DispatchSkew
<1>11. judgeRelease(Expected, members) =
         IF witnesses = {} THEN {"dispatch_evidence"}
         ELSE When(reported.dispatched # Cardinality(DOMAIN members) \/ reported.skew # observed, "dispatch_evidence")
              \cup When(Expected.maxSkew > 0 /\ observed > Expected.maxSkew, "dispatch_skew")
              \cup When(\E pair \in Neighbours(windows) : ~Overlapping(pair[1], pair[2]), "fan_out_serial")
  BY DEF judgeRelease
<1>12. witnesses # {}
  BY <1>3, <1>7
<1> HIDE DEF witnesses, observed, windows, reported
<1>13. ~(reported.dispatched # Cardinality(DOMAIN members) \/ reported.skew # observed)
  BY <1>5, <1>9, <1>10
<1>14. judgeRelease(Expected, members) \subseteq {"dispatch_skew", "fan_out_serial"}
  BY <1>11, <1>12, <1>13 DEF When
<1> QED
  BY <1>2, <1>4, <1>14

\* Envelope by envelope, the fan-out shows nothing but its durations.
LEMMA FanOutIsClean ==
  ASSUME IInv, Done, Served
  PROVE  checkFanOut(Expected, joined) \subseteq TimingDefects
<1>1. DOMAIN joined = Members /\ \A m \in Members : Honest(joined[m], m)
  BY ServedJoin
<1>2. Expected.cell = cell /\ Expected.maxSkew = SkewBound /\ SkewBound \in Nat \ {0}
  BY ExpectedFields, RunEvidenceAssumption
<1> DEFINE carried(e) == {m \in DOMAIN joined : joined[m].envelope = e}
           strays == When(\E m \in DOMAIN joined :
                            joined[m].envelope # None /\ DOMAIN joined[m].dispatch \ {"adapter"} # {},
                          "dispatch_evidence")
           judged == UNION {judgeRelease(Expected, Restrict(joined, carried(e))) : e \in EnvelopesOf(joined)}
<1>3. CASE cell = "D0"
  <2>1. ~UsesProxy(Expected.cell) /\ ~(AggregatesEnvelopes(Expected.cell) /\ Expected.maxSkew <= 0)
    BY <1>2, <1>3 DEF UsesProxy, AggregatesEnvelopes
  <2>x. \A a, b : (CASE ~UsesProxy(Expected.cell) -> {}
                    [] AggregatesEnvelopes(Expected.cell) /\ Expected.maxSkew <= 0 -> a
                    [] OTHER -> b) = {}
    BY <2>1
  <2>2. checkFanOut(Expected, joined) = {}
    BY <2>x, Zenon DEF checkFanOut
  <2> QED
    BY <2>2
<1>4. CASE cell # "D0"
  <2>1. \A m \in Members : joined[m].envelope = Envelope(m) /\ DOMAIN joined[m].dispatch = {"adapter"}
    BY <1>1, <1>4 DEF Honest
  <2>2. strays = {}
    BY <1>1, <2>1 DEF When
  <2>3. ASSUME NEW e \in EnvelopesOf(joined)
        PROVE  judgeRelease(Expected, Restrict(joined, carried(e))) \subseteq {"dispatch_skew", "fan_out_serial"}
    <3>1. PICK n \in Members : e = Envelope(n)
      BY <1>1, <2>1 DEF EnvelopesOf
    <3>2. carried(e) = Envelope(n)
      BY <1>1, <2>1, <3>1, CarriedTogether
    <3> QED
      BY <1>4, <3>2, ReleaseIsClean
  <2>4. judged \subseteq {"dispatch_skew", "fan_out_serial"}
    BY <2>3
  <2>5. UsesProxy(Expected.cell) /\ ~(AggregatesEnvelopes(Expected.cell) /\ Expected.maxSkew <= 0)
    BY <1>2, <1>4 DEF UsesProxy
  <2>6. checkFanOut(Expected, joined) = strays \cup judged
    BY <2>5 DEF checkFanOut
  <2> HIDE DEF strays, judged
  <2> QED
    BY <2>2, <2>4, <2>6 DEF TimingDefects
<1> QED
  BY <1>3, <1>4

\* What depends on durations is reported as such.
LEMMA DurationsAreNamed ==
  ASSUME NEW exp, NEW j
  PROVE  checkAdapterDispatch(exp, j) \cup checkConservation(exp, j) \subseteq TimingDefects
<1>1. checkAdapterDispatch(exp, j) \subseteq {"adapter_waiting"}
  BY WhenReports, Zenon DEF checkAdapterDispatch
<1>2. checkConservation(exp, j) \subseteq {"conservation"}
  BY WhenReports, Zenon DEF checkConservation
<1> QED
  BY <1>1, <1>2 DEF TimingDefects

\* In every honest run, of a cohort of every size and whatever the interleaving: if
\* every member was served by an execution of its own, the validator has nothing to
\* object to but durations.
THEOREM SoundRunsAreAccepted == Spec => []SoundRunIsAccepted
<1>1. ASSUME IInv, Done, Served, ~Coalesced PROVE defects \subseteq TimingDefects
  <2>1. defects = Validate(Expected, joined)
    BY <1>1, VerdictOnRecords
  <2>2. Expected.cell = cell /\ Shown(cell, joined) = joined /\ checkFormation(cell, joined) = {}
    BY <1>1, ExpectedFields, ServedIsShown DEF checkFormation, When
  <2>3. /\ checkAggregation(cell, joined) = {} /\ checkRecordIntegrity(Expected, joined) = {}
        /\ checkClockDomain(Expected, joined) = {} /\ checkPresence(cell, joined) = {}
        /\ checkStageOwnership(cell, joined) = {} /\ checkOrdering(cell, joined) = {}
    BY <1>1, AggregationIsClean, IntegrityIsClean, StagesAreClean, OrderingIsClean
  <2>4. /\ checkMembership(Expected, joined) = {} /\ checkContamination(Expected) = {}
        /\ checkExecutionSerialization(cell, joined) = {}
    BY <1>1, MembershipIsClean, ContaminationIsClean, SerializationIsClean
  <2>5. checkFanOut(Expected, joined) \subseteq TimingDefects
    BY <1>1, FanOutIsClean
  <2>6. checkAdapterDispatch(Expected, joined) \cup checkConservation(Expected, joined) \subseteq TimingDefects
    BY DurationsAreNamed
  <2>7. Validate(Expected, joined) = checkFanOut(Expected, joined) \cup checkAdapterDispatch(Expected, joined)
                                       \cup checkConservation(Expected, joined)
    BY <2>2, <2>3, <2>4 DEF Validate
  <2> QED
    BY <2>1, <2>5, <2>6, <2>7
<1>2. IInv => SoundRunIsAccepted
  BY <1>1 DEF SoundRunIsAccepted
<1> QED
  BY <1>2, InvariantHolds, PTL

-----------------------------------------------------------------------------
(* Sums over a chain.  A fold of the library from left to right is a       *)
(* recursive function on the sets of places, read off at all of them.      *)

\* g takes a set of places apart by its last.
Folds(g, base, step, n) ==
  \A s \in SUBSET (1 .. n) : g[s] = IF s = {} THEN base ELSE step[<<g[s \ {Max(s)}], Max(s)>>]

\* The last of some places is one of them.
LEMMA LastPlace ==
  ASSUME NEW n \in Nat, NEW s \in SUBSET (1 .. n), s # {}
  PROVE  Max(s) \in s /\ \A i \in s : i <= Max(s)
<1>1. s \in SUBSET Nat /\ \A i \in s : i <= n
  OBVIOUS
<1> QED
  BY <1>1, BoundsAreMembers

\* That function exists: with one place more, it is one more step at the sets that
\* have the place.
LEMMA FoldExists ==
  ASSUME NEW n \in Nat, NEW V, NEW base \in V, NEW step \in [V \X (1 .. n) -> V]
  PROVE  \E g \in [SUBSET (1 .. n) -> V] : Folds(g, base, step, n)
<1> DEFINE OfPlaces(k) == \E g \in [SUBSET (1 .. k) -> V] : Folds(g, base, step, k)
           Bad == {k \in 0 .. n : ~OfPlaces(k)}
<1> SUFFICES ASSUME ~OfPlaces(n) PROVE FALSE
  OBVIOUS
<1>0. n \in Bad
  <2> HIDE DEF OfPlaces
  <2> QED
    OBVIOUS
<1>1. Min(Bad) \in Bad /\ \A i \in Bad : Min(Bad) <= i
  <2>1. Bad \in SUBSET Nat /\ Bad # {} /\ \A i \in Bad : i <= n
    <3> HIDE DEF OfPlaces
    <3> QED
      BY <1>0
  <2> HIDE DEF Bad
  <2> QED
    BY <2>1, BoundsAreMembers
<1>2. PICK k \in 0 .. n : k = Min(Bad)
  BY <1>1
<1>3. ~OfPlaces(k) /\ (k # 0 => OfPlaces(k - 1))
  <2>1. k # 0 => k - 1 \in 0 .. n /\ ~(k <= k - 1)
    OBVIOUS
  <2> QED
    BY <1>1, <1>2, <2>1
<1>4. k # 0
  <2> SUFFICES ASSUME k = 0 PROVE OfPlaces(0)
    BY <1>3
  <2>1. SUBSET (1 .. 0) = {{}}
    OBVIOUS
  <2> DEFINE g == [s \in SUBSET (1 .. 0) |-> base]
  <2>2. g \in [SUBSET (1 .. 0) -> V] /\ \A s \in SUBSET (1 .. 0) : g[s] = base /\ s = {}
    BY <2>1
  <2> HIDE DEF g
  <2>3. Folds(g, base, step, 0)
    BY <2>2 DEF Folds
  <2> QED
    BY <2>2, <2>3
<1>5. PICK g \in [SUBSET (1 .. k - 1) -> V] : Folds(g, base, step, k - 1)
  BY <1>3, <1>4
<1> DEFINE h == [s \in SUBSET (1 .. k) |-> IF k \in s THEN step[<<g[s \ {k}], k>>] ELSE g[s]]
<1>6. \A s \in SUBSET (1 .. k) : /\ k \in s => s \ {k} \in SUBSET (1 .. k - 1)
                                 /\ k \notin s => s \in SUBSET (1 .. k - 1)
  BY <1>4
<1>7. h \in [SUBSET (1 .. k) -> V]
  <2>1. ASSUME NEW s \in SUBSET (1 .. k) PROVE (IF k \in s THEN step[<<g[s \ {k}], k>>] ELSE g[s]) \in V
    <3>1. CASE k \in s
      <4>1. g[s \ {k}] \in V /\ k \in 1 .. n
        BY <1>4, <1>6, <3>1
      <4>2. <<g[s \ {k}], k>> \in V \X (1 .. n)
        BY <4>1
      <4> QED
        BY <3>1, <4>2
    <3>2. CASE k \notin s
      BY <1>6, <3>2
    <3> QED
      BY <3>1, <3>2
  <2> QED
    BY <2>1
<1>8. Folds(h, base, step, k)
  <2> SUFFICES ASSUME NEW s \in SUBSET (1 .. k)
               PROVE  h[s] = IF s = {} THEN base ELSE step[<<h[s \ {Max(s)}], Max(s)>>]
    BY DEF Folds
  <2>0. k \in Nat
    OBVIOUS
  <2>1. CASE k \in s
    <3>1. Max(s) \in s /\ \A i \in s : i <= Max(s)
      BY <2>0, <2>1, LastPlace
    <3>2. Max(s) = k
      <4>1. k <= Max(s) /\ Max(s) \in 1 .. k
        BY <2>1, <3>1
      <4> QED
        BY <4>1
    <3>3. h[s \ {k}] = g[s \ {k}] /\ h[s] = step[<<g[s \ {k}], k>>]
      BY <2>1
    <3> QED
      BY <2>1, <3>2, <3>3
  <2>2. CASE k \notin s
    <3>1. s \in SUBSET (1 .. k - 1) /\ h[s] = g[s]
      BY <1>6, <2>2
    <3>2. g[s] = IF s = {} THEN base ELSE step[<<g[s \ {Max(s)}], Max(s)>>]
      BY <1>5, <3>1 DEF Folds
    <3>3. s \ {Max(s)} \in SUBSET (1 .. k) /\ k \notin s \ {Max(s)}
      BY <2>2
    <3>4. h[s \ {Max(s)}] = g[s \ {Max(s)}]
      BY <3>3
    <3> QED
      BY <3>1, <3>2, <3>4
  <2> QED
    BY <2>1, <2>2
<1>9. OfPlaces(k)
  BY <1>7, <1>8
<1> QED
  BY <1>3, <1>9

\* The places up to one, without it.
LEMMA PlacesUpTo ==
  ASSUME NEW n \in Nat, NEW k \in 1 .. n
  PROVE  /\ 1 .. k \in SUBSET (1 .. n) /\ 1 .. k # {} /\ Max(1 .. k) = k
         /\ (1 .. k) \ {Max(1 .. k)} = 1 .. k - 1
<1>1. 1 .. k \in SUBSET (1 .. n) /\ k \in 1 .. k
  OBVIOUS
<1>2. Max(1 .. k) \in 1 .. k /\ k <= Max(1 .. k)
  BY <1>1, LastPlace
<1>3. Max(1 .. k) = k
  BY <1>2
<1> QED
  BY <1>1, <1>3

\* The spans of the cycle that are named, or are not, and how long each took.
Counted(spans, instants, accounted) ==
  {i \in Measured(spans, instants) : spans[i].accounted = accounted}

\* How long a span took.
Took(spans, instants, i) == instants[spans[i].end] - instants[spans[i].start]

\* The last of some places, in a sequence that lists them.
Furthest(n, s) == [i \in 1 .. n |-> i][Max(s)]

\* g is the recursive function TimeIn is read from.
Adding(g, spans, instants, accounted, n) ==
  g = [s \in SUBSET (1 .. n) |->
         IF s = {} THEN 0
         ELSE IF Furthest(n, s) \in Counted(spans, instants, accounted)
              THEN g[s \ {Max(s)}] + Took(spans, instants, Furthest(n, s)) ELSE g[s \ {Max(s)}]]

\* The sum over a chain is the value of such a function at all its places.
LEMMA TimeInIs ==
  ASSUME NEW n \in Nat, NEW spans, DOMAIN spans = 1 .. n, NEW instants, NEW accounted
  PROVE  TimeIn(spans, instants, accounted) = (CHOOSE g : Adding(g, spans, instants, accounted, n))[1 .. n]
BY DEF TimeIn, FoldLeftDomain, FoldLeft, MapThenFoldSet, Counted, Took, Furthest, Adding

\* The sum so far, after each span of the chain.
Sums(h, spans, instants, accounted, n) ==
  /\ h[0] = 0
  /\ \A k \in 0 .. n : h[k] \in Int
  /\ \A k \in 1 .. n : h[k] = IF k \in Counted(spans, instants, accounted)
                              THEN h[k - 1] + Took(spans, instants, k) ELSE h[k - 1]

\* The sum over a chain is the last of its sums so far.
LEMMA TimeAddsUp ==
  ASSUME NEW n \in Nat, NEW spans, DOMAIN spans = 1 .. n, NEW instants, NEW accounted,
         \A i \in Counted(spans, instants, accounted) : Took(spans, instants, i) \in Int
  PROVE  \E h : Sums(h, spans, instants, accounted, n) /\ TimeIn(spans, instants, accounted) = h[n]
<1> DEFINE of == Counted(spans, instants, accounted)
           took(i) == Took(spans, instants, i)
           step == [p \in Int \X (1 .. n) |-> IF p[2] \in of THEN p[1] + took(p[2]) ELSE p[1]]
<1>1. step \in [Int \X (1 .. n) -> Int]
  <2>1. ASSUME NEW p \in Int \X (1 .. n) PROVE (IF p[2] \in of THEN p[1] + took(p[2]) ELSE p[1]) \in Int
    <3>1. p[1] \in Int /\ (p[2] \in of => took(p[2]) \in Int)
      OBVIOUS
    <3> HIDE DEF of, took
    <3> QED
      BY <3>1
  <2> HIDE DEF of, took
  <2> QED
    BY <2>1
<1>2. PICK g \in [SUBSET (1 .. n) -> Int] : Folds(g, 0, step, n)
  <2> HIDE DEF step
  <2>1. 0 \in Int
    OBVIOUS
  <2> QED
    BY <1>1, <2>1, FoldExists
<1>3. ASSUME NEW s \in SUBSET (1 .. n), s # {}
      PROVE  /\ Max(s) \in 1 .. n /\ Furthest(n, s) = Max(s) /\ s \ {Max(s)} \in SUBSET (1 .. n)
  <2>1. Max(s) \in 1 .. n
    BY <1>3, LastPlace
  <2> QED
    BY <2>1 DEF Furthest
<1>4. Adding(g, spans, instants, accounted, n)
  <2> DEFINE f == [s \in SUBSET (1 .. n) |->
                     IF s = {} THEN 0
                     ELSE IF Furthest(n, s) \in of THEN g[s \ {Max(s)}] + took(Furthest(n, s)) ELSE g[s \ {Max(s)}]]
  <2>1. ASSUME NEW s \in SUBSET (1 .. n) PROVE g[s] = f[s]
    <3>1. g[s] = IF s = {} THEN 0 ELSE step[<<g[s \ {Max(s)}], Max(s)>>]
      BY <1>2 DEF Folds
    <3>2. CASE s = {}
      BY <3>1, <3>2
    <3>3. CASE s # {}
      <4>1. Max(s) \in 1 .. n /\ Furthest(n, s) = Max(s) /\ s \ {Max(s)} \in SUBSET (1 .. n)
        BY <1>3, <3>3
      <4>2. PICK x \in Int, i \in 1 .. n : x = g[s \ {Max(s)}] /\ i = Max(s)
        BY <4>1
      <4>3. step[<<x, i>>] = IF i \in of THEN x + took(i) ELSE x
        OBVIOUS
      <4>4. f[s] = IF i \in of THEN x + took(i) ELSE x
        BY <3>3, <4>1, <4>2
      <4> HIDE DEF step, f, of, took
      <4> QED
        BY <3>1, <3>3, <4>2, <4>3, <4>4
    <3> QED
      BY <3>2, <3>3
  <2>2. g = f
    BY <2>1
  <2> QED
    BY <2>2, Zenon DEF Adding
<1>5. PICK a : Adding(a, spans, instants, accounted, n) /\ TimeIn(spans, instants, accounted) = a[1 .. n]
  BY <1>4, TimeInIs
<1> DEFINE h == [k \in 0 .. n |-> a[1 .. k]]
<1>6. \A s \in SUBSET (1 .. n) :
         a[s] = IF s = {} THEN 0
                ELSE IF Furthest(n, s) \in of THEN a[s \ {Max(s)}] + took(Furthest(n, s)) ELSE a[s \ {Max(s)}]
  BY <1>5 DEF Adding
<1>7. h[0] = 0
  <2>1. 1 .. 0 = {} /\ h[0] = a[1 .. 0]
    OBVIOUS
  <2> QED
    BY <1>6, <2>1
<1>8. ASSUME NEW k \in 1 .. n
      PROVE  h[k] = IF k \in of THEN h[k - 1] + took(k) ELSE h[k - 1]
  <2>1. /\ 1 .. k \in SUBSET (1 .. n) /\ 1 .. k # {} /\ Max(1 .. k) = k
        /\ (1 .. k) \ {Max(1 .. k)} = 1 .. k - 1
    BY PlacesUpTo
  <2>2. Furthest(n, 1 .. k) = k
    BY <2>1 DEF Furthest
  <2>3. h[k] = a[1 .. k] /\ h[k - 1] = a[1 .. k - 1]
    OBVIOUS
  <2> HIDE DEF of, took, h
  <2> QED
    BY <1>6, <2>1, <2>2, <2>3
<1>9. \A k \in 0 .. n : h[k] \in Int
  <2> HIDE DEF h, of, took
  <2> DEFINE Bad == {k \in 0 .. n : h[k] \notin Int}
  <2> SUFFICES ASSUME Bad # {} PROVE FALSE
    OBVIOUS
  <2>1. Bad \in SUBSET Nat /\ \A i \in Bad : i <= n
    OBVIOUS
  <2>2. Min(Bad) \in Bad /\ \A i \in Bad : Min(Bad) <= i
    <3> HIDE DEF Bad
    <3> QED
      BY <2>1, BoundsAreMembers
  <2>3. PICK k \in 0 .. n : k = Min(Bad) /\ h[k] \notin Int
    BY <2>2
  <2>4. k \in 1 .. n
    BY <1>7, <2>3
  <2>5. h[k - 1] \in Int
    <3>1. k - 1 \in 0 .. n /\ ~(k <= k - 1)
      BY <2>4
    <3> QED
      BY <2>2, <2>3, <3>1
  <2>6. k \in of => took(k) \in Int
    BY DEF of, took
  <2> QED
    BY <1>8, <2>3, <2>4, <2>5, <2>6
<1>10. h[n] = a[1 .. n]
  OBVIOUS
<1> HIDE DEF h
<1>11. Sums(h, spans, instants, accounted, n)
  BY <1>7, <1>8, <1>9 DEF Sums
<1> QED
  BY <1>5, <1>10, <1>11

\* Where the spans of a chain begin and end: from its first span of the cycle on,
\* each begins where the one before it ended.
Connected(spans, n, first) ==
  /\ DOMAIN spans = 1 .. n
  /\ \A i \in 1 .. n : /\ {spans[i].start, spans[i].end} \subseteq TopologyMask(cell)
                       /\ spans[i].accounted \in BOOLEAN
                       /\ pacedByLastMember(spans[i].start) => pacedByLastMember(spans[i].end)
  /\ \A i \in 1 .. first - 1 : spans[i].start # ClientSend
  /\ spans[first].start = ClientSend
  /\ \A i \in first + 1 .. n : spans[i].start = spans[i - 1].end
  /\ spans[n].end = ClientRecv

\* The span leads from one stage to the other.
Leads(span, from, to) == span.start = from /\ span.end = to /\ span.accounted \in BOOLEAN

\* Named or not.
LEMMA SpanLeads ==
  ASSUME NEW a, NEW b
  PROVE  Leads(Span(a, b, TRUE), a, b) /\ Leads(Span(a, b, FALSE), a, b)
BY DEF Leads, Span

\* The tail of the shared path, span by span.
LEMMA TailLeads ==
  \E R : /\ sharedPathTail \in Seq(R) /\ Len(sharedPathTail) = 10
        /\ \A i \in 1 .. 10 : Leads(sharedPathTail[i], i + 4, i + 5)
<1>1. PICK a, b, d, e, f, g, h, k, l, o :
        /\ a = Span(5, 6, TRUE) /\ b = Span(6, 7, FALSE) /\ d = Span(7, 8, TRUE) /\ e = Span(8, 9, TRUE)
        /\ f = Span(9, 10, TRUE) /\ g = Span(10, 11, TRUE) /\ h = Span(11, 12, FALSE) /\ k = Span(12, 13, TRUE)
        /\ l = Span(13, 14, TRUE) /\ o = Span(14, 15, TRUE)
  OBVIOUS
<1>2. PICK t : t = sharedPathTail
  OBVIOUS
<1>3. t = <<a, b, d, e, f, g, h, k, l, o>>
  BY <1>1, <1>2 DEF sharedPathTail, ProxySend, AdapterRecv, AdapterDispatch, QueueStart, ComputeStart, ComputeEnd,
         AdapterResult, AdapterSend, ProxyRespRecv, ProxyFanout, ClientRecv
<1>4. /\ Leads(a, 5, 6) /\ Leads(b, 6, 7) /\ Leads(d, 7, 8) /\ Leads(e, 8, 9) /\ Leads(f, 9, 10)
      /\ Leads(g, 10, 11) /\ Leads(h, 11, 12) /\ Leads(k, 12, 13) /\ Leads(l, 13, 14) /\ Leads(o, 14, 15)
  BY <1>1, SpanLeads, Zenon
<1> HIDE <1>1
<1>5. PICK R : R = {a, b, d, e, f, g, h, k, l, o}
  OBVIOUS
<1>6. t \in Seq(R) /\ Len(t) = 10
  BY <1>3, <1>5
<1>7. /\ t[1] = a /\ t[2] = b /\ t[3] = d /\ t[4] = e /\ t[5] = f
      /\ t[6] = g /\ t[7] = h /\ t[8] = k /\ t[9] = l /\ t[10] = o
  BY <1>3
<1>8. ASSUME NEW i \in 1 .. 10 PROVE Leads(t[i], i + 4, i + 5)
  <2>1. \/ i = 1 \/ i = 2 \/ i = 3 \/ i = 4 \/ i = 5 \/ i = 6 \/ i = 7 \/ i = 8 \/ i = 9 \/ i = 10
    OBVIOUS
  <2> QED
    BY <1>4, <1>7, <2>1
<1> QED
  BY <1>2, <1>6, <1>8

\* Four spans, and that tail.
Shared(w, x, y, z) == <<w, x, y, z>> \o sharedPathTail

\* Its fourteen spans, one by one.
LEMMA SharedChain ==
  ASSUME NEW w, NEW x, NEW y, NEW z
  PROVE  /\ DOMAIN Shared(w, x, y, z) = 1 .. 14
         /\ Shared(w, x, y, z)[1] = w /\ Shared(w, x, y, z)[2] = x
         /\ Shared(w, x, y, z)[3] = y /\ Shared(w, x, y, z)[4] = z
         /\ \A i \in 5 .. 14 : Leads(Shared(w, x, y, z)[i], i, i + 1)
<1>1. PICK t : t = sharedPathTail
  OBVIOUS
<1>2. PICK Q : t \in Seq(Q) /\ Len(t) = 10 /\ \A i \in 1 .. 10 : Leads(t[i], i + 4, i + 5)
  BY <1>1, TailLeads
<1>3. PICK R : R = Q \cup {w, x, y, z}
  OBVIOUS
<1>4. PICK s : s = <<w, x, y, z>>
  OBVIOUS
<1>5. s \in Seq(R) /\ Len(s) = 4 /\ s[1] = w /\ s[2] = x /\ s[3] = y /\ s[4] = z
  BY <1>3, <1>4
<1>6. t \in Seq(R)
  BY <1>2, <1>3
<1>7. PICK c : c = s \o t
  OBVIOUS
<1>8. /\ c \in Seq(R) /\ Len(c) = Len(s) + Len(t)
      /\ \A i \in 1 .. Len(s) + Len(t) : c[i] = IF i <= Len(s) THEN s[i] ELSE t[i - Len(s)]
  BY <1>5, <1>6, <1>7, ConcatProperties
<1>9. Len(c) = 14 /\ DOMAIN c = 1 .. 14
  BY <1>2, <1>5, <1>8
<1>10. c[1] = w /\ c[2] = x /\ c[3] = y /\ c[4] = z
  BY <1>2, <1>5, <1>8
<1>11. ASSUME NEW i \in 5 .. 14 PROVE Leads(c[i], i, i + 1)
  <2>1. i - 4 \in 1 .. 10 /\ (i - 4) + 4 = i /\ (i - 4) + 5 = i + 1
    OBVIOUS
  <2>2. Leads(t[i - 4], (i - 4) + 4, (i - 4) + 5)
    BY <1>2, <2>1
  <2>3. c[i] = t[i - 4]
    BY <1>2, <1>5, <1>8
  <2> QED
    BY <2>1, <2>2, <2>3
<1>12. Shared(w, x, y, z) = c
  BY <1>1, <1>4, <1>7 DEF Shared
<1> QED
  BY <1>9, <1>10, <1>11, <1>12

\* The chain of every cell this build runs is connected.
LEMMA ChainIsConnected ==
  ASSUME cell \in ImplementedCells
  PROVE  \E n \in Nat : \E first \in 1 .. n : Connected(Chain(cell), n, first)
<1>0. cell = "D0" \/ cell = "F00" \/ cell = "F10"
  BY DEF ImplementedCells
<1>p. \A s \in 1 .. 15 : pacedByLastMember(s) <=> s >= 10
  BY DEF pacedByLastMember, ComputeEnd, AdapterResult, AdapterSend, ProxyRespRecv, ProxyFanout, ClientRecv
<1>m. TopologyMask(cell) = IF cell = "D0" THEN {1, 2, 15, 4, 8, 9, 10} ELSE 1 .. 15
  BY PlaceValues
<1>3. ASSUME cell = "D0" PROVE Connected(Chain(cell), 6, 3)
  <2>1. PICK c : c = Chain(cell)
    OBVIOUS
  <2>2. c = << Span(1, 4, FALSE), Span(4, 2, FALSE), Span(2, 8, TRUE), Span(8, 9, TRUE), Span(9, 10, TRUE),
               Span(10, 15, TRUE) >>
    BY <1>3, <2>1 DEF Chain, Sched, CohortSeal, ClientSend, QueueStart, ComputeStart, ComputeEnd, ClientRecv
  <2>3. /\ DOMAIN c = 1 .. 6 /\ c[1] = Span(1, 4, FALSE) /\ c[2] = Span(4, 2, FALSE) /\ c[3] = Span(2, 8, TRUE)
        /\ c[4] = Span(8, 9, TRUE) /\ c[5] = Span(9, 10, TRUE) /\ c[6] = Span(10, 15, TRUE)
    BY <2>2
  <2>l. /\ Leads(c[1], 1, 4) /\ Leads(c[2], 4, 2) /\ Leads(c[3], 2, 8) /\ Leads(c[4], 8, 9) /\ Leads(c[5], 9, 10)
        /\ Leads(c[6], 10, 15)
    BY <2>3, SpanLeads, Zenon
  <2>4. /\ c[1].start = 1 /\ c[1].end = 4 /\ c[2].start = 4 /\ c[2].end = 2 /\ c[3].start = 2 /\ c[3].end = 8
        /\ c[4].start = 8 /\ c[4].end = 9 /\ c[5].start = 9 /\ c[5].end = 10 /\ c[6].start = 10 /\ c[6].end = 15
        /\ \A i \in 1 .. 6 : c[i].accounted \in BOOLEAN
    BY <2>l DEF Leads
  <2>5. \A i \in 1 .. 6 : /\ {c[i].start, c[i].end} \subseteq TopologyMask(cell)
                          /\ pacedByLastMember(c[i].start) => pacedByLastMember(c[i].end)
    BY <1>3, <1>m, <1>p, <2>4
  <2>6. \A i \in 3 + 1 .. 6 : c[i].start = c[i - 1].end
    BY <2>4
  <2>d. DOMAIN c = 1 .. 6
    BY <2>3
  <2>7. c[3].start = 2 /\ c[6].end = 15 /\ \A i \in 1 .. 3 - 1 : c[i].start # 2
    BY <2>4
  <2> QED
    BY <2>1, <2>d, <2>4, <2>5, <2>6, <2>7 DEF Connected, ClientSend, ClientRecv
<1>4. ASSUME cell = "F00" PROVE Connected(Chain(cell), 14, 3)
  <2>1. PICK c : c = Chain(cell)
    OBVIOUS
  <2>2. c = Shared(Span(1, 4, FALSE), Span(4, 2, FALSE), Span(2, 3, TRUE), Span(3, 5, TRUE))
    BY <1>4, <2>1 DEF Shared, Chain, Sched, CohortSeal, ClientSend, ProxyRecv, ProxySend
  <2>3. /\ DOMAIN c = 1 .. 14 /\ c[1] = Span(1, 4, FALSE) /\ c[2] = Span(4, 2, FALSE) /\ c[3] = Span(2, 3, TRUE)
        /\ c[4] = Span(3, 5, TRUE)
        /\ \A i \in 5 .. 14 : Leads(c[i], i, i + 1)
    <3>1. PICK w, x, y, z : w = Span(1, 4, FALSE) /\ x = Span(4, 2, FALSE) /\ y = Span(2, 3, TRUE) /\ z = Span(3, 5, TRUE)
      OBVIOUS
    <3>2. c = Shared(w, x, y, z)
      BY <2>2, <3>1
    <3> HIDE <3>1
    <3>3. /\ DOMAIN c = 1 .. 14 /\ c[1] = w /\ c[2] = x /\ c[3] = y /\ c[4] = z
          /\ \A i \in 5 .. 14 : Leads(c[i], i, i + 1)
      BY <3>2, SharedChain
    <3> QED
      BY <3>1, <3>3
  <2>l. Leads(c[1], 1, 4) /\ Leads(c[2], 4, 2) /\ Leads(c[3], 2, 3) /\ Leads(c[4], 3, 5)
    BY <2>3, SpanLeads, Zenon
  <2>4. /\ c[1].start = 1 /\ c[1].end = 4 /\ c[2].start = 4 /\ c[2].end = 2
        /\ c[3].start = 2 /\ c[3].end = 3 /\ c[4].start = 3 /\ c[4].end = 5
        /\ \A i \in 1 .. 4 : c[i].accounted \in BOOLEAN
        /\ \A i \in 5 .. 14 : c[i].start = i /\ c[i].end = i + 1 /\ c[i].accounted \in BOOLEAN
    <3>1. /\ c[1].start = 1 /\ c[1].end = 4 /\ c[2].start = 4 /\ c[2].end = 2
        /\ c[3].start = 2 /\ c[3].end = 3 /\ c[4].start = 3 /\ c[4].end = 5
          /\ c[1].accounted \in BOOLEAN /\ c[2].accounted \in BOOLEAN /\ c[3].accounted \in BOOLEAN
          /\ c[4].accounted \in BOOLEAN
      BY <2>l DEF Leads
    <3>2. \A i \in 5 .. 14 : c[i].start = i /\ c[i].end = i + 1 /\ c[i].accounted \in BOOLEAN
      BY <2>3 DEF Leads
    <3>3. \A i \in 1 .. 4 : i = 1 \/ i = 2 \/ i = 3 \/ i = 4
      OBVIOUS
    <3> QED
      BY <3>1, <3>2, <3>3
  <2>5. \A i \in 1 .. 14 : /\ c[i].start \in 1 .. 15 /\ c[i].end \in 1 .. 15 /\ c[i].accounted \in BOOLEAN
                           /\ c[i].start >= 10 => c[i].end >= 10
    BY <2>4
  <2>6. \A i \in 3 + 1 .. 14 : c[i].start = c[i - 1].end
    <3>1. \A i \in 6 .. 14 : c[i].start = c[i - 1].end
      BY <2>4
    <3> QED
      BY <2>4, <3>1
  <2>7. c[3].start = 2 /\ c[14].end = 15 /\ \A i \in 1 .. 3 - 1 : c[i].start # 2
    BY <2>4
  <2>8. \A i \in 1 .. 14 : /\ {c[i].start, c[i].end} \subseteq TopologyMask(cell)
                           /\ pacedByLastMember(c[i].start) => pacedByLastMember(c[i].end)
    BY <1>4, <1>m, <1>p, <2>5
  <2>d. DOMAIN c = 1 .. 14
    BY <2>3
  <2> QED
    BY <2>1, <2>d, <2>5, <2>6, <2>7, <2>8 DEF Connected, ClientSend, ClientRecv
<1>5. ASSUME cell = "F10" PROVE Connected(Chain(cell), 14, 2)
  <2>1. PICK c : c = Chain(cell)
    OBVIOUS
  <2>2. c = Shared(Span(1, 2, FALSE), Span(2, 3, TRUE), Span(3, 4, TRUE), Span(4, 5, TRUE))
    BY <1>5, <2>1 DEF Shared, Chain, Sched, CohortSeal, ClientSend, ProxyRecv, ProxySend
  <2>3. /\ DOMAIN c = 1 .. 14 /\ c[1] = Span(1, 2, FALSE) /\ c[2] = Span(2, 3, TRUE) /\ c[3] = Span(3, 4, TRUE)
        /\ c[4] = Span(4, 5, TRUE)
        /\ \A i \in 5 .. 14 : Leads(c[i], i, i + 1)
    <3>1. PICK w, x, y, z : w = Span(1, 2, FALSE) /\ x = Span(2, 3, TRUE) /\ y = Span(3, 4, TRUE) /\ z = Span(4, 5, TRUE)
      OBVIOUS
    <3>2. c = Shared(w, x, y, z)
      BY <2>2, <3>1
    <3> HIDE <3>1
    <3>3. /\ DOMAIN c = 1 .. 14 /\ c[1] = w /\ c[2] = x /\ c[3] = y /\ c[4] = z
          /\ \A i \in 5 .. 14 : Leads(c[i], i, i + 1)
      BY <3>2, SharedChain
    <3> QED
      BY <3>1, <3>3
  <2>l. Leads(c[1], 1, 2) /\ Leads(c[2], 2, 3) /\ Leads(c[3], 3, 4) /\ Leads(c[4], 4, 5)
    BY <2>3, SpanLeads, Zenon
  <2>4. /\ c[1].start = 1 /\ c[1].end = 2 /\ c[2].start = 2 /\ c[2].end = 3
        /\ c[3].start = 3 /\ c[3].end = 4 /\ c[4].start = 4 /\ c[4].end = 5
        /\ \A i \in 1 .. 4 : c[i].accounted \in BOOLEAN
        /\ \A i \in 5 .. 14 : c[i].start = i /\ c[i].end = i + 1 /\ c[i].accounted \in BOOLEAN
    <3>1. /\ c[1].start = 1 /\ c[1].end = 2 /\ c[2].start = 2 /\ c[2].end = 3
        /\ c[3].start = 3 /\ c[3].end = 4 /\ c[4].start = 4 /\ c[4].end = 5
          /\ c[1].accounted \in BOOLEAN /\ c[2].accounted \in BOOLEAN /\ c[3].accounted \in BOOLEAN
          /\ c[4].accounted \in BOOLEAN
      BY <2>l DEF Leads
    <3>2. \A i \in 5 .. 14 : c[i].start = i /\ c[i].end = i + 1 /\ c[i].accounted \in BOOLEAN
      BY <2>3 DEF Leads
    <3>3. \A i \in 1 .. 4 : i = 1 \/ i = 2 \/ i = 3 \/ i = 4
      OBVIOUS
    <3> QED
      BY <3>1, <3>2, <3>3
  <2>5. \A i \in 1 .. 14 : /\ c[i].start \in 1 .. 15 /\ c[i].end \in 1 .. 15 /\ c[i].accounted \in BOOLEAN
                           /\ c[i].start >= 10 => c[i].end >= 10
    BY <2>4
  <2>6. \A i \in 2 + 1 .. 14 : c[i].start = c[i - 1].end
    <3>1. \A i \in 6 .. 14 : c[i].start = c[i - 1].end
      BY <2>4
    <3> QED
      BY <2>4, <3>1
  <2>7. c[2].start = 2 /\ c[14].end = 15 /\ \A i \in 1 .. 2 - 1 : c[i].start # 2
    BY <2>4
  <2>8. \A i \in 1 .. 14 : /\ {c[i].start, c[i].end} \subseteq TopologyMask(cell)
                           /\ pacedByLastMember(c[i].start) => pacedByLastMember(c[i].end)
    BY <1>5, <1>m, <1>p, <2>5
  <2>d. DOMAIN c = 1 .. 14
    BY <2>3
  <2> QED
    BY <2>1, <2>d, <2>5, <2>6, <2>7, <2>8 DEF Connected, ClientSend, ClientRecv
<1> QED
  BY <1>0, <1>3, <1>4, <1>5

\* The spans of the cycle are those from its first on.
LEMMA CycleIsMeasured ==
  ASSUME NEW spans, NEW n \in Nat, NEW first \in 1 .. n, Connected(spans, n, first), NEW instants,
         \A s \in TopologyMask(cell) : s \in DOMAIN instants /\ instants[s] \in Int
  PROVE  /\ Measured(spans, instants) = first .. n
         /\ \A i \in 1 .. n : Took(spans, instants, i) \in Int
<1>1. \A i \in 1 .. n : /\ {spans[i].start, spans[i].end} \subseteq DOMAIN instants
                        /\ instants[spans[i].start] \in Int /\ instants[spans[i].end] \in Int
  BY DEF Connected
<1>2. \A i \in 1 .. n : PreCycle(spans, i) <=> i < first
  BY DEF PreCycle, Connected
<1>3. Measured(spans, instants) = {i \in 1 .. n : ~(i < first)}
  BY <1>1, <1>2 DEF Measured, Connected
<1> QED
  BY <1>1, <1>3 DEF Took

\* What the cycle model names and what it does not is the time from the send to the
\* completion, every instant of it once.
LEMMA ChainTelescopes ==
  ASSUME cell \in ImplementedCells, NEW instants,
         \A s \in TopologyMask(cell) : s \in DOMAIN instants /\ instants[s] \in Int
  PROVE  /\ TimeIn(Chain(cell), instants, TRUE) \in Int /\ TimeIn(Chain(cell), instants, FALSE) \in Int
         /\ TimeIn(Chain(cell), instants, TRUE) + TimeIn(Chain(cell), instants, FALSE)
              = instants[ClientRecv] - instants[ClientSend]
<1> DEFINE spans == Chain(cell)
           named == Counted(spans, instants, TRUE)
           unnamed == Counted(spans, instants, FALSE)
           took(i) == Took(spans, instants, i)
           begin == instants[ClientSend]
           done(k) == instants[spans[k].end]
<1>0. PICK n \in Nat : \E first \in 1 .. n : Connected(spans, n, first)
  BY ChainIsConnected
<1>1. PICK first \in 1 .. n : Connected(spans, n, first)
  BY <1>0
<1>d. DOMAIN spans = 1 .. n
  BY <1>1 DEF Connected
<1>2. Measured(spans, instants) = first .. n /\ \A i \in 1 .. n : took(i) \in Int
  BY <1>1, CycleIsMeasured
<1>3. \A i \in 1 .. n : \/ i < first /\ i \notin named /\ i \notin unnamed
                        \/ i >= first /\ i \in named /\ i \notin unnamed
                        \/ i >= first /\ i \notin named /\ i \in unnamed
  BY <1>1, <1>2 DEF Connected, Counted
<1>4. PICK a : Sums(a, spans, instants, TRUE, n) /\ TimeIn(spans, instants, TRUE) = a[n]
  <2>1. PICK kind : kind = TRUE
    OBVIOUS
  <2>2. \A i \in Counted(spans, instants, kind) : Took(spans, instants, i) \in Int
    BY <1>2 DEF Counted
  <2>3. \E h : Sums(h, spans, instants, kind, n) /\ TimeIn(spans, instants, kind) = h[n]
    <3> HIDE DEF spans
    <3> QED
      BY <1>d, <2>2, TimeAddsUp
  <2> QED
    BY <2>1, <2>3
<1>5. PICK b : Sums(b, spans, instants, FALSE, n) /\ TimeIn(spans, instants, FALSE) = b[n]
  <2>1. PICK kind : kind = FALSE
    OBVIOUS
  <2>2. \A i \in Counted(spans, instants, kind) : Took(spans, instants, i) \in Int
    BY <1>2 DEF Counted
  <2>3. \E h : Sums(h, spans, instants, kind, n) /\ TimeIn(spans, instants, kind) = h[n]
    <3> HIDE DEF spans
    <3> QED
      BY <1>d, <2>2, TimeAddsUp
  <2> QED
    BY <2>1, <2>3
<1>6. /\ a[0] = 0 /\ b[0] = 0 /\ \A k \in 0 .. n : a[k] \in Int /\ b[k] \in Int
      /\ \A k \in 1 .. n : /\ a[k] = IF k \in named THEN a[k - 1] + took(k) ELSE a[k - 1]
                           /\ b[k] = IF k \in unnamed THEN b[k - 1] + took(k) ELSE b[k - 1]
  BY <1>4, <1>5 DEF Sums
<1>7. begin \in Int /\ \A k \in 1 .. n : done(k) \in Int /\ instants[spans[k].start] \in Int
  <2>1. ClientSend \in TopologyMask(cell)
    BY DEF TopologyMask, Stages, ClientSend
  <2> QED
    BY <1>1, <2>1 DEF Connected
<1>8. /\ took(first) = done(first) - begin
      /\ \A k \in first + 1 .. n : took(k) = done(k) - done(k - 1)
  BY <1>1 DEF Connected, Took
<1> DEFINE soFar(k) == IF k < first THEN 0 ELSE done(k) - begin
           Bad == {k \in 0 .. n : a[k] + b[k] # soFar(k)}
<1>9. Bad = {}
  <2> SUFFICES ASSUME Bad # {} PROVE FALSE
    OBVIOUS
  <2>1. Min(Bad) \in Bad /\ \A i \in Bad : Min(Bad) <= i
    <3>1. Bad \in SUBSET Nat /\ \A i \in Bad : i <= n
      OBVIOUS
    <3> HIDE DEF Bad
    <3> QED
      BY <3>1, BoundsAreMembers
  <2>2. PICK k \in 0 .. n : k = Min(Bad) /\ k \in Bad
    BY <2>1
  <2> HIDE DEF soFar, named, unnamed, took, done, begin, spans
  <2>3. a[k] + b[k] # soFar(k)
    BY <2>2
  <2>4. k # 0
    <3>1. soFar(0) = 0
      BY DEF soFar
    <3> QED
      BY <1>6, <2>3, <3>1
  <2>5. k - 1 \in 0 .. n /\ k \in 1 .. n /\ ~(k <= k - 1)
    BY <2>4
  <2>6. a[k - 1] + b[k - 1] = soFar(k - 1)
    BY <2>1, <2>2, <2>5
  <2>7. PICK x \in Int, y \in Int, z \in Int : x = a[k - 1] /\ y = b[k - 1] /\ z = took(k)
    BY <1>2, <1>6, <2>5
  <2>8. a[k] + b[k] = IF k < first THEN x + y ELSE x + y + z
    BY <1>3, <1>6, <2>5, <2>7
  <2>9. CASE k < first
    <3>1. soFar(k) = 0 /\ soFar(k - 1) = 0
      BY <2>9, <2>5 DEF soFar
    <3> QED
      BY <2>3, <2>6, <2>7, <2>8, <2>9, <3>1
  <2>10. CASE k = first
    <3>1. soFar(k) = z /\ soFar(k - 1) = 0
      BY <1>8, <2>10, <2>7 DEF soFar
    <3> QED
      BY <2>3, <2>6, <2>7, <2>8, <2>10, <3>1
  <2>11. CASE k > first
    <3>1. k \in first + 1 .. n /\ k - 1 \in 1 .. n
      BY <2>11
    <3>2. PICK d \in Int, e \in Int : d = done(k) /\ e = done(k - 1)
      BY <1>7, <2>5, <3>1
    <3>3. soFar(k) = d - begin /\ soFar(k - 1) = e - begin /\ z = d - e
      BY <1>8, <2>7, <2>11, <3>1, <3>2 DEF soFar
    <3> QED
      BY <1>7, <2>3, <2>6, <2>7, <2>8, <2>11, <3>2, <3>3
  <2> QED
    BY <2>9, <2>10, <2>11
<1>10. a[n] + b[n] = done(n) - begin
  <2>1. a[n] + b[n] = soFar(n)
    BY <1>9
  <2> QED
    BY <2>1
<1>11. spans[n].end = ClientRecv
  BY <1>1 DEF Connected
<1>12. a[n] \in Int /\ b[n] \in Int
  BY <1>6
<1>13. done(n) = instants[ClientRecv]
  BY <1>11
<1> QED
  BY <1>4, <1>5, <1>10, <1>12, <1>13, Zenon

-----------------------------------------------------------------------------
(* Flights.  Whatever happened to a member, its completion comes after its *)
(* send, and if it was executed it came back the whole way.                *)

\* Who left the barrier behind has sent, the completion is read last, and no instant
\* is before the clock began.
Flight(m) ==
  /\ pc[m] \notin {"barrier", "released"} => ClientSend \in DOMAIN ts[m]
  /\ ClientRecv \in DOMAIN ts[m] <=> pc[m] = "recorded"
  /\ pc[m] = "recorded" => ts[m][ClientSend] <= ts[m][ClientRecv]
  /\ \A s \in DOMAIN ts[m] : 1 <= ts[m][s]

\* A member that was executed has the instants of its point, failed or not.
Carried(m) ==
  ComputeEnd \in DOMAIN ts[m] => pc[m] \notin {"lost", "refused"} /\ Timed(m) /\ Ordered(m)

\* The invariant, with the flight of every member.
Flying ==
  /\ IInv
  /\ now \in 1 .. MaxTime
  /\ \A m \in Members : Flight(m) /\ Carried(m)

\* The points of an execution and after it.
Executing == {"computing", "computed", "returned", "responded", "returning", "answered"}

\* A member goes from one point to another without a reading of the clock.
Turn(from, to) ==
  \/ <<from, to>> \in {<<"barrier", "released">>, <<"sent", "lost">>, <<"held", "refused">>}
  \/ cell = "D0" /\ from \in {"sent", "queued", "computed"} /\ to = "answered"

\* A member goes from one point to another, and the clock is read for it.
Way(from, stage, to) ==
  /\ from # "recorded" /\ to # "barrier"
  /\ from \in {"barrier", "released"} => <<from, to>> \in {<<"barrier", "released">>, <<"released", "sent">>}
  /\ from \notin {"barrier", "released"} => to # "released"
  /\ stage = ClientSend <=> from = "released"
  /\ stage = ClientRecv <=> to = "recorded"
  /\ stage = ComputeEnd => from = "computing"
  /\ from \in Executing => to \notin {"lost", "refused"} /\ Leg(from, stage, to)

\* What a step is to a member: it turns, takes a stage, or is left alone.
Turns(m) == Turn(pc[m], pc'[m]) /\ ts'[m] = ts[m]

Takes(m) ==
  \E stage \in Stages : \E to \in Points :
    /\ Way(pc[m], stage, to)
    /\ pc'[m] = to
    /\ ts'[m] = With(ts[m], stage, now)

Rests(m) == pc'[m] = pc[m] /\ ts'[m] = ts[m]

Goes(m) == Rests(m) \/ Turns(m) \/ Takes(m)

\* When a whole group goes one way, each of its members does.
LEMMA GroupGoes ==
  ASSUME TypeOK, NEW group \in SUBSET Members, NEW from, NEW stage \in Stages, NEW to \in Points,
         Step(group, from, stage, to), Way(from, stage, to)
  PROVE  \A m \in Members : Goes(m)
<1>1. Moved(group, from, stage, to)
  BY StepEffect
<1>2. /\ \A m \in group : pc[m] = from /\ pc'[m] = to /\ ts'[m] = With(ts[m], stage, now)
      /\ \A m \in Members \ group : pc'[m] = pc[m] /\ ts'[m] = ts[m]
  BY <1>1 DEF Moved
<1>3. ASSUME NEW m \in group PROVE Takes(m)
  BY <1>2 DEF Takes
<1> QED
  BY <1>2, <1>3 DEF Goes, Rests

\* When a group turns, each of its members does.
LEMMA GroupTurns ==
  ASSUME NEW group \in SUBSET Members, NEW to, Move(group, to), UNCHANGED ts,
         \A m \in group : Turn(pc[m], to)
  PROVE  \A m \in Members : Goes(m)
<1>1. \A m \in group : pc'[m] = to
  BY DEF Move
<1>2. \A m \in Members \ group : pc'[m] = pc[m]
  BY DEF Move
<1> QED
  BY <1>1, <1>2 DEF Goes, Rests, Turns

\* The ways there are, by the stage that is taken.
LEMMA Ways ==
  ASSUME cell \in ImplementedCells
  PROVE  /\ Way("barrier", CohortSeal, "released")
         /\ Way("released", ClientSend, "sent")
         /\ Way("sent", ProxyRecv, "held") /\ Way("sent", ProxyRecv, "refused")
         /\ Way("held", CohortSeal, "sealed")
         /\ Way("sealed", ProxySend, "enveloped") /\ Way("held", ProxySend, "enveloped")
         /\ Way("enveloped", AdapterRecv, "unpacked") /\ Way("enveloped", ProxyRespRecv, "returning")
         /\ Way("unpacked", AdapterDispatch, "dispatched")
         /\ Way("dispatched", QueueStart, "queued") /\ Way("sent", QueueStart, "queued")
         /\ Way("dispatched", AdapterResult, "returned") /\ Way("queued", AdapterResult, "returned")
         /\ Way("queued", ComputeStart, "computing") /\ Way("computing", ComputeEnd, "computed")
         /\ Way("answered", ClientRecv, "recorded") /\ Way("lost", ClientRecv, "recorded")
         /\ Way("refused", ClientRecv, "recorded")
         /\ cell # "D0" =>
              /\ Way("computed", AdapterResult, "returned") /\ Way("returned", AdapterSend, "responded")
              /\ Way("responded", ProxyRespRecv, "returning") /\ Way("returning", ProxyFanout, "answered")
<1>1. /\ Leg("computing", ComputeEnd, "computed") /\ Leg("answered", ClientRecv, "recorded")
      /\ cell # "D0" => /\ Leg("computed", AdapterResult, "returned") /\ Leg("returned", AdapterSend, "responded")
                        /\ Leg("responded", ProxyRespRecv, "returning") /\ Leg("returning", ProxyFanout, "answered")
  BY Legs
<1> QED
  BY <1>1 DEF Way, Executing, ClientSend, ProxyRecv, CohortSeal, ProxySend, AdapterRecv, AdapterDispatch, QueueStart,
            ComputeStart, ComputeEnd, AdapterResult, AdapterSend, ProxyRespRecv, ProxyFanout, ClientRecv

\* Whatever step is taken, each member goes one of these ways or stays where it is.
LEMMA EveryoneGoes ==
  ASSUME TypeOK, Next
  PROVE  cell' = cell /\ \A m \in Members : Goes(m)
<1>t. /\ cell \in ImplementedCells /\ pc \in [Members -> Points] /\ DOMAIN ts = Members
      /\ AggregatesEnvelopes(cell) <=> cell = "F10"
  BY PlaceValues DEF TypeOK
<1>c. cell' = cell
  BY DEF Next, Tick, BarrierReleases, Seals, FormationFails, Judges, Sends, Lost, ReachesProxy, FansOut,
         ClientReceives, Receives, Dispatches, SubmitReturns, DirectReturns, Enqueues, ProxySends,
         ProxyReceives, EnvelopeFails, AdapterReceives, AdapterSends, Computes, Completes, Step
<1> SUFFICES \A m \in Members : Goes(m)
  BY <1>c
<1>p. /\ {"released", "sent", "queued", "computing", "computed", "answered", "recorded"} \subseteq Points
      /\ cell # "D0" => {"held", "sealed", "enveloped", "unpacked", "dispatched", "returned", "responded",
                         "returning", "lost", "refused"} \subseteq Points
  BY PointsNamed DEF DirectPoints, SharedPoints
<1>d. \A m \in Members : pc[m] \in {"held", "sealed", "enveloped", "unpacked", "dispatched", "returned",
                                     "responded", "returning", "lost", "refused"} => cell # "D0"
  BY <1>t, PointsNamed DEF DirectPoints
<1>m. Members \in SUBSET Members /\ 0 \in Members /\ \A m \in Members : {m} \in SUBSET Members
  BY MembersFacts
<1> USE <1>t
<1>g. ASSUME NEW group \in SUBSET Members, NEW from, NEW stage \in Stages, NEW to \in Points,
             Step(group, from, stage, to), Way(from, stage, to)
      PROVE  \A m \in Members : Goes(m)
  BY <1>g, GroupGoes
<1>e. ASSUME NEW g \in Envelopes, NEW from, NEW stage, NEW to, Step(g, from, stage, to)
      PROVE  g \in SUBSET Members /\ \E m \in Members : pc[m] = from
  BY <1>e, GroupsAreMembers DEF Step, All
<1>1. CASE Tick \/ Judges
  BY <1>1 DEF Tick, Judges, Goes, Rests
<1>2. CASE BarrierReleases
  <2>1. All(Members, "barrier") /\ Move(Members, "released")
    BY <1>2 DEF BarrierReleases
  <2>2. CASE SealOwner(cell) = "loadgen"
    <3>1. Step(Members, "barrier", CohortSeal, "released")
      BY <1>2, <2>2 DEF BarrierReleases, Step
    <3> QED
      BY <1>g, <1>m, <1>p, <3>1, Ways, StagesNamed
  <2>3. CASE SealOwner(cell) # "loadgen"
    <3>1. UNCHANGED ts /\ \A m \in Members : Turn(pc[m], "released")
      BY <1>2, <2>1, <2>3 DEF BarrierReleases, All, Turn
    <3> QED
      BY <1>m, <2>1, <3>1, GroupTurns
  <2> QED
    BY <2>2, <2>3
<1>3. CASE Seals
  <2>1. Step(Members, "held", CohortSeal, "sealed") /\ cell # "D0"
    BY <1>3 DEF Seals, AggregatesEnvelopes
  <2> QED
    BY <1>g, <1>m, <1>p, <2>1, Ways, StagesNamed
<1>4. CASE FormationFails
  <2>1. PICK held : held = {m \in Members : pc[m] = "held"}
    OBVIOUS
  <2>2. Move(held, "refused") /\ UNCHANGED ts
    BY <1>4, <2>1 DEF FormationFails
  <2>3. \A m \in held : Turn(pc[m], "refused")
    BY <2>1 DEF Turn
  <2> QED
    BY <2>1, <2>2, <2>3, GroupTurns
<1>5. ASSUME NEW m \in Members, Sends(m) PROVE \A n \in Members : Goes(n)
  BY <1>5, <1>g, <1>m, <1>p, Ways, StagesNamed DEF Sends
<1>6. ASSUME NEW m \in Members, Lost(m) PROVE \A n \in Members : Goes(n)
  <2>1. Move({m}, "lost") /\ UNCHANGED ts /\ \A n \in {m} : Turn(pc[n], "lost")
    BY <1>6 DEF Lost, Turn
  <2> QED
    BY <1>m, <2>1, GroupTurns
<1>7. ASSUME NEW m \in Members, ReachesProxy(m) PROVE \A n \in Members : Goes(n)
  <2>1. cell # "D0" /\ \E to \in {"held", "refused"} : Step({m}, "sent", ProxyRecv, to)
    BY <1>7 DEF ReachesProxy
  <2>2. PICK to \in {"held", "refused"} : Step({m}, "sent", ProxyRecv, to)
    BY <2>1
  <2>3. Way("sent", ProxyRecv, to) /\ to \in Points /\ ProxyRecv \in Stages
    BY <1>p, <2>1, Ways, StagesNamed
  <2> QED
    BY <1>g, <1>m, <2>2, <2>3
<1>8. ASSUME NEW m \in Members, FansOut(m) PROVE \A n \in Members : Goes(n)
  <2>1. Step({m}, "returning", ProxyFanout, "answered") /\ pc[m] = "returning"
    BY <1>8 DEF FansOut, Step, All
  <2>2. Way("returning", ProxyFanout, "answered")
    BY <1>d, <2>1, Ways
  <2> QED
    BY <1>g, <1>m, <1>p, <2>1, <2>2, StagesNamed
<1>9. ASSUME NEW m \in Members, ClientReceives(m) PROVE \A n \in Members : Goes(n)
  <2>1. PICK from \in {"answered", "refused", "lost"} : Step({m}, from, ClientRecv, "recorded")
    BY <1>9 DEF ClientReceives, Receives
  <2>2. Way(from, ClientRecv, "recorded")
    BY Ways
  <2> QED
    BY <1>g, <1>m, <1>p, <2>1, <2>2, StagesNamed
<1>10. ASSUME NEW m \in Members, Dispatches(m) PROVE \A n \in Members : Goes(n)
  <2>1. Step({m}, "unpacked", AdapterDispatch, "dispatched") /\ pc[m] = "unpacked"
    BY <1>10 DEF Dispatches, Step, All
  <2>2. cell # "D0"
    BY <1>d, <2>1
  <2> QED
    BY <1>g, <1>m, <1>p, <2>1, <2>2, Ways, StagesNamed
<1>11. ASSUME NEW m \in Members, SubmitReturns(m) PROVE \A n \in Members : Goes(n)
  <2>1. /\ cell # "D0" /\ pc[m] \in {"dispatched", "queued", "computed"}
        /\ Step({m}, pc[m], AdapterResult, "returned")
    BY <1>11 DEF SubmitReturns
  <2>2. Way(pc[m], AdapterResult, "returned")
    BY <2>1, Ways
  <2> QED
    BY <1>g, <1>m, <1>p, <2>1, <2>2, StagesNamed
<1>12. ASSUME NEW m \in Members, DirectReturns(m) PROVE \A n \in Members : Goes(n)
  <2>1. Move({m}, "answered") /\ UNCHANGED ts /\ \A n \in {m} : Turn(pc[n], "answered")
    BY <1>12 DEF DirectReturns, Turn
  <2> QED
    BY <1>m, <2>1, GroupTurns
<1>13. ASSUME NEW m \in Members, Enqueues(m) PROVE \A n \in Members : Goes(n)
  <2>1. PICK from \in {"sent", "dispatched"} : Step({m}, from, QueueStart, "queued")
    BY <1>13 DEF Enqueues
  <2>2. Way(from, QueueStart, "queued")
    BY Ways
  <2> QED
    BY <1>g, <1>m, <1>p, <2>1, <2>2, StagesNamed
<1>14. ASSUME NEW g \in Envelopes, ProxySends(g) PROVE \A n \in Members : Goes(n)
  <2>1. PICK from \in {"sealed", "held"} : Step(g, from, ProxySend, "enveloped")
    BY <1>14 DEF ProxySends
  <2>2. g \in SUBSET Members /\ cell # "D0"
    BY <1>d, <1>e, <2>1
  <2>3. Way(from, ProxySend, "enveloped")
    BY Ways
  <2> QED
    BY <1>g, <1>p, <2>1, <2>2, <2>3, StagesNamed
<1>15. ASSUME NEW g \in Envelopes, ProxyReceives(g) PROVE \A n \in Members : Goes(n)
  <2>1. Step(g, "responded", ProxyRespRecv, "returning")
    BY <1>15 DEF ProxyReceives
  <2>2. g \in SUBSET Members /\ cell # "D0"
    BY <1>d, <1>e, <2>1
  <2> QED
    BY <1>g, <1>p, <2>1, <2>2, Ways, StagesNamed
<1>16. ASSUME NEW g \in Envelopes, EnvelopeFails(g) PROVE \A n \in Members : Goes(n)
  <2>1. Step(g, "enveloped", ProxyRespRecv, "returning")
    BY <1>16 DEF EnvelopeFails
  <2>2. g \in SUBSET Members /\ cell # "D0"
    BY <1>d, <1>e, <2>1
  <2> QED
    BY <1>g, <1>p, <2>1, <2>2, Ways, StagesNamed
<1>17. ASSUME NEW g \in Envelopes, AdapterReceives(g) PROVE \A n \in Members : Goes(n)
  <2>1. Step(g, "enveloped", AdapterRecv, "unpacked")
    BY <1>17 DEF AdapterReceives
  <2>2. g \in SUBSET Members /\ cell # "D0"
    BY <1>d, <1>e, <2>1
  <2> QED
    BY <1>g, <1>p, <2>1, <2>2, Ways, StagesNamed
<1>18. ASSUME NEW g \in Envelopes, AdapterSends(g) PROVE \A n \in Members : Goes(n)
  <2>1. Step(g, "returned", AdapterSend, "responded")
    BY <1>18 DEF AdapterSends
  <2>2. g \in SUBSET Members /\ cell # "D0"
    BY <1>d, <1>e, <2>1
  <2> QED
    BY <1>g, <1>p, <2>1, <2>2, Ways, StagesNamed
<1>19. ASSUME NEW g \in (SUBSET Members) \ {{}}, Computes(g) PROVE \A n \in Members : Goes(n)
  BY <1>19, <1>g, <1>p, Ways, StagesNamed DEF Computes
<1>20. ASSUME NEW g \in (SUBSET Members) \ {{}}, Completes(g) PROVE \A n \in Members : Goes(n)
  BY <1>20, <1>g, <1>p, Ways, StagesNamed DEF Completes
<1> QED
  BY <1>1, <1>2, <1>3, <1>4, <1>5, <1>6, <1>7, <1>8, <1>9, <1>10, <1>11, <1>12, <1>13, <1>14, <1>15,
     <1>16, <1>17, <1>18, <1>19, <1>20 DEF Next

\* Where a member is that has been executed.
LEMMA ExecutedPoints ==
  ASSUME cell \in ImplementedCells, NEW point \in SharedPoints \ {"lost", "refused"}, ComputeEnd \in Passed(point)
  PROVE  point \in (Executing \ {"computing"}) \cup {"recorded"}
<1>1. Place(ComputeEnd) = 20
  BY PlaceValues, StagesNamed DEF ComputeEnd, Stages
<1>2. 20 <= Reached(point)
  BY <1>1 DEF Passed
<1> QED
  BY <1>2, ReachedValues DEF SharedPoints, DirectPoints, Executing

\* A way keeps a flight a flight.
LEMMA TakesKeeps ==
  ASSUME TypeOK, NEW m \in Members, Fate(m), Right(m), Flight(m), Carried(m), now \in 1 .. MaxTime, cell' = cell,
         Takes(m)
  PROVE  Flight(m)' /\ Carried(m)'
<1>1. PICK stage \in Stages, to \in Points :
        Way(pc[m], stage, to) /\ pc'[m] = to /\ ts'[m] = With(ts[m], stage, now)
  BY DEF Takes
<1>2. /\ DOMAIN ts'[m] = DOMAIN ts[m] \cup {stage}
      /\ \A s \in DOMAIN ts'[m] : ts'[m][s] = IF s = stage THEN now ELSE ts[m][s]
  BY <1>1 DEF With
<1>t. /\ now \in Nat /\ 1 <= now /\ pc[m] \in SharedPoints /\ cell \in ImplementedCells
      /\ \A s \in DOMAIN ts[m] : ts[m][s] \in Nat /\ ts[m][s] <= now
  BY DEF TypeOK, Clocked, Points, SharedPoints
<1>d. ClientRecv # ClientSend
  BY DEF ClientRecv, ClientSend
<1>3. to \notin {"barrier", "released"} => ClientSend \in DOMAIN ts'[m]
  BY <1>1, <1>2 DEF Way, Flight
<1>4. ClientRecv \in DOMAIN ts'[m] <=> to = "recorded"
  BY <1>1, <1>2 DEF Way, Flight
<1>5. to = "recorded" => ts'[m][ClientSend] <= ts'[m][ClientRecv]
  <2> SUFFICES ASSUME to = "recorded" PROVE ts'[m][ClientSend] <= ts'[m][ClientRecv]
    OBVIOUS
  <2>1. stage = ClientRecv /\ pc[m] \notin {"barrier", "released"}
    BY <1>1 DEF Way
  <2>2. ClientSend \in DOMAIN ts[m]
    BY <2>1 DEF Flight
  <2>3. ts'[m][ClientSend] = ts[m][ClientSend] /\ ts'[m][ClientRecv] = now
    BY <1>2, <1>d, <2>1, <2>2
  <2> QED
    BY <1>t, <2>2, <2>3
<1>6. \A s \in DOMAIN ts'[m] : 1 <= ts'[m][s]
  BY <1>2, <1>t DEF Flight
<1>7. Flight(m)'
  BY <1>1, <1>3, <1>4, <1>5, <1>6 DEF Flight
<1>8. ASSUME ComputeEnd \in DOMAIN ts'[m] PROVE to \notin {"lost", "refused"} /\ Timed(m)' /\ Ordered(m)'
  <2>1. pc[m] \in Executing /\ Timed(m) /\ Ordered(m)
    <3>1. CASE ComputeEnd \in DOMAIN ts[m]
      <4>1. pc[m] \notin {"lost", "refused"} /\ Timed(m) /\ Ordered(m)
        BY <3>1 DEF Carried
      <4>2. ComputeEnd \in Passed(pc[m])
        BY <3>1, <4>1 DEF Timed
      <4>3. pc[m] \in (Executing \ {"computing"}) \cup {"recorded"}
        BY <1>t, <4>1, <4>2, ExecutedPoints
      <4> QED
        BY <1>1, <4>1, <4>3 DEF Way
    <3>2. CASE ComputeEnd \notin DOMAIN ts[m]
      <4>1. pc[m] = "computing"
        BY <1>1, <1>2, <1>8, <3>2 DEF Way
      <4>2. Sound(m)
        BY <4>1 DEF Sound, Fate
      <4> QED
        BY <4>1, <4>2 DEF Right, Executing
    <3> QED
      BY <3>1, <3>2
  <2>2. to \notin {"lost", "refused"} /\ Leg(pc[m], stage, to)
    BY <1>1, <2>1 DEF Way
  <2>3. Timed(m)' /\ Ordered(m)'
    BY <1>1, <2>1, <2>2, TakenInOrder
  <2> QED
    BY <2>2, <2>3
<1> QED
  BY <1>1, <1>7, <1>8 DEF Carried

\* So does a turn.
LEMMA TurnsKeeps ==
  ASSUME TypeOK, NEW m \in Members, Flight(m), Carried(m), cell' = cell, Turns(m)
  PROVE  Flight(m)' /\ Carried(m)'
<1>t. pc[m] \in SharedPoints /\ cell \in ImplementedCells /\ DOMAIN ts[m] \subseteq Stages
  BY DEF TypeOK, Points, SharedPoints, Clocked
<1>1. Turn(pc[m], pc'[m]) /\ ts'[m] = ts[m]
  BY DEF Turns
<1>2. pc[m] # "recorded" /\ pc'[m] # "recorded" /\ (pc[m] \in {"barrier", "released"} => pc'[m] = "released")
  BY <1>1 DEF Turn
<1>3. Flight(m)'
  BY <1>1, <1>2 DEF Flight
<1>4. ASSUME ComputeEnd \in DOMAIN ts[m] PROVE pc'[m] \notin {"lost", "refused"} /\ Timed(m)' /\ Ordered(m)'
  <2>1. pc[m] \notin {"lost", "refused"} /\ Timed(m) /\ Ordered(m)
    BY <1>4 DEF Carried
  <2>2. ComputeEnd \in Passed(pc[m])
    BY <1>4, <2>1 DEF Timed
  <2>3. pc[m] \in (Executing \ {"computing"}) \cup {"recorded"}
    BY <1>t, <2>1, <2>2, ExecutedPoints
  <2>4. cell = "D0" /\ pc[m] = "computed" /\ pc'[m] = "answered"
    BY <1>1, <2>3 DEF Turn, Executing
  <2>5. Passed("answered") = Passed("computed")
    BY <1>t, <2>4, Legs
  <2>6. Passed("answered")' = Passed("answered")
    BY CellDecides DEF SharedPoints, DirectPoints
  <2>7. Timed(m)'
    BY <1>1, <2>1, <2>4, <2>5, <2>6 DEF Timed
  <2>8. Ordered(m)'
    BY <1>1, <1>t, <2>1, CellDecides DEF Ordered
  <2> QED
    BY <2>4, <2>7, <2>8
<1> QED
  BY <1>1, <1>3, <1>4 DEF Carried

\* So does a rest.
LEMMA RestsKeeps ==
  ASSUME TypeOK, NEW m \in Members, Flight(m), Carried(m), cell' = cell, Rests(m)
  PROVE  Flight(m)' /\ Carried(m)'
<1>t. pc[m] \in SharedPoints /\ DOMAIN ts[m] \subseteq Stages
  BY DEF TypeOK, Points, SharedPoints, Clocked
<1>1. pc'[m] = pc[m] /\ ts'[m] = ts[m]
  BY DEF Rests
<1>2. Timed(m) => Timed(m)'
  BY <1>1, <1>t, CellDecides DEF Timed
<1>3. Ordered(m) => Ordered(m)'
  BY <1>1, <1>t, CellDecides DEF Ordered
<1>4. Flight(m)'
  BY <1>1 DEF Flight
<1> QED
  BY <1>1, <1>2, <1>3, <1>4 DEF Carried

\* In every state of an honest run: a member's completion comes after its send, and
\* a member that was executed has every instant of its point in order, whether its
\* submission then failed or its reply came too late.
THEOREM FlightsHold == Spec => []Flying
<1>1. ASSUME Init, IInv PROVE Flying
  <2>1. /\ pc = [m \in Members |-> "barrier"] /\ now = 1 /\ ts = [m \in Members |-> [s \in {Sched} |-> 1]]
    BY <1>1 DEF Init
  <2>2. now \in 1 .. MaxTime
    BY <2>1, RunEvidenceAssumption
  <2>3. \A m \in Members : DOMAIN ts[m] = {1} /\ ts[m][1] = 1
    BY <2>1 DEF Sched
  <2>4. \A m \in Members : Flight(m) /\ Carried(m)
    BY <2>1, <2>3 DEF Flight, Carried, ClientSend, ClientRecv, ComputeEnd
  <2> QED
    BY <1>1, <2>2, <2>4 DEF Flying
<1>2. ASSUME Flying, IInv', Next PROVE Flying'
  <2>1. /\ TypeOK /\ now \in 1 .. MaxTime
        /\ \A m \in Members : Fate(m) /\ Right(m) /\ Flight(m) /\ Carried(m)
    BY <1>2 DEF Flying, IInv
  <2>2. cell' = cell /\ \A m \in Members : Goes(m)
    BY <1>2, <2>1, EveryoneGoes
  <2>3. \A m \in Members : Flight(m)' /\ Carried(m)'
    BY <2>1, <2>2, TakesKeeps, TurnsKeeps, RestsKeeps DEF Goes
  <2>4. now' \in 1 .. MaxTime
    <3>1. Tick \/ now' = now
      BY <1>2 DEF Next, BarrierReleases, Seals, FormationFails, Judges, Sends, Lost, ReachesProxy, FansOut,
         ClientReceives, Receives, Dispatches, SubmitReturns, DirectReturns, Enqueues, ProxySends,
         ProxyReceives, EnvelopeFails, AdapterReceives, AdapterSends, Computes, Completes, Step
    <3> QED
      BY <2>1, <3>1, RunEvidenceAssumption DEF Tick
  <2> QED
    BY <1>2, <2>3, <2>4 DEF Flying
<1>3. ASSUME Flying, IInv', UNCHANGED vars PROVE Flying'
  <2>1. /\ TypeOK /\ now \in 1 .. MaxTime /\ \A m \in Members : Flight(m) /\ Carried(m)
    BY <1>3 DEF Flying, IInv
  <2>2. cell' = cell /\ now' = now /\ \A m \in Members : Rests(m)
    BY <1>3 DEF vars, Rests
  <2>3. \A m \in Members : Flight(m)' /\ Carried(m)'
    BY <2>1, <2>2, RestsKeeps
  <2> QED
    BY <1>3, <2>1, <2>2, <2>3 DEF Flying
<1>4. Flying /\ IInv' /\ [Next]_vars => Flying'
  BY <1>2, <1>3
<1> QED
  BY <1>1, <1>4, InvariantHolds, PTL DEF Spec

-----------------------------------------------------------------------------
(* What the join shows of a flight, however it ended.                      *)

\* A process tells of every stage it has, whatever it thinks of the outcome; the
\* proxy only if it sent the envelope on.
LEMMA StagesWritten ==
  ASSUME cell \in ImplementedCells, NEW m \in Members
  PROVE  /\ Written("loadgen", m).stages = Keeping(m, Told("loadgen"))
         /\ Written("triton", m).stages = Keeping(m, Told("triton"))
         /\ Written("adapter", m).stages = Keeping(m, Told("adapter"))
         /\ Travelled(m) => Written("proxy", m).stages = Keeping(m, Told("proxy"))
<1>0. SealOwner(cell) \in {"loadgen", "proxy"}
  BY DEF SealOwner
<1>1. \A e, stages, outcome :
        /\ Record(e, m, stages, outcome).stages = Keeping(m, stages)
        /\ DOMAIN Record(e, m, stages, outcome) =
             {"emitter", "member", "stages", "status", "domain", "version", "membership", "claimed", "batchSize",
              "envelope", "dispatch"}
  BY DEF Record
<1>2. ASSUME NEW e, NEW stages, NEW outcome, NEW set
      PROVE  /\ Attesting(Record(e, m, stages, outcome), set).stages = Keeping(m, stages)
             /\ DOMAIN Attesting(Record(e, m, stages, outcome), set) = DOMAIN Record(e, m, stages, outcome)
  <2>1. PICK w : w = Record(e, m, stages, outcome)
    OBVIOUS
  <2>2. Attesting(w, set).stages = w.stages /\ DOMAIN Attesting(w, set) = DOMAIN w
    BY <1>1, <2>1 DEF Attesting
  <2> QED
    BY <1>1, <2>1, <2>2
<1>3. Written("loadgen", m).stages = Keeping(m, Told("loadgen"))
  <2>1. Told("loadgen") = {Sched, ClientSend, ClientRecv} \cup (IF SealOwner(cell) = "loadgen" THEN {CohortSeal} ELSE {})
    BY DEF Told, OwnStages
  <2>2. Written("loadgen", m) = LoadGenRecord(m)
    BY DEF Written
  <2> QED
    BY <1>2, <2>1, <2>2 DEF LoadGenRecord
<1>4. Written("triton", m).stages = Keeping(m, Told("triton"))
  <2>1. Told("triton") = {QueueStart, ComputeStart, ComputeEnd}
    BY <1>0 DEF Told, OwnStages
  <2>2. Written("triton", m) = TritonRecord(m)
    BY DEF Written
  <2> QED
    BY <1>1, <2>1, <2>2 DEF TritonRecord
<1>5. Written("adapter", m).stages = Keeping(m, Told("adapter"))
  <2>1. Told("adapter") = {AdapterRecv, AdapterDispatch, AdapterResult, AdapterSend}
    BY <1>0 DEF Told, OwnStages
  <2>2. Written("adapter", m) = AdapterRecord(m)
    BY DEF Written
  <2>3. PICK outcome, set, e, d :
          AdapterRecord(m) = [Attesting(Record("adapter", m, Told("adapter"), outcome), set)
                                EXCEPT !.envelope = e, !.dispatch = d]
    BY <2>1 DEF AdapterRecord
  <2>4. PICK v : v = Attesting(Record("adapter", m, Told("adapter"), outcome), set)
    OBVIOUS
  <2>5. "stages" \in DOMAIN v /\ v.stages = Keeping(m, Told("adapter"))
    BY <1>1, <1>2, <2>4
  <2>6. AdapterRecord(m) = [v EXCEPT !.envelope = e, !.dispatch = d]
    BY <2>3, <2>4
  <2> QED
    BY <2>2, <2>5, <2>6
<1>6. Travelled(m) => Written("proxy", m).stages = Keeping(m, Told("proxy"))
  <2> SUFFICES ASSUME Travelled(m) PROVE Written("proxy", m).stages = Keeping(m, Told("proxy"))
    OBVIOUS
  <2>1. Told("proxy") = {ProxyRecv, ProxySend, ProxyRespRecv, ProxyFanout}
                           \cup (IF SealOwner(cell) = "proxy" THEN {CohortSeal} ELSE {})
    BY DEF Told, OwnStages
  <2>2. Written("proxy", m) = ProxyRecord(m)
    BY DEF Written
  <2>3. PICK outcome : ProxyRecord(m) = [Record("proxy", m, Told("proxy"), outcome) EXCEPT !.envelope = Envelope(m)]
    BY <2>1 DEF ProxyRecord
  <2>4. PICK w : w = Record("proxy", m, Told("proxy"), outcome)
    OBVIOUS
  <2>5. "stages" \in DOMAIN w /\ w.stages = Keeping(m, Told("proxy"))
    BY <1>1, <2>4
  <2>6. ProxyRecord(m) = [w EXCEPT !.envelope = Envelope(m)]
    BY <2>3, <2>4
  <2> QED
    BY <2>2, <2>5, <2>6
<1> QED
  BY <1>3, <1>4, <1>5, <1>6

\* The join shows these instants of the member as they were taken.
Shows(m, stages) ==
  /\ stages \subseteq DOMAIN joined[m].stages /\ stages \subseteq DOMAIN ts[m]
  /\ \A s \in stages : joined[m].stages[s] = ts[m][s]

\* Of a member that was executed it shows all of the topology, in order.
LEMMA ExecutedIsSeen ==
  ASSUME Flying, Done, NEW m \in Executed
  PROVE  /\ DOMAIN joined[m].stages = TopologyMask(cell) /\ Shows(m, TopologyMask(cell))
         /\ DOMAIN ts[m] = TopologyMask(cell) /\ Ordered(m)
<1>t. /\ TypeOK /\ IInv /\ cell \in ImplementedCells /\ m \in Members /\ Carried(m) /\ ComputeEnd \in DOMAIN ts[m]
  BY DEF Flying, IInv, TypeOK, Executed
<1>j. joined = [n \in Members |-> JoinedOnce(n)] /\ pc[m] = "recorded"
  BY <1>t, VerdictOnRecords
<1>1. Passed("recorded") = TopologyMask(cell)
  <2>1. /\ \A s \in Stages : Place(s) = IF s = 4 /\ cell # "F10" THEN 3 ELSE 2 * s
        /\ TopologyMask(cell) = IF cell = "D0" THEN {1, 2, 15, 4, 8, 9, 10} ELSE 1 .. 15
    BY <1>t, PlaceValues
  <2>2. \A s \in 1 .. 15 : Place(s) <= 30
    BY <2>1 DEF Stages
  <2>3. TopologyMask(cell) \subseteq 1 .. 15
    BY <2>1
  <2> QED
    BY <2>2, <2>3, ReachedValues DEF Passed
<1>2. DOMAIN ts[m] = TopologyMask(cell) /\ Ordered(m)
  BY <1>1, <1>t, <1>j DEF Carried, Timed
<1>m. /\ {Sched, ClientSend, ClientRecv, CohortSeal, QueueStart, ComputeStart, ComputeEnd} \subseteq TopologyMask(cell)
      /\ cell = "D0" => TopologyMask(cell) =
                          {Sched, ClientSend, ClientRecv, CohortSeal, QueueStart, ComputeStart, ComputeEnd}
      /\ cell # "D0" => TopologyMask(cell) = Stages
      /\ cell = "D0" => SealOwner(cell) = "loadgen"
      /\ SealOwner(cell) \in {"loadgen", "proxy"}
  BY <1>t, MaskNamed, PlaceValues DEF SealOwner
<1>3. Leaving(m) = (IF cell = "D0" THEN {"loadgen", "triton"} ELSE Emitters) /\ (Travelled(m) <=> cell # "D0")
  <2>1. /\ ProxyRecv \in DOMAIN ts[m] <=> cell # "D0"
        /\ AdapterSend \in DOMAIN ts[m] <=> cell # "D0"
        /\ ProxySend \in DOMAIN ts[m] <=> cell # "D0"
    BY <1>2, <1>m, StagesNamed
       DEF Sched, ClientSend, ProxyRecv, ProxySend, AdapterSend, CohortSeal, QueueStart, ComputeStart, ComputeEnd,
           ClientRecv
  <2> QED
    BY <1>t, <2>1 DEF Leaving, Writes, Emitters, Travelled
<1>4. \A e \in Leaving(m) : Written(e, m).stages = Keeping(m, Told(e))
  BY <1>t, <1>3, StagesWritten DEF Emitters
<1>5. \A e \in Leaving(m) : DOMAIN Written(e, m).stages = Told(e) \cap TopologyMask(cell)
  BY <1>2, <1>4 DEF Keeping
<1>6. \A s \in TopologyMask(cell) : \E e \in Leaving(m) : s \in Told(e)
  BY <1>3, <1>m
     DEF Told, OwnStages, Emitters, Stages, Sched, ClientSend, ProxyRecv, CohortSeal, ProxySend, AdapterRecv,
         AdapterDispatch, QueueStart, ComputeStart, ComputeEnd, AdapterResult, AdapterSend, ProxyRespRecv,
         ProxyFanout, ClientRecv
<1>7. Seen(m) = TopologyMask(cell)
  BY <1>5, <1>6 DEF Seen
<1>8. joined[m].stages = [s \in TopologyMask(cell) |-> ts[m][s]]
  BY <1>t, <1>j, <1>7 DEF JoinedOnce
<1> QED
  BY <1>2, <1>8 DEF Shows

\* Of every member it shows the send and the completion.
LEMMA FlightIsSeen ==
  ASSUME Flying, Done, NEW m \in Members
  PROVE  Shows(m, {ClientSend, ClientRecv})
<1>t. TypeOK /\ IInv /\ cell \in ImplementedCells /\ Flight(m)
  BY DEF Flying, IInv, TypeOK
<1>j. joined = [n \in Members |-> JoinedOnce(n)] /\ pc[m] = "recorded"
  BY <1>t, VerdictOnRecords
<1>1. ClientSend \in DOMAIN ts[m] /\ ClientRecv \in DOMAIN ts[m]
  BY <1>t, <1>j DEF Flight
<1>2. Written("loadgen", m).stages = Keeping(m, Told("loadgen")) /\ "loadgen" \in Leaving(m)
  BY <1>t, StagesWritten DEF Leaving, Emitters, Writes
<1>3. ClientSend \in Told("loadgen") /\ ClientRecv \in Told("loadgen")
  BY DEF Told, OwnStages
<1>4. {ClientSend, ClientRecv} \subseteq Seen(m)
  BY <1>1, <1>2, <1>3 DEF Keeping, Seen
<1>5. joined[m].stages = [s \in Seen(m) |-> ts[m][s]]
  BY <1>j DEF JoinedOnce
<1> QED
  BY <1>1, <1>4, <1>5 DEF Shows

\* Alone in its envelope, a member's residual is the time that has no name.
LEMMA ResidualIsUnnamed ==
  ASSUME Flying, Done
  PROVE  MemberResidualIsUnnamed
<1>t. cell \in ImplementedCells /\ \A m \in Members : \A s \in DOMAIN ts[m] : ts[m][s] \in Nat
  BY DEF Flying, IInv, TypeOK, Clocked
<1> SUFFICES ASSUME NEW m \in Executed
             PROVE  memberResidual(cell, joined[m]) = TimeIn(Chain(cell), joined[m].stages, FALSE)
  BY DEF MemberResidualIsUnnamed
<1>m. m \in Members
  BY DEF Executed
<1>1. PICK instants : instants = joined[m].stages
  OBVIOUS
<1>2. \A s \in TopologyMask(cell) : s \in DOMAIN instants /\ instants[s] \in Int
  BY <1>1, <1>m, <1>t, ExecutedIsSeen DEF Shows
<1>3. PICK a, b : a = TimeIn(Chain(cell), instants, TRUE) /\ b = TimeIn(Chain(cell), instants, FALSE)
  OBVIOUS
<1>4. a \in Int /\ b \in Int /\ a + b = instants[ClientRecv] - instants[ClientSend]
  BY <1>t, <1>2, <1>3, ChainTelescopes
<1>5. memberResidual(cell, joined[m]) = instants[ClientRecv] - instants[ClientSend] - a
  BY <1>1, <1>3 DEF memberResidual
<1>6. instants[ClientRecv] \in Int /\ instants[ClientSend] \in Int
  BY <1>2, <1>t, MaskNamed
<1>7. PICK p \in Int, q \in Int : p = instants[ClientRecv] /\ q = instants[ClientSend]
  BY <1>6
<1>8. p - q - a = b
  BY <1>4, <1>7
<1>9. memberResidual(cell, joined[m]) = p - q - a
  BY <1>5, <1>7
<1> QED
  BY <1>1, <1>3, <1>8, <1>9

\* The bounds of what a group was timed at.
LEMMA GroupBounds ==
  ASSUME NEW group \in SUBSET Members, group # {}, NEW f, NEW clock \in Nat,
         \A m \in group : f[m] \in Nat /\ f[m] <= clock
  PROVE  /\ \E m \in group : Max({f[n] : n \in group}) = f[m]
         /\ \E m \in group : Min({f[n] : n \in group}) = f[m]
         /\ \A m \in group : Min({f[n] : n \in group}) <= f[m] /\ f[m] <= Max({f[n] : n \in group})
         /\ Max({f[n] : n \in group}) \in Nat /\ Min({f[n] : n \in group}) \in Nat
<1> DEFINE S == {f[n] : n \in group}
<1>1. S \in SUBSET Nat /\ S # {} /\ \A i \in S : i <= clock
  OBVIOUS
<1>2. \A m \in group : f[m] \in S
  OBVIOUS
<1>3. \A x \in S : \E m \in group : x = f[m]
  OBVIOUS
<1> HIDE DEF S
<1>4. Max(S) \in S /\ Min(S) \in S /\ \A i \in S : Min(S) <= i /\ i <= Max(S)
  BY <1>1, BoundsAreMembers
<1>5. /\ \E m \in group : Max(S) = f[m]
      /\ \E m \in group : Min(S) = f[m]
      /\ \A m \in group : Min(S) <= f[m] /\ f[m] <= Max(S)
      /\ Max(S) \in Nat /\ Min(S) \in Nat
  BY <1>1, <1>2, <1>3, <1>4
<1> QED
  BY <1>5 DEF S

\* The windows of a judged run are the flights of its members.
LEMMA FlightsInWindows ==
  ASSUME Flying, Done
  PROVE  /\ InFlight(joined) = {[start |-> ts[m][ClientSend], end |-> ts[m][ClientRecv], member |-> m] : m \in Members}
         /\ \A m \in Members : /\ ts[m][ClientSend] \in Nat /\ ts[m][ClientRecv] \in Nat /\ 1 <= ts[m][ClientSend]
                               /\ ts[m][ClientSend] <= ts[m][ClientRecv] /\ ts[m][ClientRecv] <= now
         /\ now \in Nat /\ now <= MaxTime
<1>t. TypeOK /\ IInv /\ now \in Nat /\ now \in 1 .. MaxTime /\ MaxTime \in Nat /\ \A m \in Members : Clocked(ts[m], now)
  BY RunEvidenceAssumption DEF Flying, IInv, TypeOK
<1>j. DOMAIN joined = Members /\ \A m \in Members : pc[m] = "recorded"
  BY <1>t, VerdictOnRecords
<1>1. ASSUME NEW m \in Members
      PROVE  /\ ClientSend \in DOMAIN joined[m].stages /\ ClientRecv \in DOMAIN joined[m].stages
             /\ joined[m].stages[ClientSend] = ts[m][ClientSend] /\ joined[m].stages[ClientRecv] = ts[m][ClientRecv]
             /\ ClientSend \in DOMAIN ts[m] /\ ClientRecv \in DOMAIN ts[m]
  BY FlightIsSeen DEF Shows
<1>2. ASSUME NEW m \in Members
      PROVE  /\ ts[m][ClientSend] \in Nat /\ ts[m][ClientRecv] \in Nat /\ 1 <= ts[m][ClientSend]
             /\ ts[m][ClientSend] <= ts[m][ClientRecv] /\ ts[m][ClientRecv] <= now
  <2>1. ClientSend \in DOMAIN ts[m] /\ ClientRecv \in DOMAIN ts[m]
    BY <1>1
  <2>2. ts[m][ClientSend] \in Nat /\ ts[m][ClientRecv] \in Nat /\ ts[m][ClientRecv] <= now
    BY <1>t, <2>1 DEF Clocked
  <2>3. Flight(m) /\ pc[m] = "recorded"
    BY <1>j DEF Flying
  <2>4. ts[m][ClientSend] <= ts[m][ClientRecv] /\ 1 <= ts[m][ClientSend]
    BY <2>1, <2>3 DEF Flight
  <2> QED
    BY <2>2, <2>4
<1>3. Carrying(joined, ClientSend) \cap Carrying(joined, ClientRecv) = Members
  BY <1>j, <1>1 DEF Carrying, Has
<1>4. Windows(joined, ClientSend, ClientRecv)
        = {[start |-> ts[m][ClientSend], end |-> ts[m][ClientRecv], member |-> m] : m \in Members}
  BY <1>1, <1>3 DEF Windows
<1>5. \A w \in Windows(joined, ClientSend, ClientRecv) : w.start <= w.end
  BY <1>2, <1>4
<1>6. InFlight(joined) = Windows(joined, ClientSend, ClientRecv)
  BY <1>5 DEF InFlight
<1> QED
  BY <1>2, <1>4, <1>6, <1>t

\* The whole of a cohort's execution is seen at once.
LEMMA CohortIsTiled ==
  ASSUME Flying, Done
  PROVE  CohortTilesMakespan
<1>t. /\ cell \in ImplementedCells /\ TypeOK /\ IInv /\ Agreeing /\ now \in Nat
      /\ \A m \in Members : \A s \in DOMAIN ts[m] : ts[m][s] \in Nat /\ ts[m][s] <= now
      /\ Members # {} /\ Members \in SUBSET Members
  BY MembersFacts DEF Flying, IInv, TypeOK, Clocked
<1> SUFFICES ASSUME AggregatesEnvelopes(cell), Executed = Members PROVE CohortTilesMakespan
  BY DEF CohortTilesMakespan
<1>j. DOMAIN joined = Members
  BY <1>t, VerdictOnRecords
<1>m. TopologyMask(cell) = Stages /\ cell # "D0"
  BY <1>t, MaskNamed DEF AggregatesEnvelopes
<1>1. ASSUME NEW m \in Members, NEW s \in Stages
      PROVE  /\ s \in DOMAIN joined[m].stages /\ joined[m].stages[s] = ts[m][s]
             /\ ts[m][s] \in Nat /\ ts[m][s] <= now
  BY <1>m, <1>t, ExecutedIsSeen DEF Shows
<1> DEFINE at(s) == {ts[m][s] : m \in Members}
<1>2. \A s \in Stages : Carrying(joined, s) = Members /\ Instants(joined, s) = at(s)
  <2> SUFFICES ASSUME NEW s \in Stages PROVE Carrying(joined, s) = Members /\ Instants(joined, s) = at(s)
    OBVIOUS
  <2>1. Carrying(joined, s) = Members
    BY <1>1, <1>j DEF Carrying, Has
  <2> QED
    BY <1>1, <2>1 DEF Instants
<1>3. PICK instants : instants = cohortInstants(joined)
  OBVIOUS
<1>4. DOMAIN instants = Stages /\ \A s \in Stages : instants[s] = IF pacedByLastMember(s) THEN Max(at(s)) ELSE Min(at(s))
  BY <1>2, <1>3, <1>t DEF cohortInstants
<1>5. ASSUME NEW s \in Stages
      PROVE  /\ \E m \in Members : Max(at(s)) = ts[m][s]
             /\ \E m \in Members : Min(at(s)) = ts[m][s]
             /\ \A m \in Members : Min(at(s)) <= ts[m][s] /\ ts[m][s] <= Max(at(s))
             /\ Max(at(s)) \in Nat /\ Min(at(s)) \in Nat
  <2>1. PICK f : f = [m \in Members |-> ts[m][s]]
    OBVIOUS
  <2>2. \A m \in Members : f[m] = ts[m][s]
    BY <2>1
  <2>3. \A m \in Members : f[m] \in Nat /\ f[m] <= now
    BY <1>1, <2>2
  <2>4. {f[n] : n \in Members} = at(s)
    BY <2>2
  <2>5. /\ \E m \in Members : Max({f[n] : n \in Members}) = f[m]
        /\ \E m \in Members : Min({f[n] : n \in Members}) = f[m]
        /\ \A m \in Members : Min({f[n] : n \in Members}) <= f[m] /\ f[m] <= Max({f[n] : n \in Members})
        /\ Max({f[n] : n \in Members}) \in Nat /\ Min({f[n] : n \in Members}) \in Nat
    BY <1>t, <2>3, GroupBounds
  <2> HIDE DEF at
  <2> QED
    BY <2>2, <2>4, <2>5
<1> HIDE DEF at
<1>6. \A s \in Stages : instants[s] \in Nat
  BY <1>4, <1>5
<1>7. ASSUME NEW i \in DOMAIN Chain(cell)
      PROVE  instants[Chain(cell)[i].start] <= instants[Chain(cell)[i].end]
  <2>1. PICK a, b : a = Chain(cell)[i].start /\ b = Chain(cell)[i].end
    OBVIOUS
  <2>2. Place(a) <= Place(b)
    BY <1>t, <2>1, ChainsRise
  <2>3. a \in Stages /\ b \in Stages /\ (pacedByLastMember(a) => pacedByLastMember(b))
    BY <1>m, <1>t, <2>1, ChainIsConnected DEF Connected
  <2>4. \A m \in Members : ts[m][a] <= ts[m][b]
    BY <1>m, <1>t, <2>2, <2>3, ExecutedIsSeen DEF Ordered
  <2>5. \A m \in Members : ts[m][a] \in Nat /\ ts[m][b] \in Nat
    BY <1>1, <2>3
  <2>6. /\ \E m \in Members : Max(at(a)) = ts[m][a]
        /\ \E m \in Members : Min(at(b)) = ts[m][b]
        /\ \A m \in Members : Min(at(a)) <= ts[m][a] /\ ts[m][b] <= Max(at(b))
        /\ Max(at(a)) \in Nat /\ Min(at(a)) \in Nat /\ Max(at(b)) \in Nat /\ Min(at(b)) \in Nat
    BY <1>5, <2>3
  <2>7. PICK k \in Members : Min(at(b)) = ts[k][b]
    BY <2>6
  <2>8. PICK l \in Members : Max(at(a)) = ts[l][a]
    BY <2>6
  <2>9. Min(at(a)) <= Min(at(b))
    <3>1. Min(at(a)) <= ts[k][a] /\ ts[k][a] <= ts[k][b] /\ ts[k][a] \in Nat /\ ts[k][b] \in Nat
      BY <2>4, <2>5, <2>6
    <3> QED
      BY <2>6, <2>7, <3>1
  <2>10. Max(at(a)) <= Max(at(b))
    <3>1. ts[l][b] <= Max(at(b)) /\ ts[l][a] <= ts[l][b] /\ ts[l][a] \in Nat /\ ts[l][b] \in Nat
      BY <2>4, <2>5, <2>6
    <3> QED
      BY <2>6, <2>8, <3>1
  <2>11. Min(at(a)) <= Max(at(b))
    <3>1. Min(at(a)) <= ts[k][a] /\ ts[k][a] <= ts[k][b] /\ ts[k][b] <= Max(at(b)) /\ ts[k][a] \in Nat /\ ts[k][b] \in Nat
      BY <2>4, <2>5, <2>6
    <3> QED
      BY <2>6, <3>1
  <2>12. instants[a] <= instants[b]
    BY <1>4, <2>3, <2>9, <2>10, <2>11
  <2> QED
    BY <2>1, <2>12
<1>8. TimeIn(Chain(cell), instants, TRUE) + TimeIn(Chain(cell), instants, FALSE) = Makespan(joined)
  <2>1. \A s \in TopologyMask(cell) : s \in DOMAIN instants /\ instants[s] \in Int
    BY <1>4, <1>6, <1>m
  <2>2. TimeIn(Chain(cell), instants, TRUE) + TimeIn(Chain(cell), instants, FALSE)
          = instants[ClientRecv] - instants[ClientSend]
    BY <1>t, <2>1, ChainTelescopes
  <2>3. ClientRecv \in Stages /\ ClientSend \in Stages /\ pacedByLastMember(ClientRecv) /\ ~pacedByLastMember(ClientSend)
    BY StagesNamed DEF pacedByLastMember, ClientSend, ComputeEnd, AdapterResult, AdapterSend, ProxyRespRecv,
                       ProxyFanout, ClientRecv
  <2>4. instants[ClientRecv] = Max(at(ClientRecv)) /\ instants[ClientSend] = Min(at(ClientSend))
    BY <1>4, <2>3
  <2>5. InFlight(joined) = {[start |-> ts[m][ClientSend], end |-> ts[m][ClientRecv], member |-> m] : m \in Members}
    BY FlightsInWindows
  <2>6. {w.end : w \in InFlight(joined)} = at(ClientRecv) /\ {w.start : w \in InFlight(joined)} = at(ClientSend)
    <3>1. \A w \in InFlight(joined) : \E m \in Members : w.start = ts[m][ClientSend] /\ w.end = ts[m][ClientRecv]
      BY <2>5
    <3>2. ASSUME NEW m \in Members
          PROVE  \E w \in InFlight(joined) : w.start = ts[m][ClientSend] /\ w.end = ts[m][ClientRecv]
      <4>1. PICK w : w = [start |-> ts[m][ClientSend], end |-> ts[m][ClientRecv], member |-> m]
        OBVIOUS
      <4>2. w \in InFlight(joined)
        BY <2>5, <4>1
      <4> QED
        BY <4>1, <4>2
    <3> QED
      BY <3>1, <3>2 DEF at
  <2> QED
    BY <2>2, <2>4, <2>6 DEF Makespan
<1>9. instants[CohortSeal] - instants[ProxyRecv] = Max({ts[m][CohortSeal] - ts[m][ProxyRecv] : m \in Members})
  <2>1. /\ CohortSeal \in Stages /\ ProxyRecv \in Stages /\ CohortSeal \in EnvelopeStages
        /\ ~pacedByLastMember(CohortSeal) /\ ~pacedByLastMember(ProxyRecv)
    BY StagesNamed DEF EnvelopeStages, pacedByLastMember, CohortSeal, ProxyRecv, ComputeEnd, AdapterResult, AdapterSend,
                       ProxyRespRecv, ProxyFanout, ClientRecv
  <2>2. instants[CohortSeal] = Min(at(CohortSeal)) /\ instants[ProxyRecv] = Min(at(ProxyRecv))
    BY <1>4, <2>1
  <2>3. PICK k \in Members : Min(at(CohortSeal)) = ts[k][CohortSeal]
    BY <1>5, <2>1
  <2>4. PICK l \in Members : Min(at(ProxyRecv)) = ts[l][ProxyRecv]
    BY <1>5, <2>1
  <2>5. \A m \in Members : ts[m][CohortSeal] = ts[k][CohortSeal]
    <3>1. \A m \in Members : CohortSeal \in DOMAIN ts[m]
      BY <1>m, <1>t, <2>1, ExecutedIsSeen
    <3> QED
      BY <1>t, <2>1, <3>1 DEF Agreeing
  <2>6. PICK c \in Nat, lo \in Nat : c = ts[k][CohortSeal] /\ lo = ts[l][ProxyRecv]
    BY <1>1, <2>1
  <2>7. \A m \in Members : ts[m][ProxyRecv] \in Nat /\ lo <= ts[m][ProxyRecv] /\ ts[m][ProxyRecv] <= c
    <3> SUFFICES ASSUME NEW m \in Members
                 PROVE  ts[m][ProxyRecv] \in Nat /\ lo <= ts[m][ProxyRecv] /\ ts[m][ProxyRecv] <= c
      OBVIOUS
    <3>1. ts[m][ProxyRecv] \in Nat /\ lo <= ts[m][ProxyRecv]
      BY <1>1, <1>5, <2>1, <2>4, <2>6
    <3>2. Place(ProxyRecv) <= Place(CohortSeal)
      <4>1. cell = "F10"
        BY <1>t, PlaceValues
      <4> QED
        BY <1>t, <4>1, PlaceValues DEF Stages, ProxyRecv, CohortSeal
    <3>3. ts[m][ProxyRecv] <= ts[m][CohortSeal]
      BY <1>m, <1>t, <2>1, <3>2, ExecutedIsSeen DEF Ordered
    <3> QED
      BY <2>5, <2>6, <3>1, <3>3
  <2>8. PICK W : W = {ts[m][CohortSeal] - ts[m][ProxyRecv] : m \in Members}
    OBVIOUS
  <2>9. W = {c - ts[m][ProxyRecv] : m \in Members}
    BY <2>5, <2>6, <2>8
  <2>10. c - lo \in W /\ c - lo \in Nat /\ \A x \in W : x \in Nat /\ x <= c - lo
    BY <2>6, <2>7, <2>9
  <2>11. Max(W) = c - lo
    <3>1. W \in SUBSET Nat /\ W # {}
      BY <2>10
    <3>2. Max(W) \in W /\ \A x \in W : x <= Max(W)
      BY <2>10, <3>1, BoundsAreMembers
    <3> QED
      BY <2>10, <3>2
  <2> QED
    BY <2>2, <2>3, <2>4, <2>6, <2>8, <2>11
<1> QED
  BY <1>3, <1>7, <1>8, <1>9 DEF CohortTilesMakespan

-----------------------------------------------------------------------------
(* The walk over the flights.                                              *)

\* Windows of members, each member's at most one.
Windowed(W) ==
  /\ IsFiniteSet(W)
  /\ \A w \in W : w.start \in Nat /\ w.member \in Nat
  /\ \A v, w \in W : v.member = w.member => v = w

\* Sorting puts every window at one place, by its start.
LEMMA ByStartSorts ==
  ASSUME NEW W, Windowed(W), NEW n, n = Cardinality(W)
  PROVE  /\ n \in Nat /\ ByStart(W) \in [1 .. n -> W]
         /\ \A i, k \in 1 .. n : i < k => ByStart(W)[i].start <= ByStart(W)[k].start
         /\ \A w \in W : \E i \in 1 .. n : ByStart(W)[i] = w
<1> DEFINE earlier(w) == {v \in W : Before(v, w)}
           f == [w \in W |-> Cardinality(earlier(w)) + 1]
<1>1. IsFiniteSet(W) /\ n \in Nat /\ \A w \in W : w.start \in Nat /\ w.member \in Nat
  BY FS_CardinalityType DEF Windowed
<1>2. IsFiniteSet(1 .. n) /\ Cardinality(1 .. n) = n
  BY <1>1, FS_Interval
<1>3. \A v, w \in W : v = w \/ Before(v, w) \/ Before(w, v)
  <2> SUFFICES ASSUME NEW v \in W, NEW w \in W PROVE v = w \/ Before(v, w) \/ Before(w, v)
    OBVIOUS
  <2>1. v.member = w.member => v = w
    BY DEF Windowed
  <2>2. PICK a \in Nat, b \in Nat, c \in Nat, d \in Nat : a = v.start /\ b = w.start /\ c = v.member /\ d = w.member
    BY <1>1
  <2>3. a < b \/ b < a \/ (a = b /\ (c = d \/ c < d \/ d < c))
    OBVIOUS
  <2> QED
    BY <2>1, <2>2, <2>3 DEF Before
<1>4. \A w \in W : ~Before(w, w)
  BY <1>1 DEF Before
<1>5. \A u, v, w \in W : Before(u, v) /\ Before(v, w) => Before(u, w)
  <2> SUFFICES ASSUME NEW u \in W, NEW v \in W, NEW w \in W, Before(u, v), Before(v, w) PROVE Before(u, w)
    OBVIOUS
  <2>1. PICK a \in Nat, b \in Nat, c \in Nat, d \in Nat, e \in Nat, g \in Nat :
          a = u.start /\ b = v.start /\ c = w.start /\ d = u.member /\ e = v.member /\ g = w.member
    BY <1>1
  <2>2. (a < b \/ (a = b /\ d < e)) /\ (b < c \/ (b = c /\ e < g))
    BY <2>1 DEF Before
  <2>3. a < c \/ (a = c /\ d < g)
    BY <2>2
  <2> QED
    BY <2>1, <2>3 DEF Before
<1>6. \A v, w \in W : Before(v, w) => v.start <= w.start
  <2> SUFFICES ASSUME NEW v \in W, NEW w \in W, Before(v, w) PROVE v.start <= w.start
    OBVIOUS
  <2> QED
    BY <1>1 DEF Before
<1>7. \A w \in W : IsFiniteSet(earlier(w)) /\ Cardinality(earlier(w)) \in 0 .. n - 1
  <2> SUFFICES ASSUME NEW w \in W PROVE IsFiniteSet(earlier(w)) /\ Cardinality(earlier(w)) \in 0 .. n - 1
    OBVIOUS
  <2>1. earlier(w) \in SUBSET W /\ w \notin earlier(w)
    BY <1>4
  <2>2. IsFiniteSet(earlier(w)) /\ Cardinality(earlier(w)) <= n /\ (n = Cardinality(earlier(w)) => W = earlier(w))
    BY <1>1, <2>1, FS_Subset
  <2>3. Cardinality(earlier(w)) \in Nat /\ Cardinality(earlier(w)) # n
    BY <2>1, <2>2, FS_CardinalityType
  <2> QED
    BY <1>1, <2>2, <2>3
<1>8. \A v, w \in W : Before(v, w) => Cardinality(earlier(v)) < Cardinality(earlier(w))
  <2> SUFFICES ASSUME NEW v \in W, NEW w \in W, Before(v, w) PROVE Cardinality(earlier(v)) < Cardinality(earlier(w))
    OBVIOUS
  <2>1. earlier(v) \in SUBSET earlier(w) /\ v \in earlier(w) /\ v \notin earlier(v)
    BY <1>4, <1>5
  <2>2. /\ Cardinality(earlier(v)) <= Cardinality(earlier(w))
        /\ Cardinality(earlier(w)) = Cardinality(earlier(v)) => earlier(w) = earlier(v)
    BY <1>7, <2>1, FS_Subset
  <2>3. PICK a \in Nat, b \in Nat : a = Cardinality(earlier(v)) /\ b = Cardinality(earlier(w))
    <3>1. Cardinality(earlier(v)) \in 0 .. n - 1 /\ Cardinality(earlier(w)) \in 0 .. n - 1
      BY <1>7
    <3> HIDE DEF earlier
    <3> QED
      BY <3>1
  <2> QED
    BY <2>1, <2>2, <2>3
<1> HIDE DEF earlier
<1>9. \A v, w \in W : Cardinality(earlier(v)) = Cardinality(earlier(w)) => v = w
  <2> SUFFICES ASSUME NEW v \in W, NEW w \in W, Cardinality(earlier(v)) = Cardinality(earlier(w)) PROVE v = w
    OBVIOUS
  <2>1. PICK a \in Nat : a = Cardinality(earlier(v)) /\ a = Cardinality(earlier(w)) /\ ~(a < a)
    BY <1>7
  <2> QED
    BY <1>3, <1>8, <2>1
<1>10. f \in Injection(W, 1 .. n)
  <2>1. f \in [W -> 1 .. n]
    BY <1>1, <1>7
  <2>2. ASSUME NEW v \in W, NEW w \in W, f[v] = f[w] PROVE v = w
    <3>1. Cardinality(earlier(v)) \in Nat /\ Cardinality(earlier(w)) \in Nat
      BY <1>7
    <3>2. Cardinality(earlier(v)) = Cardinality(earlier(w))
      BY <2>2, <3>1
    <3> QED
      BY <1>9, <3>2
  <2> HIDE DEF f
  <2> QED
    BY <2>1, <2>2 DEF Injection, IsInjective
<1>11. f \in Surjection(W, 1 .. n)
  <2> HIDE DEF f
  <2> QED
    BY <1>2, <1>10, FS_Injection
<1> DEFINE at(i) == CHOOSE w \in W : Cardinality(earlier(w)) = i - 1
<1>12. \A i \in 1 .. n : at(i) \in W /\ Cardinality(earlier(at(i))) = i - 1
  <2> SUFFICES ASSUME NEW i \in 1 .. n PROVE \E w \in W : Cardinality(earlier(w)) = i - 1
    OBVIOUS
  <2>1. PICK w \in W : f[w] = i
    <3> HIDE DEF f
    <3> QED
      BY <1>11 DEF Surjection
  <2>2. Cardinality(earlier(w)) + 1 = i /\ Cardinality(earlier(w)) \in Nat
    BY <1>7, <2>1
  <2>3. Cardinality(earlier(w)) = i - 1
    BY <2>2
  <2> QED
    BY <2>3
<1>13. ByStart(W) = [i \in 1 .. n |-> at(i)]
  BY DEF ByStart, earlier
<1> HIDE DEF at, f
<1>14. \A i, k \in 1 .. n : i < k => at(i).start <= at(k).start
  <2> SUFFICES ASSUME NEW i \in 1 .. n, NEW k \in 1 .. n, i < k PROVE at(i).start <= at(k).start
    OBVIOUS
  <2>1. at(i) # at(k) /\ ~(Cardinality(earlier(at(k))) < Cardinality(earlier(at(i))))
    BY <1>12
  <2>2. Before(at(i), at(k))
    BY <1>3, <1>8, <1>12, <2>1
  <2> QED
    BY <1>6, <1>12, <2>2
<1>15. ASSUME NEW w \in W PROVE \E i \in 1 .. n : at(i) = w
  <2>1. PICK i \in 1 .. n : i = Cardinality(earlier(w)) + 1
    BY <1>1, <1>7
  <2>2. Cardinality(earlier(at(i))) = Cardinality(earlier(w))
    <3>1. PICK c \in Nat : c = Cardinality(earlier(w))
      BY <1>7
    <3>2. i - 1 = c
      BY <2>1, <3>1
    <3> QED
      BY <1>12, <3>1, <3>2
  <2> QED
    BY <1>9, <1>12, <2>2
<1> QED
  BY <1>1, <1>12, <1>13, <1>14, <1>15

\* The units of the clock in a window.
Units(w) == w.start .. w.end - 1

\* What the walk knows when it has seen these units: the last stretch is the end of
\* them, and the others are counted.
Walked(c, seen) ==
  /\ c.covered \in Nat /\ c.start \in Nat /\ c.end \in Nat /\ c.start <= c.end
  /\ DOMAIN c = {"covered", "start", "end"}
  /\ seen \in SUBSET Nat /\ IsFiniteSet(seen)
  /\ c.start .. c.end - 1 \subseteq seen
  /\ \A t \in seen : t < c.end
  /\ c.covered = Cardinality({t \in seen : t < c.start})

\* That is as many as there are.
LEMMA WalkedCounts ==
  ASSUME NEW c, NEW seen, Walked(c, seen)
  PROVE  Cardinality(seen) = c.covered + (c.end - c.start)
<1> DEFINE old == {t \in seen : t < c.start}
           stretch == c.start .. c.end - 1
<1>1. /\ c.covered \in Nat /\ c.start \in Nat /\ c.end \in Nat /\ c.start <= c.end
      /\ seen \in SUBSET Nat /\ IsFiniteSet(seen) /\ stretch \subseteq seen
      /\ \A t \in seen : t < c.end
      /\ c.covered = Cardinality(old)
  BY DEF Walked
<1>2. seen = old \cup stretch /\ old \cap stretch = {}
  <2>1. PICK a \in Nat, b \in Nat : a = c.start /\ b = c.end
    BY <1>1
  <2>2. \A t \in seen : t \in Nat /\ (t < a \/ t \in a .. b - 1)
    BY <1>1, <2>1
  <2>3. \A t \in a .. b - 1 : t \in seen /\ ~(t < a)
    BY <1>1, <2>1
  <2> QED
    BY <2>1, <2>2, <2>3
<1>3. IsFiniteSet(old)
  BY <1>1, FS_Subset
<1>4. IsFiniteSet(stretch) /\ Cardinality(stretch) = c.end - c.start
  <2>1. PICK a \in Nat, b \in Nat : a = c.start /\ b = c.end /\ a <= b
    BY <1>1
  <2>2. IsFiniteSet(a .. b - 1) /\ Cardinality(a .. b - 1) = IF a > b - 1 THEN 0 ELSE (b - 1) - a + 1
    BY FS_Interval
  <2>3. (IF a > b - 1 THEN 0 ELSE (b - 1) - a + 1) = b - a
    BY <2>1
  <2> QED
    BY <2>1, <2>2, <2>3
<1> HIDE DEF old, stretch
<1>5. Cardinality(old \cup stretch) = Cardinality(old) + Cardinality(stretch) - Cardinality(old \cap stretch)
  BY <1>3, <1>4, FS_Union
<1>6. Cardinality(old \cap stretch) = 0
  BY <1>2, FS_EmptySet
<1>7. PICK k \in Int : k = c.end - c.start
  BY <1>1
<1> QED
  BY <1>1, <1>2, <1>4, <1>5, <1>6, <1>7

\* The greater of two.
LEMMA GreaterOfTwo ==
  ASSUME NEW a \in Nat, NEW b \in Nat
  PROVE  Max({a, b}) = IF a <= b THEN b ELSE a
<1>1. Max({a, b}) \in {a, b} /\ \A i \in {a, b} : i <= Max({a, b})
  <2>1. {a, b} \in SUBSET Nat /\ {a, b} # {} /\ a + b \in Nat /\ \A i \in {a, b} : i <= a + b
    OBVIOUS
  <2> QED
    BY <2>1, BoundsAreMembers
<1> QED
  BY <1>1

\* A step of the walk takes in the units of its window.
LEMMA CoverWalks ==
  ASSUME NEW c, NEW seen, Walked(c, seen), NEW w, w.start \in Nat, w.end \in Nat, c.start <= w.start, w.start <= w.end
  PROVE  /\ Walked(Cover(c, w), seen \cup Units(w))
         /\ Cover(c, w).start <= w.start
<1>1. /\ c.covered \in Nat /\ c.start \in Nat /\ c.end \in Nat /\ c.start <= c.end
      /\ DOMAIN c = {"covered", "start", "end"}
      /\ seen \in SUBSET Nat /\ IsFiniteSet(seen) /\ c.start .. c.end - 1 \subseteq seen
      /\ \A t \in seen : t < c.end
      /\ c.covered = Cardinality({t \in seen : t < c.start})
  BY DEF Walked
<1>2. PICK a \in Nat, b \in Nat, p \in Nat, q \in Nat :
        a = c.start /\ b = c.end /\ p = w.start /\ q = w.end /\ a <= b /\ a <= p /\ p <= q
  BY <1>1
<1>3. Units(w) = p .. q - 1
  BY <1>2 DEF Units
<1>4. IsFiniteSet(p .. q - 1)
  BY FS_Interval
<1>5. PICK all : all = seen \cup (p .. q - 1)
  OBVIOUS
<1>6. all \in SUBSET Nat /\ IsFiniteSet(all)
  <2>1. IsFiniteSet(seen \cup (p .. q - 1))
    BY <1>1, <1>4, FS_Union
  <2> QED
    BY <1>1, <1>5, <2>1
<1>7. PICK d : d = Cover(c, w)
  OBVIOUS
<1>8. CASE p > b
  <2>1. d = [covered |-> c.covered + (b - a), start |-> p, end |-> q]
    BY <1>2, <1>7, <1>8 DEF Cover
  <2>2. /\ d.covered = c.covered + (b - a) /\ d.start = p /\ d.end = q
        /\ DOMAIN d = {"covered", "start", "end"}
    BY <2>1
  <2>3. {t \in all : t < p} = seen
    <3>1. \A t \in seen : t \in Nat /\ t < b
      BY <1>1, <1>2
    <3> QED
      BY <1>5, <1>8, <3>1
  <2>4. Cardinality(seen) = c.covered + (b - a)
    BY <1>2, WalkedCounts
  <2>5. d.covered \in Nat
    BY <1>1, <1>2, <2>2
  <2>6. \A t \in all : t < q
    <3>1. \A t \in seen : t \in Nat /\ t < b
      BY <1>1, <1>2
    <3> QED
      BY <1>2, <1>5, <1>8, <3>1
  <2>7. p .. q - 1 \subseteq all
    BY <1>5
  <2>8. Walked(d, all)
    BY <1>2, <1>6, <2>2, <2>3, <2>4, <2>5, <2>6, <2>7 DEF Walked
  <2> QED
    BY <1>2, <1>3, <1>5, <1>7, <2>2, <2>8
<1>9. CASE ~(p > b)
  <2>1. PICK r \in Nat : r = (IF b <= q THEN q ELSE b)
    OBVIOUS
  <2>2. d = [c EXCEPT !.end = r]
    <3>1. Max({b, q}) = r
      BY <2>1, GreaterOfTwo
    <3> QED
      BY <1>2, <1>7, <1>9, <3>1 DEF Cover
  <2>3. /\ d.covered = c.covered /\ d.start = a /\ d.end = r
        /\ DOMAIN d = {"covered", "start", "end"}
    BY <1>1, <1>2, <2>2
  <2>4. a <= r
    BY <1>2, <2>1
  <2>5. {t \in all : t < a} = {t \in seen : t < a}
    BY <1>1, <1>2, <1>5
  <2>6. \A t \in all : t < r
    <3>1. \A t \in seen : t \in Nat /\ t < b
      BY <1>1, <1>2
    <3> QED
      BY <1>2, <1>5, <2>1, <3>1
  <2>7. a .. r - 1 \subseteq all
    <3>1. a .. b - 1 \subseteq seen
      BY <1>1, <1>2
    <3>2. \A t \in a .. r - 1 : t \in a .. b - 1 \/ t \in p .. q - 1
      BY <1>2, <1>9, <2>1
    <3> QED
      BY <1>5, <3>1, <3>2
  <2>8. c.covered = Cardinality({t \in all : t < a})
    BY <1>1, <1>2, <2>5
  <2>9. Walked(d, all)
    BY <1>1, <1>6, <2>3, <2>4, <2>6, <2>7, <2>8 DEF Walked
  <2> QED
    BY <1>2, <1>3, <1>5, <1>7, <2>3, <2>9
<1> QED
  BY <1>8, <1>9

\* g is the recursive function the walk is read from.
Covers(g, base, t, n) ==
  g = [s \in SUBSET (1 .. n) |-> IF s = {} THEN base ELSE Cover(g[s \ {Max(s)}], t[Max(s)])]

\* The walk over windows is the value of such a function at all its places.
LEMMA CoverIs ==
  ASSUME NEW n \in Nat, NEW t, DOMAIN t = 1 .. n, NEW base
  PROVE  FoldLeft(Cover, base, t) = (CHOOSE g : Covers(g, base, t, n))[1 .. n]
BY DEF FoldLeft, MapThenFoldSet, Covers

\* The walk after each of the windows.
Strides(h, base, t, n) ==
  h[0] = base /\ \A k \in 1 .. n : h[k] = Cover(h[k - 1], t[k])

\* The walk over windows is the last of its strides.
LEMMA CoverStrides ==
  ASSUME NEW n \in Nat, NEW t, DOMAIN t = 1 .. n, \A i \in 1 .. n : t[i].start \in Nat /\ t[i].end \in Nat,
         NEW base \in [covered : Int, start : Nat, end : Nat]
  PROVE  \E h : Strides(h, base, t, n) /\ FoldLeft(Cover, base, t) = h[n]
<1> DEFINE V == [covered : Int, start : Nat, end : Nat]
           step == [p \in V \X (1 .. n) |-> Cover(p[1], t[p[2]])]
<1>1. ASSUME NEW c \in V, NEW i \in 1 .. n PROVE Cover(c, t[i]) \in V
  <2>1. PICK x \in Int, a \in Nat, b \in Nat : x = c.covered /\ a = c.start /\ b = c.end
    OBVIOUS
  <2>2. PICK p \in Nat, q \in Nat : p = t[i].start /\ q = t[i].end
    OBVIOUS
  <2>3. CASE p > b
    <3>1. Cover(c, t[i]) = [covered |-> x + (b - a), start |-> p, end |-> q]
      BY <2>1, <2>2, <2>3 DEF Cover
    <3> QED
      BY <3>1
  <2>4. CASE ~(p > b)
    <3>1. PICK r \in Nat : r = (IF b <= q THEN q ELSE b)
      OBVIOUS
    <3>2. Max({b, q}) = r
      BY <3>1, GreaterOfTwo
    <3>3. Cover(c, t[i]) = [c EXCEPT !.end = r]
      BY <2>1, <2>2, <2>4, <3>2 DEF Cover
    <3> QED
      BY <3>3
  <2> QED
    BY <2>3, <2>4
<1>2. step \in [V \X (1 .. n) -> V]
  <2>1. ASSUME NEW p \in V \X (1 .. n) PROVE Cover(p[1], t[p[2]]) \in V
    <3>1. p[1] \in V /\ p[2] \in 1 .. n
      OBVIOUS
    <3> HIDE DEF V
    <3> QED
      BY <1>1, <3>1
  <2> HIDE DEF V
  <2> QED
    BY <2>1
<1> HIDE DEF V
<1>3. PICK g \in [SUBSET (1 .. n) -> V] : Folds(g, base, step, n)
  <2>1. base \in V
    BY DEF V
  <2> HIDE DEF step
  <2> QED
    BY <1>2, <2>1, FoldExists
<1>4. Covers(g, base, t, n)
  <2> DEFINE f == [s \in SUBSET (1 .. n) |-> IF s = {} THEN base ELSE Cover(g[s \ {Max(s)}], t[Max(s)])]
  <2>1. ASSUME NEW s \in SUBSET (1 .. n) PROVE g[s] = f[s]
    <3>1. g[s] = IF s = {} THEN base ELSE step[<<g[s \ {Max(s)}], Max(s)>>]
      BY <1>3 DEF Folds
    <3>2. CASE s = {}
      BY <3>1, <3>2
    <3>3. CASE s # {}
      <4>1. Max(s) \in 1 .. n /\ s \ {Max(s)} \in SUBSET (1 .. n)
        BY <3>3, LastPlace
      <4>2. PICK x \in V, i \in 1 .. n : x = g[s \ {Max(s)}] /\ i = Max(s)
        BY <4>1
      <4>3. step[<<x, i>>] = Cover(x, t[i])
        OBVIOUS
      <4>4. f[s] = Cover(x, t[i])
        BY <3>3, <4>2
      <4> HIDE DEF step, f
      <4> QED
        BY <3>1, <3>3, <4>2, <4>3, <4>4
    <3> QED
      BY <3>2, <3>3
  <2>2. g = f
    BY <2>1
  <2> QED
    BY <2>2, Zenon DEF Covers
<1>5. PICK a : Covers(a, base, t, n) /\ FoldLeft(Cover, base, t) = a[1 .. n]
  BY <1>4, CoverIs
<1> DEFINE h == [k \in 0 .. n |-> a[1 .. k]]
<1>6. \A s \in SUBSET (1 .. n) : a[s] = IF s = {} THEN base ELSE Cover(a[s \ {Max(s)}], t[Max(s)])
  BY <1>5 DEF Covers
<1>7. h[0] = base
  <2>1. 1 .. 0 = {} /\ h[0] = a[1 .. 0]
    OBVIOUS
  <2> QED
    BY <1>6, <2>1
<1>8. ASSUME NEW k \in 1 .. n PROVE h[k] = Cover(h[k - 1], t[k])
  <2>1. /\ 1 .. k \in SUBSET (1 .. n) /\ 1 .. k # {} /\ Max(1 .. k) = k
        /\ (1 .. k) \ {Max(1 .. k)} = 1 .. k - 1
    BY PlacesUpTo
  <2>2. h[k] = a[1 .. k] /\ h[k - 1] = a[1 .. k - 1]
    OBVIOUS
  <2> HIDE DEF h
  <2> QED
    BY <1>6, <2>1, <2>2
<1>9. h[n] = a[1 .. n]
  OBVIOUS
<1> HIDE DEF h
<1>10. Strides(h, base, t, n)
  BY <1>7, <1>8 DEF Strides
<1> QED
  BY <1>5, <1>9, <1>10

\* Windows in the order of their starts, none ending before it starts.
Sorted(spans, n) ==
  /\ \A i \in 1 .. n : spans[i].start \in Nat /\ spans[i].end \in Nat /\ spans[i].start <= spans[i].end
  /\ \A i, k \in 1 .. n : i < k => spans[i].start <= spans[k].start

\* The walk has seen the units of every window it has come to.
LEMMA WalkSees ==
  ASSUME NEW n \in Nat, n >= 1, NEW spans, Sorted(spans, n),
         NEW t, \A i \in 1 .. n - 1 : t[i] = spans[i + 1],
         NEW h, Strides(h, [covered |-> 0, start |-> spans[1].start, end |-> spans[1].end], t, n - 1)
  PROVE  Walked(h[n - 1], UNION {Units(spans[i]) : i \in 1 .. n})
<1> DEFINE seen(k) == UNION {Units(spans[i]) : i \in 1 .. k + 1}
           Sees(k) == Walked(h[k], seen(k)) /\ h[k].start <= spans[k + 1].start
           Bad == {k \in 0 .. n - 1 : ~Sees(k)}
<1>1. PICK a \in Nat, b \in Nat : a = spans[1].start /\ b = spans[1].end /\ a <= b
  BY DEF Sorted
<1>2. h[0] = [covered |-> 0, start |-> a, end |-> b]
  BY <1>1 DEF Strides
<1>3. Sees(0)
  <2>1. seen(0) = a .. b - 1
    <3>1. 1 .. 0 + 1 = {1}
      OBVIOUS
    <3>2. seen(0) = Units(spans[1])
      BY <3>1
    <3> QED
      BY <1>1, <3>2 DEF Units
  <2>2. {u \in a .. b - 1 : u < a} = {} /\ a .. b - 1 \in SUBSET Nat /\ \A u \in a .. b - 1 : u < b
    OBVIOUS
  <2>3. IsFiniteSet(a .. b - 1)
    BY FS_Interval
  <2>4. Cardinality({u \in a .. b - 1 : u < a}) = 0
    BY <2>2, FS_EmptySet
  <2>5. PICK c : c = h[0]
    OBVIOUS
  <2>6. c.covered = 0 /\ c.start = a /\ c.end = b /\ DOMAIN c = {"covered", "start", "end"}
    BY <1>2, <2>5
  <2>7. Walked(c, a .. b - 1)
    BY <1>1, <2>2, <2>3, <2>4, <2>6 DEF Walked
  <2> HIDE DEF seen
  <2> QED
    BY <1>1, <2>1, <2>5, <2>6, <2>7
<1>4. ASSUME NEW k \in 1 .. n - 1, Sees(k - 1) PROVE Sees(k)
  <2>1. PICK w : w = spans[k + 1]
    OBVIOUS
  <2>2. t[k] = w /\ h[k] = Cover(h[k - 1], w)
    BY <2>1 DEF Strides
  <2>3. k \in 1 .. n /\ k + 1 \in 1 .. n /\ k < k + 1 /\ (k - 1) + 1 = k
    OBVIOUS
  <2>4. w.start \in Nat /\ w.end \in Nat /\ w.start <= w.end /\ spans[k].start \in Nat /\ spans[k].start <= w.start
    BY <2>1, <2>3 DEF Sorted
  <2>5. Walked(h[k - 1], seen(k - 1)) /\ h[k - 1].start <= spans[k].start
    <3> HIDE DEF seen
    <3> QED
      BY <1>4, <2>3
  <2> HIDE DEF Sees
  <2>6. h[k - 1].start <= w.start
    <3>1. h[k - 1].start \in Nat
      BY <2>5 DEF Walked
    <3> QED
      BY <2>4, <2>5, <3>1
  <2>7. seen(k - 1) \cup Units(w) = seen(k)
    <3>1. 1 .. k + 1 = (1 .. (k - 1) + 1) \cup {k + 1}
      OBVIOUS
    <3> QED
      BY <2>1, <3>1
  <2> HIDE DEF seen
  <2>8. Walked(Cover(h[k - 1], w), seen(k - 1) \cup Units(w)) /\ Cover(h[k - 1], w).start <= w.start
    BY <2>4, <2>5, <2>6, CoverWalks
  <2> QED
    BY <2>1, <2>2, <2>7, <2>8 DEF Sees
<1> HIDE DEF Sees
<1>5. Bad = {}
  <2> SUFFICES ASSUME Bad # {} PROVE FALSE
    OBVIOUS
  <2>1. Bad \in SUBSET Nat /\ \A i \in Bad : i <= n
    OBVIOUS
  <2>2. Min(Bad) \in Bad /\ \A i \in Bad : Min(Bad) <= i
    <3> HIDE DEF Bad
    <3> QED
      BY <2>1, BoundsAreMembers
  <2>3. PICK k \in 0 .. n - 1 : k = Min(Bad) /\ ~Sees(k)
    BY <2>2
  <2>4. k \in 1 .. n - 1
    BY <1>3, <2>3
  <2>5. Sees(k - 1)
    <3>1. k - 1 \in 0 .. n - 1 /\ ~(k <= k - 1)
      BY <2>4
    <3> QED
      BY <2>2, <2>3, <3>1
  <2> QED
    BY <1>4, <2>3, <2>4, <2>5
<1>6. Sees(n - 1)
  BY <1>5
<1>7. seen(n - 1) = UNION {Units(spans[i]) : i \in 1 .. n}
  <2>1. (n - 1) + 1 = n
    OBVIOUS
  <2> QED
    BY <2>1
<1> QED
  BY <1>6, <1>7 DEF Sees

\* The walk over the flights of a run counts the units some member was in flight in.
LEMMA FlightsAreCovered ==
  ASSUME Flying, Done
  PROVE  CoverageIsTheUnion
<1> DEFINE W == InFlight(joined)
           flight(m) == [start |-> ts[m][ClientSend], end |-> ts[m][ClientRecv], member |-> m]
           n == Cardinality(W)
           spans == ByStart(W)
<1>m. Members # {} /\ Members \in SUBSET Nat /\ IsFiniteSet(Members)
  BY MembersFacts, FS_Interval, RunEvidenceAssumption DEF Members
<1>1. /\ W = {flight(m) : m \in Members}
      /\ \A m \in Members : /\ ts[m][ClientSend] \in Nat /\ ts[m][ClientRecv] \in Nat /\ 1 <= ts[m][ClientSend]
                            /\ ts[m][ClientSend] <= ts[m][ClientRecv] /\ ts[m][ClientRecv] <= now
      /\ now \in Nat /\ now <= MaxTime /\ MaxTime \in Nat
  BY FlightsInWindows, RunEvidenceAssumption
<1>2. \A m \in Members : flight(m).start = ts[m][ClientSend] /\ flight(m).end = ts[m][ClientRecv] /\ flight(m).member = m
  OBVIOUS
<1> HIDE DEF flight
<1>3. Windowed(W)
  <2>1. IsFiniteSet(W)
    <3> DEFINE of == [m \in Members |-> flight(m)]
    <3>1. of \in [Members -> W] /\ \A w \in W : \E m \in Members : of[m] = w
      <4> HIDE DEF W
      <4> QED
        BY <1>1
    <3> HIDE DEF of, W
    <3>2. of \in Surjection(Members, W)
      BY <3>1 DEF Surjection
    <3> QED
      BY <1>m, <3>2, FS_Surjection
  <2>2. \A w \in W : \E m \in Members : w = flight(m)
    BY <1>1
  <2>3. \A w \in W : w.start \in Nat /\ w.member \in Nat
    BY <1>1, <1>2, <1>m, <2>2
  <2>4. \A v, w \in W : v.member = w.member => v = w
    BY <1>2, <2>2
  <2> HIDE DEF W
  <2> QED
    BY <2>1, <2>3, <2>4 DEF Windowed
<1>4. \A w \in W : w.start \in Nat /\ w.end \in Nat /\ w.start <= w.end
  BY <1>1, <1>2
<1>5. W # {}
  BY <1>1, <1>m
<1> HIDE DEF W
<1>6. /\ n \in Nat /\ spans \in [1 .. n -> W]
      /\ \A i, k \in 1 .. n : i < k => spans[i].start <= spans[k].start
      /\ \A w \in W : \E i \in 1 .. n : spans[i] = w
  BY <1>3, ByStartSorts
<1>7. n >= 1
  <2>1. PICK i \in 1 .. n : TRUE
    BY <1>5, <1>6
  <2> QED
    BY <1>6, <2>1
<1> HIDE DEF spans, n
<1>8. Sorted(spans, n)
  BY <1>4, <1>6 DEF Sorted
<1>9. PICK t : t = Tail(spans)
  OBVIOUS
<1>10. DOMAIN t = 1 .. n - 1 /\ n - 1 \in Nat /\ \A i \in 1 .. n - 1 : t[i] = spans[i + 1]
  <2>1. spans \in Seq(W) /\ Len(spans) = n
    BY <1>6
  <2>2. Len(t) = n - 1 /\ t \in Seq(W) /\ \A i \in 1 .. n - 1 : t[i] = spans[i + 1]
    BY <1>7, <1>9, <2>1
  <2> QED
    BY <1>6, <1>7, <2>2
<1>11. \A i \in 1 .. n - 1 : t[i].start \in Nat /\ t[i].end \in Nat
  <2>1. \A i \in 1 .. n - 1 : i + 1 \in 1 .. n
    BY <1>6
  <2> QED
    BY <1>4, <1>6, <1>10, <2>1
<1> DEFINE first == [covered |-> 0, start |-> spans[1].start, end |-> spans[1].end]
<1>12. first \in [covered : Int, start : Nat, end : Nat]
  BY <1>4, <1>6, <1>7
<1>13. PICK h : Strides(h, first, t, n - 1) /\ FoldLeft(Cover, first, t) = h[n - 1]
  <2> HIDE DEF first
  <2> QED
    BY <1>10, <1>11, <1>12, CoverStrides
<1>14. Walked(h[n - 1], UNION {Units(spans[i]) : i \in 1 .. n})
  BY <1>6, <1>7, <1>8, <1>10, <1>13, WalkSees
<1>15. Covered(joined) = h[n - 1].covered + (h[n - 1].end - h[n - 1].start)
  BY <1>9, <1>13 DEF Covered, spans, W
<1>16. UNION {Units(spans[i]) : i \in 1 .. n}
         = {u \in 1 .. MaxTime : \E m \in Members : ts[m][ClientSend] <= u /\ u < ts[m][ClientRecv]}
  <2>1. \A m \in Members : \E i \in 1 .. n : spans[i].start = ts[m][ClientSend] /\ spans[i].end = ts[m][ClientRecv]
    BY <1>1, <1>2, <1>6
  <2>2. \A i \in 1 .. n : \E m \in Members : spans[i].start = ts[m][ClientSend] /\ spans[i].end = ts[m][ClientRecv]
    BY <1>1, <1>2, <1>6
  <2>3. ASSUME NEW i \in 1 .. n, NEW u \in Units(spans[i])
        PROVE  u \in 1 .. MaxTime /\ \E m \in Members : ts[m][ClientSend] <= u /\ u < ts[m][ClientRecv]
    <3>1. PICK m \in Members : spans[i].start = ts[m][ClientSend] /\ spans[i].end = ts[m][ClientRecv]
      BY <2>2
    <3>2. PICK p \in Nat, q \in Nat : p = ts[m][ClientSend] /\ q = ts[m][ClientRecv] /\ 1 <= p /\ q <= now
      BY <1>1
    <3>3. u \in p .. q - 1
      BY <2>3, <3>1, <3>2 DEF Units
    <3>4. u \in 1 .. MaxTime /\ p <= u /\ u < q
      BY <1>1, <3>2, <3>3
    <3> QED
      BY <3>2, <3>4
  <2>4. ASSUME NEW u \in 1 .. MaxTime, NEW m \in Members, ts[m][ClientSend] <= u, u < ts[m][ClientRecv]
        PROVE  \E i \in 1 .. n : u \in Units(spans[i])
    <3>1. PICK i \in 1 .. n : spans[i].start = ts[m][ClientSend] /\ spans[i].end = ts[m][ClientRecv]
      BY <2>1
    <3>2. PICK p \in Nat, q \in Nat : p = ts[m][ClientSend] /\ q = ts[m][ClientRecv]
      BY <1>1
    <3>3. u \in p .. q - 1
      BY <2>4, <3>2
    <3> QED
      BY <3>1, <3>2, <3>3 DEF Units
  <2> QED
    BY <2>3, <2>4
<1>17. Cardinality(UNION {Units(spans[i]) : i \in 1 .. n}) = h[n - 1].covered + (h[n - 1].end - h[n - 1].start)
  BY <1>14, WalkedCounts
<1> QED
  BY <1>15, <1>16, <1>17 DEF CoverageIsTheUnion

\* When an honest run is judged, the named and the unnamed time of a cohort's chain
\* are its makespan, what a member's residual leaves is its unnamed time, and the walk
\* over the flights measures their union (checkConservation, cohortCoverage).
THEOREM RunsAreConserved == Spec => []ConservationIsExact
<1>1. Flying => ConservationIsExact
  BY CohortIsTiled, ResidualIsUnnamed, FlightsAreCovered DEF ConservationIsExact
<1> QED
  BY <1>1, FlightsHold, PTL

=============================================================================
