---------------------------- MODULE AdapterProofs ----------------------------
(***************************************************************************)
(* Theorems of Adapter, for every finite set of calls, every set of cohort *)
(* ids and every B > 0.                                                    *)
(*                                                                         *)
(* Builder and Validate agree on one contract (BuiltIsValid, DriftIsCaught)*)
(* and what it admits is a sequence of members no two of which are the     *)
(* same.  The invariant carries that through the fan-out (Handlers): what  *)
(* a goroutine's submission came to is in the history under its own member *)
(* (Kept), the history has nothing else (History), and a call reports what *)
(* its goroutines stored (Reported).  So the records of a call are as many *)
(* as its members, and those of two calls are different ones (Accounts).   *)
(***************************************************************************)
EXTENDS Adapter, FiniteSetTheorems, TLAPS

-----------------------------------------------------------------------------
(* The envelope contract.                                                  *)

\* A member on the wire, and the fields of an envelope.
Wire == [cohort : Nat, ordinal : Nat, uid : Nat, payload : Nat]

IsEnvelope(e) ==
  /\ e = [base |-> e.base, cohort |-> e.cohort, expected |-> e.expected,
          aggregate |-> e.aggregate, seal |-> e.seal, requests |-> e.requests]
  /\ e.base = [config |-> e.base.config, vectorize |-> e.base.vectorize]
  /\ e.cohort \in Nat
  /\ e.expected \in Nat
  /\ e.aggregate \in BOOLEAN
  /\ e.seal \in BOOLEAN
  /\ e.requests \in Seq(Wire)

Distinct(rs) == \A i, j \in DOMAIN rs : i # j => MemberOf(rs[i]) # MemberOf(rs[j])

\* Uids are numbers.
LEMMA UIDType == ASSUME NEW c \in Nat, NEW o \in Nat PROVE UID(c, o) \in Nat
  BY DEF UID, uidOrdinalBits

\* What the load generator sends fits the wire.
LEMMA LogicalType == Logical \subseteq Wire
  <1> SUFFICES ASSUME NEW r \in Logical PROVE r \in Wire
    OBVIOUS
  <1>1. PICK c \in Cohorts, o \in 0 .. TargetB :
          r = LogicalRequest([cohort |-> c, ordinal |-> o], o + 1)
    BY DEF Logical
  <1>2. c \in Nat /\ o \in Nat
    BY AdapterAssumption
  <1>3. UID(c, o) \in Nat
    BY <1>2, UIDType
  <1>4. QED
    BY <1>1, <1>2, <1>3 DEF LogicalRequest, Wire

\* canonicalOrder is a sort: every place is taken by one member, and ordinals do
\* not decrease.
LEMMA CanonicalOrderSorts ==
  ASSUME NEW n \in Nat, NEW rs \in [1 .. n -> Wire]
  PROVE  /\ canonicalOrder(rs) \in [1 .. n -> Wire]
         /\ \A k \in 1 .. n : \E i \in 1 .. n : canonicalOrder(rs)[k] = rs[i]
         /\ \A k, l \in 1 .. n :
              k < l => canonicalOrder(rs)[k].ordinal <= canonicalOrder(rs)[l].ordinal
  <1> DEFINE UpTo(i) == {j \in 1 .. n : \/ rs[j].ordinal < rs[i].ordinal
                                        \/ rs[j].ordinal = rs[i].ordinal /\ j <= i}
             Below(i, k) == \/ rs[i].ordinal < rs[k].ordinal
                            \/ rs[i].ordinal = rs[k].ordinal /\ i < k
             f == [i \in 1 .. n |-> place(rs, i)]
  <1>1. \A i \in 1 .. n : rs[i].ordinal \in Nat
    BY DEF Wire
  <1>2. IsFiniteSet(1 .. n) /\ Cardinality(1 .. n) = n
    BY FS_Interval
  <1>3. \A i \in 1 .. n : place(rs, i) = Cardinality(UpTo(i))
    BY DEF place
  <1>4. \A i \in 1 .. n : UpTo(i) \subseteq 1 .. n /\ i \in UpTo(i)
    BY <1>1
  <1>5. \A i \in 1 .. n : IsFiniteSet(UpTo(i)) /\ place(rs, i) \in 1 .. n
    <2> SUFFICES ASSUME NEW i \in 1 .. n
                 PROVE  IsFiniteSet(UpTo(i)) /\ place(rs, i) \in 1 .. n
      OBVIOUS
    <2>1. IsFiniteSet(UpTo(i)) /\ Cardinality(UpTo(i)) <= n
      BY <1>2, <1>4, FS_Subset
    <2>2. Cardinality(UpTo(i)) \in Nat /\ Cardinality(UpTo(i)) # 0
      BY <2>1, <1>4, FS_CardinalityType, FS_EmptySet
    <2>3. QED
      BY <1>3, <2>1, <2>2
  <1>6. \A i, k \in 1 .. n : Below(i, k) => place(rs, i) < place(rs, k)
    <2> SUFFICES ASSUME NEW i \in 1 .. n, NEW k \in 1 .. n, Below(i, k)
                 PROVE  place(rs, i) < place(rs, k)
      OBVIOUS
    <2>1. UpTo(i) \subseteq UpTo(k) /\ k \notin UpTo(i)
      BY <1>1
    <2>2. /\ Cardinality(UpTo(i)) <= Cardinality(UpTo(k))
          /\ Cardinality(UpTo(i)) # Cardinality(UpTo(k))
      BY <1>4, <1>5, <2>1, FS_Subset
    <2>3. QED
      BY <1>3, <1>5, <2>2, FS_CardinalityType
  <1>7. \A i, k \in 1 .. n : i = k \/ Below(i, k) \/ Below(k, i)
    BY <1>1
  <1> HIDE DEF Below, UpTo
  <1>8. f \in Injection(1 .. n, 1 .. n)
    BY <1>5, <1>6, <1>7 DEF Injection, IsInjective
  <1>9. f \in Surjection(1 .. n, 1 .. n)
    BY <1>2, <1>8, FS_Injection
  <1> DEFINE at(k) == CHOOSE i \in 1 .. n : place(rs, i) = k
  <1>10. \A k \in 1 .. n : at(k) \in 1 .. n /\ place(rs, at(k)) = k
    <2> SUFFICES ASSUME NEW k \in 1 .. n PROVE \E i \in 1 .. n : place(rs, i) = k
      OBVIOUS
    <2>1. QED
      BY <1>9 DEF Surjection
  <1>11. canonicalOrder(rs) = [k \in 1 .. n |-> rs[at(k)]]
    BY DEF canonicalOrder
  <1> HIDE DEF at, f
  <1>12. \A k, l \in 1 .. n : k < l => rs[at(k)].ordinal <= rs[at(l)].ordinal
    <2> SUFFICES ASSUME NEW k \in 1 .. n, NEW l \in 1 .. n, k < l
                 PROVE  rs[at(k)].ordinal <= rs[at(l)].ordinal
      OBVIOUS
    <2>1. at(k) # at(l) /\ ~(place(rs, at(l)) < place(rs, at(k)))
      BY <1>10
    <2>2. Below(at(k), at(l))
      BY <1>6, <1>7, <1>10, <2>1
    <2>3. rs[at(k)].ordinal \in Nat /\ rs[at(l)].ordinal \in Nat
      BY <1>1, <1>10
    <2>4. QED
      BY <2>2, <2>3 DEF Below
  <1>13. QED
    BY <1>10, <1>11, <1>12

\* Two members of a whole cohort have two ordinals (checkCohortMembership).
LEMMA MembersDiffer ==
  ASSUME NEW b \in Nat, NEW rs \in Seq(Wire), checkCohortMembership(rs, b),
         NEW i \in DOMAIN rs, NEW j \in DOMAIN rs, i # j
  PROVE  rs[i].ordinal # rs[j].ordinal
  <1> SUFFICES ASSUME rs[i].ordinal = rs[j].ordinal PROVE FALSE
    OBVIOUS
  <1> DEFINE o == rs[i].ordinal
             Holders == {k \in DOMAIN rs : rs[k].ordinal = o}
  <1>1. Len(rs) \in Nat /\ DOMAIN rs = 1 .. Len(rs)
    OBVIOUS
  <1>2. rs[i] \in Wire
    BY <1>1
  <1>3. o \in 0 .. b - 1
    <2>1. o \in Nat
      BY <1>2 DEF Wire
    <2>2. o < b
      BY DEF checkCohortMembership
    <2> HIDE DEF o
    <2>3. QED
      BY <2>1, <2>2
  <1>4. Cardinality(Holders) = 1
    BY <1>3 DEF checkCohortMembership
  <1>5. IsFiniteSet(Holders)
    <2>1. IsFiniteSet(DOMAIN rs)
      BY <1>1, FS_Interval
    <2>2. QED
      BY <2>1, FS_Subset
  <1>6. PICK x : Holders = {x}
    BY <1>4, <1>5, FS_Singleton
  <1>7. i \in Holders /\ j \in Holders
    OBVIOUS
  <1>8. QED
    BY <1>6, <1>7

\* What a member the load generator sent carries.
LEMMA LogicalFacts ==
  ASSUME NEW r \in Logical
  PROVE  /\ r \in Wire
         /\ r.cohort \in Cohorts /\ r.ordinal \in 0 .. TargetB
         /\ r.payload > 0
         /\ r.uid = UID(r.cohort, r.ordinal)
         /\ r = LogicalRequest([cohort |-> r.cohort, ordinal |-> r.ordinal], r.ordinal + 1)
  <1>1. PICK c \in Cohorts, o \in 0 .. TargetB :
          r = LogicalRequest([cohort |-> c, ordinal |-> o], o + 1)
    BY DEF Logical
  <1>2. r.cohort = c /\ r.ordinal = o /\ r.uid = UID(c, o) /\ r.payload = o + 1
    BY <1>1 DEF LogicalRequest
  <1>3. QED
    BY <1>1, <1>2, LogicalType

\* Validate admits what Independent builds.
LEMMA IndependentIsValid ==
  ASSUME NEW cfg, ~AggregatesEnvelopes(cfg.cell), NEW r \in Logical
  PROVE  IsEnvelope(Independent(cfg, r)) /\ Validate(Independent(cfg, r), cfg)
  <1> DEFINE e == Independent(cfg, r)
  <1>1. /\ e = [base |-> base(cfg), cohort |-> r.cohort, expected |-> 1, aggregate |-> FALSE,
                seal |-> FALSE, requests |-> <<r>>]
        /\ e.base = base(cfg) /\ e.cohort = r.cohort /\ e.expected = 1 /\ e.aggregate = FALSE
        /\ e.seal = FALSE /\ e.requests = <<r>>
    BY DEF Independent
  <1> HIDE DEF e
  <1>2. r \in Wire /\ r.cohort \in Nat
    BY LogicalFacts DEF Wire
  <1>3. <<r>> \in Seq(Wire) /\ Len(<<r>>) = 1 /\ DOMAIN <<r>> = 1 .. 1 /\ <<r>>[1] = r
    BY <1>2
  <1>4. IsEnvelope(e)
    BY <1>1, <1>2, <1>3 DEF IsEnvelope, base
  <1>5. checkMember(r, e)
    BY <1>1, LogicalFacts DEF checkMember
  <1>6. checkCanonicalOrder(e.requests)
    BY <1>1, <1>3 DEF checkCanonicalOrder
  <1>7. \A i \in DOMAIN e.requests : checkMember(e.requests[i], e)
    BY <1>1, <1>3, <1>5
  <1>8. e.base.config = cfg /\ e.base.vectorize = VectorizesCompute(cfg.cell)
    BY <1>1 DEF base
  <1>9. e.aggregate = AggregatesEnvelopes(cfg.cell)
    <2>1. AggregatesEnvelopes(cfg.cell) = FALSE
      BY DEF AggregatesEnvelopes
    <2>2. QED
      BY <1>1, <2>1
  <1>10. Validate(e, cfg)
    BY <1>1, <1>3, <1>6, <1>7, <1>8, <1>9 DEF Validate
  <1>11. QED
    BY <1>4, <1>10 DEF e

\* Validate admits what Aggregate builds: sorted and whole is strictly sorted.
LEMMA AggregateIsValid ==
  ASSUME NEW cfg, AggregatesEnvelopes(cfg.cell), cfg.targetB \in Nat, cfg.targetB > 0,
         NEW rs \in [1 .. cfg.targetB -> Logical], Aggregate(cfg, rs) # None
  PROVE  IsEnvelope(Aggregate(cfg, rs)) /\ Validate(Aggregate(cfg, rs), cfg)
  <1> DEFINE b == cfg.targetB
             ms == canonicalOrder(rs)
             e == Aggregate(cfg, rs)
  <1>1. b \in Nat /\ b > 0 /\ rs \in Seq(Logical) /\ Len(rs) = b
    OBVIOUS
  <1>2. /\ e = [base |-> base(cfg), cohort |-> rs[1].cohort, expected |-> b, aggregate |-> TRUE,
                seal |-> TRUE, requests |-> ms]
        /\ \A i \in 1 .. b : rs[i].cohort = rs[1].cohort
        /\ checkCohortMembership(ms, b)
    BY <1>1 DEF Aggregate
  <1>3. rs \in [1 .. b -> Wire]
    BY LogicalType
  <1>4. /\ ms \in [1 .. b -> Wire]
        /\ \A k \in 1 .. b : \E i \in 1 .. b : ms[k] = rs[i]
        /\ \A k, l \in 1 .. b : k < l => ms[k].ordinal <= ms[l].ordinal
    BY <1>1, <1>3, CanonicalOrderSorts
  <1> HIDE DEF ms, e
  <1>5. ms \in Seq(Wire) /\ Len(ms) = b /\ DOMAIN ms = 1 .. b
    <2>1. b \in Nat /\ ms \in [1 .. b -> Wire]
      BY <1>1, <1>4
    <2> HIDE DEF b
    <2>2. QED
      BY <2>1
  <1>6. rs[1] \in Logical /\ rs[1].cohort \in Nat
    <2>1. rs[1] \in Logical
      BY <1>1
    <2>2. QED
      BY <2>1, LogicalFacts DEF Wire
  <1>7. /\ e.base = base(cfg) /\ e.cohort = rs[1].cohort /\ e.expected = b /\ e.aggregate = TRUE
        /\ e.seal = TRUE /\ e.requests = ms
    BY <1>2
  <1>8. IsEnvelope(e)
    BY <1>1, <1>2, <1>5, <1>6, <1>7 DEF IsEnvelope, base
  <1>9. \A i \in DOMAIN ms : checkMember(ms[i], e)
    <2> SUFFICES ASSUME NEW k \in 1 .. b PROVE checkMember(ms[k], e)
      BY <1>5
    <2>1. PICK i \in 1 .. b : ms[k] = rs[i]
      BY <1>4
    <2>2. rs[i] \in Logical
      BY <1>1
    <2>3. QED
      BY <1>2, <1>7, <2>1, <2>2, LogicalFacts DEF checkMember
  <1>10. checkCanonicalOrder(ms)
    <2> SUFFICES ASSUME NEW k \in 2 .. b PROVE ms[k].ordinal > ms[k - 1].ordinal
      BY <1>5 DEF checkCanonicalOrder
    <2>1. k \in 1 .. b /\ k - 1 \in 1 .. b /\ k - 1 < k /\ k - 1 # k
      BY <1>1
    <2>2. ms[k - 1].ordinal <= ms[k].ordinal
      BY <1>4, <2>1
    <2>3. ms[k - 1].ordinal # ms[k].ordinal
      BY <1>1, <1>2, <1>5, <2>1, MembersDiffer
    <2>4. ms[k].ordinal \in Nat /\ ms[k - 1].ordinal \in Nat
      BY <1>4, <2>1 DEF Wire
    <2>5. QED
      BY <2>2, <2>3, <2>4
  <1>11. e.base.config = cfg /\ e.base.vectorize = VectorizesCompute(cfg.cell)
    BY <1>7 DEF base
  <1>12. e.aggregate = AggregatesEnvelopes(cfg.cell)
    BY <1>7 DEF AggregatesEnvelopes
  <1>13. Validate(e, cfg)
    BY <1>2, <1>5, <1>7, <1>9, <1>10, <1>11, <1>12 DEF Validate
  <1>14. QED
    BY <1>8, <1>13 DEF e

\* The builder's envelopes are envelopes, and Validate admits them.
LEMMA BuiltIsValid ==
  ASSUME NEW cfg, cfg.targetB \in Nat, cfg.targetB > 0, NEW e \in BuiltBy(cfg)
  PROVE  IsEnvelope(e) /\ Validate(e, cfg)
  <1>1. CASE AggregatesEnvelopes(cfg.cell)
    <2>1. PICK rs \in [1 .. cfg.targetB -> Logical] : e = Aggregate(cfg, rs) /\ e # None
      BY <1>1 DEF BuiltBy
    <2>2. QED
      BY <1>1, <2>1, AggregateIsValid
  <1>2. CASE ~AggregatesEnvelopes(cfg.cell)
    <2>1. PICK r \in Logical : e = Independent(cfg, r)
      BY <1>2 DEF BuiltBy
    <2>2. QED
      BY <1>2, <2>1, IndependentIsValid
  <1>3. QED
    BY <1>1, <1>2

\* Overwriting a place of a sequence.
LEMMA Overwrites ==
  ASSUME NEW S, NEW s \in Seq(S), NEW k \in 1 .. Len(s), NEW v \in S
  PROVE  LET t == [s EXCEPT ![k] = v]
         IN  /\ t \in Seq(S) /\ Len(t) = Len(s) /\ DOMAIN t = 1 .. Len(s)
             /\ t[k] = v /\ \A i \in 1 .. Len(s) : i # k => t[i] = s[i]
  OBVIOUS

\* An envelope that drifted in one respect is refused, unless it still is what a
\* builder would have built: with B = 1 some of the drifts change nothing, and
\* without aggregation one makes an envelope of another member.
LEMMA DriftIsCaught ==
  ASSUME NEW X, X.targetB = TargetB,
         NEW o \in BuiltBy(X), NEW e \in Drifts(o)
  PROVE  IsEnvelope(e) /\ (Validate(e, X) => e \in BuiltBy(X))
  <1> DEFINE rs == o.requests
             n == Len(rs)
  <1>1. IsEnvelope(o) /\ Validate(o, X) /\ TargetB \in Nat /\ TargetB > 0
    BY BuiltIsValid, AdapterAssumption
  <1>2. /\ o.cohort \in Nat /\ o.expected \in Nat
        /\ o.aggregate \in BOOLEAN /\ o.seal \in BOOLEAN
        /\ rs \in Seq(Wire)
        /\ o.base = [config |-> o.base.config, vectorize |-> o.base.vectorize]
    BY <1>1 DEF IsEnvelope
  <1>3. /\ o.base.vectorize = VectorizesCompute(X.cell)
        /\ o.aggregate = AggregatesEnvelopes(X.cell)
        /\ o.seal = o.aggregate
        /\ n = o.expected
        /\ n = IF o.aggregate THEN TargetB ELSE 1
        /\ \A i \in DOMAIN rs : checkMember(rs[i], o)
        /\ o.aggregate => checkCohortMembership(rs, TargetB)
        /\ checkCanonicalOrder(rs)
    BY <1>1 DEF Validate
  <1>4. n \in Nat /\ n > 0 /\ DOMAIN rs = 1 .. n
    BY <1>1, <1>2, <1>3
  <1>5. \A i \in 1 .. n : /\ rs[i] \in Wire
                          /\ rs[i].cohort \in Nat /\ rs[i].ordinal \in Nat
                          /\ rs[i].uid \in Nat /\ rs[i].payload \in Nat
                          /\ rs[i].uid = UID(rs[i].cohort, rs[i].ordinal)
                          /\ rs[i].cohort = o.cohort
    <2> SUFFICES ASSUME NEW i \in 1 .. n
                 PROVE  /\ rs[i] \in Wire
                        /\ rs[i].uid = UID(rs[i].cohort, rs[i].ordinal)
                        /\ rs[i].cohort = o.cohort
      BY DEF Wire
    <2> HIDE DEF n, rs
    <2>1. rs[i] \in Wire
      BY <1>2, <1>4
    <2>2. checkMember(rs[i], o)
      BY <1>3, <1>4
    <2>3. QED
      BY <2>1, <2>2 DEF checkMember
  <1>6. o = [base |-> o.base, cohort |-> o.cohort, expected |-> o.expected,
             aggregate |-> o.aggregate, seal |-> o.seal, requests |-> rs]
    BY <1>1 DEF IsEnvelope
  <1> DEFINE stray == LogicalRequest([cohort |-> rs[1].cohort, ordinal |-> TargetB], TargetB + 1)
             Altered(ms) == [base |-> o.base, cohort |-> o.cohort, expected |-> o.expected,
                             aggregate |-> o.aggregate, seal |-> o.seal, requests |-> ms]
  <1>7. \/ e = [o EXCEPT !.expected = @ + 1]
        \/ e = [o EXCEPT !.seal = ~@]
        \/ e = [o EXCEPT !.aggregate = ~@]
        \/ e = [o EXCEPT !.base.vectorize = ~@]
        \/ e = Altered(Tail(rs))
        \/ e = Altered(Reverse(rs))
        \/ e = Altered([i \in 1 .. n |-> rs[1]])
        \/ e = Altered([rs EXCEPT ![n] = stray])
        \/ e = Altered([rs EXCEPT ![1] = [rs[1] EXCEPT !.uid = @ + 1]])
        \/ e = Altered([rs EXCEPT ![1] = [rs[1] EXCEPT !.payload = 0]])
        \/ e = [o EXCEPT !.cohort = @ + 1]
    <2> HIDE DEF stray
    <2>1. \/ e = [o EXCEPT !.expected = @ + 1]
          \/ e = [o EXCEPT !.seal = ~@]
          \/ e = [o EXCEPT !.aggregate = ~@]
          \/ e = [o EXCEPT !.base.vectorize = ~@]
          \/ e = [o EXCEPT !.requests = Tail(rs)]
          \/ e = [o EXCEPT !.requests = Reverse(rs)]
          \/ e = [o EXCEPT !.requests = [i \in DOMAIN rs |-> rs[1]]]
          \/ e = [o EXCEPT !.requests[n] = stray]
          \/ e = [o EXCEPT !.requests[1].uid = @ + 1]
          \/ e = [o EXCEPT !.requests[1].payload = 0]
          \/ e = [o EXCEPT !.cohort = @ + 1]
      BY Zenon DEF Drifts, stray
    <2>2. \A ms : [o EXCEPT !.requests = ms] = Altered(ms)
      BY <1>6
    <2>3. /\ [o EXCEPT !.requests[n] = stray] = [o EXCEPT !.requests = [rs EXCEPT ![n] = stray]]
          /\ [o EXCEPT !.requests[1].uid = @ + 1]
               = [o EXCEPT !.requests = [rs EXCEPT ![1] = [rs[1] EXCEPT !.uid = @ + 1]]]
          /\ [o EXCEPT !.requests[1].payload = 0]
               = [o EXCEPT !.requests = [rs EXCEPT ![1] = [rs[1] EXCEPT !.payload = 0]]]
      BY <1>4, <1>6
    <2> HIDE DEF rs, n, Altered
    <2>4. QED
      BY <2>1, <2>2, <2>3, <1>4
  <1> HIDE DEF rs, n
  <1>8. CASE e = [o EXCEPT !.expected = @ + 1]
    <2>1. e = [base |-> o.base, cohort |-> o.cohort, expected |-> o.expected + 1,
               aggregate |-> o.aggregate, seal |-> o.seal, requests |-> rs]
      BY <1>6, <1>8
    <2>2. IsEnvelope(e)
      BY <1>2, <2>1 DEF IsEnvelope
    <2>3. ~Validate(e, X)
      <3>1. Validate(e, X) => Len(e.requests) = e.expected
        BY DEF Validate
      <3>2. e.requests = rs /\ e.expected = o.expected + 1
        BY <2>1
      <3>3. Len(rs) = o.expected /\ o.expected \in Nat
        BY <1>2, <1>3 DEF n
      <3>4. QED
        BY <3>1, <3>2, <3>3
    <2>4. QED
      BY <2>2, <2>3
  <1>9. CASE e = [o EXCEPT !.seal = ~@]
    <2>1. e = [base |-> o.base, cohort |-> o.cohort, expected |-> o.expected,
               aggregate |-> o.aggregate, seal |-> ~o.seal, requests |-> rs]
      BY <1>6, <1>9
    <2>2. IsEnvelope(e)
      BY <1>2, <2>1 DEF IsEnvelope
    <2>3. ~Validate(e, X)
      BY <1>2, <1>3, <1>4, <1>5, <2>1 DEF Validate, n
    <2>4. QED
      BY <2>2, <2>3
  <1>10. CASE e = [o EXCEPT !.aggregate = ~@]
    <2>1. e = [base |-> o.base, cohort |-> o.cohort, expected |-> o.expected,
               aggregate |-> ~o.aggregate, seal |-> o.seal, requests |-> rs]
      BY <1>6, <1>10
    <2>2. IsEnvelope(e)
      BY <1>2, <2>1 DEF IsEnvelope
    <2>3. ~Validate(e, X)
      BY <1>2, <1>3, <1>4, <1>5, <2>1 DEF Validate, n
    <2>4. QED
      BY <2>2, <2>3
  <1>11. CASE e = [o EXCEPT !.base.vectorize = ~@]
    <2>1. e = [base |-> [config |-> o.base.config, vectorize |-> ~o.base.vectorize],
               cohort |-> o.cohort, expected |-> o.expected,
               aggregate |-> o.aggregate, seal |-> o.seal, requests |-> rs]
      BY <1>2, <1>6, <1>11
    <2>2. IsEnvelope(e)
      BY <1>2, <2>1 DEF IsEnvelope
    <2>3. ~Validate(e, X)
      BY <1>2, <1>3, <1>4, <1>5, <2>1 DEF Validate, n
    <2>4. QED
      BY <2>2, <2>3
  <1>12. CASE e = [o EXCEPT !.cohort = @ + 1]
    <2>1. e = [base |-> o.base, cohort |-> o.cohort + 1, expected |-> o.expected,
               aggregate |-> o.aggregate, seal |-> o.seal, requests |-> rs]
      BY <1>6, <1>12
    <2>2. IsEnvelope(e)
      BY <1>2, <2>1 DEF IsEnvelope
    <2>3. ~Validate(e, X)
      BY <1>2, <1>3, <1>4, <1>5, <2>1 DEF Validate, n, checkMember
    <2>4. QED
      BY <2>2, <2>3
  <1>13. CASE e = Altered(Tail(rs))
    <2> DEFINE ms == Tail(rs)
    <2>1. ms \in Seq(Wire) /\ Len(ms) = n - 1 /\ DOMAIN ms = 1 .. n - 1
      BY <1>2, <1>4 DEF n
    <2>2. /\ e.requests = ms /\ e.cohort = o.cohort /\ e.expected = o.expected
          /\ e.aggregate = o.aggregate
      BY <1>13
    <2>3. IsEnvelope(e)
      BY <1>2, <1>13, <2>1 DEF IsEnvelope
    <2> HIDE DEF ms
    <2>4. ~Validate(e, X)
      BY <1>3, <1>4, <2>1, <2>2 DEF Validate
    <2>5. QED
      BY <2>3, <2>4
  <1>14. CASE e = Altered(Reverse(rs))
    <2> DEFINE ms == Reverse(rs)
    <2>1. ms \in Seq(Wire) /\ Len(ms) = n /\ DOMAIN ms = 1 .. n
          /\ \A i \in 1 .. n : ms[i] = rs[(n - i) + 1]
      BY <1>2, <1>4 DEF n, Reverse
    <2>2. /\ e.requests = ms /\ e.cohort = o.cohort /\ e.expected = o.expected
          /\ e.aggregate = o.aggregate
      BY <1>14
    <2>3. IsEnvelope(e)
      BY <1>2, <1>14, <2>1 DEF IsEnvelope
    <2> HIDE DEF ms
    <2>4. CASE n = 1
      <3>1. ms = rs
        BY <1>2, <1>4, <2>1, <2>4 DEF n
      <3>2. e = o
        BY <1>6, <1>14, <3>1 DEF ms
      <3>3. QED
        BY <2>3, <3>2
    <2>5. CASE n # 1
      <3>1. n - 1 \in 1 .. n /\ 1 \in 1 .. n /\ 2 \in 2 .. n /\ n \in 2 .. n
        BY <1>4, <2>5
      <3>2. ms[1] = rs[n] /\ ms[2] = rs[n - 1]
        BY <1>4, <2>1, <2>5
      <3>3. rs[n].ordinal > rs[n - 1].ordinal
        BY <1>3, <1>4, <3>1 DEF checkCanonicalOrder
      <3>4. ~checkCanonicalOrder(ms)
        <4>1. rs[n].ordinal \in Nat /\ rs[n - 1].ordinal \in Nat /\ rs[1].ordinal \in Nat
          BY <1>4, <1>5, <3>1
        <4>2. checkCanonicalOrder(ms) => ms[2].ordinal > ms[2 - 1].ordinal
          BY <2>1, <1>4, <3>1 DEF checkCanonicalOrder
        <4>3. QED
          BY <3>2, <3>3, <4>1, <4>2
      <3>5. QED
        BY <2>2, <2>3, <3>4 DEF Validate
    <2>6. QED
      BY <2>4, <2>5
  <1>15. CASE e = Altered([i \in 1 .. n |-> rs[1]])
    <2> DEFINE ms == [i \in 1 .. n |-> rs[1]]
    <2>1. ms \in Seq(Wire) /\ Len(ms) = n /\ DOMAIN ms = 1 .. n
          /\ \A i \in 1 .. n : ms[i] = rs[1]
      BY <1>4, <1>5
    <2>2. /\ e.requests = ms /\ e.cohort = o.cohort /\ e.expected = o.expected
          /\ e.aggregate = o.aggregate
      BY <1>15
    <2>3. IsEnvelope(e)
      BY <1>2, <1>15, <2>1 DEF IsEnvelope
    <2> HIDE DEF ms
    <2>4. CASE n = 1
      <3>1. ms = rs
        BY <1>2, <1>4, <2>1, <2>4 DEF n
      <3>2. e = o
        BY <1>6, <1>15, <3>1 DEF ms
      <3>3. QED
        BY <2>3, <3>2
    <2>5. CASE n # 1
      <3>1. n - 1 \in 1 .. n /\ 1 \in 1 .. n /\ 2 \in 2 .. n /\ n \in 2 .. n
        BY <1>4, <2>5
      <3>2. ms[1] = rs[1] /\ ms[2] = rs[1]
        BY <1>4, <2>1, <2>5
      <3>4. ~checkCanonicalOrder(ms)
        <4>1. rs[n].ordinal \in Nat /\ rs[n - 1].ordinal \in Nat /\ rs[1].ordinal \in Nat
          BY <1>4, <1>5, <3>1
        <4>2. checkCanonicalOrder(ms) => ms[2].ordinal > ms[2 - 1].ordinal
          BY <2>1, <1>4, <3>1 DEF checkCanonicalOrder
        <4>3. QED
          BY <3>2, <4>1, <4>2
      <3>5. QED
        BY <2>2, <2>3, <3>4 DEF Validate
    <2>6. QED
      BY <2>4, <2>5
  <1>16. CASE e = Altered([rs EXCEPT ![n] = stray])
    <2>0. stray \in Wire /\ stray.ordinal = TargetB
      <3>1. rs[1].cohort \in Nat /\ UID(rs[1].cohort, TargetB) \in Nat
        <4>1. rs[1].cohort \in Nat /\ TargetB \in Nat
          BY <1>1, <1>4, <1>5
        <4>2. QED
          BY <4>1, UIDType
      <3>2. QED
        BY <1>1, <3>1 DEF LogicalRequest, Wire
    <2> HIDE DEF stray
    <2> DEFINE ms == [rs EXCEPT ![n] = stray]
    <2>1. ms \in Seq(Wire) /\ Len(ms) = n /\ DOMAIN ms = 1 .. n
          /\ ms[n] = stray /\ \A i \in 1 .. n : i # n => ms[i] = rs[i]
      <3>1. n = Len(rs) /\ n \in 1 .. n /\ rs \in Seq(Wire)
        BY <1>2, <1>4 DEF n
      <3>2. QED
        BY <2>0, <3>1, Overwrites
    <2>2. /\ e.requests = ms /\ e.cohort = o.cohort /\ e.expected = o.expected
          /\ e.aggregate = o.aggregate
      BY <1>16
    <2>3. IsEnvelope(e)
      BY <1>2, <1>16, <2>1 DEF IsEnvelope
    <2> HIDE DEF ms
    <2>4. CASE o.aggregate
      <3>1. ~checkCohortMembership(ms, TargetB)
        BY <1>1, <1>4, <2>0, <2>1 DEF checkCohortMembership
      <3>2. X.targetB = TargetB /\ e.aggregate
        BY <2>2, <2>4
      <3>3. QED
        BY <2>2, <2>3, <3>1, <3>2 DEF Validate
    <2>5. CASE ~o.aggregate
      <3>1. ~AggregatesEnvelopes(X.cell) /\ n = 1
        BY <1>3, <2>5
      <3>2. PICK r \in Logical : o = Independent(X, r)
        BY <3>1 DEF BuiltBy
      <3>3. /\ o.base = base(X) /\ o.cohort = r.cohort /\ o.expected = 1 /\ o.aggregate = FALSE
            /\ o.seal = FALSE /\ rs = <<r>>
        BY <3>2 DEF Independent, rs
      <3>4. /\ rs[1] = r
            /\ stray = LogicalRequest([cohort |-> r.cohort, ordinal |-> TargetB], TargetB + 1)
        BY <3>3 DEF stray
      <3>5. stray \in Logical /\ stray.cohort = r.cohort
        <4>1. r.cohort \in Cohorts /\ TargetB \in 0 .. TargetB
          <5>1. r.cohort \in Cohorts
            BY LogicalFacts
          <5>2. QED
            BY <1>1, <5>1
        <4>2. QED
          BY <3>4, <4>1 DEF Logical, LogicalRequest
      <3>6. ms = <<stray>>
        BY <2>0, <2>1, <3>1
      <3>7. e = Independent(X, stray)
        BY <1>16, <3>3, <3>5, <3>6 DEF Independent, ms
      <3>8. QED
        BY <2>3, <3>1, <3>5, <3>7 DEF BuiltBy
    <2>6. QED
      BY <2>4, <2>5
  <1>17. CASE e = Altered([rs EXCEPT ![1] = [rs[1] EXCEPT !.uid = @ + 1]])
    <2> DEFINE bad == [rs[1] EXCEPT !.uid = @ + 1]
    <2>0. /\ bad \in Wire /\ bad.cohort = rs[1].cohort /\ bad.ordinal = rs[1].ordinal
          /\ bad.uid = rs[1].uid + 1
      BY <1>4, <1>5 DEF Wire
    <2> HIDE DEF bad
    <2> DEFINE ms == [rs EXCEPT ![1] = bad]
    <2>1. ms \in Seq(Wire) /\ Len(ms) = n /\ DOMAIN ms = 1 .. n
          /\ ms[1] = bad
      BY <1>2, <1>4, <2>0 DEF n
    <2>2. /\ e.requests = ms /\ e.cohort = o.cohort /\ e.expected = o.expected
          /\ e.aggregate = o.aggregate
      BY <1>17 DEF bad
    <2>3. IsEnvelope(e)
      BY <1>2, <1>17, <2>1 DEF IsEnvelope, bad
    <2> HIDE DEF ms
    <2>4. ~checkMember(ms[1], e)
      BY <1>4, <1>5, <2>0, <2>1 DEF checkMember
    <2>5. 1 \in DOMAIN e.requests
      BY <1>4, <2>1, <2>2
    <2>6. QED
      BY <2>2, <2>3, <2>4, <2>5 DEF Validate
  <1>18. CASE e = Altered([rs EXCEPT ![1] = [rs[1] EXCEPT !.payload = 0]])
    <2> DEFINE bad == [rs[1] EXCEPT !.payload = 0]
    <2>0. /\ bad \in Wire /\ bad.cohort = rs[1].cohort /\ bad.ordinal = rs[1].ordinal
          /\ bad.payload = 0
      BY <1>4, <1>5 DEF Wire
    <2> HIDE DEF bad
    <2> DEFINE ms == [rs EXCEPT ![1] = bad]
    <2>1. ms \in Seq(Wire) /\ Len(ms) = n /\ DOMAIN ms = 1 .. n
          /\ ms[1] = bad
      BY <1>2, <1>4, <2>0 DEF n
    <2>2. /\ e.requests = ms /\ e.cohort = o.cohort /\ e.expected = o.expected
          /\ e.aggregate = o.aggregate
      BY <1>18 DEF bad
    <2>3. IsEnvelope(e)
      BY <1>2, <1>18, <2>1 DEF IsEnvelope, bad
    <2> HIDE DEF ms
    <2>4. ~checkMember(ms[1], e)
      BY <1>4, <1>5, <2>0, <2>1 DEF checkMember
    <2>5. 1 \in DOMAIN e.requests
      BY <1>4, <2>1, <2>2
    <2>6. QED
      BY <2>2, <2>3, <2>4, <2>5 DEF Validate
  <1>19. QED
    BY <1>7, <1>8, <1>9, <1>10, <1>11, <1>12, <1>13, <1>14, <1>15, <1>16, <1>17, <1>18

\* An envelope that Validate admits is one that a builder of this run built,
\* whatever arrives: another run's differs in its identity, and a drifted one is
\* caught.
LEMMA AdmittedWasBuilt ==
  ASSUME clock = "run's", NEW e \in Arriving
  PROVE  IsEnvelope(e) /\ (Validate(e, Expectation) <=> e \in BuiltBy(Expectation))
  <1>0. Expectation = [schema |-> 1, run |-> "this", cell |-> cell, clock |-> clock,
                       targetB |-> TargetB]
    BY DEF Expectation, Config
  <1>1. Expectation.targetB = TargetB /\ TargetB \in Nat /\ TargetB > 0
    BY <1>0, AdapterAssumption
  <1>2. e \in BuiltBy(Expectation) => IsEnvelope(e) /\ Validate(e, Expectation)
    BY <1>1, BuiltIsValid
  <1>3. ASSUME NEW cfg \in Foreign, e \in Samples(cfg)
        PROVE  IsEnvelope(e) /\ ~Validate(e, Expectation)
    <2>1. cfg # Expectation /\ cfg.targetB \in Nat /\ cfg.targetB > 0
      BY <1>0, <1>1, <1>3 DEF Foreign
    <2>2. IsEnvelope(e) /\ Validate(e, cfg)
      BY <1>3, <2>1, BuiltIsValid DEF Samples
    <2>3. QED
      BY <2>1, <2>2 DEF Validate
  <1>4. ASSUME NEW o \in Samples(Expectation), e \in Drifts(o)
        PROVE  IsEnvelope(e) /\ (Validate(e, Expectation) => e \in BuiltBy(Expectation))
    BY <1>1, <1>4, DriftIsCaught DEF Samples
  <1>5. QED
    <2>1. CASE e \in BuiltBy(Expectation)
      BY <1>2, <2>1
    <2>2. CASE \E cfg \in Foreign : e \in Samples(cfg)
      BY <1>2, <1>3, <2>2
    <2>3. CASE \E o \in Samples(Expectation) : e \in Drifts(o)
      BY <1>2, <1>4, <2>3
    <2>4. \/ e \in BuiltBy(Expectation)
          \/ \E cfg \in Foreign : e \in Samples(cfg)
          \/ \E o \in Samples(Expectation) : e \in Drifts(o)
      <3>1. e \in Arriving
        OBVIOUS
      <3>2. \/ e \in BuiltBy(Expectation)
            \/ e \in UNION {Samples(cfg) : cfg \in Foreign}
            \/ e \in UNION {Drifts(o) : o \in Samples(Expectation)}
        BY <3>1 DEF Arriving
      <3>3. QED
        BY <3>2
    <2>5. QED
      BY <2>1, <2>2, <2>3, <2>4

\* No two members of an admitted envelope are the same one.
LEMMA AdmittedAreDistinct ==
  ASSUME NEW e, IsEnvelope(e), Validate(e, Expectation)
  PROVE  Distinct(e.requests) /\ Len(e.requests) > 0
  <1>1. /\ e.requests \in Seq(Wire)
        /\ Expectation.targetB = TargetB /\ TargetB \in Nat /\ TargetB > 0
    BY AdapterAssumption DEF IsEnvelope, Expectation, Config
  <1>2. CASE e.aggregate
    <2>1. checkCohortMembership(e.requests, TargetB) /\ Len(e.requests) = TargetB
      BY <1>1, <1>2 DEF Validate
    <2>2. \A i, j \in DOMAIN e.requests : i # j => e.requests[i].ordinal # e.requests[j].ordinal
      BY <1>1, <2>1, MembersDiffer
    <2>3. QED
      BY <1>1, <2>1, <2>2 DEF Distinct, MemberOf
  <1>3. CASE ~e.aggregate
    <2>1. Len(e.requests) = 1
      BY <1>3 DEF Validate
    <2>2. QED
      BY <1>1, <2>1 DEF Distinct
  <1>4. QED
    BY <1>2, <1>3

-----------------------------------------------------------------------------
(* The invariant.                                                          *)

\* What a submission comes to, and a goroutine of a fan-out.
IsOutcome(out) == out = [status |-> out.status, membership |-> out.membership]

IsSubmission(s) ==
  /\ s = [member |-> s.member, state |-> s.state, out |-> s.out]
  /\ s.state \in {"submitting", "returned", "done"}
  /\ s.state # "submitting" => IsOutcome(s.out)

Typed ==
  /\ cell \in AllCells
  /\ phase \in {"wiring", "wired", "described", "listening", "armed", "serving", "draining",
                "closing", "exited"}
  /\ disk = [stream |-> disk.stream, process |-> disk.process, stats |-> disk.stats]
  /\ pc \in [Calls -> {"idle", "running", "returned"}]
  /\ DOMAIN env = Calls /\ DOMAIN sub = Calls /\ DOMAIN results = Calls /\ DOMAIN answer = Calls
  /\ dropped \in Nat
  /\ IsFiniteSet(stream)

\* What the phases of run() leave behind them.
Phases ==
  /\ phase \notin {"wiring", "exited"} => clock = "run's" /\ SelectKind(cell) = "individual"
  /\ phase \in {"described", "listening", "armed", "serving", "draining", "closing"} =>
       disk.process = [cell |-> cell, executor |-> "individual"]
  /\ phase = "closing" => disk.stream = "closed" /\ \A c \in Calls : pc[c] # "running"
  /\ phase # "exited" => disk.stats = None

\* What the history has of the submission of goroutine i.
Outcome(c, i) == [call |-> c, member |-> sub[c][i].member, out |-> sub[c][i].out]

\* A goroutine's submission is in the history once it returned, and its outcome in
\* the goroutine's slot once it is done.
Kept(c, i) ==
  /\ sub[c][i].state # "submitting" => Outcome(c, i) \in outcomes
  /\ sub[c][i].state = "done" => results[c][i] = MemberResult(sub[c][i].member, sub[c][i].out)

\* The goroutines of a call are those of its envelope's members.
Fanned(c) ==
  /\ IsEnvelope(env[c]) /\ Distinct(env[c].requests)
  /\ DOMAIN sub[c] = DOMAIN env[c].requests /\ DOMAIN results[c] = DOMAIN env[c].requests
  /\ \A i \in DOMAIN sub[c] :
       /\ IsSubmission(sub[c][i])
       /\ sub[c][i].member = MemberOf(env[c].requests[i])
       /\ Kept(c, i)

\* Every goroutine is done, and what they stored is what was answered.
Reported(c) ==
  /\ \A i \in DOMAIN sub[c] : sub[c][i].state = "done"
  /\ answer[c] = [i \in DOMAIN results[c] |-> logicalResult(results[c][i])]

Handlers ==
  \A c \in Calls :
    /\ pc[c] = "idle" => sub[c] = <<>>
    /\ pc[c] = "running" => Admitted(c)
    /\ Admitted(c) => Fanned(c)
    /\ pc[c] = "returned" /\ Admitted(c) => Reported(c)

\* The history has nothing but the submissions of goroutines that are past them.
History ==
  \A o \in outcomes :
    /\ o.call \in Calls
    /\ \E i \in DOMAIN sub[o.call] : sub[o.call][i].state # "submitting" /\ o = Outcome(o.call, i)

\* Every record is one of a call that returned, and none is missing.
Accounts ==
  /\ \A r \in stream :
       /\ r.call \in Calls /\ pc[r.call] = "returned"
       /\ \E i \in DOMAIN results[r.call] : r \in record(r.call, i)
  /\ IsFiniteSet(Answered)
  /\ Cardinality(stream) + dropped = Cardinality(Answered)

IInv ==
  Typed /\ Phases /\ Handlers /\ History /\ AdmitsWhatItsRunBuilds /\ Accounts /\ StatsVouchForTheStream

-----------------------------------------------------------------------------
(* The process.                                                            *)

\* Nothing is listening, and no call has been made.
LEMMA InitHolds == Init => IInv
  <1> SUFFICES ASSUME Init PROVE IInv
    OBVIOUS
  <1>1. Typed
    BY FS_EmptySet DEF Init, Typed
  <1>2. Phases /\ Handlers /\ History /\ AdmitsWhatItsRunBuilds /\ StatsVouchForTheStream
    BY DEF Init, Phases, Handlers, History, AdmitsWhatItsRunBuilds, Admitted, StatsVouchForTheStream
  <1>3. Accounts
    <2>1. Answered = {}
      BY DEF Init, Answered
    <2>2. QED
      BY <2>1, FS_EmptySet DEF Init, Accounts
  <1>4. QED
    BY <1>1, <1>2, <1>3 DEF IInv

\* What run() does beside its handlers leaves their part of the invariant alone.
LEMMA CallsUntouched ==
  ASSUME IInv, UNCHANGED <<cell, clock, streamVars, callVars>>
  PROVE  (Handlers /\ History /\ AdmitsWhatItsRunBuilds /\ Accounts)'
  <1> USE DEF streamVars, callVars
  <1>1. Handlers' /\ History'
    BY DEF IInv, Handlers, Admitted, Fanned, Kept, Reported, History, Outcome
  <1>2. AdmitsWhatItsRunBuilds'
    BY DEF IInv, AdmitsWhatItsRunBuilds, Admitted, Expectation
  <1>3. Accounts'
    BY DEF IInv, Accounts, Answered, record
  <1>4. QED
    BY <1>1, <1>2, <1>3

\* The executor is chosen before the stream is opened.
LEMMA SelectedIsIndividual == SelectKind(cell) # None => SelectKind(cell) = "individual"
  BY DEF SelectKind

\* Every step of run(), and what ends the process from outside.
LEMMA ProcessKeeps == IInv /\ (Process \/ Interrupt \/ Killed) => IInv'
  <1> SUFFICES ASSUME IInv, Process \/ Interrupt \/ Killed PROVE IInv'
    OBVIOUS
  <1> USE DEF Exits, streamVars, callVars
  <1>1. UNCHANGED <<cell, clock, streamVars, callVars>>
    BY DEF Process, Refuses, OpensStream, Describes, Listens, Arms, Serves, WiringFails, Drains,
           ClosesStream, CloseFails, WritesStats, Interrupt, Killed
  <1>2. Typed'
    BY DEF IInv, Typed, Process, Refuses, OpensStream, Describes, Listens, Arms, Serves,
           WiringFails, Drains, ClosesStream, CloseFails, WritesStats, Interrupt, Killed
  <1>3. Phases'
    BY SelectedIsIndividual
    DEF IInv, Typed, Phases, Process, Refuses, OpensStream, Describes, Listens, Arms, Serves,
        WiringFails, Drains, ClosesStream, HandlersReturned, CloseFails, WritesStats, Interrupt,
        Killed
  <1>4. StatsVouchForTheStream'
    <2>1. CASE WritesStats
      <3>1. /\ phase = "closing" /\ exit' = "ok" /\ UNCHANGED <<stream, dropped, pc>>
            /\ disk'.stats = [written |-> Cardinality(stream), dropped |-> dropped]
            /\ disk'.stream = disk.stream /\ disk'.process = disk.process
        BY <2>1 DEF IInv, Typed, WritesStats
      <3>2. disk.process # None
        BY <3>1, AdapterAssumption DEF IInv, Typed, Phases
      <3>3. QED
        BY <3>1, <3>2 DEF IInv, Phases, StatsVouchForTheStream
    <2>2. CASE ~WritesStats
      <3>1. phase # "exited" /\ disk'.stats = disk.stats
        BY <2>2 DEF IInv, Typed, Process, Refuses, OpensStream, Describes, Listens, Arms, Serves,
                    WiringFails, Drains, ClosesStream, CloseFails, Interrupt, Killed
      <3>2. QED
        BY <3>1 DEF IInv, Phases, StatsVouchForTheStream
    <2>3. QED
      BY <2>1, <2>2
  <1>5. QED
    BY <1>1, <1>2, <1>3, <1>4, CallsUntouched DEF IInv

-----------------------------------------------------------------------------
(* The handlers.                                                           *)

\* No stats exist while a handler can move.
LEMMA HandlersMoveBeforeTheStats ==
  ASSUME IInv, phase # "exited", UNCHANGED processVars,
         \A c \in Calls : pc'[c] = "running" => pc[c] = "running" \/ phase = "serving"
  PROVE  Phases' /\ StatsVouchForTheStream'
  <1> USE DEF processVars
  <1>1. Phases'
    BY DEF IInv, Phases
  <1>2. StatsVouchForTheStream'
    BY DEF IInv, Phases, StatsVouchForTheStream
  <1>3. QED
    BY <1>1, <1>2

\* The members that count as answered are the same while no call returns and no
\* answered one changes.
LEMMA AnsweredStays ==
  ASSUME \A d \in Calls : pc'[d] = "returned" <=> pc[d] = "returned",
         \A d \in Calls : pc[d] = "returned" => sub'[d] = sub[d]
  PROVE  Answered' = Answered
  BY DEF Answered

\* A refused envelope is nobody's: no member was admitted, and none is counted.
LEMMA RefusesKeeps == ASSUME NEW c \in Calls PROVE IInv /\ ExecuteRefuses(c) => IInv'
  <1> SUFFICES ASSUME IInv, ExecuteRefuses(c) PROVE IInv'
    OBVIOUS
  <1> USE DEF processVars, streamVars
  <1>1. PICK e \in Arriving : ~Validate(e, Expectation) /\ env' = [env EXCEPT ![c] = e]
    BY DEF ExecuteRefuses
  <1>2. /\ phase = "serving" /\ pc[c] = "idle" /\ pc' = [pc EXCEPT ![c] = "returned"]
        /\ UNCHANGED <<processVars, streamVars, sub, results, answer, outcomes>>
    BY DEF ExecuteRefuses
  <1>3. sub[c] = <<>>
    BY <1>2 DEF IInv, Handlers
  <1>4. Typed'
    BY <1>1, <1>2 DEF IInv, Typed
  <1>5. Phases' /\ StatsVouchForTheStream'
    BY <1>2, HandlersMoveBeforeTheStats DEF IInv, Typed
  <1>6. Handlers' /\ History'
    <2>1. Handlers'
      BY <1>1, <1>2, <1>3 DEF IInv, Typed, Handlers, Admitted, Fanned, Kept, Outcome, Reported
    <2>2. History'
      BY <1>2 DEF IInv, History, Outcome
    <2>3. QED
      BY <2>1, <2>2
  <1>7. AdmitsWhatItsRunBuilds'
    <2>1. e \notin BuiltBy(Expectation)
      BY <1>1, <1>2, AdmittedWasBuilt DEF IInv, Phases
    <2>2. Expectation' = Expectation
      BY <1>2 DEF Expectation
    <2>3. QED
      BY <1>1, <1>2, <1>3, <2>1, <2>2 DEF IInv, Typed, AdmitsWhatItsRunBuilds, Admitted
  <1>8. Accounts'
    <2>1. Answered' = Answered
      BY <1>2, <1>3 DEF IInv, Typed, Answered
    <2>2. \A r \in stream : r.call # c
      BY <1>2 DEF IInv, Accounts
    <2>3. QED
      BY <1>1, <1>2, <2>1, <2>2 DEF IInv, Typed, Accounts, record
  <1>9. QED
    BY <1>4, <1>5, <1>6, <1>7, <1>8 DEF IInv

\* The fan-out: a submission for each member of the envelope.
LEMMA FansOutKeeps == ASSUME NEW c \in Calls PROVE IInv /\ ExecuteFansOut(c) => IInv'
  <1> SUFFICES ASSUME IInv, ExecuteFansOut(c) PROVE IInv'
    OBVIOUS
  <1> USE DEF processVars, streamVars
  <1>1. PICK e \in Arriving :
          /\ Validate(e, Expectation)
          /\ env' = [env EXCEPT ![c] = e]
          /\ sub' = [sub EXCEPT ![c] = [i \in DOMAIN e.requests |-> Submitting(Captured(e, i))]]
          /\ results' = [results EXCEPT ![c] = [i \in DOMAIN e.requests |-> Zero]]
    BY DEF ExecuteFansOut
  <1>2. /\ phase = "serving" /\ pc[c] = "idle" /\ pc' = [pc EXCEPT ![c] = "running"]
        /\ UNCHANGED <<processVars, streamVars, ctx, answer, outcomes>>
    BY DEF ExecuteFansOut
  <1>3. IsEnvelope(e) /\ e \in BuiltBy(Expectation)
    BY <1>1, <1>2, AdmittedWasBuilt DEF IInv, Phases
  <1>4. Distinct(e.requests) /\ DOMAIN e.requests # {}
    <2>1. Distinct(e.requests) /\ Len(e.requests) > 0
      BY <1>1, <1>3, AdmittedAreDistinct
    <2>2. e.requests \in Seq(Wire)
      BY <1>3 DEF IsEnvelope
    <2>3. 1 \in DOMAIN e.requests
      BY <2>1, <2>2
    <2>4. QED
      BY <2>1, <2>3
  <1>5. /\ sub'[c] # <<>> /\ DOMAIN sub'[c] = DOMAIN e.requests /\ DOMAIN results'[c] = DOMAIN e.requests
        /\ \A i \in DOMAIN e.requests : /\ IsSubmission(sub'[c][i])
                                        /\ sub'[c][i].member = MemberOf(e.requests[i])
                                        /\ sub'[c][i].state = "submitting"
    <2>1. /\ sub'[c] = [i \in DOMAIN e.requests |-> Submitting(MemberOf(e.requests[i]))]
          /\ results'[c] = [i \in DOMAIN e.requests |-> Zero]
      BY <1>1 DEF IInv, Typed, Captured
    <2>2. QED
      BY <1>4, <2>1 DEF Submitting, IsSubmission
  <1>6. Typed'
    BY <1>1, <1>2 DEF IInv, Typed
  <1>7. Phases' /\ StatsVouchForTheStream'
    BY <1>2, HandlersMoveBeforeTheStats DEF IInv, Typed
  <1>8. Handlers'
    <2> SUFFICES ASSUME NEW d \in Calls
                 PROVE  (/\ pc[d] = "idle" => sub[d] = <<>>
                         /\ pc[d] = "running" => Admitted(d)
                         /\ Admitted(d) => Fanned(d)
                         /\ pc[d] = "returned" /\ Admitted(d) => Reported(d))'
      BY DEF Handlers
    <2>1. CASE d = c
      <3>1. env'[c] = e /\ pc'[c] = "running"
        BY <1>1, <1>2 DEF IInv, Typed
      <3>2. QED
        BY <1>3, <1>4, <1>5, <2>1, <3>1 DEF Admitted, Fanned, Kept
    <2>2. CASE d # c
      <3>1. /\ env'[d] = env[d] /\ sub'[d] = sub[d] /\ results'[d] = results[d] /\ pc'[d] = pc[d]
            /\ answer'[d] = answer[d] /\ outcomes' = outcomes
        BY <1>1, <1>2, <2>2 DEF IInv, Typed
      <3>2. QED
        BY <3>1 DEF IInv, Handlers, Admitted, Fanned, Kept, Outcome, Reported
    <2>3. QED
      BY <2>1, <2>2
  <1>h. History'
    <2>1. \A d \in Calls : sub'[d] = sub[d] \/ sub[d] = <<>>
      BY <1>1, <1>2 DEF IInv, Typed, Handlers
    <2>2. \A o \in outcomes : sub[o.call] # <<>>
      BY DEF IInv, History
    <2>3. QED
      BY <1>2, <2>1, <2>2 DEF IInv, History, Outcome
  <1>9. AdmitsWhatItsRunBuilds'
    <2>1. Expectation' = Expectation
      BY <1>2 DEF Expectation
    <2>2. QED
      BY <1>1, <1>2, <1>3, <1>5, <2>1 DEF IInv, Typed, AdmitsWhatItsRunBuilds, Admitted
  <1>10. Accounts'
    <2>1. Answered' = Answered
      BY <1>1, <1>2, AnsweredStays DEF IInv, Typed
    <2>2. \A r \in stream : r.call # c
      BY <1>2 DEF IInv, Accounts
    <2>3. QED
      BY <1>1, <1>2, <2>1, <2>2 DEF IInv, Typed, Accounts, record
  <1>11. QED
    BY <1>6, <1>7, <1>8, <1>h, <1>9, <1>10 DEF IInv

\* A call that a step leaves alone stays as the invariant has it.
LEMMA OthersStay ==
  ASSUME NEW d \in Calls, Handlers,
         pc'[d] = pc[d], env' = env, sub'[d] = sub[d], results'[d] = results[d],
         answer'[d] = answer[d], outcomes \subseteq outcomes'
  PROVE  (/\ pc[d] = "idle" => sub[d] = <<>>
          /\ pc[d] = "running" => Admitted(d)
          /\ Admitted(d) => Fanned(d)
          /\ pc[d] = "returned" /\ Admitted(d) => Reported(d))'
  <1>1. Admitted(d)' <=> Admitted(d)
    BY DEF Admitted
  <1>2. \A i \in DOMAIN sub[d] : Kept(d, i) => Kept(d, i)'
    BY DEF Kept, Outcome
  <1>3. Fanned(d) => Fanned(d)'
    BY <1>2 DEF Fanned
  <1>4. Reported(d) => Reported(d)'
    BY DEF Reported
  <1>5. QED
    BY <1>1, <1>3, <1>4 DEF Handlers

\* What a submission comes to is its goroutine's own, and the history has it.
LEMMA SubmissionKeeps ==
  ASSUME NEW c \in Calls, NEW i \in DOMAIN sub[c], NEW out, IsOutcome(out)
  PROVE  IInv /\ Returns(c, i, out) => IInv'
  <1> SUFFICES ASSUME IInv, Returns(c, i, out) PROVE IInv'
    OBVIOUS
  <1>1. /\ phase # "exited" /\ pc[c] = "running" /\ sub[c][i].state = "submitting"
        /\ sub' = [sub EXCEPT ![c][i].state = "returned", ![c][i].out = out]
        /\ outcomes' = outcomes \cup {[call |-> c, member |-> sub[c][i].member, out |-> out]}
        /\ UNCHANGED <<processVars, streamVars, pc, env, ctx, results, answer>>
    BY DEF Returns, Alive
  <1>2. Admitted(c) /\ Fanned(c)
    BY <1>1 DEF IInv, Handlers
  <1>3. /\ DOMAIN sub' = Calls
        /\ \A d \in Calls : d # c => sub'[d] = sub[d]
        /\ DOMAIN sub'[c] = DOMAIN sub[c]
        /\ \A j \in DOMAIN sub[c] : j # i => sub'[c][j] = sub[c][j]
    BY <1>1 DEF IInv, Typed
  <1>4. sub'[c][i] = [member |-> sub[c][i].member, state |-> "returned", out |-> out]
    <2>1. sub[c][i] = [member |-> sub[c][i].member, state |-> sub[c][i].state, out |-> sub[c][i].out]
      BY <1>2 DEF Fanned, IsSubmission
    <2>2. QED
      BY <1>1, <2>1 DEF IInv, Typed
  <1>5. outcomes' = outcomes \cup {Outcome(c, i)'} /\ Outcome(c, i)'.call = c
    BY <1>1, <1>4 DEF Outcome
  <1>6. \A d \in Calls : \A j \in DOMAIN sub[d] :
          sub[d][j].state # "submitting" => sub'[d][j] = sub[d][j] /\ Outcome(d, j)' = Outcome(d, j)
    <2> SUFFICES ASSUME NEW d \in Calls, NEW j \in DOMAIN sub[d], sub[d][j].state # "submitting"
                 PROVE  sub'[d][j] = sub[d][j]
      BY DEF Outcome
    <2>1. d # c \/ j # i
      BY <1>1
    <2>2. QED
      BY <1>3, <2>1
  <1>7. Fanned(c)'
    <2>1. ASSUME NEW j \in DOMAIN sub[c]
          PROVE  IsSubmission(sub'[c][j]) /\ sub'[c][j].member = MemberOf(env[c].requests[j])
      <3>1. IsSubmission(sub[c][j]) /\ sub[c][j].member = MemberOf(env[c].requests[j])
        BY <1>2 DEF Fanned
      <3>2. CASE j = i
        BY <1>1, <1>4, <3>1, <3>2 DEF IsSubmission
      <3>3. CASE j # i
        BY <1>3, <3>1, <3>3
      <3>4. QED
        BY <3>2, <3>3
    <2>2. ASSUME NEW j \in DOMAIN sub[c] PROVE Kept(c, j)'
      <3>1. CASE j = i
        BY <1>4, <1>5, <3>1 DEF Kept
      <3>2. CASE j # i
        <4>1. Kept(c, j) /\ sub'[c][j] = sub[c][j]
          BY <1>2, <1>3, <3>2 DEF Fanned
        <4>2. Outcome(c, j)' = Outcome(c, j)
          BY <4>1 DEF Outcome
        <4>3. QED
          BY <1>1, <4>1, <4>2 DEF Kept
      <3>3. QED
        BY <3>1, <3>2
    <2>3. QED
      BY <1>1, <1>2, <1>3, <2>1, <2>2 DEF Fanned
  <1>8. History'
    <2>1. ASSUME NEW o \in outcomes
          PROVE  /\ o.call \in Calls
                 /\ \E j \in DOMAIN sub'[o.call] : sub'[o.call][j].state # "submitting" /\ o = Outcome(o.call, j)'
      <3>1. o.call \in Calls
        BY DEF IInv, History
      <3>2. PICK j \in DOMAIN sub[o.call] : sub[o.call][j].state # "submitting" /\ o = Outcome(o.call, j)
        BY DEF IInv, History
      <3>3. j \in DOMAIN sub'[o.call]
        BY <1>3, <3>1
      <3>4. QED
        BY <1>6, <3>1, <3>2, <3>3
    <2>2. \E j \in DOMAIN sub'[c] : sub'[c][j].state # "submitting" /\ Outcome(c, i)' = Outcome(c, j)'
      BY <1>3, <1>4
    <2>3. QED
      BY <1>5, <2>1, <2>2 DEF History
  <1>9. Handlers'
    <2> SUFFICES ASSUME NEW d \in Calls
                 PROVE  (/\ pc[d] = "idle" => sub[d] = <<>>
                         /\ pc[d] = "running" => Admitted(d)
                         /\ Admitted(d) => Fanned(d)
                         /\ pc[d] = "returned" /\ Admitted(d) => Reported(d))'
      BY DEF Handlers
    <2>1. CASE d = c
      <3>1. sub'[c] # <<>>
        BY <1>3
      <3>2. QED
        BY <1>1, <1>7, <2>1, <3>1 DEF Admitted
    <2>2. CASE d # c
      <3>1. sub'[d] = sub[d] /\ \A o \in outcomes : o \in outcomes'
        BY <1>1, <1>3, <2>2
      <3>2. /\ Handlers /\ pc'[d] = pc[d] /\ env' = env /\ sub'[d] = sub[d]
            /\ results'[d] = results[d] /\ answer'[d] = answer[d] /\ outcomes \subseteq outcomes'
        BY <1>1, <3>1 DEF IInv
      <3>3. QED
        BY <3>2, OthersStay
    <2>3. QED
      BY <2>1, <2>2
  <1>10. Typed'
    BY <1>1, <1>3 DEF IInv, Typed, processVars, streamVars
  <1>11. Phases' /\ StatsVouchForTheStream'
    BY <1>1, HandlersMoveBeforeTheStats DEF processVars, streamVars
  <1>12. AdmitsWhatItsRunBuilds'
    <2>1. \A d \in Calls : sub'[d] = <<>> <=> sub[d] = <<>>
      BY <1>3
    <2>2. QED
      BY <1>1, <2>1 DEF IInv, AdmitsWhatItsRunBuilds, Admitted, Expectation, processVars
  <1>13. Accounts'
    <2>1. Answered' = Answered
      BY <1>1, <1>3, AnsweredStays
    <2>2. QED
      BY <1>1, <2>1 DEF IInv, Accounts, record, processVars, streamVars
  <1>14. QED
    BY <1>8, <1>9, <1>10, <1>11, <1>12, <1>13 DEF IInv

\* A goroutine puts what its own submission came to into its own slot, whatever the
\* others put into theirs meanwhile.
LEMMA StoresKeeps ==
  ASSUME NEW c \in Calls, NEW i \in DOMAIN sub[c]
  PROVE  IInv /\ Stores(c, i) => IInv'
  <1> SUFFICES ASSUME IInv, Stores(c, i) PROVE IInv'
    OBVIOUS
  <1>1. /\ phase # "exited" /\ pc[c] = "running" /\ sub[c][i].state = "returned"
        /\ results' = [results EXCEPT ![c][i] = MemberResult(sub[c][i].member, sub[c][i].out)]
        /\ sub' = [sub EXCEPT ![c][i].state = "done"]
        /\ UNCHANGED <<processVars, streamVars, pc, env, ctx, answer, outcomes>>
    BY DEF Stores, Own, Alive
  <1>2. Admitted(c) /\ Fanned(c)
    BY <1>1 DEF IInv, Handlers
  <1>3. /\ DOMAIN sub' = Calls /\ DOMAIN results' = Calls
        /\ \A d \in Calls : d # c => sub'[d] = sub[d] /\ results'[d] = results[d]
        /\ DOMAIN sub'[c] = DOMAIN sub[c] /\ DOMAIN results'[c] = DOMAIN results[c]
        /\ \A j \in DOMAIN sub[c] : j # i => sub'[c][j] = sub[c][j] /\ results'[c][j] = results[c][j]
    BY <1>1 DEF IInv, Typed
  <1>4. /\ sub'[c][i] = [member |-> sub[c][i].member, state |-> "done", out |-> sub[c][i].out]
        /\ results'[c][i] = MemberResult(sub[c][i].member, sub[c][i].out)
    <2>1. /\ sub[c][i] = [member |-> sub[c][i].member, state |-> sub[c][i].state, out |-> sub[c][i].out]
          /\ i \in DOMAIN results[c]
      BY <1>2 DEF Fanned, IsSubmission
    <2>2. QED
      BY <1>1, <2>1 DEF IInv, Typed
  <1>5. \A d \in Calls : \A j \in DOMAIN sub[d] :
          /\ Outcome(d, j)' = Outcome(d, j)
          /\ sub[d][j].state # "submitting" => sub'[d][j].state # "submitting"
    <2> SUFFICES ASSUME NEW d \in Calls, NEW j \in DOMAIN sub[d]
                 PROVE  /\ Outcome(d, j)' = Outcome(d, j)
                        /\ sub[d][j].state # "submitting" => sub'[d][j].state # "submitting"
      OBVIOUS
    <2>1. CASE d = c /\ j = i
      BY <1>4, <2>1 DEF Outcome
    <2>2. CASE ~(d = c /\ j = i)
      <3>1. sub'[d][j] = sub[d][j]
        BY <1>3, <2>2
      <3>2. QED
        BY <3>1 DEF Outcome
    <2>3. QED
      BY <2>1, <2>2
  <1>6. Fanned(c)'
    <2>1. ASSUME NEW j \in DOMAIN sub[c]
          PROVE  IsSubmission(sub'[c][j]) /\ sub'[c][j].member = MemberOf(env[c].requests[j])
      <3>1. IsSubmission(sub[c][j]) /\ sub[c][j].member = MemberOf(env[c].requests[j])
        BY <1>2 DEF Fanned
      <3>2. CASE j = i
        BY <1>1, <1>4, <3>1, <3>2 DEF IsSubmission
      <3>3. CASE j # i
        BY <1>3, <3>1, <3>3
      <3>4. QED
        BY <3>2, <3>3
    <2>2. ASSUME NEW j \in DOMAIN sub[c] PROVE Kept(c, j)'
      <3>1. Kept(c, j) /\ Outcome(c, j)' = Outcome(c, j)
        BY <1>2, <1>5 DEF Fanned
      <3>2. CASE j = i
        BY <1>1, <1>4, <3>1, <3>2 DEF Kept
      <3>3. CASE j # i
        <4>1. sub'[c][j] = sub[c][j] /\ results'[c][j] = results[c][j]
          BY <1>3, <3>3
        <4>2. QED
          BY <1>1, <3>1, <4>1 DEF Kept
      <3>4. QED
        BY <3>2, <3>3
    <2>3. QED
      BY <1>1, <1>2, <1>3, <2>1, <2>2 DEF Fanned
  <1>7. History'
    <2> SUFFICES ASSUME NEW o \in outcomes
                 PROVE  /\ o.call \in Calls
                        /\ \E j \in DOMAIN sub'[o.call] : sub'[o.call][j].state # "submitting" /\ o = Outcome(o.call, j)'
      BY <1>1 DEF History
    <2>1. o.call \in Calls
      BY DEF IInv, History
    <2>2. PICK j \in DOMAIN sub[o.call] : sub[o.call][j].state # "submitting" /\ o = Outcome(o.call, j)
      BY DEF IInv, History
    <2>3. j \in DOMAIN sub'[o.call]
      BY <1>3, <2>1
    <2>4. QED
      BY <1>5, <2>1, <2>2, <2>3
  <1>8. Handlers'
    <2> SUFFICES ASSUME NEW d \in Calls
                 PROVE  (/\ pc[d] = "idle" => sub[d] = <<>>
                         /\ pc[d] = "running" => Admitted(d)
                         /\ Admitted(d) => Fanned(d)
                         /\ pc[d] = "returned" /\ Admitted(d) => Reported(d))'
      BY DEF Handlers
    <2>1. CASE d = c
      <3>1. sub'[c] # <<>>
        BY <1>3
      <3>2. QED
        BY <1>1, <1>6, <2>1, <3>1 DEF Admitted
    <2>2. CASE d # c
      <3>1. sub'[d] = sub[d] /\ results'[d] = results[d]
        BY <1>3, <2>2
      <3>2. /\ Handlers /\ pc'[d] = pc[d] /\ env' = env /\ sub'[d] = sub[d]
            /\ results'[d] = results[d] /\ answer'[d] = answer[d] /\ outcomes \subseteq outcomes'
        BY <1>1, <3>1 DEF IInv
      <3>3. QED
        BY <3>2, OthersStay
    <2>3. QED
      BY <2>1, <2>2
  <1>9. Typed'
    BY <1>1, <1>3 DEF IInv, Typed, processVars, streamVars
  <1>10. Phases' /\ StatsVouchForTheStream'
    BY <1>1, HandlersMoveBeforeTheStats DEF processVars, streamVars
  <1>11. AdmitsWhatItsRunBuilds'
    <2>1. \A d \in Calls : sub'[d] = <<>> <=> sub[d] = <<>>
      BY <1>3
    <2>2. QED
      BY <1>1, <2>1 DEF IInv, AdmitsWhatItsRunBuilds, Admitted, Expectation, processVars
  <1>12. Accounts'
    <2>1. Answered' = Answered
      BY <1>1, <1>3, AnsweredStays
    <2>2. \A r \in stream : r.call \in Calls /\ r.call # c
      BY <1>1 DEF IInv, Accounts
    <2>3. \A r \in stream : results'[r.call] = results[r.call]
      BY <1>3, <2>2
    <2>4. QED
      BY <1>1, <2>1, <2>3 DEF IInv, Accounts, record, processVars, streamVars
  <1>13. QED
    BY <1>7, <1>8, <1>9, <1>10, <1>11, <1>12 DEF IInv

\* A payload is found by the identity of its member, whose envelope has it once.
LEMMA PayloadByIdentity ==
  ASSUME NEW e, Distinct(e.requests), NEW i \in DOMAIN e.requests
  PROVE  payloadBytesByMember(e, MemberOf(e.requests[i])) = e.requests[i].payload
  <1> DEFINE m == MemberOf(e.requests[i])
  <1>1. e.requests[i] \in Range(e.requests)
    BY DEF Range
  <1>2. \A q \in Range(e.requests) : MemberOf(q) = m => q = e.requests[i]
    BY DEF Range, Distinct
  <1> HIDE DEF m
  <1>3. (CHOOSE q \in Range(e.requests) : MemberOf(q) = m) = e.requests[i]
    BY <1>1, <1>2 DEF m
  <1>4. QED
    BY <1>3 DEF payloadBytesByMember, m

\* A slot names the member it was filled for.
LEMMA NamesItsMember == \A m, out : MemberResult(m, out).member = m
  BY DEF MemberResult

\* The records of a call that returns are as many as its members: they name
\* different ones.
LEMMA RecordsOfACall ==
  ASSUME NEW c \in Calls, Fanned(c), \A i \in DOMAIN sub[c] : sub[c][i].state = "done"
  PROVE  LET records == UNION {record(c, i) : i \in DOMAIN results[c]}
         IN  /\ IsFiniteSet(records) /\ IsFiniteSet({c} \X DOMAIN sub[c])
             /\ Cardinality(records) = Cardinality({c} \X DOMAIN sub[c])
  <1> DEFINE records == UNION {record(c, i) : i \in DOMAIN results[c]}
             D == DOMAIN sub[c]
             R(i) == [call |-> c, member |-> results[c][i].member, status |-> results[c][i].status,
                      membership |-> results[c][i].membership,
                      logicalBytes |-> payloadBytesByMember(env[c], results[c][i].member),
                      dispatched |-> Len(results[c])]
             f == [p \in {c} \X D |-> R(p[2])]
  <1>1. IsFiniteSet(D)
    <2>1. env[c].requests \in Seq(Wire) /\ D = DOMAIN env[c].requests
      BY DEF Fanned, IsEnvelope
    <2>2. D = 1 .. Len(env[c].requests) /\ Len(env[c].requests) \in Nat
      BY <2>1
    <2>3. QED
      BY <2>2, FS_Interval
  <1>2. IsFiniteSet({c} \X D)
    BY <1>1, FS_Product, FS_Singleton
  <1>3. \A i \in D : record(c, i) = {R(i)}
    BY DEF record
  <1>4. \A i, j \in D : R(i) = R(j) => i = j
    <2> SUFFICES ASSUME NEW i \in D, NEW j \in D, R(i) = R(j), i # j PROVE FALSE
      OBVIOUS
    <2>1. R(i).member = R(j).member
      OBVIOUS
    <2>2. results[c][i].member = results[c][j].member
      BY <2>1
    <2>m. results[c][i].member = MemberOf(env[c].requests[i]) /\ results[c][j].member = MemberOf(env[c].requests[j])
      <3>1. \A k \in D : Kept(c, k) /\ sub[c][k].state = "done" /\ sub[c][k].member = MemberOf(env[c].requests[k])
        BY DEF Fanned
      <3>2. \A k \in D : results[c][k].member = sub[c][k].member
        BY <3>1, NamesItsMember DEF Kept
      <3>3. QED
        BY <3>1, <3>2
    <2>3. QED
      BY <2>2, <2>m DEF Fanned, Distinct
  <1> HIDE DEF R, D
  <1>5. records = {R(i) : i \in D}
    BY <1>3 DEF D, Fanned
  <1> HIDE DEF records
  <1>6. f \in Bijection({c} \X D, records)
    <2>1. f \in [{c} \X D -> records]
      BY <1>5
    <2>2. \A p, q \in {c} \X D : f[p] = f[q] => p = q
      BY <1>4
    <2>3. \A r \in records : \E p \in {c} \X D : f[p] = r
      <3> SUFFICES ASSUME NEW r \in records PROVE \E p \in {c} \X D : f[p] = r
        OBVIOUS
      <3>1. PICK i \in D : r = R(i)
        BY <1>5
      <3>2. <<c, i>> \in {c} \X D /\ f[<<c, i>>] = r
        BY <3>1
      <3>3. QED
        BY <3>2
    <2> HIDE DEF f
    <2>4. QED
      BY <2>1, <2>2, <2>3 DEF Bijection, Injection, Surjection, IsInjective
  <1>7. IsFiniteSet(records) /\ Cardinality(records) = Cardinality({c} \X D)
    BY <1>2, <1>6, FS_Bijection DEF ExistsBijection
  <1>8. QED
    BY <1>2, <1>7 DEF records, D

\* The call returns: its records are taken or dropped, all of them.
LEMMA ReturnsKeeps == ASSUME NEW c \in Calls PROVE IInv /\ ExecuteReturns(c) => IInv'
  <1> SUFFICES ASSUME IInv, ExecuteReturns(c) PROVE IInv'
    OBVIOUS
  <1> USE DEF processVars
  <1> DEFINE records == UNION {record(c, i) : i \in DOMAIN results[c]}
             own == {c} \X DOMAIN sub[c]
  <1>1. /\ phase # "exited" /\ pc[c] = "running" /\ pc' = [pc EXCEPT ![c] = "returned"]
        /\ \A i \in DOMAIN sub[c] : sub[c][i].state = "done"
        /\ answer' = [answer EXCEPT ![c] = [i \in DOMAIN results[c] |-> logicalResult(results[c][i])]]
        /\ UNCHANGED <<processVars, env, sub, results, outcomes>>
    BY DEF ExecuteReturns, Alive
  <1>2. PICK taken \in SUBSET records :
          stream' = stream \cup taken /\ dropped' = dropped + Cardinality(records \ taken)
    BY DEF ExecuteReturns
  <1>3. Admitted(c) /\ Fanned(c)
    BY <1>1 DEF IInv, Handlers
  <1>4. /\ IsFiniteSet(records) /\ IsFiniteSet(own)
        /\ Cardinality(records) = Cardinality(own)
    BY <1>1, <1>3, RecordsOfACall
  <1>5. \A r \in records : r.call = c /\ \E i \in DOMAIN results[c] : r \in record(c, i)
    BY DEF record
  <1> HIDE DEF records
  <1>6. /\ IsFiniteSet(taken) /\ Cardinality(taken) \in Nat
        /\ Cardinality(records \ taken) = Cardinality(records) - Cardinality(taken)
        /\ Cardinality(records) \in Nat /\ Cardinality(records \ taken) \in Nat
    <2>1. IsFiniteSet(taken) /\ records \cap taken = taken
      BY <1>4, FS_Subset
    <2>2. /\ IsFiniteSet(records \ taken)
          /\ Cardinality(records \ taken) = Cardinality(records) - Cardinality(records \cap taken)
      BY <1>4, FS_Difference
    <2>3. QED
      BY <1>4, <2>1, <2>2, FS_CardinalityType
  <1>7. /\ IsFiniteSet(stream') /\ Cardinality(stream) \in Nat
        /\ Cardinality(stream') = Cardinality(stream) + Cardinality(taken)
    <2>1. stream \cap taken = {}
      BY <1>1, <1>5 DEF IInv, Accounts
    <2>2. IsFiniteSet(stream)
      BY DEF IInv, Typed
    <2>3. Cardinality(stream \cap taken) = 0
      BY <2>1, FS_EmptySet
    <2>4. /\ IsFiniteSet(stream \cup taken)
          /\ Cardinality(stream \cup taken)
               = Cardinality(stream) + Cardinality(taken) - Cardinality(stream \cap taken)
      BY <1>6, <2>2, FS_Union
    <2>5. Cardinality(stream) \in Nat
      BY <2>2, FS_CardinalityType
    <2>6. QED
      BY <1>2, <1>6, <2>3, <2>4, <2>5
  <1>8. /\ IsFiniteSet(Answered')
        /\ Cardinality(Answered') = Cardinality(Answered) + Cardinality(own)
    <2>1. Answered' = Answered \cup own /\ Answered \cap own = {}
      BY <1>1 DEF IInv, Typed, Answered
    <2>2. IsFiniteSet(Answered) /\ Cardinality(Answered \cap own) = 0
      BY <2>1, FS_EmptySet DEF IInv, Accounts
    <2> HIDE DEF own
    <2>3. /\ IsFiniteSet(Answered \cup own)
          /\ Cardinality(Answered \cup own)
               = Cardinality(Answered) + Cardinality(own) - Cardinality(Answered \cap own)
      BY <1>4, <2>2, FS_Union
    <2>4. Cardinality(Answered) \in Nat /\ Cardinality(own) \in Nat
      BY <1>4, <2>2, FS_CardinalityType
    <2>5. QED
      BY <2>1, <2>2, <2>3, <2>4
  <1>9. Typed'
    BY <1>1, <1>2, <1>6, <1>7 DEF IInv, Typed
  <1>10. Phases' /\ StatsVouchForTheStream'
    BY <1>1, HandlersMoveBeforeTheStats DEF IInv, Typed
  <1>11. Handlers'
    <2> SUFFICES ASSUME NEW d \in Calls
                 PROVE  (/\ pc[d] = "idle" => sub[d] = <<>>
                         /\ pc[d] = "running" => Admitted(d)
                         /\ Admitted(d) => Fanned(d)
                         /\ pc[d] = "returned" /\ Admitted(d) => Reported(d))'
      BY DEF Handlers
    <2>1. pc'[d] = (IF d = c THEN "returned" ELSE pc[d]) /\ (d # c => answer'[d] = answer[d])
          /\ answer'[c] = [i \in DOMAIN results[c] |-> logicalResult(results[c][i])]
      BY <1>1 DEF IInv, Typed
    <2>2. CASE d = c
      <3>1. Fanned(c)'
        BY <1>1, <1>3 DEF Fanned, Kept, Outcome
      <3>2. Reported(c)'
        BY <1>1, <2>1 DEF Reported
      <3>3. QED
        BY <1>1, <1>3, <2>1, <2>2, <3>1, <3>2 DEF Admitted
    <2>3. CASE d # c
      <3>1. /\ Handlers /\ pc'[d] = pc[d] /\ env' = env /\ sub'[d] = sub[d]
            /\ results'[d] = results[d] /\ answer'[d] = answer[d] /\ outcomes \subseteq outcomes'
        BY <1>1, <2>1, <2>3 DEF IInv
      <3>2. QED
        BY <3>1, OthersStay
    <2>4. QED
      BY <2>2, <2>3
  <1>h. History'
    BY <1>1 DEF IInv, History, Outcome
  <1>12. AdmitsWhatItsRunBuilds'
    <2>1. Expectation' = Expectation
      BY <1>1 DEF Expectation
    <2>2. QED
      BY <1>1, <2>1 DEF IInv, Typed, AdmitsWhatItsRunBuilds, Admitted
  <1>13. Accounts'
    <2>1. Cardinality(stream') + dropped' = Cardinality(Answered')
      BY <1>2, <1>4, <1>6, <1>7, <1>8 DEF IInv, Typed, Accounts
    <2>2. ASSUME NEW r \in stream'
          PROVE  /\ r.call \in Calls /\ pc'[r.call] = "returned"
                 /\ \E i \in DOMAIN results'[r.call] : r \in record(r.call, i)'
      <3>1. CASE r \in stream
        BY <1>1, <3>1 DEF IInv, Typed, Accounts, record
      <3>2. CASE r \in taken
        BY <1>1, <1>5, <3>2 DEF IInv, Typed, record
      <3>3. QED
        BY <1>2, <3>1, <3>2
    <2>3. QED
      BY <1>8, <2>1, <2>2 DEF Accounts
  <1>14. QED
    BY <1>9, <1>10, <1>11, <1>h, <1>12, <1>13 DEF IInv

\* A caller that hangs up changes nothing the invariant speaks of.
LEMMA ContextEndsKeeps == ASSUME NEW c \in Calls PROVE IInv /\ ContextEnds(c) => IInv'
  <1> SUFFICES ASSUME IInv, ContextEnds(c) PROVE IInv'
    OBVIOUS
  <1>1. phase # "exited" /\ UNCHANGED <<processVars, streamVars, pc, env, sub, results, answer, outcomes>>
    BY DEF ContextEnds, Alive
  <1> USE DEF processVars, streamVars
  <1>2. Typed' /\ Phases' /\ StatsVouchForTheStream'
    BY <1>1, HandlersMoveBeforeTheStats DEF IInv, Typed
  <1>3. Handlers' /\ History'
    BY <1>1 DEF IInv, Handlers, Admitted, Fanned, Kept, Outcome, Reported, History
  <1>4. AdmitsWhatItsRunBuilds'
    BY <1>1 DEF IInv, AdmitsWhatItsRunBuilds, Admitted, Expectation
  <1>5. Accounts'
    BY <1>1 DEF IInv, Accounts, Answered, record
  <1>6. QED
    BY <1>2, <1>3, <1>4, <1>5 DEF IInv

\* Every step of a handler and of what it waits for.
LEMMA ExecuteKeeps == ASSUME NEW c \in Calls PROVE IInv /\ Execute(c) => IInv'
  <1> SUFFICES ASSUME IInv, Execute(c) PROVE IInv'
    OBVIOUS
  <1>1. ASSUME NEW i \in DOMAIN sub[c], SubmitCancelled(c, i) \/ SubmitReturns(c, i) \/ SubmitFails(c, i)
        PROVE  IInv'
    <2>1. \E out : IsOutcome(out) /\ Returns(c, i, out)
      <3>1. IsOutcome(Failed) /\ \A membership : IsOutcome(Attests(membership))
        BY DEF IsOutcome, Failed, Attests
      <3>2. QED
        BY <1>1, <3>1 DEF SubmitCancelled, SubmitReturns, SubmitFails
    <2>2. QED
      BY <2>1, SubmissionKeeps
  <1>2. QED
    BY <1>1, StoresKeeps, RefusesKeeps, FansOutKeeps, ReturnsKeeps, ContextEndsKeeps DEF Execute, Handler

-----------------------------------------------------------------------------

\* The invariant is inductive.
THEOREM Invariant == Spec => []IInv
  <1>1. IInv /\ [Next]_vars => IInv'
    <2> SUFFICES ASSUME IInv, [Next]_vars PROVE IInv'
      OBVIOUS
    <2>1. CASE Next
      BY <2>1, ProcessKeeps, ExecuteKeeps DEF Next
    <2>2. CASE UNCHANGED vars
      <3>1. UNCHANGED <<cell, clock, phase, signalled, exit, disk, stream, dropped, pc, env, ctx,
                        sub, results, answer, outcomes>>
        BY <2>2 DEF vars, processVars, streamVars, callVars
      <3>2. (Typed /\ Phases /\ StatsVouchForTheStream)'
        BY <3>1 DEF IInv, Typed, Phases, StatsVouchForTheStream
      <3>3. QED
        BY <3>1, <3>2, CallsUntouched DEF IInv, streamVars, callVars
    <2>3. QED
      BY <2>1, <2>2
  <1>2. QED
    BY InitHolds, <1>1, PTL DEF Spec

\* What the executor is handed is what a builder of this run would have built
\* from non-empty payloads, and all of that: Builder and Validate agree, for
\* every B and every cell (envelope.Validate, Aggregate, Independent).
THEOREM BuilderAndValidatorAgree == Spec => []AdmitsWhatItsRunBuilds
  BY Invariant, PTL DEF IInv

\* A stats file of this process vouches for a closed and complete stream: it is
\* written after the last handler returned (cmd/adapter: Serve, Close, WriteStats).
THEOREM StatsCanBeTrusted == Spec => []StatsVouchForTheStream
  BY Invariant, PTL DEF IInv

\* An answered envelope reports its members in its order, each with what the one
\* submission of that very member came to; records say the same, of the member's own
\* payload, and a member without one is counted as dropped (executor.Result,
\* Service.record, logicalResult, payloadBytesByMember).
THEOREM NoMemberGoesMissing == Spec => []EveryMemberIsAccounted
  <1>1. IInv => EveryMemberIsAccounted
    <2> SUFFICES ASSUME IInv PROVE EveryMemberIsAccounted
      OBVIOUS
    <2>1. ASSUME NEW c \in Calls, pc[c] = "returned", Admitted(c)
          PROVE  /\ Len(answer[c]) = Len(env[c].requests)
                 /\ \A i \in DOMAIN env[c].requests :
                      /\ answer[c][i].member = MemberOf(env[c].requests[i])
                      /\ CameTo(c, MemberOf(env[c].requests[i])) =
                           {[status |-> answer[c][i].status, membership |-> answer[c][i].membership]}
                 /\ \A r \in stream : r.call = c =>
                      \E i \in DOMAIN answer[c] :
                        /\ answer[c][i] = [member |-> r.member, status |-> r.status, membership |-> r.membership]
                        /\ r.logicalBytes = env[c].requests[i].payload
      <3> DEFINE n == Len(env[c].requests)
      <3>1. Fanned(c) /\ Reported(c)
        BY <2>1 DEF IInv, Handlers
      <3>2. /\ n \in Nat /\ DOMAIN env[c].requests = 1 .. n /\ DOMAIN sub[c] = 1 .. n
            /\ DOMAIN results[c] = 1 .. n
        <4>1. env[c].requests \in Seq(Wire) /\ DOMAIN sub[c] = DOMAIN env[c].requests
              /\ DOMAIN results[c] = DOMAIN env[c].requests
          BY <3>1 DEF Fanned, IsEnvelope
        <4>2. QED
          BY <4>1
      <3> HIDE DEF n
      <3>3. answer[c] = [i \in 1 .. n |-> logicalResult(results[c][i])]
        BY <3>1, <3>2 DEF Reported
      <3>4. Len(answer[c]) = n /\ DOMAIN answer[c] = 1 .. n
        BY <3>2, <3>3
      <3>5. ASSUME NEW i \in 1 .. n
            PROVE  /\ results[c][i] = MemberResult(MemberOf(env[c].requests[i]), sub[c][i].out)
                   /\ answer[c][i] = results[c][i]
                   /\ [call |-> c, member |-> MemberOf(env[c].requests[i]), out |-> sub[c][i].out] \in outcomes
        <4>1. sub[c][i].state = "done" /\ sub[c][i].member = MemberOf(env[c].requests[i]) /\ Kept(c, i)
          BY <3>1, <3>2 DEF Fanned, Reported
        <4>2. results[c][i] = MemberResult(MemberOf(env[c].requests[i]), sub[c][i].out)
          BY <4>1 DEF Kept
        <4>3. answer[c][i] = results[c][i]
          BY <3>3, <4>2 DEF logicalResult, MemberResult
        <4>4. QED
          BY <4>1, <4>2, <4>3 DEF Kept, Outcome
      <3>6. ASSUME NEW i \in 1 .. n
            PROVE  CameTo(c, MemberOf(env[c].requests[i])) = {sub[c][i].out}
        <4>1. ASSUME NEW o \in outcomes, o.call = c, o.member = MemberOf(env[c].requests[i])
              PROVE  o.out = sub[c][i].out
          <5>1. PICK j \in 1 .. n : o = Outcome(c, j)
            BY <3>2, <4>1 DEF IInv, History
          <5>2. o.member = MemberOf(env[c].requests[j])
            BY <3>1, <3>2, <5>1 DEF Outcome, Fanned
          <5>3. MemberOf(env[c].requests[j]) = MemberOf(env[c].requests[i])
            BY <4>1, <5>2
          <5>4. Distinct(env[c].requests) /\ i \in DOMAIN env[c].requests /\ j \in DOMAIN env[c].requests
            BY <3>1, <3>2 DEF Fanned
          <5>5. j = i
            BY <5>3, <5>4 DEF Distinct
          <5>6. QED
            BY <5>1, <5>5 DEF Outcome
        <4>2. QED
          BY <3>5, <4>1 DEF CameTo
      <3>7. ASSUME NEW i \in 1 .. n
            PROVE  /\ answer[c][i].member = MemberOf(env[c].requests[i])
                   /\ CameTo(c, MemberOf(env[c].requests[i])) =
                        {[status |-> answer[c][i].status, membership |-> answer[c][i].membership]}
        <4>1. sub[c][i].out = [status |-> sub[c][i].out.status, membership |-> sub[c][i].out.membership]
          BY <3>1, <3>2 DEF Fanned, IsSubmission, IsOutcome, Reported
        <4>2. answer[c][i] = MemberResult(MemberOf(env[c].requests[i]), sub[c][i].out)
          BY <3>5
        <4>3. /\ answer[c][i].member = MemberOf(env[c].requests[i])
              /\ answer[c][i].status = sub[c][i].out.status
              /\ answer[c][i].membership = sub[c][i].out.membership
          BY <4>2 DEF MemberResult
        <4>4. CameTo(c, MemberOf(env[c].requests[i])) = {sub[c][i].out}
          BY <3>6
        <4>5. QED
          BY <4>1, <4>3, <4>4
      <3>8. ASSUME NEW r \in stream, r.call = c
            PROVE  \E i \in 1 .. n :
                     /\ answer[c][i] = [member |-> r.member, status |-> r.status, membership |-> r.membership]
                     /\ r.logicalBytes = env[c].requests[i].payload
        <4>1. PICK i \in 1 .. n : r \in record(c, i)
          BY <3>2, <3>8 DEF IInv, Accounts
        <4>2. /\ r.member = results[c][i].member /\ r.status = results[c][i].status
              /\ r.membership = results[c][i].membership
              /\ r.logicalBytes = payloadBytesByMember(env[c], results[c][i].member)
          BY <4>1 DEF record
        <4>3. payloadBytesByMember(env[c], MemberOf(env[c].requests[i])) = env[c].requests[i].payload
          BY <3>1, <3>2, PayloadByIdentity DEF Fanned
        <4>4. answer[c][i] = [member |-> r.member, status |-> r.status, membership |-> r.membership]
          BY <3>5, <4>2 DEF MemberResult
        <4>5. results[c][i].member = MemberOf(env[c].requests[i])
          BY <3>5, NamesItsMember
        <4>6. QED
          BY <4>2, <4>3, <4>4, <4>5
      <3>9. QED
        BY <3>2, <3>4, <3>7, <3>8 DEF n
    <2>2. QED
      BY <2>1 DEF IInv, Accounts, EveryMemberIsAccounted
  <1>2. QED
    BY <1>1, Invariant, PTL

=============================================================================
