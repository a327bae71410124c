-------------------------- MODULE EventWriterProofs --------------------------
(***************************************************************************)
(* EventWriter's safety properties, for any number of Record calls and any *)
(* number and size of banks.                                               *)
(*                                                                         *)
(* The banks are tokens: Hands counts them, Distinct says that no two      *)
(* hands hold the same one, Reset that a free one is empty.  From these    *)
(* follows what a step does to Stream, and from that the counters.         *)
(***************************************************************************)
EXTENDS EventWriter, WellFoundedInduction, SequenceTheorems, FiniteSetTheorems, TLAPS

-----------------------------------------------------------------------------
(* What is needed of sequences: the laws of FlattenSeq, which joins the    *)
(* banks' bytes into one stream, and of the concatenation it is made of.   *)
(* FlattenSeq is defined by recursion, so that its function exists is      *)
(* itself proved, by a least counterexample.                               *)

\* A nonempty set of naturals has a least member.  Induction over data in these
\* proofs takes this form: the least counterexample has a predecessor that is
\* none.
LEMMA LeastNatural ==
  ASSUME NEW T \in SUBSET Nat, T # {}
  PROVE  \E n \in T : \A m \in T : n <= m
<1> DEFINE Below == {p \in Nat \X Nat : p[1] < p[2]}
<1>1. IsWellFoundedOn(Below, Nat)
  BY NatLessThanWellFounded DEF OpToRel
<1> HIDE DEF Below
<1>2. PICK n \in T : \A m \in T : <<m, n>> \notin Below
  BY <1>1, WFMin
<1>3. \A m \in T : m < n => <<m, n>> \in Below
  BY DEF Below
<1>4. \A m \in T : ~(m < n)
  BY <1>2, <1>3
<1>5. \A m \in T : n <= m
  BY <1>4
<1> QED
  BY <1>5

\* Concatenation, as an operator the provers do not open: what is needed of it
\* are the laws below, not its indices.
Joined(s, t) == s \o t

\* Concatenating two of the writer's byte runs gives one.
LEMMA JoinedType ==
  ASSUME NEW S, NEW s \in Seq(S), NEW t \in Seq(S)
  PROVE  Joined(s, t) \in Seq(S)
BY ConcatProperties DEF Joined

\* An empty bank adds nothing on either side.
LEMMA JoinedEmpty ==
  ASSUME NEW S, NEW s \in Seq(S)
  PROVE  Joined(<<>>, s) = s /\ Joined(s, <<>>) = s
BY ConcatEmptySeq DEF Joined

\* It does not matter which neighbours are joined first.
LEMMA JoinedAssociative ==
  ASSUME NEW S, NEW s \in Seq(S), NEW t \in Seq(S), NEW u \in Seq(S)
  PROVE  Joined(s, Joined(t, u)) = Joined(Joined(s, t), u)
BY ConcatAssociative DEF Joined

\* f[i] is the concatenation of the first i members of ss: the recursive
\* function FlattenSeq chooses.
IsFlat(ss, f) ==
  f = [i \in 1 .. Len(ss) |-> IF i = 1 THEN ss[i] ELSE Joined(f[i - 1], ss[i])]

\* FlattenSeq of a nonempty sequence is the last value of such a function.
LEMMA FlattenIs ==
  ASSUME NEW ss, Len(ss) # 0
  PROVE  FlattenSeq(ss) = (CHOOSE f : IsFlat(ss, f))[Len(ss)]
BY DEF FlattenSeq, IsFlat, Joined

\* There is at most one such function: the least index where two differ is not
\* the first, and they agree before it.
LEMMA FlatUnique ==
  ASSUME NEW ss, Len(ss) \in Nat, NEW f, NEW g, IsFlat(ss, f), IsFlat(ss, g)
  PROVE  \A i \in 1 .. Len(ss) : f[i] = g[i]
<1> DEFINE Bad == {i \in 1 .. Len(ss) : f[i] # g[i]}
<1> SUFFICES ASSUME Bad # {} PROVE FALSE
  OBVIOUS
<1>1. PICK i \in Bad : \A j \in Bad : i <= j
  <2>1. Bad \in SUBSET Nat
    OBVIOUS
  <2> QED
    BY <2>1, LeastNatural
<1>2. \A j \in 1 .. Len(ss) :
        /\ f[j] = IF j = 1 THEN ss[j] ELSE Joined(f[j - 1], ss[j])
        /\ g[j] = IF j = 1 THEN ss[j] ELSE Joined(g[j - 1], ss[j])
  BY DEF IsFlat
<1>3. CASE i = 1
  BY <1>2, <1>3
<1>4. CASE i # 1
  <2>1. i - 1 \in 1 .. Len(ss) /\ i - 1 \notin Bad
    BY <1>1, <1>4
  <2> QED
    BY <1>2, <1>4, <2>1
<1> QED
  BY <1>3, <1>4

\* There is such a function: a shortest sequence without one has a front that
\* has one, and it extends by one value.
LEMMA FlatExists ==
  ASSUME NEW S
  PROVE  \A ss \in Seq(Seq(S)) :
           \E f \in [1 .. Len(ss) -> Seq(S)] : IsFlat(ss, f)
<1> DEFINE Bad == {n \in Nat : \E ss \in Seq(Seq(S)) :
                     Len(ss) = n /\ \A f \in [1 .. n -> Seq(S)] : ~IsFlat(ss, f)}
<1> SUFFICES ASSUME Bad # {} PROVE FALSE
  OBVIOUS
<1>1. PICK n \in Bad : \A m \in Bad : n <= m
  BY LeastNatural
<1>2. PICK ss \in Seq(Seq(S)) :
        Len(ss) = n /\ \A f \in [1 .. n -> Seq(S)] : ~IsFlat(ss, f)
  OBVIOUS
<1>3. CASE n = 0
  <2> DEFINE e == [i \in 1 .. 0 |-> <<>>]
  <2>1. e \in [1 .. n -> Seq(S)]
    BY <1>3
  <2>2. IsFlat(ss, e)
    BY <1>2, <1>3 DEF IsFlat
  <2> QED
    BY <1>2, <2>1, <2>2
<1>4. CASE n # 0
  <2> DEFINE front == SubSeq(ss, 1, n - 1)
  <2>1. /\ front \in Seq(Seq(S)) /\ Len(front) = n - 1
        /\ \A i \in 1 .. n - 1 : front[i] = ss[i]
    BY <1>2, <1>4, SubSeqProperties
  <2>2. PICK f \in [1 .. n - 1 -> Seq(S)] : IsFlat(front, f)
    <3>1. n - 1 \in Nat /\ n - 1 \notin Bad
      BY <1>1, <1>4
    <3>2. ~\A f \in [1 .. n - 1 -> Seq(S)] : ~IsFlat(front, f)
      BY <2>1, <3>1
    <3> QED
      BY <3>2
  <2>3. \A i \in 1 .. n - 1 : f[i] = IF i = 1 THEN ss[i] ELSE Joined(f[i - 1], ss[i])
    BY <2>1, <2>2 DEF IsFlat
  <2>4. \A i \in 1 .. n : ss[i] \in Seq(S)
    BY <1>2
  <2> DEFINE g == [i \in 1 .. n |-> IF i <= n - 1 THEN f[i]
                                    ELSE IF i = 1 THEN ss[i] ELSE Joined(f[i - 1], ss[i])]
  <2>5. g \in [1 .. n -> Seq(S)]
    BY <2>4, <1>4, JoinedType
  <2>6. \A i \in 1 .. n : g[i] = IF i = 1 THEN ss[i] ELSE Joined(g[i - 1], ss[i])
    <3> SUFFICES ASSUME NEW i \in 1 .. n
                 PROVE  g[i] = IF i = 1 THEN ss[i] ELSE Joined(g[i - 1], ss[i])
      OBVIOUS
    <3>1. CASE i = 1
      BY <3>1, <2>3, <1>4
    <3>2. CASE i # 1
      <4>1. i - 1 \in 1 .. n /\ i - 1 <= n - 1
        BY <3>2, <1>4
      <4>2. g[i - 1] = f[i - 1]
        BY <4>1
      <4>3. g[i] = Joined(f[i - 1], ss[i])
        BY <2>3, <3>2
      <4> QED
        BY <3>2, <4>2, <4>3
    <3> QED
      BY <3>1, <3>2
  <2>7. IsFlat(ss, g)
    BY <2>6, <1>2 DEF IsFlat
  <2> QED
    BY <2>5, <2>7, <1>2
<1> QED
  BY <1>3, <1>4

\* Any such function will do to compute FlattenSeq.
LEMMA FlattenBy ==
  ASSUME NEW S, NEW ss \in Seq(Seq(S)), Len(ss) # 0, NEW f, IsFlat(ss, f)
  PROVE  FlattenSeq(ss) = f[Len(ss)]
<1>1. IsFlat(ss, CHOOSE h : IsFlat(ss, h))
  OBVIOUS
<1>2. Len(ss) \in Nat /\ Len(ss) \in 1 .. Len(ss)
  OBVIOUS
<1> QED
  BY <1>1, <1>2, FlattenIs, FlatUnique

\* Flattening the banks' bytes gives a stream of records.
LEMMA FlattenType ==
  ASSUME NEW S, NEW ss \in Seq(Seq(S))
  PROVE  FlattenSeq(ss) \in Seq(S)
<1>1. CASE Len(ss) = 0
  BY <1>1 DEF FlattenSeq
<1>2. CASE Len(ss) # 0
  <2>1. PICK f \in [1 .. Len(ss) -> Seq(S)] : IsFlat(ss, f)
    BY FlatExists
  <2>2. Len(ss) \in 1 .. Len(ss)
    BY <1>2
  <2> QED
    BY <1>2, <2>1, <2>2, FlattenBy
<1> QED
  BY <1>1, <1>2

\* One bank more at the end of the channel is its bytes at the end of the
\* stream (rotateLocked's send, Close's send).
LEMMA FlattenAppend ==
  ASSUME NEW S, NEW ss \in Seq(Seq(S)), NEW s \in Seq(S)
  PROVE  FlattenSeq(Append(ss, s)) = Joined(FlattenSeq(ss), s)
<1> DEFINE tt == Append(ss, s)
           n  == Len(ss)
<1>1. /\ tt \in Seq(Seq(S)) /\ Len(tt) = n + 1 /\ tt[n + 1] = s
      /\ \A i \in 1 .. n : tt[i] = ss[i]
      /\ n \in Nat
  BY AppendProperties
<1>2. PICK f \in [1 .. n + 1 -> Seq(S)] : IsFlat(tt, f)
  BY <1>1, FlatExists
<1>3. \A i \in 1 .. n + 1 : f[i] = IF i = 1 THEN tt[i] ELSE Joined(f[i - 1], tt[i])
  BY <1>1, <1>2 DEF IsFlat
<1> HIDE DEF tt
<1>4. FlattenSeq(tt) = f[n + 1]
  BY <1>1, <1>2, FlattenBy
<1>5. CASE n = 0
  <2>1. ss = <<>> /\ FlattenSeq(ss) = <<>>
    BY <1>5 DEF FlattenSeq
  <2>2. f[n + 1] = s
    BY <1>1, <1>3, <1>5
  <2> QED
    BY <1>4, <2>1, <2>2, JoinedEmpty DEF tt
<1>6. CASE n # 0
  <2> DEFINE g == [i \in 1 .. n |-> f[i]]
  <2>1. \A i \in 1 .. n : g[i] = IF i = 1 THEN ss[i] ELSE Joined(g[i - 1], ss[i])
    <3> SUFFICES ASSUME NEW i \in 1 .. n
                 PROVE  g[i] = IF i = 1 THEN ss[i] ELSE Joined(g[i - 1], ss[i])
      OBVIOUS
    <3>1. f[i] = IF i = 1 THEN ss[i] ELSE Joined(f[i - 1], ss[i])
      BY <1>1, <1>3
    <3>2. i # 1 => i - 1 \in 1 .. n
      BY <1>1
    <3> QED
      BY <3>1, <3>2
  <2>2. IsFlat(ss, g)
    BY <2>1 DEF IsFlat
  <2>3. FlattenSeq(ss) = g[n]
    BY <2>2, <1>6, FlattenBy
  <2>4. g[n] = f[n] /\ f[n + 1] = Joined(f[n], s)
    <3>1. n \in 1 .. n /\ n + 1 \in 1 .. n + 1 /\ n + 1 # 1 /\ (n + 1) - 1 = n
      BY <1>1, <1>6
    <3>2. f[n + 1] = Joined(f[(n + 1) - 1], tt[n + 1])
      BY <1>3, <3>1
    <3> QED
      BY <1>1, <3>1, <3>2
  <2> QED
    BY <1>4, <2>3, <2>4 DEF tt
<1> QED
  BY <1>5, <1>6

\* The bank at the head of the channel is the start of the stream (flush's
\* range over pending).
LEMMA FlattenHead ==
  ASSUME NEW S, NEW ss \in Seq(Seq(S)), ss # <<>>
  PROVE  FlattenSeq(ss) = Joined(Head(ss), FlattenSeq(Tail(ss)))
<1> DEFINE tt == Tail(ss)
           n  == Len(ss)
<1>1. /\ tt \in Seq(Seq(S)) /\ Len(tt) = n - 1
      /\ \A i \in 1 .. n - 1 : tt[i] = ss[i + 1]
      /\ n \in Nat \ {0}
      /\ Head(ss) = ss[1] /\ ss[1] \in Seq(S)
      /\ \A i \in 1 .. n : ss[i] \in Seq(S)
  BY HeadTailProperties
<1> HIDE DEF tt
<1>2. PICK f \in [1 .. n - 1 -> Seq(S)] : IsFlat(tt, f)
  BY <1>1, FlatExists
<1>3. \A i \in 1 .. n - 1 : f[i] = IF i = 1 THEN ss[i + 1] ELSE Joined(f[i - 1], ss[i + 1])
  BY <1>1, <1>2 DEF IsFlat
<1> DEFINE g == [i \in 1 .. n |-> IF i = 1 THEN ss[1] ELSE Joined(ss[1], f[i - 1])]
<1>4. \A i \in 1 .. n : g[i] = IF i = 1 THEN ss[i] ELSE Joined(g[i - 1], ss[i])
  <2> SUFFICES ASSUME NEW i \in 1 .. n, i # 1
               PROVE  g[i] = Joined(g[i - 1], ss[i])
    BY <1>1
  <2>1. CASE i = 2
    <3>1. 1 \in 1 .. n - 1 /\ 1 \in 1 .. n /\ i - 1 = 1 /\ 1 + 1 = i
      BY <2>1, <1>1
    <3>2. f[1] = ss[i]
      BY <1>3, <3>1
    <3>3. g[i] = Joined(ss[1], f[1]) /\ g[i - 1] = ss[1]
      BY <3>1
    <3> QED
      BY <3>2, <3>3
  <2>2. CASE i > 2
    <3>1. i - 1 \in 1 .. n - 1 /\ i - 2 \in 1 .. n - 1 /\ i - 1 # 1 /\ i - 1 \in 1 .. n
      BY <1>1, <2>2
    <3> DEFINE j == i - 1
    <3>a. j \in 1 .. n - 1 /\ j # 1 /\ j + 1 = i /\ j - 1 = i - 2
      BY <1>1, <3>1
    <3>b. f[j] = Joined(f[j - 1], ss[j + 1])
      BY <1>3, <3>a
    <3>2. f[i - 1] = Joined(f[i - 2], ss[i])
      BY <3>a, <3>b
    <3>3. Joined(ss[1], Joined(f[i - 2], ss[i])) = Joined(Joined(ss[1], f[i - 2]), ss[i])
      <4>1. f[i - 2] \in Seq(S) /\ ss[i] \in Seq(S) /\ ss[1] \in Seq(S)
        BY <1>1, <3>1
      <4> QED
        BY <4>1, JoinedAssociative
    <3>4. g[i] = Joined(ss[1], f[i - 1]) /\ g[i - 1] = Joined(ss[1], f[i - 2])
      BY <3>1, <2>2
    <3> QED
      BY <3>2, <3>3, <3>4
  <2>3. i = 2 \/ i > 2
    BY <1>1
  <2> QED
    BY <2>1, <2>2, <2>3
<1>5. IsFlat(ss, g)
  BY <1>4 DEF IsFlat
<1>6. FlattenSeq(ss) = g[n]
  BY <1>1, <1>5, FlattenBy
<1>7. CASE n = 1
  <2>1. FlattenSeq(tt) = <<>>
    BY <1>1, <1>7 DEF FlattenSeq
  <2> QED
    BY <1>1, <1>6, <1>7, <2>1, JoinedEmpty DEF tt
<1>8. CASE n # 1
  <2>1. FlattenSeq(tt) = f[n - 1]
    <3>1. Len(tt) # 0
      BY <1>1, <1>8
    <3> QED
      BY <1>1, <1>2, <3>1, FlattenBy
  <2> QED
    BY <1>1, <1>6, <1>8, <2>1 DEF tt
<1> QED
  BY <1>7, <1>8

\* A record appended to the last part is appended to the whole.
LEMMA AppendJoined ==
  ASSUME NEW S, NEW s \in Seq(S), NEW t \in Seq(S), NEW e \in S
  PROVE  Append(Joined(s, t), e) = Joined(s, Append(t, e))
<1> DEFINE u == <<e>>
<1>1. Append(Joined(s, t), e) = Joined(Joined(s, t), u)
  BY JoinedType, AppendIsConcat DEF Joined
<1>2. Append(t, e) = Joined(t, u)
  BY AppendIsConcat DEF Joined
<1>3. u \in Seq(S)
  OBVIOUS
<1> HIDE DEF u
<1>4. Joined(s, Joined(t, u)) = Joined(Joined(s, t), u)
  BY <1>3, JoinedAssociative
<1> QED
  BY <1>1, <1>2, <1>4, Zenon

\* A sequence without repetition stays one when a new member is appended.
LEMMA InjectiveAppend ==
  ASSUME NEW S, NEW s \in Seq(S), NEW e \in S, IsInjective(s),
         \A i \in DOMAIN s : s[i] # e
  PROVE  IsInjective(Append(s, e))
<1> DEFINE t == Append(s, e)
<1>1. /\ t \in Seq(S) /\ Len(t) = Len(s) + 1 /\ t[Len(s) + 1] = e
      /\ \A i \in 1 .. Len(s) : t[i] = s[i]
      /\ DOMAIN t = 1 .. Len(s) + 1 /\ DOMAIN s = 1 .. Len(s) /\ Len(s) \in Nat
  BY AppendProperties, LenProperties
<1> HIDE DEF t
<1> SUFFICES ASSUME NEW i \in 1 .. Len(s) + 1, NEW j \in 1 .. Len(s) + 1, t[i] = t[j]
             PROVE  i = j
  BY <1>1 DEF IsInjective, t
<1>2. \A a, b \in 1 .. Len(s) : s[a] = s[b] => a = b
  BY <1>1 DEF IsInjective
<1>3. \A a \in 1 .. Len(s) : s[a] # e
  BY <1>1
<1> QED
  BY <1>1, <1>2, <1>3


-----------------------------------------------------------------------------
(* The inductive invariant.                                                *)

\* How many banks flush holds.
InHand == IF flushing = None THEN 0 ELSE 1

\* The banks circulate: apart from the active one there are Banks - 1 while
\* records are taken, and Close gives at most the active one away.
Hands ==
  /\ flushing = None <=> flusher \in {"idle", "ended"}
  /\ ~closed => Len(free) + Len(pending) + InHand = Banks - 1
  /\ closed => Len(free) + Len(pending) + InHand <= Banks

\* No bank is in two hands.
Distinct ==
  /\ IsInjective(free) /\ IsInjective(pending)
  /\ \A i \in DOMAIN free, j \in DOMAIN pending : free[i] # pending[j]
  /\ \A i \in DOMAIN free : free[i] # flushing
  /\ \A i \in DOMAIN pending : pending[i] # flushing
  /\ ~closed => /\ active # flushing
                /\ \A i \in DOMAIN free : free[i] # active
                /\ \A i \in DOMAIN pending : pending[i] # active

\* A free bank was reset.
Reset == \A i \in DOMAIN free : contents[free[i]] = <<>>

\* The order in which Close and flush come to their ends.
ClosingOrder ==
  /\ closed <=> closer # "idle"
  /\ flusher = "ended" => pending = <<>> /\ closer \in {"waiting", "returned"}
  /\ closer = "returned" => flusher = "ended" /\ (flushErr => closeErr)

BankInv == TypeOK /\ Hands /\ Distinct /\ Reset /\ ClosingOrder

\* A call whose number is taken and whose count is not.
UnderWay == {r \in Records : call[r] \in {"numbered", "appended", "refused"}}

\* A call that is in the stream and not in written.
Uncounted == {r \in Records : call[r] = "appended"}

\* The counters lag the stream by the calls between the mutex and the count.
Counted ==
  /\ seq = written + dropped + Cardinality(UnderWay)
  /\ ~flushErr => Len(Stream) = written + Cardinality(Uncounted)

\* A record is in the stream at most once, and only after its call appended it.
Accepted ==
  ~flushErr => /\ IsInjective(Stream)
               /\ \A i \in DOMAIN Stream : call[Stream[i]] \in {"appended", "returned"}

IInv == BankInv /\ Counted /\ Accepted

-----------------------------------------------------------------------------
(* The banks.                                                              *)

\* The writer starts with one bank active and the others free (NewWriter).
LEMMA BankInit == Init => BankInv
<1> SUFFICES ASSUME Init PROVE BankInv
  OBVIOUS
<1> USE EventWriterAssumption
<1>1. /\ free \in Seq(BankIds) /\ Len(free) = Banks - 1
      /\ DOMAIN free = 1 .. Banks - 1
      /\ \A i \in 1 .. Banks - 1 : free[i] = i + 1
  <2>1. Banks - 1 \in Nat /\ \A i \in 1 .. Banks - 1 : i + 1 \in BankIds
    BY DEF BankIds
  <2>2. free = [i \in 1 .. Banks - 1 |-> i + 1]
    BY DEF Init
  <2> QED
    BY <2>1, <2>2, IsASeq
<1>2. TypeOK
  <2>1. /\ contents \in [BankIds -> Seq(Records)]
        /\ \A b \in BankIds : Len(contents[b]) <= Room
    BY DEF Init
  <2>2. call \in [Records -> {"idle", "numbered", "appended", "refused", "returned"}]
    BY DEF Init
  <2>3. active \in BankIds /\ pending \in Seq(BankIds) /\ sink \in Seq(Records)
        /\ Len(free) <= Capacity /\ Len(pending) <= Capacity
    BY <1>1 DEF Init, BankIds, Capacity
  <2> QED
    BY <1>1, <2>1, <2>2, <2>3 DEF Init, TypeOK
<1>3. Hands
  BY <1>1 DEF Init, Hands, InHand
<1>4. Distinct
  BY <1>1 DEF Init, Distinct, IsInjective, BankIds
<1>5. Reset
  BY <1>1 DEF Init, Reset, BankIds
<1>6. ClosingOrder
  BY DEF Init, ClosingOrder
<1> QED
  BY <1>2, <1>3, <1>4, <1>5, <1>6 DEF BankInv

\* Record's own steps before and after the mutex leave the banks alone.
LEMMA CountingKeepsBanks ==
  ASSUME BankInv, NEW r \in Records, TakeNumber(r) \/ Refuse(r) \/ Count(r)
  PROVE  BankInv'
<1>1. UNCHANGED <<bankVars, flushVars, closeVars>>
  BY DEF TakeNumber, Refuse, Count
<1>2. /\ call' \in [Records -> {"idle", "numbered", "appended", "refused", "returned"}]
      /\ seq' \in Nat /\ written' \in Nat /\ dropped' \in Nat
  <2> USE DEF BankInv, TypeOK
  <2>1. CASE TakeNumber(r)
    BY <2>1 DEF TakeNumber
  <2>2. CASE Refuse(r)
    BY <2>2 DEF Refuse
  <2>3. CASE Count(r)
    BY <2>3 DEF Count
  <2> QED
    BY <2>1, <2>2, <2>3
<1>3. TypeOK'
  BY <1>1, <1>2 DEF BankInv, TypeOK, bankVars, flushVars, closeVars
<1>4. Hands' /\ Distinct' /\ Reset' /\ ClosingOrder'
  BY <1>1 DEF BankInv, Hands, InHand, Distinct, Reset, ClosingOrder, bankVars, flushVars, closeVars
<1> QED
  BY <1>3, <1>4 DEF BankInv

\* Record into the active bank: it had room, and nobody else holds it.
LEMMA AppendToActiveKeepsBanks ==
  ASSUME BankInv, NEW r \in Records, AppendToActive(r)
  PROVE  BankInv'
<1> USE EventWriterAssumption DEF BankInv
<1>1. /\ contents[active] \in Seq(Records) /\ active \in BankIds
      /\ Len(contents[active]) < Room
      /\ contents' = [contents EXCEPT ![active] = Append(@, r)]
      /\ UNCHANGED <<seq, written, dropped, active, free, pending, flushVars, closeVars>>
      /\ ~closed
  BY DEF AppendToActive, HasRoom, TypeOK
<1>2. Append(contents[active], r) \in Seq(Records)
      /\ Len(Append(contents[active], r)) = Len(contents[active]) + 1
  BY <1>1, AppendProperties
<1>3. /\ contents' \in [BankIds -> Seq(Records)]
      /\ \A b \in BankIds : Len(contents'[b]) <= Room
  BY <1>1, <1>2 DEF TypeOK
<1>4. call' \in [Records -> {"idle", "numbered", "appended", "refused", "returned"}]
  BY DEF AppendToActive, TypeOK
<1>5. TypeOK'
  BY <1>1, <1>3, <1>4 DEF TypeOK, flushVars, closeVars
<1>6. Hands' /\ Distinct' /\ ClosingOrder'
  BY <1>1 DEF Hands, InHand, Distinct, ClosingOrder, flushVars, closeVars
<1>7. Reset'
  BY <1>1 DEF Reset, Distinct, TypeOK
<1> QED
  BY <1>5, <1>6, <1>7

\* What taking from and sending to a channel of banks does to it.
LEMMA Receive ==
  ASSUME NEW c \in Seq(BankIds), c # <<>>
  PROVE  /\ Head(c) \in BankIds /\ Head(c) = c[1] /\ 1 \in DOMAIN c
         /\ Tail(c) \in Seq(BankIds) /\ Len(Tail(c)) = Len(c) - 1
         /\ DOMAIN c = 1 .. Len(c) /\ DOMAIN Tail(c) = 1 .. Len(c) - 1
         /\ Len(c) \in Nat \ {0}
         /\ \A i \in DOMAIN Tail(c) : i + 1 \in DOMAIN c /\ Tail(c)[i] = c[i + 1]
BY HeadTailProperties, LenProperties

\* A channel with one more bank: its length, its places and what they hold.
LEMMA Send ==
  ASSUME NEW c \in Seq(BankIds), NEW b \in BankIds
  PROVE  /\ Append(c, b) \in Seq(BankIds) /\ Len(Append(c, b)) = Len(c) + 1
         /\ DOMAIN c = 1 .. Len(c) /\ DOMAIN Append(c, b) = 1 .. Len(c) + 1
         /\ Len(c) \in Nat
         /\ Append(c, b)[Len(c) + 1] = b
         /\ \A i \in DOMAIN c : i \in DOMAIN Append(c, b) /\ Append(c, b)[i] = c[i]
         /\ \A i \in DOMAIN Append(c, b) : i \in DOMAIN c \/ i = Len(c) + 1
BY AppendProperties, LenProperties

\* A channel of distinct banks stays one when its head is taken.
LEMMA InjectiveReceive ==
  ASSUME NEW c \in Seq(BankIds), c # <<>>, IsInjective(c)
  PROVE  /\ IsInjective(Tail(c))
         /\ \A i \in DOMAIN Tail(c) : Tail(c)[i] # Head(c)
<1>1. \A i, j \in 1 .. Len(c) : c[i] = c[j] => i = j
  BY Receive DEF IsInjective
<1>2. \A i, j \in 1 .. Len(c) - 1 : Tail(c)[i] = Tail(c)[j] => i = j
  BY <1>1, Receive
<1>3. \A i \in 1 .. Len(c) - 1 : Tail(c)[i] # Head(c)
  BY <1>1, Receive
<1> QED
  BY <1>2, <1>3, Receive DEF IsInjective

\* Record into a bank just taken from free: the full one goes to pending, and
\* rotateLocked's blocking send is one the count says has room.
LEMMA AppendAfterRotationKeepsBanks ==
  ASSUME BankInv, NEW r \in Records, AppendAfterRotation(r)
  PROVE  BankInv'
<1> USE EventWriterAssumption DEF BankInv
<1> DEFINE b == Head(free)
<1>1. /\ ~closed /\ free # <<>> /\ Len(pending) < Capacity
      /\ pending' = Append(pending, active) /\ active' = b /\ free' = Tail(free)
      /\ contents' = [contents EXCEPT ![b] = Append(@, r)]
      /\ UNCHANGED <<seq, written, dropped, flushVars, closeVars>>
      /\ free \in Seq(BankIds) /\ pending \in Seq(BankIds) /\ active \in BankIds
  BY DEF AppendAfterRotation, Rotate, TypeOK
<1>2. /\ b \in BankIds /\ b = free[1] /\ 1 \in DOMAIN free
      /\ free' \in Seq(BankIds) /\ Len(free') = Len(free) - 1
      /\ Len(free) \in Nat \ {0}
      /\ \A i \in DOMAIN free' : i + 1 \in DOMAIN free /\ free'[i] = free[i + 1]
  BY <1>1, Receive
<1>3. /\ pending' \in Seq(BankIds) /\ Len(pending') = Len(pending) + 1
      /\ Len(pending) \in Nat
      /\ \A i \in DOMAIN pending' :
           \/ i \in DOMAIN pending /\ pending'[i] = pending[i]
           \/ i = Len(pending) + 1 /\ pending'[i] = active
  BY <1>1, Send
<1> HIDE DEF b
<1>4. contents[b] = <<>>
  BY <1>2 DEF Reset
<1>5. /\ contents' \in [BankIds -> Seq(Records)]
      /\ \A k \in BankIds : Len(contents'[k]) <= Room
  <2>1. Append(<<>>, r) \in Seq(Records) /\ Len(Append(<<>>, r)) = 1
    OBVIOUS
  <2> QED
    BY <1>1, <1>2, <1>4, <2>1 DEF TypeOK
<1>6. TypeOK'
  <2>1. call' \in [Records -> {"idle", "numbered", "appended", "refused", "returned"}]
    BY DEF AppendAfterRotation, TypeOK
  <2>2. Len(free') <= Capacity /\ Len(pending') <= Capacity
    BY <1>1, <1>2, <1>3 DEF TypeOK, Capacity
  <2> QED
    BY <1>1, <1>2, <1>3, <1>5, <2>1, <2>2 DEF TypeOK, flushVars, closeVars
<1>7. Hands'
  BY <1>1, <1>2, <1>3 DEF Hands, InHand, flushVars, closeVars
<1>8. Distinct'
  <2>1. IsInjective(free') /\ \A i \in DOMAIN free' : free'[i] # b
    BY <1>1, InjectiveReceive DEF Distinct, b
  <2>2. IsInjective(pending')
    BY <1>1, InjectiveAppend DEF Distinct
  <2>3. \A i \in DOMAIN free', j \in DOMAIN pending' : free'[i] # pending'[j]
    BY <1>1, <1>2, <1>3 DEF Distinct
  <2>4. flushing' = flushing /\ closed' = closed
    BY <1>1 DEF flushVars, closeVars
  <2>5. /\ \A i \in DOMAIN free' : free'[i] # flushing
        /\ \A i \in DOMAIN pending' : pending'[i] # flushing
    BY <1>1, <1>2, <1>3 DEF Distinct
  <2>6. b # flushing /\ \A i \in DOMAIN pending' : pending'[i] # b
    BY <1>1, <1>2, <1>3 DEF Distinct
  <2> QED
    BY <1>1, <2>1, <2>2, <2>3, <2>4, <2>5, <2>6 DEF Distinct
<1>9. Reset'
  <2>1. \A i \in DOMAIN free' : free'[i] # b /\ free'[i] \in BankIds
    BY <1>1, <1>2, InjectiveReceive DEF Distinct, b
  <2> QED
    BY <1>1, <1>2, <2>1 DEF Reset, TypeOK
<1>10. ClosingOrder'
  BY <1>1 DEF ClosingOrder, flushVars, closeVars
<1> QED
  BY <1>6, <1>7, <1>8, <1>9, <1>10

\* flush takes the oldest full bank out of the channel.
LEMMA FlusherTakesKeepsBanks == BankInv /\ FlusherTakes => BankInv'
<1> SUFFICES ASSUME BankInv, FlusherTakes PROVE BankInv'
  OBVIOUS
<1> USE EventWriterAssumption DEF BankInv
<1>1. /\ flusher = "idle" /\ pending # <<>> /\ pending \in Seq(BankIds)
      /\ flushing' = Head(pending) /\ pending' = Tail(pending) /\ flusher' = "writing"
      /\ UNCHANGED <<recordVars, active, free, contents, sink, flushErr, closeVars>>
  BY DEF FlusherTakes, TypeOK
<1>2. /\ flushing' \in BankIds /\ flushing' = pending[1] /\ 1 \in DOMAIN pending
      /\ pending' \in Seq(BankIds) /\ Len(pending') = Len(pending) - 1
      /\ Len(pending) \in Nat \ {0}
      /\ \A i \in DOMAIN pending' : i + 1 \in DOMAIN pending /\ pending'[i] = pending[i + 1]
  BY <1>1, Receive
<1>3. flushing' # None
  BY <1>2 DEF BankIds
<1>4. TypeOK'
  <2>1. Len(pending') <= Capacity
    BY <1>2 DEF TypeOK, Capacity
  <2> QED
    BY <1>1, <1>2, <2>1 DEF TypeOK, recordVars, closeVars
<1>5. Hands'
  BY <1>1, <1>2, <1>3 DEF Hands, InHand, closeVars, TypeOK
<1>6. Distinct'
  <2>1. IsInjective(pending') /\ \A i \in DOMAIN pending' : pending'[i] # flushing'
    BY <1>1, InjectiveReceive DEF Distinct
  <2>2. free' = free /\ active' = active /\ closed' = closed
    BY <1>1 DEF closeVars
  <2>3. /\ \A i \in DOMAIN free, j \in DOMAIN pending' : free[i] # pending'[j]
        /\ \A i \in DOMAIN free : free[i] # flushing'
    BY <1>2 DEF Distinct
  <2>4. ~closed => active # flushing' /\ \A i \in DOMAIN pending' : pending'[i] # active
    BY <1>2 DEF Distinct
  <2> QED
    BY <2>1, <2>2, <2>3, <2>4 DEF Distinct
<1>7. Reset'
  BY <1>1 DEF Reset
<1>8. ClosingOrder'
  BY <1>1 DEF ClosingOrder, closeVars
<1> QED
  BY <1>4, <1>5, <1>6, <1>7, <1>8

\* flush writes its bank's bytes, or finds the sink failed.
LEMMA FlusherWritesKeepsBanks == BankInv /\ FlusherWrites => BankInv'
<1> SUFFICES ASSUME BankInv, FlusherWrites PROVE BankInv'
  OBVIOUS
<1> USE EventWriterAssumption DEF BankInv
<1>1. /\ flusher = "writing" /\ flusher' = "written" /\ flushing \in BankIds
      /\ UNCHANGED <<recordVars, bankVars, flushing, closeVars>>
  BY DEF FlusherWrites, TypeOK, Hands
<1>2. sink' \in Seq(Records) /\ flushErr' \in BOOLEAN
  <2>1. contents[flushing] \in Seq(Records) /\ sink \in Seq(Records)
    BY <1>1 DEF TypeOK
  <2>2. sink \o contents[flushing] \in Seq(Records)
    BY <2>1, ConcatProperties
  <2> QED
    BY <2>1, <2>2 DEF FlusherWrites, TypeOK
<1>3. TypeOK'
  BY <1>1, <1>2 DEF TypeOK, recordVars, bankVars, closeVars
<1>4. Hands' /\ Distinct' /\ Reset'
  BY <1>1 DEF Hands, InHand, Distinct, Reset, bankVars, closeVars
<1>5. ClosingOrder'
  BY <1>1 DEF ClosingOrder, bankVars, closeVars
<1> QED
  BY <1>3, <1>4, <1>5

\* flush resets its bank and sends it to free, where the count says there is
\* room.
LEMMA FlusherFreesKeepsBanks == BankInv /\ FlusherFrees => BankInv'
<1> SUFFICES ASSUME BankInv, FlusherFrees PROVE BankInv'
  OBVIOUS
<1> USE EventWriterAssumption DEF BankInv
<1>1. /\ flusher = "written" /\ flusher' = "idle" /\ flushing \in BankIds /\ flushing # None
      /\ flushing' = None /\ Len(free) < Capacity /\ free' = Append(free, flushing)
      /\ contents' = [contents EXCEPT ![flushing] = <<>>]
      /\ UNCHANGED <<recordVars, active, pending, sink, flushErr, closeVars>>
      /\ free \in Seq(BankIds) /\ pending \in Seq(BankIds) /\ active \in BankIds
  BY DEF FlusherFrees, TypeOK, Hands
<1>2. /\ free' \in Seq(BankIds) /\ Len(free') = Len(free) + 1
      /\ Len(free) \in Nat
      /\ \A i \in DOMAIN free' :
           \/ i \in DOMAIN free /\ free'[i] = free[i]
           \/ i = Len(free) + 1 /\ free'[i] = flushing
  BY <1>1, Send
<1>3. /\ contents' \in [BankIds -> Seq(Records)]
      /\ \A k \in BankIds : Len(contents'[k]) <= Room
  BY <1>1 DEF TypeOK
<1>4. TypeOK'
  <2>1. Len(free') <= Capacity
    BY <1>1, <1>2 DEF Capacity
  <2> QED
    BY <1>1, <1>2, <1>3, <2>1 DEF TypeOK, recordVars, closeVars
<1>5. Hands'
  BY <1>1, <1>2 DEF Hands, InHand, closeVars, TypeOK
<1>6. Distinct'
  <2>1. IsInjective(free')
    BY <1>1, InjectiveAppend DEF Distinct
  <2>2. pending' = pending /\ active' = active /\ closed' = closed
    BY <1>1 DEF closeVars
  <2>3. \A i \in DOMAIN free', j \in DOMAIN pending : free'[i] # pending[j]
    BY <1>2 DEF Distinct
  <2>4. ~closed => active # None /\ \A i \in DOMAIN free' : free'[i] # active
    BY <1>1, <1>2 DEF Distinct, BankIds
  <2>5. /\ \A i \in DOMAIN free' : free'[i] # None
        /\ \A i \in DOMAIN pending : pending[i] # None
    BY <1>1, <1>2 DEF BankIds
  <2> QED
    BY <1>1, <2>1, <2>2, <2>3, <2>4, <2>5 DEF Distinct
<1>7. Reset'
  <2>1. \A i \in DOMAIN free' : free'[i] \in BankIds
    BY <1>2
  <2> QED
    BY <1>1, <1>2, <2>1 DEF Reset, TypeOK
<1>8. ClosingOrder'
  BY <1>1 DEF ClosingOrder, closeVars
<1> QED
  BY <1>4, <1>5, <1>6, <1>7, <1>8

\* The channel is closed and empty: bufio's Flush.
LEMMA FlusherEndsKeepsBanks == BankInv /\ FlusherEnds => BankInv'
<1> SUFFICES ASSUME BankInv, FlusherEnds PROVE BankInv'
  OBVIOUS
<1> USE EventWriterAssumption DEF BankInv
<1>1. /\ flusher = "idle" /\ pending = <<>> /\ closer = "waiting" /\ flusher' = "ended"
      /\ UNCHANGED <<recordVars, bankVars, flushing, closeVars>>
  BY DEF FlusherEnds
<1>2. sink' \in Seq(Records) /\ flushErr' \in BOOLEAN
  <2>1. \A n \in 0 .. Len(sink) : SubSeq(sink, 1, n) \in Seq(Records)
    BY SubSeqProperties DEF TypeOK
  <2> QED
    BY <2>1 DEF FlusherEnds, TypeOK
<1>3. TypeOK'
  BY <1>1, <1>2 DEF TypeOK, recordVars, bankVars, closeVars
<1>4. Hands' /\ Distinct' /\ Reset'
  BY <1>1 DEF Hands, InHand, Distinct, Reset, bankVars, closeVars
<1>5. ClosingOrder'
  BY <1>1 DEF ClosingOrder, bankVars, closeVars
<1> QED
  BY <1>3, <1>4, <1>5

\* Close refuses further records and gives the active bank away; its send under
\* the mutex has room too.
LEMMA CloseRefusesKeepsBanks == BankInv /\ CloseRefuses => BankInv'
<1> SUFFICES ASSUME BankInv, CloseRefuses PROVE BankInv'
  OBVIOUS
<1> USE EventWriterAssumption DEF BankInv
<1>1. /\ ~closed /\ closed' = TRUE /\ closer = "idle" /\ closer' = "locked"
      /\ UNCHANGED <<recordVars, active, free, contents, flushVars, closeErr>>
      /\ pending \in Seq(BankIds) /\ active \in BankIds
      /\ flusher # "ended"
  BY DEF CloseRefuses, TypeOK, ClosingOrder
<1>2. CASE contents[active] # <<>>
  <2>1. pending' = Append(pending, active) /\ Len(pending) < Capacity
    BY <1>2 DEF CloseRefuses
  <2>2. /\ pending' \in Seq(BankIds) /\ Len(pending') = Len(pending) + 1
        /\ Len(pending) \in Nat
        /\ \A i \in DOMAIN pending' :
             \/ i \in DOMAIN pending /\ pending'[i] = pending[i]
             \/ i = Len(pending) + 1 /\ pending'[i] = active
    BY <1>1, <2>1, Send
  <2>3. TypeOK'
    <3>1. Len(pending') <= Capacity
      BY <2>1, <2>2 DEF Capacity
    <3> QED
      BY <1>1, <2>2, <3>1 DEF TypeOK, recordVars, flushVars
  <2>4. Hands'
    BY <1>1, <2>2 DEF Hands, InHand, flushVars, TypeOK
  <2>5. IsInjective(pending')
    BY <1>1, <2>1, InjectiveAppend DEF Distinct
  <2>6. Distinct'
    BY <1>1, <2>2, <2>5 DEF Distinct, flushVars
  <2>7. Reset' /\ ClosingOrder'
    BY <1>1 DEF Reset, ClosingOrder, flushVars
  <2> QED
    BY <2>3, <2>4, <2>6, <2>7
<1>3. CASE contents[active] = <<>>
  <2>1. pending' = pending
    BY <1>3 DEF CloseRefuses
  <2>2. TypeOK'
    BY <1>1, <2>1 DEF TypeOK, recordVars, flushVars
  <2>3. Hands'
    BY <1>1, <2>1 DEF Hands, InHand, flushVars, TypeOK
  <2>4. Distinct' /\ Reset' /\ ClosingOrder'
    BY <1>1, <2>1 DEF Distinct, Reset, ClosingOrder, flushVars
  <2> QED
    BY <2>2, <2>3, <2>4
<1> QED
  BY <1>2, <1>3

\* Close's other two steps move no bank.
LEMMA ClosingKeepsBanks == BankInv /\ (ClosePending \/ CloseReturns) => BankInv'
<1> SUFFICES ASSUME BankInv, ClosePending \/ CloseReturns PROVE BankInv'
  OBVIOUS
<1> USE DEF BankInv
<1>1. UNCHANGED <<recordVars, bankVars, flushVars, closed>>
  BY DEF ClosePending, CloseReturns
<1>2. /\ closer' \in {"waiting", "returned"} /\ closeErr' \in BOOLEAN
  BY DEF ClosePending, CloseReturns, TypeOK
<1>3. TypeOK' /\ Hands' /\ Distinct' /\ Reset'
  BY <1>1, <1>2 DEF TypeOK, Hands, InHand, Distinct, Reset, recordVars, bankVars, flushVars
<1>4. ClosingOrder'
  <2>1. CASE ClosePending
    BY <1>1, <2>1 DEF ClosePending, ClosingOrder, bankVars, flushVars
  <2>2. CASE CloseReturns
    <3>1. closer = "waiting" /\ flusher = "ended" /\ closer' = "returned"
          /\ closeErr' \in {flushErr, TRUE}
      BY <2>2 DEF CloseReturns
    <3>2. flushErr' = flushErr /\ flusher' = flusher /\ pending' = pending /\ closed' = closed
      BY <1>1 DEF flushVars, bankVars
    <3>3. flushErr' => closeErr'
      BY <3>1, <3>2, Zenon
    <3>4. /\ closed <=> closer # "idle"
          /\ pending = <<>>
      BY <3>1 DEF ClosingOrder
    <3> QED
      BY <3>1, <3>2, <3>3, <3>4 DEF ClosingOrder
  <2> QED
    BY <2>1, <2>2
<1> QED
  BY <1>3, <1>4

\* A step that changes nothing keeps everything.
LEMMA BankStutter == BankInv /\ UNCHANGED vars => BankInv'
BY DEF BankInv, TypeOK, Hands, InHand, Distinct, Reset, ClosingOrder,
       vars, recordVars, bankVars, flushVars, closeVars

\* Every step keeps the banks in order.
LEMMA BankStep == BankInv /\ [Next]_vars => BankInv'
BY BankStutter, CountingKeepsBanks, AppendToActiveKeepsBanks, AppendAfterRotationKeepsBanks,
   FlusherTakesKeepsBanks, FlusherWritesKeepsBanks, FlusherFreesKeepsBanks,
   FlusherEndsKeepsBanks, CloseRefusesKeepsBanks, ClosingKeepsBanks
   DEF Next, Recording, Flushing, Closing

\* The banks' invariant holds of every state the writer reaches.
THEOREM BanksCirculate == Spec => []BankInv
BY BankInit, BankStep, PTL DEF Spec

\* No send of Record, Close or flush ever waits for room (rotateLocked's send
\* under the mutex, Close's, and flush's to free), whatever the banks' number.
THEOREM SendsNeverBlock == Spec => []NoSendBlocks
<1>1. BankInv => NoSendBlocks
  BY EventWriterAssumption DEF BankInv, TypeOK, Hands, InHand, NoSendBlocks, Capacity
<1> QED
  BY <1>1, BanksCirculate, PTL

\* Two channels of distinct banks without a common one, one after the other.
LEMMA InjectiveJoin ==
  ASSUME NEW c \in Seq(BankIds), NEW d \in Seq(BankIds), IsInjective(c), IsInjective(d),
         \A i \in DOMAIN c, j \in DOMAIN d : c[i] # d[j]
  PROVE  /\ IsInjective(c \o d)
         /\ \A k \in DOMAIN (c \o d) :
              (\E i \in DOMAIN c : (c \o d)[k] = c[i]) \/ (\E j \in DOMAIN d : (c \o d)[k] = d[j])
<1> DEFINE e == c \o d
<1>1. /\ e \in Seq(BankIds) /\ Len(e) = Len(c) + Len(d)
      /\ \A k \in 1 .. Len(c) + Len(d) : e[k] = IF k <= Len(c) THEN c[k] ELSE d[k - Len(c)]
  BY ConcatProperties
<1>2. /\ DOMAIN c = 1 .. Len(c) /\ DOMAIN d = 1 .. Len(d) /\ DOMAIN e = 1 .. Len(c) + Len(d)
      /\ Len(c) \in Nat /\ Len(d) \in Nat
  BY <1>1, LenProperties
<1> HIDE DEF e
<1>3. \A k \in DOMAIN e : k > Len(c) => k - Len(c) \in DOMAIN d
  BY <1>2
<1>4. \A k \in DOMAIN e : k <= Len(c) => k \in DOMAIN c
  BY <1>2
<1>5. IsInjective(e)
  <2> SUFFICES ASSUME NEW k \in DOMAIN e, NEW l \in DOMAIN e, e[k] = e[l] PROVE k = l
    BY DEF IsInjective
  <2>1. CASE k <= Len(c) /\ l <= Len(c)
    BY <2>1, <1>1, <1>2, <1>4 DEF IsInjective
  <2>2. CASE k > Len(c) /\ l > Len(c)
    <3>1. k - Len(c) = l - Len(c)
      BY <2>2, <1>1, <1>2, <1>3 DEF IsInjective
    <3> QED
      BY <3>1, <1>2
  <2>3. CASE k <= Len(c) /\ l > Len(c)
    BY <2>3, <1>1, <1>2, <1>3, <1>4
  <2>4. CASE k > Len(c) /\ l <= Len(c)
    BY <2>4, <1>1, <1>2, <1>3, <1>4
  <2> QED
    BY <2>1, <2>2, <2>3, <2>4, <1>2
<1>6. \A k \in DOMAIN e :
        (\E i \in DOMAIN c : e[k] = c[i]) \/ (\E j \in DOMAIN d : e[k] = d[j])
  BY <1>1, <1>2, <1>3, <1>4
<1> QED
  BY <1>5, <1>6 DEF e

\* No bank is in two hands, and while records are taken none is lost: Record
\* fills the active bank and flush reads its own without a common lock, and
\* the two are never the same.
THEOREM OneHandPerBank == Spec => []BankInOneHand
<1> USE EventWriterAssumption DEF BankInv
<1> DEFINE held == IF flushing = None THEN <<>> ELSE <<flushing>>
<1>1. BankInv => BankInOneHand
  <2> SUFFICES ASSUME BankInv PROVE BankInOneHand
    OBVIOUS
  <2>1. /\ free \in Seq(BankIds) /\ pending \in Seq(BankIds)
        /\ held \in Seq(BankIds) /\ Len(held) = InHand
        /\ \A i \in DOMAIN held : held[i] = flushing
        /\ IsInjective(held)
    BY DEF TypeOK, InHand, IsInjective
  <2>2. /\ IsInjective(free \o pending) /\ free \o pending \in Seq(BankIds)
        /\ \A k \in DOMAIN (free \o pending) :
             \/ \E i \in DOMAIN free : (free \o pending)[k] = free[i]
             \/ \E j \in DOMAIN pending : (free \o pending)[k] = pending[j]
    BY <2>1, InjectiveJoin, ConcatProperties DEF Distinct
  <2> DEFINE channels == free \o pending
  <2>3. Len(channels) = Len(free) + Len(pending)
    BY <2>1, ConcatProperties
  <2>4. Elsewhere = channels \o held
    BY DEF Elsewhere
  <2> HIDE DEF channels, held
  <2>5. /\ \A k \in DOMAIN channels : channels[k] # flushing
        /\ ~closed => \A k \in DOMAIN channels : channels[k] # active
    BY <2>2 DEF channels, Distinct
  <2>6. channels \in Seq(BankIds) /\ IsInjective(channels)
    BY <2>2 DEF channels
  <2>7. /\ IsInjective(Elsewhere)
        /\ \A k \in DOMAIN Elsewhere :
              \/ \E i \in DOMAIN channels : Elsewhere[k] = channels[i]
              \/ \E j \in DOMAIN held : Elsewhere[k] = held[j]
    <3>1. \A i \in DOMAIN channels, j \in DOMAIN held : channels[i] # held[j]
      BY <2>1, <2>5
    <3>2. held \in Seq(BankIds) /\ IsInjective(held)
      BY <2>1
    <3> QED
      BY <2>4, <2>6, <3>1, <3>2, InjectiveJoin
  <2>8. Len(Elsewhere) = Len(free) + Len(pending) + InHand
    BY <2>1, <2>3, <2>4, <2>6, ConcatProperties
  <2>9. ~closed => active \notin ToSet(Elsewhere)
    BY <2>1, <2>5, <2>7 DEF ToSet, Distinct
  <2> QED
    BY <2>7, <2>8, <2>9 DEF BankInOneHand, Hands
<1> QED
  BY <1>1, BanksCirculate, PTL

-----------------------------------------------------------------------------
(* The stream.                                                             *)

\* The bytes of the banks in the channel, in its order.
Held == [i \in DOMAIN pending |-> contents[pending[i]]]

\* The bytes flush has taken and not written yet.
InFlight == IF flusher = "writing" THEN contents[flushing] ELSE <<>>

\* The bytes still in the active bank.
Filling == IF closed THEN <<>> ELSE contents[active]

\* Stream, as the four runs of bytes it is made of.
LEMMA StreamParts ==
  /\ Stream = Joined(Joined(Joined(sink, InFlight), FlattenSeq(Held)), Filling)
  /\ Stream' = Joined(Joined(Joined(sink', InFlight'), FlattenSeq(Held')), Filling')
BY DEF Stream, Held, InFlight, Filling, Joined

\* Each of the four is a sequence of records, and so is the stream.
LEMMA StreamTyped ==
  ASSUME BankInv
  PROVE  /\ sink \in Seq(Records) /\ InFlight \in Seq(Records)
         /\ Held \in Seq(Seq(Records)) /\ FlattenSeq(Held) \in Seq(Records)
         /\ Filling \in Seq(Records) /\ Stream \in Seq(Records)
<1> USE EventWriterAssumption DEF BankInv
<1>1. sink \in Seq(Records)
  BY DEF TypeOK
<1>2. InFlight \in Seq(Records)
  BY DEF TypeOK, InFlight, Hands
<1>3. Held \in Seq(Seq(Records))
  <2>1. /\ pending \in Seq(BankIds) /\ DOMAIN pending = 1 .. Len(pending) /\ Len(pending) \in Nat
        /\ \A i \in 1 .. Len(pending) : contents[pending[i]] \in Seq(Records)
    BY DEF TypeOK
  <2> QED
    BY <2>1, IsASeq DEF Held
<1>4. Filling \in Seq(Records)
  BY DEF TypeOK, Filling
<1>5. FlattenSeq(Held) \in Seq(Records)
  BY <1>3, FlattenType
<1>6. Joined(Joined(sink, InFlight), FlattenSeq(Held)) \in Seq(Records)
  BY <1>1, <1>2, <1>5, JoinedType
<1> QED
  BY <1>1, <1>2, <1>3, <1>4, <1>5, <1>6, StreamParts, JoinedType

\* A bank sent to the channel adds its bytes after those of the banks in it.
LEMMA BytesOfSend ==
  ASSUME NEW c \in Seq(BankIds), NEW b \in BankIds,
         NEW f \in [BankIds -> Seq(Records)], NEW g,
         g[b] = f[b], \A i \in DOMAIN c : g[c[i]] = f[c[i]]
  PROVE  [i \in DOMAIN Append(c, b) |-> g[Append(c, b)[i]]]
           = Append([i \in DOMAIN c |-> f[c[i]]], f[b])
<1> DEFINE d == Append(c, b)
           p == [i \in DOMAIN c |-> f[c[i]]]
           q == Append(p, f[b])
           n == Len(c)
<1>1. /\ DOMAIN c = 1 .. n /\ DOMAIN d = 1 .. n + 1 /\ n \in Nat /\ d[n + 1] = b
      /\ \A i \in 1 .. n : d[i] = c[i] /\ c[i] \in BankIds
  BY Send
<1>2. p \in Seq(Seq(Records)) /\ Len(p) = n
  <2>1. \A i \in 1 .. n : f[c[i]] \in Seq(Records)
    BY <1>1
  <2>2. p = [i \in 1 .. n |-> f[c[i]]]
    BY <1>1
  <2> QED
    BY <1>1, <2>1, <2>2, IsASeq
<1>3. \A i \in 1 .. n : p[i] = f[c[i]]
  BY <1>1
<1> HIDE DEF p, d, n
<1>4. /\ q \in Seq(Seq(Records)) /\ Len(q) = n + 1 /\ q[n + 1] = f[b]
      /\ \A i \in 1 .. n : q[i] = p[i]
  BY <1>1, <1>2, AppendProperties
<1>5. q = [i \in 1 .. n + 1 |-> q[i]]
  BY <1>4, LenProperties
<1> HIDE DEF q
<1>6. \A i \in 1 .. n + 1 : g[d[i]] = q[i]
  <2> SUFFICES ASSUME NEW i \in 1 .. n + 1 PROVE g[d[i]] = q[i]
    OBVIOUS
  <2>1. CASE i = n + 1
    BY <1>1, <1>4, <2>1
  <2>2. CASE i \in 1 .. n
    BY <1>1, <1>3, <1>4, <2>2
  <2> QED
    BY <1>1, <2>1, <2>2
<1>7. [i \in DOMAIN d |-> g[d[i]]] = q
  BY <1>1, <1>5, <1>6
<1> QED
  BY <1>7 DEF d, p, q

\* Record into the active bank is one record at the end of the stream: no bank
\* of the flusher's side is the one that changed.
LEMMA AppendToActiveGrows ==
  ASSUME BankInv, NEW r \in Records, AppendToActive(r)
  PROVE  Stream' = Append(Stream, r)
<1> USE EventWriterAssumption DEF BankInv
<1>1. /\ ~closed /\ contents' = [contents EXCEPT ![active] = Append(@, r)]
      /\ UNCHANGED <<active, free, pending, flushVars, closeVars>>
      /\ active \in BankIds /\ pending \in Seq(BankIds)
  BY DEF AppendToActive, TypeOK
<1>2. sink' = sink /\ InFlight' = InFlight
  BY <1>1 DEF InFlight, flushVars, Distinct, TypeOK, Hands
<1>3. Held' = Held
  <2>1. \A i \in DOMAIN pending : contents'[pending[i]] = contents[pending[i]]
    BY <1>1 DEF Distinct, TypeOK
  <2> QED
    BY <1>1, <2>1 DEF Held
<1>4. Filling' = Append(Filling, r)
  BY <1>1 DEF Filling, TypeOK, closeVars
<1> DEFINE before == Joined(Joined(sink, InFlight), FlattenSeq(Held))
<1>5. before \in Seq(Records) /\ Filling \in Seq(Records)
  BY StreamTyped, JoinedType
<1>6. Stream = Joined(before, Filling) /\ Stream' = Joined(before, Append(Filling, r))
  BY <1>2, <1>3, <1>4, StreamParts
<1> HIDE DEF before
<1> QED
  BY <1>5, <1>6, AppendJoined

\* Rotation moves the active bank's bytes to the end of the channel's, and the
\* record follows them: the bank it went to was empty.
LEMMA AppendAfterRotationGrows ==
  ASSUME BankInv, NEW r \in Records, AppendAfterRotation(r)
  PROVE  Stream' = Append(Stream, r)
<1> USE EventWriterAssumption DEF BankInv
<1> DEFINE b == Head(free)
<1>1. /\ ~closed /\ free # <<>>
      /\ pending' = Append(pending, active) /\ active' = b
      /\ contents' = [contents EXCEPT ![b] = Append(@, r)]
      /\ UNCHANGED <<flushVars, closeVars>>
      /\ free \in Seq(BankIds) /\ pending \in Seq(BankIds) /\ active \in BankIds
  BY DEF AppendAfterRotation, Rotate, TypeOK
<1>2. b \in BankIds /\ b = free[1] /\ 1 \in DOMAIN free
  BY <1>1, Receive
<1> HIDE DEF b
<1>3. /\ contents[b] = <<>> /\ b # flushing /\ b # active
      /\ \A i \in DOMAIN pending : pending[i] # b
  BY <1>1, <1>2 DEF Reset, Distinct
<1>4. \A k \in BankIds : k # b => contents'[k] = contents[k]
  BY <1>1 DEF TypeOK
<1>5. contents'[b] = <<r>>
  BY <1>1, <1>2, <1>3 DEF TypeOK
<1>6. sink' = sink /\ InFlight' = InFlight
  BY <1>1, <1>3, <1>4 DEF InFlight, flushVars, TypeOK, Hands
<1>7. Held' = Append(Held, contents[active])
  <2>1. contents'[active] = contents[active]
        /\ \A i \in DOMAIN pending : contents'[pending[i]] = contents[pending[i]]
    BY <1>1, <1>3, <1>4
  <2>2. contents \in [BankIds -> Seq(Records)]
    BY DEF TypeOK
  <2> QED
    BY <1>1, <2>1, <2>2, BytesOfSend DEF Held
<1>8. Filling = contents[active] /\ Filling' = <<r>>
  BY <1>1, <1>5 DEF Filling, closeVars
<1> DEFINE front == Joined(sink, InFlight)
           full  == FlattenSeq(Held)
<1>9. front \in Seq(Records) /\ full \in Seq(Records) /\ Filling \in Seq(Records)
      /\ Held \in Seq(Seq(Records))
  BY StreamTyped, JoinedType
<1>10. FlattenSeq(Held') = Joined(full, Filling)
  BY <1>7, <1>8, <1>9, FlattenAppend
<1>11. Stream = Joined(Joined(front, full), Filling)
       /\ Stream' = Joined(Joined(front, Joined(full, Filling)), <<r>>)
  BY <1>6, <1>8, <1>10, StreamParts
<1> HIDE DEF front, full
<1>12. Stream' = Joined(Stream, <<r>>)
  BY <1>9, <1>11, JoinedAssociative
<1>13. Stream \in Seq(Records)
  BY StreamTyped
<1> QED
  BY <1>12, <1>13, AppendIsConcat DEF Joined

\* flush takes the head of the channel: its bytes were the channel's first.
LEMMA FlusherTakesKeepsStream == BankInv /\ FlusherTakes => Stream' = Stream
<1> SUFFICES ASSUME BankInv, FlusherTakes PROVE Stream' = Stream
  OBVIOUS
<1> USE EventWriterAssumption DEF BankInv
<1>1. /\ flusher = "idle" /\ pending # <<>> /\ pending \in Seq(BankIds)
      /\ flushing' = Head(pending) /\ pending' = Tail(pending) /\ flusher' = "writing"
      /\ UNCHANGED <<active, contents, sink, closeVars>>
  BY DEF FlusherTakes, TypeOK
<1>2. InFlight = <<>> /\ InFlight' = contents[Head(pending)] /\ Filling' = Filling
      /\ sink' = sink
  BY <1>1 DEF InFlight, Filling, closeVars
<1>3. /\ Held # <<>> /\ Held \in Seq(Seq(Records))
      /\ Head(Held) = contents[Head(pending)] /\ Tail(Held) = Held'
  <2>1. /\ Head(pending) = pending[1] /\ 1 \in DOMAIN pending
        /\ Tail(pending) \in Seq(BankIds)
        /\ DOMAIN pending = 1 .. Len(pending) /\ DOMAIN Tail(pending) = 1 .. Len(pending) - 1
        /\ Len(pending) \in Nat \ {0}
        /\ \A i \in DOMAIN Tail(pending) :
             i + 1 \in DOMAIN pending /\ Tail(pending)[i] = pending[i + 1]
    BY <1>1, Receive
  <2>2. Held \in Seq(Seq(Records))
    BY StreamTyped
  <2>3. DOMAIN Held = DOMAIN pending /\ \A i \in DOMAIN pending : Held[i] = contents[pending[i]]
    BY DEF Held
  <2>4. Len(Held) = Len(pending) /\ Held # <<>>
    BY <2>1, <2>2, <2>3
  <2>5. Head(Held) = contents[Head(pending)]
    BY <2>1, <2>2, <2>3, <2>4
  <2>6. /\ Tail(Held) \in Seq(Seq(Records)) /\ Len(Tail(Held)) = Len(pending) - 1
        /\ \A i \in 1 .. Len(pending) - 1 : Tail(Held)[i] = contents[pending[i + 1]]
    <3>1. /\ Tail(Held) \in Seq(Seq(Records)) /\ Len(Tail(Held)) = Len(Held) - 1
          /\ \A i \in 1 .. Len(Tail(Held)) : Tail(Held)[i] = Held[i + 1]
      BY <2>2, <2>4, HeadTailProperties
    <3>2. \A i \in 1 .. Len(pending) - 1 : i + 1 \in DOMAIN pending
      BY <2>1
    <3> QED
      BY <2>3, <2>4, <3>1, <3>2
  <2>7. Tail(Held) = [i \in 1 .. Len(pending) - 1 |-> contents[pending[i + 1]]]
    BY <2>6, LenProperties
  <2>8. Held' = [i \in 1 .. Len(pending) - 1 |-> contents[pending[i + 1]]]
    BY <1>1, <2>1 DEF Held
  <2> QED
    BY <2>2, <2>4, <2>5, <2>7, <2>8
<1> DEFINE head == contents[Head(pending)]
           rest == FlattenSeq(Held')
<1>4. FlattenSeq(Held) = Joined(head, rest)
  BY <1>3, FlattenHead
<1>5. sink \in Seq(Records) /\ head \in Seq(Records) /\ rest \in Seq(Records)
  <2>1. BankInv'
    BY FlusherTakesKeepsBanks
  <2>2. FlattenSeq(Held') \in Seq(Records)
    BY <1>3, HeadTailProperties, FlattenType
  <2> QED
    BY <1>1, <2>2, Receive DEF TypeOK
<1>6. /\ Stream = Joined(Joined(Joined(sink, <<>>), Joined(head, rest)), Filling)
      /\ Stream' = Joined(Joined(Joined(sink, head), rest), Filling)
  BY <1>2, <1>4, StreamParts
<1> HIDE DEF head, rest
<1>7. Joined(sink, <<>>) = sink /\ Joined(sink, Joined(head, rest)) = Joined(Joined(sink, head), rest)
  BY <1>5, JoinedEmpty, JoinedAssociative
<1> QED
  BY <1>6, <1>7

\* flush moves the bytes it holds to the sink, when the sink takes them.
LEMMA FlusherWritesKeepsStream ==
  BankInv /\ FlusherWrites /\ ~flushErr' => Stream' = Stream
<1> SUFFICES ASSUME BankInv, FlusherWrites, ~flushErr' PROVE Stream' = Stream
  OBVIOUS
<1>1. /\ flusher = "writing" /\ flusher' = "written"
      /\ sink' = sink \o contents[flushing]
      /\ UNCHANGED <<bankVars, closeVars>>
  BY DEF FlusherWrites
<1>2. /\ InFlight = contents[flushing] /\ InFlight' = <<>>
      /\ Held' = Held /\ Filling' = Filling
      /\ sink' = Joined(sink, InFlight)
  BY <1>1 DEF InFlight, Held, Filling, Joined, bankVars, closeVars
<1>3. Joined(sink', <<>>) = sink'
  BY <1>2, StreamTyped, JoinedType, JoinedEmpty
<1> QED
  BY <1>2, <1>3, StreamParts

\* flush empties a bank that is nowhere else.
LEMMA FlusherFreesKeepsStream == BankInv /\ FlusherFrees => Stream' = Stream
<1> SUFFICES ASSUME BankInv, FlusherFrees PROVE Stream' = Stream
  OBVIOUS
<1> USE EventWriterAssumption DEF BankInv
<1>1. /\ flusher = "written" /\ flusher' = "idle"
      /\ contents' = [contents EXCEPT ![flushing] = <<>>]
      /\ UNCHANGED <<active, pending, sink, closeVars>>
      /\ pending \in Seq(BankIds) /\ active \in BankIds
  BY DEF FlusherFrees, TypeOK
<1>2. sink' = sink /\ InFlight = <<>> /\ InFlight' = <<>>
  BY <1>1 DEF InFlight
<1>3. Held' = Held
  <2>1. \A i \in DOMAIN pending : contents'[pending[i]] = contents[pending[i]]
    BY <1>1 DEF Distinct, TypeOK
  <2> QED
    BY <1>1, <2>1 DEF Held
<1>4. Filling' = Filling
  BY <1>1 DEF Filling, Distinct, TypeOK, closeVars
<1> QED
  BY <1>2, <1>3, <1>4, StreamParts

\* flush's end, when bufio's Flush succeeds.
LEMMA FlusherEndsKeepsStream ==
  BankInv /\ FlusherEnds /\ ~flushErr' => Stream' = Stream
<1> SUFFICES ASSUME BankInv, FlusherEnds, ~flushErr' PROVE Stream' = Stream
  OBVIOUS
<1>1. /\ flusher = "idle" /\ flusher' = "ended"
      /\ sink' = sink /\ UNCHANGED <<bankVars, closeVars>>
  BY DEF FlusherEnds
<1>2. InFlight' = InFlight /\ Held' = Held /\ Filling' = Filling
  BY <1>1 DEF InFlight, Held, Filling, bankVars, closeVars
<1> QED
  BY <1>1, <1>2, StreamParts

\* Close moves the active bank's bytes to the end of the channel's.
LEMMA CloseRefusesKeepsStream == BankInv /\ CloseRefuses => Stream' = Stream
<1> SUFFICES ASSUME BankInv, CloseRefuses PROVE Stream' = Stream
  OBVIOUS
<1> USE EventWriterAssumption DEF BankInv
<1>1. /\ ~closed /\ closed' = TRUE
      /\ UNCHANGED <<active, contents, flushVars>>
      /\ pending \in Seq(BankIds) /\ active \in BankIds
  BY DEF CloseRefuses, TypeOK, ClosingOrder
<1>2. /\ sink' = sink /\ InFlight' = InFlight
      /\ Filling = contents[active] /\ Filling' = <<>>
  BY <1>1 DEF InFlight, Filling, flushVars
<1> DEFINE front == Joined(sink, InFlight)
           full  == FlattenSeq(Held)
<1>3. front \in Seq(Records) /\ full \in Seq(Records) /\ Filling \in Seq(Records)
      /\ Held \in Seq(Seq(Records))
  BY StreamTyped, JoinedType
<1>4. FlattenSeq(Held') = Joined(full, Filling)
  <2>1. CASE contents[active] # <<>>
    <3>1. pending' = Append(pending, active)
      BY <2>1 DEF CloseRefuses
    <3>2. Held' = Append(Held, contents[active])
      <4>1. contents \in [BankIds -> Seq(Records)] /\ contents' = contents
        BY <1>1 DEF TypeOK
      <4> QED
        BY <1>1, <3>1, <4>1, BytesOfSend DEF Held
    <3> QED
      BY <1>2, <1>3, <3>2, FlattenAppend
  <2>2. CASE contents[active] = <<>>
    <3>1. Held' = Held
      BY <1>1, <2>2 DEF CloseRefuses, Held
    <3>2. Joined(full, Filling) = full
      BY <1>2, <1>3, <2>2, JoinedEmpty
    <3> QED
      BY <3>1, <3>2
  <2> QED
    BY <2>1, <2>2
<1>5. /\ Stream = Joined(Joined(front, full), Filling)
      /\ Stream' = Joined(Joined(front, Joined(full, Filling)), <<>>)
  BY <1>2, <1>4, StreamParts
<1> HIDE DEF front, full
<1>6. Stream' = Joined(Stream, <<>>)
  BY <1>3, <1>5, JoinedAssociative
<1> QED
  BY <1>6, StreamTyped, JoinedEmpty

\* Every other step leaves the banks, the flusher's bytes and the sink alone.
LEMMA OthersKeepStream ==
  ASSUME UNCHANGED <<bankVars, flushVars, closed>>
  PROVE  Stream' = Stream
<1>1. sink' = sink /\ InFlight' = InFlight /\ Held' = Held /\ Filling' = Filling
  BY DEF InFlight, Held, Filling, bankVars, flushVars
<1> QED
  BY <1>1, StreamParts

\* What a step does to the stream while the sink works, and to the calls: it
\* appends the record of the one call that passes the mutex, or nothing.
LEMMA StreamStep ==
  ASSUME BankInv, [Next]_vars, ~flushErr'
  PROVE  \/ /\ Stream' = Stream
            /\ \A r \in Records : call'[r] = "appended" => call[r] = "appended"
         \/ \E r \in Records : /\ call[r] = "numbered" /\ Stream' = Append(Stream, r)
                               /\ call' = [call EXCEPT ![r] = "appended"]
                               /\ UNCHANGED <<seq, written, dropped, flushErr>>
<1>1. ASSUME NEW r \in Records, AppendToActive(r)
      PROVE  /\ call[r] = "numbered" /\ Stream' = Append(Stream, r)
             /\ call' = [call EXCEPT ![r] = "appended"]
             /\ UNCHANGED <<seq, written, dropped, flushErr>>
  BY <1>1, AppendToActiveGrows DEF AppendToActive, flushVars
<1>2. ASSUME NEW r \in Records, AppendAfterRotation(r)
      PROVE  /\ call[r] = "numbered" /\ Stream' = Append(Stream, r)
             /\ call' = [call EXCEPT ![r] = "appended"]
             /\ UNCHANGED <<seq, written, dropped, flushErr>>
  BY <1>2, AppendAfterRotationGrows DEF AppendAfterRotation, flushVars
<1>3. ASSUME NEW r \in Records, TakeNumber(r) \/ Refuse(r) \/ Count(r)
      PROVE  /\ Stream' = Stream
             /\ \A q \in Records : call'[q] = "appended" => call[q] = "appended"
  <2>1. UNCHANGED <<bankVars, flushVars, closed>>
    BY <1>3 DEF TakeNumber, Refuse, Count, closeVars
  <2>2. \A q \in Records : call'[q] = "appended" => call[q] = "appended"
    BY <1>3 DEF TakeNumber, Refuse, Count, BankInv, TypeOK
  <2> QED
    BY <2>1, <2>2, OthersKeepStream
<1>4. CASE Flushing
  <2>1. Stream' = Stream
    BY <1>4, FlusherTakesKeepsStream, FlusherWritesKeepsStream, FlusherFreesKeepsStream,
       FlusherEndsKeepsStream DEF Flushing
  <2>2. call' = call
    BY <1>4 DEF Flushing, FlusherTakes, FlusherWrites, FlusherFrees, FlusherEnds, recordVars
  <2> QED
    BY <2>1, <2>2
<1>5. CASE Closing
  <2>1. ClosePending \/ CloseReturns => UNCHANGED <<bankVars, flushVars, closed>>
    BY DEF ClosePending, CloseReturns
  <2>2. Stream' = Stream
    BY <1>5, <2>1, CloseRefusesKeepsStream, OthersKeepStream DEF Closing
  <2>3. call' = call
    BY <1>5 DEF Closing, CloseRefuses, ClosePending, CloseReturns, recordVars
  <2> QED
    BY <2>2, <2>3
<1>6. CASE UNCHANGED vars
  <2>1. UNCHANGED <<bankVars, flushVars, closed>> /\ call' = call
    BY <1>6 DEF vars, closeVars, recordVars
  <2> QED
    BY <2>1, OthersKeepStream
<1> QED
  BY <1>1, <1>2, <1>3, <1>4, <1>5, <1>6 DEF Next, Recording

\* While the sink works the stream changes only by a record at its end: no
\* rotation, flush or Close loses, reorders or repeats one ("records reach the
\* file in bank order").
THEOREM StreamGrows == Spec => StreamOnlyGrows
<1>1. BankInv /\ [Next]_vars =>
        [~flushErr' => \/ Stream' = Stream
                       \/ \E r \in Records : call[r] = "numbered" /\ Stream' = Append(Stream, r)]_vars
  BY StreamStep
<1> QED
  BY <1>1, BanksCirculate, PTL DEF Spec, StreamOnlyGrows

-----------------------------------------------------------------------------
(* The counters.                                                           *)

\* The calls the counters lag behind are finitely many.
LEMMA LagFinite ==
  IsFiniteSet(UnderWay) /\ IsFiniteSet(Uncounted)
BY EventWriterAssumption, FS_Subset DEF UnderWay, Uncounted

\* A sink that failed stays failed (bufio's sticky error).
LEMMA FailureIsSticky ==
  ASSUME BankInv, [Next]_vars, ~flushErr'
  PROVE  ~flushErr
BY DEF Next, Recording, TakeNumber, AppendToActive, AppendAfterRotation, Refuse, Count,
       Flushing, FlusherTakes, FlusherWrites, FlusherFrees, FlusherEnds,
       Closing, CloseRefuses, ClosePending, CloseReturns, vars, flushVars

\* Only Record's own steps touch its counters and the calls.
LEMMA OthersKeepCounts ==
  ASSUME [Flushing \/ Closing]_vars
  PROVE  UNCHANGED <<call, seq, written, dropped>>
BY DEF Flushing, FlusherTakes, FlusherWrites, FlusherFrees, FlusherEnds,
       Closing, CloseRefuses, ClosePending, CloseReturns, vars, recordVars

\* A call that appended its record never comes to stand anywhere before that.
LEMMA AppendedStays ==
  ASSUME BankInv, [Next]_vars, NEW q \in Records, call[q] \in {"appended", "returned"}
  PROVE  call'[q] \in {"appended", "returned"}
<1> USE DEF BankInv, TypeOK
<1>1. ASSUME NEW r \in Records, Recording(r)
      PROVE  call'[q] \in {"appended", "returned"}
  BY <1>1 DEF Recording, TakeNumber, AppendToActive, AppendAfterRotation, Refuse, Count
<1>2. CASE [Flushing \/ Closing]_vars
  BY <1>2, OthersKeepCounts
<1> QED
  BY <1>1, <1>2 DEF Next

\* Every step keeps the records in the stream distinct and their calls past
\* the mutex.
LEMMA AcceptedStep ==
  ASSUME BankInv, Accepted, [Next]_vars
  PROVE  Accepted'
<1> SUFFICES ASSUME ~flushErr'
             PROVE  /\ IsInjective(Stream')
                    /\ \A i \in DOMAIN Stream' : call'[Stream'[i]] \in {"appended", "returned"}
  BY DEF Accepted
<1>1. /\ IsInjective(Stream) /\ Stream \in Seq(Records)
      /\ \A i \in DOMAIN Stream : call[Stream[i]] \in {"appended", "returned"}
  BY FailureIsSticky, StreamTyped DEF Accepted
<1>2. \A i \in DOMAIN Stream : call'[Stream[i]] \in {"appended", "returned"}
  <2>1. \A i \in DOMAIN Stream : Stream[i] \in Records
    BY <1>1
  <2> QED
    BY <1>1, <2>1, AppendedStays
<1>3. CASE Stream' = Stream
  BY <1>1, <1>2, <1>3
<1>4. ASSUME NEW r \in Records, call[r] = "numbered", Stream' = Append(Stream, r),
             call' = [call EXCEPT ![r] = "appended"]
      PROVE  /\ IsInjective(Stream')
             /\ \A i \in DOMAIN Stream' : call'[Stream'[i]] \in {"appended", "returned"}
  <2>1. \A i \in DOMAIN Stream : Stream[i] # r
    BY <1>1, <1>4
  <2>2. IsInjective(Stream')
    BY <1>1, <1>4, <2>1, InjectiveAppend
  <2>3. call'[r] = "appended"
    BY <1>4 DEF BankInv, TypeOK
  <2>4. \A i \in DOMAIN Stream' : Stream'[i] = r \/ (i \in DOMAIN Stream /\ Stream'[i] = Stream[i])
    <3>1. /\ DOMAIN Stream = 1 .. Len(Stream) /\ Len(Stream) \in Nat
          /\ DOMAIN Append(Stream, r) = 1 .. Len(Stream) + 1
          /\ Append(Stream, r)[Len(Stream) + 1] = r
          /\ \A i \in 1 .. Len(Stream) : Append(Stream, r)[i] = Stream[i]
      BY <1>1, AppendProperties, LenProperties
    <3> QED
      BY <1>4, <3>1
  <2> QED
    BY <1>2, <2>2, <2>3, <2>4
<1> QED
  BY <1>3, <1>4, StreamStep

\* Every step keeps the counters in step with the calls and the stream.
LEMMA CountedStep ==
  ASSUME BankInv, BankInv', Counted, [Next]_vars
  PROVE  Counted'
<1> USE DEF BankInv
<1> DEFINE U == Cardinality(UnderWay)
           A == Cardinality(Uncounted)
<1>1. U \in Nat /\ A \in Nat /\ seq \in Nat /\ written \in Nat /\ dropped \in Nat
      /\ seq = written + dropped + U
      /\ (~flushErr => Len(Stream) = written + A)
  BY LagFinite, FS_CardinalityType DEF TypeOK, Counted
<1>2. ASSUME NEW r \in Records, TakeNumber(r)
      PROVE  Counted'
  <2>1. /\ call[r] = "idle" /\ call' = [call EXCEPT ![r] = "numbered"] /\ seq' = seq + 1
        /\ UNCHANGED <<written, dropped, flushErr>> /\ Stream' = Stream
    BY <1>2, OthersKeepStream DEF TakeNumber, flushVars, closeVars
  <2>2. UnderWay' = UnderWay \cup {r} /\ r \notin UnderWay /\ Uncounted' = Uncounted
    BY <2>1 DEF UnderWay, Uncounted, TypeOK
  <2>3. Cardinality(UnderWay') = U + 1 /\ Cardinality(Uncounted') = A
    BY <2>2, LagFinite, FS_AddElement
  <2> QED
    BY <1>1, <2>1, <2>3 DEF Counted
<1>3. ASSUME NEW r \in Records, AppendToActive(r) \/ AppendAfterRotation(r)
      PROVE  Counted'
  <2>1. /\ call[r] = "numbered" /\ call' = [call EXCEPT ![r] = "appended"]
        /\ UNCHANGED <<seq, written, dropped, flushErr>> /\ Stream' = Append(Stream, r)
    BY <1>3, AppendToActiveGrows, AppendAfterRotationGrows
       DEF AppendToActive, AppendAfterRotation, flushVars
  <2>2. UnderWay' = UnderWay /\ Uncounted' = Uncounted \cup {r} /\ r \notin Uncounted
    BY <2>1 DEF UnderWay, Uncounted, TypeOK
  <2>3. Cardinality(UnderWay') = U /\ Cardinality(Uncounted') = A + 1
    BY <2>2, LagFinite, FS_AddElement
  <2>4. Len(Stream') = Len(Stream) + 1
    BY <2>1, StreamTyped, AppendProperties
  <2>5. Len(Stream) \in Nat
    BY StreamTyped
  <2>6. seq' = written' + dropped' + Cardinality(UnderWay')
    BY <1>1, <2>1, <2>3
  <2>7. ASSUME ~flushErr' PROVE Len(Stream') = written' + Cardinality(Uncounted')
    <3>1. ~flushErr /\ written' = written
      BY <2>1, <2>7
    <3> QED
      BY <1>1, <2>3, <2>4, <2>5, <3>1
  <2> QED
    BY <2>6, <2>7 DEF Counted
<1>4. ASSUME NEW r \in Records, Refuse(r)
      PROVE  Counted'
  <2>1. /\ call[r] = "numbered" /\ call' = [call EXCEPT ![r] = "refused"]
        /\ UNCHANGED <<seq, written, dropped, flushErr>> /\ Stream' = Stream
    BY <1>4, OthersKeepStream DEF Refuse, flushVars, closeVars
  <2>2. UnderWay' = UnderWay /\ Uncounted' = Uncounted
    BY <2>1 DEF UnderWay, Uncounted, TypeOK
  <2> QED
    BY <1>1, <2>1, <2>2 DEF Counted
<1>5. ASSUME NEW r \in Records, Count(r)
      PROVE  Counted'
  <2>1. /\ call' = [call EXCEPT ![r] = "returned"]
        /\ UNCHANGED <<seq, flushErr>> /\ Stream' = Stream
    BY <1>5, OthersKeepStream DEF Count, flushVars, closeVars
  <2>2. UnderWay' = UnderWay \ {r} /\ r \in UnderWay
    BY <1>5, <2>1 DEF UnderWay, TypeOK, Count
  <2>3. Cardinality(UnderWay') = U - 1
    BY <2>2, LagFinite, FS_RemoveElement
  <2>4. CASE call[r] = "appended"
    <3>1. written' = written + 1 /\ dropped' = dropped
      BY <1>5, <2>4 DEF Count
    <3>2. Uncounted' = Uncounted \ {r} /\ r \in Uncounted
      BY <2>1, <2>4 DEF Uncounted, TypeOK
    <3>3. Cardinality(Uncounted') = A - 1
      BY <3>2, LagFinite, FS_RemoveElement
    <3> QED
      BY <1>1, <2>1, <2>3, <3>1, <3>3 DEF Counted
  <2>5. CASE call[r] = "refused"
    <3>1. written' = written /\ dropped' = dropped + 1
      BY <1>5, <2>5 DEF Count
    <3>2. Uncounted' = Uncounted
      BY <2>1, <2>5 DEF Uncounted, TypeOK
    <3> QED
      BY <1>1, <2>1, <2>3, <3>1, <3>2 DEF Counted
  <2> QED
    BY <1>5, <2>4, <2>5 DEF Count
<1>6. CASE [Flushing \/ Closing]_vars
  <2>1. UNCHANGED <<call, seq, written, dropped>>
    BY <1>6, OthersKeepCounts
  <2>2. UnderWay' = UnderWay /\ Uncounted' = Uncounted
    BY <2>1 DEF UnderWay, Uncounted
  <2>3. ~flushErr' => ~flushErr /\ Stream' = Stream
    <3> SUFFICES ASSUME ~flushErr' PROVE ~flushErr /\ Stream' = Stream
      OBVIOUS
    <3>1. ~flushErr
      BY FailureIsSticky
    <3>2. \A r \in Records : call[r] = "numbered" => call' # [call EXCEPT ![r] = "appended"]
      BY <2>1 DEF TypeOK
    <3> QED
      BY <3>1, <3>2, StreamStep
  <2> QED
    BY <1>1, <2>1, <2>2, <2>3 DEF Counted
<1> QED
  BY <1>2, <1>3, <1>4, <1>5, <1>6 DEF Next, Recording

\* Nothing is written or counted at first.
LEMMA IInit == Init => IInv
<1> SUFFICES ASSUME Init PROVE IInv
  OBVIOUS
<1>1. BankInv
  BY BankInit
<1>2. Stream = <<>>
  <2>1. sink = <<>> /\ InFlight = <<>> /\ Held = <<>> /\ Filling = <<>>
    BY EventWriterAssumption DEF Init, InFlight, Held, Filling, BankIds
  <2>2. FlattenSeq(Held) = <<>>
    BY <2>1 DEF FlattenSeq
  <2>3. Joined(<<>>, <<>>) = <<>>
    BY <1>1, <2>1, StreamTyped, JoinedEmpty
  <2> QED
    BY <2>1, <2>2, <2>3, StreamParts
<1>3. UnderWay = {} /\ Uncounted = {}
  BY DEF Init, UnderWay, Uncounted
<1>4. Counted
  BY <1>2, <1>3, FS_EmptySet DEF Init, Counted
<1>5. Accepted
  BY <1>2 DEF Accepted, IsInjective
<1> QED
  BY <1>1, <1>4, <1>5 DEF IInv

\* The whole invariant holds of every state the writer reaches.
THEOREM Invariant == Spec => []IInv
<1>1. IInv /\ [Next]_vars => IInv'
  BY BankStep, AcceptedStep, CountedStep DEF IInv
<1> QED
  BY <1>1, IInit, PTL DEF Spec

\* A Close that reports no error left every accepted record in the file once,
\* and, with no Record call under way, the counters the runner compares agree
\* with it (Writer.Close, Written, Dropped).
THEOREM CleanCloseIsComplete == Spec => []CleanCloseKeepsAll
<1>1. IInv => CleanCloseKeepsAll
  <2> SUFFICES ASSUME IInv, closer = "returned", ~closeErr
               PROVE  /\ IsInjective(sink)
                      /\ (\A r \in Records : call[r] \in {"idle", "returned"}) =>
                           /\ Len(sink) = written
                           /\ seq = written + dropped
    BY DEF CleanCloseKeepsAll
  <2> USE DEF IInv, BankInv
  <2>1. ~flushErr /\ flusher = "ended" /\ pending = <<>> /\ closed
    BY DEF ClosingOrder
  <2>2. Stream = sink
    <3>1. InFlight = <<>> /\ Held = <<>> /\ Filling = <<>>
      BY <2>1 DEF InFlight, Held, Filling
    <3>2. FlattenSeq(Held) = <<>>
      BY <3>1 DEF FlattenSeq
    <3>3. Joined(sink, <<>>) = sink
      BY StreamTyped, JoinedEmpty
    <3> QED
      BY <3>1, <3>2, <3>3, StreamParts
  <2>3. ASSUME \A r \in Records : call[r] \in {"idle", "returned"}
        PROVE  Len(sink) = written /\ seq = written + dropped
    <3>1. UnderWay = {} /\ Uncounted = {}
      BY <2>3 DEF UnderWay, Uncounted
    <3> QED
      BY <2>1, <2>2, <3>1, FS_EmptySet DEF Counted, TypeOK
  <2> QED
    BY <2>1, <2>2, <2>3 DEF Accepted
<1> QED
  BY <1>1, Invariant, PTL

\* Every field of the writer holds what it can hold: no bank is filled beyond
\* its buffer, and no channel beyond its capacity.
THEOREM TypesHold == Spec => []TypeOK
<1>1. BankInv => TypeOK
  BY DEF BankInv
<1> QED
  BY <1>1, BanksCirculate, PTL

=============================================================================
