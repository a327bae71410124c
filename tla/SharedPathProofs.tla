-------------------------- MODULE SharedPathProofs --------------------------
(***************************************************************************)
(* The proxy, and one cohort on the shared path.                           *)
(*                                                                         *)
(* The first two parts are about module Proxy alone, for every number of   *)
(* calls, every set of cohort ids and every B; they cite no assumption and *)
(* no definition of SharedPath.                                            *)
(*                                                                         *)
(* The inductive invariant says how a formation's fields hang together     *)
(* (Formations), that the registry knows every undecided formation and no  *)
(* cohort id has two (Registered), and what a handler holds at each point  *)
(* of aggregate (Handlers).                                                *)
(*                                                                         *)
(* The second part is about what becomes of a call: the answer it is given *)
(* is its own, the record it leaves tells its fate, and the callers see a  *)
(* proxy that keeps the contract of CohortContract.  It needs to know      *)
(* besides where a call's payload is at each point of its handler          *)
(* (Places): the formation a handler points to still holds its payload at  *)
(* its ordinal unless the formation failed, and a formation whose done was *)
(* closed without a cause has sent its envelope.                           *)
(*                                                                         *)
(* The third part is about the shared path, for every B and every identity *)
(* the load generator may mint: the load generator and the network drive   *)
(* the proxy only through its own steps, so what the first two parts show  *)
(* holds here, and what the validator concludes from the two processes'    *)
(* records is true of what happened.                                       *)
(***************************************************************************)
EXTENDS SharedPath, FiniteSetTheorems, TLAPS

\* The types alone, before anything is known of what an envelope holds.
Typed ==
  /\ pc \in [Calls -> {"idle", "sealing", "executing", "waiting", "forwarding", "returned"}]
  /\ member \in [Calls -> Members \cup {None}]
  /\ ctx \in [Calls -> {"live", "deadline", "cancelled"}]
  /\ joined \in [Calls -> Calls \cup {None}]
  /\ registry \in [Cohorts -> Calls \cup {Unknown, SealedAlready}]
  /\ closed \in BOOLEAN
  /\ slots \in [Calls -> Slots \cup {Released}]
  /\ arrived \in [Calls -> Nat]
  /\ sealed \in [Calls -> BOOLEAN]
  /\ deadline \in [Calls -> {"unset", "armed", "fired", "stopped", "spent"}]
  /\ terminal \in [Calls -> Settlements \cup {None}]
  /\ done \in [Calls -> Nat]
  /\ env = [f \in Calls |-> env[f]]
  /\ sendErr \in [Calls -> BOOLEAN]

\* The ordinals that were admitted to a formation.
Filled(f) == {o \in Ordinals : slots[f][o] # None}

\* A formation nobody opened yet.
Fresh(f) ==
  /\ slots[f] = [o \in Ordinals |-> None]
  /\ arrived[f] = 0
  /\ ~sealed[f]
  /\ terminal[f] = None
  /\ done[f] = 0

\* A formation is open, failed or sealed, and its fields say the same.
FormationOK(f) ==
  /\ deadline[f] = "unset" => Fresh(f)
  /\ deadline[f] # "unset" => pc[f] # "idle" /\ member[f] \in Members
  /\ terminal[f] = None => slots[f] \in Slots /\ arrived[f] = Cardinality(Filled(f))
  /\ sealed[f] <=> arrived[f] >= TargetB
  /\ terminal[f] # None => ~sealed[f] /\ done[f] = 1 /\ terminal[f] # "builder"
  /\ terminal[f] = None /\ ~sealed[f] => done[f] = 0
  /\ done[f] <= 1
  /\ Aggregates /\ env[f] # None => sealed[f] /\ env[f] = slots[f]

Formations == \A f \in Calls : FormationOK(f)

\* What sits in a slot is the payload of a call that asked for that place.
Admitted ==
  \A f \in Calls, o \in Ordinals :
    terminal[f] = None /\ slots[f][o] # None =>
      /\ slots[f][o] \in Calls
      /\ pc[slots[f][o]] # "idle"
      /\ member[slots[f][o]] = [cohort |-> CohortOf(f), ordinal |-> o]

IsOpened(f) == deadline[f] # "unset"

Registered ==
  /\ \A k \in Cohorts : registry[k] \in Calls =>
       IsOpened(registry[k]) /\ CohortOf(registry[k]) = k /\ ~sealed[registry[k]]
  /\ \A f \in Calls : IsOpened(f) => registry[CohortOf(f)] # Unknown
  /\ \A f \in Calls : IsOpened(f) /\ ~Settled(f) => registry[CohortOf(f)] = f
  /\ \A f, g \in Calls : IsOpened(f) /\ IsOpened(g) /\ CohortOf(f) = CohortOf(g) => f = g

\* The handler that completed a cohort, until it closes done.
Sealer(c) == pc[c] \in {"sealing", "executing"}

HandlerOK(c) ==
  /\ pc[c] = "idle" => deadline[c] = "unset" /\ joined[c] = None
  /\ pc[c] \in {"sealing", "executing", "waiting"} =>
       /\ joined[c] \in Calls
       /\ IsOpened(joined[c])
  /\ pc[c] = "forwarding" => member[c] \in Members
  /\ Sealer(c) =>
       /\ Aggregates
       /\ sealed[joined[c]]
       /\ done[joined[c]] = 0
       /\ \A d \in Calls : Sealer(d) /\ joined[d] = joined[c] => d = c

Handlers == \A c \in Calls : HandlerOK(c)

IInv == Typed /\ Formations /\ Admitted /\ Registered /\ Handlers

-----------------------------------------------------------------------------
(* Slots and how many are filled.                                          *)

\* A cohort has B ordinals.
LEMMA OrdinalsFinite ==
  /\ IsFiniteSet(Ordinals)
  /\ Cardinality(Ordinals) = TargetB
BY FS_Interval, ProxyAssumption DEF Ordinals

\* Slots that were let go are no slots: a cohort has at least one ordinal.
LEMMA ReleasedIsNoSlots == Released \notin Slots
<1>1. 0 \in Ordinals
  BY ProxyAssumption DEF Ordinals
<1>2. \A s \in Slots : 0 \in DOMAIN s
  BY <1>1 DEF Slots
<1>3. 0 \notin DOMAIN Released
  BY DEF Released
<1> QED
  BY <1>2, <1>3

\* Admitting a member at a free ordinal fills one slot more.
LEMMA AdmissionFillsOne ==
  ASSUME NEW s \in Slots, NEW o \in Ordinals, NEW c \in Calls, s[o] = None
  PROVE  LET t == [s EXCEPT ![o] = c] IN
         /\ t \in Slots
         /\ Cardinality({p \in Ordinals : t[p] # None}) =
              Cardinality({p \in Ordinals : s[p] # None}) + 1
<1> DEFINE t == [s EXCEPT ![o] = c]
           before == {p \in Ordinals : s[p] # None}
           after == {p \in Ordinals : t[p] # None}
<1>1. t \in Slots
  BY DEF Slots
<1>2. after = before \cup {o}
  BY ProxyAssumption DEF Slots
<1>3. IsFiniteSet(before)
  BY OrdinalsFinite, FS_Subset
<1>4. o \notin before
  OBVIOUS
<1>5. Cardinality(after) = Cardinality(before) + 1
  BY <1>2, <1>3, <1>4, FS_AddElement
<1> QED
  BY <1>1, <1>5

\* A cohort with B members admitted has one at each ordinal.
LEMMA FullMeansEveryOrdinal ==
  ASSUME NEW s \in Slots, Cardinality({o \in Ordinals : s[o] # None}) >= TargetB
  PROVE  \A o \in Ordinals : s[o] \in Calls
<1> DEFINE filled == {o \in Ordinals : s[o] # None}
<1>1. /\ IsFiniteSet(filled)
      /\ Cardinality(filled) <= TargetB
      /\ Cardinality(filled) = TargetB => filled = Ordinals
  BY OrdinalsFinite, FS_Subset
<1>2. Cardinality(filled) \in Nat
  BY <1>1, FS_CardinalityType
<1>3. filled = Ordinals
  BY <1>1, <1>2, ProxyAssumption
<1> QED
  BY <1>3 DEF Slots

-----------------------------------------------------------------------------
(* The inductive invariant holds initially and is preserved by each action. *)

\* Nothing is formed at first.
LEMMA InitInvariant == Init => IInv
<1> SUFFICES ASSUME Init PROVE IInv
  OBVIOUS
<1>1. \A f \in Calls : Filled(f) = {}
  BY DEF Init, Filled
<1>2. Typed
  BY ProxyAssumption DEF Init, Typed, Slots
<1>3. Formations
  <2>1. Cardinality({}) = 0
    BY FS_EmptySet
  <2>2. [o \in Ordinals |-> None] \in Slots
    BY DEF Slots
  <2> SUFFICES ASSUME NEW f \in Calls PROVE FormationOK(f)
    BY DEF Formations
  <2>3. Fresh(f) /\ deadline[f] = "unset" /\ env[f] = None
    BY DEF Init, Fresh
  <2>4. slots[f] \in Slots /\ arrived[f] = Cardinality(Filled(f)) /\ arrived[f] = 0
    BY <1>1, <2>1, <2>2 DEF Init
  <2> QED
    BY <2>3, <2>4, ProxyAssumption DEF FormationOK, Fresh
<1>4. Admitted
  BY DEF Init, Admitted
<1>5. Registered
  BY ProxyAssumption DEF Init, Registered, IsOpened, Unknown, Settled
<1>6. Handlers
  BY DEF Init, Handlers, HandlerOK, Sealer
<1> QED
  BY <1>2, <1>3, <1>4, <1>5, <1>6 DEF IInv

\* A step that leaves the formations, the registry and the members alone only
\* has to keep its promises about handlers.
LEMMA HandlerStep ==
  ASSUME IInv, UNCHANGED <<member, joined, registryVars, formationVars>>,
         pc' \in [Calls -> {"idle", "sealing", "executing", "waiting", "forwarding", "returned"}],
         ctx' \in [Calls -> {"live", "deadline", "cancelled"}],
         \A c \in Calls : pc'[c] = pc[c] \/ pc'[c] = "returned"
  PROVE  IInv'
<1> USE DEF registryVars, formationVars
<1>1. Typed'
  BY DEF IInv, Typed
<1>2. Formations'
  <2>1. \A f \in Calls : Filled(f)' = Filled(f)
    BY DEF Filled
  <2> QED
    BY <2>1 DEF IInv, Formations, FormationOK, Fresh
<1>3. Admitted'
  BY DEF IInv, Admitted, CohortOf, Typed, Slots
<1>4. Registered'
  BY DEF IInv, Registered, IsOpened, Settled, CohortOf
<1>5. Handlers'
  BY DEF IInv, Handlers, HandlerOK, Sealer, IsOpened, Typed
<1> QED
  BY <1>1, <1>2, <1>3, <1>4, <1>5 DEF IInv

\* A rejected submission touches no formation.
LEMMA SubmitRejectedKeeps ==
  ASSUME IInv, NEW c \in Calls, SubmitRejected(c)
  PROVE  IInv'
BY HandlerStep DEF SubmitRejected, IInv, Typed

\* A member that wakes reads its formation and leaves it alone.
LEMMA WakeKeeps ==
  ASSUME IInv, NEW c \in Calls, Wake(c)
  PROVE  IInv'
<1>1. pc' = [pc EXCEPT ![c] = "returned"]
  BY DEF Wake, ReturnOwnResult, Return
<1> QED
  BY <1>1, HandlerStep DEF Wake, IInv, Typed

\* So does one that leaves.
LEMMA LeaveKeeps ==
  ASSUME IInv, NEW c \in Calls, Leave(c)
  PROVE  IInv'
BY HandlerStep DEF Leave, Return, IInv, Typed

\* A context that ends touches no formation.
LEMMA ContextEndsKeeps ==
  ASSUME IInv, NEW c \in Calls, ContextEnds(c)
  PROVE  IInv'
BY HandlerStep DEF ContextEnds, IInv, Typed

\* Nor does an answer to a forwarded call.
LEMMA ForwardAnsweredKeeps ==
  ASSUME IInv, NEW c \in Calls, ForwardAnswered(c)
  PROVE  IInv'
<1>1. pc' = [pc EXCEPT ![c] = "returned"]
  BY DEF ForwardAnswered, ReturnOwnResult, Return
<1> QED
  BY <1>1, HandlerStep DEF ForwardAnswered, IInv, Typed

\* A timer that fires has yet to take the lock.
LEMMA TimerFiresKeeps ==
  ASSUME IInv, NEW g \in Calls, TimerFires(g)
  PROVE  IInv'
<1> USE DEF TimerFires, registryVars, handlerVars
<1>1. Typed'
  BY DEF IInv, Typed
<1>2. Formations'
  <2>1. \A f \in Calls : Filled(f)' = Filled(f)
    BY DEF Filled
  <2> QED
    BY <2>1 DEF IInv, Typed, Formations, FormationOK, Fresh
<1>3. Admitted'
  BY DEF IInv, Admitted, CohortOf
<1>4. \A f \in Calls : IsOpened(f)' <=> IsOpened(f)
  BY DEF IInv, Typed, IsOpened
<1>5. Registered'
  BY <1>4 DEF IInv, Registered, Settled, CohortOf, Typed
<1>6. Handlers'
  BY <1>4 DEF IInv, Handlers, HandlerOK, Sealer, Typed, IsOpened
<1> QED
  BY <1>1, <1>2, <1>3, <1>5, <1>6 DEF IInv


\* sealAndSend up to the send: the formation is sealed, hence full and not
\* failed, so the builder's refusal cannot happen.
LEMMA SealAndSendKeeps ==
  ASSUME IInv, NEW c \in Calls, SealAndSend(c)
  PROVE  IInv'
<1> DEFINE g == joined[c]
<1> USE DEF SealAndSend, registryVars
<1>1. /\ g \in Calls /\ sealed[g] /\ terminal[g] = None /\ slots[g] \in Slots
      /\ IsOpened(g) /\ Aggregates
  BY ProxyAssumption DEF IInv, Handlers, HandlerOK, Sealer, Formations, FormationOK
<1>2. AggregateAccepts(slots[g])
  BY <1>1, ReleasedIsNoSlots DEF AggregateAccepts
<1>3. /\ env' = [env EXCEPT ![g] = slots[g]]
      /\ pc' = [pc EXCEPT ![c] = "executing"]
      /\ UNCHANGED <<slots, terminal, done>>
  BY <1>2
<1>4. Typed'
  BY <1>3 DEF IInv, Typed
<1>5. Formations'
  <2>1. \A f \in Calls : Filled(f)' = Filled(f)
    BY <1>3 DEF Filled
  <2> QED
    BY <1>1, <1>3, <2>1 DEF IInv, Typed, Formations, FormationOK, Fresh
<1>6. Admitted'
  BY <1>3 DEF IInv, Admitted, CohortOf, Typed
<1>7. Registered'
  BY <1>3 DEF IInv, Registered, IsOpened, Settled, CohortOf
<1>8. Handlers'
  BY <1>3 DEF IInv, Handlers, HandlerOK, Sealer, IsOpened, Typed
<1> QED
  BY <1>4, <1>5, <1>6, <1>7, <1>8 DEF IInv

\* The answer of the backend closes done: no other handler holds the seal.
LEMMA BackendAnswersKeeps ==
  ASSUME IInv, NEW c \in Calls, BackendAnswers(c)
  PROVE  IInv'
<1> DEFINE g == joined[c]
<1> USE DEF BackendAnswers, registryVars
<1>1. /\ g \in Calls /\ sealed[g] /\ terminal[g] = None /\ done[g] = 0 /\ IsOpened(g)
      /\ \A d \in Calls : Sealer(d) /\ joined[d] = g => d = c
  BY ProxyAssumption DEF IInv, Handlers, HandlerOK, Sealer, Formations, FormationOK
<1>2. /\ done' = [done EXCEPT ![g] = @ + 1]
      /\ pc' = [pc EXCEPT ![c] = "waiting"]
      /\ sendErr' \in [Calls -> BOOLEAN]
      /\ done' \in [Calls -> Nat]
      /\ pc' \in [Calls -> {"idle", "sealing", "executing", "waiting", "forwarding", "returned"}]
  <2>1. done' = [done EXCEPT ![g] = done[g] + 1] /\ pc' = [pc EXCEPT ![c] = "waiting"]
    OBVIOUS
  <2>2. sendErr' = sendErr \/ sendErr' = [sendErr EXCEPT ![g] = TRUE]
    OBVIOUS
  <2>3. sendErr \in [Calls -> BOOLEAN] /\ done \in [Calls -> Nat]
    BY DEF IInv, Typed
  <2>4. sendErr' \in [Calls -> BOOLEAN]
    BY <2>2, <2>3, Zenon
  <2>5. done' \in [Calls -> Nat]
    BY <2>1, <2>3, <1>1
  <2> QED
    BY <2>1, <2>4, <2>5 DEF IInv, Typed
<1>3. Typed'
  BY <1>1, <1>2 DEF IInv, Typed
<1>4. Formations'
  <2>1. \A f \in Calls : Filled(f)' = Filled(f)
    BY DEF Filled
  <2> QED
    BY <1>1, <1>2, <2>1 DEF IInv, Typed, Formations, FormationOK, Fresh, IsOpened
<1>5. Admitted'
  BY <1>2 DEF IInv, Admitted, CohortOf, Typed
<1>6. Registered'
  BY <1>2 DEF IInv, Registered, IsOpened, Settled, CohortOf
<1>7. Handlers'
  <2> SUFFICES ASSUME NEW d \in Calls PROVE HandlerOK(d)'
    BY DEF Handlers
  <2>1. Sealer(d)' => Sealer(d) /\ d # c
    BY <1>2 DEF Sealer, IInv, Typed
  <2>2. Sealer(d)' => joined[d] # g
    BY <2>1, <1>1
  <2>3. \A e \in Calls : Sealer(e)' => Sealer(e)
    BY <1>2 DEF Sealer, IInv, Typed
  <2> QED
    BY <1>1, <1>2, <2>1, <2>2, <2>3 DEF IInv, Handlers, HandlerOK, Sealer, IsOpened, Typed
<1> QED
  BY <1>3, <1>4, <1>5, <1>6, <1>7 DEF IInv

\* A=off: no formation is touched, and the call was in none.
LEMMA ForwardKeeps ==
  ASSUME IInv, NEW c \in Calls, NEW m \in Members, Forward(c, m)
  PROVE  IInv'
<1> USE DEF Forward, registryVars
<1>1. ~Aggregates /\ deadline[c] = "unset" /\ joined[c] = None
  BY DEF IInv, Handlers, HandlerOK
<1>2. Typed'
  BY DEF IInv, Typed
<1>3. Formations'
  <2>1. \A f \in Calls : Filled(f)' = Filled(f)
    BY DEF Filled
  <2> QED
    BY <1>1, <2>1 DEF IInv, Typed, Formations, FormationOK, Fresh
<1>4. \A f \in Calls : IsOpened(f) => CohortOf(f)' = CohortOf(f)
  BY <1>1 DEF IsOpened, CohortOf, IInv, Typed
<1>5. Admitted'
  <2> SUFFICES ASSUME NEW f \in Calls, NEW o \in Ordinals,
                      terminal[f] = None, slots[f][o] # None
               PROVE  /\ slots[f][o] \in Calls
                      /\ pc'[slots[f][o]] # "idle"
                      /\ member'[slots[f][o]] = [cohort |-> CohortOf(f)', ordinal |-> o]
    BY DEF Admitted
  <2>1. /\ slots[f][o] \in Calls
        /\ pc[slots[f][o]] # "idle"
        /\ member[slots[f][o]] = [cohort |-> CohortOf(f), ordinal |-> o]
    BY DEF IInv, Admitted
  <2>2. IsOpened(f)
    BY DEF IInv, Formations, FormationOK, Fresh, IsOpened
  <2> QED
    BY <2>1, <2>2, <1>4 DEF IInv, Typed
<1>6. Registered'
  BY <1>4 DEF IInv, Registered, IsOpened, Settled, Typed
<1>7. Handlers'
  BY <1>1 DEF IInv, Handlers, HandlerOK, Sealer, IsOpened, Typed
<1> QED
  BY <1>2, <1>3, <1>5, <1>6, <1>7 DEF IInv


-----------------------------------------------------------------------------
(* Failing formations: expire, Close and a malformed arrival.              *)

\* Judging formations that were still forming leaves everyone's invariant:
\* nobody can be holding the seal of one.
LEMMA FailKeepsTyped ==
  ASSUME IInv, NEW F \in SUBSET Calls, NEW cause \in Settlements, FailLocked(F, cause)
  PROVE  /\ terminal' \in [Calls -> Settlements \cup {None}]
         /\ slots' \in [Calls -> Slots \cup {Released}]
         /\ done' \in [Calls -> Nat]
BY DEF IInv, Typed, FailLocked

\* failLocked settles a formation that nobody settled before.
LEMMA FailKeepsFormation ==
  ASSUME IInv, NEW F \in SUBSET Calls, NEW cause \in Settlements \ {"builder"},
         FailLocked(F, cause), UNCHANGED <<arrived, sealed, env>>,
         \A f \in F : ~Settled(f),
         NEW f \in Calls,
         deadline'[f] = "unset" => deadline[f] = "unset" /\ f \notin F,
         deadline'[f] # "unset" => pc'[f] # "idle" /\ member'[f] \in Members
  PROVE  FormationOK(f)'
<1>1. FormationOK(f)
  BY DEF IInv, Formations
<1>2. CASE f \in F
  <2>1. terminal'[f] = cause /\ done'[f] = done[f] + 1
    BY <1>2 DEF FailLocked
  <2>2. ~sealed[f] /\ done[f] = 0
    BY <1>1, <1>2 DEF Settled, FormationOK, IInv, Typed
  <2>3. cause # None
    BY ProxyAssumption DEF Settlements
  <2> QED
    BY <1>1, <1>2, <2>1, <2>2, <2>3 DEF FormationOK, IInv, Typed
<1>3. CASE f \notin F
  <2>1. /\ terminal'[f] = terminal[f]
        /\ done'[f] = done[f]
        /\ slots'[f] = slots[f]
    BY <1>3 DEF FailLocked
  <2>2. Filled(f)' = Filled(f)
    BY <2>1 DEF Filled
  <2> QED
    BY <1>1, <2>1, <2>2 DEF FormationOK, Fresh
<1> QED
  BY <1>2, <1>3

\* expire fails its formation, unless another was faster.
LEMMA ExpireKeeps ==
  ASSUME IInv, NEW g \in Calls, Expire(g)
  PROVE  IInv'
<1> DEFINE F == {g} \ {h \in Calls : Settled(h)}
<1> USE DEF Expire, registryVars, handlerVars
<1>1. F \in SUBSET Calls /\ FailLocked(F, "deadline") /\ "deadline" \in Settlements \ {"builder"}
  BY DEF Settlements
<1>2. \A f \in Calls : IsOpened(f)' <=> IsOpened(f)
  BY DEF IInv, Typed, IsOpened
<1>3. \A f \in F : ~Settled(f) /\ IsOpened(f)
  BY DEF IsOpened
<1>4. Typed'
  BY <1>1, FailKeepsTyped DEF IInv, Typed
<1>5. Formations'
  <2> SUFFICES ASSUME NEW f \in Calls PROVE FormationOK(f)'
    BY DEF Formations
  <2>1. /\ deadline'[f] = "unset" => deadline[f] = "unset" /\ f \notin F
        /\ deadline'[f] # "unset" => pc'[f] # "idle" /\ member'[f] \in Members
    BY <1>2, <1>3 DEF IsOpened, IInv, Formations, FormationOK
  <2> QED
    BY <1>1, <1>3, <2>1, FailKeepsFormation
<1>6. \A f \in Calls : terminal'[f] = None => terminal[f] = None /\ slots'[f] = slots[f]
  BY <1>1, ProxyAssumption DEF FailLocked, Settlements
<1>7. Admitted'
  BY <1>6 DEF IInv, Admitted, CohortOf
<1>8. Registered'
  BY <1>2, <1>6 DEF IInv, Registered, Settled, CohortOf
<1>9. Handlers'
  <2>1. \A c \in Calls : Sealer(c) => joined[c] \notin F
    BY <1>3 DEF IInv, Handlers, HandlerOK, Settled
  <2>2. \A c \in Calls : Sealer(c) => done'[joined[c]] = done[joined[c]]
    BY <1>1, <2>1 DEF FailLocked, IInv, Handlers, HandlerOK, Sealer
  <2> QED
    BY <1>2, <2>2 DEF IInv, Handlers, HandlerOK, Sealer, IsOpened
<1> QED
  BY <1>4, <1>5, <1>7, <1>8, <1>9 DEF IInv

\* Close fails every formation that is not settled.
LEMMA CloseKeeps ==
  ASSUME IInv, Close
  PROVE  IInv'
<1> DEFINE F == {f \in Calls : (\E k \in Cohorts : registry[k] = f) /\ ~Settled(f)}
<1> USE DEF Close, registryVars, handlerVars
<1>1. F \in SUBSET Calls /\ FailLocked(F, "shutdown") /\ "shutdown" \in Settlements \ {"builder"}
  BY DEF Settlements
<1>2. \A f \in F : ~Settled(f) /\ IsOpened(f)
  BY DEF IInv, Registered
<1>3. /\ deadline' \in [Calls -> {"unset", "armed", "fired", "stopped", "spent"}]
      /\ \A f \in Calls : IsOpened(f)' <=> IsOpened(f)
  BY DEF IInv, Typed, IsOpened, Stop
<1>4. Typed'
  BY <1>1, <1>3, FailKeepsTyped DEF IInv, Typed
<1>5. Formations'
  <2> SUFFICES ASSUME NEW f \in Calls PROVE FormationOK(f)'
    BY DEF Formations
  <2>1. /\ deadline'[f] = "unset" => deadline[f] = "unset" /\ f \notin F
        /\ deadline'[f] # "unset" => pc'[f] # "idle" /\ member'[f] \in Members
    BY <1>2, <1>3 DEF IsOpened, IInv, Formations, FormationOK
  <2> QED
    BY <1>1, <1>2, <2>1, FailKeepsFormation
<1>6. \A f \in Calls : terminal'[f] = None => terminal[f] = None /\ slots'[f] = slots[f]
  BY <1>1, ProxyAssumption DEF FailLocked, Settlements
<1>7. Admitted'
  BY <1>6 DEF IInv, Admitted, CohortOf
<1>8. Registered'
  BY <1>3, <1>6 DEF IInv, Registered, Settled, CohortOf
<1>9. Handlers'
  <2>1. \A c \in Calls : Sealer(c) => joined[c] \notin F
    BY <1>2 DEF IInv, Handlers, HandlerOK, Settled
  <2>2. \A c \in Calls : Sealer(c) => done'[joined[c]] = done[joined[c]]
    BY <1>1, <2>1 DEF FailLocked, IInv, Handlers, HandlerOK, Sealer
  <2>3. \A c \in Calls : deadline[c] = "unset" => deadline'[c] = "unset"
    BY <1>3 DEF IsOpened
  <2> QED
    BY <1>3, <2>2, <2>3 DEF IInv, Handlers, HandlerOK, Sealer
<1> QED
  BY <1>4, <1>5, <1>7, <1>8, <1>9 DEF IInv


-----------------------------------------------------------------------------
(* Arrivals.                                                               *)

Arrives(c, m) == pc[c] = "idle" /\ member' = [member EXCEPT ![c] = m]

\* A call that arrives is in no formation yet, so naming its member disturbs
\* no formation and no slot.
LEMMA Newcomer ==
  ASSUME IInv, NEW c \in Calls, NEW m \in Members,
         Arrives(c, m)
  PROVE  /\ deadline[c] = "unset"
         /\ joined[c] = None
         /\ member'[c] = m
         /\ \A f \in Calls : IsOpened(f) => f # c /\ member'[f] = member[f]
         /\ \A d \in Calls : pc[d] # "idle" => d # c /\ member'[d] = member[d]
         /\ member' \in [Calls -> Members \cup {None}]
<1> USE DEF Arrives
<1>1. deadline[c] = "unset" /\ joined[c] = None
  BY DEF IInv, Handlers, HandlerOK
<1>2. member' \in [Calls -> Members \cup {None}] /\ member'[c] = m
  BY DEF IInv, Typed
<1>3. \A f \in Calls : IsOpened(f) => f # c /\ member'[f] = member[f]
  BY <1>1 DEF IsOpened, IInv, Typed
<1>4. \A d \in Calls : pc[d] # "idle" => d # c /\ member'[d] = member[d]
  BY DEF IInv, Typed
<1> QED
  BY <1>1, <1>2, <1>3, <1>4

\* What an arrival knows of the formation it meets.
LEMMA MetFormation ==
  ASSUME IInv, NEW c \in Calls, NEW m \in Members,
         Arrives(c, m),
         Forming(m.cohort), NEW f, f = Met(c, m.cohort)
  PROVE  /\ f \in Calls
         /\ ~Settled(f)
         /\ ~sealed[f]
         /\ terminal[f] = None
         /\ slots[f] \in Slots
         /\ arrived[f] = Cardinality(Filled(f))
         /\ arrived[f] < TargetB
         /\ done[f] = 0
         /\ member'[f].cohort = m.cohort
         /\ Armed(c, m) \in [Calls -> {"unset", "armed", "fired", "stopped", "spent"}]
         /\ \A g \in Calls : Armed(c, m)[g] # "unset" <=> IsOpened(g) \/ g = f
         /\ \A g \in Calls : IsOpened(g) /\ CohortOf(g) = m.cohort => g = f
         /\ \A d \in Calls : Sealer(d) => joined[d] # f
         /\ f = c \/ IsOpened(f)
<1> DEFINE k == m.cohort
<1>1. k \in Cohorts
  BY DEF Members
<1>2. registry[k] \in Calls \cup {Unknown} /\ Unknown \notin Calls
  BY <1>1, ProxyAssumption DEF Forming, Judged, IInv, Typed, Unknown
<1>3. f \in Calls /\ (registry[k] # Unknown => f = registry[k]) /\ (registry[k] = Unknown => f = c)
  BY <1>2 DEF Met
<1>4. CASE registry[k] = Unknown
  <2>1. f = c /\ ~IsOpened(c)
    BY <1>3, <1>4, Newcomer DEF IsOpened
  <2>2. Fresh(c) /\ FormationOK(c)
    BY <2>1 DEF IsOpened, IInv, Formations, FormationOK
  <2>3. \A g \in Calls : IsOpened(g) => CohortOf(g) # k
    BY <1>4 DEF IInv, Registered
  <2>4. Armed(c, m) = [deadline EXCEPT ![c] = "armed"]
    BY <1>4 DEF Armed
  <2>5. /\ ~Settled(f) /\ ~sealed[f] /\ terminal[f] = None
        /\ slots[f] \in Slots /\ arrived[f] = Cardinality(Filled(f))
        /\ arrived[f] < TargetB /\ done[f] = 0
    BY <2>1, <2>2, ProxyAssumption DEF Fresh, FormationOK, Settled
  <2>6. member'[f].cohort = k
    BY <2>1, Newcomer
  <2>7. /\ Armed(c, m) \in [Calls -> {"unset", "armed", "fired", "stopped", "spent"}]
        /\ \A g \in Calls : Armed(c, m)[g] # "unset" <=> IsOpened(g) \/ g = f
    BY <2>1, <2>4 DEF IsOpened, IInv, Typed
  <2>8. \A d \in Calls : Sealer(d) => joined[d] # f
    BY <2>1, <2>2 DEF IInv, Handlers, HandlerOK, Fresh
  <2> QED
    BY <1>3, <2>1, <2>3, <2>5, <2>6, <2>7, <2>8
<1>5. CASE registry[k] # Unknown
  <2>1. f = registry[k] /\ registry[k] \in Calls
    BY <1>2, <1>3, <1>5
  <2>2. IsOpened(f) /\ CohortOf(f) = k /\ ~sealed[f]
    BY <1>1, <2>1 DEF IInv, Registered
  <2>3. terminal[f] = None
    BY <2>1 DEF Forming, Judged
  <2>4. FormationOK(f)
    BY <1>3 DEF IInv, Formations
  <2>5. arrived[f] \in Nat
    BY <1>3 DEF IInv, Typed
  <2>6. /\ ~Settled(f) /\ slots[f] \in Slots /\ arrived[f] = Cardinality(Filled(f))
        /\ arrived[f] < TargetB /\ done[f] = 0
    BY <2>2, <2>3, <2>4, <2>5, ProxyAssumption DEF FormationOK, Settled
  <2>7. member'[f].cohort = k
    BY <1>3, <2>2, Newcomer DEF CohortOf
  <2>8. /\ Armed(c, m) \in [Calls -> {"unset", "armed", "fired", "stopped", "spent"}]
        /\ \A g \in Calls : Armed(c, m)[g] # "unset" <=> IsOpened(g) \/ g = f
    BY <1>5, <2>2 DEF Armed, IsOpened, IInv, Typed
  <2>9. \A g \in Calls : IsOpened(g) /\ CohortOf(g) = k => g = f
    BY <1>3, <2>2 DEF IInv, Registered
  <2>10. \A d \in Calls : Sealer(d) => joined[d] # f
    BY <2>2 DEF IInv, Handlers, HandlerOK
  <2> QED
    BY <1>3, <2>2, <2>3, <2>6, <2>7, <2>8, <2>9, <2>10
<1> QED
  BY <1>4, <1>5

\* The two refusals that touch no formation.
LEMMA JoinRefusedKeeps ==
  ASSUME IInv, NEW c \in Calls, NEW m \in Members,
         Arrives(c, m),
         JoinAfterClose(c) \/ JoinJudged(c, m), UNCHANGED <<ctx, closed>>
  PROVE  IInv'
<1>1. /\ pc' = [pc EXCEPT ![c] = "returned"]
      /\ UNCHANGED <<joined, registry, closed, ctx, formationVars>>
  BY DEF JoinAfterClose, JoinJudged, Refuse, Return
<1> USE <1>1 DEF formationVars
<1>2. Typed'
  BY Newcomer DEF IInv, Typed
<1>3. Formations'
  <2>1. \A f \in Calls : Filled(f)' = Filled(f)
    BY DEF Filled
  <2>2. \A f \in Calls : deadline[f] # "unset" => pc'[f] # "idle" /\ member'[f] \in Members
    BY Newcomer DEF IInv, Typed, Formations, FormationOK
  <2> QED
    BY <2>1, <2>2 DEF IInv, Formations, FormationOK, Fresh
<1>4. \A f \in Calls : terminal[f] = None /\ ~IsOpened(f) => \A o \in Ordinals : slots[f][o] = None
  BY DEF IInv, Formations, FormationOK, Fresh, IsOpened
<1>5. Admitted'
  <2> SUFFICES ASSUME NEW f \in Calls, NEW o \in Ordinals,
                      terminal[f] = None, slots[f][o] # None
               PROVE  /\ slots[f][o] \in Calls
                      /\ pc'[slots[f][o]] # "idle"
                      /\ member'[slots[f][o]] = [cohort |-> member'[f].cohort, ordinal |-> o]
    BY DEF Admitted, CohortOf
  <2>1. /\ slots[f][o] \in Calls
        /\ pc[slots[f][o]] # "idle"
        /\ member[slots[f][o]] = [cohort |-> CohortOf(f), ordinal |-> o]
    BY DEF IInv, Admitted
  <2>2. IsOpened(f)
    BY <1>4
  <2> QED
    BY <2>1, <2>2, Newcomer DEF IInv, Typed, CohortOf
<1>6. Registered'
  <2>1. \A f \in Calls : IsOpened(f) => CohortOf(f)' = CohortOf(f)
    BY Newcomer DEF CohortOf
  <2>2. \A f \in Calls : IsOpened(f)' <=> IsOpened(f)
    BY DEF IsOpened
  <2> QED
    BY <2>1, <2>2 DEF IInv, Registered, Settled
<1>7. Handlers'
  BY Newcomer DEF IInv, Handlers, HandlerOK, Sealer, IsOpened, Typed
<1> QED
  BY <1>2, <1>3, <1>5, <1>6, <1>7 DEF IInv


\* A malformed arrival fails the formation it meets, which it may have opened.
LEMMA JoinMalformedKeeps ==
  ASSUME IInv, NEW c \in Calls, NEW m \in Members,
         Arrives(c, m),
         JoinMalformed(c, m), UNCHANGED <<ctx, closed>>,
         NEW g, g = Met(c, m.cohort)
  PROVE  IInv'
<1> DEFINE k == m.cohort
           cause == IF m.ordinal >= TargetB THEN "ordinalOutside" ELSE "arrivedTwice"
<1>1. /\ Forming(k)
      /\ FailLocked({g}, cause)
      /\ registry' = [registry EXCEPT ![k] = g]
      /\ deadline' = Armed(c, m)
      /\ pc' = [pc EXCEPT ![c] = "returned"]
      /\ UNCHANGED <<joined, arrived, sealed, env, sendErr>>
  BY DEF JoinMalformed, Refuse, Return
<1>2. /\ g \in Calls /\ ~Settled(g) /\ ~sealed[g] /\ terminal[g] = None
      /\ member'[g].cohort = k
      /\ deadline' \in [Calls -> {"unset", "armed", "fired", "stopped", "spent"}]
      /\ \A h \in Calls : deadline'[h] # "unset" <=> IsOpened(h) \/ h = g
      /\ \A h \in Calls : IsOpened(h) /\ CohortOf(h) = k => h = g
      /\ \A d \in Calls : Sealer(d) => joined[d] # g
      /\ g = c \/ IsOpened(g)
  <2>1. Forming(m.cohort)
    BY <1>1
  <2>2. /\ g \in Calls /\ ~Settled(g) /\ ~sealed[g] /\ terminal[g] = None
        /\ member'[g].cohort = m.cohort
        /\ Armed(c, m) \in [Calls -> {"unset", "armed", "fired", "stopped", "spent"}]
        /\ \A h \in Calls : Armed(c, m)[h] # "unset" <=> IsOpened(h) \/ h = g
        /\ \A h \in Calls : IsOpened(h) /\ CohortOf(h) = m.cohort => h = g
        /\ \A d \in Calls : Sealer(d) => joined[d] # g
        /\ g = c \/ IsOpened(g)
    BY <2>1, MetFormation
  <2> QED
    BY <1>1, <2>2
<1>3. k \in Cohorts /\ cause \in Settlements \ {"builder"}
  BY DEF Members, Settlements
<1>4. {g} \in SUBSET Calls /\ \A f \in {g} : ~Settled(f)
  BY <1>2
<1>5. /\ terminal' \in [Calls -> Settlements \cup {None}]
      /\ slots' \in [Calls -> Slots \cup {Released}]
      /\ done' \in [Calls -> Nat]
  BY <1>1, <1>3, <1>4, FailKeepsTyped
<1>6. Typed'
  BY <1>1, <1>2, <1>5, Newcomer DEF IInv, Typed
<1>7. \A f \in Calls : IsOpened(f) => CohortOf(f)' = CohortOf(f)
  BY Newcomer DEF CohortOf
<1>8. \A f \in Calls : f # g => /\ terminal'[f] = terminal[f]
                                /\ slots'[f] = slots[f]
                                /\ done'[f] = done[f]
  BY <1>1 DEF FailLocked
<1>9. terminal'[g] # None
  BY <1>1, <1>2, <1>3, ProxyAssumption DEF FailLocked, Settlements
<1>10. Formations'
  <2> SUFFICES ASSUME NEW f \in Calls PROVE FormationOK(f)'
    BY DEF Formations
  <2>1. deadline'[f] = "unset" => deadline[f] = "unset" /\ f \notin {g}
    BY <1>2 DEF IsOpened
  <2>2. deadline'[f] # "unset" => pc'[f] # "idle" /\ member'[f] \in Members
    BY <1>1, <1>2, Newcomer DEF IsOpened, IInv, Typed, Formations, FormationOK
  <2>3. UNCHANGED <<arrived, sealed, env>>
    BY <1>1
  <2> QED
    BY <1>1, <1>3, <1>4, <2>1, <2>2, <2>3, FailKeepsFormation
<1>11. Admitted'
  <2> SUFFICES ASSUME NEW f \in Calls, NEW o \in Ordinals,
                      terminal'[f] = None, slots'[f][o] # None
               PROVE  /\ slots'[f][o] \in Calls
                      /\ pc'[slots'[f][o]] # "idle"
                      /\ member'[slots'[f][o]] = [cohort |-> member'[f].cohort, ordinal |-> o]
    BY DEF Admitted, CohortOf
  <2>1. f # g /\ terminal[f] = None /\ slots'[f] = slots[f]
    BY <1>8, <1>9
  <2>2. /\ slots[f][o] \in Calls
        /\ pc[slots[f][o]] # "idle"
        /\ member[slots[f][o]] = [cohort |-> CohortOf(f), ordinal |-> o]
    BY <2>1 DEF IInv, Admitted
  <2>3. IsOpened(f)
    BY <2>1 DEF IInv, Formations, FormationOK, Fresh, IsOpened
  <2> QED
    BY <1>1, <2>1, <2>2, <2>3, Newcomer DEF IInv, Typed, CohortOf
<1>12. Registered'
  <2>1. \A f \in Calls : IsOpened(f)' <=> IsOpened(f) \/ f = g
    BY <1>2 DEF IsOpened
  <2>2. CohortOf(g)' = k
    BY <1>2 DEF CohortOf
  <2>3. \A f \in Calls : IsOpened(f) /\ f # g => CohortOf(f) # k
    BY <1>2
  <2>4. \A f \in Calls : IsOpened(f) => CohortOf(f) \in Cohorts
    BY DEF IInv, Formations, FormationOK, IsOpened, CohortOf, Members
  <2>5. g # Unknown
    BY <1>2, ProxyAssumption DEF Unknown
  <2>6. /\ registry'[k] = g
        /\ \A j \in Cohorts : j # k => registry'[j] = registry[j]
    BY <1>1, <1>3 DEF IInv, Typed
  <2>7. ASSUME NEW j \in Cohorts, registry'[j] \in Calls
        PROVE  /\ deadline'[registry'[j]] # "unset"
               /\ member'[registry'[j]].cohort = j
               /\ ~sealed'[registry'[j]]
    <3>1. CASE j = k
      BY <3>1, <1>1, <1>2, <2>6
    <3>2. CASE j # k
      <4>1. /\ registry'[j] = registry[j]
            /\ IsOpened(registry[j]) /\ CohortOf(registry[j]) = j /\ ~sealed[registry[j]]
        BY <3>2, <2>6, <2>7 DEF IInv, Registered
      <4> QED
        BY <4>1, <2>7, <1>1, <1>2, <1>7 DEF CohortOf
    <3> QED
      BY <3>1, <3>2
  <2>8. \A f \in Calls : IsOpened(f)' => registry'[CohortOf(f)'] # Unknown
    BY <1>2, <1>3, <1>7, <2>1, <2>2, <2>3, <2>4, <2>5, <2>6 DEF IInv, Registered
  <2>9. \A f \in Calls : IsOpened(f)' /\ ~Settled(f)' => registry'[CohortOf(f)'] = f
    BY <1>1, <1>7, <1>8, <1>9, <2>1, <2>3, <2>4, <2>6 DEF IInv, Registered, Settled
  <2>10. \A f, h \in Calls : IsOpened(f)' /\ IsOpened(h)' /\ CohortOf(f)' = CohortOf(h)' => f = h
    BY <1>7, <2>1, <2>2, <2>3 DEF IInv, Registered
  <2> QED
    BY <2>7, <2>8, <2>9, <2>10 DEF Registered, IsOpened, CohortOf
<1>13. Handlers'
  <2>1. \A d \in Calls : Sealer(d)' <=> Sealer(d)
    BY <1>1 DEF Arrives, Sealer, IInv, Typed
  <2>2. \A d \in Calls : Sealer(d) => done'[joined[d]] = done[joined[d]]
    BY <1>2, <1>8 DEF IInv, Handlers, HandlerOK, Sealer
  <2>3. \A f \in Calls : IsOpened(f) => IsOpened(f)'
    BY <1>2 DEF IsOpened
  <2>4. \A d \in Calls : pc'[d] = "idle" => d # c /\ pc[d] = "idle"
    BY <1>1 DEF IInv, Typed
  <2>5. \A d \in Calls : pc'[d] = "idle" => deadline'[d] = "unset"
    BY <1>2, <2>4 DEF IInv, Handlers, HandlerOK, IsOpened, Formations, FormationOK
  <2>6. \A d \in Calls : pc'[d] \in {"sealing", "executing", "waiting"} => pc'[d] = pc[d]
    BY <1>1 DEF IInv, Typed
  <2>7. \A d \in Calls : pc'[d] = "forwarding" => member'[d] \in Members
    <3>1. \A d \in Calls : pc'[d] = "forwarding" => pc[d] = "forwarding"
      BY <1>1 DEF IInv, Typed
    <3> QED
      BY <3>1, Newcomer DEF IInv, Handlers, HandlerOK
  <2> QED
    BY <1>1, <2>1, <2>2, <2>3, <2>4, <2>5, <2>6, <2>7 DEF IInv, Handlers, HandlerOK
<1> QED
  BY <1>6, <1>10, <1>11, <1>12, <1>13 DEF IInv


\* An admission: member c takes its free slot of formation g.  It either stays
\* held (full = FALSE) or completes the cohort and holds its seal.
Admits(c, m, g, full) ==
  /\ ~Malformed(g, m)
  /\ full <=> arrived[g] + 1 >= TargetB
  /\ slots' = [slots EXCEPT ![g][m.ordinal] = c]
  /\ arrived' = [arrived EXCEPT ![g] = @ + 1]
  /\ sealed' = [sealed EXCEPT ![g] = full]
  /\ registry' = [registry EXCEPT ![m.cohort] = IF full THEN SealedAlready ELSE g]
  /\ \A h \in Calls : deadline'[h] # "unset" <=> Armed(c, m)[h] # "unset"
  /\ deadline' \in [Calls -> {"unset", "armed", "fired", "stopped", "spent"}]
  /\ joined' = [joined EXCEPT ![c] = g]
  /\ pc' = [pc EXCEPT ![c] = IF full THEN "sealing" ELSE "waiting"]
  /\ UNCHANGED <<terminal, done, env, sendErr, ctx, closed>>

\* join admits a member: one slot and one arrival more, and the last one seals.
LEMMA AdmitKeeps ==
  ASSUME IInv, NEW c \in Calls, NEW m \in Members, NEW g, NEW full \in BOOLEAN,
         Aggregates, Arrives(c, m), Forming(m.cohort), g = Met(c, m.cohort),
         Admits(c, m, g, full)
  PROVE  IInv'
<1> DEFINE k == m.cohort
           o0 == m.ordinal
<1>1. /\ g \in Calls /\ ~Settled(g) /\ ~sealed[g] /\ terminal[g] = None
      /\ slots[g] \in Slots /\ arrived[g] = Cardinality(Filled(g))
      /\ arrived[g] < TargetB /\ done[g] = 0
      /\ member'[g].cohort = k
      /\ \A h \in Calls : Armed(c, m)[h] # "unset" <=> IsOpened(h) \/ h = g
      /\ \A h \in Calls : IsOpened(h) /\ CohortOf(h) = k => h = g
      /\ \A d \in Calls : Sealer(d) => joined[d] # g
      /\ g = c \/ IsOpened(g)
  BY MetFormation
<1>2. k \in Cohorts /\ o0 \in Ordinals /\ slots[g][o0] = None
  BY ProxyAssumption DEF Admits, Malformed, Members, Ordinals
<1>3. /\ slots' = [slots EXCEPT ![g] = [slots[g] EXCEPT ![o0] = c]]
      /\ [slots[g] EXCEPT ![o0] = c] \in Slots
      /\ Cardinality({p \in Ordinals : [slots[g] EXCEPT ![o0] = c][p] # None}) = arrived[g] + 1
  BY <1>1, <1>2, AdmissionFillsOne DEF Admits, Filled
<1>4. /\ \A f \in Calls : IsOpened(f)' <=> IsOpened(f) \/ f = g
      /\ \A f \in Calls : IsOpened(f) => CohortOf(f)' = CohortOf(f)
  BY <1>1, Newcomer DEF Admits, IsOpened, CohortOf
<1>5. Typed'
  BY <1>1, <1>2, <1>3, Newcomer DEF Admits, IInv, Typed
<1>6. slots'[g] = [slots[g] EXCEPT ![o0] = c] /\ \A f \in Calls : f # g => slots'[f] = slots[f]
  BY <1>1, <1>3 DEF IInv, Typed
<1>7. /\ arrived'[g] = arrived[g] + 1 /\ sealed'[g] = full
      /\ \A f \in Calls : f # g => arrived'[f] = arrived[f] /\ sealed'[f] = sealed[f]
  BY <1>1 DEF Admits, IInv, Typed
<1>8. /\ pc'[c] = (IF full THEN "sealing" ELSE "waiting") /\ joined'[c] = g
      /\ \A d \in Calls : d # c => pc'[d] = pc[d] /\ joined'[d] = joined[d]
  BY DEF Admits, IInv, Typed
<1>9. Formations'
  <2> SUFFICES ASSUME NEW f \in Calls PROVE FormationOK(f)'
    BY DEF Formations
  <2>1. UNCHANGED <<terminal, done, env>>
    BY DEF Admits
  <2>2. FormationOK(f)
    BY DEF IInv, Formations
  <2>3. IsOpened(f)' => pc'[f] # "idle" /\ member'[f] \in Members
    BY <1>1, <1>4, <1>8, <2>2, Newcomer DEF IInv, Typed, FormationOK, IsOpened
  <2>4. CASE f = g
    <3>1. Filled(g)' = {p \in Ordinals : [slots[g] EXCEPT ![o0] = c][p] # None}
      BY <1>6 DEF Filled
    <3>2. arrived'[g] = Cardinality(Filled(g)') /\ slots'[g] \in Slots
      BY <1>3, <1>6, <1>7, <3>1
    <3>3. sealed'[g] <=> arrived'[g] >= TargetB
      BY <1>7 DEF Admits
    <3>4. deadline'[g] # "unset"
      BY <1>1, <1>4 DEF IsOpened
    <3>5. Aggregates /\ env[g] # None => FALSE
      BY <1>1, <2>2, <2>4 DEF FormationOK
    <3>6. done[g] <= 1
      BY <1>1
    <3> QED
      BY <1>1, <2>1, <2>3, <2>4, <3>2, <3>3, <3>4, <3>5, <3>6 DEF FormationOK, IsOpened
  <2>5. CASE f # g
    <3>1. Filled(f)' = Filled(f)
      BY <1>6, <2>5 DEF Filled
    <3>2. IsOpened(f)' <=> IsOpened(f)
      BY <1>4, <2>5
    <3> QED
      BY <1>6, <1>7, <2>1, <2>2, <2>3, <2>5, <3>1, <3>2 DEF FormationOK, Fresh, IsOpened
  <2> QED
    BY <2>4, <2>5
<1>10. Admitted'
  <2> SUFFICES ASSUME NEW f \in Calls, NEW o \in Ordinals,
                      terminal'[f] = None, slots'[f][o] # None
               PROVE  /\ slots'[f][o] \in Calls
                      /\ pc'[slots'[f][o]] # "idle"
                      /\ member'[slots'[f][o]] = [cohort |-> member'[f].cohort, ordinal |-> o]
    BY DEF Admitted, CohortOf
  <2>1. terminal[f] = None
    BY DEF Admits
  <2>2. CASE f = g /\ o = o0
    <3>1. slots'[f][o] = c
      BY <1>1, <1>2, <1>6, <2>2 DEF Slots
    <3>2. member'[c] = m /\ m = [cohort |-> k, ordinal |-> o0]
      BY Newcomer DEF Members
    <3> QED
      BY <1>1, <1>8, <2>2, <3>1, <3>2
  <2>3. CASE ~(f = g /\ o = o0)
    <3>1. slots'[f][o] = slots[f][o]
      BY <1>1, <1>6, <2>3 DEF Slots
    <3>2. /\ slots[f][o] \in Calls
          /\ pc[slots[f][o]] # "idle"
          /\ member[slots[f][o]] = [cohort |-> CohortOf(f), ordinal |-> o]
      BY <2>1, <3>1 DEF IInv, Admitted
    <3>3. IsOpened(f)
      BY <2>1, <3>1 DEF IInv, Formations, FormationOK, Fresh, IsOpened
    <3> QED
      BY <1>8, <3>1, <3>2, <3>3, Newcomer DEF CohortOf
  <2> QED
    BY <2>2, <2>3
<1>11. Registered'
  <2>1. g # Unknown /\ SealedAlready # Unknown /\ SealedAlready \notin Calls
    BY <1>1, ProxyAssumption DEF Unknown, SealedAlready
  <2>2. /\ registry'[k] = IF full THEN SealedAlready ELSE g
        /\ \A j \in Cohorts : j # k => registry'[j] = registry[j]
    BY <1>2 DEF Admits, IInv, Typed
  <2>3. \A f \in Calls : IsOpened(f) => CohortOf(f) \in Cohorts
    BY DEF IInv, Formations, FormationOK, IsOpened, CohortOf, Members
  <2>4. CohortOf(g)' = k
    BY <1>1 DEF CohortOf
  <2>5. \A f \in Calls : IsOpened(f) /\ f # g => CohortOf(f) # k
    BY <1>1
  <2>6. UNCHANGED terminal
    BY DEF Admits
  <2>7. ASSUME NEW j \in Cohorts, registry'[j] \in Calls
        PROVE  /\ deadline'[registry'[j]] # "unset"
               /\ member'[registry'[j]].cohort = j
               /\ ~sealed'[registry'[j]]
    <3>1. CASE j = k
      <4>1. registry'[j] = g /\ ~full
        BY <2>1, <2>2, <2>7, <3>1
      <4> QED
        BY <4>1, <3>1, <1>1, <1>4, <1>7 DEF IsOpened
    <3>2. CASE j # k
      <4>1. /\ registry'[j] = registry[j]
            /\ IsOpened(registry[j]) /\ CohortOf(registry[j]) = j /\ ~sealed[registry[j]]
        BY <3>2, <2>2, <2>7 DEF IInv, Registered
      <4>2. registry[j] # g
        BY <1>1, <2>7, <3>2, <4>1, Newcomer DEF CohortOf
      <4> QED
        BY <4>1, <4>2, <2>7, <1>4, <1>7 DEF CohortOf, IsOpened
    <3> QED
      BY <3>1, <3>2
  <2>8. \A f \in Calls : IsOpened(f)' => registry'[CohortOf(f)'] # Unknown
    BY <1>2, <1>4, <2>1, <2>2, <2>3, <2>4, <2>5 DEF IInv, Registered
  <2>9. \A f \in Calls : IsOpened(f)' /\ ~Settled(f)' => registry'[CohortOf(f)'] = f
    BY <1>2, <1>4, <1>7, <2>2, <2>3, <2>4, <2>5, <2>6 DEF IInv, Registered, Settled
  <2>10. \A f, h \in Calls : IsOpened(f)' /\ IsOpened(h)' /\ CohortOf(f)' = CohortOf(h)' => f = h
    BY <1>4, <2>4, <2>5 DEF IInv, Registered
  <2> QED
    BY <2>7, <2>8, <2>9, <2>10 DEF Registered, IsOpened, CohortOf
<1>12. Handlers'
  <2> SUFFICES ASSUME NEW d \in Calls PROVE HandlerOK(d)'
    BY DEF Handlers
  <2>1. UNCHANGED done
    BY DEF Admits
  <2>2. \A e \in Calls : e # c => (Sealer(e)' <=> Sealer(e))
    BY <1>8 DEF Sealer
  <2>3. CASE d = c
    <3>1. IsOpened(g)' /\ done[g] = 0
      BY <1>1, <1>4
    <3>2. Sealer(c)' => full
      BY <1>8 DEF Sealer
    <3>3. \A e \in Calls : e # c /\ Sealer(e)' => joined'[e] # g
      BY <1>1, <1>8, <2>2
    <3> QED
      BY <1>1, <1>7, <1>8, <2>1, <2>3, <3>1, <3>2, <3>3 DEF HandlerOK, IsOpened
  <2>4. CASE d # c
    <3>1. HandlerOK(d) /\ pc'[d] = pc[d] /\ joined'[d] = joined[d]
      BY <1>8, <2>4 DEF IInv, Handlers
    <3>2. pc[d] = "idle" => deadline'[d] = "unset"
      BY <1>1, <1>4, <2>4, <3>1 DEF IInv, Formations, FormationOK, IsOpened, HandlerOK
    <3>3. Sealer(d) => joined[d] # g /\ sealed'[joined[d]]
      BY <1>1, <1>7, <3>1 DEF HandlerOK, Sealer
    <3>4. \A e \in Calls : Sealer(e)' /\ joined'[e] = joined'[d] /\ Sealer(d)' => e = d
      BY <1>8, <2>2, <2>4, <3>1, <3>3 DEF HandlerOK
    <3>5. pc[d] \in {"sealing", "executing", "waiting"} => deadline'[joined[d]] # "unset"
      BY <1>4, <3>1 DEF HandlerOK, IsOpened
    <3>6. pc[d] = "forwarding" => member'[d] \in Members
      BY <3>1, Newcomer DEF HandlerOK
    <3> QED
      BY <2>1, <2>2, <2>4, <3>1, <3>2, <3>3, <3>4, <3>5, <3>6 DEF HandlerOK, IsOpened
  <2> QED
    BY <2>3, <2>4
<1> QED
  BY <1>5, <1>9, <1>10, <1>11, <1>12 DEF IInv


\* What Submit does at A=on: it refuses without touching a formation, fails the
\* one the call meets, or admits the call to it.
LEMMA SubmitCases ==
  ASSUME IInv, NEW c \in Calls, NEW m \in Members, Submit(c, m),
         NEW g, g = Met(c, m.cohort)
  PROVE  /\ Aggregates /\ Arrives(c, m) /\ UNCHANGED <<ctx, closed>>
         /\ \/ JoinAfterClose(c) \/ JoinJudged(c, m)
            \/ JoinMalformed(c, m)
            \/ /\ Forming(m.cohort)
               /\ \E full \in BOOLEAN : Admits(c, m, g, full)
               /\ UNCHANGED <<answer, record, resp>>
<1>1. Aggregates /\ Arrives(c, m) /\ UNCHANGED <<ctx, closed>>
  BY DEF Submit, Arrives
<1>5. ASSUME Forming(m.cohort)
      PROVE  /\ g \in Calls /\ ~sealed[g] /\ arrived[g] \in Nat
             /\ Armed(c, m) \in [Calls -> {"unset", "armed", "fired", "stopped", "spent"}]
  BY <1>1, <1>5, MetFormation DEF IInv, Typed
<1>6. CASE JoinHeld(c, m)
  <2>1. Forming(m.cohort)
    BY <1>6 DEF JoinHeld
  <2>2. ~(arrived[g] + 1 >= TargetB)
    BY <1>5, <1>6, <2>1, ProxyAssumption DEF JoinHeld
  <2>3. sealed' = [sealed EXCEPT ![g] = FALSE]
    BY <1>5, <1>6, <2>1 DEF JoinHeld, IInv, Typed
  <2>4. Admits(c, m, g, FALSE)
    BY <1>1, <1>5, <1>6, <2>1, <2>2, <2>3 DEF JoinHeld, Admits
  <2> QED
    BY <1>1, <1>6, <2>1, <2>4 DEF JoinHeld
<1>7. CASE JoinCompletes(c, m)
  <2>1. Forming(m.cohort)
    BY <1>7 DEF JoinCompletes
  <2>2. deadline' = [Armed(c, m) EXCEPT ![g] = Stop(@)]
    BY <1>7 DEF JoinCompletes
  <2>3. /\ deadline' \in [Calls -> {"unset", "armed", "fired", "stopped", "spent"}]
        /\ \A h \in Calls : deadline'[h] # "unset" <=> Armed(c, m)[h] # "unset"
    BY <1>5, <2>1, <2>2 DEF Stop
  <2>4. Admits(c, m, g, TRUE)
    BY <1>1, <1>7, <2>3 DEF JoinCompletes, Admits, VerdictAfterSeal
  <2> QED
    BY <1>1, <1>7, <2>1, <2>4 DEF JoinCompletes
<1> QED
  BY <1>1, <1>6, <1>7 DEF Submit

\* Submit, in all the ways it can go.
LEMMA SubmitKeeps ==
  ASSUME IInv, NEW c \in Calls, NEW m \in Members, Submit(c, m)
  PROVE  IInv'
<1>1. PICK g : g = Met(c, m.cohort)
  OBVIOUS
<1>2. Aggregates /\ Arrives(c, m) /\ UNCHANGED <<ctx, closed>>
  BY <1>1, SubmitCases
<1>3. \/ JoinAfterClose(c) \/ JoinJudged(c, m)
      \/ JoinMalformed(c, m)
      \/ Forming(m.cohort) /\ \E full \in BOOLEAN : Admits(c, m, g, full)
  BY <1>1, SubmitCases
<1> QED
  BY <1>1, <1>2, <1>3, JoinRefusedKeeps, JoinMalformedKeeps, AdmitKeeps

\* The invariant is inductive: one case for each action.
LEMMA StepKeeps == IInv /\ [Next]_vars => IInv'
<1> SUFFICES ASSUME IInv, [Next]_vars PROVE IInv'
  OBVIOUS
<1>1. ASSUME NEW c \in Calls, NEW m \in Members, Submit(c, m) PROVE IInv'
  BY <1>1, SubmitKeeps
<1>2. ASSUME NEW c \in Calls, NEW m \in Members, Forward(c, m) PROVE IInv'
  BY <1>2, ForwardKeeps
<1>3. ASSUME NEW c \in Calls, SubmitRejected(c) PROVE IInv'
  BY <1>3, SubmitRejectedKeeps
<1>4. ASSUME NEW c \in Calls, Handler(c) PROVE IInv'
  BY <1>4, SealAndSendKeeps, BackendAnswersKeeps, WakeKeeps, LeaveKeeps, ForwardAnsweredKeeps
     DEF Handler
<1>5. ASSUME NEW c \in Calls, ContextEnds(c) PROVE IInv'
  BY <1>5, ContextEndsKeeps
<1>6. ASSUME NEW f \in Calls, TimerFires(f) \/ Expire(f) PROVE IInv'
  BY <1>6, TimerFiresKeeps, ExpireKeeps
<1>7. CASE Close
  BY <1>7, CloseKeeps
<1>8. CASE UNCHANGED vars
  <2>1. \A c \in Calls : pc'[c] = pc[c]
    BY <1>8 DEF vars, handlerVars
  <2> QED
    BY <1>8, <2>1, HandlerStep DEF vars, handlerVars, IInv, Typed
<1> QED
  BY <1>1, <1>2, <1>3, <1>4, <1>5, <1>6, <1>7, <1>8 DEF Next

\* The formation, registry and handler parts hold together in every state.
THEOREM Invariant == Spec => []IInv
BY InitInvariant, StepKeeps, PTL DEF Spec

-----------------------------------------------------------------------------
(* What follows.                                                           *)

\* done closes at most once, whoever settles the formation: no interleaving of
\* the sealing member, the timer, Close and malformed arrivals panics the proxy.
THEOREM DoneClosesOnce == Spec => []ClosedOnce
<1>1. IInv => ClosedOnce
  BY DEF IInv, Formations, FormationOK, ClosedOnce
<1> QED
  BY <1>1, Invariant, PTL

\* One cohort id never sends two envelopes, for any number of late arrivals.
THEOREM CohortTravelsOnce == Spec => []OneEnvelopePerCohort
<1>1. IInv => OneEnvelopePerCohort
  <2> SUFFICES ASSUME IInv, Aggregates, NEW f \in Calls, NEW g \in Calls,
                      env[f] # None, env[g] # None, CohortOf(f) = CohortOf(g)
               PROVE  f = g
    BY DEF OneEnvelopePerCohort
  <2>1. sealed[f] /\ sealed[g]
    BY DEF IInv, Formations, FormationOK
  <2>2. IsOpened(f) /\ IsOpened(g)
    BY <2>1 DEF IInv, Formations, FormationOK, Fresh, IsOpened
  <2> QED
    BY <2>2 DEF IInv, Registered
<1> QED
  BY <1>1, Invariant, PTL

\* An envelope was built from B filled slots, so no ordinal is missing.
LEMMA WholeEnvelope == IInv => EnvelopeIsItsCohort
<1> SUFFICES ASSUME IInv, Aggregates, NEW f \in Calls, env[f] # None
             PROVE  /\ DOMAIN env[f] = Ordinals
                    /\ \A o \in Ordinals :
                         /\ env[f][o] \in Calls
                         /\ member[env[f][o]] = [cohort |-> CohortOf(f), ordinal |-> o]
  BY DEF EnvelopeIsItsCohort
<1>1. /\ env[f] = slots[f] /\ terminal[f] = None /\ slots[f] \in Slots
      /\ Cardinality(Filled(f)) >= TargetB
  BY DEF IInv, Formations, FormationOK
<1>2. \A o \in Ordinals : slots[f][o] \in Calls
  BY <1>1, FullMeansEveryOrdinal DEF Filled
<1>3. \A o \in Ordinals : slots[f][o] # None
  BY <1>2, ProxyAssumption
<1> QED
  BY <1>1, <1>2, <1>3 DEF IInv, Admitted, Slots

\* An envelope carries, at each of the B ordinals, the payload of a call that
\* asked for that ordinal of that cohort: counting never passes for membership.
THEOREM EnvelopeIsWhole == Spec => []EnvelopeIsItsCohort
BY WholeEnvelope, Invariant, PTL

\* The deadline and the shutdown never fail a cohort that has all its members,
\* and sealAndSend's refusal by the builder is unreachable.
THEOREM OnlyShortCohortsFail == Spec => []FailedOnlyIfShort
<1>1. IInv => FailedOnlyIfShort
  BY ProxyAssumption DEF IInv, Formations, FormationOK, FailedOnlyIfShort, Typed
<1> QED
  BY <1>1, Invariant, PTL

\* After Close no formation is left or comes into being that nobody would
\* finish.
THEOREM CloseIsFinal == Spec => []NothingFormsAfterClose
<1>1. Init => NothingFormsAfterClose
  BY DEF Init, NothingFormsAfterClose
<1>2. IInv /\ NothingFormsAfterClose /\ [Next]_vars => NothingFormsAfterClose'
  <2> SUFFICES ASSUME IInv, NothingFormsAfterClose, [Next]_vars, closed',
                      NEW k \in Cohorts, registry'[k] \in Calls
               PROVE  terminal'[registry'[k]] # None
    BY DEF NothingFormsAfterClose
  <2>1. CASE closed
    <3>1. \/ \E c \in Calls, m \in Members : Submit(c, m)
          \/ \E c \in Calls, m \in Members : Forward(c, m)
          \/ \E c \in Calls : SubmitRejected(c)
          \/ \E c \in Calls : SealAndSend(c)
          \/ \E c \in Calls : BackendAnswers(c) \/ Wake(c) \/ Leave(c) \/ ForwardAnswered(c)
          \/ \E c \in Calls : ContextEnds(c)
          \/ \E f \in Calls : TimerFires(f)
          \/ \E f \in Calls : Expire(f)
          \/ UNCHANGED vars
      BY <2>1 DEF Next, Handler, Close
    <3>2. registry' = registry
           /\ (terminal' = terminal
               \/ \E F, cause : FailLocked(F, cause) /\ cause \in {"deadline", "builder"})
      <4>1. CASE \E c \in Calls, m \in Members : Submit(c, m)
        BY <2>1, <4>1 DEF Submit, JoinAfterClose, JoinJudged, JoinMalformed, JoinHeld,
                          JoinCompletes, Forming, formationVars
      <4>2. CASE \E c \in Calls, m \in Members : Forward(c, m)
        BY <4>2 DEF Forward, registryVars
      <4>3. CASE \E c \in Calls : SubmitRejected(c)
        BY <4>3 DEF SubmitRejected, registryVars, formationVars
      <4>4. CASE \E c \in Calls : SealAndSend(c)
        <5> PICK c \in Calls : SealAndSend(c)
          BY <4>4
        <5>1. registry' = registry
          BY DEF SealAndSend, registryVars
        <5>2. terminal' = terminal \/ FailLocked({joined[c]}, "builder")
          BY DEF SealAndSend
        <5> QED
          BY <5>1, <5>2
      <4>5. CASE \E c \in Calls : BackendAnswers(c) \/ Wake(c) \/ Leave(c) \/ ForwardAnswered(c)
        BY <4>5 DEF BackendAnswers, Wake, Leave, ForwardAnswered, registryVars, formationVars
      <4>6. CASE \E c \in Calls : ContextEnds(c)
        BY <4>6 DEF ContextEnds, registryVars, formationVars
      <4>7. CASE \E f \in Calls : TimerFires(f)
        BY <4>7 DEF TimerFires, registryVars
      <4>8. CASE \E f \in Calls : Expire(f)
        <5> PICK f \in Calls : Expire(f)
          BY <4>8
        <5>1. registry' = registry
          BY DEF Expire, registryVars
        <5>2. FailLocked({f} \ {g \in Calls : Settled(g)}, "deadline")
          BY DEF Expire
        <5> QED
          BY <5>1, <5>2
      <4>9. CASE UNCHANGED vars
        BY <4>9 DEF vars, registryVars, formationVars
      <4> QED
        BY <3>1, <4>1, <4>2, <4>3, <4>4, <4>5, <4>6, <4>7, <4>8, <4>9
    <3>3. registry[k] \in Calls /\ terminal[registry[k]] # None
      BY <2>1, <3>2 DEF NothingFormsAfterClose
    <3>4. CASE terminal' = terminal
      BY <3>2, <3>3, <3>4
    <3>5. CASE \E F, cause : FailLocked(F, cause) /\ cause \in {"deadline", "builder"}
      BY <3>2, <3>3, <3>5, ProxyAssumption DEF FailLocked
    <3> QED
      BY <3>2, <3>4, <3>5
  <2>2. CASE ~closed
    <3>1. Close
      BY <2>2 DEF Next, Submit, Handler, SubmitRejected, SealAndSend, BackendAnswers, Wake, Leave,
                  Forward, ForwardAnswered, TimerFires, Expire, ContextEnds, vars, registryVars
    <3>2. registry' = registry
      BY <3>1 DEF Close
    <3>3. ~sealed[registry[k]]
      BY <3>2 DEF IInv, Registered
    <3>4. CASE terminal[registry[k]] = None
      <4>1. terminal'[registry[k]] = "shutdown"
        BY <3>1, <3>2, <3>3, <3>4 DEF Close, FailLocked, Settled
      <4> QED
        BY <4>1, <3>2, ProxyAssumption
    <3>5. CASE terminal[registry[k]] # None
      BY <3>1, <3>2, <3>5, ProxyAssumption DEF Close, FailLocked
    <3> QED
      BY <3>4, <3>5
  <2> QED
    BY <2>1, <2>2
<1> QED
  BY <1>1, <1>2, Invariant, PTL DEF Spec

-----------------------------------------------------------------------------
(* The types of what comes back from the backend and goes to the callers.  *)

ReturnedTyped ==
  /\ answer \in [Calls -> Results \cup {Failed, None}]
  /\ record \in [Calls -> Records \cup {None}]
  /\ resp \in [Calls -> Seq(Results)]

\* At A=off an envelope holds one payload, at whatever ordinal it names.
ForwardedTyped ==
  ~Aggregates => env \in [Calls -> Envelopes \cup {None}]

\* What the backend answers is a sequence of results.
LEMMA ResponsesTyped ==
  ASSUME NEW ms \in SUBSET Members, NEW r \in Responses(ms)
  PROVE  r \in Seq(Results)
<1> DEFINE answers == [cohort : {m.cohort : m \in ms}, ordinal : {m.ordinal : m \in ms},
                       status : Statuses]
<1>1. PICK n \in 0 .. Cardinality(ms) : r \in [1 .. n -> answers]
  BY DEF Responses
<1>2. answers \subseteq Results
  BY DEF Members, Results
<1>3. r \in [1 .. n -> Results]
  BY <1>1, <1>2
<1>4. n \in Nat
  BY <1>1, FS_CardinalityType
<1> QED
  BY <1>3, <1>4

\* Whatever either path returns is a result of the response or a refusal.
LEMMA ReturnTyped ==
  ASSUME ReturnedTyped, NEW c \in Calls, NEW result \in Results \cup {Failed},
         NEW stages \in {"arrival", "sealed", "forwarded"},
         NEW status \in {"ok", "error", "timeout"},
         Return(c, result, [stages |-> stages, status |-> status])
  PROVE  /\ answer' \in [Calls -> Results \cup {Failed, None}]
         /\ record' \in [Calls -> Records \cup {None}]
<1>1. [stages |-> stages, status |-> status] \in Records
  BY DEF Records
<1> QED
  BY <1>1 DEF ReturnedTyped, Return

\* What a member is told of an answer is a result or a failure, and is recorded.
LEMMA OwnResultTyped ==
  ASSUME ReturnedTyped, NEW c \in Calls, NEW r \in Seq(Results),
         \/ ReturnOwnResult(c, r, "sealed")
         \/ ReturnOwnResult(c, r, "forwarded")
  PROVE  /\ answer' \in [Calls -> Results \cup {Failed, None}]
         /\ record' \in [Calls -> Records \cup {None}]
<1>1. PICK stages \in {"sealed", "forwarded"} :
        \/ Return(c, Failed, [stages |-> stages, status |-> "error"])
        \/ \E i \in OwnResults(r, member[c]) :
             Return(c, r[i], [stages |-> stages, status |-> r[i].status])
  BY DEF ReturnOwnResult, Recorded
<1>2. CASE Return(c, Failed, [stages |-> stages, status |-> "error"])
  BY <1>2, ReturnTyped
<1>3. ASSUME NEW i \in OwnResults(r, member[c]),
             Return(c, r[i], [stages |-> stages, status |-> r[i].status])
      PROVE  /\ answer' \in [Calls -> Results \cup {Failed, None}]
             /\ record' \in [Calls -> Records \cup {None}]
  <2>1. r[i] \in Results
    BY DEF OwnResults
  <2>2. r[i].status \in {"ok", "error", "timeout"}
    BY <2>1, ProxyAssumption DEF Results
  <2> QED
    BY <1>3, <2>1, <2>2, ReturnTyped
<1> QED
  BY <1>1, <1>2, <1>3

\* Answers and records keep their type.
LEMMA ReturnedStep == IInv /\ ReturnedTyped /\ [Next]_vars => ReturnedTyped'
<1> SUFFICES ASSUME IInv, ReturnedTyped, [Next]_vars PROVE ReturnedTyped'
  OBVIOUS
<1> USE DEF formationVars, registryVars, handlerVars
<1>1. ASSUME NEW c \in Calls, Refuse(c) PROVE ReturnedTyped' \/ resp' # resp
  BY <1>1, ReturnTyped DEF Refuse, Arrival, ReturnedTyped
<1>2. ASSUME NEW c \in Calls, NEW m \in Members, Submit(c, m) PROVE ReturnedTyped'
  <2>1. resp' = resp
    BY <1>2 DEF Submit, JoinAfterClose, JoinJudged, JoinMalformed, JoinHeld, JoinCompletes
  <2>2. Refuse(c) \/ UNCHANGED <<answer, record>>
    BY <1>2 DEF Submit, JoinAfterClose, JoinJudged, JoinMalformed, JoinHeld, JoinCompletes
  <2> QED
    BY <1>1, <2>1, <2>2 DEF ReturnedTyped
<1>3. ASSUME NEW c \in Calls, NEW m \in Members, Forward(c, m) PROVE ReturnedTyped'
  BY <1>3 DEF Forward, ReturnedTyped
<1>4. ASSUME NEW c \in Calls, SubmitRejected(c) PROVE ReturnedTyped'
  BY <1>4 DEF SubmitRejected, ReturnedTyped
<1>5. ASSUME NEW c \in Calls, SealAndSend(c) PROVE ReturnedTyped'
  BY <1>5 DEF SealAndSend, ReturnedTyped
<1>6. ASSUME NEW c \in Calls, BackendAnswers(c) PROVE ReturnedTyped'
  <2> DEFINE ms == [cohort : {CohortOf(joined[c])}, ordinal : Ordinals]
  <2>1. joined[c] \in Calls /\ member[joined[c]] \in Members
    BY <1>6 DEF BackendAnswers, IInv, Handlers, HandlerOK, Formations, FormationOK, IsOpened
  <2>2. ms \in SUBSET Members
    BY <2>1, ProxyAssumption DEF Members, Ordinals, CohortOf
  <2>3. UNCHANGED <<answer, record>>
    BY <1>6 DEF BackendAnswers
  <2>4. CASE UNCHANGED resp
    BY <2>3, <2>4 DEF ReturnedTyped
  <2>5. ASSUME NEW r \in Responses(ms), resp' = [resp EXCEPT ![joined[c]] = r]
        PROVE  ReturnedTyped'
    <3>1. r \in Seq(Results)
      BY <2>2, ResponsesTyped
    <3> QED
      BY <2>1, <2>3, <2>5, <3>1 DEF ReturnedTyped
  <2> QED
    BY <1>6, <2>4, <2>5 DEF BackendAnswers
<1>7. ASSUME NEW c \in Calls, Wake(c) PROVE ReturnedTyped'
  <2>1. resp' = resp
    BY <1>7 DEF Wake
  <2>2. CASE Return(c, Failed, Arrival("error"))
    BY <2>1, <2>2, ReturnTyped DEF Arrival, ReturnedTyped
  <2>3. CASE Return(c, Failed, Recorded("sealed", "error"))
    BY <2>1, <2>3, ReturnTyped DEF Recorded, ReturnedTyped
  <2>4. CASE ReturnOwnResult(c, resp[joined[c]], "sealed")
    <3>1. joined[c] \in Calls
      BY <1>7 DEF Wake, IInv, Handlers, HandlerOK
    <3>2. resp[joined[c]] \in Seq(Results)
      BY <3>1 DEF ReturnedTyped
    <3> QED
      BY <2>1, <2>4, <3>2, OwnResultTyped DEF ReturnedTyped
  <2> QED
    BY <1>7, <2>2, <2>3, <2>4 DEF Wake
<1>8. ASSUME NEW c \in Calls, Leave(c) PROVE ReturnedTyped'
  <2>1. DepartureStatus(c) \in {"ok", "error", "timeout"}
    BY DEF DepartureStatus
  <2>2. Return(c, Failed, Arrival(DepartureStatus(c))) /\ resp' = resp
    BY <1>8 DEF Leave
  <2> QED
    BY <2>1, <2>2, ReturnTyped DEF Arrival, ReturnedTyped
<1>9. ASSUME NEW c \in Calls, ForwardAnswered(c) PROVE ReturnedTyped'
  <2>1. resp' = resp
    BY <1>9 DEF ForwardAnswered
  <2>2. CASE Return(c, Failed, Recorded("forwarded", "error"))
    BY <2>1, <2>2, ReturnTyped DEF Recorded, ReturnedTyped
  <2>3. ASSUME NEW r \in Responses({member[c]}), ReturnOwnResult(c, r, "forwarded")
        PROVE  ReturnedTyped'
    <3>1. {member[c]} \in SUBSET Members
      BY <1>9 DEF ForwardAnswered, IInv, Handlers, HandlerOK
    <3>2. r \in Seq(Results)
      BY <2>3, <3>1, ResponsesTyped
    <3> QED
      BY <2>1, <2>3, <3>2, OwnResultTyped DEF ReturnedTyped
  <2> QED
    BY <1>9, <2>2, <2>3 DEF ForwardAnswered
<1>10. ASSUME NEW c \in Calls, ContextEnds(c) PROVE ReturnedTyped'
  BY <1>10 DEF ContextEnds, ReturnedTyped
<1>11. ASSUME NEW f \in Calls, TimerFires(f) \/ Expire(f) PROVE ReturnedTyped'
  BY <1>11 DEF TimerFires, Expire, ReturnedTyped
<1>12. CASE Close
  BY <1>12 DEF Close, ReturnedTyped
<1>13. CASE UNCHANGED vars
  BY <1>13 DEF vars, ReturnedTyped
<1> QED
  BY <1>2, <1>3, <1>4, <1>5, <1>6, <1>7, <1>8, <1>9, <1>10, <1>11, <1>12, <1>13 DEF Next, Handler

\* So do forwarded calls.
LEMMA ForwardedStep == IInv /\ ForwardedTyped /\ [Next]_vars => ForwardedTyped'
<1> SUFFICES ASSUME IInv, ForwardedTyped, [Next]_vars, ~Aggregates
             PROVE  env' \in [Calls -> Envelopes \cup {None}]
  BY DEF ForwardedTyped
<1>1. ASSUME NEW c \in Calls, NEW m \in Members, Forward(c, m)
      PROVE  env' \in [Calls -> Envelopes \cup {None}]
  <2>1. {m.ordinal} \in SUBSET (0 .. TargetB)
    BY DEF Members
  <2>2. [o \in {m.ordinal} |-> c] \in [{m.ordinal} -> Calls]
    OBVIOUS
  <2> QED
    BY <1>1, <2>1, <2>2 DEF Forward, ForwardedTyped, Envelopes
<1>2. ~\E c \in Calls : SealAndSend(c)
  BY DEF SealAndSend, IInv, Handlers, HandlerOK, Sealer
<1>3. (\E c \in Calls, m \in Members : Forward(c, m)) \/ env' = env
  BY <1>2 DEF Next, Submit, SubmitRejected, BackendAnswers, Wake, Leave, ForwardAnswered, Handler,
              TimerFires, Expire, Close, ContextEnds, vars, formationVars
<1> QED
  BY <1>1, <1>3 DEF ForwardedTyped

\* Every variable holds what its field can hold, for every number of calls and
\* every B: a cohort's arrivals never exceed B, and no envelope travels with
\* the empty payload of an ordinal nobody brought.
THEOREM TypesHold == Spec => []TypeOK
<1>1. Init => ReturnedTyped /\ ForwardedTyped
  <2>1. <<>> \in Seq(Results)
    OBVIOUS
  <2>2. Init => ReturnedTyped
    BY <2>1 DEF Init, ReturnedTyped
  <2>3. Init => ForwardedTyped
    BY DEF Init, ForwardedTyped
  <2> QED
    BY <2>2, <2>3
<1>2. IInv /\ ReturnedTyped /\ ForwardedTyped => TypeOK
  <2> SUFFICES ASSUME IInv, ReturnedTyped, ForwardedTyped PROVE TypeOK
    OBVIOUS
  <2>1. arrived \in [Calls -> 0 .. TargetB]
    <3> SUFFICES ASSUME NEW f \in Calls PROVE arrived[f] \in 0 .. TargetB
      BY DEF IInv, Typed
    <3>1. CASE terminal[f] # None
      BY <3>1, ProxyAssumption DEF IInv, Typed, Formations, FormationOK
    <3>2. CASE terminal[f] = None
      <4>1. Filled(f) \subseteq Ordinals
        BY DEF Filled
      <4>2. Cardinality(Filled(f)) <= TargetB
        BY <4>1, OrdinalsFinite, FS_Subset
      <4> QED
        BY <3>2, <4>2, ProxyAssumption DEF IInv, Typed, Formations, FormationOK
    <3> QED
      BY <3>1, <3>2
  <2>2. env \in [Calls -> Envelopes \cup {None}]
    <3>1. CASE ~Aggregates
      BY <3>1 DEF ForwardedTyped
    <3>2. ASSUME Aggregates, NEW f \in Calls, env[f] # None
          PROVE  env[f] \in [Ordinals -> Calls]
      <4>1. EnvelopeIsItsCohort
        BY WholeEnvelope
      <4>2. env[f] \in Slots
        BY <3>2 DEF IInv, Formations, FormationOK
      <4> QED
        BY <3>2, <4>1, <4>2 DEF EnvelopeIsItsCohort, Slots
    <3>3. Ordinals \in SUBSET (0 .. TargetB)
      BY ProxyAssumption DEF Ordinals
    <3> QED
      BY <3>1, <3>2, <3>3 DEF IInv, Typed, Envelopes
  <2> QED
    BY <2>1, <2>2 DEF TypeOK, IInv, Typed, ReturnedTyped
<1> QED
  BY <1>1, <1>2, ReturnedStep, ForwardedStep, InitInvariant, StepKeeps, PTL DEF Spec

-----------------------------------------------------------------------------
(* What becomes of a call.                                                 *)

\* Where the payload of a call is.
Placed(c) ==
  /\ pc[c] = "idle" => member[c] = None /\ env[c] = None
  /\ pc[c] # "returned" => answer[c] = None /\ record[c] = None
  /\ pc[c] = "returned" => answer[c] # None
  /\ pc[c] = "forwarding" => ~Aggregates /\ env[c] # None /\ env[c][member[c].ordinal] = c
  /\ joined[c] # None =>
       /\ Aggregates /\ joined[c] \in Calls /\ IsOpened(joined[c]) /\ member[c] \in Members
       /\ CohortOf(joined[c]) = member[c].cohort
       /\ terminal[joined[c]] = None =>
            member[c].ordinal \in Ordinals /\ slots[joined[c]][member[c].ordinal] = c
  /\ pc[c] = "executing" => env[joined[c]] # None

\* The envelope of a sealed formation is built once, by the handler that holds
\* the seal, and before done is closed.
Sent(c) ==
  /\ pc[c] = "sealing" => env[joined[c]] = None
  /\ Aggregates /\ terminal[c] = None /\ done[c] > 0 => env[c] # None

Places == \A c \in Calls : Placed(c) /\ Sent(c)

\* A call's payload left in an envelope.
Travelled(c) ==
  /\ CarriedBy(c) \in Calls
  /\ env[CarriedBy(c)] # None
  /\ env[CarriedBy(c)][member[c].ordinal] = c

\* What one call was told, and what it recorded.
Fate(c) ==
  /\ answer[c] \notin {None, Failed} =>
       /\ answer[c].cohort = member[c].cohort
       /\ answer[c].ordinal = member[c].ordinal
       /\ Travelled(c)
  /\ record[c] # None =>
       /\ record[c].stages # "arrival" => Travelled(c)
       /\ record[c].status = "ok" <=>
            answer[c] \notin {None, Failed} /\ answer[c].status = "ok"
       /\ record[c].status = "timeout" => record[c].stages = "arrival" /\ ctx[c] = "deadline"
       /\ record[c].stages = "arrival" /\ joined[c] # None /\ ctx[c] = "live" =>
            terminal[joined[c]] # None

Fates == \A c \in Calls : Fate(c)

FateInv == IInv /\ ReturnedTyped /\ Places /\ Fates

-----------------------------------------------------------------------------
(* What a step may do to the formations a call does not touch.             *)

\* A formation that was opened stays the formation of its cohort, a failed one
\* stays failed, an admitted payload stays where it is unless the formation
\* fails, and an envelope that was sent is what was sent.
Grows ==
  \A f \in Calls :
    /\ IsOpened(f) => IsOpened(f)' /\ CohortOf(f)' = CohortOf(f)
    /\ terminal[f] # None => terminal'[f] # None
    /\ terminal'[f] = None => \A o \in Ordinals : slots[f][o] # None => slots'[f][o] = slots[f][o]
    /\ env[f] # None => env'[f] = env[f]

\* A step of somebody else.
Untouched(d) ==
  /\ pc'[d] = pc[d] /\ member'[d] = member[d] /\ joined'[d] = joined[d]
  /\ answer'[d] = answer[d] /\ record'[d] = record[d]
  /\ record[d] # None => ctx'[d] = ctx[d]

\* A call no step touches stays where it was placed.
LEMMA UntouchedPlaced ==
  ASSUME IInv, Grows, NEW d \in Calls, Placed(d), Untouched(d), pc[d] = "idle" => env'[d] = None
  PROVE  Placed(d)'
<1>1. joined[d] # None =>
       /\ Aggregates /\ joined[d] \in Calls /\ IsOpened(joined[d])' /\ member'[d] \in Members
       /\ CohortOf(joined[d])' = member'[d].cohort
       /\ terminal'[joined[d]] = None =>
            member'[d].ordinal \in Ordinals /\ slots'[joined[d]][member'[d].ordinal] = d
  BY ProxyAssumption DEF Grows, Placed, Untouched
<1>2. pc[d] = "forwarding" => env'[d] = env[d]
  BY DEF Grows, Placed
<1>3. pc[d] = "executing" => env'[joined[d]] # None
  BY DEF Grows, Placed, IInv, Handlers, HandlerOK
<1> QED
  BY <1>1, <1>2, <1>3 DEF Placed, Untouched, IsOpened, CohortOf

\* What travelled with it is what travels with it: envelopes are not rewritten.
LEMMA UntouchedTravelled ==
  ASSUME Grows, NEW d \in Calls, Untouched(d), Travelled(d)
  PROVE  Travelled(d)'
<1>1. CarriedBy(d)' = CarriedBy(d)
  BY DEF CarriedBy, Untouched
<1>2. CarriedBy(d) \in Calls /\ env'[CarriedBy(d)] = env[CarriedBy(d)] /\ member'[d] = member[d]
  BY DEF Grows, Travelled, Untouched
<1> QED
  BY <1>1, <1>2 DEF Travelled

\* A call no step touches keeps its fate.
LEMMA UntouchedFate ==
  ASSUME IInv, Grows, NEW d \in Calls, Fate(d), Untouched(d)
  PROVE  Fate(d)'
<1>1. Travelled(d) => Travelled(d)'
  BY UntouchedTravelled
<1>2. joined[d] # None => joined[d] \in Calls
  BY DEF IInv, Typed
<1>3. joined[d] # None /\ terminal[joined[d]] # None => terminal'[joined[d]] # None
  BY <1>2 DEF Grows
<1> QED
  BY <1>1, <1>3 DEF Fate, Untouched

-----------------------------------------------------------------------------
(* Steps in which a call returns.                                          *)

\* Nothing a caller is given is nil, and a result is no refusal.
LEMMA ResultIsNoRefusal ==
  /\ Failed # None
  /\ \A r \in Results : r # None /\ r # Failed /\ r.status \in {"ok", "error"}
<1>1. Failed # None /\ \A r \in Results : r # None
  BY NoneAssumption
<1>2. \A r \in Results : r.status \in {"ok", "error"}
  BY ProxyAssumption DEF Results
<1>3. Failed.status = "failed"
  BY DEF Failed
<1> QED
  BY <1>1, <1>2, <1>3

\* Whatever else a step in which c returns does to the formations, only the
\* fate of c is to be shown.
LEMMA Returning ==
  ASSUME FateInv, NEW c \in Calls, NEW a \in Results \cup {Failed}, NEW r,
         pc' = [pc EXCEPT ![c] = "returned"],
         answer' = [answer EXCEPT ![c] = a],
         record' = [record EXCEPT ![c] = r],
         \A d \in Calls \ {c} : member'[d] = member[d],
         joined[c] # None => member'[c] = member[c],
         UNCHANGED <<joined, ctx, env>>,
         Grows,
         \A f \in Calls : terminal'[f] = None => done'[f] = done[f] /\ terminal[f] = None,
         Fate(c)'
  PROVE  Places' /\ Fates'
<1>1. \A d \in Calls \ {c} : Untouched(d)
  BY DEF Untouched, FateInv, IInv, Typed, ReturnedTyped
<1>2. pc'[c] = "returned" /\ answer'[c] = a
  BY DEF FateInv, IInv, Typed, ReturnedTyped
<1>3. ASSUME NEW d \in Calls PROVE Placed(d)'
  <2>1. CASE d # c
    BY <1>1, <2>1, UntouchedPlaced DEF FateInv, Places, Placed
  <2>2. CASE d = c
    <3>1. a # None
      BY ResultIsNoRefusal
    <3>2. joined[c] # None =>
           /\ Aggregates /\ joined[c] \in Calls /\ IsOpened(joined[c])' /\ member'[c] \in Members
           /\ CohortOf(joined[c])' = member'[c].cohort
           /\ terminal'[joined[c]] = None =>
                member'[c].ordinal \in Ordinals /\ slots'[joined[c]][member'[c].ordinal] = c
      BY ProxyAssumption DEF Grows, FateInv, Places, Placed
    <3> QED
      BY <1>2, <2>2, <3>1, <3>2 DEF Placed, IsOpened, CohortOf
  <2> QED
    BY <2>1, <2>2
<1>4. ASSUME NEW d \in Calls PROVE Sent(d)'
  <2>1. pc'[d] = "sealing" => pc[d] = "sealing"
    BY <1>2 DEF FateInv, IInv, Typed
  <2> QED
    BY <2>1 DEF FateInv, Places, Sent
<1>5. ASSUME NEW d \in Calls PROVE Fate(d)'
  BY <1>1, UntouchedFate DEF FateInv, Fates
<1> QED
  BY <1>3, <1>4, <1>5 DEF Places, Fates

\* A refusal is recorded as an arrival that failed, or not at all.
LEMMA RefusalFate ==
  ASSUME ReturnedTyped, NEW c \in Calls, NEW r,
         answer' = [answer EXCEPT ![c] = Failed],
         record' = [record EXCEPT ![c] = r],
         \/ r = None
         \/ /\ r = Arrival("error")
            /\ joined'[c] # None => terminal'[joined'[c]] # None
         \/ /\ r = Arrival("timeout") /\ ctx'[c] = "deadline"
         \/ /\ r = Arrival("error") /\ ctx'[c] = "cancelled"
         \/ /\ r \in {Recorded("sealed", "error"), Recorded("forwarded", "error")}
            /\ Travelled(c)'
  PROVE  Fate(c)'
<1>1. answer'[c] = Failed /\ record'[c] = r
  BY DEF ReturnedTyped
<1> QED
  BY <1>1 DEF Fate, Arrival, Recorded

\* An answer taken from a response is the caller's own.
LEMMA OwnResultFate ==
  ASSUME ReturnedTyped, NEW c \in Calls, NEW results \in Seq(Results),
         NEW stages \in {"sealed", "forwarded"},
         ReturnOwnResult(c, results, stages), UNCHANGED member, Travelled(c)'
  PROVE  /\ Fate(c)'
         /\ \E a \in Results \cup {Failed} : \E r : Return(c, a, r)
<1>1. CASE Return(c, Failed, Recorded(stages, "error"))
  BY <1>1, RefusalFate DEF Return
<1>2. ASSUME NEW i \in OwnResults(results, member[c]),
             Return(c, results[i], Recorded(stages, results[i].status))
      PROVE  /\ Fate(c)'
             /\ \E a \in Results \cup {Failed} : \E r : Return(c, a, r)
  <2>1. /\ results[i] \in Results
        /\ results[i].cohort = member[c].cohort
        /\ results[i].ordinal = member[c].ordinal
    BY DEF OwnResults
  <2>2. answer'[c] = results[i] /\ record'[c] = Recorded(stages, results[i].status)
    BY <1>2 DEF Return, ReturnedTyped
  <2> QED
    BY <1>2, <2>1, <2>2, ResultIsNoRefusal DEF Fate, Recorded
<1> QED
  BY <1>1, <1>2 DEF ReturnOwnResult

\* Steps that leave the members and the formations alone.
LEMMA StillGrows ==
  ASSUME UNCHANGED <<member, formationVars>>
  PROVE  Grows
BY DEF Grows, formationVars, IsOpened, CohortOf

\* A rejected submission has the fate of a call that joined nothing.
LEMMA SubmitRejectedFates ==
  ASSUME FateInv, NEW c \in Calls, SubmitRejected(c)
  PROVE  Places' /\ Fates'
<1>1. Grows
  BY StillGrows DEF SubmitRejected
<1>2. record' = [record EXCEPT ![c] = None]
  BY DEF SubmitRejected, FateInv, ReturnedTyped, Places, Placed
<1>3. Fate(c)'
  BY <1>2, RefusalFate DEF SubmitRejected, FateInv
<1> QED
  BY <1>1, <1>2, <1>3, Returning DEF SubmitRejected, formationVars

\* A member whose context ended leaves alone, and its slot stays admitted.
LEMMA LeaveFates ==
  ASSUME FateInv, NEW c \in Calls, Leave(c)
  PROVE  Places' /\ Fates'
<1>1. Grows
  BY StillGrows DEF Leave
<1>2. PICK r : r = Arrival(DepartureStatus(c))
  OBVIOUS
<1>3. ctx[c] \in {"deadline", "cancelled"}
  BY DEF Leave, FateInv, IInv, Typed
<1>4. Fate(c)'
  BY <1>2, <1>3, RefusalFate DEF Leave, Return, DepartureStatus, FateInv
<1> QED
  BY <1>1, <1>2, <1>4, Returning DEF Leave, Return, formationVars

\* A formation whose done closed without a cause has sent its members.
LEMMA WokenTravelled ==
  ASSUME FateInv, NEW c \in Calls, Wake(c), terminal[joined[c]] = None
  PROVE  Travelled(c)
<1> DEFINE f == joined[c]
<1>1. f \in Calls /\ f # None /\ done[f] > 0
  BY ProxyAssumption DEF Wake, FateInv, IInv, Handlers, HandlerOK
<1>2. Aggregates /\ member[c].ordinal \in Ordinals /\ slots[f][member[c].ordinal] = c
  BY <1>1 DEF FateInv, Places, Placed
<1>3. env[f] # None
  BY <1>1, <1>2 DEF FateInv, Places, Sent
<1>4. env[f] = slots[f]
  BY <1>1, <1>2, <1>3 DEF FateInv, IInv, Formations, FormationOK
<1> QED
  BY <1>1, <1>2, <1>3, <1>4 DEF Travelled, CarriedBy

\* A member that wakes is told how its formation ended.
LEMMA WakeFates ==
  ASSUME FateInv, NEW c \in Calls, Wake(c)
  PROVE  /\ Places' /\ Fates'
<1>1. Grows /\ joined[c] \in Calls
  BY StillGrows DEF Wake, FateInv, IInv, Handlers, HandlerOK
<1>2. /\ UNCHANGED <<member, joined, ctx, env, terminal, done>>
  BY DEF Wake, formationVars
<1>3. terminal[joined[c]] = None => Travelled(c)'
  BY <1>2, WokenTravelled DEF Travelled, CarriedBy
<1>4. Fate(c)' /\ \E a \in Results \cup {Failed} : \E r : Return(c, a, r)
  <2>1. CASE terminal[joined[c]] # None /\ Return(c, Failed, Arrival("error"))
    BY <1>2, <2>1, RefusalFate DEF Return, FateInv
  <2>2. CASE terminal[joined[c]] = None /\ Return(c, Failed, Recorded("sealed", "error"))
    BY <1>3, <2>2, RefusalFate DEF Return, FateInv
  <2>3. CASE terminal[joined[c]] = None /\ ReturnOwnResult(c, resp[joined[c]], "sealed")
    BY <1>1, <1>2, <1>3, <2>3, OwnResultFate DEF FateInv, ReturnedTyped
  <2> QED
    BY <2>1, <2>2, <2>3 DEF Wake
<1>5. PICK a \in Results \cup {Failed} : \E r : Return(c, a, r)
  BY <1>4
<1>6. PICK r : Return(c, a, r)
  BY <1>5
<1> QED
  BY <1>1, <1>2, <1>4, <1>6, Returning DEF Return

\* A forwarded call is told what the backend answered.
LEMMA ForwardAnsweredFates ==
  ASSUME FateInv, NEW c \in Calls, ForwardAnswered(c)
  PROVE  Places' /\ Fates'
<1>1. Grows
  BY StillGrows DEF ForwardAnswered
<1>2. /\ UNCHANGED <<member, joined, ctx, env, terminal, done>>
  BY DEF ForwardAnswered, formationVars
<1>3. Travelled(c)'
  BY <1>2 DEF Travelled, CarriedBy, ForwardAnswered, FateInv, Places, Placed
<1>4. Fate(c)' /\ \E a \in Results \cup {Failed} : \E r : Return(c, a, r)
  <2>1. CASE Return(c, Failed, Recorded("forwarded", "error"))
    BY <1>3, <2>1, RefusalFate DEF Return, FateInv
  <2>2. ASSUME NEW results \in Responses({member[c]}), ReturnOwnResult(c, results, "forwarded")
        PROVE  Fate(c)' /\ \E a \in Results \cup {Failed} : \E r : Return(c, a, r)
    <3>1. {member[c]} \in SUBSET Members
      BY DEF ForwardAnswered, FateInv, IInv, Handlers, HandlerOK
    <3>2. results \in Seq(Results)
      BY <3>1, ResponsesTyped
    <3> QED
      BY <1>2, <1>3, <2>2, <3>2, OwnResultFate DEF FateInv
  <2> QED
    BY <2>1, <2>2 DEF ForwardAnswered
<1>5. PICK a \in Results \cup {Failed} : \E r : Return(c, a, r)
  BY <1>4
<1>6. PICK r : Return(c, a, r)
  BY <1>5
<1> QED
  BY <1>1, <1>2, <1>4, <1>6, Returning DEF Return

-----------------------------------------------------------------------------
(* Steps in which a call arrives.                                          *)

\* join refuses: no formation is touched, or the one the call meets fails.
LEMMA JoinRefusedFates ==
  ASSUME FateInv, NEW c \in Calls, NEW m \in Members, Arrives(c, m),
         JoinAfterClose(c) \/ JoinJudged(c, m), UNCHANGED <<ctx, closed>>
  PROVE  Grows /\ Places' /\ Fates'
<1>1. Refuse(c) /\ UNCHANGED formationVars
  BY DEF JoinAfterClose, JoinJudged
<1>2. joined[c] = None /\ \A d \in Calls \ {c} : member'[d] = member[d]
  BY Newcomer DEF FateInv, Arrives, IInv, Typed
<1>3. Grows
  BY <1>1, Newcomer DEF Grows, formationVars, IsOpened, CohortOf, FateInv
<1>4. PICK r : r = Arrival("error")
  OBVIOUS
<1>5. Fate(c)'
  BY <1>1, <1>2, <1>4, RefusalFate DEF Refuse, Return, FateInv
<1> QED
  BY <1>1, <1>2, <1>3, <1>4, <1>5, Returning DEF Refuse, Return, formationVars

\* A malformation fails the whole cohort, and refuses the member that brought it.
LEMMA JoinMalformedFates ==
  ASSUME FateInv, NEW c \in Calls, NEW m \in Members, Arrives(c, m),
         JoinMalformed(c, m), UNCHANGED <<ctx, closed>>, NEW g, g = Met(c, m.cohort)
  PROVE  Grows /\ Places' /\ Fates'
<1> DEFINE cause == IF m.ordinal >= TargetB THEN "ordinalOutside" ELSE "arrivedTwice"
<1>1. /\ Forming(m.cohort) /\ FailLocked({g}, cause) /\ deadline' = Armed(c, m)
      /\ Refuse(c) /\ UNCHANGED env
  BY DEF JoinMalformed
<1>2. /\ g \in Calls
      /\ \A h \in Calls : deadline'[h] # "unset" <=> IsOpened(h) \/ h = g
  <2>1. /\ g \in Calls
        /\ \A h \in Calls : Armed(c, m)[h] # "unset" <=> IsOpened(h) \/ h = g
    BY <1>1, MetFormation DEF FateInv
  <2> QED
    BY <1>1, <2>1
<1>3. joined[c] = None /\ \A d \in Calls \ {c} : member'[d] = member[d]
  BY Newcomer DEF FateInv, Arrives, IInv, Typed
<1>4. cause # None
  BY ProxyAssumption
<1>5. /\ terminal'[g] # None
      /\ \A f \in Calls : f # g => /\ terminal'[f] = terminal[f]
                                   /\ slots'[f] = slots[f]
                                   /\ done'[f] = done[f]
  BY <1>1, <1>2, <1>4 DEF FailLocked
<1>6. Grows
  <2>1. \A f \in Calls : IsOpened(f) => IsOpened(f)' /\ CohortOf(f)' = CohortOf(f)
    BY <1>2, Newcomer DEF IsOpened, CohortOf, FateInv
  <2> QED
    BY <1>1, <1>5, <2>1 DEF Grows
<1>7. PICK r : r = Arrival("error")
  OBVIOUS
<1>8. Fate(c)'
  BY <1>1, <1>3, <1>7, RefusalFate DEF Refuse, Return, FateInv
<1>9. \A f \in Calls : terminal'[f] = None => done'[f] = done[f] /\ terminal[f] = None
  BY <1>5
<1> QED
  BY <1>1, <1>3, <1>6, <1>7, <1>8, <1>9, Returning DEF Refuse, Return

\* join admits: the payload of c is at its ordinal of the formation it met.
LEMMA AdmitFates ==
  ASSUME FateInv, NEW c \in Calls, NEW m \in Members, NEW g, NEW full \in BOOLEAN,
         Aggregates, Arrives(c, m), Forming(m.cohort), g = Met(c, m.cohort),
         Admits(c, m, g, full), UNCHANGED <<answer, record, resp>>
  PROVE  Grows /\ Places' /\ Fates'
<1>1. /\ g \in Calls /\ ~sealed[g] /\ terminal[g] = None /\ slots[g] \in Slots
      /\ member'[g].cohort = m.cohort
      /\ \A h \in Calls : Armed(c, m)[h] # "unset" <=> IsOpened(h) \/ h = g
  BY MetFormation DEF FateInv
<1>2. m.ordinal \in Ordinals /\ slots[g][m.ordinal] = None
  BY ProxyAssumption DEF Admits, Malformed, Members, Ordinals
<1>3. /\ slots'[g] = [slots[g] EXCEPT ![m.ordinal] = c]
      /\ \A f \in Calls : f # g => slots'[f] = slots[f]
  BY <1>1 DEF Admits, FateInv, IInv, Typed
<1>4. UNCHANGED <<terminal, done, env, ctx>>
  BY DEF Admits
<1>5. \A f \in Calls : IsOpened(f)' <=> IsOpened(f) \/ f = g
  BY <1>1 DEF Admits, IsOpened
<1>6. /\ pc[c] = "idle" /\ joined[c] = None /\ member'[c] = m
      /\ \A d \in Calls \ {c} : member'[d] = member[d]
  BY Newcomer DEF FateInv, Arrives, IInv, Typed
<1>7. Grows
  <2>1. \A f \in Calls : IsOpened(f) => IsOpened(f)' /\ CohortOf(f)' = CohortOf(f)
    BY <1>5, Newcomer DEF CohortOf, FateInv
  <2>2. \A f \in Calls, o \in Ordinals : slots[f][o] # None => slots'[f][o] = slots[f][o]
    BY <1>1, <1>2, <1>3 DEF Slots
  <2> QED
    BY <1>4, <2>1, <2>2 DEF Grows
<1>8. /\ pc'[c] = (IF full THEN "sealing" ELSE "waiting") /\ joined'[c] = g
      /\ \A d \in Calls \ {c} : pc'[d] = pc[d] /\ joined'[d] = joined[d]
  BY DEF Admits, FateInv, IInv, Typed
<1>9. \A d \in Calls \ {c} : Untouched(d)
  BY <1>4, <1>6, <1>8 DEF Untouched
<1>10. env[g] = None
  BY <1>1 DEF FateInv, IInv, Formations, FormationOK
<1>11. answer[c] = None /\ record[c] = None
  BY <1>6 DEF FateInv, Places, Placed
<1>12. ASSUME NEW d \in Calls PROVE Placed(d)'
  <2>1. CASE d # c
    BY <1>4, <1>7, <1>9, <2>1, UntouchedPlaced DEF FateInv, Places, Placed
  <2>2. CASE d = c
    <3>1. IsOpened(g)' /\ CohortOf(g)' = m.cohort /\ slots'[g][m.ordinal] = c
      BY <1>1, <1>2, <1>3, <1>5 DEF CohortOf, Slots
    <3>2. pc'[c] \in {"sealing", "waiting"}
      BY <1>8
    <3> QED
      BY <1>1, <1>2, <1>6, <1>8, <1>11, <2>2, <3>1, <3>2 DEF Placed, IsOpened, CohortOf
  <2> QED
    BY <2>1, <2>2
<1>13. ASSUME NEW d \in Calls PROVE Sent(d)'
  <2>1. pc'[d] = "sealing" => env[joined'[d]] = None
    BY <1>8, <1>10 DEF FateInv, Places, Sent
  <2> QED
    BY <1>4, <2>1 DEF FateInv, Places, Sent
<1>14. ASSUME NEW d \in Calls PROVE Fate(d)'
  <2>1. CASE d # c
    BY <1>7, <1>9, <2>1, UntouchedFate DEF FateInv, Fates
  <2>2. CASE d = c
    BY <1>11, <2>2 DEF Fate
  <2> QED
    BY <2>1, <2>2
<1> QED
  BY <1>7, <1>12, <1>13, <1>14 DEF Places, Fates

\* Submit, in all the ways it can go.
LEMMA SubmitFates ==
  ASSUME FateInv, NEW c \in Calls, NEW m \in Members, Submit(c, m)
  PROVE  Grows /\ Places' /\ Fates'
<1>1. PICK g : g = Met(c, m.cohort)
  OBVIOUS
<1>2. /\ Aggregates /\ Arrives(c, m) /\ UNCHANGED <<ctx, closed>>
      /\ \/ JoinAfterClose(c) \/ JoinJudged(c, m)
         \/ JoinMalformed(c, m)
         \/ /\ Forming(m.cohort)
            /\ \E full \in BOOLEAN : Admits(c, m, g, full)
            /\ UNCHANGED <<answer, record, resp>>
  BY <1>1, SubmitCases DEF FateInv
<1>3. CASE JoinAfterClose(c) \/ JoinJudged(c, m)
  BY <1>2, <1>3, JoinRefusedFates
<1>4. CASE JoinMalformed(c, m)
  BY <1>1, <1>2, <1>4, JoinMalformedFates
<1>5. CASE /\ Forming(m.cohort)
           /\ \E full \in BOOLEAN : Admits(c, m, g, full)
           /\ UNCHANGED <<answer, record, resp>>
  BY <1>1, <1>2, <1>5, AdmitFates
<1> QED
  BY <1>2, <1>3, <1>4, <1>5

\* Forwarding (A = off) builds an envelope of the call alone.
LEMMA ForwardFates ==
  ASSUME FateInv, NEW c \in Calls, NEW m \in Members, Forward(c, m)
  PROVE  Grows /\ Places' /\ Fates'
<1>1. /\ ~Aggregates /\ pc[c] = "idle" /\ member' = [member EXCEPT ![c] = m]
      /\ env' = [env EXCEPT ![c] = [o \in {m.ordinal} |-> c]]
      /\ pc' = [pc EXCEPT ![c] = "forwarding"]
      /\ UNCHANGED <<ctx, joined, answer, record, slots, deadline, terminal, done>>
  BY DEF Forward
<1>2. env[c] = None /\ joined[c] = None /\ answer[c] = None /\ record[c] = None /\ ~IsOpened(c)
  BY <1>1 DEF FateInv, Places, Placed, IInv, Handlers, HandlerOK, IsOpened
<1>3. /\ member'[c] = m /\ pc'[c] = "forwarding"
      /\ \A d \in Calls \ {c} : member'[d] = member[d] /\ pc'[d] = pc[d] /\ env'[d] = env[d]
      /\ env'[c] = [o \in {m.ordinal} |-> c]
  BY <1>1 DEF FateInv, IInv, Typed
<1>4. Grows
  BY <1>1, <1>2, <1>3 DEF Grows, IsOpened, CohortOf
<1>5. \A d \in Calls \ {c} : Untouched(d)
  BY <1>1, <1>3 DEF Untouched
<1>6. env'[c] # None /\ env'[c][m.ordinal] = c
  <2>1. {m.ordinal} \in SUBSET (0 .. TargetB)
    BY DEF Members
  <2>2. [o \in {m.ordinal} |-> c] \in [{m.ordinal} -> Calls]
    OBVIOUS
  <2>3. [o \in {m.ordinal} |-> c] \in Envelopes
    BY <2>1, <2>2 DEF Envelopes
  <2> QED
    BY <1>3, <2>3, NoneAssumption
<1>7. ASSUME NEW d \in Calls PROVE Placed(d)'
  <2>1. CASE d # c
    BY <1>3, <1>4, <1>5, <2>1, UntouchedPlaced DEF FateInv, Places, Placed
  <2>2. CASE d = c
    BY <1>1, <1>2, <1>3, <1>6, <2>2 DEF Placed
  <2> QED
    BY <2>1, <2>2
<1>8. ASSUME NEW d \in Calls PROVE Sent(d)'
  <2>1. pc'[d] # "sealing"
    BY <1>1, <1>3 DEF FateInv, IInv, Handlers, HandlerOK, Sealer
  <2> QED
    BY <1>1, <2>1 DEF Sent
<1>9. ASSUME NEW d \in Calls PROVE Fate(d)'
  <2>1. CASE d # c
    BY <1>4, <1>5, <2>1, UntouchedFate DEF FateInv, Fates
  <2>2. CASE d = c
    BY <1>1, <1>2, <2>2 DEF Fate
  <2> QED
    BY <2>1, <2>2
<1> QED
  BY <1>4, <1>7, <1>8, <1>9 DEF Places, Fates

-----------------------------------------------------------------------------
(* Steps in which nobody arrives and nobody returns.                       *)

\* The seal is held by one handler, the formation is whole, and no envelope of
\* its was sent before.
LEMMA SealAndSendSends ==
  ASSUME FateInv, NEW c \in Calls, SealAndSend(c), NEW g, g = joined[c]
  PROVE  /\ Aggregates /\ g \in Calls /\ sealed[g] /\ terminal[g] = None /\ IsOpened(g)
         /\ env[g] = None /\ slots[g] \in Slots
         /\ env' = [env EXCEPT ![g] = slots[g]]
         /\ pc' = [pc EXCEPT ![c] = "executing"]
         /\ UNCHANGED <<slots, terminal, done>>
<1>1. /\ g \in Calls /\ sealed[g] /\ terminal[g] = None /\ slots[g] \in Slots
      /\ IsOpened(g) /\ Aggregates
  BY ProxyAssumption DEF SealAndSend, FateInv, IInv, Handlers, HandlerOK, Sealer,
                         Formations, FormationOK
<1>2. AggregateAccepts(slots[g])
  BY <1>1, ReleasedIsNoSlots DEF AggregateAccepts
<1>3. env[g] = None
  BY DEF SealAndSend, FateInv, Places, Sent
<1> QED
  BY <1>1, <1>2, <1>3 DEF SealAndSend

\* The slots of a sealed formation hold B calls, so they are not nil.
LEMMA SealedSlots ==
  ASSUME FateInv, NEW g \in Calls, sealed[g], terminal[g] = None, slots[g] \in Slots
  PROVE  slots[g] \in Envelopes /\ slots[g] # None /\ slots[g] \in [Ordinals -> Calls]
<1>1. Cardinality(Filled(g)) >= TargetB
  BY DEF FateInv, IInv, Formations, FormationOK
<1>2. slots[g] \in [Ordinals -> Calls]
  BY <1>1, FullMeansEveryOrdinal DEF Filled, Slots
<1>3. Ordinals \in SUBSET (0 .. TargetB)
  BY ProxyAssumption DEF Ordinals
<1> QED
  BY <1>2, <1>3, NoneAssumption DEF Envelopes

\* sealAndSend builds the cohort's envelope or fails the cohort.
LEMMA SealAndSendFates ==
  ASSUME FateInv, NEW c \in Calls, SealAndSend(c)
  PROVE  Grows /\ Places' /\ Fates'
<1>1. PICK g : g = joined[c]
  OBVIOUS
<1>2. /\ Aggregates /\ g \in Calls /\ sealed[g] /\ terminal[g] = None /\ IsOpened(g)
      /\ env[g] = None /\ slots[g] \in Slots
      /\ env' = [env EXCEPT ![g] = slots[g]]
      /\ pc' = [pc EXCEPT ![c] = "executing"]
      /\ UNCHANGED <<slots, terminal, done>>
  BY <1>1, SealAndSendSends
<1>3. pc[c] = "sealing" /\ UNCHANGED <<member, ctx, joined, answer, record, deadline>>
  BY DEF SealAndSend
<1>4. env'[g] # None /\ \A f \in Calls : f # g => env'[f] = env[f]
  BY <1>2, SealedSlots DEF FateInv, IInv, Typed
<1>5. pc'[c] = "executing" /\ \A d \in Calls : d # c => pc'[d] = pc[d]
  BY <1>2 DEF FateInv, IInv, Typed
<1>6. Grows
  BY <1>2, <1>3, <1>4 DEF Grows, IsOpened, CohortOf
<1>7. \A d \in Calls \ {c} : Untouched(d)
  BY <1>3, <1>5 DEF Untouched
<1>8. \A d \in Calls : pc[d] = "idle" => d # g
  BY <1>2 DEF FateInv, IInv, Formations, FormationOK, IsOpened
<1>9. ASSUME NEW d \in Calls PROVE Placed(d)'
  <2>1. CASE d # c
    BY <1>4, <1>6, <1>7, <1>8, <2>1, UntouchedPlaced DEF FateInv, Places, Placed
  <2>2. CASE d = c
    <3>1. Placed(c)
      BY DEF FateInv, Places
    <3> QED
      BY <1>1, <1>2, <1>3, <1>4, <1>5, <2>2, <3>1 DEF Placed, IsOpened, CohortOf
  <2> QED
    BY <2>1, <2>2
<1>10. ASSUME NEW d \in Calls PROVE Sent(d)'
  <2>1. pc'[d] = "sealing" => pc[d] = "sealing" /\ d # c
    BY <1>5
  <2>2. pc'[d] = "sealing" => joined[d] # g /\ joined[d] \in Calls
    BY <1>1, <1>3, <2>1 DEF FateInv, IInv, Handlers, HandlerOK, Sealer
  <2>3. pc'[d] = "sealing" => env'[joined'[d]] = None
    BY <1>3, <1>4, <2>1, <2>2 DEF FateInv, Places, Sent
  <2> QED
    BY <1>2, <1>4, <2>3 DEF FateInv, Places, Sent
<1>11. ASSUME NEW d \in Calls PROVE Fate(d)'
  <2>1. CASE d # c
    BY <1>6, <1>7, <2>1, UntouchedFate DEF FateInv, Fates
  <2>2. CASE d = c
    BY <1>3, <2>2 DEF FateInv, Places, Placed, Fate
  <2> QED
    BY <2>1, <2>2
<1> QED
  BY <1>6, <1>9, <1>10, <1>11 DEF Places, Fates

\* What expire, Close, a timer, a context and the backend's answer have in
\* common: nobody's handler returns, and done closes only on a formation that
\* fails or has sent its envelope.
LEMMA QuietFates ==
  ASSUME FateInv, Grows,
         UNCHANGED <<member, joined, answer, record, env>>,
         \A d \in Calls : \/ pc'[d] = pc[d]
                          \/ pc[d] = "executing" /\ pc'[d] = "waiting",
         \A d \in Calls : ctx'[d] = ctx[d] \/ pc[d] # "returned",
         \A f \in Calls : terminal'[f] = None =>
           terminal[f] = None /\ (done'[f] = done[f] \/ env[f] # None)
  PROVE  Places' /\ Fates'
<1>1. ASSUME NEW d \in Calls, pc'[d] = pc[d] PROVE Untouched(d)
  BY <1>1 DEF Untouched, FateInv, Places, Placed
<1>2. ASSUME NEW d \in Calls PROVE Placed(d)'
  <2>1. CASE pc'[d] = pc[d]
    BY <1>1, <2>1, UntouchedPlaced DEF FateInv, Places, Placed
  <2>2. CASE pc[d] = "executing" /\ pc'[d] = "waiting"
    <3>1. joined[d] # None =>
           /\ Aggregates /\ joined[d] \in Calls /\ IsOpened(joined[d])' /\ member[d] \in Members
           /\ CohortOf(joined[d])' = member[d].cohort
           /\ terminal'[joined[d]] = None =>
                member[d].ordinal \in Ordinals /\ slots'[joined[d]][member[d].ordinal] = d
      BY ProxyAssumption DEF Grows, FateInv, Places, Placed
    <3>2. answer[d] = None /\ record[d] = None
      BY <2>2 DEF FateInv, Places, Placed
    <3> QED
      BY <2>2, <3>1, <3>2 DEF Placed, IsOpened, CohortOf
  <2> QED
    BY <2>1, <2>2
<1>3. ASSUME NEW d \in Calls PROVE Sent(d)'
  BY DEF FateInv, Places, Sent
<1>4. ASSUME NEW d \in Calls PROVE Fate(d)'
  <2>1. CASE pc'[d] = pc[d]
    BY <1>1, <2>1, UntouchedFate DEF FateInv, Fates
  <2>2. CASE pc[d] = "executing" /\ pc'[d] = "waiting"
    BY <2>2 DEF Fate, FateInv, Places, Placed
  <2> QED
    BY <2>1, <2>2
<1> QED
  BY <1>2, <1>3, <1>4 DEF Places, Fates

\* Failing formations lets their payloads go and nothing else.
LEMMA FailGrows ==
  ASSUME NEW F \in SUBSET Calls, NEW cause, cause # None, FailLocked(F, cause),
         UNCHANGED <<member, env>>, \A f \in Calls : IsOpened(f) => IsOpened(f)'
  PROVE  /\ Grows
         /\ \A f \in Calls : terminal'[f] = None => terminal[f] = None /\ done'[f] = done[f]
<1>1. \A f \in Calls : terminal'[f] = None =>
        f \notin F /\ terminal[f] = None /\ done'[f] = done[f] /\ slots'[f] = slots[f]
  BY DEF FailLocked
<1>2. \A f \in Calls : terminal[f] # None => terminal'[f] # None
  BY DEF FailLocked
<1> QED
  BY <1>1, <1>2 DEF Grows, CohortOf

\* A formation's timer fails it.
LEMMA ExpireFates ==
  ASSUME FateInv, NEW g \in Calls, Expire(g)
  PROVE  Grows /\ Places' /\ Fates'
<1>1. \A f \in Calls : IsOpened(f) => IsOpened(f)'
  BY DEF Expire, IsOpened, FateInv, IInv, Typed
<1>2. PICK F \in SUBSET Calls : FailLocked(F, "deadline")
  BY DEF Expire
<1>3. UNCHANGED <<handlerVars, env>>
  BY DEF Expire
<1>4. /\ Grows
      /\ \A f \in Calls : terminal'[f] = None => terminal[f] = None /\ done'[f] = done[f]
  BY <1>1, <1>2, <1>3, FailGrows, ProxyAssumption DEF handlerVars
<1> QED
  BY <1>3, <1>4, QuietFates DEF handlerVars

\* Close fails every formation that is not settled.
LEMMA CloseFates ==
  ASSUME FateInv, Close
  PROVE  Grows /\ Places' /\ Fates'
<1>1. \A f \in Calls : IsOpened(f) => IsOpened(f)'
  BY DEF Close, Stop, IsOpened, FateInv, IInv, Typed
<1>2. PICK F \in SUBSET Calls : FailLocked(F, "shutdown")
  BY DEF Close
<1>3. UNCHANGED <<handlerVars, env>>
  BY DEF Close
<1>4. /\ Grows
      /\ \A f \in Calls : terminal'[f] = None => terminal[f] = None /\ done'[f] = done[f]
  BY <1>1, <1>2, <1>3, FailGrows, ProxyAssumption DEF handlerVars
<1> QED
  BY <1>3, <1>4, QuietFates DEF handlerVars

\* A timer that fires touches no call yet.
LEMMA TimerFiresFates ==
  ASSUME FateInv, NEW g \in Calls, TimerFires(g)
  PROVE  Grows /\ Places' /\ Fates'
<1>1. \A f \in Calls : IsOpened(f) => IsOpened(f)'
  BY DEF TimerFires, IsOpened, FateInv, IInv, Typed
<1>2. UNCHANGED <<handlerVars, slots, terminal, done, env>>
  BY DEF TimerFires
<1>3. Grows
  BY <1>1, <1>2 DEF Grows, CohortOf, handlerVars
<1> QED
  BY <1>2, <1>3, QuietFates DEF handlerVars

\* A context that ends touches no call yet.
LEMMA ContextEndsFates ==
  ASSUME FateInv, NEW c \in Calls, ContextEnds(c)
  PROVE  Grows /\ Places' /\ Fates'
<1>1. Grows
  BY StillGrows DEF ContextEnds
<1>2. UNCHANGED <<pc, member, joined, answer, record, terminal, done, env>> /\ pc[c] = "waiting"
  BY DEF ContextEnds, formationVars
<1>3. \A d \in Calls : ctx'[d] = ctx[d] \/ d = c
  BY DEF ContextEnds, FateInv, IInv, Typed
<1> QED
  BY <1>1, <1>2, <1>3, QuietFates

\* The backend's answer, or its error, is kept for the members of the envelope.
LEMMA BackendAnswersFates ==
  ASSUME FateInv, NEW c \in Calls, BackendAnswers(c)
  PROVE  Grows /\ Places' /\ Fates'
<1>1. /\ pc[c] = "executing" /\ pc' = [pc EXCEPT ![c] = "waiting"]
      /\ done' = [done EXCEPT ![joined[c]] = @ + 1]
      /\ UNCHANGED <<member, ctx, joined, answer, record, slots, deadline, terminal, env>>
  BY DEF BackendAnswers
<1>2. env[joined[c]] # None
  BY <1>1 DEF FateInv, Places, Placed
<1>3. Grows
  BY <1>1 DEF Grows, IsOpened, CohortOf
<1>4. \A d \in Calls : \/ pc'[d] = pc[d]
                       \/ pc[d] = "executing" /\ pc'[d] = "waiting"
  BY <1>1 DEF FateInv, IInv, Typed
<1>5. \A f \in Calls : done'[f] = done[f] \/ env[f] # None
  BY <1>1, <1>2 DEF FateInv, IInv, Typed
<1> QED
  BY <1>1, <1>3, <1>4, <1>5, QuietFates

\* Nothing changes when nothing happens.
LEMMA StutterFates ==
  ASSUME FateInv, UNCHANGED vars
  PROVE  Grows /\ Places' /\ Fates'
<1>1. Grows
  BY StillGrows DEF vars, handlerVars
<1> QED
  BY <1>1, QuietFates DEF vars, handlerVars, formationVars

-----------------------------------------------------------------------------

\* No call has a fate at first.
LEMMA FateInit == Init => FateInv
<1> SUFFICES ASSUME Init PROVE FateInv
  OBVIOUS
<1>1. ReturnedTyped
  <2>1. <<>> \in Seq(Results)
    OBVIOUS
  <2> QED
    BY <2>1 DEF Init, ReturnedTyped
<1>2. Places /\ Fates
  BY DEF Init, Places, Placed, Sent, Fates, Fate
<1> QED
  BY <1>1, <1>2, InitInvariant DEF FateInv

\* The invariant is inductive: one case for each action.
LEMMA FateStep == FateInv /\ [Next]_vars => FateInv'
<1> SUFFICES ASSUME FateInv, [Next]_vars PROVE FateInv'
  OBVIOUS
<1>1. IInv' /\ ReturnedTyped'
  BY StepKeeps, ReturnedStep DEF FateInv
<1>2. Places' /\ Fates'
  <2>1. ASSUME NEW c \in Calls, NEW m \in Members, Submit(c, m) \/ Forward(c, m)
        PROVE  Places' /\ Fates'
    BY <2>1, SubmitFates, ForwardFates
  <2>2. ASSUME NEW c \in Calls, SubmitRejected(c) \/ Handler(c) \/ ContextEnds(c)
        PROVE  Places' /\ Fates'
    BY <2>2, SubmitRejectedFates, SealAndSendFates, BackendAnswersFates, WakeFates, LeaveFates,
       ForwardAnsweredFates, ContextEndsFates DEF Handler
  <2>3. ASSUME NEW f \in Calls, TimerFires(f) \/ Expire(f)
        PROVE  Places' /\ Fates'
    BY <2>3, TimerFiresFates, ExpireFates
  <2> QED
    BY <2>1, <2>2, <2>3, CloseFates, StutterFates DEF Next
<1> QED
  BY <1>1, <1>2 DEF FateInv

\* Where every payload is, and what every call was told, in every state.
THEOREM FateInvariant == Spec => []FateInv
BY FateInit, FateStep, PTL DEF Spec

\* Nobody is handed a neighbour's answer, and nobody whose payload did not
\* travel is handed any: memberResult answers by identity, for every response
\* the backend may give.
THEOREM AnswersBelong == Spec => []AnswersAreOwn
<1>1. FateInv => AnswersAreOwn
  <2> SUFFICES ASSUME FateInv, NEW c \in Calls, answer[c] \notin {None, Failed}
               PROVE  /\ answer[c].cohort = member[c].cohort
                      /\ answer[c].ordinal = member[c].ordinal
                      /\ CarriedBy(c) # None
                      /\ env[CarriedBy(c)] # None
                      /\ env[CarriedBy(c)][member[c].ordinal] = c
    BY DEF AnswersAreOwn
  <2> QED
    BY ProxyAssumption DEF FateInv, Fates, Fate, Travelled
<1> QED
  BY <1>1, FateInvariant, PTL

\* The record a call leaves agrees with what became of it: envelope stages only
\* if its payload travelled, ok exactly when the caller was told ok, a timeout
\* only where the caller's deadline passed while it was held, and an arrival
\* alone only where its cohort failed or it left.
THEOREM RecordsAreTrue == Spec => []RecordTellsTheFate
<1>1. FateInv => RecordTellsTheFate
  BY DEF FateInv, Fates, Fate, Travelled, RecordTellsTheFate
<1> QED
  BY <1>1, FateInvariant, PTL

-----------------------------------------------------------------------------
(* The proxy implements CohortContract: every step of its, seen through    *)
(* the refinement mapping, is a step of the contract or changes nothing.   *)

\* A formation that failed or sent its envelope was opened.
LEMMA DecidedIsOpened ==
  ASSUME FateInv, Aggregates, NEW f \in Calls, env[f] # None \/ terminal[f] # None
  PROVE  IsOpened(f)
BY DEF FateInv, IInv, Formations, FormationOK, Fresh, IsOpened

\* What the refinement mapping says of a cohort id.  The one formation opened
\* for it speaks for it, and an id without one is undecided.
Spoken ==
  /\ \A f \in Calls : IsOpened(f) =>
       /\ VerdictOf(CohortOf(f)) =
            IF env[f] # None THEN "travelled" ELSE IF terminal[f] # None THEN "failed" ELSE "open"
       /\ CarriedFor(CohortOf(f)) =
            {c \in Calls : env[f] # None /\ \E o \in Ordinals : env[f][o] = c}
  /\ \A k \in Cohorts :
       (\A f \in Calls : IsOpened(f) => CohortOf(f) # k) =>
         VerdictOf(k) = "open" /\ CarriedFor(k) = {}

\* The contract's view of a cohort is what its formation says: travelled with an
\* envelope, failed when settled without, and open otherwise.
LEMMA FormationSpeaks == FateInv => Spoken
<1> SUFFICES ASSUME FateInv PROVE Spoken
  OBVIOUS
<1>1. ASSUME NEW f \in Calls, IsOpened(f)
      PROVE  /\ VerdictOf(CohortOf(f)) = IF env[f] # None THEN "travelled"
                                         ELSE IF terminal[f] # None THEN "failed" ELSE "open"
             /\ CarriedFor(CohortOf(f)) =
                  {c \in Calls : env[f] # None /\ \E o \in Ordinals : env[f][o] = c}
  <2>1. Opened(CohortOf(f)) = {f}
    BY <1>1 DEF FateInv, IInv, Registered, Opened, IsOpened
  <2> QED
    BY <2>1 DEF VerdictOf, CarriedFor
<1>2. ASSUME NEW k \in Cohorts, \A f \in Calls : IsOpened(f) => CohortOf(f) # k
      PROVE  VerdictOf(k) = "open" /\ CarriedFor(k) = {}
  <2>1. Opened(k) = {}
    BY <1>2 DEF Opened, IsOpened
  <2> QED
    BY <2>1 DEF VerdictOf, CarriedFor
<1> QED
  BY <1>1, <1>2 DEF Spoken

\* Failing the formations of F fails their cohort ids, which were undecided,
\* and changes nothing else the callers can see.
LEMMA FailedView ==
  ASSUME FateInv, FateInv', Aggregates, Grows, UNCHANGED env,
         NEW F \in SUBSET Calls,
         \A f \in F : ~Settled(f) /\ IsOpened(f)',
         \A f \in Calls : terminal'[f] # None <=> terminal[f] # None \/ f \in F,
         NEW k \in Cohorts
  PROVE  /\ CarriedFor(k)' = CarriedFor(k)
         /\ (\E f \in F : CohortOf(f)' = k) =>
              VerdictOf(k) = "open" /\ VerdictOf(k)' = "failed"
         /\ ~(\E f \in F : CohortOf(f)' = k) => VerdictOf(k)' = VerdictOf(k)
<1>0. Spoken'
  BY FormationSpeaks, PTL
<1>1. CASE \E f \in Calls : IsOpened(f) /\ CohortOf(f) = k
  <2>1. PICK f \in Calls : IsOpened(f) /\ CohortOf(f) = k
    BY <1>1
  <2>2. IsOpened(f)' /\ CohortOf(f)' = k /\ env'[f] = env[f]
    BY <2>1 DEF Grows
  <2>3. /\ VerdictOf(k) = (IF env[f] # None THEN "travelled"
                           ELSE IF terminal[f] # None THEN "failed" ELSE "open")
        /\ CarriedFor(k) = {c \in Calls : env[f] # None /\ \E o \in Ordinals : env[f][o] = c}
    BY <2>1, FormationSpeaks DEF Spoken
  <2>4. /\ VerdictOf(k)' = (IF env'[f] # None THEN "travelled"
                            ELSE IF terminal'[f] # None THEN "failed" ELSE "open")
        /\ CarriedFor(k)' = {c \in Calls : env'[f] # None /\ \E o \in Ordinals : env'[f][o] = c}
    BY <1>0, <2>2 DEF Spoken, CohortOf, IsOpened
  <2>5. (\E g \in F : CohortOf(g)' = k) <=> f \in F
    BY <2>2 DEF FateInv, IInv, Registered
  <2>6. f \in F => env[f] = None /\ terminal[f] = None
    BY DEF Settled, FateInv, IInv, Formations, FormationOK
  <2> QED
    BY <2>2, <2>3, <2>4, <2>5, <2>6
<1>2. CASE ~\E f \in Calls : IsOpened(f) /\ CohortOf(f) = k
  <2>1. VerdictOf(k) = "open" /\ CarriedFor(k) = {}
    BY <1>2, FormationSpeaks DEF Spoken
  <2>2. ASSUME NEW f \in Calls, IsOpened(f)', CohortOf(f)' = k
        PROVE  /\ CarriedFor(k)' = {}
               /\ f \in F => VerdictOf(k)' = "failed"
               /\ f \notin F => VerdictOf(k)' = "open"
               /\ \A g \in F : CohortOf(g)' = k => g = f
    <3>1. ~IsOpened(f)
      BY <1>2, <2>2 DEF Grows
    <3>2. env[f] = None /\ terminal[f] = None
      BY <3>1, DecidedIsOpened
    <3>3. /\ VerdictOf(k)' = (IF env'[f] # None THEN "travelled"
                              ELSE IF terminal'[f] # None THEN "failed" ELSE "open")
          /\ CarriedFor(k)' = {c \in Calls : env'[f] # None /\ \E o \in Ordinals : env'[f][o] = c}
      BY <1>0, <2>2 DEF Spoken, CohortOf, IsOpened
    <3>4. \A g \in F : CohortOf(g)' = k => g = f
      BY <2>2 DEF FateInv, IInv, Registered
    <3> QED
      BY <3>2, <3>3, <3>4
  <2>3. CASE ~\E f \in Calls : IsOpened(f)' /\ CohortOf(f)' = k
    <3>1. VerdictOf(k)' = "open" /\ CarriedFor(k)' = {}
      BY <1>0, <2>3 DEF Spoken, CohortOf, IsOpened
    <3> QED
      BY <2>1, <2>3, <3>1
  <2> QED
    BY <2>1, <2>2, <2>3
<1> QED
  BY <1>1, <1>2

\* The callers see no cohort id decided.
SameView == \A k \in Cohorts : CarriedFor(k)' = CarriedFor(k) /\ VerdictOf(k)' = VerdictOf(k)

\* A step that builds no envelope and settles no formation is not seen.
LEMMA QuietView ==
  ASSUME FateInv, FateInv', Aggregates, Grows, UNCHANGED <<env, terminal>>
  PROVE  SameView
BY FailedView, {} \in SUBSET Calls DEF SameView

\* What a returning call is seen to be given.
LEMMA OutcomeGiven ==
  ASSUME FateInv, NEW c \in Calls, pc[c] # "returned", NEW a \in Results \cup {Failed},
         answer' = [answer EXCEPT ![c] = a]
  PROVE  /\ OutcomeOf(c) = None
         /\ OutcomeOf(c)' = IF a = Failed THEN "error" ELSE "result"
         /\ \A d \in Calls \ {c} : OutcomeOf(d)' = OutcomeOf(d)
<1>1. answer[c] = None
  BY DEF FateInv, Places, Placed
<1>2. answer'[c] = a /\ \A d \in Calls \ {c} : answer'[d] = answer[d]
  BY DEF FateInv, ReturnedTyped
<1>3. a # None /\ Failed # None
  BY ResultIsNoRefusal
<1> QED
  BY <1>1, <1>2, <1>3 DEF OutcomeOf

\* A refusal is always allowed.
LEMMA GivesError ==
  ASSUME FateInv, NEW c \in Calls, pc[c] # "returned",
         answer' = [answer EXCEPT ![c] = Failed], UNCHANGED member, SameView
  PROVE  Contract!Next
<1>1. /\ OutcomeOf(c) = None /\ OutcomeOf(c)' = "error"
      /\ \A d \in Calls \ {c} : OutcomeOf(d)' = OutcomeOf(d)
  BY OutcomeGiven
<1>2. Contract!GiveError(c)
  BY <1>1 DEF Contract!GiveError, SameView
<1> QED
  BY <1>2 DEF Contract!Next

\* Submit is one of the contract's steps.
LEMMA SubmitImplements ==
  ASSUME FateInv, FateInv', NEW c \in Calls, NEW m \in Members, Submit(c, m)
  PROVE  Contract!Next
<1>1. PICK g : g = Met(c, m.cohort)
  OBVIOUS
<1>2. /\ Aggregates /\ Arrives(c, m) /\ UNCHANGED <<ctx, closed>>
      /\ \/ JoinAfterClose(c) \/ JoinJudged(c, m)
         \/ JoinMalformed(c, m)
         \/ /\ Forming(m.cohort)
            /\ \E full \in BOOLEAN : Admits(c, m, g, full)
            /\ UNCHANGED <<answer, record, resp>>
  BY <1>1, SubmitCases DEF FateInv
<1>3. Grows
  BY SubmitFates
<1>4. /\ member[c] = None /\ pc[c] # "returned" /\ member' = [member EXCEPT ![c] = m]
      /\ answer[c] = None /\ OutcomeOf(c) = None
  BY <1>2, ResultIsNoRefusal DEF Arrives, FateInv, Places, Placed, OutcomeOf
<1>5. m \in Contract!Members
  BY DEF Members, Contract!Members
<1>6. CASE JoinAfterClose(c) \/ JoinJudged(c, m)
  <2>1. SameView
    BY <1>2, <1>3, <1>6, QuietView DEF JoinAfterClose, JoinJudged, formationVars
  <2>2. OutcomeOf(c)' = "error" /\ \A d \in Calls \ {c} : OutcomeOf(d)' = OutcomeOf(d)
    BY <1>4, <1>6, OutcomeGiven DEF JoinAfterClose, JoinJudged, Refuse, Return
  <2>3. Contract!Ask(c, m)
    BY <1>4, <2>1, <2>2 DEF Contract!Ask, SameView
  <2> QED
    BY <1>5, <2>3 DEF Contract!Next
<1>7. CASE JoinMalformed(c, m)
  <2>1. Forming(m.cohort)
    BY <1>7 DEF JoinMalformed
  <2>2. /\ g \in Calls /\ ~Settled(g) /\ member'[g].cohort = m.cohort
        /\ \A h \in Calls : Armed(c, m)[h] # "unset" <=> IsOpened(h) \/ h = g
    BY <1>1, <1>2, <2>1, MetFormation DEF FateInv
  <2>3. IsOpened(g)' /\ UNCHANGED env
    BY <1>7, <2>2 DEF JoinMalformed, IsOpened
  <2>4. \A f \in Calls : terminal'[f] # None <=> terminal[f] # None \/ f \in {g}
    BY <1>1, <1>7, ProxyAssumption DEF JoinMalformed, FailLocked
  <2>5. \A k \in Cohorts :
          /\ CarriedFor(k)' = CarriedFor(k)
          /\ k = m.cohort => VerdictOf(k) = "open" /\ VerdictOf(k)' = "failed"
          /\ k # m.cohort => VerdictOf(k)' = VerdictOf(k)
    <3>1. {g} \in SUBSET Calls /\ \A f \in {g} : ~Settled(f) /\ IsOpened(f)'
      BY <2>2, <2>3
    <3>2. CohortOf(g)' = m.cohort
      BY <2>2 DEF CohortOf
    <3> QED
      BY <1>2, <1>3, <2>3, <2>4, <3>1, <3>2, FailedView
  <2>6. OutcomeOf(c)' = "error" /\ \A d \in Calls \ {c} : OutcomeOf(d)' = OutcomeOf(d)
    BY <1>4, <1>7, OutcomeGiven DEF JoinMalformed, Refuse, Return
  <2>7. m.cohort \in Cohorts
    BY DEF Members
  <2>8. Contract!Ask(c, m)
    BY <1>4, <2>5, <2>6, <2>7 DEF Contract!Ask
  <2> QED
    BY <1>5, <2>8 DEF Contract!Next
<1>8. CASE /\ Forming(m.cohort)
           /\ \E full \in BOOLEAN : Admits(c, m, g, full)
           /\ UNCHANGED <<answer, record, resp>>
  <2>1. SameView
    BY <1>2, <1>3, <1>8, QuietView DEF Admits
  <2>2. \A d \in Calls : OutcomeOf(d)' = OutcomeOf(d)
    BY <1>8 DEF OutcomeOf
  <2>3. Contract!Ask(c, m)
    BY <1>4, <2>1, <2>2 DEF Contract!Ask, SameView
  <2> QED
    BY <1>5, <2>3 DEF Contract!Next
<1> QED
  BY <1>2, <1>6, <1>7, <1>8

\* The envelope that leaves is one whole cohort, and its id was undecided.
LEMMA SealAndSendImplements ==
  ASSUME FateInv, FateInv', NEW c \in Calls, SealAndSend(c)
  PROVE  Contract!Next
<1>1. PICK g : g = joined[c]
  OBVIOUS
<1>2. /\ Aggregates /\ g \in Calls /\ sealed[g] /\ terminal[g] = None /\ IsOpened(g)
      /\ env[g] = None /\ slots[g] \in Slots
      /\ env' = [env EXCEPT ![g] = slots[g]]
      /\ UNCHANGED <<slots, terminal, done>>
  BY <1>1, SealAndSendSends
<1>3. slots[g] # None /\ slots[g] \in [Ordinals -> Calls]
  BY <1>2, SealedSlots
<1>4. UNCHANGED <<member, answer, deadline>>
  BY DEF SealAndSend
<1>5. Spoken /\ Spoken'
  BY FormationSpeaks, PTL
<1> DEFINE S == {d \in Calls : \E o \in Ordinals : slots[g][o] = d}
<1>0. PICK k : k = CohortOf(g)
  OBVIOUS
<1>6. k \in Cohorts
  BY <1>0, <1>2 DEF FateInv, IInv, Formations, FormationOK, IsOpened, CohortOf, Members
<1>7. env'[g] = slots[g] /\ \A f \in Calls : f # g => env'[f] = env[f]
  BY <1>2 DEF FateInv, IInv, Typed
<1>8. /\ VerdictOf(k) = "open" /\ VerdictOf(k)' = "travelled" /\ CarriedFor(k)' = S
  <2>1. VerdictOf(k) = "open"
    BY <1>0, <1>2, <1>5 DEF Spoken
  <2>2. IsOpened(g)' /\ CohortOf(g)' = k
    BY <1>0, <1>2, <1>4 DEF IsOpened, CohortOf
  <2>3. /\ VerdictOf(k)' =
              (IF env'[g] # None THEN "travelled"
               ELSE IF terminal'[g] # None THEN "failed" ELSE "open")
        /\ CarriedFor(k)' = {d \in Calls : env'[g] # None /\ \E o \in Ordinals : env'[g][o] = d}
    BY <1>2, <1>5, <2>2 DEF Spoken, IsOpened, CohortOf
  <2> QED
    BY <1>3, <1>7, <2>1, <2>3
<1>9. \A j \in Cohorts : j # k => VerdictOf(j)' = VerdictOf(j) /\ CarriedFor(j)' = CarriedFor(j)
  <2> SUFFICES ASSUME NEW j \in Cohorts, j # k
               PROVE  VerdictOf(j)' = VerdictOf(j) /\ CarriedFor(j)' = CarriedFor(j)
    OBVIOUS
  <2>1. Opened(j)' = Opened(j)
    BY <1>4 DEF Opened, CohortOf
  <2>2. \A f \in Opened(j) : env'[f] = env[f]
    BY <1>0, <1>7 DEF Opened
  <2> QED
    BY <1>2, <2>1, <2>2 DEF VerdictOf, CarriedFor
<1>10. Contract!WholeCohort(k, S)
  <2>1. \A o \in Ordinals : slots[g][o] # None /\ slots[g][o] \in Calls
    BY <1>3, ProxyAssumption
  <2>2. \A o \in Ordinals : member[slots[g][o]] = [cohort |-> k, ordinal |-> o]
    BY <1>0, <1>2, <2>1 DEF FateInv, IInv, Admitted
  <2>3. \A o \in Ordinals : slots[g][o] \in S
    BY <2>1
  <2>4. \A d \in S : \E o \in Ordinals : slots[g][o] = d
    OBVIOUS
  <2> HIDE DEF S
  <2>5. ASSUME NEW d \in S
        PROVE  /\ member[d] \in [cohort : {k}, ordinal : Ordinals]
               /\ slots[g][member[d].ordinal] = d
    <3>1. PICK o \in Ordinals : slots[g][o] = d
      BY <2>4
    <3>2. member[d] = [cohort |-> k, ordinal |-> o]
      BY <2>2, <3>1
    <3> QED
      BY <3>1, <3>2
  <2>6. \A d, e \in S : member[d].ordinal = member[e].ordinal => d = e
    <3> SUFFICES ASSUME NEW d \in S, NEW e \in S, member[d].ordinal = member[e].ordinal
                 PROVE  d = e
      OBVIOUS
    <3>1. slots[g][member[d].ordinal] = d /\ slots[g][member[e].ordinal] = e
      BY <2>5
    <3> QED
      BY <3>1
  <2>7. \A o \in Ordinals : \E d \in S : member[d].ordinal = o
    <3> SUFFICES ASSUME NEW o \in Ordinals PROVE \E d \in S : member[d].ordinal = o
      OBVIOUS
    <3>1. member[slots[g][o]] = [cohort |-> k, ordinal |-> o]
      BY <2>2
    <3>2. [cohort |-> k, ordinal |-> o].ordinal = o
      OBVIOUS
    <3>3. PICK d \in S : d = slots[g][o]
      BY <2>3
    <3> QED
      BY <3>1, <3>2, <3>3
  <2> QED
    BY <2>5, <2>6, <2>7 DEF Contract!WholeCohort, Ordinals
<1>11. \A d \in Calls : OutcomeOf(d)' = OutcomeOf(d)
  BY <1>4 DEF OutcomeOf
<1> HIDE DEF S
<1>12. Contract!Travel(k, S)
  BY <1>4, <1>6, <1>8, <1>9, <1>10, <1>11 DEF Contract!Travel
<1>13. S \in SUBSET Calls
  BY DEF S
<1> QED
  BY <1>6, <1>12, <1>13 DEF Contract!Next

\* A result is given only to a call the envelope carried.
LEMMA WakeImplements ==
  ASSUME FateInv, FateInv', Aggregates, NEW c \in Calls, Wake(c)
  PROVE  Contract!Next
<1>1. UNCHANGED <<member, joined, env, terminal>> /\ Grows /\ pc[c] # "returned"
  BY StillGrows DEF Wake, formationVars
<1>2. SameView
  BY <1>1, QuietView
<1>3. CASE answer' = [answer EXCEPT ![c] = Failed]
  BY <1>1, <1>2, <1>3, GivesError
<1>4. ASSUME terminal[joined[c]] = None, NEW a \in Results, answer' = [answer EXCEPT ![c] = a]
      PROVE  Contract!Next
  <2>1. joined[c] \in Calls /\ IsOpened(joined[c])
    BY DEF Wake, FateInv, IInv, Handlers, HandlerOK
  <2>2. /\ env[joined[c]] # None /\ env[joined[c]][member[c].ordinal] = c
        /\ member[c].ordinal \in Ordinals
    BY <1>4, <2>1, WokenTravelled, ProxyAssumption DEF Travelled, CarriedBy, FateInv, Places, Placed
  <2>3. Spoken
    BY FormationSpeaks
  <2>4. CohortOf(joined[c]) \in Cohorts
    BY <2>1 DEF FateInv, IInv, Formations, FormationOK, IsOpened, CohortOf, Members
  <2>5. /\ VerdictOf(CohortOf(joined[c])) = "travelled"
        /\ c \in CarriedFor(CohortOf(joined[c]))
    BY <2>1, <2>2, <2>3 DEF Spoken
  <2>6. /\ OutcomeOf(c) = None /\ OutcomeOf(c)' = "result"
        /\ \A d \in Calls \ {c} : OutcomeOf(d)' = OutcomeOf(d)
    BY <1>1, <1>4, OutcomeGiven, ResultIsNoRefusal
  <2>7. Contract!GiveResult(c)
    BY <1>1, <1>2, <2>4, <2>5, <2>6 DEF Contract!GiveResult, SameView
  <2> QED
    BY <2>7 DEF Contract!Next
<1>5. resp[joined[c]] \in Seq(Results)
  BY DEF Wake, FateInv, IInv, Handlers, HandlerOK, ReturnedTyped
<1>6. \A i \in OwnResults(resp[joined[c]], member[c]) : resp[joined[c]][i] \in Results
  BY <1>5 DEF OwnResults
<1> QED
  BY <1>3, <1>4, <1>6 DEF Wake, Return, ReturnOwnResult

\* expire and Close fail cohort ids that were undecided.
LEMMA FailImplements ==
  ASSUME FateInv, FateInv', Aggregates, Grows, UNCHANGED <<member, answer, env>>,
         NEW F \in SUBSET Calls, NEW cause, cause # None, FailLocked(F, cause),
         \A f \in F : ~Settled(f) /\ IsOpened(f)
  PROVE  Contract!Next
<1> DEFINE K == {k \in Cohorts : \E f \in F : CohortOf(f)' = k}
<1>1. \A f \in Calls : terminal'[f] # None <=> terminal[f] # None \/ f \in F
  BY DEF FailLocked
<1>2. \A f \in F : ~Settled(f) /\ IsOpened(f)'
  BY DEF Grows
<1>3. \A k \in Cohorts :
        /\ CarriedFor(k)' = CarriedFor(k)
        /\ k \in K => VerdictOf(k) = "open" /\ VerdictOf(k)' = "failed"
        /\ k \notin K => VerdictOf(k)' = VerdictOf(k)
  BY <1>1, <1>2, FailedView
<1>4. \A d \in Calls : OutcomeOf(d)' = OutcomeOf(d)
  BY DEF OutcomeOf
<1>5. Contract!Fail(K)
  BY <1>3, <1>4 DEF Contract!Fail
<1> QED
  BY <1>5 DEF Contract!Next

\* Every step of the proxy is a step of the contract or is not seen.
LEMMA ContractStep ==
  ASSUME FateInv, FateInv', Aggregates, [Next]_vars
  PROVE  [Contract!Next]_(Contract!vars)
<1>1. ASSUME NEW c \in Calls, NEW m \in Members, Submit(c, m) PROVE Contract!Next
  BY <1>1, SubmitImplements
<1>2. ASSUME NEW c \in Calls, NEW m \in Members, Forward(c, m) PROVE FALSE
  BY <1>2 DEF Forward
<1>3. ASSUME NEW c \in Calls, SubmitRejected(c) \/ Leave(c) PROVE Contract!Next
  <2>1. /\ UNCHANGED <<member, env, terminal>> /\ Grows /\ pc[c] # "returned"
        /\ answer' = [answer EXCEPT ![c] = Failed]
    BY <1>3, StillGrows DEF SubmitRejected, Leave, Return, formationVars
  <2> QED
    BY <2>1, QuietView, GivesError
<1>4. ASSUME NEW c \in Calls, SealAndSend(c) PROVE Contract!Next
  BY <1>4, SealAndSendImplements
<1>5. ASSUME NEW c \in Calls, Wake(c) PROVE Contract!Next
  BY <1>5, WakeImplements
<1>6. ASSUME NEW c \in Calls, ForwardAnswered(c) PROVE FALSE
  BY <1>6 DEF ForwardAnswered, FateInv, Places, Placed
<1>7. ASSUME Grows, UNCHANGED <<member, answer, env, terminal>> PROVE UNCHANGED Contract!vars
  <2>1. SameView
    BY <1>7, QuietView
  <2>2. \A d \in Calls : OutcomeOf(d)' = OutcomeOf(d)
    BY <1>7 DEF OutcomeOf
  <2> QED
    BY <1>7, <2>1, <2>2 DEF SameView, Contract!vars
<1>8. ASSUME NEW c \in Calls, BackendAnswers(c) \/ ContextEnds(c) \/ TimerFires(c)
      PROVE  UNCHANGED Contract!vars
  <2>1. Grows
    BY <1>8, BackendAnswersFates, ContextEndsFates, TimerFiresFates
  <2>2. UNCHANGED <<member, answer, env, terminal>>
    BY <1>8 DEF BackendAnswers, ContextEnds, TimerFires, handlerVars, formationVars
  <2> QED
    BY <1>7, <2>1, <2>2
<1>9. ASSUME NEW g \in Calls, Expire(g) PROVE Contract!Next
  <2> DEFINE F == {g} \ {h \in Calls : Settled(h)}
  <2>1. /\ Grows /\ UNCHANGED <<member, answer, env>> /\ FailLocked(F, "deadline")
        /\ "deadline" # None /\ F \in SUBSET Calls
    BY <1>9, ExpireFates, ProxyAssumption DEF Expire, handlerVars
  <2>2. \A f \in F : ~Settled(f) /\ IsOpened(f)
    BY <1>9 DEF Expire, IsOpened
  <2> QED
    BY <2>1, <2>2, FailImplements
<1>10. CASE Close
  <2> DEFINE F == {f \in Calls : (\E k \in Cohorts : registry[k] = f) /\ ~Settled(f)}
  <2>1. /\ Grows /\ UNCHANGED <<member, answer, env>> /\ FailLocked(F, "shutdown")
        /\ "shutdown" # None /\ F \in SUBSET Calls
    BY <1>10, CloseFates, ProxyAssumption DEF Close, handlerVars
  <2>2. \A f \in F : ~Settled(f) /\ IsOpened(f)
    BY DEF FateInv, IInv, Registered
  <2> QED
    BY <2>1, <2>2, FailImplements
<1>11. CASE UNCHANGED vars
  <2>1. Grows
    BY <1>11, StutterFates
  <2> QED
    BY <1>7, <1>11, <2>1 DEF vars, handlerVars, formationVars
<1> QED
  BY <1>1, <1>2, <1>3, <1>4, <1>5, <1>6, <1>8, <1>9, <1>10, <1>11 DEF Next, Handler

\* The proxy's initial states are the contract's.
LEMMA ContractInit == Init => Contract!Init
<1> SUFFICES ASSUME Init PROVE Contract!Init
  OBVIOUS
<1>1. \A k : Opened(k) = {}
  BY DEF Init, Opened
<1>2. \A k \in Cohorts : VerdictOf(k) = "open" /\ CarriedFor(k) = {}
  BY <1>1 DEF VerdictOf, CarriedFor
<1>3. \A c \in Calls : OutcomeOf(c) = None
  BY ResultIsNoRefusal DEF Init, OutcomeOf
<1> QED
  BY <1>2, <1>3 DEF Init, Contract!Init

\* The aggregating proxy implements the contract of its callers: whatever the
\* arrivals, timers, departures, backend answers and shutdown do, each cohort
\* id is decided at most once, travels whole or fails whole, and only a call
\* whose payload travelled is given a result.
THEOREM ProxyImplementsContract ==
  ASSUME Aggregates
  PROVE  Spec => KeepsContract
<1>1. FateInv /\ FateInv' /\ [Next]_vars => [Contract!Next]_(Contract!vars)
  BY ContractStep
<1> QED
  BY <1>1, ContractInit, FateInvariant, PTL DEF Spec, KeepsContract, Contract!Spec

-----------------------------------------------------------------------------
(* The shared path.                                                        *)

\* The load generator's own state, and how it hangs together with the proxy's:
\* a call is in the proxy once its request was delivered, and then carries the
\* identity it was minted with; every handler that returned left a record; and
\* a member recorded ok was answered ok.
PathTyped ==
  /\ ordinal \in [Calls -> Ordinals]
  /\ \A c, d \in Calls : ordinal[c] = ordinal[d] => c = d
  /\ client \in [Calls -> {"started", "arrived", "sent", "recorded"}]
  /\ wire \in [Calls -> {"none", "request", "delivered", "gone"}]
  /\ lgRecord \in [Calls -> {"ok", "error", "timeout", None}]

Joins(c) ==
  /\ client[c] \in {"started", "arrived"} => wire[c] = "none"
  /\ pc[c] = "idle" <=> wire[c] # "delivered"
  /\ pc[c] # "idle" => member[c] = Identity(c)
  /\ pc[c] = "returned" => record[c] # None
  /\ client[c] = "recorded" => lgRecord[c] \in {"ok", "error", "timeout"}
  /\ lgRecord[c] = "ok" => pc[c] = "returned" /\ answer[c] # Failed /\ answer[c].status = "ok"

PathInv == FateInv /\ PathTyped /\ \A c \in Calls : Joins(c)

-----------------------------------------------------------------------------
(* The proxy under the load generator is the proxy of module Proxy.        *)

\* The identity a request carries is a member's.
LEMMA IdentityTyped ==
  ASSUME PathTyped, NEW c \in Calls
  PROVE  Identity(c) \in Members
BY SharedPathAssumption, ProxyAssumption DEF PathTyped, Identity, Members, Ordinals

\* Every step of the path is a step of the proxy, or does not touch it.
LEMMA PathStepIsProxyStep ==
  ASSUME PathTyped, [PathNext]_allVars
  PROVE  [Next]_vars
<1>1. ASSUME NEW c \in Calls, Client(c) \/ TransportFails(c) \/ Cancelled(c) PROVE UNCHANGED vars
  BY <1>1 DEF Client, Arrive, Send, GiveUp, ReplyArrives, TransportFails, Cancelled
<1>2. ASSUME NEW c \in Calls, Delivered(c) PROVE Next
  <2>1. Submit(c, Identity(c)) /\ Identity(c) \in Members
    BY <1>2, IdentityTyped DEF Delivered
  <2> QED
    BY <2>1 DEF Next
<1>3. ASSUME NEW c \in Calls, CallerGone(c) \/ Serves(c) \/ TimerStep(c) PROVE Next
  BY <1>3 DEF CallerGone, Serves, TimerStep, Next
<1>4. CASE DeadlinePasses
  BY <1>4 DEF DeadlinePasses
<1>5. CASE UNCHANGED allVars
  BY <1>5 DEF allVars
<1> QED
  BY <1>1, <1>2, <1>3, <1>4, <1>5 DEF PathNext

\* What a handler does by itself: it neither arrives nor changes its identity,
\* returns with a record, and returns once.
LEMMA HandlerMoves ==
  ASSUME FateInv, NEW c \in Calls, Handler(c), NEW d \in Calls
  PROVE  /\ pc'[d] = "idle" <=> pc[d] = "idle"
         /\ member'[d] = member[d]
         /\ pc[d] = "returned" => /\ pc'[d] = "returned"
                                  /\ answer'[d] = answer[d]
                                  /\ record'[d] = record[d]
         /\ pc'[d] = "returned" /\ pc[d] # "returned" => record'[d] # None
<1>1. pc[c] \in {"sealing", "executing", "waiting", "forwarding"} /\ UNCHANGED member
  BY DEF Handler, SealAndSend, BackendAnswers, Wake, Leave, ForwardAnswered
<1>2. CASE SealAndSend(c) \/ BackendAnswers(c)
  <2>1. pc' \in {[pc EXCEPT ![c] = "executing"], [pc EXCEPT ![c] = "waiting"]}
    BY <1>2 DEF SealAndSend, BackendAnswers
  <2>2. UNCHANGED <<answer, record>>
    BY <1>2 DEF SealAndSend, BackendAnswers
  <2> QED
    BY <1>1, <2>1, <2>2 DEF FateInv, IInv, Typed
<1>3. ASSUME NEW a, NEW r \in Records, Return(c, a, r)
      PROVE  /\ pc'[d] = "idle" <=> pc[d] = "idle"
             /\ pc[d] = "returned" => /\ pc'[d] = "returned"
                                      /\ answer'[d] = answer[d]
                                      /\ record'[d] = record[d]
             /\ pc'[d] = "returned" /\ pc[d] # "returned" => record'[d] # None
  <2>1. r # None
    BY NoneAssumption
  <2> QED
    BY <1>1, <1>3, <2>1 DEF Return, FateInv, IInv, Typed, ReturnedTyped
<1>4. \A stages \in {"arrival", "sealed", "forwarded"}, status \in {"ok", "error", "timeout"} :
        [stages |-> stages, status |-> status] \in Records
  BY DEF Records
<1>5. ASSUME NEW results \in Seq(Results), NEW stages \in {"sealed", "forwarded"},
             ReturnOwnResult(c, results, stages)
      PROVE  \E a : \E r \in Records : Return(c, a, r)
  <2>1. \A i \in OwnResults(results, member[c]) : results[i].status \in {"ok", "error"}
    BY ResultIsNoRefusal DEF OwnResults
  <2> QED
    BY <1>4, <1>5, <2>1 DEF ReturnOwnResult, Recorded
<1>6. CASE Wake(c)
  <2>1. resp[joined[c]] \in Seq(Results)
    BY <1>6 DEF Wake, FateInv, IInv, Handlers, HandlerOK, ReturnedTyped
  <2>2. \E a : \E r \in Records : Return(c, a, r)
    BY <1>4, <1>5, <1>6, <2>1 DEF Wake, Arrival, Recorded
  <2> QED
    BY <1>1, <1>3, <2>2
<1>7. CASE Leave(c)
  <2>1. \E a : \E r \in Records : Return(c, a, r)
    BY <1>4, <1>7 DEF Leave, Arrival, DepartureStatus
  <2> QED
    BY <1>1, <1>3, <2>1
<1>8. CASE ForwardAnswered(c)
  <2>1. {member[c]} \in SUBSET Members
    BY <1>8 DEF ForwardAnswered, FateInv, IInv, Handlers, HandlerOK
  <2>2. \E a : \E r \in Records : Return(c, a, r)
    BY <1>4, <1>5, <1>8, <2>1, ResponsesTyped DEF ForwardAnswered, Recorded
  <2> QED
    BY <1>1, <1>3, <2>2
<1> QED
  BY <1>2, <1>6, <1>7, <1>8 DEF Handler

\* A call that is delivered is in the proxy under its own identity, held,
\* or refused with a record.
LEMMA DeliveredMoves ==
  ASSUME FateInv, NEW c \in Calls, NEW m \in Members, Submit(c, m)
  PROVE  /\ pc[c] = "idle" /\ pc'[c] # "idle" /\ member'[c] = m
         /\ pc'[c] = "returned" => record'[c] # None
         /\ \A d \in Calls : d # c => /\ pc'[d] = pc[d] /\ member'[d] = member[d]
                                      /\ answer'[d] = answer[d] /\ record'[d] = record[d]
<1>1. pc[c] = "idle" /\ member' = [member EXCEPT ![c] = m]
  BY DEF Submit
<1>2. CASE Refuse(c)
  <2>1. Arrival("error") \in Records
    BY DEF Arrival, Records
  <2>2. Arrival("error") # None
    BY <2>1, NoneAssumption
  <2> QED
    BY <1>1, <1>2, <2>2 DEF Refuse, Return, FateInv, IInv, Typed, ReturnedTyped
<1>3. CASE JoinHeld(c, m) \/ JoinCompletes(c, m)
  <2>1. pc' \in {[pc EXCEPT ![c] = "waiting"], [pc EXCEPT ![c] = "sealing"]}
        /\ UNCHANGED <<answer, record>>
    BY <1>3 DEF JoinHeld, JoinCompletes
  <2> QED
    BY <1>1, <2>1 DEF FateInv, IInv, Typed
<1> QED
  BY <1>2, <1>3 DEF Submit, JoinAfterClose, JoinJudged, JoinMalformed

-----------------------------------------------------------------------------
(* The joint invariant.                                                    *)

\* A proxy step that leaves the load generator alone keeps the join if it
\* moves calls only the way handlers do.
LEMMA ProxyMoves ==
  ASSUME PathInv, UNCHANGED pathVars,
         \A d \in Calls :
           /\ pc'[d] = "idle" <=> pc[d] = "idle"
           /\ member'[d] = member[d]
           /\ pc[d] = "returned" => /\ pc'[d] = "returned"
                                    /\ answer'[d] = answer[d]
                                    /\ record'[d] = record[d]
           /\ pc'[d] = "returned" /\ pc[d] # "returned" => record'[d] # None
  PROVE  PathTyped' /\ \A c \in Calls : Joins(c)'
BY DEF PathInv, PathTyped, Joins, Identity, pathVars

\* The load generator's own steps: nothing of the proxy changes.
LEMMA ClientMoves ==
  ASSUME PathInv, UNCHANGED <<vars, ordinal>>, PathTyped',
         \A d \in Calls :
           /\ wire'[d] = "delivered" <=> wire[d] = "delivered"
           /\ client'[d] \in {"started", "arrived"} => wire'[d] = "none"
           /\ \/ lgRecord'[d] = lgRecord[d] /\ (client'[d] = "recorded" => client[d] = "recorded")
              \/ lgRecord'[d] \in {"error", "timeout"}
              \/ /\ lgRecord'[d] = "ok"
                 /\ pc[d] = "returned" /\ answer[d] # Failed /\ answer[d].status = "ok"
  PROVE  \A c \in Calls : Joins(c)'
BY DEF PathInv, Joins, Identity, vars, handlerVars

\* Nothing was sent at first.
LEMMA PathInitInv == PathInit => PathInv
<1> SUFFICES ASSUME PathInit PROVE PathInv
  OBVIOUS
<1>1. FateInv
  BY FateInit DEF PathInit
<1>2. PathTyped
  BY DEF PathInit, PathTyped
<1>3. \A c \in Calls : Joins(c)
  <2>1. None # "ok"
    BY SharedPathAssumption
  <2> QED
    BY <2>1 DEF PathInit, Init, Joins
<1> QED
  BY <1>1, <1>2, <1>3 DEF PathInv

\* The invariant is inductive: one case for each action.
LEMMA PathStepInv == PathInv /\ [PathNext]_allVars => PathInv'
<1> SUFFICES ASSUME PathInv, [PathNext]_allVars PROVE PathInv'
  OBVIOUS
<1> USE DEF pathVars
<1>1. FateInv'
  BY PathStepIsProxyStep, FateStep DEF PathInv
<1>2. ASSUME NEW c \in Calls, Arrive(c) \/ Send(c) \/ Cancelled(c)
      PROVE  PathTyped' /\ \A d \in Calls : Joins(d)'
  <2>1. /\ UNCHANGED <<vars, ordinal, lgRecord>>
        /\ \/ /\ client[c] = "started" /\ client' = [client EXCEPT ![c] = "arrived"]
              /\ wire[c] = "none" /\ UNCHANGED wire
           \/ /\ client[c] = "arrived" /\ client' = [client EXCEPT ![c] = "sent"]
              /\ wire[c] = "none" /\ wire' = [wire EXCEPT ![c] = "request"]
           \/ /\ client[c] = "recorded" /\ UNCHANGED client
              /\ wire[c] = "request" /\ wire' = [wire EXCEPT ![c] = "gone"]
    BY <1>2 DEF Arrive, Send, Cancelled, PathInv, Joins
  <2>2. PathTyped'
    BY <2>1 DEF PathInv, PathTyped
  <2>3. \A d \in Calls : client'[d] = "recorded" => client[d] = "recorded"
    BY <2>1 DEF PathInv, PathTyped
  <2>4. \A d \in Calls : wire'[d] = "delivered" <=> wire[d] = "delivered"
    BY <2>1 DEF PathInv, PathTyped
  <2>5. \A d \in Calls : client'[d] \in {"started", "arrived"} => wire'[d] = "none"
    BY <2>1 DEF PathInv, PathTyped, Joins
  <2> QED
    BY <2>1, <2>2, <2>3, <2>4, <2>5, ClientMoves
<1>3. ASSUME NEW c \in Calls, GiveUp(c) \/ TransportFails(c) \/ ReplyArrives(c)
      PROVE  PathTyped' /\ \A d \in Calls : Joins(d)'
  <2>1. StatusOfFailure(c) \in {"error", "timeout"}
    BY DEF StatusOfFailure
  <2>2. PICK status \in {"ok", "error", "timeout"} :
          /\ Record(c, status)
          /\ status = "ok" => pc[c] = "returned" /\ answer[c] # Failed /\ answer[c].status = "ok"
    BY <1>3, <2>1 DEF GiveUp, TransportFails, ReplyArrives
  <2>3. /\ UNCHANGED <<vars, ordinal>>
        /\ UNCHANGED wire \/ wire' = [wire EXCEPT ![c] = IF @ = "request" THEN "gone" ELSE @]
    BY <1>3 DEF GiveUp, TransportFails, ReplyArrives
  <2>4. PathTyped'
    BY <2>2, <2>3 DEF Record, PathInv, PathTyped
  <2>5. \A d \in Calls : wire'[d] = "delivered" <=> wire[d] = "delivered"
    BY <2>3 DEF PathInv, PathTyped
  <2>6. lgRecord'[c] = status
    BY <2>2 DEF Record, PathInv, PathTyped
  <2>7. \A d \in Calls : d # c => lgRecord'[d] = lgRecord[d] /\ client'[d] = client[d]
    BY <2>2 DEF Record, PathInv, PathTyped
  <2>8. \A d \in Calls : client'[d] \in {"started", "arrived"} => wire'[d] = "none"
    BY <2>2, <2>3 DEF Record, PathInv, PathTyped, Joins
  <2> QED
    BY <2>2, <2>3, <2>4, <2>5, <2>6, <2>7, <2>8, ClientMoves
<1>4. ASSUME NEW c \in Calls, Delivered(c)
      PROVE  PathTyped' /\ \A d \in Calls : Joins(d)'
  <2>1. /\ Submit(c, Identity(c)) /\ wire[c] = "request"
        /\ wire' = [wire EXCEPT ![c] = "delivered"]
        /\ UNCHANGED <<ordinal, client, lgRecord>>
    BY <1>4 DEF Delivered
  <2>2. /\ pc[c] = "idle" /\ pc'[c] # "idle" /\ member'[c] = Identity(c)
        /\ pc'[c] = "returned" => record'[c] # None
        /\ \A d \in Calls : d # c => /\ pc'[d] = pc[d] /\ member'[d] = member[d]
                                     /\ answer'[d] = answer[d] /\ record'[d] = record[d]
    BY <2>1, IdentityTyped, DeliveredMoves DEF PathInv
  <2>3. PathTyped'
    BY <2>1 DEF PathInv, PathTyped
  <2>4. /\ wire'[c] = "delivered"
        /\ \A d \in Calls : d # c => wire'[d] = wire[d]
    BY <2>1 DEF PathInv, PathTyped
  <2>5. lgRecord[c] # "ok" /\ client[c] \notin {"started", "arrived"}
    BY <2>1, <2>2 DEF PathInv, Joins
  <2> QED
    BY <2>1, <2>2, <2>3, <2>4, <2>5 DEF PathInv, Joins, Identity
<1>5. ASSUME NEW c \in Calls, Serves(c)
      PROVE  PathTyped' /\ \A d \in Calls : Joins(d)'
  BY <1>5, HandlerMoves, ProxyMoves DEF Serves, PathInv
<1>6. ASSUME NEW c \in Calls, CallerGone(c) \/ TimerStep(c)
      PROVE  PathTyped' /\ \A d \in Calls : Joins(d)'
  <2>1. UNCHANGED <<pc, member, answer, record>> /\ UNCHANGED pathVars
    BY <1>6 DEF CallerGone, ContextEnds, TimerStep, TimerFires, Expire, handlerVars
  <2> QED
    BY <2>1, ProxyMoves
<1>7. CASE DeadlinePasses \/ UNCHANGED allVars
  <2>1. UNCHANGED <<vars, ordinal, client, wire, lgRecord>>
    BY <1>7 DEF DeadlinePasses, allVars
  <2>2. PathTyped'
    BY <2>1 DEF PathInv, PathTyped
  <2>3. \A d \in Calls : Joins(d)'
    BY <2>1, <2>2, ClientMoves DEF PathInv, Joins
  <2> QED
    BY <1>1, <2>2, <2>3 DEF PathInv
<1> QED
  BY <1>1, <1>2, <1>3, <1>4, <1>5, <1>6, <1>7 DEF PathInv, PathNext, Client

\* The joint state of load generator and proxy, in every state of the path.
THEOREM PathInvariant == PathSpec => []PathInv
BY PathInitInv, PathStepInv, PTL DEF PathSpec

\* Driven by the load generator over a network that delays, reorders and loses
\* requests, the proxy does nothing it would not do by itself: everything
\* proved of Proxy holds on this path.
THEOREM PathDrivesTheProxy == PathSpec => Spec
<1>1. PathInv /\ [PathNext]_allVars => [Next]_vars
  BY PathStepIsProxyStep DEF PathInv
<1>2. PathInit => Init
  BY DEF PathInit
<1> QED
  BY <1>1, <1>2, PathInvariant, PTL DEF PathSpec, Spec

-----------------------------------------------------------------------------
(* What the validator concludes.                                           *)

\* The joined status is ok only if both records are: statusRank.
LEMMA OkIsBothOk ==
  ASSUME PathInv, NEW c \in Calls, client[c] = "recorded", JoinedStatus(c) = "ok"
  PROVE  lgRecord[c] = "ok"
<1>1. lgRecord[c] \in {"ok", "error", "timeout"}
  BY DEF PathInv, Joins
<1>2. Rank(lgRecord[c]) \in {1, 2, 3}
  BY <1>1 DEF Rank
<1>3. CASE record[c] # None /\ Rank(record[c].status) > Rank(lgRecord[c])
  <2>1. record[c].status = "ok"
    BY <1>3 DEF JoinedStatus
  <2>2. Rank(record[c].status) = 1
    BY <2>1 DEF Rank
  <2> QED
    BY <1>2, <1>3, <2>2
<1>4. CASE ~(record[c] # None /\ Rank(record[c].status) > Rank(lgRecord[c]))
  BY <1>4 DEF JoinedStatus
<1> QED
  BY <1>3, <1>4

\* A member judged ok was in an envelope that the backend answered for it.
LEMMA ServedIfOk ==
  ASSUME PathInv, NEW c \in Calls, client[c] = "recorded", JoinedStatus(c) = "ok"
  PROVE  /\ lgRecord[c] = "ok"
         /\ answer[c] = [cohort |-> Cohort, ordinal |-> ordinal[c], status |-> "ok"]
         /\ joined[c] \in Calls
         /\ env[joined[c]] # None
         /\ env[joined[c]][ordinal[c]] = c
<1>1. lgRecord[c] = "ok"
  BY OkIsBothOk
<1>2. pc[c] = "returned" /\ answer[c] # Failed /\ answer[c].status = "ok"
  BY <1>1 DEF PathInv, Joins
<1>3. answer[c] # None /\ member[c] = Identity(c)
  BY <1>2 DEF PathInv, Joins, FateInv, Places, Placed
<1>4. /\ answer[c].cohort = member[c].cohort /\ answer[c].ordinal = member[c].ordinal
      /\ Travelled(c)
  BY <1>2, <1>3 DEF PathInv, FateInv, Fates, Fate
<1>5. answer[c] \in Results
  BY <1>2, <1>3 DEF PathInv, FateInv, ReturnedTyped
<1>6. member[c].cohort = Cohort /\ member[c].ordinal = ordinal[c]
  BY <1>3 DEF Identity
<1>7. answer[c] = [cohort |-> Cohort, ordinal |-> ordinal[c], status |-> "ok"]
  BY <1>2, <1>4, <1>5, <1>6 DEF Results
<1>8. /\ joined[c] \in Calls /\ env[joined[c]] # None /\ env[joined[c]][ordinal[c]] = c
  BY <1>4, <1>6, SharedPathAssumption DEF Travelled, CarriedBy
<1> QED
  BY <1>1, <1>7, <1>8

\* The join of two processes' records never makes up a success: a member judged
\* ok was handed the ok result of its own payload, which travelled under its
\* own ordinal, whatever the network lost and whoever gave up.
THEOREM JudgedOkWasServed == PathSpec => []OkMeansServed
<1>1. PathInv => OkMeansServed
  BY ServedIfOk DEF OkMeansServed, StreamsComplete
<1> QED
  BY <1>1, PathInvariant, PTL

\* A formation failure the verdict names is one.  A member without a proxy
\* record never reached the proxy, so an envelope would lack its ordinal, which
\* no other member was minted with.
THEOREM NamedFailureIsReal == PathSpec => []DiagnosisIsTrue
<1>1. PathInv => DiagnosisIsTrue
  <2> SUFFICES ASSUME PathInv, StreamsComplete, NamedUnformed
               PROVE  /\ \A f \in Calls : env[f] = None
                      /\ \A c \in Calls : JoinedStatus(c) # "ok"
    BY DEF DiagnosisIsTrue
  <2>1. PICK c \in Calls : record[c] = None
    BY DEF NamedUnformed
  <2>2. pc[c] = "idle"
    BY <2>1 DEF StreamsComplete, PathInv, Joins
  <2>3. ASSUME NEW f \in Calls, env[f] # None PROVE FALSE
    <3>1. ordinal[c] \in Ordinals
      BY DEF PathInv, PathTyped
    <3>2. PICK d \in Calls : d = env[f][ordinal[c]]
                             /\ member[d] = [cohort |-> CohortOf(f), ordinal |-> ordinal[c]]
      BY <2>3, <3>1, WholeEnvelope, SharedPathAssumption
         DEF PathInv, FateInv, EnvelopeIsItsCohort
    <3>3. pc[d] # "idle"
      <4>1. env[f] = slots[f] /\ terminal[f] = None
        BY <2>3, SharedPathAssumption DEF PathInv, FateInv, IInv, Formations, FormationOK
      <4>2. slots[f][ordinal[c]] = d /\ d # None
        BY <3>2, <4>1, ProxyAssumption
      <4> QED
        BY <3>1, <4>1, <4>2 DEF PathInv, FateInv, IInv, Admitted
    <3>4. member[d].ordinal = ordinal[c]
      BY <3>2
    <3>5. member[d].ordinal = ordinal[d]
      <4>1. member[d] = Identity(d)
        BY <3>3 DEF PathInv, Joins
      <4> QED
        BY <4>1 DEF Identity
    <3>6. d = c
      BY <3>4, <3>5 DEF PathInv, PathTyped
    <3> QED
      BY <2>2, <3>3, <3>6
  <2>4. ASSUME NEW d \in Calls, JoinedStatus(d) = "ok" PROVE FALSE
    BY <2>3, <2>4, ServedIfOk DEF StreamsComplete
  <2> QED
    BY <2>3, <2>4
<1> QED
  BY <1>1, PathInvariant, PTL

=============================================================================
