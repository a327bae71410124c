------------------------- MODULE BackendTracesProofs -------------------------
(***************************************************************************)
(* Theorems of BackendTraces, for every set of requests, every set of      *)
(* others, every rotation and every margin: a run that gets past the       *)
(* collection holds the timestamps of its own requests, and of nothing a   *)
(* stranger ran meanwhile.                                                 *)
(*                                                                         *)
(* The tally is a number and the traces are names.  The invariant ties     *)
(* them together: from the first reading of the tally on, what it counted  *)
(* is the requests that were sampled and the others that were (Tally), and *)
(* a trace that comes in was sampled (Traces).                             *)
(***************************************************************************)
EXTENDS BackendTraces, FiniteSetTheorems, TLAPS

\* The requests of the run that a setting sampled.
Sampled == {x \in Requests : backend[x] \in {"executing", "answered", "released"}}

Released == {x \in All : backend[x] = "released"}

Typed ==
  /\ client \in [Requests -> {"idle", "sent", "refused", "ok", "failed"}]
  /\ backend \in [All -> {"none", "executing", "untraced", "answered", "released"}]
  /\ remaining \in Nat
  /\ budgetAt \in Nat
  /\ buffer \in [Settings -> SUBSET All]
  /\ files \in Seq([traces : SUBSET All, size : {"empty", "partial", "complete"}])
  /\ whole \subseteq All
  /\ pc \in {"new", "settling", "reading", "running", "counting", "flushing", "draining",
             "recording", "done", "failed"}

\* A trace that is buffered, written or collected is that of a released request.
Traces ==
  /\ \A s \in Settings : buffer[s] \subseteq Released
  /\ \A i \in DOMAIN files : files[i].traces \subseteq Released
  /\ collected \subseteq Released

\* The others that were counted did arrive, so none is counted twice.
Strangers == others \subseteq {x \in Others : backend[x] # "none"}

\* What the tally says, and what it said when it was compared.
Tally ==
  /\ pc \in {"new", "settling", "reading"} => Sampled = {} /\ others = {}
  /\ pc \in {"running", "counting"} =>
       budgetAt = remaining + Cardinality(Sampled) + Cardinality(others)
  /\ pc \in {"flushing", "draining", "recording", "done"} =>
       Cardinality(Sampled) + Cardinality(others) = Cardinality(Requests)

Holdings ==
  /\ pc \in {"recording", "done"} => Requests \subseteq collected /\ Requests \subseteq whole
  /\ pc = "done" => stream = Requests

IInv == Typed /\ Traces /\ Strangers /\ Tally /\ Holdings

-----------------------------------------------------------------------------

\* What is counted is finite: the requests a setting sampled and the others.
LEMMA CountsAreFinite ==
  ASSUME Typed, Strangers
  PROVE  /\ IsFiniteSet(Sampled) /\ Cardinality(Sampled) \in Nat
         /\ IsFiniteSet(others) /\ Cardinality(others) \in Nat
         /\ Cardinality(Requests) \in Nat
  <1>1. Sampled \subseteq Requests /\ others \subseteq Others
    BY DEF Sampled, Strangers
  <1>2. QED
    BY <1>1, FS_Subset, FS_CardinalityType, BackendTracesAssumption

\* Nothing is sampled, counted or collected yet.
LEMMA InitHolds == Init => IInv
  <1> SUFFICES ASSUME Init PROVE IInv
    OBVIOUS
  <1>1. Cardinality(Requests) \in Nat
    BY FS_CardinalityType, BackendTracesAssumption
  <1>2. Typed
    BY <1>1, BackendTracesAssumption DEF Init, Typed, Budget, Settings, All
  <1>3. Traces
    BY DEF Init, Traces, Settings
  <1>4. Strangers /\ Tally /\ Holdings
    BY DEF Init, Strangers, Tally, Holdings, Sampled, All
  <1>5. QED
    BY <1>2, <1>3, <1>4 DEF IInv

\* A sampled request of the run is one more of them, a stranger one more of the
\* others (checkServerCount counts both the same).
LEMMA ArrivesKeeps == ASSUME NEW x \in All PROVE IInv /\ Arrives(x) => IInv'
  <1> SUFFICES ASSUME IInv, Arrives(x) PROVE IInv'
    OBVIOUS
  <1> USE DEF All
  <1>1. Typed'
    <2>1. remaining' \in Nat /\ remaining = remaining' + 1
      BY DEF IInv, Typed, Arrives
    <2>2. backend' \in [All -> {"none", "executing", "untraced", "answered", "released"}]
      BY DEF IInv, Typed, Arrives
    <2>3. QED
      BY <2>1, <2>2 DEF IInv, Typed, Arrives, clientVars, collectVars
  <1>2. Traces'
    BY DEF IInv, Typed, Traces, Released, Arrives, MayArrive, clientVars, collectVars
  <1>3. Strangers'
    BY DEF IInv, Typed, Strangers, Arrives, MayArrive, clientVars, collectVars
  <1>4. Tally'
    <2>0. remaining \in Nat /\ remaining' = remaining - 1 /\ budgetAt \in Nat /\ remaining > 0
      BY DEF IInv, Typed, Arrives
    <2>1. UNCHANGED <<pc, budgetAt>>
      BY DEF Arrives, collectVars
    <2>2. CASE x \in Requests
      <3>1. pc = "running" /\ others' = others
        BY <2>2, BackendTracesAssumption DEF Arrives, MayArrive
      <3>2. Sampled' = Sampled \cup {x} /\ x \notin Sampled
        BY <2>2 DEF IInv, Typed, Sampled, Arrives, MayArrive
      <3>3. Cardinality(Sampled') = Cardinality(Sampled) + 1
        BY <3>2, CountsAreFinite, FS_AddElement DEF IInv
      <3>4. QED
        BY <2>0, <2>1, <3>1, <3>3, CountsAreFinite DEF IInv, Tally
    <2>3. CASE x \notin Requests
      <3>1. Sampled' = Sampled
        BY <2>3 DEF IInv, Typed, Sampled, Arrives, MayArrive
      <3>2. x \in Others /\ x \notin others
        BY <2>3 DEF IInv, Strangers, Arrives, MayArrive
      <3>3. CASE pc \in {"running", "counting"}
        <4>1. others' = others \cup {x}
          BY <3>2, <3>3 DEF Arrives
        <4>2. Cardinality(others') = Cardinality(others) + 1
          BY <3>2, <4>1, CountsAreFinite, FS_AddElement DEF IInv
        <4>3. QED
          BY <2>0, <2>1, <3>1, <3>3, <4>2, CountsAreFinite DEF IInv, Tally
      <3>4. CASE pc \notin {"running", "counting"}
        BY <2>1, <3>1, <3>4 DEF IInv, Tally, Arrives
      <3>5. QED
        BY <3>3, <3>4
    <2>4. QED
      BY <2>2, <2>3
  <1>5. Holdings'
    BY DEF IInv, Holdings, Arrives, collectVars
  <1>6. QED
    BY <1>1, <1>2, <1>3, <1>4, <1>5 DEF IInv

\* A file that grows keeps its place and its traces.
LEMMA GrowingKeepsTheTraces ==
  ASSUME NEW i \in DOMAIN files, Grows(i),
         files \in Seq([traces : SUBSET All, size : {"empty", "partial", "complete"}])
  PROVE  /\ files' \in Seq([traces : SUBSET All, size : {"empty", "partial", "complete"}])
         /\ DOMAIN files' = DOMAIN files
         /\ \A j \in DOMAIN files : files'[j].traces = files[j].traces
  <1> DEFINE File == [traces : SUBSET All, size : {"empty", "partial", "complete"}]
  <1>1. PICK z \in {"partial", "complete"} : files' = [files EXCEPT ![i].size = z]
    BY DEF Grows
  <1>2. files' = [files EXCEPT ![i] = [files[i] EXCEPT !.size = z]]
    BY <1>1
  <1>3. files[i] \in File
    <2>1. files \in Seq(File)
      OBVIOUS
    <2> HIDE DEF File
    <2>2. QED
      BY <2>1
  <1>4. /\ [files[i] EXCEPT !.size = z] \in File
        /\ [files[i] EXCEPT !.size = z].traces = files[i].traces
    BY <1>3
  <1> HIDE DEF File
  <1>5. files' \in Seq(File) /\ DOMAIN files' = DOMAIN files
    BY <1>2, <1>4 DEF File
  <1>6. \A j \in DOMAIN files : files'[j].traces = files[j].traces
    BY <1>2, <1>4
  <1>7. QED
    BY <1>5, <1>6 DEF File

\* Past the budget a request is executed and not sampled.
LEMMA ArrivesUntracedKeeps == ASSUME NEW x \in All PROVE IInv /\ ArrivesUntraced(x) => IInv'
  <1> SUFFICES ASSUME IInv, ArrivesUntraced(x) PROVE IInv'
    OBVIOUS
  <1> USE DEF clientVars, serverVars, collectVars
  <1>1. Typed'
    BY DEF IInv, Typed, ArrivesUntraced, MayArrive, All
  <1>2. Traces'
    BY DEF IInv, Typed, Traces, Released, ArrivesUntraced, MayArrive, All
  <1>3. Strangers'
    BY DEF IInv, Typed, Strangers, ArrivesUntraced, MayArrive, All
  <1>4. Tally'
    BY DEF IInv, Typed, Tally, Sampled, ArrivesUntraced, MayArrive, All
  <1>5. Holdings'
    BY DEF IInv, Typed, Holdings, ArrivesUntraced, MayArrive, All
  <1>6. QED
    BY <1>1, <1>2, <1>3, <1>4, <1>5 DEF IInv

\* A sampled request stays sampled, whole or not.
LEMMA ExecutesKeeps == ASSUME NEW x \in All PROVE IInv /\ Executes(x) => IInv'
  <1> SUFFICES ASSUME IInv, Executes(x) PROVE IInv'
    OBVIOUS
  <1> USE DEF clientVars, serverVars, collectVars
  <1>1. Typed'
    BY DEF IInv, Typed, Executes, All
  <1>2. Traces'
    BY DEF IInv, Typed, Traces, Released, Executes, All
  <1>3. Strangers'
    BY DEF IInv, Typed, Strangers, Executes, All
  <1>4. Tally'
    BY DEF IInv, Typed, Tally, Sampled, Executes, All
  <1>5. Holdings'
    BY DEF IInv, Typed, Holdings, Executes, All
  <1>6. QED
    BY <1>1, <1>2, <1>3, <1>4, <1>5 DEF IInv

\* A released trace is buffered, and its request stays sampled.
LEMMA ReleasesKeeps == ASSUME NEW x \in All PROVE IInv /\ Releases(x) => IInv'
  <1> SUFFICES ASSUME IInv, Releases(x) PROVE IInv'
    OBVIOUS
  <1> USE DEF clientVars, serverVars, collectVars
  <1>1. Typed'
    BY DEF IInv, Typed, Releases, All
  <1>2. Traces'
    BY DEF IInv, Typed, Traces, Released, Releases, All
  <1>3. Strangers'
    BY DEF IInv, Typed, Strangers, Releases, All
  <1>4. Tally'
    BY DEF IInv, Typed, Tally, Sampled, Releases, All
  <1>5. Holdings'
    BY DEF IInv, Typed, Holdings, Releases, All
  <1>6. QED
    BY <1>1, <1>2, <1>3, <1>4, <1>5 DEF IInv

\* A file holds what its setting held.
LEMMA WritesKeeps == ASSUME NEW s \in Settings PROVE IInv /\ Writes(s) => IInv'
  <1> SUFFICES ASSUME IInv, Writes(s) PROVE IInv'
    OBVIOUS
  <1> USE DEF clientVars, serverVars, collectVars
  <1>1. Typed'
    BY DEF IInv, Typed, Writes
  <1>2. Traces'
    BY DEF IInv, Typed, Traces, Released, Writes
  <1>3. Strangers'
    BY DEF IInv, Typed, Strangers, Writes
  <1>4. Tally'
    BY DEF IInv, Typed, Tally, Sampled, Writes
  <1>5. Holdings'
    BY DEF IInv, Typed, Holdings, Writes
  <1>6. QED
    BY <1>1, <1>2, <1>3, <1>4, <1>5 DEF IInv

\* Growing a file changes no trace in it.
LEMMA GrowsKeeps == ASSUME NEW i \in DOMAIN files PROVE IInv /\ Grows(i) => IInv'
  <1> SUFFICES ASSUME IInv, Grows(i) PROVE IInv'
    OBVIOUS
  <1> USE DEF clientVars, serverVars, collectVars
  <1>1. Typed'
    <2>1. files' \in Seq([traces : SUBSET All, size : {"empty", "partial", "complete"}])
      BY GrowingKeepsTheTraces DEF IInv, Typed
    <2>2. QED
      BY <2>1 DEF IInv, Typed, Grows
  <1>2. Traces'
    <2>1. DOMAIN files' = DOMAIN files /\ \A j \in DOMAIN files : files'[j].traces = files[j].traces
      BY GrowingKeepsTheTraces DEF IInv, Typed
    <2>2. QED
      BY <2>1 DEF IInv, Traces, Released, Grows
  <1>3. Strangers'
    BY DEF IInv, Typed, Strangers, Grows
  <1>4. Tally'
    BY DEF IInv, Typed, Tally, Sampled, Grows
  <1>5. Holdings'
    BY DEF IInv, Typed, Holdings, Grows
  <1>6. QED
    BY <1>1, <1>2, <1>3, <1>4, <1>5 DEF IInv

\* The load generator releases a request.
LEMMA SendsKeeps == ASSUME NEW x \in Requests PROVE IInv /\ Sends(x) => IInv'
  <1> SUFFICES ASSUME IInv, Sends(x) PROVE IInv'
    OBVIOUS
  <1> USE DEF clientVars, serverVars, collectVars
  <1>1. Typed'
    BY DEF IInv, Typed, Sends
  <1>2. Traces'
    BY DEF IInv, Typed, Traces, Released, Sends
  <1>3. Strangers'
    BY DEF IInv, Typed, Strangers, Sends
  <1>4. Tally'
    BY DEF IInv, Typed, Tally, Sampled, Sends
  <1>5. Holdings'
    BY DEF IInv, Typed, Holdings, Sends
  <1>6. QED
    BY <1>1, <1>2, <1>3, <1>4, <1>5 DEF IInv

\* The proxy refuses one.
LEMMA IsRefusedKeeps == ASSUME NEW x \in Requests PROVE IInv /\ IsRefused(x) => IInv'
  <1> SUFFICES ASSUME IInv, IsRefused(x) PROVE IInv'
    OBVIOUS
  <1> USE DEF clientVars, serverVars, collectVars
  <1>1. Typed'
    BY DEF IInv, Typed, IsRefused
  <1>2. Traces'
    BY DEF IInv, Typed, Traces, Released, IsRefused
  <1>3. Strangers'
    BY DEF IInv, Typed, Strangers, IsRefused
  <1>4. Tally'
    BY DEF IInv, Typed, Tally, Sampled, IsRefused
  <1>5. Holdings'
    BY DEF IInv, Typed, Holdings, IsRefused
  <1>6. QED
    BY <1>1, <1>2, <1>3, <1>4, <1>5 DEF IInv

\* The caller learns its end.
LEMMA EndsKeeps == ASSUME NEW x \in Requests PROVE IInv /\ Ends(x) => IInv'
  <1> SUFFICES ASSUME IInv, Ends(x) PROVE IInv'
    OBVIOUS
  <1> USE DEF clientVars, serverVars, collectVars
  <1>1. Typed'
    BY DEF IInv, Typed, Ends
  <1>2. Traces'
    BY DEF IInv, Typed, Traces, Released, Ends
  <1>3. Strangers'
    BY DEF IInv, Typed, Strangers, Ends
  <1>4. Tally'
    BY DEF IInv, Typed, Tally, Sampled, Ends
  <1>5. Holdings'
    BY DEF IInv, Typed, Holdings, Ends
  <1>6. QED
    BY <1>1, <1>2, <1>3, <1>4, <1>5 DEF IInv

\* NewTraceCollector replaces the setting before any tally is read.
LEMMA StartsFreshKeeps == IInv /\ StartsFresh => IInv'
  <1> SUFFICES ASSUME IInv, StartsFresh PROVE IInv'
    OBVIOUS
  <1> USE DEF clientVars, serverVars, collectVars
  <1>1. Typed'
    <2>1. Budget \in Nat
      BY FS_CardinalityType, BackendTracesAssumption DEF Budget
    <2>2. QED
      BY <2>1 DEF IInv, Typed, StartsFresh, Replaces, Becomes
  <1>2. Traces'
    BY DEF IInv, Typed, Traces, Released, StartsFresh, Replaces, Becomes
  <1>3. Strangers'
    BY DEF IInv, Typed, Strangers, StartsFresh, Replaces, Becomes
  <1>4. Tally'
    BY DEF IInv, Typed, Tally, Sampled, StartsFresh, Replaces, Becomes
  <1>5. Holdings'
    BY DEF IInv, Typed, Holdings, StartsFresh, Replaces, Becomes
  <1>6. QED
    BY <1>1, <1>2, <1>3, <1>4, <1>5 DEF IInv

\* It removes the files it found.
LEMMA ClearsKeeps == IInv /\ Clears => IInv'
  <1> SUFFICES ASSUME IInv, Clears PROVE IInv'
    OBVIOUS
  <1> USE DEF clientVars, serverVars, collectVars
  <1>1. Typed'
    BY DEF IInv, Typed, Clears, Becomes
  <1>2. Traces'
    BY DEF IInv, Typed, Traces, Released, Clears, Becomes
  <1>3. Strangers'
    BY DEF IInv, Typed, Strangers, Clears, Becomes
  <1>4. Tally'
    BY DEF IInv, Typed, Tally, Sampled, Clears, Becomes
  <1>5. Holdings'
    BY DEF IInv, Typed, Holdings, Clears, Becomes
  <1>6. QED
    BY <1>1, <1>2, <1>3, <1>4, <1>5 DEF IInv

\* The tally is read while nothing of the run was sampled.
LEMMA ReadsTallyKeeps == IInv /\ ReadsTally => IInv'
  <1> SUFFICES ASSUME IInv, ReadsTally PROVE IInv'
    OBVIOUS
  <1> USE DEF clientVars, serverVars, collectVars
  <1>1. Typed'
    BY DEF IInv, Typed, ReadsTally, Becomes
  <1>2. Traces'
    BY DEF IInv, Typed, Traces, Released, ReadsTally, Becomes
  <1>3. Strangers'
    BY DEF IInv, Typed, Strangers, ReadsTally, Becomes
  <1>4. Tally'
    <2>1. /\ Sampled' = {} /\ others' = {}
          /\ pc' = "running" /\ budgetAt' = remaining /\ remaining' = remaining
      BY DEF IInv, Tally, Sampled, ReadsTally, Becomes
    <2>2. QED
      BY <2>1, FS_EmptySet DEF IInv, Typed, Tally
  <1>5. Holdings'
    BY DEF IInv, Typed, Holdings, ReadsTally, Becomes
  <1>6. QED
    BY <1>1, <1>2, <1>3, <1>4, <1>5 DEF IInv

\* Collect begins; what was sampled is as it was.
LEMMA BeginsCollectKeeps == IInv /\ BeginsCollect => IInv'
  <1> SUFFICES ASSUME IInv, BeginsCollect PROVE IInv'
    OBVIOUS
  <1> USE DEF clientVars, serverVars, collectVars
  <1>1. Typed'
    BY DEF IInv, Typed, BeginsCollect, Becomes
  <1>2. Traces'
    BY DEF IInv, Typed, Traces, Released, BeginsCollect, Becomes
  <1>3. Strangers'
    BY DEF IInv, Typed, Strangers, BeginsCollect, Becomes
  <1>4. Tally'
    BY DEF IInv, Typed, Tally, Sampled, BeginsCollect, Becomes
  <1>5. Holdings'
    BY DEF IInv, Typed, Holdings, BeginsCollect, Becomes
  <1>6. QED
    BY <1>1, <1>2, <1>3, <1>4, <1>5 DEF IInv

\* checkServerCount: past it, the sampled requests and the others number the
\* run's requests.
LEMMA CountsKeeps == IInv /\ Counts => IInv'
  <1> SUFFICES ASSUME IInv, Counts PROVE IInv'
    OBVIOUS
  <1> USE DEF clientVars, serverVars, collectVars
  <1>1. Typed'
    BY DEF IInv, Typed, Counts, Becomes, GivesUp
  <1>2. Traces'
    BY DEF IInv, Typed, Traces, Released, Counts, Becomes, GivesUp
  <1>3. Strangers'
    BY DEF IInv, Typed, Strangers, Counts, Becomes, GivesUp
  <1>4. Tally'
    <2>1. UNCHANGED <<others, budgetAt, remaining>> /\ Sampled' = Sampled
      BY DEF Counts, Sampled
    <2>2. pc = "counting" /\ ((pc' = "flushing" /\ CountAgrees) \/ pc' = "failed")
      BY DEF Counts, Becomes, GivesUp
    <2>3. QED
      BY <2>1, <2>2, CountsAreFinite DEF IInv, Typed, Tally, CountAgrees
  <1>5. Holdings'
    BY DEF IInv, Typed, Holdings, Counts, Becomes, GivesUp
  <1>6. QED
    BY <1>1, <1>2, <1>3, <1>4, <1>5 DEF IInv

\* flush replaces the setting after the tally was compared.
LEMMA FlushesKeeps == IInv /\ Flushes => IInv'
  <1> SUFFICES ASSUME IInv, Flushes PROVE IInv'
    OBVIOUS
  <1> USE DEF clientVars, serverVars, collectVars
  <1>1. Typed'
    <2>1. Budget \in Nat
      BY FS_CardinalityType, BackendTracesAssumption DEF Budget
    <2>2. QED
      BY <2>1 DEF IInv, Typed, Flushes, Replaces, Becomes
  <1>2. Traces'
    BY DEF IInv, Typed, Traces, Released, Flushes, Replaces, Becomes
  <1>3. Strangers'
    BY DEF IInv, Typed, Strangers, Flushes, Replaces, Becomes
  <1>4. Tally'
    BY DEF IInv, Typed, Tally, Sampled, Flushes, Replaces, Becomes
  <1>5. Holdings'
    BY DEF IInv, Typed, Holdings, Flushes, Replaces, Becomes
  <1>6. QED
    BY <1>1, <1>2, <1>3, <1>4, <1>5 DEF IInv

\* Only what was released comes in, and the wait ends on the run's own names.
LEMMA DrainsKeeps == IInv /\ Drains => IInv'
  <1> SUFFICES ASSUME IInv, Drains PROVE IInv'
    OBVIOUS
  <1> USE DEF clientVars, serverVars, collectVars
  <1>1. Typed'
    BY DEF IInv, Typed, Drains, Becomes, GivesUp, Found
  <1>2. Traces'
    BY DEF IInv, Typed, Traces, Released, Drains, Becomes, GivesUp, Found
  <1>3. Strangers'
    BY DEF IInv, Typed, Strangers, Drains, Becomes, GivesUp, Found
  <1>4. Tally'
    BY DEF IInv, Typed, Tally, Sampled, Drains, Becomes, GivesUp, Found
  <1>5. Holdings'
    BY DEF IInv, Typed, Holdings, Drains, Becomes, GivesUp, Found
  <1>6. QED
    BY <1>1, <1>2, <1>3, <1>4, <1>5 DEF IInv

\* The timeout gives up.
LEMMA TimesOutKeeps == IInv /\ TimesOut => IInv'
  <1> SUFFICES ASSUME IInv, TimesOut PROVE IInv'
    OBVIOUS
  <1> USE DEF clientVars, serverVars, collectVars
  <1>1. Typed'
    BY DEF IInv, Typed, TimesOut, GivesUp
  <1>2. Traces'
    BY DEF IInv, Typed, Traces, Released, TimesOut, GivesUp
  <1>3. Strangers'
    BY DEF IInv, Typed, Strangers, TimesOut, GivesUp
  <1>4. Tally'
    BY DEF IInv, Typed, Tally, Sampled, TimesOut, GivesUp
  <1>5. Holdings'
    BY DEF IInv, Typed, Holdings, TimesOut, GivesUp
  <1>6. QED
    BY <1>1, <1>2, <1>3, <1>4, <1>5 DEF IInv

\* recordBackendTimestamps writes a record for each trace of the run's own.
LEMMA RecordsKeeps == IInv /\ Records => IInv'
  <1> SUFFICES ASSUME IInv, Records PROVE IInv'
    OBVIOUS
  <1> USE DEF clientVars, serverVars, collectVars
  <1>1. Typed'
    BY DEF IInv, Typed, Records, Becomes, GivesUp, Recorded
  <1>2. Traces'
    BY DEF IInv, Typed, Traces, Released, Records, Becomes, GivesUp, Recorded
  <1>3. Strangers'
    BY DEF IInv, Typed, Strangers, Records, Becomes, GivesUp, Recorded
  <1>4. Tally'
    BY DEF IInv, Typed, Tally, Sampled, Records, Becomes, GivesUp, Recorded
  <1>5. Holdings'
    BY DEF IInv, Typed, Holdings, Records, Becomes, GivesUp, Recorded
  <1>6. QED
    BY <1>1, <1>2, <1>3, <1>4, <1>5 DEF IInv

\* A failed call or an ended context gives up.
LEMMA AbortsKeeps == IInv /\ Aborts => IInv'
  <1> SUFFICES ASSUME IInv, Aborts PROVE IInv'
    OBVIOUS
  <1> USE DEF clientVars, serverVars, collectVars
  <1>1. Typed'
    BY DEF IInv, Typed, Aborts, GivesUp
  <1>2. Traces'
    BY DEF IInv, Typed, Traces, Released, Aborts, GivesUp
  <1>3. Strangers'
    BY DEF IInv, Typed, Strangers, Aborts, GivesUp
  <1>4. Tally'
    BY DEF IInv, Typed, Tally, Sampled, Aborts, GivesUp
  <1>5. Holdings'
    BY DEF IInv, Typed, Holdings, Aborts, GivesUp
  <1>6. QED
    BY <1>1, <1>2, <1>3, <1>4, <1>5 DEF IInv

-----------------------------------------------------------------------------

\* The invariant is inductive.
THEOREM Invariant == Spec => []IInv
  <1>1. IInv /\ [Next]_vars => IInv'
    <2> SUFFICES ASSUME IInv, [Next]_vars PROVE IInv'
      OBVIOUS
    <2>1. CASE Backend
      BY <2>1, ExecutesKeeps, ReleasesKeeps, WritesKeeps, GrowsKeeps DEF Backend
    <2>2. CASE Collecting
      BY <2>2, StartsFreshKeeps, ClearsKeeps, ReadsTallyKeeps, BeginsCollectKeeps, CountsKeeps,
         FlushesKeeps, DrainsKeeps, TimesOutKeeps, RecordsKeeps DEF Collecting
    <2>3. CASE \E x \in All : Arrives(x) \/ ArrivesUntraced(x)
      BY <2>3, ArrivesKeeps, ArrivesUntracedKeeps
    <2>4. CASE \E x \in Requests : Sends(x) \/ IsRefused(x) \/ Ends(x)
      BY <2>4, SendsKeeps, IsRefusedKeeps, EndsKeeps
    <2>5. CASE UNCHANGED vars
      BY <2>5 DEF IInv, Typed, Traces, Strangers, Tally, Holdings, Sampled, Released,
                  vars, clientVars, serverVars, collectVars
    <2>6. QED
      BY <2>1, <2>2, <2>3, <2>4, <2>5, AbortsKeeps DEF Next
  <1>2. QED
    BY InitHolds, <1>1, PTL DEF Spec

\* A run that gets past the collection holds the three timestamps of every
\* request it released, and nobody else's request was sampled between the two
\* readings of the tally: its requests were all sampled and make up the whole
\* count (checkServerCount, drain, recordBackendTimestamps).
THEOREM DoneRunsHoldTheirOwn == Spec => []DoneMeansTheRunsOwn
  <1>1. IInv => DoneMeansTheRunsOwn
    <2> SUFFICES ASSUME IInv, pc = "done" PROVE stream = Requests /\ others = {}
      BY DEF DoneMeansTheRunsOwn
    <2>1. Requests \subseteq collected /\ stream = Requests
      BY DEF IInv, Holdings
    <2>2. Sampled = Requests
      BY <2>1 DEF IInv, Traces, Released, Sampled
    <2>3. Cardinality(others) = 0
      BY <2>2, CountsAreFinite DEF IInv, Tally
    <2>4. others = {}
      BY <2>3, CountsAreFinite, FS_EmptySet DEF IInv
    <2>5. QED
      BY <2>1, <2>4
  <1>2. QED
    BY <1>1, Invariant, PTL

=============================================================================
