------------------------- MODULE RunLifecycleProofs -------------------------
(***************************************************************************)
(* What a run of the runner guarantees for every data plane (any number of *)
(* processes, in any order) and every number of cohorts.                   *)
(*                                                                         *)
(* The inductive invariant says which processes were launched and what is  *)
(* known of one that is down (Launched), what Stop has seen so far          *)
(* (Stopped), and where a recorded death and a cancelled context come from *)
(* (Deaths).                                                               *)
(***************************************************************************)
EXTENDS RunLifecycle, SequenceTheorems, TLAPS

\* Where execute stands while the data plane is up.
Before == {"starting", "listening", "warmup", "prepare", "cohorts"}

RunTyped ==
  /\ step \in Before \cup {"stopping", "failed", "evidence", "completed", "judging", "ended"}
  /\ procs \in Seq(Procs)
  /\ running \in SUBSET Procs
  /\ code \in [Procs -> {"ok", "bad", None}]
  /\ watcher \in [Procs -> {"none", "waiting", "reaped", "waking", "done"}]
  /\ exit \in [Procs -> Seq({"ok", "bad", None})]
  /\ stopping \in BOOLEAN /\ sigint \in BOOLEAN /\ heard \in BOOLEAN /\ cancelled \in BOOLEAN
  /\ stop \in {"idle", "begin", "next", "waiting", "killing"}
  /\ stopAt \in Nat
  /\ firstDeath \in Procs \cup {None}

\* The processes of procs are the first ones of the data plane and were
\* launched; a process whose watcher saw it go is down, and stays down.
Launched ==
  /\ Len(procs) <= Len(Services)
  /\ \A i \in 1 .. Len(procs) : procs[i] = Services[i] /\ watcher[procs[i]] # "none"
  /\ step \in {"starting", "listening"} =>
       \A i \in Len(procs) + 1 .. Len(Services) : watcher[Services[i]] = "none"
  /\ step = "listening" => Len(procs) > 0
  /\ step \in {"warmup", "prepare", "cohorts"} => Len(procs) = Len(Services)
  /\ step = "stopping" /\ whence = "execute" => Len(procs) = Len(Services)

Watched ==
  \A p \in Procs :
    /\ watcher[p] = "none" => p \notin running /\ exit[p] = <<>>
    /\ watcher[p] \in {"reaped", "waking", "done"} => p \notin running
    /\ exit[p] # <<>> => exit[p] = <<code[p]>> /\ watcher[p] \in {"reaped", "waking", "done"}

\* A process that went down of its own accord with status zero.
Down(p) == code[p] = "ok" /\ p \notin running /\ watcher[p] # "none"

\* Stop, once its flag is up.
AtWork == stop \in {"next", "waiting", "killing"}

\* What Stop has not complained about went down cleanly, from the last process
\* to the one it has come to.
Stopped ==
  /\ stop # "idle" <=> step = "stopping"
  /\ AtWork => stopping /\ stopAt <= Len(procs)
  /\ stop \in {"waiting", "killing"} => stopAt > 0
  /\ AtWork /\ stopErr = None =>
       /\ firstDeath = None
       /\ \A i \in stopAt + 1 .. Len(procs) : Down(procs[i])
  /\ step \in {"evidence", "completed"} => stopping
  /\ CompletedMeansWhole

\* Before Stop and before the interrupt nobody was told to go, so whoever is
\* down went unasked; the context of execute is cancelled only by a death.
Deaths ==
  /\ ~stopping /\ ~sigint =>
       /\ told = {}
       /\ \A p \in Procs : watcher[p] # "none" /\ p \notin running => p \in unasked
  /\ ShutdownIsNotADeath
  /\ \A p \in Procs : watcher[p] = "waking" => firstDeath # None
  /\ cancelled => firstDeath # None
  /\ step \in Before => failure = None

IInv == RunTyped /\ Launched /\ Watched /\ Stopped /\ Deaths

-----------------------------------------------------------------------------
(* The order in which the processes are started.                           *)

\* The services are launched in an order, each once.
LEMMA ServicesOrdered ==
  /\ Services \in Seq(Procs)
  /\ Len(Services) \in Nat
  /\ \A i \in 1 .. Len(Services) : Services[i] \in Procs
  /\ \A i, j \in 1 .. Len(Services) : Services[i] = Services[j] => i = j
  /\ \A p \in Procs : \E i \in 1 .. Len(Services) : p = Services[i]
BY RunLifecycleAssumption DEF Procs, ToSet, IsInjective

\* Nothing runs at first.
LEMMA InitInvariant == Init => IInv
<1> SUFFICES ASSUME Init PROVE IInv
  OBVIOUS
<1>1. RunTyped
  <2>1. procs \in Seq(Procs)
    BY DEF Init
  <2>2. exit \in [Procs -> Seq({"ok", "bad", None})]
    BY DEF Init
  <2> QED
    BY <2>1, <2>2 DEF Init, RunTyped, Before
<1>2. Launched
  BY ServicesOrdered DEF Init, Launched
<1>3. Watched
  BY DEF Init, Watched
<1>4. Stopped
  BY DEF Init, Stopped, AtWork, CompletedMeansWhole
<1>5. Deaths
  BY DEF Init, Deaths, ShutdownIsNotADeath
<1> QED
  BY <1>1, <1>2, <1>3, <1>4, <1>5 DEF IInv

\* startServices launches the next process, which nobody launched before.
LEMMA StartsNextKeeps ==
  ASSUME IInv, StartsNext
  PROVE  IInv'
<1> USE DEF StartsNext, EntersStop, signals, diskVars
<1> DEFINE p == Services[Len(procs) + 1]
           launches == /\ procs' = Append(procs, p)
                       /\ running' = running \cup {p}
                       /\ watcher' = [watcher EXCEPT ![p] = "waiting"]
                       /\ step' = "listening"
                       /\ UNCHANGED <<failure, stop, stopAt, stopErr, stopping, whence>>
           refuses == /\ failure' = "notStarted"
                      /\ step' = "stopping" /\ stop' = "begin" /\ whence' = "startServices"
                      /\ UNCHANGED <<stopping, stopAt, stopErr, procs, running, watcher>>
<1>1. /\ step = "starting" /\ Len(procs) < Len(Services)
      /\ launches \/ refuses
      /\ UNCHANGED <<left, listens, code, told, unasked, exit, firstDeath, cancelled, sigint, heard>>
  OBVIOUS
<1>2. /\ Len(procs) \in Nat /\ Len(procs) + 1 \in 1 .. Len(Services) /\ p \in Procs
      /\ watcher[p] = "none" /\ p \notin running /\ exit[p] = <<>>
      /\ stop = "idle"
  <2>1. Len(procs) \in Nat
    BY DEF IInv, RunTyped
  <2>2. Len(procs) + 1 \in 1 .. Len(Services)
    BY <1>1, <2>1, ServicesOrdered
  <2>3. p \in Procs
    BY <2>2, ServicesOrdered
  <2>4. watcher[p] = "none"
    BY <1>1, <2>1, <2>2 DEF IInv, Launched
  <2>5. p \notin running /\ exit[p] = <<>>
    BY <2>3, <2>4 DEF IInv, Watched
  <2>6. stop = "idle"
    BY <1>1 DEF IInv, Stopped
  <2> HIDE DEF p
  <2> QED
    BY <2>1, <2>2, <2>3, <2>4, <2>5, <2>6
<1>3. launches => /\ procs' \in Seq(Procs)
                  /\ Len(procs') = Len(procs) + 1
                  /\ procs'[Len(procs) + 1] = p
                  /\ \A i \in 1 .. Len(procs) : procs'[i] = procs[i]
  BY <1>2 DEF IInv, RunTyped
<1>4. RunTyped'
  BY <1>1, <1>2, <1>3 DEF IInv, RunTyped, Before
<1>5. Launched'
  <2>1. CASE refuses
    BY <1>1, <2>1 DEF IInv, Launched
  <2>2. CASE launches
    <3>1. \A q \in Procs : watcher'[q] = IF q = p THEN "waiting" ELSE watcher[q]
      BY <2>2 DEF IInv, RunTyped
    <3>2. \A i \in Len(procs) + 2 .. Len(Services) : Services[i] # p /\ Services[i] \in Procs
      BY <1>2, ServicesOrdered
    <3>3. \A i \in 1 .. Len(procs) : procs[i] \in Procs
      BY DEF IInv, RunTyped
    <3>4. \A i \in 1 .. Len(procs) + 1 : procs'[i] = Services[i] /\ watcher'[procs'[i]] # "none"
      BY <1>2, <1>3, <2>2, <3>1, <3>3 DEF IInv, Launched
    <3>5. \A i \in Len(procs) + 2 .. Len(Services) : watcher'[Services[i]] = "none"
      BY <1>1, <1>2, <3>1, <3>2 DEF IInv, Launched
    <3>6. /\ Len(procs') = Len(procs) + 1 /\ Len(procs') <= Len(Services)
          /\ Len(procs') > 0 /\ step' = "listening"
      BY <1>2, <1>3, <2>2, ServicesOrdered
    <3>7. Len(procs) + 1 + 1 = Len(procs) + 2
      BY <1>2
    <3> QED
      BY <3>4, <3>5, <3>6, <3>7 DEF Launched
  <2> QED
    BY <1>1, <2>1, <2>2
<1>6. Watched'
  BY <1>1, <1>2 DEF IInv, RunTyped, Watched
<1>7. Stopped'
  BY <1>1, <1>2 DEF IInv, Stopped, AtWork, CompletedMeansWhole
<1>8. Deaths'
  BY <1>1, <1>2 DEF IInv, RunTyped, Deaths, ShutdownIsNotADeath, Before
<1> QED
  BY <1>4, <1>5, <1>6, <1>7, <1>8 DEF IInv

\* startAndWait puts back the status it took.
LEMMA AwaitsListenerKeeps ==
  ASSUME IInv, AwaitsListener
  PROVE  IInv'
<1> USE DEF AwaitsListener, EntersStop, signals, diskVars, procVars
<1>1. exit' = exit
  <2>1. Last(procs) \in Procs
    BY DEF IInv, RunTyped, Launched, Last
  <2> QED
    BY <2>1 DEF StatusPutBack, IInv, RunTyped
<1>2. RunTyped'
  BY <1>1 DEF IInv, RunTyped, Before
<1>3. Launched'
  BY <1>1 DEF IInv, RunTyped, Launched
<1>4. Watched'
  BY <1>1 DEF IInv, Watched
<1>5. Stopped'
  BY DEF IInv, Stopped, AtWork, CompletedMeansWhole
<1>6. Deaths'
  BY DEF IInv, Deaths, ShutdownIsNotADeath, Before
<1> QED
  BY <1>2, <1>3, <1>4, <1>5, <1>6 DEF IInv

-----------------------------------------------------------------------------
(* The stages of execute and of Run.  None of them launches or reaps a      *)
(* process, and each leaves Before only through Stop or a bundle.           *)

\* The warm-up succeeds, fails or is interrupted.
LEMMA WarmsUpKeeps ==
  ASSUME IInv, WarmsUp
  PROVE  IInv'
<1> USE DEF WarmsUp, procVars, watchVars, signals, stopVars, diskVars, EntersStop, Fails,
            RequestErrors, Explain, Cancelled
<1>1. RunTyped'
  BY DEF IInv, RunTyped, Before
<1>2. Launched'
  BY DEF IInv, RunTyped, Launched, Before
<1>3. Watched'
  BY DEF IInv, RunTyped, Watched
<1>4. Stopped'
  BY RunLifecycleAssumption DEF IInv, RunTyped, Watched, Stopped, AtWork, Down, CompletedMeansWhole
<1>5. Deaths'
  BY RunLifecycleAssumption DEF IInv, RunTyped, Watched, Stopped, AtWork, Deaths,
                                ShutdownIsNotADeath, Before
<1> QED
  BY <1>1, <1>2, <1>3, <1>4, <1>5 DEF IInv

\* What comes between the warm-up and the first cohort.
LEMMA PreparesKeeps ==
  ASSUME IInv, Prepares
  PROVE  IInv'
<1> USE DEF Prepares, procVars, watchVars, signals, stopVars, diskVars, EntersStop, Fails,
            Cancelled
<1>1. RunTyped'
  BY DEF IInv, RunTyped, Before
<1>2. Launched'
  BY DEF IInv, RunTyped, Launched, Before
<1>3. Watched'
  BY DEF IInv, RunTyped, Watched
<1>4. Stopped'
  BY RunLifecycleAssumption DEF IInv, RunTyped, Watched, Stopped, AtWork, Down, CompletedMeansWhole
<1>5. Deaths'
  BY RunLifecycleAssumption DEF IInv, RunTyped, Watched, Stopped, AtWork, Deaths,
                                ShutdownIsNotADeath, Before
<1> QED
  BY <1>1, <1>2, <1>3, <1>4, <1>5 DEF IInv

\* A cohort is released and collected, or ends the run.
LEMMA ReleasesCohortKeeps ==
  ASSUME IInv, ReleasesCohort
  PROVE  IInv'
<1> USE DEF ReleasesCohort, procVars, watchVars, signals, stopVars, diskVars, EntersStop,
            Fails, RequestErrors, Explain, EndsTheRun, Cancelled
<1>1. RunTyped'
  BY DEF IInv, RunTyped, Before
<1>2. Launched'
  BY DEF IInv, RunTyped, Launched, Before
<1>3. Watched'
  BY DEF IInv, RunTyped, Watched
<1>4. Stopped'
  BY RunLifecycleAssumption DEF IInv, RunTyped, Watched, Stopped, AtWork, Down, CompletedMeansWhole
<1>5. Deaths'
  BY RunLifecycleAssumption DEF IInv, RunTyped, Watched, Stopped, AtWork, Deaths,
                                ShutdownIsNotADeath, Before
<1> QED
  BY <1>1, <1>2, <1>3, <1>4, <1>5 DEF IInv

\* An interrupt between two cohorts.
LEMMA GapInterruptedKeeps ==
  ASSUME IInv, GapInterrupted
  PROVE  IInv'
<1> USE DEF GapInterrupted, procVars, watchVars, signals, diskVars, EntersStop, Fails, Explain,
            Cancelled
<1>1. RunTyped'
  BY DEF IInv, RunTyped, Before
<1>2. Launched'
  BY DEF IInv, RunTyped, Launched, Before
<1>3. Watched'
  BY DEF IInv, RunTyped, Watched
<1>4. Stopped'
  BY RunLifecycleAssumption DEF IInv, RunTyped, Watched, Stopped, AtWork, Down, CompletedMeansWhole
<1>5. Deaths'
  BY RunLifecycleAssumption DEF IInv, RunTyped, Watched, Stopped, AtWork, Deaths,
                                ShutdownIsNotADeath, Before
<1> QED
  BY <1>1, <1>2, <1>3, <1>4, <1>5 DEF IInv

\* The client is closed after the last cohort.
LEMMA ClosesClientKeeps ==
  ASSUME IInv, ClosesClient
  PROVE  IInv'
<1> USE DEF ClosesClient, procVars, watchVars, signals, diskVars, EntersStop, Fails
<1>1. RunTyped'
  BY DEF IInv, RunTyped, Before
<1>2. Launched'
  BY DEF IInv, RunTyped, Launched, Before
<1>3. Watched'
  BY DEF IInv, RunTyped, Watched
<1>4. Stopped'
  BY RunLifecycleAssumption DEF IInv, RunTyped, Watched, Stopped, AtWork, Down, CompletedMeansWhole
<1>5. Deaths'
  BY RunLifecycleAssumption DEF IInv, RunTyped, Watched, Stopped, AtWork, Deaths,
                                ShutdownIsNotADeath, Before
<1> QED
  BY <1>1, <1>2, <1>3, <1>4, <1>5 DEF IInv

\* The evidence is read after the processes are down.
LEMMA GathersEvidenceKeeps ==
  ASSUME IInv, GathersEvidence
  PROVE  IInv'
<1> USE DEF GathersEvidence, procVars, watchVars, signals, stopVars, diskVars, EntersStop,
            Fails, Cancelled
<1>1. RunTyped'
  BY DEF IInv, RunTyped, Before
<1>2. Launched'
  BY DEF IInv, RunTyped, Launched, Before
<1>3. Watched'
  BY DEF IInv, RunTyped, Watched
<1>4. Stopped'
  BY RunLifecycleAssumption DEF IInv, RunTyped, Watched, Stopped, AtWork, Down, CompletedMeansWhole
<1>5. Deaths'
  BY RunLifecycleAssumption DEF IInv, RunTyped, Watched, Stopped, AtWork, Deaths,
                                ShutdownIsNotADeath, Before
<1> QED
  BY <1>1, <1>2, <1>3, <1>4, <1>5 DEF IInv

\* A run that failed leaves a bundle that says so.
LEMMA WritesFailedBundleKeeps ==
  ASSUME IInv, WritesFailedBundle
  PROVE  IInv'
<1> USE DEF WritesFailedBundle, procVars, watchVars, signals, stopVars, Returns
<1>1. RunTyped'
  BY DEF IInv, RunTyped, Before
<1>2. Launched'
  BY DEF IInv, RunTyped, Launched, Before
<1>3. Watched'
  BY DEF IInv, RunTyped, Watched
<1>4. Stopped'
  BY RunLifecycleAssumption DEF IInv, RunTyped, Watched, Stopped, AtWork, Down, CompletedMeansWhole
<1>5. Deaths'
  BY RunLifecycleAssumption DEF IInv, RunTyped, Watched, Stopped, AtWork, Deaths,
                                ShutdownIsNotADeath, Before
<1> QED
  BY <1>1, <1>2, <1>3, <1>4, <1>5 DEF IInv

\* One that did not leaves a completed bundle.
LEMMA WritesCompletedBundleKeeps ==
  ASSUME IInv, WritesCompletedBundle
  PROVE  IInv'
<1> USE DEF WritesCompletedBundle, procVars, watchVars, signals, stopVars, Returns
<1>1. RunTyped'
  BY DEF IInv, RunTyped, Before
<1>2. Launched'
  BY DEF IInv, RunTyped, Launched, Before
<1>3. Watched'
  BY DEF IInv, RunTyped, Watched
<1>4. Stopped'
  BY RunLifecycleAssumption DEF IInv, RunTyped, Watched, Stopped, AtWork, Down, CompletedMeansWhole
<1>5. Deaths'
  <2>1. step' \in {"judging", "ended"} /\ UNCHANGED <<stopping, sigint, told, watcher, running,
                                                     unasked, firstDeath, cancelled>>
    OBVIOUS
  <2> QED
    BY <2>1 DEF IInv, Deaths, ShutdownIsNotADeath, Before
<1> QED
  BY <1>1, <1>2, <1>3, <1>4, <1>5 DEF IInv

\* The verdict is written into the bundle.
LEMMA JudgesBundleKeeps ==
  ASSUME IInv, JudgesBundle
  PROVE  IInv'
<1> USE DEF JudgesBundle, procVars, watchVars, signals, stopVars, Returns
<1>1. RunTyped'
  BY DEF IInv, RunTyped, Before
<1>2. Launched'
  BY DEF IInv, RunTyped, Launched, Before
<1>3. Watched'
  BY DEF IInv, RunTyped, Watched
<1>4. Stopped'
  BY RunLifecycleAssumption DEF IInv, RunTyped, Watched, Stopped, AtWork, Down, CompletedMeansWhole
<1>5. Deaths'
  BY RunLifecycleAssumption DEF IInv, RunTyped, Watched, Stopped, AtWork, Deaths,
                                ShutdownIsNotADeath, Before
<1> QED
  BY <1>1, <1>2, <1>3, <1>4, <1>5 DEF IInv

-----------------------------------------------------------------------------
(* The processes, their watchers and the operator.                         *)

\* A service opens its port.
LEMMA OpensKeeps ==
  ASSUME IInv, NEW p \in Procs, Opens(p)
  PROVE  IInv'
<1> USE DEF Opens, runVars, watchVars, signals, stopVars, diskVars
<1>1. RunTyped'
  BY DEF IInv, RunTyped, Before
<1>2. Launched'
  BY DEF IInv, RunTyped, Launched, Before
<1>3. Watched'
  BY DEF IInv, RunTyped, Watched
<1>4. Stopped'
  BY RunLifecycleAssumption DEF IInv, RunTyped, Watched, Stopped, AtWork, Down, CompletedMeansWhole
<1>5. Deaths'
  BY RunLifecycleAssumption DEF IInv, RunTyped, Watched, Stopped, AtWork, Deaths,
                                ShutdownIsNotADeath, Before
<1> QED
  BY <1>1, <1>2, <1>3, <1>4, <1>5 DEF IInv

\* A process exits once: it runs, so nobody has seen it down.
LEMMA ExitsKeeps ==
  ASSUME IInv, NEW p \in Procs, NEW status \in {"ok", "bad"}, Exits(p, status)
  PROVE  IInv'
<1> USE DEF Exits, runVars, watchVars, signals, stopVars, diskVars
<1>1. RunTyped'
  BY DEF IInv, RunTyped, Before
<1>2. Launched'
  BY DEF IInv, RunTyped, Launched, Before
<1>3. Watched'
  BY DEF IInv, RunTyped, Watched
<1>4. Stopped'
  BY RunLifecycleAssumption DEF IInv, RunTyped, Watched, Stopped, AtWork, Down, CompletedMeansWhole
<1>5. Deaths'
  BY RunLifecycleAssumption DEF IInv, RunTyped, Watched, Stopped, AtWork, Deaths,
                                ShutdownIsNotADeath, Before
<1> QED
  BY <1>1, <1>2, <1>3, <1>4, <1>5 DEF IInv

\* The status a watcher hands over is the one its process exited with.
LEMMA ReapsKeeps ==
  ASSUME IInv, NEW p \in Procs, Reaps(p)
  PROVE  IInv'
<1> USE DEF Reaps, runVars, procVars, signals, stopVars, diskVars
<1>1. RunTyped'
  BY DEF IInv, RunTyped, Before
<1>2. Launched'
  BY DEF IInv, RunTyped, Launched, Before
<1>3. Watched'
  BY DEF IInv, RunTyped, Watched
<1>4. Stopped'
  BY RunLifecycleAssumption DEF IInv, RunTyped, Watched, Stopped, AtWork, Down, CompletedMeansWhole
<1>5. Deaths'
  BY RunLifecycleAssumption DEF IInv, RunTyped, Watched, Stopped, AtWork, Deaths,
                                ShutdownIsNotADeath, Before
<1> QED
  BY <1>1, <1>2, <1>3, <1>4, <1>5 DEF IInv

\* A death is recorded before Stop and before the interrupt was heard: either
\* nobody asked that process to go, or the operator already did.
LEMMA JudgesKeeps ==
  ASSUME IInv, NEW p \in Procs, Judges(p)
  PROVE  IInv'
<1> USE DEF Judges, runVars, procVars, signals, stopVars, diskVars, Unexpected
<1>0. \A q \in Procs : watcher'[q] # "none" <=> watcher[q] # "none"
  BY DEF IInv, RunTyped
<1>1. RunTyped'
  BY DEF IInv, RunTyped, Before
<1>2. Launched'
  <2>1. \A i \in 1 .. Len(procs) : procs[i] \in Procs
    BY DEF IInv, RunTyped
  <2>2. \A i \in Len(procs) + 1 .. Len(Services) : Services[i] \in Procs
    BY ServicesOrdered DEF IInv, RunTyped
  <2> QED
    BY <1>0, <2>1, <2>2 DEF IInv, Launched
<1>3. Watched'
  BY DEF IInv, RunTyped, Watched
<1>4. Stopped'
  BY RunLifecycleAssumption DEF IInv, RunTyped, Watched, Stopped, AtWork, Down, CompletedMeansWhole
<1>5. Deaths'
  <2>1. ~stopping /\ ~sigint => p \in unasked
    BY DEF IInv, Deaths, RunTyped, Watched
  <2>2. ShutdownIsNotADeath'
    BY <2>1 DEF IInv, Deaths, ShutdownIsNotADeath
  <2> QED
    BY <1>0, <2>2, RunLifecycleAssumption DEF IInv, RunTyped, Deaths, Procs
<1> QED
  BY <1>1, <1>2, <1>3, <1>4, <1>5 DEF IInv

\* onDeath cancels the run.
LEMMA WakesKeeps ==
  ASSUME IInv, NEW p \in Procs, Wakes(p)
  PROVE  IInv'
<1> USE DEF Wakes, runVars, procVars, signals, stopVars, diskVars
<1>1. RunTyped'
  BY DEF IInv, RunTyped, Before
<1>2. Launched'
  BY DEF IInv, RunTyped, Launched, Before
<1>3. Watched'
  BY DEF IInv, RunTyped, Watched
<1>4. Stopped'
  BY RunLifecycleAssumption DEF IInv, RunTyped, Watched, Stopped, AtWork, Down, CompletedMeansWhole
<1>5. Deaths'
  BY RunLifecycleAssumption DEF IInv, RunTyped, Watched, Stopped, AtWork, Deaths,
                                ShutdownIsNotADeath, Before
<1> QED
  BY <1>1, <1>2, <1>3, <1>4, <1>5 DEF IInv

\* The interrupt reaches whoever runs.
LEMMA InterruptKeeps ==
  ASSUME IInv, Interrupt
  PROVE  IInv'
<1> USE DEF Interrupt, runVars, watchVars, stopVars, diskVars
<1>1. RunTyped'
  BY DEF IInv, RunTyped, Before
<1>2. Launched'
  BY DEF IInv, RunTyped, Launched, Before
<1>3. Watched'
  BY DEF IInv, RunTyped, Watched
<1>4. Stopped'
  BY RunLifecycleAssumption DEF IInv, RunTyped, Watched, Stopped, AtWork, Down, CompletedMeansWhole
<1>5. Deaths'
  BY RunLifecycleAssumption DEF IInv, RunTyped, Watched, Stopped, AtWork, Deaths,
                                ShutdownIsNotADeath, Before
<1> QED
  BY <1>1, <1>2, <1>3, <1>4, <1>5 DEF IInv

\* The runner hears of the SIGINT, which cancels the run too.
LEMMA HearsKeeps ==
  ASSUME IInv, Hears
  PROVE  IInv'
<1> USE DEF Hears, runVars, procVars, watchVars, stopVars, diskVars
<1>1. RunTyped'
  BY DEF IInv, RunTyped, Before
<1>2. Launched'
  BY DEF IInv, RunTyped, Launched, Before
<1>3. Watched'
  BY DEF IInv, RunTyped, Watched
<1>4. Stopped'
  BY RunLifecycleAssumption DEF IInv, RunTyped, Watched, Stopped, AtWork, Down, CompletedMeansWhole
<1>5. Deaths'
  BY RunLifecycleAssumption DEF IInv, RunTyped, Watched, Stopped, AtWork, Deaths,
                                ShutdownIsNotADeath, Before
<1> QED
  BY <1>1, <1>2, <1>3, <1>4, <1>5 DEF IInv

-----------------------------------------------------------------------------
(* Stop.                                                                   *)

\* From here on no watcher records a death.
LEMMA StopBeginsKeeps ==
  ASSUME IInv, StopBegins
  PROVE  IInv'
<1> USE DEF StopBegins, runVars, procVars, watchVars, signals, diskVars
<1>1. RunTyped'
  BY DEF IInv, RunTyped, Before
<1>2. Launched'
  BY DEF IInv, RunTyped, Launched, Before
<1>3. Watched'
  BY DEF IInv, RunTyped, Watched
<1>4. Stopped'
  BY RunLifecycleAssumption DEF IInv, RunTyped, Watched, Stopped, AtWork, Down, CompletedMeansWhole
<1>5. Deaths'
  BY RunLifecycleAssumption DEF IInv, RunTyped, Watched, Stopped, AtWork, Deaths,
                                ShutdownIsNotADeath, Before
<1> QED
  BY <1>1, <1>2, <1>3, <1>4, <1>5 DEF IInv

\* Stop signals the next process, or notes that it could not.
LEMMA StopSignalsKeeps ==
  ASSUME IInv, StopSignals
  PROVE  IInv'
<1> USE DEF StopSignals, runVars, watchVars, signals, diskVars, Keep
<1>1. RunTyped'
  BY DEF IInv, RunTyped, Before
<1>2. Launched'
  BY DEF IInv, RunTyped, Launched, Before
<1>3. Watched'
  BY DEF IInv, RunTyped, Watched
<1>4. Stopped'
  BY RunLifecycleAssumption DEF IInv, RunTyped, Watched, Stopped, AtWork, Down, CompletedMeansWhole
<1>5. Deaths'
  BY RunLifecycleAssumption DEF IInv, RunTyped, Watched, Stopped, AtWork, Deaths,
                                ShutdownIsNotADeath, Before
<1> QED
  BY <1>1, <1>2, <1>3, <1>4, <1>5 DEF IInv

\* The status Stop reads is that of the process it has come to.
LEMMA StopReceivesKeeps ==
  ASSUME IInv, StopReceives
  PROVE  IInv'
<1> USE DEF StopReceives, runVars, procVars, signals, diskVars, Keep
<1>1. RunTyped'
  <2>1. stopAt > 0 /\ procs[stopAt] \in Procs
    BY DEF IInv, RunTyped, Stopped, AtWork
  <2> QED
    BY <2>1 DEF IInv, RunTyped
<1>2. Launched'
  BY DEF IInv, RunTyped, Launched, Before
<1>3. Watched'
  BY DEF IInv, RunTyped, Watched
<1>4. Stopped'
  BY RunLifecycleAssumption DEF IInv, RunTyped, Watched, Stopped, AtWork, Down, CompletedMeansWhole
<1>5. Deaths'
  BY RunLifecycleAssumption DEF IInv, RunTyped, Watched, Stopped, AtWork, Deaths,
                                ShutdownIsNotADeath, Before
<1> QED
  BY <1>1, <1>2, <1>3, <1>4, <1>5 DEF IInv

\* Stop's patience with the process ends.
LEMMA StopKillsKeeps ==
  ASSUME IInv, StopKills
  PROVE  IInv'
<1> USE DEF StopKills, runVars, procVars, watchVars, signals, diskVars
<1>1. RunTyped'
  BY DEF IInv, RunTyped, Before
<1>2. Launched'
  BY DEF IInv, RunTyped, Launched, Before
<1>3. Watched'
  BY DEF IInv, RunTyped, Watched
<1>4. Stopped'
  BY RunLifecycleAssumption DEF IInv, RunTyped, Watched, Stopped, AtWork, Down, CompletedMeansWhole
<1>5. Deaths'
  BY RunLifecycleAssumption DEF IInv, RunTyped, Watched, Stopped, AtWork, Deaths,
                                ShutdownIsNotADeath, Before
<1> QED
  BY <1>1, <1>2, <1>3, <1>4, <1>5 DEF IInv

\* The killed process is waited for, and the kill noted.
LEMMA StopBuriesKeeps ==
  ASSUME IInv, StopBuries
  PROVE  IInv'
<1> USE DEF StopBuries, runVars, procVars, signals, diskVars, Keep
<1>1. RunTyped'
  <2>1. stopAt > 0 /\ procs[stopAt] \in Procs
    BY DEF IInv, RunTyped, Stopped, AtWork
  <2> QED
    BY <2>1 DEF IInv, RunTyped
<1>2. Launched'
  BY DEF IInv, RunTyped, Launched, Before
<1>3. Watched'
  BY DEF IInv, RunTyped, Watched
<1>4. Stopped'
  BY RunLifecycleAssumption DEF IInv, RunTyped, Watched, Stopped, AtWork, Down, CompletedMeansWhole
<1>5. Deaths'
  BY RunLifecycleAssumption DEF IInv, RunTyped, Watched, Stopped, AtWork, Deaths,
                                ShutdownIsNotADeath, Before
<1> QED
  BY <1>1, <1>2, <1>3, <1>4, <1>5 DEF IInv

\* Stop returned no error to execute: it had come to every process that was
\* launched, and every process was.
LEMMA StopReturnsKeeps ==
  ASSUME IInv, StopReturns
  PROVE  IInv'
<1> USE DEF StopReturns, procVars, watchVars, signals, diskVars, Explain
<1>1. RunTyped'
  BY DEF IInv, RunTyped, Before
<1>2. Launched'
  BY DEF IInv, RunTyped, Launched, Before
<1>3. Watched'
  BY DEF IInv, RunTyped, Watched
<1>4. Stopped'
  <2>1. whence = "execute" /\ stopErr = None =>
          /\ stopping /\ firstDeath = None /\ running = {}
          /\ \A p \in Procs : code[p] = "ok"
    <3> SUFFICES ASSUME whence = "execute", stopErr = None
                 PROVE  /\ stopping /\ firstDeath = None
                        /\ \A p \in Procs : Down(p)
      BY DEF IInv, RunTyped, Down
    <3>1. stopping /\ firstDeath = None /\ \A i \in 1 .. Len(procs) : Down(procs[i])
      BY DEF IInv, Stopped, AtWork
    <3>2. Len(procs) = Len(Services) /\ \A i \in 1 .. Len(procs) : procs[i] = Services[i]
      BY DEF IInv, Stopped, Launched
    <3> QED
      BY <3>1, <3>2, ServicesOrdered
  <2> QED
    BY <2>1 DEF IInv, Stopped, AtWork, CompletedMeansWhole
<1>5. Deaths'
  BY RunLifecycleAssumption DEF IInv, RunTyped, Watched, Stopped, AtWork, Deaths,
                                ShutdownIsNotADeath, Before
<1> QED
  BY <1>1, <1>2, <1>3, <1>4, <1>5 DEF IInv

-----------------------------------------------------------------------------

\* Nothing changes when nothing happens.
LEMMA StutterKeeps == IInv /\ UNCHANGED vars => IInv'
<1> SUFFICES ASSUME IInv, UNCHANGED vars PROVE IInv'
  OBVIOUS
<1> USE DEF vars, runVars, procVars, watchVars, signals, stopVars, diskVars
<1>1. RunTyped' /\ Launched' /\ Watched'
  BY DEF IInv, RunTyped, Launched, Watched
<1>2. Stopped'
  BY DEF IInv, Stopped, AtWork, Down, CompletedMeansWhole
<1>3. Deaths'
  BY DEF IInv, Deaths, ShutdownIsNotADeath
<1> QED
  BY <1>1, <1>2, <1>3 DEF IInv

\* The invariant is inductive: one case for each action.
LEMMA StepKeeps == IInv /\ [Next]_vars => IInv'
<1> SUFFICES ASSUME IInv, [Next]_vars PROVE IInv'
  OBVIOUS
<1>1. CASE Execute
  BY <1>1, StartsNextKeeps, AwaitsListenerKeeps, WarmsUpKeeps, PreparesKeeps, ReleasesCohortKeeps,
     GapInterruptedKeeps, ClosesClientKeeps, GathersEvidenceKeeps, WritesFailedBundleKeeps,
     WritesCompletedBundleKeeps, JudgesBundleKeeps DEF Execute
<1>2. CASE Stopping
  BY <1>2, StopBeginsKeeps, StopSignalsKeeps, StopReceivesKeeps, StopKillsKeeps, StopBuriesKeeps,
     StopReturnsKeeps DEF Stopping
<1>3. ASSUME NEW p \in Procs, Watch(p) \/ Opens(p) PROVE IInv'
  BY <1>3, ReapsKeeps, JudgesKeeps, WakesKeeps, OpensKeeps DEF Watch
<1>4. ASSUME NEW p \in Procs, Exits(p, "bad") \/ Exits(p, "ok") PROVE IInv'
  BY <1>4, ExitsKeeps
<1> QED
  BY <1>1, <1>2, <1>3, <1>4, InterruptKeeps, HearsKeeps, StutterKeeps DEF Next

\* What was launched, what went down, what Stop saw and what a death did, in
\* every state.
THEOREM Invariant == Spec => []IInv
BY InitInvariant, StepKeeps, PTL DEF Spec

\* A run completes only on a whole data plane, for any number of processes:
\* every one was launched and went down of its own accord with status zero, and
\* no watcher had recorded a death before or during the shutdown.
THEOREM CompletedRunWasWhole == Spec => []CompletedMeansWhole
<1>1. IInv => CompletedMeansWhole
  BY DEF IInv, Stopped
<1> QED
  BY <1>1, Invariant, PTL

\* An exit that Stop asked for is never recorded as a death: the watcher that
\* judges it takes the mutex after Stop raised its flag, however late it reaped.
THEOREM ShutdownKillsNobody == Spec => []ShutdownIsNotADeath
<1>1. IInv => ShutdownIsNotADeath
  BY DEF IInv, Deaths
<1> QED
  BY <1>1, Invariant, PTL

\* Only what must end a run does, and it is named: no step from the warm-up to
\* the last cohort says "cancelled" unless the operator did it, because execute's
\* own context is cancelled only after a death was recorded, and explain puts
\* that death first.  A failed cohort alone ends no run.
THEOREM EndsAreNamed == Spec => FailureKeepsCauseAndScope
<1> DEFINE Named ==
      /\ failure' = "cancelled" /\ step \in {"warmup", "cohorts"} => heard
      /\ step = "cohorts" /\ step' = "stopping" => left = 0 \/ firstDeath # None \/ heard
<1>1. IInv /\ [Next]_vars => [Named]_vars
  <2> SUFFICES ASSUME IInv, Next, step \in {"warmup", "cohorts"} PROVE Named
    OBVIOUS
  <2>1. failure = None /\ stop = "idle" /\ (cancelled => firstDeath # None)
    BY DEF IInv, Deaths, Stopped, Before
  <2>2. \A error \in RequestErrors : Explain(error) = "cancelled" => heard
    BY <2>1 DEF RequestErrors, Explain, Cancelled
  <2>3. EndsTheRun => firstDeath # None \/ heard
    BY <2>1 DEF EndsTheRun, Cancelled
  <2>4. CASE WarmsUp
    BY <2>1, <2>2, <2>4, RunLifecycleAssumption DEF WarmsUp, Fails
  <2>5. CASE ReleasesCohort
    BY <2>1, <2>2, <2>3, <2>5, RunLifecycleAssumption DEF ReleasesCohort, Fails
  <2>6. CASE GapInterrupted
    BY <2>1, <2>6, RunLifecycleAssumption DEF GapInterrupted, Fails, Explain, Cancelled
  <2>7. CASE ClosesClient
    BY <2>1, <2>7, RunLifecycleAssumption DEF ClosesClient, Fails
  <2>8. CASE UNCHANGED runVars
    BY <2>1, <2>8, RunLifecycleAssumption DEF runVars
  <2>9. WarmsUp \/ ReleasesCohort \/ GapInterrupted \/ ClosesClient \/ UNCHANGED runVars
    <3>1. CASE Execute
      BY <3>1 DEF Execute, StartsNext, AwaitsListener, Prepares, GathersEvidence,
                  WritesFailedBundle, WritesCompletedBundle, JudgesBundle
    <3>2. CASE Stopping
      BY <3>2, <2>1 DEF Stopping, StopBegins, StopSignals, StopReceives, StopKills, StopBuries,
                        StopReturns
    <3>3. CASE Interrupt \/ Hears
      BY <3>3 DEF Interrupt, Hears
    <3>4. ASSUME NEW p \in Procs, Watch(p) \/ Opens(p) \/ Exits(p, "bad") \/ Exits(p, "ok")
          PROVE  UNCHANGED runVars
      BY <3>4 DEF Watch, Reaps, Judges, Wakes, Opens, Exits
    <3> QED
      BY <3>1, <3>2, <3>3, <3>4 DEF Next
  <2> QED
    BY <2>4, <2>5, <2>6, <2>7, <2>8, <2>9
<1> QED
  BY <1>1, Invariant, PTL DEF Spec, FailureKeepsCauseAndScope

====
