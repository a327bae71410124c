---------------------------- MODULE RunLifecycle ----------------------------
(***************************************************************************)
(* One run of the runner: execute's stages (internal/runner/run.go), the   *)
(* data plane processes it starts, watches and stops                       *)
(* (internal/runner/services.go), and what Run leaves on disk.             *)
(*                                                                         *)
(* Beside execute run one watcher per process, the processes themselves,   *)
(* and the operator, whose interrupt reaches every process of the group    *)
(* and cancels the runner's context a little later (signal.NotifyContext). *)
(* Stages that only read or write files are folded into the stage they     *)
(* belong to: what counts is whether they consult the context and how      *)
(* their error is worded.                                                  *)
(***************************************************************************)
EXTENDS Naturals, FiniteSets, Sequences, SequencesExt

CONSTANTS
  Services,  \* the data plane's processes, in the order they are started
  Cohorts,   \* how many recorded cohorts the manifest asks for
  None

ASSUME RunLifecycleAssumption ==
  /\ Services \in Seq(ToSet(Services))
  /\ IsInjective(Services)
  /\ Cohorts \in Nat \ {0}
  /\ None \notin ToSet(Services)
  /\ None \notin {"ok", "bad", "cancelled", "death", "notSignalled", "badExit", "killed"}

Procs == ToSet(Services)

VARIABLES
  step,        \* where execute and Run stand
  left,        \* cohorts still to be released
  failure,     \* the cause execute returns
  procs,       \* services.procs
  running,     \* the processes that run
  listens,     \* the processes that opened their listening socket
  code,        \* the exit status of each process
  told,        \* the processes that were sent SIGINT, by Stop or by the operator
  unasked,     \* the processes that exited before anything asked them to: before Stop
               \* began and without a SIGINT from the operator
  watcher,     \* where each watch goroutine stands
  exit,        \* proc.exit, a channel of capacity one
  stopping,    \* services.stopping
  firstDeath,  \* services.firstDeath
  cancelled,   \* whether onDeath cancelled execute's context
  sigint,      \* whether the operator interrupted
  heard,       \* whether the runner's own context is cancelled by that
  stop,        \* Stop's program counter
  stopAt,      \* the index Stop has come to
  stopErr,     \* Stop's firstErr
  whence,      \* which of its callers Stop returns to
  disk,        \* the state the bundle on disk names
  verdict,     \* the verdict beside it
  returned     \* what Run returned

runVars   == <<step, left, failure>>
procVars  == <<running, listens, code, told, unasked>>
watchVars == <<watcher, exit, firstDeath, cancelled>>
signals   == <<sigint, heard>>
stopVars  == <<stopping, stop, stopAt, stopErr, whence, procs>>
diskVars  == <<disk, verdict, returned>>
vars == <<runVars, procVars, watchVars, signals, stopVars, diskVars>>

\* execute's context: its own cancel is onDeath, its parent is the operator's.
Cancelled == cancelled \/ heard

\* Mutant: the symptom is reported as it is.
Unexplained(cause) == cause

\* explain: a death the watchers recorded goes in front of its symptom.
Explain(cause) == IF firstDeath # None THEN "death" ELSE cause

-----------------------------------------------------------------------------
(* The processes and their watchers.                                       *)

Opens(p) ==
  /\ p \in running
  /\ p \notin listens
  /\ listens' = listens \cup {p}
  /\ UNCHANGED <<runVars, running, code, told, unasked, watchVars, signals, stopVars, diskVars>>

Exits(p, status) ==
  /\ p \in running
  /\ running' = running \ {p}
  /\ code' = [code EXCEPT ![p] = status]
  /\ unasked' = IF p \in told \/ stopping THEN unasked ELSE unasked \cup {p}
  /\ UNCHANGED <<runVars, listens, told, watchVars, signals, stopVars, diskVars>>

\* watch up to p.exit <- err.
Reaps(p) ==
  /\ watcher[p] = "waiting"
  /\ p \notin running
  /\ exit' = [exit EXCEPT ![p] = <<code[p]>>]
  /\ watcher' = [watcher EXCEPT ![p] = "reaped"]
  /\ UNCHANGED <<runVars, procVars, firstDeath, cancelled, signals, stopVars, diskVars>>

\* Mutant: watch asks only whether the operator interrupted.
UnexpectedAnyway == ~heard /\ firstDeath = None

\* An exit nobody asked for, and the first one.
Unexpected == ~stopping /\ ~heard /\ firstDeath = None

\* watch under the mutex, which it takes only now.
Judges(p) ==
  /\ watcher[p] = "reaped"
  /\ IF Unexpected
     THEN firstDeath' = p /\ watcher' = [watcher EXCEPT ![p] = "waking"]
     ELSE watcher' = [watcher EXCEPT ![p] = "done"] /\ UNCHANGED firstDeath
  /\ UNCHANGED <<runVars, procVars, exit, cancelled, signals, stopVars, diskVars>>

\* onDeath, outside the mutex.
Wakes(p) ==
  /\ watcher[p] = "waking"
  /\ cancelled' = TRUE
  /\ watcher' = [watcher EXCEPT ![p] = "done"]
  /\ UNCHANGED <<runVars, procVars, exit, firstDeath, signals, stopVars, diskVars>>

\* The operator's interrupt reaches the whole process group ...
Interrupt ==
  /\ ~sigint
  /\ step # "ended"
  /\ sigint' = TRUE
  /\ told' = told \cup running
  /\ UNCHANGED <<runVars, running, listens, code, unasked, watchVars, heard, stopVars, diskVars>>

\* ... and the runner's goroutine that cancels its context gets to run.
Hears ==
  /\ sigint
  /\ ~heard
  /\ heard' = TRUE
  /\ UNCHANGED <<runVars, procVars, watchVars, sigint, stopVars, diskVars>>

-----------------------------------------------------------------------------
(* Stop.                                                                   *)

\* Stop is entered from three places: startServices' failure, execute's own
\* call, and execute's deferred one.
EntersStop(caller) ==
  /\ step' = "stopping"
  /\ stop' = "begin"
  /\ whence' = caller
  /\ UNCHANGED <<stopping, stopAt, stopErr, procs>>

\* The flag goes up before anything is signalled, and a death already recorded
\* is the error Stop returns.
StopBegins ==
  /\ stop = "begin"
  /\ stopping' = TRUE
  /\ stopErr' = IF firstDeath # None THEN "death" ELSE None
  /\ stopAt' = Len(procs)
  /\ stop' = "next"
  /\ UNCHANGED <<runVars, procVars, watchVars, signals, whence, procs, diskVars>>

\* Mutant: the last error is kept.
KeepsLast(error) == stopErr' = error

\* Stop keeps its first error.
Keep(error) == stopErr' = IF stopErr = None THEN error ELSE stopErr

\* SIGINT to the next process.  One that is gone already is no error; any other
\* failure to signal is.
StopSignals ==
  /\ stop = "next"
  /\ stopAt > 0
  /\ \/ told' = told \cup ({procs[stopAt]} \cap running) /\ UNCHANGED stopErr
     \/ procs[stopAt] \in running /\ Keep("notSignalled") /\ UNCHANGED told
  /\ stop' = "waiting"
  /\ UNCHANGED <<runVars, running, listens, code, unasked, watchVars, signals,
                 stopping, stopAt, whence, procs, diskVars>>

\* The exit status comes in.  Anything but zero may have cost evidence.
StopReceives ==
  /\ stop = "waiting"
  /\ exit[procs[stopAt]] # <<>>
  /\ Keep(IF Head(exit[procs[stopAt]]) = "ok" THEN None ELSE "badExit")
  /\ exit' = [exit EXCEPT ![procs[stopAt]] = <<>>]
  /\ stopAt' = stopAt - 1
  /\ stop' = "next"
  /\ UNCHANGED <<runVars, procVars, watcher, firstDeath, cancelled, signals,
                 stopping, whence, procs, diskVars>>

\* shutdownGrace passes, possibly with the exit status just in, and the process
\* is killed.
StopKills ==
  /\ stop = "waiting"
  /\ stop' = "killing"
  /\ UNCHANGED <<runVars, procVars, watchVars, signals, stopping, stopAt, stopErr, whence, procs, diskVars>>

Killed(p) == stop = "killing" /\ procs[stopAt] = p

\* The exit of the killed process is waited for too.
StopBuries ==
  /\ stop = "killing"
  /\ exit[procs[stopAt]] # <<>>
  /\ Keep("killed")
  /\ exit' = [exit EXCEPT ![procs[stopAt]] = <<>>]
  /\ stopAt' = stopAt - 1
  /\ stop' = "next"
  /\ UNCHANGED <<runVars, procVars, watcher, firstDeath, cancelled, signals,
                 stopping, whence, procs, diskVars>>

\* Every process is down.  startServices explains its error only now; a failing
\* execute worded its own before the deferred call.
StopReturns ==
  /\ stop = "next"
  /\ stopAt = 0
  /\ procs' = <<>>
  /\ stop' = "idle"
  /\ \/ /\ whence = "startServices"
        /\ failure' = Explain(failure)
        /\ step' = "failed"
     \/ /\ whence = "deferred"
        /\ step' = "failed"
        /\ UNCHANGED failure
     \/ /\ whence = "execute"
        /\ failure' = stopErr
        /\ step' = IF stopErr = None THEN "evidence" ELSE "failed"
  /\ UNCHANGED <<left, procVars, watchVars, signals, stopping, stopAt, stopErr, whence, diskVars>>

Stopping ==
  \/ StopBegins \/ StopSignals \/ StopReceives \/ StopKills \/ StopBuries \/ StopReturns

-----------------------------------------------------------------------------
(* execute.                                                                *)

\* execute returns an error, and its deferred Stop runs.
Fails(cause) ==
  /\ failure' = cause
  /\ EntersStop("deferred")

\* startServices: the next process, if it can be launched.
StartsNext ==
  LET p == Services[Len(procs) + 1] IN
  /\ step = "starting"
  /\ Len(procs) < Len(Services)
  /\ \/ /\ procs' = Append(procs, p)
        /\ running' = running \cup {p}
        /\ watcher' = [watcher EXCEPT ![p] = "waiting"]
        /\ step' = "listening"
        /\ UNCHANGED <<failure, stop, stopAt, stopErr, stopping, whence>>
     \/ /\ failure' = "notStarted"
        /\ EntersStop("startServices")
        /\ UNCHANGED <<running, watcher>>
  /\ UNCHANGED <<left, listens, code, told, unasked, exit, firstDeath, cancelled, signals, diskVars>>

\* Mutant: the status is not put back.
StatusTaken == <<>>

\* What startAndWait leaves in the channel it has read the exit status from.
StatusPutBack == exit[Last(procs)]

\* startAndWait: the process listens, or exited, or neither for too long.
AwaitsListener ==
  LET p == Last(procs) IN
  /\ step = "listening"
  /\ \/ /\ p \in listens
        /\ step' = IF Len(procs) = Len(Services) THEN "warmup" ELSE "starting"
        /\ UNCHANGED <<failure, stop, stopAt, stopErr, stopping, whence, procs, exit>>
     \/ /\ exit[p] # <<>>
        /\ exit' = [exit EXCEPT ![p] = StatusPutBack]
        /\ failure' = "exitedEarly"
        /\ EntersStop("startServices")
     \/ /\ failure' \in {"startupTimeout"} \cup (IF Cancelled THEN {"cancelled"} ELSE {})
        /\ EntersStop("startServices")
        /\ UNCHANGED exit
  /\ UNCHANGED <<left, procVars, watcher, firstDeath, cancelled, signals, diskVars>>

\* A cell without a data plane starts at the warm-up.
DataPlaneUp == running = Procs

\* How the error of a released cohort is worded before anybody explains it.
RequestErrors == {"request"} \cup (IF Cancelled THEN {"cancelled"} ELSE {})

\* The warm-up cohorts: the one place where a failed cohort ends the run.
WarmsUp ==
  /\ step = "warmup"
  /\ \/ DataPlaneUp /\ step' = "prepare" /\ UNCHANGED <<failure, stopVars>>
     \/ \E error \in RequestErrors : Fails(Explain(error))
  /\ UNCHANGED <<left, procVars, watchVars, signals, diskVars>>

\* The trace collector and the first statistics: their errors go out as they
\* are.
Prepares ==
  /\ step = "prepare"
  /\ \/ ~Cancelled /\ step' = "cohorts" /\ UNCHANGED <<failure, stopVars>>
     \/ Fails(IF Cancelled THEN "cancelled" ELSE "backend")
  /\ UNCHANGED <<left, procVars, watchVars, signals, diskVars>>

\* Whether a failed cohort ends the run: only if the data plane or the run's
\* context is gone.
EndsTheRun == firstDeath # None \/ Cancelled

\* One recorded cohort.
ReleasesCohort ==
  /\ step = "cohorts"
  /\ left > 0
  /\ \/ /\ DataPlaneUp
        /\ left' = left - 1
        /\ UNCHANGED <<step, failure, stopVars>>
     \/ /\ ~EndsTheRun
        /\ left' = left - 1
        /\ UNCHANGED <<step, failure, stopVars>>
     \/ /\ EndsTheRun
        /\ \E error \in RequestErrors : Fails(Explain(error))
        /\ UNCHANGED left
  /\ UNCHANGED <<procVars, watchVars, signals, diskVars>>

\* The gap between two cohorts.
GapInterrupted ==
  /\ step = "cohorts"
  /\ left \in 1 .. Cohorts - 1
  /\ Cancelled
  /\ Fails(Explain("cancelled"))
  /\ UNCHANGED <<left, procVars, watchVars, signals, diskVars>>

\* After the last cohort: the client is closed and the data plane stopped.
ClosesClient ==
  /\ step = "cohorts"
  /\ left = 0
  /\ \/ EntersStop("execute") /\ UNCHANGED failure
     \/ Fails("client")
  /\ UNCHANGED <<left, procVars, watchVars, signals, diskVars>>

\* Statistics, traces, streams, archive.  Only the first two ask the context;
\* each may fail by itself.
GathersEvidence ==
  /\ step = "evidence"
  /\ \/ step' = "completed" /\ ~Cancelled /\ UNCHANGED <<failure, stopVars>>
     \/ Fails(IF Cancelled THEN "cancelled" ELSE "evidence")
  /\ UNCHANGED <<left, procVars, watchVars, signals, diskVars>>

-----------------------------------------------------------------------------
(* Run, around execute.                                                    *)

\* Run is over.
Returns(result) ==
  /\ returned' = result
  /\ step' = "ended"
  /\ UNCHANGED <<left, failure, procVars, watchVars, signals, stopVars>>

\* A failed run writes its bundle too, if it can.
WritesFailedBundle ==
  /\ step = "failed"
  /\ disk' \in {"failed", None}
  /\ Returns("error")
  /\ UNCHANGED verdict

\* The bundle of a completed run, before it is judged.
WritesCompletedBundle ==
  /\ step = "completed"
  /\ \/ disk' = "completed" /\ step' = "judging" /\ UNCHANGED <<left, failure, procVars, watchVars, signals, stopVars, verdict, returned>>
     \/ Returns("error") /\ UNCHANGED <<disk, verdict>>

\* finalizeVerdict and what Run makes of it: the archive is judged and the
\* verdict written; the raw streams are judged, and must agree; a rejected run
\* rewrites its bundle, if it can.
JudgesBundle ==
  /\ step = "judging"
  /\ \/ Returns("error") /\ UNCHANGED <<disk, verdict>>
     \/ \E archive, streams \in {"passed", "rejected"} :
          /\ verdict' = archive
          /\ \/ archive # streams /\ Returns("error") /\ UNCHANGED disk
             \/ archive = streams /\ archive = "passed" /\ Returns("ok") /\ UNCHANGED disk
             \/ archive = streams /\ archive = "rejected" /\ Returns("error") /\ disk' \in {"failed", disk}

-----------------------------------------------------------------------------

Init ==
  /\ step = IF Services = <<>> THEN "warmup" ELSE "starting"
  /\ left = Cohorts
  /\ failure = None
  /\ procs = <<>>
  /\ running = {} /\ listens = {} /\ told = {} /\ unasked = {}
  /\ code = [p \in Procs |-> None]
  /\ watcher = [p \in Procs |-> "none"]
  /\ exit = [p \in Procs |-> <<>>]
  /\ firstDeath = None /\ cancelled = FALSE
  /\ sigint = FALSE /\ heard = FALSE
  /\ stopping = FALSE /\ stop = "idle" /\ stopAt = 0 /\ stopErr = None /\ whence = None
  /\ disk = None /\ verdict = None /\ returned = None

Execute ==
  StartsNext \/ AwaitsListener \/ WarmsUp \/ Prepares \/ ReleasesCohort \/ GapInterrupted
  \/ ClosesClient \/ GathersEvidence
  \/ WritesFailedBundle \/ WritesCompletedBundle \/ JudgesBundle

Watch(p) == Reaps(p) \/ Judges(p) \/ Wakes(p)

Next ==
  \/ Execute \/ Stopping \/ Interrupt \/ Hears
  \/ \E p \in Procs : Watch(p) \/ Opens(p)
  \/ \E p \in Procs : Exits(p, "bad") \/ (~Killed(p) /\ Exits(p, "ok"))

Spec == Init /\ [][Next]_vars

\* The runner's goroutines run, its timers fire, a killed process goes down.
\* Nothing is asked of the processes: they may hang at startup, serve for ever
\* and ignore SIGINT.
FairSpec ==
  /\ Spec
  /\ WF_vars(Execute)
  /\ WF_vars(Stopping)
  /\ \A p \in Procs : WF_vars(Watch(p)) /\ WF_vars(Killed(p) /\ Exits(p, "bad"))

-----------------------------------------------------------------------------
(* What must hold.                                                         *)

\* A run completes only on a whole data plane: every process was launched, went
\* down of its own accord with status zero, was not killed over its stream, and
\* no watcher had recorded a death, before or during the shutdown.
CompletedMeansWhole ==
  step \in {"evidence", "completed"} =>
    /\ firstDeath = None
    /\ running = {}
    /\ \A p \in Procs : code[p] = "ok"

\* An exit that Stop asked for is never recorded as a death and never cancels
\* the context the evidence is still gathered under.
ShutdownIsNotADeath == firstDeath # None => firstDeath \in unasked \/ sigint

\* What ends a run is named, and only what must end it does.  From the warm-up to
\* the last cohort a death the watchers recorded before a request failed of it is
\* what the run names: it never says "context canceled" unless the operator
\* cancelled it (explain).  And a failed cohort is scoped to itself: once the
\* warm-up is over, requests alone never end a run (ADR-0010).
FailureKeepsCauseAndScope ==
  [][ /\ failure' = "cancelled" /\ step \in {"warmup", "cohorts"} => heard
      /\ step = "cohorts" /\ step' = "stopping" => left = 0 \/ firstDeath # None \/ heard ]_vars

\* The run ends, though the data plane may hang at any point.
RunEnds == <>(step = "ended")

-----------------------------------------------------------------------------
(* What comments and tests say and the code does not do.                   *)

\* The run does not report a symptom "as its cause instead of the death": no
\* run says "context canceled" unless the operator cancelled it.
DeathIsTheCause == failure = "cancelled" => heard

=============================================================================
