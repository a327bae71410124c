-------------------------- MODULE PreparationProofs --------------------------
(***************************************************************************)
(* What a completed run and a green suite of Preparation are worth, for any*)
(* contents of the artifact's file and any number of interferences.        *)
(*                                                                         *)
(* Contents follows the chosen artifact's bytes from the file to the       *)
(* repository, the server and the run's executions; Counts ties the        *)
(* server's counters to the runner's own count of the window.  A bundle    *)
(* that says "completed" was written when both held (BundleOK).  Untroubled*)
(* is the other half: while nobody interferes, every step of the runner    *)
(* finds what it asks for, whatever the server held at the start.          *)
(*                                                                         *)
(* The percentile of pauses a run reports is a statement about data: for   *)
(* every bag of pauses before and during the run it bounds the run's own.  *)
(* It needs what a sum over a finite set is, and that is proved first, from*)
(* the least set for which it could fail.                                  *)
(***************************************************************************)
EXTENDS Preparation, FiniteSetTheorems, WellFoundedInduction, TLAPS

-----------------------------------------------------------------------------
(* The inductive invariant.                                                *)

\* Where the runner stands once its artifact is chosen, written, loaded and
\* counted.
Counting == {"send", "stop", "after", "judge"}
Loaded   == {"identify", "services", "warm", "before"} \cup Counting
Written  == {"live", "sweep", "unload", "poll", "load"} \cup Loaded
Chosen   == {"verify", "read", "clear", "write"} \cup Written
Working  == {"prepare"} \cup Chosen

\* The entry of every contract's model.
TheEntry == EntryName("graph", "unbatched")

\* What a client holds.
Fields == {"artifact", "blob", "todo", "identity", "domain", "before", "sent", "failed", "delta"}

\* The types the induction needs.
Typed ==
  /\ DOMAIN pc = Clients
  /\ DOMAIN mine = Clients
  /\ \A c \in Clients : /\ DOMAIN mine[c] = Fields
                        /\ mine[c].before \in Int /\ mine[c].delta \in Int
                        /\ mine[c].sent \in Nat /\ mine[c].failed \in Nat
  /\ DOMAIN models = Names
  /\ \A n \in Names : /\ DOMAIN models[n] = {"state", "content", "config", "count"}
                      /\ models[n].count \in Int
  /\ DOMAIN window = {"stray", "reloaded", "served"}
  /\ window.stray \in Nat /\ window.reloaded \in BOOLEAN
  /\ DOMAIN bundles = 1 .. 3

\* What holds of the contracts of every suite that is started, good or bad.
ContractOK(x) ==
  /\ x.cohort.count \in Int /\ x.cohort.warmup \in Int
  /\ x.model.artifact = "graph" /\ x.model.digest \in {None, Original, Regenerated}

\* A suite that is under way was accepted, and the runner is at one of its contracts.
Declarations ==
  /\ DOMAIN suite.contracts \in {1 .. k : k \in 0 .. 3} /\ DOMAIN suite.contracts = 1 .. Len(suite.contracts)
  /\ \A i \in DOMAIN suite.contracts : ContractOK(suite.contracts[i])
  /\ pc["runner"] \notin {"start", "refused"} => LoadSuite(suite) /\ at \in DOMAIN suite.contracts

\* The digest of the artifact that was chosen.
Digest == mine["runner"].artifact.digest

\* The bytes of the artifact that was chosen are in the repository, then on the
\* server, whoever loads them and however often.
Contents ==
  /\ pc["runner"] \in Chosen => m.model.digest \in {None, Digest}
  /\ pc["runner"] \in Written => TheEntry \in DOMAIN repo /\ repo[TheEntry].content = Digest
  /\ pc["runner"] \in Loaded => models[TheEntry].content = Digest
  /\ pc["runner"] \in Counting => window.served \subseteq {Digest}

\* What the runner's and the server's counts have to do with each other.
Counts ==
  LET x == mine["runner"] IN
  /\ pc["runner"] \in Chosen \ Counting => x.sent = 0 /\ x.failed = 0
  /\ pc["runner"] \in Counting =>
       /\ x.failed <= x.sent
       /\ window.served = {} => x.sent = x.failed
       /\ pc["runner"] = "send" => x.sent < RequestsOf("runner")
       /\ pc["runner"] # "send" => x.sent = RequestsOf("runner")
  /\ InWindow /\ ~window.reloaded /\ models[TheEntry].state = "ready" =>
       models[TheEntry].count = x.before + (x.sent - x.failed) + window.stray
  /\ pc["runner"] = "judge" => window.reloaded \/ x.delta = (x.sent - x.failed) + window.stray

\* What a completed bundle says.
BundleOK(i) ==
  LET b == bundles[i] IN
  b.state = "completed" =>
    /\ b.window.served = {b.entry.digest}
    /\ suite.contracts[i].model.digest \in {None, b.entry.digest}
    /\ b.window.reloaded \/ b.window.stray = 0
    /\ b.adapter # NoAdapter => b.adapter.downstream = suite.contracts[i].transport.maxMessageBytes

\* The suite goes on past completed runs only.
Bundled ==
  /\ \A i \in DOMAIN suite.contracts : BundleOK(i)
  /\ pc["runner"] \in Working => \A i \in 1 .. at - 1 : Completed(i)
  /\ pc["runner"] \in {"compare", "green", "unequal"} => \A i \in DOMAIN suite.contracts : Completed(i)
  /\ pc["runner"] = "green" =>
       \A p \in suite.pairs : SameImplementation(bundles[bundleForCell(suite.contracts, p.a)],
                                                 bundles[bundleForCell(suite.contracts, p.b)], NoAdapter)

IInv == Typed /\ Declarations /\ Contents /\ Counts /\ Bundled

-----------------------------------------------------------------------------

\* It is one the server knows.
LEMMA EntryKnown == TheEntry \in Names
  BY DEF TheEntry, Names

\* Both clients ask for it, the runner because an accepted manifest names no other.
LEMMA Named ==
  ASSUME IInv
  PROVE  /\ pc["runner"] \in Working => ModelEntryName(m) = TheEntry /\ NameOf("runner") = TheEntry
         /\ NameOf("smoke") = TheEntry
<1>1. NameOf("smoke") = TheEntry
  BY DEF NameOf, TheEntry
<1>2. ASSUME pc["runner"] \in Working PROVE ModelEntryName(m) = TheEntry
  <2>1. LoadSuite(suite) /\ at \in DOMAIN suite.contracts
    BY <1>2 DEF IInv, Declarations, Working, Chosen, Written, Loaded, Counting
  <2>2. m.model.artifact = "graph"
    BY <2>1 DEF IInv, Declarations, ContractOK, m
  <2>3. m.model.entry = "unbatched"
    BY <2>1 DEF LoadSuite, ValidManifest, EntryMatches, m
  <2> QED
    BY <2>2, <2>3 DEF ModelEntryName, TheEntry
<1> QED
  BY <1>1, <1>2 DEF NameOf

\* How many requests the runner sends: a manifest that was accepted asks for some.
LEMMA RequestsKnown ==
  ASSUME IInv, pc["runner"] \in Working
  PROVE  /\ m.cohort.size \in Nat /\ m.cohort.count \in Nat
         /\ RequestsOf("runner") \in Nat /\ RequestsOf("runner") > 0
         /\ RequestsOf("runner") = m.cohort.count * m.cohort.size
<1>1. LoadSuite(suite) /\ at \in DOMAIN suite.contracts
  BY DEF IInv, Declarations, Working, Chosen, Written, Loaded, Counting
<1>2. m.cohort.count \in Int /\ m.cohort.count > 0
  BY <1>1 DEF IInv, Declarations, ContractOK, LoadSuite, ValidManifest, m
<1>3. m.cohort.size \in 1 .. MaxOrdinal
  BY <1>1 DEF LoadSuite, ValidManifest, m
<1>4. m.cohort.size \in Nat /\ m.cohort.size > 0
  BY <1>3
<1>5. m.cohort.count * m.cohort.size \in Nat /\ m.cohort.count * m.cohort.size > 0
  BY <1>2, <1>4
<1> QED
  BY <1>2, <1>4, <1>5 DEF RequestsOf

\* The contract at hand has a place for its bundle.
LEMMA AtKnown ==
  ASSUME IInv, pc["runner"] \notin {"start", "refused"}
  PROVE  /\ at \in 1 .. 3 /\ at \in DOMAIN suite.contracts /\ at \in DOMAIN bundles
         /\ Len(suite.contracts) \in 0 .. 3 /\ DOMAIN suite.contracts = 1 .. Len(suite.contracts)
         /\ DOMAIN suite.contracts \subseteq 1 .. 3
<1>1. at \in DOMAIN suite.contracts
  BY DEF IInv, Declarations
<1>2. PICK k \in 0 .. 3 : DOMAIN suite.contracts = 1 .. k
  BY DEF IInv, Declarations
<1>3. Len(suite.contracts) = k
  BY <1>1, <1>2 DEF IInv, Declarations
<1>4. DOMAIN suite.contracts \subseteq 1 .. 3
  BY <1>2
<1> QED
  BY <1>1, <1>2, <1>3, <1>4 DEF IInv, Declarations, Typed

\* A client that gives up leaves a failed bundle, if it is the runner and got
\* that far.
LEMMA Failing ==
  ASSUME IInv, NEW c \in Clients, c = "runner" => pc[c] \notin {"start", "refused"}, Fails(c),
         UNCHANGED <<suite, at, window>>, c = "runner" \/ UNCHANGED repo,
         DOMAIN models' = Names,
         \A n \in Names : /\ DOMAIN models'[n] = {"state", "content", "config", "count"}
                          /\ models'[n].content = models[n].content
                          /\ models'[n].count = models[n].count
                          /\ models'[n].state = "ready" => models[n].state = "ready"
  PROVE  IInv'
<1>1. Typed'
  BY DEF IInv, Typed, Fails, Goes, Clients
<1>2. Declarations'
  BY DEF IInv, Typed, Declarations, Fails, Goes, Clients
<1>3. Contents'
  BY EntryKnown DEF IInv, Typed, Contents, Digest, m, Fails, Goes, Clients, Counting, Loaded, Written, Chosen
<1>4. Counts'
  BY EntryKnown DEF IInv, Typed, Counts, InWindow, m, RequestsOf, Fails, Goes, Clients,
                    Counting, Loaded, Written, Chosen
<1>5. Bundled'
  <2>1. CASE c = "runner"
    <3> USE AtKnown
    <3>1. pc'["runner"] = "failed"
      BY <2>1 DEF IInv, Typed, Fails, Goes, Clients
    <3>2. \A i \in DOMAIN suite.contracts : BundleOK(i)'
      <4> SUFFICES ASSUME NEW i \in DOMAIN suite.contracts PROVE BundleOK(i)'
        OBVIOUS
      <4>1. bundles'[i] = bundles[i] \/ bundles'[i] = FailedBundle
        BY <2>1 DEF Fails, IInv, Typed
      <4> QED
        BY <4>1 DEF BundleOK, FailedBundle, IInv, Bundled
    <3> QED
      BY <3>1, <3>2 DEF Bundled, Working, Chosen, Written, Loaded, Counting
  <2>2. CASE c # "runner"
    <3>1. bundles' = bundles /\ pc'["runner"] = pc["runner"]
      BY <2>2 DEF IInv, Typed, Fails, Goes, Clients
    <3> QED
      BY <3>1 DEF IInv, Bundled, BundleOK, Completed
  <2> QED
    BY <2>1, <2>2
<1> QED
  BY <1>1, <1>2, <1>3, <1>4, <1>5 DEF IInv

\* A step that keeps the runner at the contract it is at, and does not bring it to
\* the comparisons, leaves what is declared and what is on disk as it was.
LEMMA SameContract ==
  ASSUME IInv, UNCHANGED <<suite, at, bundles>>,
         \/ pc'["runner"] = pc["runner"]
         \/ pc["runner"] \in Working /\ pc'["runner"] \in Working
  PROVE  /\ Declarations' /\ Bundled'
         /\ m' = m /\ RequestsOf("runner")' = RequestsOf("runner")
<1>1. Declarations'
  BY DEF IInv, Declarations, Counting, Loaded, Written, Chosen, Working
<1>2. Bundled'
  BY DEF IInv, Bundled, BundleOK, Completed, Counting, Loaded, Written, Chosen, Working
<1>3. m' = m
  BY DEF m
<1> QED
  BY <1>1, <1>2, <1>3 DEF RequestsOf

\* A client that notes one thing keeps everything else it noted.
LEMMA HoldsOne ==
  ASSUME Typed, NEW c \in Clients, NEW f \in Fields, NEW v, Holds(c, f, v)
  PROVE  /\ DOMAIN mine' = Clients /\ \A d \in Clients : DOMAIN mine'[d] = Fields
         /\ mine'[c][f] = v
         /\ \A d \in Clients : \A g \in Fields : d # c \/ g # f => mine'[d][g] = mine[d][g]
  BY DEF Typed, Holds

\* A client that goes on leaves the other where it stands.
LEMMA GoesOne ==
  ASSUME Typed, NEW c \in Clients, NEW there, Goes(c, there)
  PROVE  /\ DOMAIN pc' = Clients /\ pc'[c] = there
         /\ \A d \in Clients \ {c} : pc'[d] = pc[d]
  BY DEF Typed, Goes

\* What the server executes changes the count of one model, and nothing else.
LEMMA CountsOne ==
  ASSUME Typed, NEW v \in Int, models' = [models EXCEPT ![TheEntry].count = v]
  PROVE  /\ DOMAIN models' = Names
         /\ \A n \in Names : /\ DOMAIN models'[n] = {"state", "content", "config", "count"}
                             /\ models'[n].count \in Int
                             /\ models'[n].content = models[n].content
                             /\ models'[n].state = models[n].state
         /\ models'[TheEntry].count = v
  BY EntryKnown DEF Typed

\* A step that changes neither what was chosen, nor what was written or loaded or
\* counted where that matters, keeps the invariant: the runner stays, or goes on
\* between two stops that depend on the same things.
LEMMA Onward ==
  ASSUME IInv, Typed', UNCHANGED <<suite, at, window, bundles>>,
         pc'["runner"] \in Written => UNCHANGED repo,
         \A f \in {"artifact", "before", "sent", "failed", "delta"} : mine'["runner"][f] = mine["runner"][f],
         models'[TheEntry].content = models[TheEntry].content,
         models'[TheEntry].state = "ready" =>
           models[TheEntry].state = "ready" /\ models'[TheEntry].count = models[TheEntry].count,
         \/ pc'["runner"] = pc["runner"]
         \/ pc["runner"] = "stop" /\ pc'["runner"] = "after"
         \/ \E part \in {Chosen \ Written, Written \ Loaded, Loaded \ Counting} :
              {pc["runner"], pc'["runner"]} \subseteq part
  PROVE  IInv'
<1>0. Contents /\ Counts
  BY DEF IInv
<1>1. /\ mine'["runner"].sent = mine["runner"].sent /\ mine'["runner"].failed = mine["runner"].failed
      /\ mine'["runner"].before = mine["runner"].before /\ mine'["runner"].delta = mine["runner"].delta
      /\ mine'["runner"].artifact = mine["runner"].artifact
  OBVIOUS
<1>2. Declarations' /\ Bundled' /\ m' = m /\ RequestsOf("runner")' = RequestsOf("runner")
  BY SameContract DEF Counting, Loaded, Written, Chosen, Working
<1>3. Contents'
  BY <1>0, <1>1, <1>2 DEF Contents, Digest, Counting, Loaded, Written, Chosen
<1>4. Counts'
  BY <1>0, <1>1, <1>2 DEF Counts, InWindow, Counting, Loaded, Written, Chosen
<1> QED
  BY <1>2, <1>3, <1>4 DEF IInv

\* The suite is read; nothing runs unless every manifest in it is accepted.
LEMMA LoadsSuiteKeeps ==
  ASSUME IInv, LoadsSuite
  PROVE  IInv'
<1>t. Typed /\ Declarations /\ Bundled
  BY DEF IInv
<1>0. /\ pc["runner"] = "start" /\ UNCHANGED <<suite, mine, window, bundles, models>>
      /\ DOMAIN pc' = Clients
      /\ \/ LoadSuite(suite) /\ pc'["runner"] = "prepare" /\ at' = 1
         \/ pc'["runner"] = "refused" /\ at' = at
  BY <1>t DEF LoadsSuite, Goes, Typed, Clients, serverVars
<1>1. Typed'
  BY <1>t, <1>0 DEF Typed
<1>2. Declarations'
  <2>1. LoadSuite(suite) => 1 \in DOMAIN suite.contracts
    BY <1>t DEF LoadSuite, Declarations
  <2> QED
    BY <1>t, <1>0, <2>1 DEF Declarations
<1>3. Contents'
  BY <1>0 DEF Contents, Counting, Loaded, Written, Chosen
<1>4. Counts'
  BY <1>0 DEF Counts, InWindow, Counting, Loaded, Written, Chosen
<1>5. Bundled'
  BY <1>t, <1>0 DEF Bundled, BundleOK, Counting, Loaded, Written, Chosen, Working
<1> QED
  BY <1>1, <1>2, <1>3, <1>4, <1>5 DEF IInv

\* The runner's steps between what it chooses, writes, loads and counts.
LEMMA RunnerGoesOn ==
  ASSUME IInv, VerifiesArtifact \/ ReadsArtifact \/ clearDir \/ startServices \/ StopsRecorder
  PROVE  IInv'
<1>t. Typed /\ "runner" \in Clients
  BY DEF IInv, Clients
<1>0. UNCHANGED <<suite, at, window, models>>
  BY DEF VerifiesArtifact, ReadsArtifact, clearDir, startServices, StopsRecorder, serverVars
<1>1. CASE VerifiesArtifact /\ Fails("runner")
  BY <1>t, <1>0, <1>1, Failing DEF VerifiesArtifact, Typed
<1>2. CASE startServices /\ Fails("runner")
  BY <1>t, <1>0, <1>2, Failing DEF startServices, Typed
<1>3. CASE ReadsArtifact
  <2>1. DOMAIN pc' = Clients /\ pc["runner"] = "read" /\ pc'["runner"] = "clear" /\ UNCHANGED bundles
    BY <1>t, <1>3, GoesOne DEF ReadsArtifact
  <2>2. /\ DOMAIN mine' = Clients /\ \A d \in Clients : DOMAIN mine'[d] = Fields
        /\ \A d \in Clients : \A g \in Fields : g # "blob" => mine'[d][g] = mine[d][g]
    BY <1>t, <1>3, HoldsOne DEF ReadsArtifact, Fields
  <2>3. Typed'
    BY <1>t, <1>0, <2>1, <2>2 DEF Typed, Fields
  <2> QED
    BY <1>t, <1>0, <2>1, <2>2, <2>3, Onward DEF Fields, Chosen, Written, Loaded, Counting
<1>4. ASSUME NEW there, Goes("runner", there), UNCHANGED <<mine, bundles>>,
             there \in Written => UNCHANGED repo,
             \/ pc["runner"] = "stop" /\ there = "after"
             \/ \E part \in {Chosen \ Written, Written \ Loaded, Loaded \ Counting} :
                  {pc["runner"], there} \subseteq part
      PROVE  IInv'
  <2>1. DOMAIN pc' = Clients /\ pc'["runner"] = there
    BY <1>t, <1>4, GoesOne
  <2>2. Typed'
    BY <1>t, <1>0, <1>4, <2>1 DEF Typed
  <2> QED
    BY <1>0, <1>4, <2>1, <2>2, Onward
<1>5. CASE VerifiesArtifact /\ ~Fails("runner")
  BY <1>4, <1>5 DEF VerifiesArtifact, Chosen, Written, Loaded, Counting
<1>6. CASE clearDir
  BY <1>4, <1>6 DEF clearDir, Chosen, Written, Loaded, Counting
<1>7. CASE startServices /\ ~Fails("runner")
  BY <1>4, <1>7 DEF startServices, diskVars, Written, Loaded, Counting
<1>8. CASE StopsRecorder
  BY <1>4, <1>8 DEF StopsRecorder, diskVars
<1> QED
  BY <1>1, <1>2, <1>3, <1>5, <1>6, <1>7, <1>8

\* Either client empties the server.  Unloading takes no bytes from a model that
\* stays, and makes none ready.
LEMMA EmptiesServer ==
  ASSUME IInv, NEW c \in Clients,
         WaitLive(c) \/ UnloadAll(c) \/ UnloadModel(c) \/ Quiesce(c) \/ QuiesceTimeout(c) \/ CallFails(c)
  PROVE  IInv'
<1>t. Typed
  BY DEF IInv
<1>0. /\ UNCHANGED <<suite, at, window, repo>>
      /\ pc[c] \in {"live", "sweep", "unload", "poll", "load"}
  BY DEF WaitLive, UnloadAll, UnloadModel, Quiesce, QuiesceTimeout, CallFails, diskVars
<1>1. CASE (QuiesceTimeout(c) \/ CallFails(c))
  BY <1>t, <1>0, <1>1, Failing DEF QuiesceTimeout, CallFails, Typed, serverVars
<1>2. ASSUME NEW there \in {"sweep", "unload", "poll", "load"}, Goes(c, there), UNCHANGED bundles,
             UNCHANGED mine \/ \E todo : Holds(c, "todo", todo),
             \/ UNCHANGED models
             \/ \E n : models' = [models EXCEPT ![n].state = IF @ = "gone" THEN @ ELSE "unloading"]
      PROVE  IInv'
  <2>1. /\ DOMAIN pc' = Clients
        /\ c = "runner" => {pc["runner"], pc'["runner"]} \subseteq Written \ Loaded
        /\ c # "runner" => pc'["runner"] = pc["runner"]
    BY <1>t, <1>0, <1>2, GoesOne DEF Clients, Written, Loaded, Counting
  <2>2. /\ DOMAIN mine' = Clients /\ \A d \in Clients : DOMAIN mine'[d] = Fields
        /\ \A d \in Clients : \A g \in Fields : g # "todo" => mine'[d][g] = mine[d][g]
    <3>1. CASE UNCHANGED mine
      BY <1>t, <3>1 DEF Typed
    <3>2. CASE \E todo : Holds(c, "todo", todo)
      <4>1. PICK todo : Holds(c, "todo", todo)
        BY <3>2
      <4> QED
        BY <1>t, <4>1, HoldsOne DEF Fields
    <3> QED
      BY <1>2, <3>1, <3>2
  <2>3. /\ DOMAIN models' = Names
        /\ \A n \in Names : /\ DOMAIN models'[n] = {"state", "content", "config", "count"}
                            /\ models'[n].count = models[n].count
                            /\ models'[n].content = models[n].content
                            /\ models'[n].state = "ready" => models[n].state = "ready"
    BY <1>t, <1>2 DEF Typed
  <2>4. Typed'
    BY <1>t, <1>0, <1>2, <2>1, <2>2, <2>3 DEF Typed, Fields
  <2> QED
    BY <1>t, <1>0, <1>2, <2>1, <2>2, <2>3, <2>4, Onward, EntryKnown DEF Fields, Clients
<1>3. CASE WaitLive(c) \/ Quiesce(c)
  BY <1>2, <1>3 DEF WaitLive, Quiesce, serverVars
<1>4. CASE UnloadAll(c)
  BY <1>2, <1>4 DEF UnloadAll, serverVars
<1>5. CASE UnloadModel(c)
  BY <1>2, <1>5 DEF UnloadModel
<1> QED
  BY <1>1, <1>3, <1>4, <1>5

\* The runner names the artifact its run is about: it is the one the manifest asks
\* for, if the manifest asks for one.
LEMMA PreparesKeeps ==
  ASSUME IInv, Prepares
  PROVE  IInv'
<1>1. CASE Fails("runner")
  BY <1>1, Failing DEF IInv, Typed, Prepares, Clients, diskVars, serverVars
<1>2. CASE ~Fails("runner")
  <2>a. PICK a : a = ArtifactOf(catalog, m.model.artifact)
    OBVIOUS
  <2>b. /\ m.model.digest \in {None, a.digest} /\ UNCHANGED bundles /\ Goes("runner", "verify")
        /\ mine' = [mine EXCEPT !["runner"] = [Nothing EXCEPT !.artifact = a, !.domain = Establish]]
    BY <1>2, <2>a DEF Prepares
  <2>0. pc["runner"] = "prepare" /\ UNCHANGED <<suite, at, window, models>>
    BY DEF Prepares, serverVars
  <2>t. Typed /\ "runner" \in Clients
    BY DEF IInv, Clients
  <2>p. DOMAIN pc' = Clients /\ pc'["runner"] = "verify"
    BY <2>b, <2>t, GoesOne
  <2>s. Declarations' /\ Bundled' /\ m' = m
    BY <2>b, <2>0, <2>p, SameContract DEF Counting, Loaded, Written, Chosen, Working
  <2>h. /\ DOMAIN mine' = Clients /\ mine'["smoke"] = mine["smoke"]
        /\ DOMAIN mine'["runner"] = Fields
        /\ mine'["runner"].before = 0 /\ mine'["runner"].delta = 0
        /\ mine'["runner"].sent = 0 /\ mine'["runner"].failed = 0 /\ mine'["runner"].artifact = a
    BY <2>b, <2>t DEF Typed, Clients, Nothing, Fields
  <2>1. Typed'
    BY <2>b, <2>0, <2>t, <2>p, <2>h DEF Typed, Clients
  <2>2. Contents'
    BY <2>b, <2>p, <2>s, <2>h DEF Contents, Digest, Counting, Loaded, Written, Chosen
  <2>3. Counts'
    BY <2>p, <2>h DEF Counts, InWindow, Counting, Loaded, Written, Chosen
  <2> QED
    BY <2>s, <2>1, <2>2, <2>3 DEF IInv
<1> QED
  BY <1>1, <1>2

\* What is written beside a configuration is the artifact that was chosen.
LEMMA materializeEntryKeeps ==
  ASSUME IInv, materializeEntry
  PROVE  IInv'
<1>0. pc["runner"] = "write" /\ UNCHANGED <<suite, at, window, models>>
  BY DEF materializeEntry, serverVars
<1>1. CASE Fails("runner")
  BY <1>0, <1>1, Failing DEF IInv, Typed, Clients
<1>2. ASSUME NEW content, Verify(content, mine["runner"].artifact), Goes("runner", "live"),
             UNCHANGED <<bundles, mine>>,
             repo' = [n \in {ModelEntryName(m)} |->
                        Materialized(mine["runner"].artifact, m.model.entry, m.cohort.size, content)]
      PROVE  IInv'
  <2>t. Typed /\ Contents /\ Counts /\ "runner" \in Clients
    BY DEF IInv, Clients
  <2>p. DOMAIN pc' = Clients /\ pc'["runner"] = "live"
    BY <1>2, <2>t, GoesOne
  <2>s. Declarations' /\ Bundled' /\ m' = m
    BY <1>0, <1>2, <2>p, SameContract DEF Written, Chosen, Working
  <2>r. TheEntry \in DOMAIN repo' /\ repo'[TheEntry].content = Digest
    BY <1>0, <1>2, Named DEF Materialized, Verify, FileDigest, Digest, Chosen, Working
  <2>1. Typed'
    BY <1>0, <1>2, <2>t, <2>p DEF Typed
  <2>2. Contents'
    BY <1>0, <1>2, <2>t, <2>p, <2>s, <2>r DEF Contents, Digest, Counting, Loaded, Written, Chosen
  <2>3. Counts'
    BY <1>0, <1>2, <2>t, <2>p DEF Counts, InWindow, Counting, Loaded, Written, Chosen
  <2> QED
    BY <2>s, <2>1, <2>2, <2>3 DEF IInv
<1>3. CASE ~Fails("runner")
  BY <1>2, <1>3 DEF materializeEntry, CopyVerified
<1> QED
  BY <1>1, <1>3

\* Whoever loads the entry gets the bytes in the repository.  If that replaces the
\* model, the window notes it.
LEMMA LoadModelKeeps ==
  ASSUME IInv, NEW c \in Clients, LoadModel(c)
  PROVE  IInv'
<1>t. Typed /\ Contents /\ Counts
  BY DEF IInv
<1>0. NameOf(c) = TheEntry /\ pc[c] = "load" /\ UNCHANGED <<suite, at, repo>>
  BY Named DEF LoadModel, Clients, diskVars, Working, Chosen, Written
<1>1. CASE Fails(c) /\ UNCHANGED window /\ models' = [models EXCEPT ![NameOf(c)].state = "failed"]
  BY <1>t, <1>0, <1>1, Failing, EntryKnown DEF Typed
<1>2. ASSUME NEW fresh, NEW kept \in BOOLEAN, TheEntry \in DOMAIN repo,
             fresh = [state |-> "ready", content |-> repo[TheEntry].content,
                      config |-> repo[TheEntry].config, count |-> 0],
             kept = (models[TheEntry] = [fresh EXCEPT !.count = models[TheEntry].count]),
             models' = [models EXCEPT ![TheEntry] = IF kept THEN @ ELSE fresh],
             window' = [window EXCEPT !.reloaded = @ \/ (InWindow /\ ~kept)],
             Goes(c, "identify"), UNCHANGED <<mine, bundles>>
      PROVE  IInv'
  <2>m. /\ DOMAIN models' = Names
        /\ \A n \in Names : n # TheEntry => models'[n] = models[n]
        /\ DOMAIN models'[TheEntry] = {"state", "content", "config", "count"}
        /\ models'[TheEntry].content = repo[TheEntry].content
        /\ models'[TheEntry].count \in Int
        /\ kept => models'[TheEntry] = models[TheEntry]
    <3>1. CASE kept
      <4>1. models' = [models EXCEPT ![TheEntry] = models[TheEntry]]
        BY <1>2, <3>1
      <4>2. models[TheEntry].content = repo[TheEntry].content
        BY <1>2, <3>1
      <4> QED
        BY <1>t, <4>1, <4>2, EntryKnown DEF Typed
    <3>2. CASE ~kept
      <4>1. models' = [models EXCEPT ![TheEntry] = fresh]
        BY <1>2, <3>2
      <4> QED
        BY <1>t, <1>2, <3>2, <4>1, EntryKnown DEF Typed
    <3> QED
      BY <3>1, <3>2
  <2>w. /\ DOMAIN window' = {"stray", "reloaded", "served"}
        /\ window'.stray = window.stray /\ window'.served = window.served
        /\ window'.reloaded = (window.reloaded \/ (InWindow /\ ~kept))
    BY <1>2, <1>t DEF Typed
  <2>p. /\ DOMAIN pc' = Clients
        /\ c = "runner" => pc'["runner"] = "identify" /\ pc["runner"] = "load"
        /\ c # "runner" => pc'["runner"] = pc["runner"]
    BY <1>t, <1>0, <1>2, GoesOne DEF Clients
  <2>s. Declarations' /\ Bundled' /\ m' = m /\ RequestsOf("runner")' = RequestsOf("runner")
    BY <1>0, <1>2, <2>p, SameContract DEF Counting, Loaded, Written, Chosen, Working
  <2>1. Typed'
    BY <1>t, <1>2, <2>m, <2>w, <2>p DEF Typed
  <2>2. Contents'
    BY <1>t, <1>0, <1>2, <2>m, <2>w, <2>p, <2>s DEF Contents, Digest, Counting, Loaded, Written, Chosen
  <2>3. Counts'
    <3>1. InWindow' /\ ~window'.reloaded => kept /\ ~window.reloaded /\ InWindow
      BY <2>w, <2>p DEF InWindow
    <3> QED
      BY <1>t, <1>2, <2>m, <2>w, <2>p, <2>s, <3>1 DEF Counts, Counting, Loaded, Written, Chosen
  <2> QED
    BY <2>s, <2>1, <2>2, <2>3 DEF IInv
<1> QED
  BY <1>0, <1>1, <1>2 DEF LoadModel

\* The identity that is checked is noted, and the client goes on to its run.
LEMMA ModelIdentityKeeps ==
  ASSUME IInv, NEW c \in Clients, ModelIdentity(c)
  PROVE  IInv'
<1>t. Typed
  BY DEF IInv
<1>0. pc[c] = "identify" /\ UNCHANGED <<suite, at, window, models, repo>>
  BY DEF ModelIdentity, diskVars, serverVars
<1>1. CASE Fails(c)
  BY <1>t, <1>0, <1>1, Failing DEF Typed
<1>2. CASE ~Fails(c)
  <2>1. PICK identity : Holds(c, "identity", identity)
    BY <1>2 DEF ModelIdentity
  <2>2. /\ DOMAIN mine' = Clients /\ \A d \in Clients : DOMAIN mine'[d] = Fields
        /\ \A d \in Clients : \A g \in Fields : g # "identity" => mine'[d][g] = mine[d][g]
    BY <1>t, <2>1, HoldsOne DEF Fields
  <2>3. Goes(c, IF c = "runner" THEN "services" ELSE "before") /\ UNCHANGED bundles
    BY <1>2 DEF ModelIdentity
  <2>4. /\ DOMAIN pc' = Clients
        /\ c = "runner" => {pc["runner"], pc'["runner"]} \subseteq Loaded \ Counting
        /\ c # "runner" => pc'["runner"] = pc["runner"]
    BY <1>t, <1>0, <2>3, GoesOne DEF Clients, Loaded, Counting
  <2>5. Typed'
    BY <1>t, <1>0, <2>2, <2>3, <2>4 DEF Typed, Fields
  <2> QED
    BY <1>0, <2>2, <2>3, <2>4, <2>5, Onward DEF Fields, Clients
<1> QED
  BY <1>1, <1>2

\* The warm-up is executed before the counters are read.
LEMMA WarmsUpKeeps ==
  ASSUME IInv, WarmsUp
  PROVE  IInv'
<1>t. Typed /\ Declarations /\ Contents /\ Counts /\ "runner" \in Clients
  BY DEF IInv, Clients
<1>0. /\ NameOf("runner") = TheEntry /\ pc["runner"] = "warm" /\ UNCHANGED <<suite, at, window, repo>>
  BY Named DEF WarmsUp, diskVars, Working, Chosen, Written, Loaded
<1>1. CASE Fails("runner") /\ UNCHANGED models
  BY <1>t, <1>0, <1>1, Failing DEF Typed
<1>2. ASSUME models' = [models EXCEPT ![TheEntry].count = @ + m.cohort.warmup * m.cohort.size],
             Goes("runner", "before"), UNCHANGED <<mine, bundles>>
      PROVE  IInv'
  <2>1. PICK count \in Int : models' = [models EXCEPT ![TheEntry].count = count]
    <3>1. m.cohort.warmup \in Int /\ m.cohort.size \in Int
      BY <1>t, <1>0, RequestsKnown DEF Declarations, ContractOK, m, Working, Chosen, Written, Loaded
    <3>2. m.cohort.warmup * m.cohort.size \in Int
      BY <3>1
    <3>3. models[TheEntry].count + m.cohort.warmup * m.cohort.size \in Int
      BY <1>t, <3>2, EntryKnown DEF Typed
    <3> QED
      BY <1>2, <3>3
  <2>2. /\ DOMAIN models' = Names
        /\ \A n \in Names : /\ DOMAIN models'[n] = {"state", "content", "config", "count"}
                            /\ models'[n].count \in Int
                            /\ models'[n].content = models[n].content
    BY <1>t, <2>1, CountsOne
  <2>3. DOMAIN pc' = Clients /\ pc'["runner"] = "before"
    BY <1>t, <1>2, GoesOne
  <2>4. Declarations' /\ Bundled' /\ m' = m
    BY <1>0, <1>2, <2>3, SameContract DEF Loaded, Written, Chosen, Working
  <2>5. Typed'
    BY <1>t, <1>0, <1>2, <2>2, <2>3 DEF Typed
  <2>6. Contents'
    BY <1>t, <1>0, <1>2, <2>2, <2>3, <2>4, EntryKnown DEF Contents, Digest, Counting, Loaded, Written, Chosen
  <2>7. Counts'
    BY <1>t, <1>0, <1>2, <2>3 DEF Counts, InWindow, Counting, Loaded, Written, Chosen
  <2> QED
    BY <2>4, <2>5, <2>6, <2>7 DEF IInv
<1> QED
  BY <1>0, <1>1, <1>2 DEF WarmsUp

\* The counters are read and the recorder started, at which the run's window opens.
LEMMA StatisticsKeeps ==
  ASSUME IInv, NEW c \in Clients, Statistics(c)
  PROVE  IInv'
<1>0. /\ NameOf(c) = TheEntry /\ pc[c] = "before" /\ UNCHANGED <<suite, at, models, repo>>
  BY Named DEF Statistics, Clients, diskVars, serverVars, Working, Chosen, Written, Loaded
<1>1. CASE Fails(c) /\ UNCHANGED window
  BY <1>0, <1>1, Failing DEF IInv, Typed
<1>2. ASSUME Holds(c, "before", models[TheEntry].count), Goes(c, "send"), UNCHANGED bundles,
             window' = IF c = "runner" THEN NoWindow ELSE window
      PROVE  IInv'
  <2>t. Typed
    BY DEF IInv
  <2>h. /\ DOMAIN mine' = Clients /\ \A d \in Clients : DOMAIN mine'[d] = Fields
        /\ mine'[c].before = models[TheEntry].count
        /\ \A d \in Clients : \A g \in Fields : d # c \/ g # "before" => mine'[d][g] = mine[d][g]
    BY <1>2, <2>t, HoldsOne DEF Fields
  <2>g. \A d \in Clients : /\ mine'[d].sent = mine[d].sent /\ mine'[d].failed = mine[d].failed
                           /\ mine'[d].delta = mine[d].delta /\ mine'[d].artifact = mine[d].artifact
                           /\ d # c => mine'[d].before = mine[d].before
    BY <2>h DEF Fields
  <2>p. /\ DOMAIN pc' = Clients
        /\ c = "runner" => pc'["runner"] = "send" /\ pc["runner"] = "before"
        /\ c # "runner" => pc'["runner"] = pc["runner"]
    BY <1>0, <1>2, <2>t, GoesOne DEF Clients
  <2>s. Declarations' /\ Bundled' /\ m' = m /\ RequestsOf("runner")' = RequestsOf("runner")
    BY <1>0, <1>2, <2>p, SameContract DEF Counting, Loaded, Written, Chosen, Working
  <2>e. models[TheEntry].count \in Int
    BY <2>t, EntryKnown DEF Typed
  <2>1. Typed'
    <3>1. \A d \in Clients : mine'[d].before \in Int
      BY <2>t, <2>h, <2>g, <2>e DEF Typed
    <3>2. /\ DOMAIN window' = {"stray", "reloaded", "served"}
          /\ window'.stray \in Nat /\ window'.reloaded \in BOOLEAN
      <4>1. CASE c = "runner"
        <5>1. window' = [stray |-> 0, reloaded |-> FALSE, served |-> {}]
          BY <1>2, <4>1 DEF NoWindow
        <5> QED
          BY <5>1
      <4>2. CASE c # "runner"
        BY <1>2, <2>t, <4>2 DEF Typed
      <4> QED
        BY <4>1, <4>2
    <3> QED
      BY <1>0, <1>2, <2>t, <2>h, <2>g, <2>p, <3>1, <3>2 DEF Typed
  <2>2. Contents'
    <3>c. Contents
      BY DEF IInv
    <3>1. Digest' = Digest
      BY <2>g DEF Digest, Clients
    <3>2. CASE c = "runner"
      <4>1. window'.served = {}
        BY <1>2, <3>2 DEF NoWindow
      <4> QED
        BY <1>0, <2>p, <2>s, <3>c, <3>1, <3>2, <4>1 DEF Contents, Counting, Loaded, Written, Chosen
    <3>3. CASE c # "runner"
      BY <1>0, <1>2, <2>p, <2>s, <3>c, <3>1, <3>3 DEF Contents
    <3> QED
      BY <3>2, <3>3
  <2>3. Counts'
    <3>c. Counts
      BY DEF IInv
    <3>2. CASE c = "runner"
      <4>1. window' = [stray |-> 0, reloaded |-> FALSE, served |-> {}]
        BY <1>2, <3>2 DEF NoWindow
      <4>2. mine'["runner"].sent = 0 /\ mine'["runner"].failed = 0
        BY <2>p, <2>g, <3>2, <3>c DEF Counts, Clients, Counting, Loaded, Written, Chosen
      <4>3. RequestsOf("runner") > 0
        BY <2>p, <3>2, RequestsKnown DEF Working, Chosen, Written, Loaded
      <4> QED
        BY <1>0, <2>h, <2>p, <2>s, <2>e, <3>2, <4>1, <4>2, <4>3
        DEF Counts, Counting, Loaded, Written, Chosen
    <3>3. CASE c # "runner"
      BY <1>0, <1>2, <2>p, <2>g, <2>s, <3>c, <3>3 DEF Counts, InWindow, Clients
    <3> QED
      BY <3>2, <3>3
  <2> QED
    BY <2>s, <2>1, <2>2, <2>3 DEF IInv
<1> QED
  BY <1>0, <1>1, <1>2 DEF Statistics

\* The runner's request is executed, and counted with its model's bytes, or it is
\* refused, and counted as failed.
LEMMA RunnerSubmits ==
  ASSUME IInv, Submit("runner")
  PROVE  IInv'
<1> DEFINE more == mine["runner"].sent + 1 < RequestsOf("runner")
           Executed == /\ models[TheEntry].state = "ready"
                       /\ models' = [models EXCEPT ![TheEntry].count = @ + 1]
                       /\ Holds("runner", "sent", mine["runner"].sent + 1)
                       /\ window' = [window EXCEPT !.served = @ \cup {models[TheEntry].content}]
           Refused == /\ mine' = [mine EXCEPT !["runner"].sent = @ + 1, !["runner"].failed = @ + 1]
                      /\ UNCHANGED <<models, window>>
<1>t. Typed /\ Contents /\ Counts /\ "runner" \in Clients
  BY DEF IInv, Clients
<1>0. /\ pc["runner"] = "send" /\ NameOf("runner") = TheEntry
      /\ Goes("runner", IF more THEN "send" ELSE "stop") /\ UNCHANGED <<suite, at, repo, bundles>>
      /\ Executed \/ Refused
  BY Named DEF Submit, Ready, diskVars, Working, Chosen, Written, Loaded, Counting
<1>p. DOMAIN pc' = Clients /\ pc'["runner"] = IF more THEN "send" ELSE "stop"
  BY <1>t, <1>0, GoesOne
<1>s. Declarations' /\ Bundled' /\ m' = m /\ RequestsOf("runner")' = RequestsOf("runner")
  <2>1. pc["runner"] \in Working /\ pc'["runner"] \in Working
    BY <1>0, <1>p DEF Counting, Loaded, Written, Chosen, Working
  <2> QED
    BY <1>0, <2>1, SameContract
<1>a. /\ mine["runner"].sent \in Nat /\ mine["runner"].failed \in Nat /\ mine["runner"].before \in Int
      /\ models[TheEntry].count \in Int /\ window.stray \in Nat
  BY <1>t, EntryKnown DEF Typed
<1>b. /\ mine["runner"].failed <= mine["runner"].sent /\ mine["runner"].sent < RequestsOf("runner")
      /\ RequestsOf("runner") \in Nat
  BY <1>t, <1>0, RequestsKnown DEF Counts, Counting, Loaded, Written, Chosen, Working
<1>h. /\ DOMAIN mine' = Clients /\ \A d \in Clients : DOMAIN mine'[d] = Fields
      /\ mine'["smoke"] = mine["smoke"]
      /\ mine'["runner"].sent = mine["runner"].sent + 1
      /\ mine'["runner"].failed = mine["runner"].failed + (IF Executed THEN 0 ELSE 1)
      /\ mine'["runner"].before = mine["runner"].before /\ mine'["runner"].delta = mine["runner"].delta
      /\ mine'["runner"].artifact = mine["runner"].artifact
  <2>1. CASE Executed
    <3>1. Holds("runner", "sent", mine["runner"].sent + 1)
      BY <2>1
    <3>2. /\ DOMAIN mine' = Clients /\ \A d \in Clients : DOMAIN mine'[d] = Fields
          /\ mine'["runner"].sent = mine["runner"].sent + 1
          /\ \A d \in Clients : \A g \in Fields : d # "runner" \/ g # "sent" => mine'[d][g] = mine[d][g]
      BY <1>t, <3>1, HoldsOne DEF Fields
    <3>3. mine'["smoke"] = mine["smoke"]
      BY <1>t, <3>1 DEF Typed, Holds, Clients
    <3>4. mine'["runner"].failed = mine["runner"].failed + 0
      BY <1>t, <1>a, <3>2 DEF Fields
    <3> QED
      BY <1>t, <2>1, <3>2, <3>3, <3>4 DEF Fields
  <2>2. CASE Refused /\ ~Executed
    <3> HIDE DEF Executed
    <3>1. mine' = [mine EXCEPT !["runner"] = [mine["runner"] EXCEPT !.sent = @ + 1, !.failed = @ + 1]]
      BY <1>t, <2>2 DEF Typed, Fields
    <3> QED
      BY <1>t, <2>2, <3>1 DEF Typed, Clients, Fields
  <2> QED
    BY <1>0, <2>1, <2>2
<1>m. /\ DOMAIN models' = Names
      /\ \A n \in Names : /\ DOMAIN models'[n] = {"state", "content", "config", "count"}
                          /\ models'[n].count \in Int
                          /\ models'[n].content = models[n].content
                          /\ models'[n].state = models[n].state
      /\ models'[TheEntry].count = models[TheEntry].count + (IF Executed THEN 1 ELSE 0)
  <2>1. CASE Executed
    <3>1. models' = [models EXCEPT ![TheEntry].count = models[TheEntry].count + 1]
      BY <2>1
    <3>2. models[TheEntry].count + 1 \in Int
      BY <1>a
    <3> HIDE DEF Executed
    <3> QED
      BY <1>t, <2>1, <3>1, <3>2, CountsOne
  <2>2. CASE Refused /\ ~Executed
    <3> HIDE DEF Executed
    <3> QED
      BY <1>t, <1>a, <2>2 DEF Typed
  <2> QED
    BY <1>0, <2>1, <2>2
<1>w. /\ DOMAIN window' = {"stray", "reloaded", "served"}
      /\ window'.stray = window.stray /\ window'.reloaded = window.reloaded
      /\ window'.served = window.served \cup (IF Executed THEN {models[TheEntry].content} ELSE {})
  <2>1. CASE Executed
    BY <1>t, <2>1 DEF Typed
  <2>2. CASE Refused /\ ~Executed
    <3> HIDE DEF Executed
    <3> QED
      BY <1>t, <2>2 DEF Typed
  <2> QED
    BY <1>0, <2>1, <2>2
<1>1. Typed'
  BY <1>t, <1>p, <1>a, <1>h, <1>m, <1>w, <1>0 DEF Typed, Clients
<1> HIDE DEF Executed, Refused
<1>2. Contents'
  <2>1. Digest' = Digest
    BY <1>h DEF Digest
  <2>2. models[TheEntry].content = Digest /\ models'[TheEntry].content = Digest
    BY <1>t, <1>0, <1>m, EntryKnown DEF Contents, Loaded, Counting
  <2>3. window'.served \subseteq {Digest}
    BY <1>t, <1>0, <1>w, <2>2 DEF Contents, Counting
  <2> QED
    BY <1>t, <1>0, <1>s, <1>p, <2>1, <2>2, <2>3 DEF Contents, Counting, Loaded, Written, Chosen
<1>3. Counts'
  <2>1. pc["runner"] \in Counting /\ pc'["runner"] \in Counting /\ pc'["runner"] # "judge" /\ InWindow
    BY <1>0, <1>p DEF Counting, InWindow
  <2>2. mine'["runner"].failed <= mine'["runner"].sent
    BY <1>a, <1>b, <1>h
  <2>3. window'.served = {} => mine'["runner"].sent = mine'["runner"].failed
    <3>1. window'.served = {} => ~Executed /\ window.served = {}
      BY <1>w
    <3> QED
      BY <1>t, <1>a, <1>h, <2>1, <3>1 DEF Counts
  <2>4. /\ pc'["runner"] = "send" => mine'["runner"].sent < RequestsOf("runner")
        /\ pc'["runner"] # "send" => mine'["runner"].sent = RequestsOf("runner")
    BY <1>a, <1>b, <1>h, <1>p
  <2>5. ~window'.reloaded /\ models'[TheEntry].state = "ready" =>
          models'[TheEntry].count = mine'["runner"].before + (mine'["runner"].sent - mine'["runner"].failed) + window'.stray
    BY <1>t, <1>a, <1>h, <1>m, <1>w, <2>1, EntryKnown DEF Counts
  <2> QED
    BY <1>s, <2>1, <2>2, <2>3, <2>4, <2>5 DEF Counts, Chosen, Written, Loaded
<1> QED
  BY <1>s, <1>1, <1>2, <1>3 DEF IInv

\* The smoke client's request is executed and counted on the runner's entry, or it
\* ends the smoke client.
LEMMA SmokeSubmits ==
  ASSUME IInv, Submit("smoke")
  PROVE  IInv'
<1>0. NameOf("smoke") = TheEntry /\ UNCHANGED <<suite, at, repo>> /\ "smoke" \in Clients
  BY Named DEF Submit, diskVars, Clients
<1>1. CASE Fails("smoke") /\ UNCHANGED <<window, models>>
  BY <1>0, <1>1, Failing DEF IInv, Typed
<1>2. ASSUME NEW there, Goes("smoke", there), UNCHANGED bundles,
             models' = [models EXCEPT ![TheEntry].count = @ + 1],
             Holds("smoke", "sent", mine["smoke"].sent + 1),
             window' = IF InWindow /\ TheEntry = NameOf("runner") THEN [window EXCEPT !.stray = @ + 1] ELSE window
      PROVE  IInv'
  <2>t. Typed /\ Contents /\ Counts
    BY DEF IInv
  <2>a. /\ mine["runner"].sent \in Nat /\ mine["runner"].failed \in Nat /\ mine["runner"].before \in Int
        /\ models[TheEntry].count \in Int /\ window.stray \in Nat /\ mine["smoke"].sent + 1 \in Nat
    BY <2>t, EntryKnown DEF Typed, Clients
  <2>p. DOMAIN pc' = Clients /\ pc'["runner"] = pc["runner"]
    BY <1>0, <1>2, <2>t, GoesOne DEF Clients
  <2>s. Declarations' /\ Bundled' /\ m' = m /\ RequestsOf("runner")' = RequestsOf("runner")
    BY <1>0, <1>2, <2>p, SameContract
  <2>h. /\ DOMAIN mine' = Clients /\ \A d \in Clients : DOMAIN mine'[d] = Fields
        /\ mine'["smoke"].sent = mine["smoke"].sent + 1
        /\ \A d \in Clients : \A g \in Fields : d # "smoke" \/ g # "sent" => mine'[d][g] = mine[d][g]
    BY <1>0, <1>2, <2>t, HoldsOne DEF Fields
  <2>g. \A d \in Clients : /\ mine'[d].failed = mine[d].failed /\ mine'[d].delta = mine[d].delta
                           /\ mine'[d].before = mine[d].before /\ mine'[d].artifact = mine[d].artifact
                           /\ d # "smoke" => mine'[d].sent = mine[d].sent
    BY <2>h DEF Fields
  <2>m. /\ DOMAIN models' = Names
        /\ \A n \in Names : /\ DOMAIN models'[n] = {"state", "content", "config", "count"}
                            /\ models'[n].count \in Int
                            /\ models'[n].content = models[n].content
                            /\ models'[n].state = models[n].state
        /\ models'[TheEntry].count = models[TheEntry].count + 1
    <3>1. models' = [models EXCEPT ![TheEntry].count = models[TheEntry].count + 1]
      BY <1>2
    <3>2. models[TheEntry].count + 1 \in Int
      BY <2>a
    <3> QED
      BY <2>t, <3>1, <3>2, CountsOne
  <2>w. /\ DOMAIN window' = {"stray", "reloaded", "served"}
        /\ window'.reloaded = window.reloaded /\ window'.served = window.served
        /\ window'.stray \in Nat
        /\ InWindow => window'.stray = window.stray + 1
        /\ ~InWindow => window'.stray = window.stray
    <3>1. InWindow => TheEntry = NameOf("runner")
      BY Named DEF InWindow, Working, Chosen, Written, Loaded, Counting
    <3>2. CASE InWindow
      <4>1. window' = [window EXCEPT !.stray = window.stray + 1]
        BY <1>2, <3>1, <3>2
      <4> QED
        BY <2>t, <2>a, <3>2, <4>1 DEF Typed
    <3>3. CASE ~InWindow
      BY <1>2, <2>t, <3>3 DEF Typed
    <3> QED
      BY <3>2, <3>3
  <2>1. Typed'
    <3>1. \A d \in Clients : mine'[d].sent \in Nat
      BY <2>t, <2>a, <2>h, <2>g DEF Typed
    <3> QED
      BY <1>2, <2>t, <2>p, <2>h, <2>g, <2>m, <2>w, <3>1 DEF Typed
  <2>2. Contents'
    <3>1. Digest' = Digest
      BY <2>g DEF Digest, Clients
    <3> QED
      BY <1>0, <2>t, <2>p, <2>s, <2>m, <2>w, <3>1, EntryKnown DEF Contents
  <2>3. Counts'
    <3>1. /\ mine'["runner"].sent = mine["runner"].sent /\ mine'["runner"].failed = mine["runner"].failed
          /\ mine'["runner"].before = mine["runner"].before /\ mine'["runner"].delta = mine["runner"].delta
      BY <2>g DEF Clients
    <3>2. InWindow' = InWindow /\ (pc["runner"] = "judge" => ~InWindow)
      BY <2>p DEF InWindow
    <3>3. InWindow /\ ~window'.reloaded /\ models'[TheEntry].state = "ready" =>
            models'[TheEntry].count =
              mine["runner"].before + (mine["runner"].sent - mine["runner"].failed) + window'.stray
      BY <2>t, <2>a, <2>m, <2>w, EntryKnown DEF Counts
    <3>4. pc["runner"] = "judge" => window'.stray = window.stray
      BY <2>w, <3>2
    <3> QED
      BY <2>t, <2>p, <2>s, <2>w, <3>1, <3>2, <3>3, <3>4 DEF Counts
  <2> QED
    BY <2>s, <2>1, <2>2, <2>3 DEF IInv
<1> QED
  BY <1>0, <1>1, <1>2 DEF Submit

\* The counters are read again: of an entry that was never loaded in between, they
\* tell what was executed in the window.
LEMMA StatisticsAfterKeeps ==
  ASSUME IInv, NEW c \in Clients, StatisticsAfter(c)
  PROVE  IInv'
<1>0. /\ NameOf(c) = TheEntry /\ pc[c] = "after" /\ UNCHANGED <<suite, at, models, repo, window>>
  BY Named DEF StatisticsAfter, Clients, diskVars, serverVars, Working, Chosen, Written, Loaded, Counting
<1>1. CASE Fails(c)
  BY <1>0, <1>1, Failing DEF IInv, Typed
<1>2. ASSUME models[TheEntry].state = "ready", UNCHANGED bundles, Goes(c, "judge"),
             Holds(c, "delta", Delta(mine[c].before, models[TheEntry].count))
      PROVE  IInv'
  <2>t. Typed /\ Contents /\ Counts
    BY DEF IInv
  <2>a. /\ mine[c].before \in Int /\ models[TheEntry].count \in Int /\ window.stray \in Nat
        /\ mine["runner"].sent \in Nat /\ mine["runner"].failed \in Nat
    BY <2>t, EntryKnown DEF Typed, Clients
  <2>p. /\ DOMAIN pc' = Clients
        /\ c = "runner" => pc'["runner"] = "judge" /\ pc["runner"] = "after"
        /\ c # "runner" => pc'["runner"] = pc["runner"]
    BY <1>0, <1>2, <2>t, GoesOne DEF Clients
  <2>s. Declarations' /\ Bundled' /\ m' = m /\ RequestsOf("runner")' = RequestsOf("runner")
    BY <1>0, <1>2, <2>p, SameContract DEF Counting, Loaded, Written, Chosen, Working
  <2>h. /\ DOMAIN mine' = Clients /\ \A d \in Clients : DOMAIN mine'[d] = Fields
        /\ mine'[c].delta = models[TheEntry].count - mine[c].before
        /\ \A d \in Clients : \A g \in Fields : d # c \/ g # "delta" => mine'[d][g] = mine[d][g]
    BY <1>2, <2>t, HoldsOne DEF Fields, Delta
  <2>g. \A d \in Clients : /\ mine'[d].sent = mine[d].sent /\ mine'[d].failed = mine[d].failed
                           /\ mine'[d].before = mine[d].before /\ mine'[d].artifact = mine[d].artifact
                           /\ d # c => mine'[d].delta = mine[d].delta
    BY <2>h DEF Fields
  <2>1. Typed'
    <3>1. \A d \in Clients : mine'[d].delta \in Int
      BY <2>t, <2>a, <2>h, <2>g DEF Typed
    <3> QED
      BY <1>0, <1>2, <2>t, <2>h, <2>g, <2>p, <3>1 DEF Typed
  <2>2. Contents'
    <3>1. Digest' = Digest
      BY <2>g DEF Digest, Clients
    <3> QED
      BY <1>0, <2>t, <2>p, <2>s, <3>1 DEF Contents, Counting, Loaded, Written, Chosen
  <2>3. Counts'
    <3>1. CASE c = "runner"
      <4>1. ~window.reloaded =>
              mine'["runner"].delta = (mine["runner"].sent - mine["runner"].failed) + window.stray
        BY <1>2, <2>t, <2>a, <2>h, <2>p, <3>1 DEF Counts, InWindow
      <4>2. ~InWindow' /\ pc'["runner"] \in Counting /\ pc["runner"] \in Counting
        BY <2>p, <3>1 DEF InWindow, Counting
      <4> QED
        BY <1>0, <2>t, <2>p, <2>g, <2>s, <3>1, <4>1, <4>2 DEF Counts, Clients, Chosen, Written, Loaded
    <3>2. CASE c # "runner"
      BY <1>0, <2>t, <2>p, <2>g, <2>s, <3>2 DEF Counts, InWindow, Clients
    <3> QED
      BY <3>1, <3>2
  <2> QED
    BY <2>s, <2>1, <2>2, <2>3 DEF IInv
<1> QED
  BY <1>0, <1>1, <1>2 DEF StatisticsAfter, Ready

\* A bundle says "completed" only of a run in which every request was answered and
\* the counters agree; the suite goes on only past such a run.
LEMMA JudgesContractKeeps ==
  ASSUME IInv, JudgesContract
  PROVE  IInv'
<1> DEFINE passed == /\ mine["runner"].failed = 0
                     /\ checkContamination(ExpectationOf(m, mine["runner"].delta)) = {}
<1>t. Typed /\ Declarations /\ Contents /\ Counts /\ Bundled
  BY DEF IInv
<1>1. PICK b : b = NewBundle(IF passed THEN "completed" ELSE "failed")
  OBVIOUS
<1>2. /\ pc["runner"] = "judge"
      /\ bundles' = [bundles EXCEPT ![at] = b]
      /\ at' = IF passed /\ at < Len(suite.contracts) THEN at + 1 ELSE at
      /\ Goes("runner", IF ~passed THEN "failed" ELSE IF at < Len(suite.contracts) THEN "prepare" ELSE "compare")
      /\ window' = NoWindow
      /\ mine' = [mine EXCEPT !["runner"] = Nothing]
      /\ UNCHANGED <<suite, models>>
  BY <1>1 DEF JudgesContract, serverVars
<1>3. pc["runner"] \in Counting /\ pc["runner"] \in Loaded /\ pc["runner"] \in Written /\ pc["runner"] \in Chosen
      /\ pc["runner"] \in Working
  BY <1>2 DEF Counting, Loaded, Written, Chosen, Working
<1>4. /\ at \in 1 .. 3 /\ at \in DOMAIN suite.contracts /\ at \in DOMAIN bundles
      /\ Len(suite.contracts) \in 0 .. 3 /\ DOMAIN suite.contracts = 1 .. Len(suite.contracts)
      /\ DOMAIN suite.contracts \subseteq 1 .. 3
  BY <1>2, AtKnown
<1>5. passed => mine["runner"].delta = RequestsOf("runner") /\ mine["runner"].failed = 0
  BY DEF checkContamination, ExpectationOf, When, RequestsOf
<1>6. /\ b.state = IF passed THEN "completed" ELSE "failed"
      /\ b.window = window
      /\ b.entry.digest = Digest
      /\ b.adapter # NoAdapter => b.adapter.downstream = m.transport.maxMessageBytes
  BY <1>1 DEF NewBundle, Entry, Digest, AdapterRecord
<1> HIDE DEF passed
<1>7. passed => /\ window.served = {Digest}
                /\ window.reloaded \/ window.stray = 0
  <2> SUFFICES ASSUME passed PROVE window.served = {Digest} /\ (window.reloaded \/ window.stray = 0)
    OBVIOUS
  <2>1. RequestsOf("runner") \in Nat /\ RequestsOf("runner") > 0
    BY <1>3, RequestsKnown
  <2>2. /\ mine["runner"].sent \in Nat /\ window.stray \in Nat
        /\ mine["runner"].sent = RequestsOf("runner") /\ mine["runner"].failed = 0
        /\ mine["runner"].delta = RequestsOf("runner")
    BY <1>t, <1>2, <1>3, <1>5 DEF Typed, Clients, Counts
  <2>3. window.served # {} /\ window.served \subseteq {Digest}
    BY <1>t, <1>3, <2>1, <2>2 DEF Counts, Contents
  <2>4. window.reloaded \/ RequestsOf("runner") = (RequestsOf("runner") - 0) + window.stray
    BY <1>t, <1>2, <2>2 DEF Counts
  <2> QED
    BY <2>1, <2>2, <2>3, <2>4
<1>8. /\ DOMAIN bundles' = 1 .. 3
      /\ bundles'[at] = b
      /\ \A i \in 1 .. 3 : i # at => bundles'[i] = bundles[i]
  BY <1>t, <1>2, <1>4 DEF Typed
<1>9. \A i \in DOMAIN suite.contracts : BundleOK(i)'
  <2> SUFFICES ASSUME NEW i \in DOMAIN suite.contracts PROVE BundleOK(i)'
    OBVIOUS
  <2>1. CASE i = at
    <3>1. m.model.digest \in {None, Digest}
      BY <1>t, <1>3 DEF Contents
    <3> QED
      BY <1>2, <1>6, <1>7, <1>8, <2>1, <3>1 DEF BundleOK, m
  <2>2. CASE i # at
    <3>0. i \in 1 .. 3
      BY <1>4
    <3>1. bundles'[i] = bundles[i]
      BY <1>8, <2>2, <3>0
    <3> QED
      BY <1>t, <1>2, <3>1 DEF Bundled, BundleOK
  <2> QED
    BY <2>1, <2>2
<1>10. /\ DOMAIN pc' = Clients
       /\ pc'["runner"] = IF ~passed THEN "failed" ELSE IF at < Len(suite.contracts) THEN "prepare" ELSE "compare"
  BY <1>t, <1>2, GoesOne DEF Clients
<1>11. Typed'
  <2>1. DOMAIN mine' = Clients /\ mine'["runner"] = Nothing /\ mine'["smoke"] = mine["smoke"]
    BY <1>t, <1>2 DEF Typed, Clients
  <2> QED
    BY <1>t, <1>2, <1>8, <1>10, <2>1 DEF Typed, Clients, Nothing, NoWindow, Fields
<1>12. Declarations'
  <2>1. at' \in DOMAIN suite.contracts
    BY <1>2, <1>4
  <2> QED
    BY <1>t, <1>2, <2>1 DEF Declarations
<1>13. Contents'
  BY <1>10 DEF Contents, Counting, Loaded, Written, Chosen
<1>14. Counts'
  BY <1>10 DEF Counts, InWindow, Counting, Loaded, Written, Chosen
<1>15. Bundled'
  <2>1. passed => \A i \in 1 .. at : Completed(i)'
    <3> SUFFICES ASSUME passed, NEW i \in 1 .. at PROVE Completed(i)'
      OBVIOUS
    <3>1. CASE i = at
      BY <1>6, <1>8, <3>1 DEF Completed
    <3>2. CASE i # at
      <4>1. i \in 1 .. at - 1 /\ i \in 1 .. 3
        BY <1>4, <3>2
      <4> QED
        BY <1>t, <1>3, <1>8, <3>2, <4>1 DEF Bundled, Completed
    <3> QED
      BY <3>1, <3>2
  <2>2. pc'["runner"] \in Working => passed /\ at' = at + 1
    BY <1>2, <1>10 DEF Counting, Loaded, Written, Chosen, Working
  <2>3. pc'["runner"] \in Working => \A i \in 1 .. at' - 1 : Completed(i)'
    BY <1>4, <2>1, <2>2
  <2>4. pc'["runner"] = "compare" => passed /\ at = Len(suite.contracts)
    BY <1>4, <1>10
  <2>5. pc'["runner"] \in {"compare", "green", "unequal"} => \A i \in DOMAIN suite.contracts : Completed(i)'
    BY <1>4, <1>10, <2>1, <2>4
  <2> QED
    BY <1>2, <1>9, <1>10, <2>3, <2>5 DEF Bundled
<1> QED
  BY <1>11, <1>12, <1>13, <1>14, <1>15 DEF IInv

\* A suite that is called green had its pairs compared.
LEMMA ComparesCellsKeeps ==
  ASSUME IInv, ComparesCells
  PROVE  IInv'
<1>t. Typed /\ Declarations /\ Bundled
  BY DEF IInv
<1>0. /\ pc["runner"] = "compare" /\ UNCHANGED <<suite, at, mine, repo, models, bundles, window>>
      /\ DOMAIN pc' = Clients /\ pc'["runner"] \in {"green", "unequal"}
      /\ pc'["runner"] = "green" =>
           \A p \in suite.pairs : SameImplementation(bundles[bundleForCell(suite.contracts, p.a)],
                                                     bundles[bundleForCell(suite.contracts, p.b)], NoAdapter)
  BY <1>t, GoesOne DEF ComparesCells, Clients, diskVars, serverVars
<1>1. Typed'
  BY <1>t, <1>0 DEF Typed
<1>2. Declarations'
  BY <1>t, <1>0 DEF Declarations
<1>3. Contents'
  BY <1>0 DEF Contents, Counting, Loaded, Written, Chosen
<1>4. Counts'
  BY <1>0 DEF Counts, InWindow, Counting, Loaded, Written, Chosen
<1>5. Bundled'
  BY <1>t, <1>0 DEF Bundled, BundleOK, Completed, Counting, Loaded, Written, Chosen, Working
<1> QED
  BY <1>1, <1>2, <1>3, <1>4, <1>5 DEF IInv

\* What happens beside the runner: the smoke client starts and judges, the operator
\* builds a repository, the artifact is regenerated, the clock is stepped, and the
\* server dies, starts, fails a load and tears models down.
LEMMA OthersKeep ==
  ASSUME IInv,
         \/ SmokeStarts \/ SmokeJudges \/ OperatorMaterializes \/ Regenerates \/ Catalogues \/ ClockSteps
         \/ ServerDies \/ ServerStarts \/ TearsDown \/ \E c \in Clients : LoadFails(c)
  PROVE  IInv'
<1>t. Typed
  BY DEF IInv
<1> DEFINE Tamer == /\ DOMAIN models' = Names
                    /\ \A n \in Names : /\ DOMAIN models'[n] = {"state", "content", "config", "count"}
                                        /\ models'[n].content = models[n].content
                                        /\ models'[n].count \in Int
                                        /\ models'[n].state = "ready" =>
                                             models[n].state = "ready" /\ models'[n].count = models[n].count
<1>0. UNCHANGED models => Tamer
  BY <1>t DEF Typed
<1>1. ASSUME Tamer, UNCHANGED <<suite, at, window, bundles, mine>>, pc'["runner"] \in Written => UNCHANGED repo,
             DOMAIN pc' = Clients, pc'["runner"] = pc["runner"]
      PROVE  IInv'
  <2>1. Typed'
    BY <1>t, <1>1 DEF Typed
  <2> QED
    BY <1>1, <2>1, Onward, EntryKnown
<1>2. CASE SmokeStarts \/ SmokeJudges
  <2>1. UNCHANGED <<suite, at, window, bundles, mine, models, repo>> /\ \E there : Goes("smoke", there)
    BY <1>2 DEF SmokeStarts, SmokeJudges, diskVars, serverVars
  <2>2. DOMAIN pc' = Clients /\ pc'["runner"] = pc["runner"]
    BY <1>t, <2>1, GoesOne DEF Clients
  <2> QED
    BY <1>0, <1>1, <2>1, <2>2
<1>3. CASE OperatorMaterializes
  <2>1. pc["runner"] = "start"
    BY <1>3 DEF OperatorMaterializes, Clients
  <2> QED
    BY <1>t, <1>0, <1>1, <1>3, <2>1 DEF OperatorMaterializes, serverVars, Typed, Written, Loaded, Counting
<1>4. CASE Regenerates \/ Catalogues \/ ClockSteps \/ ServerStarts
  <2>1. UNCHANGED <<suite, at, window, bundles, mine, models, repo, pc>>
    BY <1>4 DEF Regenerates, Catalogues, ClockSteps, ServerStarts, Interferes, diskVars, serverVars
  <2> QED
    BY <1>t, <1>0, <1>1, <2>1 DEF Typed
<1>5. CASE ServerDies
  <2>0. models' = [n \in Names |-> [models[n] EXCEPT !.state = "gone", !.count = 0]]
    BY <1>5 DEF ServerDies
  <2>1. Tamer
    <3>1. \A n \in Names : /\ DOMAIN models'[n] = {"state", "content", "config", "count"}
                           /\ models'[n].state = "gone" /\ models'[n].count = 0
                           /\ models'[n].content = models[n].content
      BY <1>t, <2>0 DEF Typed
    <3>2. DOMAIN models' = Names
      BY <2>0
    <3> QED
      BY <3>1, <3>2
  <2> QED
    BY <1>t, <1>1, <1>5, <2>1 DEF ServerDies, Interferes, Typed
<1>6. CASE TearsDown
  <2>1. Tamer
    BY <1>t, <1>6 DEF TearsDown, Typed
  <2> QED
    BY <1>t, <1>1, <1>6, <2>1 DEF TearsDown, diskVars, Typed
<1>7. ASSUME NEW c \in Clients, LoadFails(c)
      PROVE  IInv'
  <2>1. Fails(c) /\ pc[c] = "load" /\ UNCHANGED <<suite, at, window, repo>>
    BY <1>7 DEF LoadFails, Interferes, Fails, Opened
  <2>2. /\ DOMAIN models' = Names
        /\ \A n \in Names : /\ DOMAIN models'[n] = {"state", "content", "config", "count"}
                            /\ models'[n].content = models[n].content
                            /\ models'[n].count = models[n].count
                            /\ models'[n].state = "ready" => models[n].state = "ready"
    BY <1>t, <1>7 DEF LoadFails, Typed
  <2> QED
    BY <2>1, <2>2, Failing
<1> QED
  BY <1>2, <1>3, <1>4, <1>5, <1>6, <1>7

-----------------------------------------------------------------------------

\* A manifest whose counts are numbers and whose digest is one there is, and stays so
\* when another field is edited.
Countable(x) ==
  /\ ContractOK(x)
  /\ {"cohort", "model"} \subseteq DOMAIN x
  /\ {"count", "warmup"} \subseteq DOMAIN x.cohort /\ {"artifact", "digest"} \subseteq DOMAIN x.model

\* The manifest of a cell declares numbers.
LEMMA ManifestCountable ==
  ASSUME NEW run, NEW cell, NEW size, NEW count \in Int, NEW warmup \in Int,
         NEW digest \in {None, Original, Regenerated}
  PROVE  Countable(Manifest(run, cell, size, count, warmup, "graph", digest))
<1>1. PICK x : x = Manifest(run, cell, size, count, warmup, "graph", digest)
  OBVIOUS
<1>2. /\ x.cohort = [size |-> size, count |-> count, warmup |-> warmup,
                     deadline |-> IF AggregatesEnvelopes(cell) THEN 5 ELSE 0]
      /\ x.model = [artifact |-> "graph", entry |-> "unbatched", digest |-> digest]
      /\ {"cohort", "model"} \subseteq DOMAIN x
  BY <1>1 DEF Manifest
<1> QED
  BY <1>1, <1>2 DEF Countable, ContractOK

\* An edited manifest declares numbers where the original did.
LEMMA EditsCountable ==
  ASSUME NEW x, Countable(x), NEW e \in Edits(x)
  PROVE  Countable(e)
  BY DEF Edits, Countable, ContractOK

\* Every suite that is started holds at most three contracts, all countable.
LEMMA SuitesCountable ==
  ASSUME NEW s \in Edited \cup Misdeclared \cup {TwoSizes} \cup Declared
  PROVE  /\ DOMAIN s.contracts \in {1 .. k : k \in 0 .. 3} /\ DOMAIN s.contracts = 1 .. Len(s.contracts)
         /\ \A i \in DOMAIN s.contracts : ContractOK(s.contracts[i])
<1> DEFINE Good(contracts) == /\ DOMAIN contracts \in {1 .. k : k \in 0 .. 3}
                              /\ DOMAIN contracts = 1 .. Len(contracts)
                              /\ \A i \in DOMAIN contracts : Countable(contracts[i])
<1>1. ASSUME NEW a, Countable(a) PROVE Good(<<a>>)
  <2>1. DOMAIN <<a>> = 1 .. 1 /\ Len(<<a>>) = 1
    OBVIOUS
  <2> QED
    BY <1>1, <2>1
<1>2. ASSUME NEW a, Countable(a), NEW b, Countable(b) PROVE Good(<<a, b>>)
  <2>1. DOMAIN <<a, b>> = 1 .. 2 /\ Len(<<a, b>>) = 2
    OBVIOUS
  <2> QED
    BY <1>2, <2>1
<1>3. ASSUME NEW a, Countable(a), NEW b, Countable(b), NEW c, Countable(c) PROVE Good(<<a, b, c>>)
  <2>1. DOMAIN <<a, b, c>> = 1 .. 3 /\ Len(<<a, b, c>>) = 3
    OBVIOUS
  <2> QED
    BY <1>3, <2>1
<1>4. Good(<<>>)
  <2>1. DOMAIN <<>> = 1 .. 0 /\ Len(<<>>) = 0
    OBVIOUS
  <2> QED
    BY <2>1
<1>5. \A run, cell : \A digest \in {None, Original, Regenerated} : Countable(Contract(run, cell, digest))
  BY ManifestCountable DEF Contract
<1> HIDE DEF Good
<1>6. CASE s \in Edited
  <2>1. PICK e \in UNION {Edits(d) : d \in UNION {Edits(Manifest("r1", cell, 2, 1, 1, "graph", None)) : cell \in AllCells}} :
          s = Suite(<<e>>, {})
    BY <1>6 DEF Edited
  <2>2. PICK d \in UNION {Edits(Manifest("r1", cell, 2, 1, 1, "graph", None)) : cell \in AllCells} : e \in Edits(d)
    BY <2>1
  <2>3. PICK cell \in AllCells : d \in Edits(Manifest("r1", cell, 2, 1, 1, "graph", None))
    BY <2>2
  <2>4. Countable(e)
    BY <2>2, <2>3, ManifestCountable, EditsCountable
  <2>5. Good(s.contracts)
    BY <1>1, <2>1, <2>4 DEF Suite
  <2> QED
    BY <2>5 DEF Good, Countable
<1>7. CASE s \in Misdeclared
  <2>1. PICK x, y : Countable(x) /\ Countable(y) /\ s.contracts \in {<<>>, <<x>>, <<x, y>>}
    <3>1. \E cell : s.contracts \in {<<>>, <<Contract("r1", "F00", None)>>,
                                     <<Contract("r1", "F00", None), Contract("r1", cell, None)>>}
      BY <1>7 DEF Misdeclared, Suite
    <3> QED
      BY <1>5, <3>1
  <2>2. Good(s.contracts)
    BY <1>1, <1>2, <1>4, <2>1
  <2> QED
    BY <2>2 DEF Good, Countable
<1>8. CASE s = TwoSizes
  <2>1. PICK x : x = Contract("r3", "F10", None)
    OBVIOUS
  <2>2. Countable(x) /\ Countable([x EXCEPT !.transport.maxMessageBytes = 2])
    BY <1>5, <2>1 DEF Countable, ContractOK
  <2>3. Good(s.contracts)
    BY <1>3, <1>5, <1>8, <2>1, <2>2 DEF TwoSizes, Suite
  <2> QED
    BY <2>3 DEF Good, Countable
<1>9. CASE s \in Declared
  <2>1. PICK d \in {None, Original} : s.contracts = <<Contract("r1", "F00", d), Contract("r2", "F10", d)>>
    BY <1>9 DEF Declared, Suite
  <2>2. Good(s.contracts)
    BY <1>2, <1>5, <2>1
  <2> QED
    BY <2>2 DEF Good, Countable
<1> QED
  BY <1>6, <1>7, <1>8, <1>9

\* Whatever suite is started and whatever earlier sessions left.
LEMMA InitInv ==
  ASSUME Init
  PROVE  IInv
<1>0. /\ DOMAIN pc = Clients /\ pc["runner"] = "start"
      /\ suite \in Edited \cup Misdeclared \cup {TwoSizes} \cup Declared
  BY DEF Init, Clients
<1>1. Typed
  <2>1. DOMAIN models = Names /\ \A n \in Names : /\ DOMAIN models[n] = {"state", "content", "config", "count"}
                                                  /\ models[n].count \in Int
    <3>1. DOMAIN Unloaded = {"state", "content", "config", "count"} /\ Unloaded.count = 0
      BY DEF Unloaded
    <3>2. \A state : LET u == [Unloaded EXCEPT !.state = state, !.count = 1]
                    IN DOMAIN u = {"state", "content", "config", "count"} /\ u.count \in Int
      BY <3>1
    <3>3. \/ models = [n \in Names |-> Unloaded]
          \/ \E left : models = [n \in Names |-> IF n[2] = "dynamic" THEN Unloaded
                                                 ELSE [Unloaded EXCEPT !.state = left[n[1]], !.count = 1]]
      BY DEF Init
    <3>4. CASE models = [n \in Names |-> Unloaded]
      BY <3>1, <3>4
    <3>5. ASSUME NEW left,
                 models = [n \in Names |-> IF n[2] = "dynamic" THEN Unloaded
                                           ELSE [Unloaded EXCEPT !.state = left[n[1]], !.count = 1]]
          PROVE  /\ DOMAIN models = Names
                 /\ \A n \in Names : DOMAIN models[n] = {"state", "content", "config", "count"} /\ models[n].count \in Int
      <4>1. \A n \in Names : models[n] = Unloaded \/ models[n] = [Unloaded EXCEPT !.state = left[n[1]], !.count = 1]
        BY <3>5
      <4>2. \A n \in Names : DOMAIN models[n] = {"state", "content", "config", "count"} /\ models[n].count \in Int
        <5> SUFFICES ASSUME NEW n \in Names
                     PROVE  DOMAIN models[n] = {"state", "content", "config", "count"} /\ models[n].count \in Int
          OBVIOUS
        <5>1. PICK state : state = left[n[1]]
          OBVIOUS
        <5>2. models[n] = Unloaded \/ models[n] = [Unloaded EXCEPT !.state = state, !.count = 1]
          BY <4>1, <5>1
        <5>3. CASE models[n] = Unloaded
          BY <3>1, <5>3
        <5>4. CASE models[n] = [Unloaded EXCEPT !.state = state, !.count = 1]
          BY <3>2, <5>4
        <5> QED
          BY <5>2, <5>3, <5>4
      <4> QED
        BY <3>5, <4>2
    <3> QED
      BY <3>3, <3>4, <3>5
  <2>2. mine = [c \in Clients |-> Nothing] /\ window = NoWindow /\ bundles = [i \in 1 .. 3 |-> NoBundle]
    BY DEF Init
  <2> QED
    BY <1>0, <2>1, <2>2 DEF Typed, Nothing, NoWindow, Fields
<1>2. Declarations
  BY <1>0, SuitesCountable DEF Declarations
<1>3. Contents
  BY <1>0 DEF Contents, Counting, Loaded, Written, Chosen
<1>4. Counts
  BY <1>0 DEF Counts, InWindow, Counting, Loaded, Written, Chosen
<1>5. Bundled
  <2>1. \A i \in 1 .. 3 : bundles[i].state = None
    BY DEF Init, NoBundle
  <2>2. DOMAIN suite.contracts \subseteq 1 .. 3
    BY <1>2 DEF Declarations
  <2>3. None # "completed"
    BY PreparationAssumption
  <2> QED
    BY <1>0, <2>1, <2>2, <2>3 DEF Bundled, BundleOK, Counting, Loaded, Written, Chosen, Working
<1> QED
  BY <1>1, <1>2, <1>3, <1>4, <1>5 DEF IInv

-----------------------------------------------------------------------------

\* Every step keeps the invariant.
LEMMA NextInv ==
  ASSUME IInv, [Next]_vars
  PROVE  IInv'
<1>1. CASE LoadsSuite \/ Prepares \/ materializeEntry \/ WarmsUp \/ JudgesContract \/ ComparesCells
  BY <1>1, LoadsSuiteKeeps, PreparesKeeps, materializeEntryKeeps, WarmsUpKeeps, JudgesContractKeeps,
     ComparesCellsKeeps
<1>2. CASE VerifiesArtifact \/ ReadsArtifact \/ clearDir \/ startServices \/ StopsRecorder
  BY <1>2, RunnerGoesOn
<1>3. ASSUME NEW c \in Clients, prepareServer(c)
      PROVE  IInv'
  BY <1>3, EmptiesServer, LoadModelKeeps, ModelIdentityKeeps DEF prepareServer
<1>4. ASSUME NEW c \in Clients, Measures(c)
      PROVE  IInv'
  BY <1>4, StatisticsKeeps, RunnerSubmits, SmokeSubmits, StatisticsAfterKeeps DEF Measures, Clients
<1>5. CASE \/ SmokeStarts \/ SmokeJudges \/ OperatorMaterializes \/ Regenerates \/ Catalogues \/ ClockSteps
           \/ ServerDies \/ ServerStarts \/ TearsDown \/ \E c \in Clients : LoadFails(c)
  BY <1>5, OthersKeep
<1>6. CASE UNCHANGED vars
  <2>1. UNCHANGED <<suite, at, pc, mine, repo, models, bundles, window>>
    BY <1>6 DEF vars, diskVars, serverVars
  <2>2. Typed'
    BY <2>1 DEF IInv, Typed
  <2> QED
    BY <2>1, <2>2, Onward
<1> QED
  BY <1>1, <1>2, <1>3, <1>4, <1>5, <1>6 DEF Next, Runner, Smoke, Server, prepareModel, Clients

\* The inductive invariant of the acceptance suite.
THEOREM Invariant == Spec => []IInv
<1>1. Init => IInv
  BY InitInv
<1>2. IInv /\ [Next]_vars => IInv'
  BY NextInv
<1> QED
  BY <1>1, <1>2, PTL DEF Spec

\* A completed run executed the bytes its bundle names, and they are those its
\* manifest asks for, however often the artifact was regenerated, the server
\* restarted and the entry loaded meanwhile.
THEOREM MeasuresItsModel == Spec => []MeasuresWhatItsManifestNames
<1>1. IInv => MeasuresWhatItsManifestNames
  BY DEF IInv, Bundled, BundleOK, MeasuresWhatItsManifestNames, Contracts, Completed
<1> QED
  BY <1>1, Invariant, PTL

\* A run the server's counters vouch for had the entry to itself, unless the entry
\* was loaded again between the two readings.
THEOREM CountsVouch == Spec => []CountsVouchForTheRun
<1>1. IInv => CountsVouchForTheRun
  BY DEF IInv, Bundled, BundleOK, CountsVouchForTheRun, Contracts, Completed
<1> QED
  BY <1>1, Invariant, PTL

\* Two bundles that are compared as one implementation name the same bytes, and
\* adapters that dialled with the same limit.
LEMMA SameMeans ==
  ASSUME NEW a, NEW b, SameImplementation(a, b, NoAdapter)
  PROVE  /\ a.entry.digest = b.entry.digest
         /\ a.adapter # NoAdapter /\ b.adapter # NoAdapter /\ a.adapter.downstream = b.adapter.downstream
<1>1. \A p \in DOMAIN ImplementationOf(a) : ImplementationOf(a)[p] = ImplementationOf(b)[p]
  BY DEF SameImplementation, diffImplementations
<1>2. {"artifactDigest", "downstream"} \subseteq DOMAIN ImplementationOf(a)
  BY DEF ImplementationOf
<1>3. \A x : ImplementationOf(x)["artifactDigest"] = x.entry.digest /\ ImplementationOf(x)["downstream"] = x.adapter.downstream
  BY DEF ImplementationOf
<1> QED
  BY <1>1, <1>2, <1>3 DEF SameImplementation

\* The contract whose bundle is compared is one of the suite's.
LEMMA BundleFound ==
  ASSUME Declarations, LoadSuite(suite), NEW cell \in CellsOf(suite.contracts)
  PROVE  bundleForCell(suite.contracts, cell) \in DOMAIN suite.contracts
<1> DEFINE First(i) == /\ suite.contracts[i].cell = cell
                       /\ \A j \in 1 .. i - 1 : suite.contracts[j].cell # cell
<1>1. PICK k \in 0 .. 3 : DOMAIN suite.contracts = 1 .. k
  BY DEF Declarations
<1>2. PICK x \in 1 .. k : suite.contracts[x].cell = cell
  BY <1>1 DEF CellsOf
<1>3. \E i \in 1 .. k : First(i)
  <2>1. k \in {1, 2, 3} /\ x \in {1, 2, 3} /\ x <= k
    BY <1>2
  <2>2. First(1) \/ First(2) \/ First(3)
    BY <1>2, <2>1
  <2>3. \A i \in {1, 2, 3} : First(i) => i <= x
    BY <1>2, <2>1
  <2>4. \A i \in {1, 2, 3} : i <= x => i \in 1 .. k
    BY <1>2, <2>1
  <2> QED
    BY <2>2, <2>3, <2>4
<1> QED
  BY <1>1, <1>3 DEF bundleForCell

\* A green suite ran every contract, and the cells of a pair were served by the same
\* bytes through adapters with the same limit.
THEOREM GreenSuite == Spec => []GreenMeansOneModel
<1>1. ASSUME IInv PROVE GreenMeansOneModel
  <2> SUFFICES ASSUME pc["runner"] = "green"
               PROVE  /\ \A i \in Contracts : Completed(i)
                      /\ \A p \in suite.pairs :
                           LET i == bundleForCell(suite.contracts, p.a)
                               j == bundleForCell(suite.contracts, p.b)
                           IN /\ bundles[i].window.served = bundles[j].window.served
                              /\ suite.contracts[i].transport.maxMessageBytes = suite.contracts[j].transport.maxMessageBytes
    BY DEF GreenMeansOneModel
  <2>1. \A i \in DOMAIN suite.contracts : BundleOK(i) /\ bundles[i].state = "completed"
    BY <1>1 DEF IInv, Bundled, Completed
  <2>2. Declarations /\ LoadSuite(suite)
    BY <1>1 DEF IInv, Declarations
  <2>3. ASSUME NEW p \in suite.pairs, NEW i, i = bundleForCell(suite.contracts, p.a),
               NEW j, j = bundleForCell(suite.contracts, p.b)
        PROVE  /\ bundles[i].window.served = bundles[j].window.served
               /\ suite.contracts[i].transport.maxMessageBytes = suite.contracts[j].transport.maxMessageBytes
    <3>1. i \in DOMAIN suite.contracts /\ j \in DOMAIN suite.contracts
      BY <2>2, <2>3, BundleFound DEF LoadSuite
    <3>2. SameImplementation(bundles[i], bundles[j], NoAdapter)
      BY <1>1, <2>3 DEF IInv, Bundled
    <3>3. /\ bundles[i].entry.digest = bundles[j].entry.digest
          /\ bundles[i].adapter # NoAdapter /\ bundles[j].adapter # NoAdapter
          /\ bundles[i].adapter.downstream = bundles[j].adapter.downstream
      BY <3>2, SameMeans
    <3> QED
      BY <2>1, <3>1, <3>3 DEF BundleOK
  <2> QED
    BY <2>1, <2>3 DEF Contracts, Completed
<1> QED
  BY <1>1, Invariant, PTL

-----------------------------------------------------------------------------
(* A suite nobody interferes with.                                         *)

\* The configuration of that entry.
TheConfig == renderConfig(Graph, "unbatched", 0)

\* Where the runner holds the identity of what is served.
Past == {"services", "warm", "before"} \cup Counting

\* Nobody interfered, and what is declared can be run.
Undisturbed ==
  /\ ~meddled /\ catalog = Catalog(Graph)
  /\ \A i \in DOMAIN suite.contracts :
       /\ suite.contracts[i].model.digest # Regenerated
       /\ UsesProxy(suite.contracts[i].cell) => suite.contracts[i].transport.adapter

\* The others have done nothing.
Alone ==
  /\ pc["smoke"] \in {"ready", "absent"}
  /\ file = Original /\ live /\ btime = 0

\* The runner holds the artifact of the catalog, and its entry is as it wrote it.
Holding ==
  LET x == mine["runner"] IN
  /\ pc["runner"] \in Chosen => x.artifact = Graph /\ x.domain = <<"boot", 0>>
  /\ pc["runner"] \in {"clear", "write"} => x.blob = Original
  /\ pc["runner"] \in Written => repo[TheEntry] = [content |-> Original, config |-> TheConfig]
  /\ pc["runner"] \in Past => x.identity = [config |-> TheConfig]

\* The server is emptied, whatever it held, and then serves the entry.
Emptying ==
  /\ \A n \in Names : models[n].state \in {"gone", "ready", "failed", "unloading"}
  /\ pc["runner"] = "unload" =>
       \A n \in Names : n \in mine["runner"].todo \/ models[n].state \in {"gone", "unloading"}
  /\ pc["runner"] = "poll" => \A n \in Names : models[n].state \in {"gone", "unloading"}
  /\ pc["runner"] \in Loaded => models[TheEntry].state = "ready" /\ models[TheEntry].config = TheConfig

\* The window is the runner's alone.
Clean ==
  pc["runner"] \in Counting => mine["runner"].failed = 0 /\ window.stray = 0 /\ ~window.reloaded

\* Completed bundles differ in what their manifests say, and in nothing else.
AlikeBut(i) ==
  LET b == bundles[i]
      x == suite.contracts[i] IN
  b.state = "completed" =>
    /\ b.cell = x.cell
    /\ b.adapter = IF UsesProxy(x.cell)
                   THEN [executor |-> "individual", modelEntry |-> TheEntry,
                         downstream |-> x.transport.maxMessageBytes, serving |-> x.transport.maxMessageBytes]
                   ELSE NoAdapter
    /\ b.entry = Entry(Graph, "unbatched", x.cohort.size)
    /\ b.identity = [config |-> TheConfig]

\* What holds as long as nobody interferes.
Quiet ==
  /\ pc["runner"] \notin {"failed", "unequal"}
  /\ Alone /\ Holding /\ Emptying /\ Clean
  /\ \A i \in DOMAIN suite.contracts : AlikeBut(i)

\* The suites there are, and whatever happens to one that is not interfered with.
Untroubled ==
  /\ suite \in Edited \cup Misdeclared \cup {TwoSizes} \cup Declared
  /\ Undisturbed => Quiet

\* The catalog names one artifact, which the file is and which can be served.
LEMMA GraphServes ==
  /\ LoadCatalog(Catalog(Graph), None)
  /\ Listed(Catalog(Graph), "graph") # {} /\ ArtifactOf(Catalog(Graph), "graph") = Graph
  /\ Graph.digest = Original /\ SelfAttesting(Graph) /\ Verify(Original, Graph)
  /\ Renderable(Graph, 0)
<1>0. /\ Graph.id = "graph" /\ Graph.digest = Original /\ Graph.sized = "rightly" /\ Graph.attesting
      /\ Graph.inputs = [DATA |-> Tensor("FP32", <<Symbolic, 8>>), PADDING |-> Tensor("FP32", <<Symbolic, 4>>),
                         UID |-> Tensor("INT64", <<Symbolic, 1>>)]
      /\ Graph.outputs = [UIDSET |-> Tensor("INT64", <<Symbolic, Symbolic>>)]
  BY DEF Graph, Artifact
<1>1. PICK c : c = Catalog(Graph)
  OBVIOUS
<1>2. PICK g : g = Graph
  OBVIOUS
<1>3. c.schemaVersion = CatalogSchemaVersion /\ c.artifacts = <<g>>
  BY <1>1, <1>2 DEF Catalog
<1>4. DOMAIN c.artifacts = {1} /\ c.artifacts[1] = g /\ c.artifacts # <<>>
  BY <1>3
<1>5. LoadCatalog(c, None)
  BY <1>0, <1>2, <1>3, <1>4, PreparationAssumption DEF LoadCatalog
<1>6. Listed(c, "graph") = {1}
  BY <1>0, <1>2, <1>4 DEF Listed
<1>7. ArtifactOf(c, "graph") = g
  BY <1>4, <1>6 DEF ArtifactOf
<1>8. Renderable(g, 0)
  <2>1. DOMAIN tritonDataType = {"FP32", "FP16", "INT64", "INT32"}
    BY DEF tritonDataType
  <2>2. Renders(g.inputs, 0)
    <3>1. DOMAIN g.inputs = {"DATA", "PADDING", "UID"}
      BY <1>0, <1>2
    <3>2. /\ g.inputs["DATA"].dataType = "FP32" /\ Len(g.inputs["DATA"].dims) = 2
          /\ g.inputs["PADDING"].dataType = "FP32" /\ Len(g.inputs["PADDING"].dims) = 2
          /\ g.inputs["UID"].dataType = "INT64" /\ Len(g.inputs["UID"].dims) = 2
      BY <1>0, <1>2 DEF Tensor
    <3>3. PICK inputs : inputs = g.inputs
      OBVIOUS
    <3>4. ASSUME NEW t \in DOMAIN inputs
          PROVE  inputs[t].dataType \in {"FP32", "INT64"} /\ Len(inputs[t].dims) = 2
      BY <3>1, <3>2, <3>3
    <3>5. DOMAIN inputs # {}
      BY <3>1, <3>3
    <3>6. Renders(inputs, 0)
      BY <2>1, <3>4, <3>5 DEF Renders
    <3> QED
      BY <3>3, <3>6
  <2>3. Renders(g.outputs, 0)
    <3>1. DOMAIN g.outputs = {"UIDSET"}
      BY <1>0, <1>2
    <3>2. g.outputs["UIDSET"].dataType = "INT64" /\ Len(g.outputs["UIDSET"].dims) = 2
      BY <1>0, <1>2 DEF Tensor
    <3> QED
      BY <2>1, <3>1, <3>2 DEF Renders
  <2> QED
    BY <2>2, <2>3 DEF Renderable
<1> QED
  BY <1>0, <1>1, <1>2, <1>5, <1>6, <1>7, <1>8 DEF SelfAttesting, Verify, FileDigest

\* What is served of it is what its entry says.
LEMMA ServedAsWritten == verifyServedEntry(TheConfig, TheEntry)
<1>1. PICK g : g = Graph
  OBVIOUS
<1>2. g.id = "graph" /\ DOMAIN g.inputs = {"DATA", "PADDING", "UID"} /\ DOMAIN g.outputs = {"UIDSET"}
  BY <1>1 DEF Graph, Artifact
<1>3. PICK k : k = TheConfig
  OBVIOUS
<1>4. /\ k.name = <<"graph", "unbatched">> /\ k.instances = 1 /\ k.maxBatch = 0 /\ k.dynamic = FALSE
      /\ DOMAIN k.inputs = {"DATA", "PADDING", "UID"} /\ DOMAIN k.outputs = {"UIDSET"}
  BY <1>1, <1>2, <1>3 DEF TheConfig, renderConfig, renderTensors
<1> QED
  BY <1>3, <1>4 DEF verifyServedEntry, TheEntry, EntryName

\* A contract of an accepted suite that is undisturbed, in its parts.
LEMMA Declares ==
  ASSUME IInv, Undisturbed, pc["runner"] \in Working
  PROVE  /\ m.cell \in ImplementedCells /\ m.model.artifact = "graph" /\ m.model.entry = "unbatched"
         /\ m.model.digest \in {None, Original}
         /\ UsesProxy(m.cell) => m.transport.adapter
         /\ m.expected.batchSize = 1 /\ m.expected.executions = m.cohort.count * m.cohort.size
<1>1. at \in DOMAIN suite.contracts /\ ValidManifest(m) /\ ContractOK(m)
  BY DEF IInv, Declarations, LoadSuite, m, Working, Chosen, Written, Loaded, Counting
<1>2. m.model.digest # Regenerated /\ (UsesProxy(m.cell) => m.transport.adapter)
  BY <1>1 DEF Undisturbed, m
<1> QED
  BY <1>1, <1>2 DEF ContractOK, ValidManifest, EntryMatches, validateExpectedEvidence

\* A quiet suite is quiet before it starts.
LEMMA QuietStart ==
  ASSUME Init
  PROVE  Untroubled
<1>1. /\ suite \in Edited \cup Misdeclared \cup {TwoSizes} \cup Declared
      /\ pc["runner"] = "start" /\ pc["smoke"] \in {"ready", "absent"}
      /\ file = Original /\ live /\ btime = 0
      /\ \A i \in 1 .. 3 : bundles[i].state = None
  BY DEF Init, Clients, NoBundle
<1>2. \A n \in Names : models[n].state \in {"gone", "ready", "failed", "unloading"}
  <2>1. DOMAIN Unloaded = {"state", "content", "config", "count"} /\ Unloaded.state = "gone"
    BY DEF Unloaded
  <2>2. CASE models = [n \in Names |-> Unloaded]
    BY <2>1, <2>2
  <2>3. ASSUME NEW left \in [{"graph", "old"} -> {"gone", "ready", "failed", "unloading"}],
               models = [n \in Names |-> IF n[2] = "dynamic" THEN Unloaded
                                         ELSE [Unloaded EXCEPT !.state = left[n[1]], !.count = 1]]
        PROVE  \A n \in Names : models[n].state \in {"gone", "ready", "failed", "unloading"}
    <3> SUFFICES ASSUME NEW n \in Names PROVE models[n].state \in {"gone", "ready", "failed", "unloading"}
      OBVIOUS
    <3>1. n[1] \in {"graph", "old"}
      BY DEF Names, EntryName
    <3>2. PICK state \in {"gone", "ready", "failed", "unloading"} : state = left[n[1]]
      BY <3>1
    <3>3. models[n] = Unloaded \/ models[n] = [Unloaded EXCEPT !.state = state, !.count = 1]
      BY <2>3, <3>2
    <3>4. [Unloaded EXCEPT !.state = state, !.count = 1].state = state
      BY <2>1
    <3> QED
      BY <2>1, <3>3, <3>4
  <2> QED
    BY <2>2, <2>3 DEF Init
<1>3. \A i \in DOMAIN suite.contracts : AlikeBut(i)
  BY <1>1, SuitesCountable, PreparationAssumption DEF AlikeBut
<1> QED
  BY <1>1, <1>2, <1>3 DEF Untroubled, Quiet, Alone, Holding, Emptying, Clean,
                          Chosen, Written, Past, Loaded, Counting

\* Nobody makes up for an interference: what is undisturbed was undisturbed.
LEMMA WasUndisturbed ==
  ASSUME [Next]_vars
  PROVE  UNCHANGED suite /\ (Undisturbed' => Undisturbed)
<1>1. UNCHANGED suite /\ (~meddled' => ~meddled) /\ (~meddled' => UNCHANGED catalog)
  <2>1. CASE \/ LoadsSuite \/ Prepares \/ VerifiesArtifact \/ ReadsArtifact \/ clearDir
             \/ startServices \/ WarmsUp \/ StopsRecorder \/ JudgesContract \/ ComparesCells
    BY <2>1 DEF LoadsSuite, Prepares, VerifiesArtifact, ReadsArtifact, clearDir,
                startServices, WarmsUp, StopsRecorder, JudgesContract, ComparesCells, diskVars
  <2>5. CASE materializeEntry
    <3>1. \E content : meddled' = (meddled \/ content = Truncated)
      BY <2>5 DEF materializeEntry
    <3> QED
      BY <2>5, <3>1 DEF materializeEntry
  <2>2. ASSUME NEW c \in Clients, prepareServer(c) \/ Measures(c)
        PROVE  UNCHANGED <<suite, meddled, catalog>>
    BY <2>2 DEF prepareServer, Measures, WaitLive, UnloadAll, UnloadModel, Quiesce, QuiesceTimeout, LoadModel,
                ModelIdentity, CallFails, Statistics, Submit, StatisticsAfter, diskVars
  <2>3. CASE SmokeJudges \/ OperatorMaterializes \/ ServerStarts \/ TearsDown
    BY <2>3 DEF SmokeJudges, OperatorMaterializes, ServerStarts, TearsDown, diskVars
  <2>6. CASE \/ SmokeStarts \/ Regenerates \/ Catalogues \/ ClockSteps \/ ServerDies
             \/ \E c \in Clients : LoadFails(c)
    BY <2>6 DEF SmokeStarts, Regenerates, Catalogues, ClockSteps, ServerDies, LoadFails, Interferes
  <2>4. CASE UNCHANGED vars
    BY <2>4 DEF vars, diskVars
  <2> QED
    BY <2>1, <2>2, <2>3, <2>4, <2>5, <2>6 DEF Next, Runner, Smoke, Server, prepareModel, Clients
<1> QED
  BY <1>1 DEF Undisturbed

\* The runner goes on among the rest, which stays as it is.
LEMMA GoesOnQuietly ==
  ASSUME IInv, Quiet, NEW there, there \notin {"failed", "unequal"}, Goes("runner", there),
         UNCHANGED <<suite, bundles, file, live, btime>>,
         pc'["runner"] = there => Holding' /\ Emptying' /\ Clean'
  PROVE  Quiet'
<1>1. pc'["runner"] = there /\ pc'["smoke"] = pc["smoke"]
  BY GoesOne DEF IInv, Clients
<1> QED
  BY <1>1 DEF Quiet, Alone, AlikeBut

\* The suite is read, or refused.
LEMMA LoadsQuietly ==
  ASSUME IInv, Quiet, LoadsSuite
  PROVE  Quiet'
<1>1. \E there \in {"prepare", "refused"} : Goes("runner", there)
  BY DEF LoadsSuite
<1>2. UNCHANGED <<suite, bundles, file, live, btime, models>>
  BY DEF LoadsSuite, diskVars, serverVars, worldVars
<1> QED
  BY <1>1, <1>2, GoesOnQuietly DEF Quiet, Holding, Emptying, Clean, Chosen, Written, Past, Loaded, Counting

\* The artifact is chosen, verified, read, and written to an empty repository.
LEMMA PreparesQuietly ==
  ASSUME IInv, Quiet, Undisturbed, Undisturbed', prepareModel
  PROVE  Quiet'
<1>t. Typed /\ Alone /\ Holding /\ Emptying
  BY DEF IInv, Quiet
<1>0. UNCHANGED <<suite, at, file, live, btime, models>>
  BY DEF prepareModel, Prepares, VerifiesArtifact, ReadsArtifact, clearDir, materializeEntry,
         diskVars, serverVars, worldVars
<1>1. CASE Prepares
  <2>0. pc["runner"] = "prepare"
    BY <1>1 DEF Prepares
  <2>1. /\ m.cell \in ImplementedCells /\ m.model.artifact = "graph" /\ m.model.digest \in {None, Original}
    BY <2>0, Declares DEF Working
  <2>2. catalog = Catalog(Graph) /\ Establish = <<"boot", 0>>
    BY <1>t DEF Undisturbed, Establish, Alone
  <2>3. /\ Goes("runner", "verify") /\ UNCHANGED bundles
        /\ mine' = [mine EXCEPT !["runner"] = [Nothing EXCEPT !.artifact = Graph, !.domain = <<"boot", 0>>]]
    BY <1>1, <2>1, <2>2, GraphServes DEF Prepares
  <2>4. mine'["runner"].artifact = Graph /\ mine'["runner"].domain = <<"boot", 0>>
    BY <1>t, <2>3 DEF Typed, Clients, Nothing
  <2> QED
    BY <1>t, <1>0, <2>3, <2>4, GoesOnQuietly DEF Holding, Emptying, Clean, Chosen, Written, Past, Loaded, Counting
<1>2. CASE VerifiesArtifact
  <2>1. pc["runner"] = "verify" /\ Verify(file, mine["runner"].artifact)
    BY <1>t, <1>2, GraphServes DEF VerifiesArtifact, Holding, Alone, Chosen
  <2>2. Goes("runner", "read") /\ UNCHANGED <<mine, bundles>>
    BY <1>2, <2>1 DEF VerifiesArtifact
  <2> QED
    BY <1>t, <1>0, <2>1, <2>2, GoesOnQuietly DEF Holding, Emptying, Clean, Chosen, Written, Past, Loaded, Counting
<1>3. CASE ReadsArtifact
  <2>1. pc["runner"] = "read" /\ Goes("runner", "clear") /\ Holds("runner", "blob", Original) /\ UNCHANGED bundles
    BY <1>t, <1>3 DEF ReadsArtifact, Alone
  <2>2. /\ mine'["runner"].blob = Original
        /\ mine'["runner"].artifact = mine["runner"].artifact /\ mine'["runner"].domain = mine["runner"].domain
    BY <1>t, <2>1, HoldsOne DEF Fields, Clients
  <2> QED
    BY <1>t, <1>0, <2>1, <2>2, GoesOnQuietly DEF Holding, Emptying, Clean, Chosen, Written, Past, Loaded, Counting
<1>4. CASE clearDir
  <2>1. pc["runner"] = "clear" /\ Goes("runner", "write") /\ UNCHANGED <<mine, bundles>>
    BY <1>4 DEF clearDir
  <2> QED
    BY <1>t, <1>0, <2>1, GoesOnQuietly DEF Holding, Emptying, Clean, Chosen, Written, Past, Loaded, Counting
<1>5. CASE materializeEntry
  <2>1. /\ pc["runner"] = "write" /\ mine["runner"].artifact = Graph /\ mine["runner"].blob = Original
    BY <1>t, <1>5 DEF materializeEntry, Holding, Chosen, Written
  <2>2. m.model.entry = "unbatched" /\ ModelEntryName(m) = TheEntry
    BY <2>1, Declares, Named DEF Working, Chosen
  <2>3. PICK content \in {Original, Truncated} :
          /\ meddled' = (meddled \/ content = Truncated)
          /\ CopyVerified(content, Graph) /\ Renderable(Graph, MaxBatch("unbatched", m.cohort.size)) =>
               /\ repo' = [n \in {TheEntry} |-> Materialized(Graph, "unbatched", m.cohort.size, content)]
               /\ Goes("runner", "live") /\ UNCHANGED <<mine, bundles>>
    BY <1>5, <2>1, <2>2 DEF materializeEntry
  <2>4. content = Original
    BY <2>3 DEF Undisturbed
  <2>5. MaxBatch("unbatched", m.cohort.size) = 0
    BY DEF MaxBatch
  <2>6. /\ repo' = [n \in {TheEntry} |-> [content |-> Original, config |-> TheConfig]]
        /\ Goes("runner", "live") /\ UNCHANGED <<mine, bundles>>
    BY <2>3, <2>4, <2>5, GraphServes DEF CopyVerified, Materialized, TheConfig
  <2>7. repo'[TheEntry] = [content |-> Original, config |-> TheConfig]
    BY <2>6
  <2> QED
    BY <1>t, <1>0, <2>1, <2>6, <2>7, GoesOnQuietly
    DEF Holding, Emptying, Clean, Chosen, Written, Past, Loaded, Counting
<1> QED
  BY <1>1, <1>2, <1>3, <1>4, <1>5 DEF prepareModel

\* The runner unloads whatever it finds, waits until that is gone, and loads its entry.
LEMMA ServesQuietly ==
  ASSUME IInv, Quiet, prepareServer("runner")
  PROVE  Quiet'
<1>t. Typed /\ Alone /\ Holding /\ Emptying /\ "runner" \in Clients
  BY DEF IInv, Quiet, Clients
<1>0. UNCHANGED <<suite, at, file, repo, live, btime>> /\ live
  BY <1>t DEF prepareServer, WaitLive, UnloadAll, UnloadModel, Quiesce, QuiesceTimeout, LoadModel, ModelIdentity,
         CallFails, diskVars, serverVars, worldVars, Alone
<1>n. pc["runner"] \in Written => NameOf("runner") = TheEntry
  BY Named DEF Working, Chosen
<1>1. CASE WaitLive("runner")
  <2>1. pc["runner"] = "live" /\ Goes("runner", "sweep") /\ UNCHANGED <<mine, models, bundles>>
    BY <1>1 DEF WaitLive, serverVars
  <2> QED
    BY <1>t, <1>0, <2>1, GoesOnQuietly DEF Holding, Emptying, Clean, Chosen, Written, Past, Loaded, Counting
<1>2. CASE UnloadAll("runner")
  <2>1. /\ pc["runner"] = "sweep" /\ Goes("runner", IF Index = {} THEN "poll" ELSE "unload")
        /\ Holds("runner", "todo", Index) /\ UNCHANGED <<models, bundles>>
    BY <1>2 DEF UnloadAll, serverVars
  <2>2. /\ mine'["runner"].todo = Index
        /\ mine'["runner"].artifact = mine["runner"].artifact /\ mine'["runner"].domain = mine["runner"].domain
    BY <1>t, <2>1, HoldsOne DEF Fields
  <2>3. \A n \in Names : n \in Index \/ models[n].state = "gone"
    BY DEF Index
  <2> QED
    BY <1>t, <1>0, <2>1, <2>2, <2>3, GoesOnQuietly
    DEF Holding, Emptying, Clean, Chosen, Written, Past, Loaded, Counting
<1>3. CASE UnloadModel("runner")
  <2>1. PICK n \in mine["runner"].todo :
          /\ Holds("runner", "todo", mine["runner"].todo \ {n})
          /\ models' = [models EXCEPT ![n].state = IF @ = "gone" THEN @ ELSE "unloading"]
          /\ Goes("runner", IF mine["runner"].todo = {n} THEN "poll" ELSE "unload")
    BY <1>3 DEF UnloadModel
  <2>2. pc["runner"] = "unload" /\ UNCHANGED bundles
    BY <1>3 DEF UnloadModel
  <2>3. /\ mine'["runner"].todo = mine["runner"].todo \ {n}
        /\ mine'["runner"].artifact = mine["runner"].artifact /\ mine'["runner"].domain = mine["runner"].domain
    BY <1>t, <2>1, HoldsOne DEF Fields
  <2>4. \A x \in Names :
          /\ x = n => models'[x].state \in {"gone", "unloading"}
          /\ x # n => models'[x] = models[x]
    BY <1>t, <2>1 DEF Typed
  <2>5. \A x \in Names : /\ models'[x].state \in {"gone", "ready", "failed", "unloading"}
                         /\ x \in mine["runner"].todo \ {n} \/ models'[x].state \in {"gone", "unloading"}
    BY <1>t, <2>2, <2>4 DEF Emptying
  <2>6. Emptying'
    <3>1. pc'["runner"] = IF mine["runner"].todo = {n} THEN "poll" ELSE "unload"
      BY <1>t, <2>1, GoesOne
    <3> QED
      BY <2>3, <2>5, <3>1 DEF Emptying, Loaded, Counting
  <2> QED
    BY <1>t, <1>0, <2>1, <2>2, <2>3, <2>6, GoesOnQuietly
    DEF Holding, Clean, Chosen, Written, Past, Loaded, Counting
<1>4. CASE Quiesce("runner")
  <2>1. pc["runner"] = "poll" /\ Goes("runner", "load") /\ UNCHANGED <<mine, models, bundles>>
    BY <1>4 DEF Quiesce, serverVars
  <2> QED
    BY <1>t, <1>0, <2>1, GoesOnQuietly DEF Holding, Emptying, Clean, Chosen, Written, Past, Loaded, Counting
<1>5. ~QuiesceTimeout("runner")
  BY <1>t DEF QuiesceTimeout, Emptying, ServerReady, ReadyModels
<1>6. ~CallFails("runner")
  BY <1>t DEF CallFails, Alone
<1>7. CASE LoadModel("runner")
  <2>0. pc["runner"] = "load" /\ NameOf("runner") = TheEntry
    BY <1>n, <1>7 DEF LoadModel, Written
  <2>1. repo[TheEntry] = [content |-> Original, config |-> TheConfig] /\ TheEntry \in DOMAIN repo
    BY <1>t, <2>0 DEF Holding, Written, IInv, Contents
  <2>2. "config" \in DOMAIN repo[TheEntry] /\ repo[TheEntry].content = Original /\ repo[TheEntry].config = TheConfig
    BY <2>1
  <2>3. PICK fresh : fresh = [state |-> "ready", content |-> Original, config |-> TheConfig, count |-> 0]
    OBVIOUS
  <2>4. PICK kept \in BOOLEAN : kept = (models[TheEntry] = [fresh EXCEPT !.count = models[TheEntry].count])
    OBVIOUS
  <2>5. /\ models' = [models EXCEPT ![TheEntry] = IF kept THEN @ ELSE fresh]
        /\ Goes("runner", "identify") /\ UNCHANGED <<mine, bundles>>
    BY <1>7, <2>0, <2>1, <2>2, <2>3, <2>4 DEF LoadModel
  <2>6. /\ \A n \in Names : n # TheEntry => models'[n] = models[n]
        /\ models'[TheEntry].state = "ready" /\ models'[TheEntry].config = TheConfig
    <3>1. CASE kept
      <4>1. models[TheEntry].state = "ready" /\ models[TheEntry].config = TheConfig
        BY <2>3, <2>4, <3>1
      <4> QED
        BY <1>t, <2>5, <3>1, <4>1, EntryKnown DEF Typed
    <3>2. CASE ~kept
      BY <1>t, <2>3, <2>5, <3>2, EntryKnown DEF Typed
    <3> QED
      BY <3>1, <3>2
  <2>7. \A n \in Names : models'[n].state \in {"gone", "ready", "failed", "unloading"}
    BY <1>t, <2>6 DEF Emptying
  <2> QED
    BY <1>t, <1>0, <2>0, <2>5, <2>6, <2>7, GoesOnQuietly
    DEF Holding, Emptying, Clean, Chosen, Written, Past, Loaded, Counting
<1>8. CASE ModelIdentity("runner")
  <2>0. pc["runner"] = "identify" /\ NameOf("runner") = TheEntry /\ UNCHANGED models
    BY <1>n, <1>8 DEF ModelIdentity, serverVars, Written, Loaded
  <2>1. models[TheEntry].state = "ready" /\ models[TheEntry].config = TheConfig
    BY <1>t, <2>0 DEF Emptying, Loaded
  <2>2. /\ Goes("runner", "services") /\ UNCHANGED bundles
        /\ Holds("runner", "identity", [config |-> TheConfig])
    BY <1>0, <1>8, <2>0, <2>1, ServedAsWritten DEF ModelIdentity, Ready
  <2>3. /\ mine'["runner"].identity = [config |-> TheConfig]
        /\ mine'["runner"].artifact = mine["runner"].artifact /\ mine'["runner"].domain = mine["runner"].domain
    BY <1>t, <2>2, HoldsOne DEF Fields
  <2> QED
    BY <1>t, <1>0, <2>0, <2>2, <2>3, GoesOnQuietly
    DEF Holding, Emptying, Clean, Chosen, Written, Past, Loaded, Counting
<1> QED
  BY <1>1, <1>2, <1>3, <1>4, <1>5, <1>6, <1>7, <1>8 DEF prepareServer

\* The services agree on the clock, and the entry stays ready through the run: no
\* call is refused, and the counters grow by what the run sent.
LEMMA MeasuresQuietly ==
  ASSUME IInv, Quiet, Undisturbed,
         startServices \/ WarmsUp \/ Measures("runner") \/ StopsRecorder
  PROVE  Quiet'
<1>t. Typed /\ Alone /\ Holding /\ Emptying /\ Clean /\ Counts /\ "runner" \in Clients
  BY DEF IInv, Quiet, Clients
<1>0. UNCHANGED <<suite, at, file, repo, live, btime>> /\ live
  BY <1>t DEF startServices, WarmsUp, Measures, Statistics, Submit, StatisticsAfter, StopsRecorder,
              diskVars, serverVars, worldVars, Alone
<1>1. /\ pc["runner"] \in {"services", "warm", "before", "send", "stop", "after"}
      /\ pc["runner"] \in Loaded /\ pc["runner"] \in Written /\ pc["runner"] \in Chosen
      /\ pc["runner"] \in Working /\ pc["runner"] \in Past
  BY DEF startServices, WarmsUp, Measures, Statistics, Submit, StatisticsAfter, StopsRecorder,
         Past, Loaded, Counting, Written, Chosen, Working
<1>2. /\ mine["runner"].artifact = Graph /\ mine["runner"].domain = <<"boot", 0>>
      /\ mine["runner"].identity = [config |-> TheConfig]
      /\ models[TheEntry].state = "ready" /\ models[TheEntry].config = TheConfig
      /\ repo[TheEntry] = [content |-> Original, config |-> TheConfig]
  BY <1>t, <1>1 DEF Holding, Emptying
<1>3. NameOf("runner") = TheEntry /\ Ready(TheEntry)
  BY <1>0, <1>1, <1>2, Named DEF Ready
<1>4. ASSUME NEW there \in {"warm", "before", "send", "stop", "after", "judge"}, Goes("runner", there),
             UNCHANGED bundles,
             \A f \in {"artifact", "domain", "identity"} : mine'["runner"][f] = mine["runner"][f],
             \/ UNCHANGED models
             \/ \E v \in Int : models' = [models EXCEPT ![TheEntry].count = v],
             there \in Counting =>
               mine'["runner"].failed = 0 /\ window'.stray = 0 /\ ~window'.reloaded
      PROVE  Quiet'
  <2>1. \A n \in Names : models'[n].state = models[n].state /\ models'[n].config = models[n].config
    BY <1>t, <1>4 DEF Typed
  <2>2. pc'["runner"] = there
    BY <1>t, <1>4, GoesOne
  <2>3. Holding'
    BY <1>0, <1>2, <1>4, <2>2 DEF Holding
  <2>4. Emptying'
    BY <1>t, <1>2, <1>4, <2>1, <2>2, EntryKnown DEF Emptying
  <2>5. Clean'
    BY <1>4, <2>2 DEF Clean
  <2> QED
    BY <1>0, <1>4, <2>3, <2>4, <2>5, GoesOnQuietly
<1>5. CASE startServices
  <2>1. UsesProxy(m.cell) => m.transport.adapter /\ Establish = mine["runner"].domain
    BY <1>t, <1>1, <1>2, Declares DEF Establish, Alone
  <2> QED
    BY <1>4, <1>5, <2>1 DEF startServices, serverVars, Counting
<1>6. CASE WarmsUp
  <2>1. m.cohort.size \in Int /\ m.cohort.warmup \in Int
    <3>1. ContractOK(m)
      BY <1>1 DEF IInv, Declarations, m, Working, Chosen, Written, Loaded, Counting
    <3> QED
      BY <1>1, <3>1, RequestsKnown DEF ContractOK
  <2>2. m.cohort.warmup * m.cohort.size \in Int
    BY <2>1
  <2>3. models[TheEntry].count + m.cohort.warmup * m.cohort.size \in Int
    BY <1>t, <2>2, EntryKnown DEF Typed
  <2>4. /\ models' = [models EXCEPT ![TheEntry].count = @ + m.cohort.warmup * m.cohort.size]
        /\ Goes("runner", "before") /\ UNCHANGED <<mine, bundles>>
    BY <1>3, <1>6 DEF WarmsUp
  <2>5. \E v \in Int : models' = [models EXCEPT ![TheEntry].count = v]
    BY <2>3, <2>4
  <2> QED
    BY <1>4, <2>4, <2>5 DEF Counting
<1>7. CASE Statistics("runner")
  <2>1. /\ pc["runner"] = "before" /\ Goes("runner", "send") /\ UNCHANGED <<models, bundles>>
        /\ Holds("runner", "before", models[TheEntry].count) /\ window' = NoWindow
    BY <1>3, <1>7 DEF Statistics, serverVars
  <2>2. \A g \in Fields : g # "before" => mine'["runner"][g] = mine["runner"][g]
    BY <1>t, <2>1, HoldsOne DEF Fields
  <2>3. mine["runner"].failed = 0
    BY <1>t, <1>1, <2>1 DEF Counts, Counting
  <2>4. window'.stray = 0 /\ ~window'.reloaded
    BY <2>1 DEF NoWindow
  <2>5. mine'["runner"].failed = 0
    BY <2>2, <2>3 DEF Fields
  <2>6. \A f \in {"artifact", "domain", "identity"} : mine'["runner"][f] = mine["runner"][f]
    BY <2>2 DEF Fields
  <2> QED
    BY <1>4, <2>1, <2>4, <2>5, <2>6
<1>8. CASE Submit("runner")
  <2>1. /\ pc["runner"] = "send" /\ models' = [models EXCEPT ![TheEntry].count = @ + 1]
        /\ Holds("runner", "sent", mine["runner"].sent + 1)
        /\ window' = [window EXCEPT !.served = @ \cup {models[TheEntry].content}]
        /\ Goes("runner", IF mine["runner"].sent + 1 < RequestsOf("runner") THEN "send" ELSE "stop")
        /\ UNCHANGED bundles
    BY <1>3, <1>8 DEF Submit
  <2>2. \A g \in Fields : g # "sent" => mine'["runner"][g] = mine["runner"][g]
    BY <1>t, <2>1, HoldsOne DEF Fields
  <2>3. mine["runner"].failed = 0 /\ window.stray = 0 /\ ~window.reloaded
    BY <1>t, <2>1 DEF Clean, Counting
  <2>4. mine'["runner"].failed = 0
    BY <2>2, <2>3 DEF Fields
  <2>5. window'.stray = 0 /\ ~window'.reloaded
    BY <1>t, <2>1, <2>3 DEF Typed
  <2>6. \A f \in {"artifact", "domain", "identity"} : mine'["runner"][f] = mine["runner"][f]
    BY <2>2 DEF Fields
  <2>7. \E v \in Int : models' = [models EXCEPT ![TheEntry].count = v]
    <3>1. models[TheEntry].count + 1 \in Int
      BY <1>t, EntryKnown DEF Typed
    <3> QED
      BY <2>1, <3>1
  <2>8. \E there \in {"send", "stop"} : Goes("runner", there)
    BY <2>1
  <2> QED
    BY <1>4, <2>1, <2>4, <2>5, <2>6, <2>7, <2>8
<1>9. CASE StopsRecorder
  <2>1. pc["runner"] = "stop" /\ Goes("runner", "after") /\ UNCHANGED <<mine, models, bundles, window>>
    BY <1>9 DEF StopsRecorder, serverVars
  <2> QED
    BY <1>t, <1>4, <2>1 DEF Clean, Counting
<1>10. CASE StatisticsAfter("runner")
  <2>0. pc["runner"] = "after" /\ UNCHANGED <<models, window>>
    BY <1>10 DEF StatisticsAfter, serverVars
  <2>1. mine["runner"].failed = 0 /\ window.stray = 0 /\ ~window.reloaded
    BY <1>t, <2>0 DEF Clean, Counting
  <2>2. models[TheEntry].count = mine["runner"].before + (mine["runner"].sent - mine["runner"].failed) + window.stray
    BY <1>t, <1>2, <2>0, <2>1 DEF Counts, InWindow
  <2>3. mine["runner"].before \in Int /\ mine["runner"].sent \in Nat
    BY <1>t DEF Typed
  <2>4. ~Backwards(mine["runner"].before, models[TheEntry].count)
    BY <2>1, <2>2, <2>3 DEF Backwards
  <2>5. /\ Holds("runner", "delta", Delta(mine["runner"].before, models[TheEntry].count))
        /\ Goes("runner", "judge") /\ UNCHANGED bundles
    BY <1>3, <1>10, <2>4 DEF StatisticsAfter
  <2>6. \A g \in Fields : g # "delta" => mine'["runner"][g] = mine["runner"][g]
    BY <1>t, <2>5, HoldsOne DEF Fields
  <2>7. mine'["runner"].failed = 0 /\ \A f \in {"artifact", "domain", "identity"} : mine'["runner"][f] = mine["runner"][f]
    BY <2>1, <2>6 DEF Fields
  <2> QED
    BY <1>4, <2>0, <2>1, <2>5, <2>7
<1> QED
  BY <1>5, <1>6, <1>7, <1>8, <1>9, <1>10 DEF Measures

\* The run is judged by counts that agree, and passes.
LEMMA JudgesQuietly ==
  ASSUME IInv, Quiet, Undisturbed, JudgesContract
  PROVE  Quiet'
<1>t. Typed /\ Alone /\ Holding /\ Emptying /\ Clean /\ Counts /\ "runner" \in Clients
  BY DEF IInv, Quiet, Clients
<1>1. /\ pc["runner"] = "judge" /\ pc["runner"] \in Past /\ pc["runner"] \in Counting /\ pc["runner"] \in Loaded
      /\ pc["runner"] \in Written /\ pc["runner"] \in Chosen /\ pc["runner"] \in Working
  BY DEF JudgesContract, Past, Loaded, Counting, Written, Chosen, Working
<1>2. /\ mine["runner"].artifact = Graph /\ mine["runner"].identity = [config |-> TheConfig]
      /\ mine["runner"].failed = 0 /\ window.stray = 0 /\ ~window.reloaded
  BY <1>t, <1>1 DEF Holding, Clean
<1>3. /\ m.expected.batchSize = 1 /\ m.expected.executions = m.cohort.count * m.cohort.size
      /\ m.model.entry = "unbatched" /\ ModelEntryName(m) = TheEntry
  BY <1>1, Declares, Named
<1>4. PICK n \in Nat : n = m.cohort.count * m.cohort.size /\ n > 0 /\ n = RequestsOf("runner")
  BY <1>1, RequestsKnown
<1>5. mine["runner"].delta = n
  <2>1. mine["runner"].sent \in Nat /\ mine["runner"].delta \in Int
    BY <1>t DEF Typed
  <2>2. mine["runner"].sent = n /\ mine["runner"].delta = (mine["runner"].sent - mine["runner"].failed) + window.stray
    BY <1>t, <1>1, <1>2, <1>4 DEF Counts
  <2> QED
    BY <1>2, <2>1, <2>2
<1>6. checkContamination(ExpectationOf(m, mine["runner"].delta)) = {}
  <2>1. PICK e : e = ExpectationOf(m, n)
    OBVIOUS
  <2>2. /\ e.executionDelta = n /\ e.inferenceDelta = n /\ e.executions = n
        /\ e.cohortCount * e.cohortSize = n /\ e.batchSize = 1
        /\ e.histogram = [size \in {1} |-> n]
    BY <1>3, <1>4, <2>1 DEF ExpectationOf
  <2>3. DOMAIN e.histogram = {1} /\ e.histogram # <<>>
    BY <2>2
  <2>4. checkContamination(e) = {}
    BY <2>2, <2>3 DEF checkContamination, When
  <2> QED
    BY <1>5, <2>1, <2>4
<1>7. PICK b : b = NewBundle("completed")
  OBVIOUS
<1>8. /\ bundles' = [bundles EXCEPT ![at] = b]
      /\ Goes("runner", IF at < Len(suite.contracts) THEN "prepare" ELSE "compare")
      /\ UNCHANGED <<suite, file, live, btime, models>>
  BY <1>2, <1>6, <1>7 DEF JudgesContract, diskVars, serverVars, worldVars
<1>9. /\ b.cell = m.cell
      /\ b.adapter = IF UsesProxy(m.cell)
                     THEN [executor |-> "individual", modelEntry |-> TheEntry,
                           downstream |-> m.transport.maxMessageBytes, serving |-> m.transport.maxMessageBytes]
                     ELSE NoAdapter
      /\ b.entry = Entry(Graph, "unbatched", m.cohort.size)
      /\ b.identity = [config |-> TheConfig]
  BY <1>2, <1>3, <1>7 DEF NewBundle, AdapterRecord
<1>10. \A i \in DOMAIN suite.contracts : AlikeBut(i)'
  <2> SUFFICES ASSUME NEW i \in DOMAIN suite.contracts PROVE AlikeBut(i)'
    OBVIOUS
  <2>0. i \in 1 .. 3 /\ DOMAIN bundles = 1 .. 3
    BY <1>t, <1>1, AtKnown DEF Typed
  <2>1. CASE i = at
    <3>1. bundles'[i] = b
      BY <1>8, <2>0, <2>1
    <3> QED
      BY <1>8, <1>9, <2>1, <3>1 DEF AlikeBut, m
  <2>2. CASE i # at
    <3>1. bundles'[i] = bundles[i]
      BY <1>8, <2>0, <2>2
    <3> QED
      BY <1>8, <3>1 DEF AlikeBut, Quiet
  <2> QED
    BY <2>1, <2>2
<1>11. pc'["runner"] \in {"prepare", "compare"} /\ pc'["smoke"] = pc["smoke"]
  BY <1>t, <1>8, GoesOne DEF Clients
<1>12. Alone' /\ Holding' /\ Emptying' /\ Clean'
  BY <1>t, <1>8, <1>11 DEF Alone, Holding, Emptying, Clean, Chosen, Written, Past, Loaded, Counting
<1> QED
  BY <1>8, <1>10, <1>11, <1>12 DEF Quiet

\* The first contracts of F00 and of F10, where they come first.
LEMMA FirstOfEach ==
  ASSUME NEW contracts, NEW k \in {2, 3}, DOMAIN contracts = 1 .. k,
         contracts[1].cell = "F00", contracts[2].cell = "F10"
  PROVE  bundleForCell(contracts, "F00") = 1 /\ bundleForCell(contracts, "F10") = 2
<1> DEFINE First(cell, i) == contracts[i].cell = cell /\ \A j \in 1 .. i - 1 : contracts[j].cell # cell
<1>1. 1 \in DOMAIN contracts /\ 2 \in DOMAIN contracts
  OBVIOUS
<1>2. \A i \in DOMAIN contracts : First("F00", i) <=> i = 1
  <2>1. \A i \in DOMAIN contracts : i # 1 => 1 \in 1 .. i - 1
    OBVIOUS
  <2>2. 1 .. 1 - 1 = {}
    OBVIOUS
  <2> QED
    BY <2>1, <2>2
<1>3. \A i \in DOMAIN contracts : First("F10", i) <=> i = 2
  <2>1. \A i \in DOMAIN contracts : i \notin {1, 2} => 2 \in 1 .. i - 1
    OBVIOUS
  <2>2. 1 .. 2 - 1 = {1}
    OBVIOUS
  <2> QED
    BY <2>1, <2>2
<1> QED
  BY <1>1, <1>2, <1>3 DEF bundleForCell

\* The pairs that are compared are of cells with an adapter, whose first contracts
\* have one size and one message limit.
LEMMA PairsAlike ==
  ASSUME NEW s \in Edited \cup Misdeclared \cup {TwoSizes} \cup Declared, LoadSuite(s), NEW p \in s.pairs
  PROVE  LET x == s.contracts[bundleForCell(s.contracts, p.a)]
             y == s.contracts[bundleForCell(s.contracts, p.b)]
         IN /\ x.cell # y.cell /\ UsesProxy(x.cell) /\ UsesProxy(y.cell)
            /\ x.cohort.size = y.cohort.size
            /\ x.transport.maxMessageBytes = y.transport.maxMessageBytes
<1>1. \A run, cell, digest : LET x == Contract(run, cell, digest)
                            IN x.cell = cell /\ x.cohort.size = 1 /\ x.transport.maxMessageBytes = 1
  BY DEF Contract, Manifest
<1>2. s \notin Edited
  BY DEF Edited, Suite
<1>3. s \notin Misdeclared
  <2>1. p.a # p.b /\ {p.a, p.b} \subseteq CellsOf(s.contracts)
    BY DEF LoadSuite
  <2>2. PICK x : x = Contract("r1", "F00", None) /\ x.cell = "F00"
    BY <1>1
  <2>3. CellsOf(<<x>>) = {"F00"}
    BY <2>2 DEF CellsOf
  <2>4. s # Suite(<<x>>, {[a |-> "F00", b |-> "F00"]})
    BY <2>1 DEF Suite
  <2>5. s # Suite(<<x>>, {[a |-> "F00", b |-> "F10"]})
    BY <2>1, <2>3 DEF Suite
  <2>6. \A contracts : s # Suite(contracts, {}) /\ s # [Suite(contracts, {}) EXCEPT !.schemaVersion = 1]
    BY DEF Suite
  <2> QED
    BY <2>2, <2>4, <2>5, <2>6 DEF Misdeclared
<1>4. /\ p.a = "F00" /\ p.b = "F10"
      /\ \E k \in {2, 3} : DOMAIN s.contracts = 1 .. k
      /\ \E d \in {None, Original} :
           s.contracts[1] = Contract("r1", "F00", d) /\ s.contracts[2] = Contract("r2", "F10", d)
  <2>1. CASE s = TwoSizes
    <3>1. PICK x : x = [Contract("r3", "F10", None) EXCEPT !.transport.maxMessageBytes = 2]
      OBVIOUS
    <3>2. s = Suite(<<Contract("r1", "F00", None), Contract("r2", "F10", None), x>>, {[a |-> "F00", b |-> "F10"]})
      BY <2>1, <3>1 DEF TwoSizes
    <3> QED
      BY <3>2 DEF Suite
  <2>2. CASE s \in Declared
    <3>1. PICK d \in {None, Original} :
            s = Suite(<<Contract("r1", "F00", d), Contract("r2", "F10", d)>>, {[a |-> "F00", b |-> "F10"]})
      BY <2>2 DEF Declared
    <3> QED
      BY <3>1 DEF Suite
  <2> QED
    BY <1>2, <1>3, <2>1, <2>2
<1>5. s.contracts[1].cell = "F00" /\ s.contracts[2].cell = "F10"
  BY <1>1, <1>4
<1>6. bundleForCell(s.contracts, p.a) = 1 /\ bundleForCell(s.contracts, p.b) = 2
  BY <1>4, <1>5, FirstOfEach
<1> QED
  BY <1>1, <1>4, <1>6 DEF UsesProxy

\* The cells of a pair are found to be one implementation.
LEMMA ComparesQuietly ==
  ASSUME IInv, Untroubled, Quiet, ComparesCells
  PROVE  Quiet'
<1>t. Typed /\ Declarations /\ Bundled /\ Alone /\ Holding /\ Emptying
  BY DEF IInv, Quiet
<1>0. pc["runner"] = "compare" /\ LoadSuite(suite)
      /\ UNCHANGED <<suite, file, live, btime, models, bundles, window, mine, repo>>
  BY <1>t DEF ComparesCells, Declarations, diskVars, serverVars, worldVars
<1>1. ASSUME NEW p \in suite.pairs,
             NEW i, i = bundleForCell(suite.contracts, p.a), NEW j, j = bundleForCell(suite.contracts, p.b)
      PROVE  SameImplementation(bundles[i], bundles[j], NoAdapter)
  <2>1. i \in DOMAIN suite.contracts /\ j \in DOMAIN suite.contracts
    BY <1>t, <1>0, <1>1, BundleFound DEF LoadSuite
  <2>2. PICK x, y : x = suite.contracts[i] /\ y = suite.contracts[j]
    OBVIOUS
  <2>3. /\ x.cell # y.cell /\ UsesProxy(x.cell) /\ UsesProxy(y.cell)
        /\ x.cohort.size = y.cohort.size /\ x.transport.maxMessageBytes = y.transport.maxMessageBytes
    BY <1>0, <1>1, <2>2, PairsAlike DEF Untroubled
  <2>4. PICK a, b : a = bundles[i] /\ b = bundles[j]
    OBVIOUS
  <2>5. a.state = "completed" /\ b.state = "completed" /\ AlikeBut(i) /\ AlikeBut(j)
    BY <1>t, <1>0, <2>1, <2>4 DEF Bundled, Completed, Quiet
  <2>6. /\ a.cell = x.cell /\ b.cell = y.cell
        /\ a.adapter = b.adapter
        /\ a.adapter = [executor |-> "individual", modelEntry |-> TheEntry,
                        downstream |-> x.transport.maxMessageBytes, serving |-> x.transport.maxMessageBytes]
        /\ a.entry = b.entry /\ a.identity = b.identity
    BY <2>2, <2>3, <2>4, <2>5 DEF AlikeBut
  <2>7. a.adapter # NoAdapter
    BY <2>6 DEF NoAdapter
  <2>8. ImplementationOf(a) = ImplementationOf(b)
    BY <2>6 DEF ImplementationOf
  <2>9. diffImplementations(ImplementationOf(a), ImplementationOf(b)) = {}
    BY <2>8 DEF diffImplementations
  <2> QED
    BY <2>3, <2>4, <2>5, <2>6, <2>7, <2>9 DEF SameImplementation
<1>2. Goes("runner", "green")
  BY <1>1 DEF ComparesCells
<1> QED
  BY <1>t, <1>0, <1>2, GoesOnQuietly DEF Holding, Emptying, Clean, Chosen, Written, Past, Loaded, Counting

\* The others: whatever they could do would be an interference, but for the operator
\* before the suite starts and for models that are being torn down.
LEMMA OthersQuietly ==
  ASSUME IInv, Quiet, Undisturbed', Smoke \/ OperatorMaterializes \/ Server \/ Regenerates \/ Catalogues \/ ClockSteps
  PROVE  Quiet'
<1>t. Typed /\ Alone /\ Holding /\ Emptying /\ Clean
  BY DEF IInv, Quiet
<1>1. pc["smoke"] \in {"ready", "absent"} /\ live /\ ~meddled'
  BY <1>t DEF Alone, Undisturbed
<1>2. ~SmokeStarts /\ ~prepareServer("smoke") /\ ~Measures("smoke") /\ ~SmokeJudges
  BY <1>1 DEF SmokeStarts, prepareServer, WaitLive, UnloadAll, UnloadModel, Quiesce, QuiesceTimeout, LoadModel,
              ModelIdentity, CallFails, Measures, Statistics, Submit, StatisticsAfter, SmokeJudges
<1>3. ~Regenerates /\ ~Catalogues /\ ~ClockSteps /\ ~ServerDies /\ ~ServerStarts /\ \A c \in Clients : ~LoadFails(c)
  BY <1>1 DEF Regenerates, Catalogues, ClockSteps, ServerDies, ServerStarts, LoadFails, Interferes
<1>4. CASE OperatorMaterializes
  <2>1. /\ pc["runner"] = "start"
        /\ UNCHANGED <<suite, at, pc, mine, file, live, models, bundles, btime, window>>
    BY <1>4 DEF OperatorMaterializes, Clients, serverVars, worldVars
  <2> QED
    BY <2>1 DEF Quiet, Alone, Holding, Emptying, Clean, AlikeBut, Chosen, Written, Past, Loaded, Counting
<1>5. CASE TearsDown
  <2>1. PICK n \in Names : models[n].state = "unloading" /\ models' = [models EXCEPT ![n].state = "gone"]
    BY <1>5 DEF TearsDown
  <2>2. \A x \in Names : /\ x = n => models'[x].state = "gone" /\ models[x].state = "unloading"
                         /\ x # n => models'[x] = models[x]
    BY <1>t, <2>1 DEF Typed
  <2>3. UNCHANGED <<suite, at, pc, mine, repo, file, live, bundles, btime, window>>
    BY <1>5 DEF TearsDown, diskVars, worldVars
  <2>4. Emptying'
    BY <1>t, <2>2, <2>3, EntryKnown DEF Emptying
  <2> QED
    BY <2>3, <2>4 DEF Quiet, Alone, Holding, Clean, AlikeBut
<1> QED
  BY <1>2, <1>3, <1>4, <1>5 DEF Smoke, Server

\* A suite nobody interferes with goes on undisturbed.
LEMMA StaysUntroubled ==
  ASSUME IInv, Untroubled, [Next]_vars
  PROVE  Untroubled'
<1>0. UNCHANGED suite
  BY WasUndisturbed
<1>1. ASSUME Undisturbed' PROVE Quiet'
  <2>0. Undisturbed /\ Quiet
    BY <1>1, WasUndisturbed DEF Untroubled
  <2>1. CASE Runner
    BY <1>1, <2>0, <2>1, LoadsQuietly, PreparesQuietly, ServesQuietly, MeasuresQuietly, JudgesQuietly,
       ComparesQuietly DEF Runner
  <2>2. CASE Smoke \/ OperatorMaterializes \/ Server \/ Regenerates \/ Catalogues \/ ClockSteps
    BY <1>1, <2>0, <2>2, OthersQuietly
  <2>3. CASE UNCHANGED vars
    <3>1. UNCHANGED <<suite, pc, mine, repo, file, live, models, bundles, btime, window>>
      BY <2>3 DEF vars, diskVars, serverVars, worldVars
    <3> QED
      BY <2>0, <3>1 DEF Quiet, Alone, Holding, Emptying, Clean, AlikeBut
  <2> QED
    BY <2>1, <2>2, <2>3 DEF Next
<1> QED
  BY <1>0, <1>1 DEF Untroubled

\* Nothing an earlier session left on the server fails a suite: unless somebody
\* interferes, and if the catalog, the digests and the addresses are right, no step of
\* the lifecycle refuses, no count is off and no comparison fails.
THEOREM LeftoversHarmless == Spec => []LeftoversAreHarmless
<1>1. Init => IInv /\ Untroubled
  BY InitInv, QuietStart
<1>2. IInv /\ Untroubled /\ [Next]_vars => (IInv /\ Untroubled)'
  BY NextInv, StaysUntroubled
<1>3. Untroubled => LeftoversAreHarmless
  BY DEF Untroubled, Undisturbed, Quiet, LeftoversAreHarmless, Contracts
<1> QED
  BY <1>1, <1>2, <1>3, PTL DEF Spec

-----------------------------------------------------------------------------
(* Sums over finite sets.  The library reads its sum from a recursive      *)
(* function on the subsets; that there is exactly one such function is     *)
(* shown by a least counterexample, and the laws of the sum follow from it *)
(* the same way: zeros may be left out, sums of sums may be taken apart,   *)
(* and a sum grows with its terms and with its set.                        *)

\* A nonempty set of naturals has a least member: induction over data takes the
\* form of a least counterexample.
LEMMA LeastNatural ==
  ASSUME NEW T \in SUBSET Nat, T # {}
  PROVE  \E n \in T : \A k \in T : n <= k
<1> DEFINE Less == {p \in Nat \X Nat : p[1] < p[2]}
<1>1. IsWellFoundedOn(Less, Nat)
  BY NatLessThanWellFounded DEF OpToRel
<1> HIDE DEF Less
<1>2. PICK n \in T : \A k \in T : <<k, n>> \notin Less
  BY <1>1, WFMin
<1>3. \A k \in T : k < n => <<k, n>> \in Less
  BY DEF Less
<1>4. \A k \in T : ~(k < n)
  BY <1>2, <1>3
<1>5. \A k \in T : n <= k
  BY <1>4
<1> QED
  BY <1>5

\* The values of a function at the members of a set, added up.
Total(f, S) == MapThenSumSet(LAMBDA x : f[x], S)

\* The sum takes a set apart by this member of it.
FirstOf(s) == CHOOSE x \in s : TRUE

\* g is the recursive function the sum is read from.
Adds(g, f, S) ==
  g = [s \in SUBSET S |-> IF s = {} THEN 0 ELSE f[FirstOf(s)] + g[s \ {FirstOf(s)}]]

\* A sum is the value of such a function at the whole set.
LEMMA TotalIs ==
  ASSUME NEW f, NEW S
  PROVE  Total(f, S) = (CHOOSE g : Adds(g, f, S))[S]
BY DEF Total, MapThenSumSet, MapThenFoldSet, Adds, FirstOf

\* Of a set that has members, the first is one.
LEMMA FirstIsAMember ==
  ASSUME NEW s, s # {}
  PROVE  FirstOf(s) \in s
BY DEF FirstOf

\* A finite set without one of its members.
LEMMA OneLess ==
  ASSUME NEW s, IsFiniteSet(s), NEW x \in s
  PROVE  /\ IsFiniteSet(s \ {x}) /\ Cardinality(s) \in Nat
         /\ Cardinality(s \ {x}) \in Nat /\ Cardinality(s \ {x}) < Cardinality(s)
<1>1. IsFiniteSet(s \ {x}) /\ Cardinality(s \ {x}) = Cardinality(s) - 1
  BY FS_RemoveElement
<1>2. Cardinality(s) \in Nat /\ Cardinality(s \ {x}) \in Nat
  BY <1>1, FS_CardinalityType
<1> QED
  BY <1>1, <1>2

\* Two such functions agree wherever both are defined: the smallest set where they
\* differ is not empty, and they agree on what is left of it.
LEMMA AddsAgree ==
  ASSUME NEW f, NEW S, NEW T, NEW g, NEW h, Adds(g, f, S), Adds(h, f, T)
  PROVE  \A s \in (SUBSET S) \cap (SUBSET T) : IsFiniteSet(s) => g[s] = h[s]
<1> DEFINE Bad == {n \in Nat : \E s \in (SUBSET S) \cap (SUBSET T) :
                                  IsFiniteSet(s) /\ Cardinality(s) = n /\ g[s] # h[s]}
<1> SUFFICES ASSUME Bad # {} PROVE FALSE
  BY FS_CardinalityType
<1>1. PICK n \in Bad : \A k \in Bad : n <= k
  BY LeastNatural
<1>2. PICK s \in (SUBSET S) \cap (SUBSET T) : IsFiniteSet(s) /\ Cardinality(s) = n /\ g[s] # h[s]
  BY <1>1
<1>3. \A u \in (SUBSET S) \cap (SUBSET T) :
        /\ g[u] = IF u = {} THEN 0 ELSE f[FirstOf(u)] + g[u \ {FirstOf(u)}]
        /\ h[u] = IF u = {} THEN 0 ELSE f[FirstOf(u)] + h[u \ {FirstOf(u)}]
  BY DEF Adds
<1>4. s # {}
  BY <1>2, <1>3
<1> DEFINE rest == s \ {FirstOf(s)}
<1>5. IsFiniteSet(rest) /\ Cardinality(rest) \in Nat /\ Cardinality(rest) < n
  BY <1>2, <1>4, FirstIsAMember, OneLess
<1>6. rest \in (SUBSET S) \cap (SUBSET T)
  BY <1>2
<1>7. Cardinality(rest) \notin Bad
  <2>1. n \in Nat /\ ~(n <= Cardinality(rest))
    BY <1>1, <1>5
  <2> QED
    BY <1>1, <2>1
<1>8. g[rest] = h[rest]
  BY <1>5, <1>6, <1>7
<1> QED
  BY <1>2, <1>3, <1>4, <1>8

\* There is one for every finite set: a smallest set without one has one for each
\* of its parts, and their values at the whole part are such a function.
LEMMA AddsExists ==
  ASSUME NEW f, NEW S, IsFiniteSet(S)
  PROVE  \E g : Adds(g, f, S)
<1> DEFINE Summed(s) == \E g : Adds(g, f, s)
           Bad == {n \in Nat : \E s \in SUBSET S : IsFiniteSet(s) /\ Cardinality(s) = n /\ ~Summed(s)}
<1> SUFFICES ASSUME ~Summed(S) PROVE FALSE
  OBVIOUS
<1>1. Bad # {}
  BY FS_CardinalityType
<1>2. PICK n \in Bad : \A k \in Bad : n <= k
  BY <1>1, LeastNatural
<1>3. PICK s \in SUBSET S : IsFiniteSet(s) /\ Cardinality(s) = n /\ ~Summed(s)
  BY <1>2
<1> DEFINE G(t) == CHOOSE g : Adds(g, f, t)
           V(t) == G(t)[t]
           less(t) == t \ {FirstOf(t)}
           g == [t \in SUBSET s |-> IF t = {} THEN 0 ELSE f[FirstOf(t)] + V(less(t))]
<1>4. \A t \in SUBSET s : IsFiniteSet(t)
  BY <1>3, FS_Subset
<1>5. ASSUME NEW t \in SUBSET s, t # s PROVE Adds(G(t), f, t)
  <2>1. Cardinality(t) \in Nat /\ Cardinality(t) < n
    BY <1>3, <1>4, <1>5, FS_Subset, FS_CardinalityType
  <2>2. Summed(t)
    BY <1>2, <1>3, <1>4, <2>1
  <2> QED
    BY <2>2
<1>6. ASSUME NEW t \in SUBSET s, t # s PROVE V(t) = g[t]
  <2>1. Adds(G(t), f, t)
    BY <1>5, <1>6
  <2>2. V(t) = IF t = {} THEN 0 ELSE f[FirstOf(t)] + G(t)[less(t)]
    BY <2>1 DEF Adds
  <2>3. CASE t = {}
    BY <2>2, <2>3
  <2>4. CASE t # {}
    <3>1. FirstOf(t) \in t
      BY <2>4, FirstIsAMember
    <3>2. less(t) \in SUBSET s /\ less(t) # s /\ less(t) \in SUBSET t
      BY <3>1
    <3>3. Adds(G(less(t)), f, less(t))
      BY <1>5, <3>2
    <3>4. IsFiniteSet(less(t))
      BY <1>4, <3>2
    <3>5. G(t)[less(t)] = G(less(t))[less(t)]
      <4> HIDE DEF G, less
      <4> QED
        BY <2>1, <3>2, <3>3, <3>4, AddsAgree
    <3> QED
      BY <2>2, <2>4, <3>5
  <2> QED
    BY <2>3, <2>4
<1>7. ASSUME NEW t \in SUBSET s, t # {} PROVE V(less(t)) = g[less(t)]
  <2>1. less(t) \in SUBSET s /\ less(t) # s
    BY <1>7, FirstIsAMember
  <2> HIDE DEF V, g, less
  <2> QED
    BY <1>6, <2>1
<1>8. g = [t \in SUBSET s |-> IF t = {} THEN 0 ELSE f[FirstOf(t)] + g[less(t)]]
  <2> DEFINE h == [t \in SUBSET s |-> IF t = {} THEN 0 ELSE f[FirstOf(t)] + g[less(t)]]
  <2>1. ASSUME NEW t \in SUBSET s PROVE g[t] = h[t]
    <3>1. g[t] = IF t = {} THEN 0 ELSE f[FirstOf(t)] + V(less(t))
      OBVIOUS
    <3>2. h[t] = IF t = {} THEN 0 ELSE f[FirstOf(t)] + g[less(t)]
      OBVIOUS
    <3> HIDE DEF g, h, V, less
    <3> QED
      BY <3>1, <3>2, <1>7
  <2> QED
    BY <2>1
<1>9. Adds(g, f, s)
  BY <1>8 DEF Adds
<1> QED
  BY <1>3, <1>9

\* What a sum is made of: nothing, or its first member's value and the rest.
LEMMA TotalUnfolds ==
  ASSUME NEW f, NEW S, IsFiniteSet(S)
  PROVE  Total(f, S) = IF S = {} THEN 0 ELSE f[FirstOf(S)] + Total(f, S \ {FirstOf(S)})
<1> DEFINE G(t) == CHOOSE g : Adds(g, f, t)
           rest == S \ {FirstOf(S)}
<1>1. IsFiniteSet(rest)
  BY FS_RemoveElement
<1>2. Adds(G(S), f, S) /\ Adds(G(rest), f, rest)
  BY <1>1, AddsExists
<1>3. Total(f, S) = G(S)[S] /\ Total(f, rest) = G(rest)[rest]
  BY TotalIs
<1>4. G(S)[S] = IF S = {} THEN 0 ELSE f[FirstOf(S)] + G(S)[rest]
  BY <1>2 DEF Adds
<1>5. G(S)[rest] = G(rest)[rest]
  <2>1. rest \in (SUBSET S) \cap (SUBSET rest)
    OBVIOUS
  <2> HIDE DEF G, rest
  <2> QED
    BY <1>1, <1>2, <2>1, AddsAgree
<1> QED
  BY <1>3, <1>4, <1>5

\* h takes the parts of S apart member by member.
TakesApart(h, f, S) ==
  /\ h[{}] = 0
  /\ \A s \in SUBSET S : s # {} => h[s] = f[FirstOf(s)] + h[s \ {FirstOf(s)}]

\* The only function of the finite sets that takes them apart in this way is the
\* sum.
LEMMA TotalIsTheOnly ==
  ASSUME NEW f, NEW S, IsFiniteSet(S), NEW h, TakesApart(h, f, S)
  PROVE  Total(f, S) = h[S]
<1> DEFINE k == [s \in SUBSET S |-> h[s]]
<1>1. Adds(k, f, S)
  <2> DEFINE j == [s \in SUBSET S |-> IF s = {} THEN 0 ELSE f[FirstOf(s)] + k[s \ {FirstOf(s)}]]
  <2>1. ASSUME NEW s \in SUBSET S PROVE k[s] = j[s]
    <3>1. s \ {FirstOf(s)} \in SUBSET S
      OBVIOUS
    <3>2. k[s] = h[s] /\ k[s \ {FirstOf(s)}] = h[s \ {FirstOf(s)}]
      BY <3>1
    <3>0. h[s] = IF s = {} THEN 0 ELSE f[FirstOf(s)] + h[s \ {FirstOf(s)}]
      BY DEF TakesApart
    <3>3. j[s] = IF s = {} THEN 0 ELSE f[FirstOf(s)] + k[s \ {FirstOf(s)}]
      OBVIOUS
    <3> HIDE DEF j, k
    <3> QED
      BY <3>0, <3>2, <3>3
  <2>2. k = j
    BY <2>1
  <2> QED
    BY <2>2, Zenon DEF Adds
<1>2. PICK g : Adds(g, f, S) /\ Total(f, S) = g[S]
  BY TotalIs, AddsExists
<1>3. S \in (SUBSET S) \cap (SUBSET S)
  OBVIOUS
<1> HIDE DEF k
<1>4. g[S] = k[S]
  BY <1>1, <1>2, <1>3, AddsAgree
<1> QED
  BY <1>2, <1>4 DEF k

\* Sums of numbers are numbers, and natural ones of naturals.
LEMMA TotalType ==
  ASSUME NEW D, NEW f, NEW S \in SUBSET D, IsFiniteSet(S), NEW R, R = Int \/ R = Nat, f \in [D -> R]
  PROVE  Total(f, S) \in R
<1> DEFINE Bad == {n \in Nat : \E s \in SUBSET S : IsFiniteSet(s) /\ Cardinality(s) = n /\ Total(f, s) \notin R}
<1> SUFFICES ASSUME Bad # {} PROVE FALSE
  BY FS_CardinalityType
<1>1. PICK n \in Bad : \A k \in Bad : n <= k
  BY LeastNatural
<1>2. PICK s \in SUBSET S : IsFiniteSet(s) /\ Cardinality(s) = n /\ Total(f, s) \notin R
  BY <1>1
<1>3. Total(f, s) = IF s = {} THEN 0 ELSE f[FirstOf(s)] + Total(f, s \ {FirstOf(s)})
  BY <1>2, TotalUnfolds
<1>4. s # {}
  BY <1>2, <1>3
<1>5. FirstOf(s) \in s /\ f[FirstOf(s)] \in R
  BY <1>4, FirstIsAMember
<1> DEFINE rest == s \ {FirstOf(s)}
<1>6. IsFiniteSet(rest) /\ Cardinality(rest) \in Nat /\ Cardinality(rest) < n
  BY <1>2, <1>5, OneLess
<1>7. Cardinality(rest) \notin Bad
  <2>1. n \in Nat /\ ~(n <= Cardinality(rest))
    BY <1>1, <1>6
  <2> QED
    BY <1>1, <2>1
<1>8. Total(f, rest) \in R
  BY <1>6, <1>7
<1>9. f[FirstOf(s)] + Total(f, rest) \in R
  <2> HIDE DEF rest
  <2> QED
    BY <1>5, <1>8
<1> QED
  BY <1>2, <1>3, <1>4, <1>9

\* Any member may be taken out first.
LEMMA TotalWithout ==
  ASSUME NEW D, NEW f \in [D -> Int], NEW S \in SUBSET D, IsFiniteSet(S), NEW x \in S
  PROVE  Total(f, S) = f[x] + Total(f, S \ {x})
<1> DEFINE Apart(s) == \A y \in s : Total(f, s) = f[y] + Total(f, s \ {y})
           Bad == {n \in Nat : \E s \in SUBSET S : IsFiniteSet(s) /\ Cardinality(s) = n /\ ~Apart(s)}
<1> SUFFICES ASSUME Bad # {} PROVE FALSE
  BY FS_CardinalityType
<1>1. PICK n \in Bad : \A k \in Bad : n <= k
  BY LeastNatural
<1>2. PICK s \in SUBSET S : IsFiniteSet(s) /\ Cardinality(s) = n /\ ~Apart(s)
  BY <1>1
<1>3. PICK y \in s : Total(f, s) # f[y] + Total(f, s \ {y})
  BY <1>2
<1>4. ASSUME NEW z \in s PROVE Apart(s \ {z})
  <2>1. IsFiniteSet(s \ {z}) /\ Cardinality(s \ {z}) \in Nat /\ Cardinality(s \ {z}) < n
    BY <1>2, OneLess
  <2>2. n \in Nat /\ ~(n <= Cardinality(s \ {z}))
    BY <1>1, <2>1
  <2>3. Cardinality(s \ {z}) \notin Bad
    BY <1>1, <2>2
  <2> QED
    BY <2>1, <2>3
<1>5. PICK c : c = FirstOf(s)
  OBVIOUS
<1>6. c \in s /\ Total(f, s) = f[c] + Total(f, s \ {c})
  BY <1>2, <1>3, <1>5, TotalUnfolds, FirstIsAMember
<1>7. c # y
  BY <1>3, <1>6
<1>8. Total(f, s \ {c}) = f[y] + Total(f, (s \ {c}) \ {y})
  BY <1>4, <1>6, <1>7
<1>9. Total(f, s \ {y}) = f[c] + Total(f, (s \ {y}) \ {c})
  BY <1>4, <1>6, <1>7
<1>10. (s \ {c}) \ {y} = (s \ {y}) \ {c}
  OBVIOUS
<1>11. f[c] \in Int /\ f[y] \in Int /\ Total(f, (s \ {c}) \ {y}) \in Int
  <2>1. IsFiniteSet((s \ {c}) \ {y})
    BY <1>2, FS_RemoveElement
  <2>2. (s \ {c}) \ {y} \in SUBSET D
    OBVIOUS
  <2> QED
    BY <1>6, <2>1, <2>2, TotalType
<1> QED
  BY <1>3, <1>6, <1>8, <1>9, <1>10, <1>11

\* No member, and one.
LEMMA TotalOfNone ==
  ASSUME NEW f
  PROVE  Total(f, {}) = 0
BY TotalUnfolds, FS_EmptySet

\* The sum depends on the function at the members only; what is zero there may be
\* left out.
LEMMA TotalLeavesZeros ==
  ASSUME NEW D, NEW f \in [D -> Int], NEW g, NEW S \in SUBSET D, IsFiniteSet(S), NEW E,
         \A x \in S : f[x] = IF x \in E THEN g[x] ELSE 0,
         NEW C, S \cap E \in SUBSET C, g \in [C -> Int]
  PROVE  Total(f, S) = Total(g, S \cap E)
<1> DEFINE h == [s \in SUBSET S |-> Total(g, s \cap E)]
<1>1. h[{}] = 0
  <2>1. {} \in SUBSET S /\ {} \cap E = {}
    OBVIOUS
  <2>2. h[{}] = Total(g, {} \cap E)
    BY <2>1
  <2> HIDE DEF h
  <2> QED
    BY <2>1, <2>2, TotalOfNone
<1>2. ASSUME NEW s \in SUBSET S, s # {} PROVE h[s] = f[FirstOf(s)] + h[s \ {FirstOf(s)}]
  <2>1. PICK x : x = FirstOf(s)
    OBVIOUS
  <2>2. x \in s
    BY <1>2, <2>1, FirstIsAMember
  <2>3. IsFiniteSet(s \cap E) /\ IsFiniteSet((s \ {x}) \cap E)
    BY FS_Subset
  <2>4. h[s] = Total(g, s \cap E) /\ h[s \ {x}] = Total(g, (s \ {x}) \cap E)
    OBVIOUS
  <2>5. CASE x \in E
    <3>1. Total(g, s \cap E) = g[x] + Total(g, (s \cap E) \ {x})
      <4>1. s \cap E \in SUBSET C /\ x \in s \cap E
        BY <2>2, <2>5
      <4> QED
        BY <2>3, <4>1, TotalWithout
    <3>2. (s \cap E) \ {x} = (s \ {x}) \cap E
      OBVIOUS
    <3>3. f[x] = g[x]
      BY <2>2, <2>5
    <3> HIDE DEF h
    <3>4. h[s] = f[x] + h[s \ {x}]
      BY <2>4, <3>1, <3>2, <3>3
    <3> QED
      BY <2>1, <3>4, Zenon
  <2>6. CASE x \notin E
    <3>1. s \cap E = (s \ {x}) \cap E
      BY <2>6
    <3>2. f[x] = 0
      BY <2>2, <2>6
    <3>3. Total(g, s \cap E) \in Int
      <4>1. s \cap E \in SUBSET C
        OBVIOUS
      <4> QED
        BY <2>3, <4>1, TotalType
    <3> HIDE DEF h
    <3>4. h[s] = h[s \ {x}] /\ h[s] \in Int
      BY <2>4, <3>1, <3>3, Zenon
    <3>5. h[s] = f[x] + h[s \ {x}]
      BY <3>2, <3>4
    <3> QED
      BY <2>1, <3>5, Zenon
  <2> QED
    BY <2>5, <2>6
<1>3. h[S] = Total(g, S \cap E)
  BY DEF h
<1>4. Total(f, S) = h[S]
  <2> HIDE DEF h
  <2>1. TakesApart(h, f, S)
    BY <1>1, <1>2 DEF TakesApart
  <2> QED
    BY <2>1, TotalIsTheOnly
<1> QED
  BY <1>3, <1>4

\* Sums are added term by term.
LEMMA TotalPlus ==
  ASSUME NEW D, NEW f \in [D -> Int], NEW g \in [D -> Int], NEW S \in SUBSET D, IsFiniteSet(S),
         NEW k, \A x \in S : k[x] = f[x] + g[x]
  PROVE  Total(k, S) = Total(f, S) + Total(g, S)
<1> DEFINE h == [s \in SUBSET S |-> Total(f, s) + Total(g, s)]
<1>1. h[{}] = 0
  <2>1. h[{}] = Total(f, {}) + Total(g, {})
    OBVIOUS
  <2> HIDE DEF h
  <2> QED
    BY <2>1, TotalOfNone
<1>2. ASSUME NEW s \in SUBSET S, s # {} PROVE h[s] = k[FirstOf(s)] + h[s \ {FirstOf(s)}]
  <2>1. PICK x : x = FirstOf(s)
    OBVIOUS
  <2>2. x \in s
    BY <1>2, <2>1, FirstIsAMember
  <2>3. IsFiniteSet(s) /\ IsFiniteSet(s \ {x}) /\ s \in SUBSET D /\ s \ {x} \in SUBSET D
    BY FS_Subset
  <2>4. /\ Total(f, s) = f[x] + Total(f, s \ {x})
        /\ Total(g, s) = g[x] + Total(g, s \ {x})
    BY <2>2, <2>3, TotalWithout
  <2>5. Total(f, s \ {x}) \in Int /\ Total(g, s \ {x}) \in Int /\ f[x] \in Int /\ g[x] \in Int
    BY <2>2, <2>3, TotalType
  <2>6. h[s] = Total(f, s) + Total(g, s) /\ h[s \ {x}] = Total(f, s \ {x}) + Total(g, s \ {x})
    OBVIOUS
  <2>7. k[x] = f[x] + g[x]
    BY <2>2
  <2> HIDE DEF h
  <2>8. h[s] = k[x] + h[s \ {x}]
    BY <2>4, <2>5, <2>6, <2>7
  <2> QED
    BY <2>1, <2>8, Zenon
<1>3. h[S] = Total(f, S) + Total(g, S)
  BY DEF h
<1>4. Total(k, S) = h[S]
  <2> HIDE DEF h
  <2>1. TakesApart(h, k, S)
    BY <1>1, <1>2 DEF TakesApart
  <2> QED
    BY <2>1, TotalIsTheOnly
<1> QED
  BY <1>3, <1>4

\* The sum over two sets that have no member in common.
LEMMA TotalOfBoth ==
  ASSUME NEW D, NEW f \in [D -> Int], NEW A \in SUBSET D, NEW B \in SUBSET D,
         IsFiniteSet(A), IsFiniteSet(B), A \cap B = {}
  PROVE  Total(f, A \cup B) = Total(f, A) + Total(f, B)
<1> DEFINE h == [s \in SUBSET B |-> Total(f, A \cup s) - Total(f, A)]
<1>0. Total(f, A) \in Int
  BY TotalType
<1>1. h[{}] = 0
  <2>1. h[{}] = Total(f, A \cup {}) - Total(f, A)
    OBVIOUS
  <2>2. A \cup {} = A
    OBVIOUS
  <2> HIDE DEF h
  <2> QED
    BY <1>0, <2>1, <2>2
<1>2. ASSUME NEW s \in SUBSET B, s # {} PROVE h[s] = f[FirstOf(s)] + h[s \ {FirstOf(s)}]
  <2>1. PICK x : x = FirstOf(s)
    OBVIOUS
  <2>2. x \in s /\ x \notin A /\ f[x] \in Int
    BY <1>2, <2>1, FirstIsAMember
  <2>3. IsFiniteSet(A \cup s) /\ A \cup s \in SUBSET D
    BY FS_Subset, FS_Union
  <2>4. Total(f, A \cup s) = f[x] + Total(f, (A \cup s) \ {x})
    BY <2>2, <2>3, TotalWithout
  <2>5. (A \cup s) \ {x} = A \cup (s \ {x})
    BY <2>2
  <2>6. Total(f, A \cup (s \ {x})) \in Int
    <3>1. IsFiniteSet(A \cup (s \ {x})) /\ A \cup (s \ {x}) \in SUBSET D
      BY FS_Subset, FS_Union
    <3> QED
      BY <3>1, TotalType
  <2>7. h[s] = Total(f, A \cup s) - Total(f, A) /\ h[s \ {x}] = Total(f, A \cup (s \ {x})) - Total(f, A)
    OBVIOUS
  <2> HIDE DEF h
  <2>8. h[s] = f[x] + h[s \ {x}]
    BY <1>0, <2>2, <2>4, <2>5, <2>6, <2>7
  <2> QED
    BY <2>1, <2>8, Zenon
<1>3. h[B] = Total(f, A \cup B) - Total(f, A)
  BY DEF h
<1>4. Total(f, A \cup B) \in Int
  <2>1. IsFiniteSet(A \cup B) /\ A \cup B \in SUBSET D
    BY FS_Union
  <2> QED
    BY <2>1, TotalType
<1>5. Total(f, B) = h[B]
  <2> HIDE DEF h
  <2>1. TakesApart(h, f, B)
    BY <1>1, <1>2 DEF TakesApart
  <2> QED
    BY <2>1, TotalIsTheOnly
<1> QED
  BY <1>0, <1>3, <1>4, <1>5

\* With naturals the sum over more is no less.
LEMMA TotalGrows ==
  ASSUME NEW D, NEW f \in [D -> Nat], NEW A \in SUBSET D, IsFiniteSet(A), NEW B \in SUBSET A
  PROVE  Total(f, B) \in Nat /\ Total(f, A) \in Nat /\ Total(f, B) <= Total(f, A)
<1>1. IsFiniteSet(B) /\ IsFiniteSet(A \ B) /\ B \cup (A \ B) = A /\ B \cap (A \ B) = {}
  BY FS_Subset
<1>2. f \in [D -> Int] /\ B \in SUBSET D /\ A \ B \in SUBSET D
  OBVIOUS
<1>3. Total(f, A) = Total(f, B) + Total(f, A \ B)
  BY <1>1, <1>2, TotalOfBoth
<1>4. Total(f, A) \in Nat /\ Total(f, B) \in Nat /\ Total(f, A \ B) \in Nat
  BY <1>1, <1>2, TotalType
<1> QED
  BY <1>3, <1>4

-----------------------------------------------------------------------------
(* The reported percentile.                                                *)

\* The pauses below the upper edge of a bucket, and those in it.
Below(D, i)    == {d \in D : d < Edges[i + 1]}
InBucket(D, i) == {d \in D : BucketOf(d) = i}

\* The lengths the histogram has buckets for.
Lengths == 0 .. Infinite - 1

\* They are finitely many.
LEMMA LengthsFinite == IsFiniteSet(Lengths) /\ \A d : d \in Lengths <=> d \in Nat /\ d < 1000
<1>1. PICK n \in Int : n = Infinite - 1
  BY DEF Infinite
<1>2. IsFiniteSet(0 .. n)
  BY FS_Interval
<1> QED
  BY <1>1, <1>2 DEF Lengths, Infinite

\* The histogram's edges rise.
LEMMA EdgesRise ==
  /\ Infinite = 1000 /\ Len(Edges) = 4 /\ Buckets = 1 .. 3
  /\ Edges[1] = -1000 /\ Edges[2] = 2 /\ Edges[3] = 8 /\ Edges[4] = 1000
BY DEF Infinite, Edges, Buckets

\* A pause is in one bucket, between its edges.
LEMMA BucketFound ==
  ASSUME NEW d \in Lengths
  PROVE  /\ BucketOf(d) \in Buckets
         /\ Edges[BucketOf(d)] <= d /\ d < Edges[BucketOf(d) + 1]
<1>1. \E i \in Buckets : Edges[i] <= d /\ d < Edges[i + 1]
  <2>0. d \in Nat /\ d < 1000
    BY LengthsFinite
  <2>1. d < 2 => Edges[1] <= d /\ d < Edges[1 + 1]
    BY <2>0, EdgesRise
  <2>2. d >= 2 /\ d < 8 => Edges[2] <= d /\ d < Edges[2 + 1]
    BY <2>0, EdgesRise
  <2>3. d >= 8 => Edges[3] <= d /\ d < Edges[3 + 1]
    BY <2>0, EdgesRise
  <2>4. 1 \in Buckets /\ 2 \in Buckets /\ 3 \in Buckets
    BY EdgesRise
  <2>5. d < 2 \/ (d >= 2 /\ d < 8) \/ d >= 8
    BY <2>0
  <2> QED
    BY <2>1, <2>2, <2>3, <2>4, <2>5
<1>2. PICK b : b = BucketOf(d)
  OBVIOUS
<1>3. b \in Buckets /\ Edges[b] <= d /\ d < Edges[b + 1]
  BY <1>1, <1>2 DEF BucketOf
<1> QED
  BY <1>2, <1>3

\* A bucket adds its pauses to those below it.
LEMMA BucketAdds ==
  ASSUME NEW D \in SUBSET Lengths, NEW i \in Buckets
  PROVE  /\ Below(D, i) = Below(D, i - 1) \cup InBucket(D, i)
         /\ Below(D, i - 1) \cap InBucket(D, i) = {}
         /\ i = 1 => Below(D, i - 1) = {}
         /\ i = 3 => Below(D, i) = D
<1>1. \A d \in D : (d < Edges[i + 1] <=> d < Edges[i] \/ BucketOf(d) = i) /\ ~(d < Edges[i] /\ BucketOf(d) = i)
  <2> SUFFICES ASSUME NEW d \in D
               PROVE  (d < Edges[i + 1] <=> d < Edges[i] \/ BucketOf(d) = i) /\ ~(d < Edges[i] /\ BucketOf(d) = i)
    OBVIOUS
  <2>1. PICK b : b = BucketOf(d)
    OBVIOUS
  <2>2. b \in 1 .. 3 /\ Edges[b] <= d /\ d < Edges[b + 1]
    <3>1. BucketOf(d) \in Buckets /\ Edges[BucketOf(d)] <= d /\ d < Edges[BucketOf(d) + 1]
      BY BucketFound
    <3> QED
      BY <2>1, <3>1, EdgesRise
  <2>3. i \in 1 .. 3 /\ d \in Nat /\ d < 1000
    BY EdgesRise, LengthsFinite
  <2>4. /\ b = 1 => d < 2
        /\ b = 2 => d >= 2 /\ d < 8
        /\ b = 3 => d >= 8
    BY <2>2, EdgesRise
  <2>5. (d < Edges[i + 1] <=> d < Edges[i] \/ b = i) /\ ~(d < Edges[i] /\ b = i)
    <3>1. CASE i = 1
      BY <2>2, <2>3, <2>4, <3>1, EdgesRise
    <3>2. CASE i = 2
      BY <2>2, <2>3, <2>4, <3>2, EdgesRise
    <3>3. CASE i = 3
      BY <2>2, <2>3, <2>4, <3>3, EdgesRise
    <3> QED
      BY <2>3, <3>1, <3>2, <3>3
  <2> QED
    BY <2>1, <2>5
<1>2. (i - 1) + 1 = i
  BY EdgesRise
<1>3. Below(D, i - 1) = {d \in D : d < Edges[i]}
  BY <1>2 DEF Below
<1>4. i = 1 => \A d \in D : ~(d < Edges[i])
  BY EdgesRise, LengthsFinite
<1>5. i = 3 => \A d \in D : d < Edges[i + 1]
  BY EdgesRise, LengthsFinite
<1>6. Below(D, i) = {d \in D : d < Edges[i + 1]} /\ InBucket(D, i) = {d \in D : BucketOf(d) = i}
  BY DEF Below, InBucket
<1> QED
  BY <1>1, <1>3, <1>4, <1>5, <1>6

\* The pauses of a run, and those of the process before it: lengths that the
\* histogram has buckets for.
IsBag(pauses, D) == D \in SUBSET Lengths /\ pauses \in [D -> Nat]

\* The process's bag when the run is over.
After(earlier, during) ==
  [d \in DOMAIN during |-> during[d] + (IF d \in DOMAIN earlier THEN earlier[d] ELSE 0)]

\* What the two readings differ by is what the run has in the bucket.
LEMMA CountsAreTheRuns ==
  ASSUME NEW D, NEW E \in SUBSET D, NEW during, NEW earlier, IsBag(during, D), IsBag(earlier, E),
         NEW i \in Buckets
  PROVE  CountsBetween(Histogram(earlier), Histogram(After(earlier, during)))[i] = Total(during, InBucket(D, i))
<1> DEFINE total == After(earlier, during)
           part  == [d \in D |-> IF d \in E THEN earlier[d] ELSE 0]
<1>1. /\ DOMAIN during = D /\ DOMAIN earlier = E /\ during \in [D -> Int] /\ earlier \in [E -> Int]
      /\ D \in SUBSET Lengths
  BY DEF IsBag
<1>2. part \in [D -> Int]
  BY <1>1
<1>3. IsFiniteSet(InBucket(D, i)) /\ IsFiniteSet(InBucket(E, i))
  <2>1. IsFiniteSet(Lengths)
    BY LengthsFinite
  <2>2. InBucket(D, i) \in SUBSET Lengths /\ InBucket(E, i) \in SUBSET Lengths
    BY <1>1 DEF InBucket
  <2> QED
    BY <2>1, <2>2, FS_Subset
<1>4. InBucket(D, i) \in SUBSET D /\ InBucket(E, i) \in SUBSET E /\ InBucket(D, i) \cap E = InBucket(E, i)
  BY DEF InBucket
<1>5. \A d \in D : total[d] = during[d] + part[d]
  BY <1>1 DEF After
<1>6. Histogram(earlier)[i] = Total(earlier, InBucket(E, i))
  BY <1>1 DEF Histogram, Total, InBucket
<1>7. Histogram(total)[i] = Total(total, InBucket(D, i))
  <2>1. DOMAIN total = D
    BY <1>1 DEF After
  <2> HIDE DEF total
  <2> QED
    BY <2>1 DEF Histogram, Total, InBucket
<1>8. Total(total, InBucket(D, i)) = Total(during, InBucket(D, i)) + Total(part, InBucket(D, i))
  <2>1. \A d \in InBucket(D, i) : total[d] = during[d] + part[d]
    BY <1>4, <1>5
  <2> HIDE DEF total, part
  <2> QED
    BY <1>1, <1>2, <1>3, <1>4, <2>1, TotalPlus
<1>9. Total(part, InBucket(D, i)) = Total(earlier, InBucket(E, i))
  <2>1. \A d \in InBucket(D, i) : part[d] = IF d \in E THEN earlier[d] ELSE 0
    BY <1>4
  <2>2. Total(part, InBucket(D, i)) = Total(earlier, InBucket(D, i) \cap E)
    <3> HIDE DEF part
    <3>1. InBucket(D, i) \cap E \in SUBSET E
      OBVIOUS
    <3> QED
      BY <1>1, <1>2, <1>3, <1>4, <2>1, <3>1, TotalLeavesZeros
  <2> HIDE DEF part
  <2> QED
    BY <1>4, <2>2
<1>10. Total(during, InBucket(D, i)) \in Int /\ Total(earlier, InBucket(E, i)) \in Int
  <2>1. Total(during, InBucket(D, i)) \in Int
    BY <1>1, <1>3, <1>4, TotalType
  <2>2. Total(earlier, InBucket(E, i)) \in Int
    BY <1>1, <1>3, <1>4, TotalType
  <2> QED
    BY <2>1, <2>2
<1>11. CountsBetween(Histogram(earlier), Histogram(total))[i] = Histogram(total)[i] - Histogram(earlier)[i]
  BY DEF CountsBetween
<1> HIDE DEF total, part
<1>12. CountsBetween(Histogram(earlier), Histogram(total))[i] = Total(during, InBucket(D, i))
  BY <1>6, <1>7, <1>8, <1>9, <1>10, <1>11
<1> QED
  BY <1>12 DEF total

\* A running sum over the buckets is the run's pauses below the last of them.
LEMMA ObservationsAreBelow ==
  ASSUME NEW D \in SUBSET Lengths, NEW during \in [D -> Nat], NEW counts,
         counts = [i \in Buckets |-> counts[i]], \A i \in Buckets : counts[i] = Total(during, InBucket(D, i))
  PROVE  \A i \in Buckets : Observations(counts, i) = Total(during, Below(D, i))
<1>1. \A i \in Buckets : /\ IsFiniteSet(Below(D, i - 1)) /\ IsFiniteSet(InBucket(D, i))
                         /\ Below(D, i - 1) \in SUBSET D /\ InBucket(D, i) \in SUBSET D
  <2>1. IsFiniteSet(D)
    BY LengthsFinite, FS_Subset
  <2>2. \A i : Below(D, i - 1) \in SUBSET D /\ InBucket(D, i) \in SUBSET D
    BY DEF Below, InBucket
  <2> QED
    BY <2>1, <2>2, FS_Subset
<1>2. during \in [D -> Int]
  OBVIOUS
<1>3. \A i \in Buckets : Total(during, Below(D, i)) = Total(during, Below(D, i - 1)) + counts[i]
  <2> SUFFICES ASSUME NEW i \in Buckets
               PROVE  Total(during, Below(D, i)) = Total(during, Below(D, i - 1)) + counts[i]
    OBVIOUS
  <2>1. Below(D, i) = Below(D, i - 1) \cup InBucket(D, i) /\ Below(D, i - 1) \cap InBucket(D, i) = {}
    BY BucketAdds
  <2>2. Total(during, Below(D, i - 1) \cup InBucket(D, i))
          = Total(during, Below(D, i - 1)) + Total(during, InBucket(D, i))
    BY <1>1, <1>2, <2>1, TotalOfBoth
  <2> QED
    BY <2>1, <2>2
<1>4. counts \in [Buckets -> Int]
  <2>1. \A i \in Buckets : Total(during, InBucket(D, i)) \in Int
    BY <1>1, <1>2, TotalType
  <2> QED
    BY <2>1
<1>5. \A i \in Buckets : Observations(counts, i) = counts[i] + Total(counts, 1 .. i - 1)
  <2> SUFFICES ASSUME NEW i \in Buckets
               PROVE  Observations(counts, i) = counts[i] + Total(counts, 1 .. i - 1)
    OBVIOUS
  <2>1. i \in Nat /\ i >= 1 /\ 1 .. i \in SUBSET Buckets /\ i \in 1 .. i /\ (1 .. i) \ {i} = 1 .. i - 1
    BY EdgesRise
  <2>2. IsFiniteSet(1 .. i)
    BY <2>1, FS_Interval
  <2>3. Total(counts, 1 .. i) = counts[i] + Total(counts, (1 .. i) \ {i})
    <3>1. PICK S : S = 1 .. i
      OBVIOUS
    <3>2. S \in SUBSET Buckets /\ i \in S /\ IsFiniteSet(S)
      BY <2>1, <2>2, <3>1
    <3>3. Total(counts, S) = counts[i] + Total(counts, S \ {i})
      BY <1>4, <3>2, TotalWithout
    <3> QED
      BY <3>1, <3>3
  <2>4. Observations(counts, i) = Total(counts, 1 .. i)
    BY DEF Observations, Total
  <2> QED
    BY <2>1, <2>3, <2>4
<1>6. Total(counts, 1 .. 0) = 0 /\ Total(during, Below(D, 0)) = 0
  <2>1. 1 .. 0 = {} /\ Below(D, 0) = {}
    <3>1. 1 \in Buckets /\ 1 - 1 = 0
      BY EdgesRise
    <3> QED
      BY <3>1, BucketAdds
  <2> QED
    BY <2>1, TotalOfNone
<1>7. \A i \in Buckets : Total(during, Below(D, i - 1)) \in Int /\ counts[i] \in Int
  <2>1. \A i \in Buckets : Total(during, Below(D, i - 1)) \in Int
    BY <1>1, <1>2, TotalType
  <2> QED
    BY <1>4, <2>1
<1>8. \A i \in Buckets : Total(counts, 1 .. i) = counts[i] + Total(counts, 1 .. i - 1)
  BY <1>5 DEF Observations, Total
<1> DEFINE run(i) == Total(during, Below(D, i))
           obs(i) == Total(counts, 1 .. i)
<1>9. /\ run(0) = 0 /\ obs(0) = 0
      /\ \A i \in 1 .. 3 : /\ run(i) = run(i - 1) + counts[i] /\ obs(i) = counts[i] + obs(i - 1)
                           /\ run(i - 1) \in Int /\ counts[i] \in Int
  BY <1>3, <1>6, <1>7, <1>8, EdgesRise
<1> HIDE DEF run, obs
<1>10. obs(1) = run(1)
  <2>1. /\ run(1) = run(0) + counts[1] /\ obs(1) = counts[1] + obs(0) /\ counts[1] \in Int
    BY <1>9
  <2> QED
    BY <1>9, <2>1
<1>11. obs(2) = run(2)
  <2>1. /\ run(2) = run(1) + counts[2] /\ obs(2) = counts[2] + obs(1) /\ counts[2] \in Int /\ run(1) \in Int
    BY <1>9
  <2> QED
    BY <1>10, <2>1
<1>12. obs(3) = run(3)
  <2>1. /\ run(3) = run(2) + counts[3] /\ obs(3) = counts[3] + obs(2) /\ counts[3] \in Int /\ run(2) \in Int
    BY <1>9
  <2> QED
    BY <1>11, <2>1
<1>13. \A i \in Buckets : obs(i) = run(i)
  BY <1>10, <1>11, <1>12, EdgesRise
<1> QED
  BY <1>13 DEF Observations, Total, run, obs

\* The pauses that are no longer than one.
UpTo(D, d) == {e \in D : e <= d}

\* Lengths have a greatest among them.
LEMMA GreatestLength ==
  ASSUME NEW T \in SUBSET Lengths, T # {}
  PROVE  \E e \in T : \A d \in T : d <= e
<1> DEFINE gaps == {g \in Nat : \E d \in T : g = 1000 - d}
<1>1. \A d \in T : d \in Nat /\ d < 1000
  BY LengthsFinite
<1>2. \A d \in T : 1000 - d \in gaps
  BY <1>1
<1>3. gaps \in SUBSET Nat /\ gaps # {}
  BY <1>2
<1>4. PICK g \in gaps : \A x \in gaps : g <= x
  BY <1>3, LeastNatural
<1>5. PICK e \in T : g = 1000 - e
  BY <1>4
<1>6. \A d \in T : g <= 1000 - d
  BY <1>2, <1>4
<1>7. \A d \in T : d <= e
  BY <1>1, <1>5, <1>6
<1> QED
  BY <1>7

\* Sums over a bag of pauses are naturals, and grow with the set.
LEMMA BagSums ==
  ASSUME NEW D, NEW during, IsBag(during, D), NEW A \in SUBSET D
  PROVE  /\ IsFiniteSet(A) /\ Total(during, A) \in Nat
         /\ \A B \in SUBSET A : Total(during, B) \in Nat /\ Total(during, B) <= Total(during, A)
<1>1. D \in SUBSET Lengths /\ during \in [D -> Nat]
  BY DEF IsBag
<1>2. A \in SUBSET Lengths
  BY <1>1
<1>3. IsFiniteSet(A)
  BY <1>2, LengthsFinite, FS_Subset
<1>4. \A B \in SUBSET A : Total(during, B) \in Nat /\ Total(during, A) \in Nat /\ Total(during, B) <= Total(during, A)
  BY <1>1, <1>3, TotalGrows
<1> QED
  BY <1>3, <1>4

\* The smallest number of hundredths that is enough.
LEMMA TargetIsEnough ==
  ASSUME NEW n \in Nat, n > 0, NEW k \in Nat
  PROVE  /\ (99 * n + 99) \div 100 \in Nat /\ (99 * n + 99) \div 100 > 0
         /\ 100 * k >= 99 * n <=> k >= (99 * n + 99) \div 100
OBVIOUS

\* The run's own percentile: one of its lengths, the least that is reached by so many.
LEMMA PercentileFound ==
  ASSUME NEW D, NEW during, IsBag(during, D), D # {}
  PROVE  LET p == TrueP99(during)
         IN /\ p \in D
            /\ 100 * Total(during, UpTo(D, p)) >= 99 * Total(during, D)
            /\ \A d \in D : 100 * Total(during, UpTo(D, d)) >= 99 * Total(during, D) => p <= d
<1> DEFINE S == {d \in D : 100 * Total(during, UpTo(D, d)) >= 99 * Total(during, D)}
<1>1. D \in SUBSET Lengths /\ DOMAIN during = D
  BY DEF IsBag
<1>2. D \in SUBSET Nat
  BY <1>1, LengthsFinite
<1>3. PICK e \in D : \A d \in D : d <= e
  BY <1>1, GreatestLength
<1>4. UpTo(D, e) = D
  BY <1>3 DEF UpTo
<1>5. Total(during, D) \in Nat
  BY BagSums
<1>6. e \in S
  BY <1>4, <1>5
<1>7. S \in SUBSET Nat /\ S # {}
  BY <1>2, <1>6
<1>8. \E d \in S : \A x \in S : d <= x
  BY <1>7, LeastNatural
<1>9. TrueP99(during) = Min(S)
  BY <1>1 DEF TrueP99, Total, UpTo
<1>10. PICK p : p = Min(S)
  OBVIOUS
<1> HIDE DEF S
<1>11. p \in S /\ \A x \in S : p <= x
  BY <1>8, <1>10 DEF Min
<1>12. \A d : d \in S <=> d \in D /\ 100 * Total(during, UpTo(D, d)) >= 99 * Total(during, D)
  BY DEF S
<1>13. TrueP99(during) = p
  BY <1>9, <1>10
<1> QED
  BY <1>11, <1>12, <1>13

\* The bucket whose running sum first reaches the target.
LEMMA ReachFound ==
  ASSUME NEW counts, NEW target \in Nat, \A i \in Buckets : Observations(counts, i) \in Nat,
         NEW b \in Buckets, Observations(counts, b) >= target
  PROVE  LET r == CHOOSE i \in Buckets : /\ Observations(counts, i) >= target
                                         /\ \A j \in 1 .. i - 1 : Observations(counts, j) < target
         IN r \in Buckets /\ Observations(counts, r) >= target /\ r <= b
<1> DEFINE obs(i) == Observations(counts, i)
           R == {i \in Nat : i \in Buckets /\ obs(i) >= target}
<1>1. b \in Nat /\ b \in R
  BY EdgesRise
<1>2. PICK a \in R : \A i \in R : a <= i
  BY <1>1, LeastNatural
<1>3. \A j \in 1 .. a - 1 : obs(j) < target
  <2> SUFFICES ASSUME NEW j \in 1 .. a - 1 PROVE obs(j) < target
    OBVIOUS
  <2>1. j \in Nat /\ j \in Buckets /\ ~(a <= j)
    BY <1>2, EdgesRise
  <2>2. obs(j) \in Nat
    BY <2>1
  <2>3. j \notin R
    BY <1>2, <2>1
  <2> QED
    BY <2>1, <2>2, <2>3
<1>4. PICK r : r = CHOOSE i \in Buckets : obs(i) >= target /\ \A j \in 1 .. i - 1 : obs(j) < target
  OBVIOUS
<1>5. r \in Buckets /\ obs(r) >= target /\ \A j \in 1 .. r - 1 : obs(j) < target
  <2>1. a \in Buckets /\ obs(a) >= target
    BY <1>2
  <2> HIDE DEF obs
  <2> QED
    BY <1>3, <1>4, <2>1
<1>6. r <= b
  <2> SUFFICES ASSUME r > b PROVE FALSE
    BY <1>5, EdgesRise
  <2>1. b \in 1 .. r - 1
    BY <1>5, EdgesRise
  <2>2. obs(b) < target /\ obs(b) \in Nat
    BY <1>5, <2>1
  <2> QED
    BY <2>2
<1> QED
  BY <1>4, <1>5, <1>6

\* However many pauses the process had before, and wherever the run's own lie: the
\* percentile that is reported is no smaller than the run's own, unless that is in
\* the bucket without an upper edge.
LEMMA PercentileBounds ==
  ASSUME NEW D, NEW E \in SUBSET D, NEW during, NEW earlier, IsBag(during, D), IsBag(earlier, E),
         \E d \in D : during[d] > 0,
         bucketBounds(BucketOf(TrueP99(during))).hi # Infinite
  PROVE  TrueP99(during) <= pauseDelta(Histogram(earlier), Histogram(After(earlier, during))).p99
<1> DEFINE counts == CountsBetween(Histogram(earlier), Histogram(After(earlier, during)))
           obs(i) == Observations(counts, i)
           n == Total(during, D)
           target == (99 * n + 99) \div 100
<1>1. D \in SUBSET Lengths /\ during \in [D -> Nat] /\ D # {}
  BY DEF IsBag
<1>2. \A i \in Buckets : counts[i] = Total(during, InBucket(D, i))
  BY CountsAreTheRuns
<1>3. \A i \in Buckets : obs(i) = Total(during, Below(D, i))
  <2>1. counts = [i \in Buckets |-> counts[i]]
    BY DEF CountsBetween
  <2> HIDE DEF counts
  <2> QED
    BY <1>1, <1>2, <2>1, ObservationsAreBelow
<1> HIDE DEF counts
<1>4. \A i \in Buckets : Below(D, i) \in SUBSET D
  BY DEF Below
<1>5. \A i \in Buckets : obs(i) \in Nat
  BY <1>3, <1>4, BagSums
<1>6. n \in Nat /\ n > 0
  <2>1. PICK d \in D : during[d] > 0
    OBVIOUS
  <2>2. IsFiniteSet({d}) /\ {d} \in SUBSET D /\ d \in {d} /\ {d} \ {d} = {}
    BY FS_Singleton
  <2>3. during \in [D -> Int]
    BY <1>1
  <2>4. Total(during, {d}) = during[d] + Total(during, {d} \ {d})
    BY <2>2, <2>3, TotalWithout
  <2>5. Total(during, {d}) = during[d] + 0
    BY <2>2, <2>4, TotalOfNone
  <2>6. Total(during, {d}) <= n /\ n \in Nat
    BY <2>2, BagSums
  <2>7. during[d] \in Nat
    BY <1>1
  <2> HIDE DEF n
  <2> QED
    BY <2>1, <2>5, <2>6, <2>7
<1>7. obs(Len(Edges) - 1) = n
  <2>1. 3 \in Buckets /\ Len(Edges) - 1 = 3
    BY EdgesRise
  <2>2. Below(D, 3) = D
    BY <1>1, <2>1, BucketAdds
  <2>3. obs(3) = Total(during, Below(D, 3))
    BY <1>3, <2>1
  <2> QED
    BY <2>1, <2>2, <2>3
<1>8. target \in Nat /\ target > 0 /\ \A k \in Nat : 100 * k >= 99 * n <=> k >= target
  <2> HIDE DEF n
  <2> QED
    BY <1>6, TargetIsEnough
<1>9. PICK p : p = TrueP99(during)
  OBVIOUS
<1>10. /\ p \in D /\ 100 * Total(during, UpTo(D, p)) >= 99 * n
       /\ \A d \in D : 100 * Total(during, UpTo(D, d)) >= 99 * n => p <= d
  BY <1>1, <1>9, PercentileFound
<1>11. PICK b : b = BucketOf(p)
  OBVIOUS
<1>12. b \in Buckets /\ p < Edges[b + 1] /\ Edges[b + 1] # Infinite
  <2>1. BucketOf(p) \in Buckets /\ p < Edges[BucketOf(p) + 1]
    BY <1>1, <1>10, BucketFound
  <2>2. bucketBounds(b).hi # Infinite
    BY <1>9, <1>11
  <2>3. bucketBounds(b).hi = Edges[b + 1]
    BY DEF bucketBounds
  <2> QED
    BY <1>11, <2>1, <2>2, <2>3
<1>13. obs(b) >= target
  <2>1. UpTo(D, p) \in SUBSET Below(D, b)
    <3>1. \A d \in D : d <= p => d < Edges[b + 1]
      BY <1>1, <1>10, <1>12, LengthsFinite, EdgesRise
    <3> QED
      BY <3>1 DEF UpTo, Below
  <2>2. Total(during, UpTo(D, p)) \in Nat /\ Total(during, UpTo(D, p)) <= Total(during, Below(D, b))
    BY <1>4, <1>12, <2>1, BagSums
  <2>3. Total(during, UpTo(D, p)) >= target
    BY <1>8, <1>10, <2>2
  <2>4. obs(b) = Total(during, Below(D, b)) /\ obs(b) \in Nat
    BY <1>3, <1>5, <1>12
  <2> HIDE DEF target, obs
  <2> QED
    BY <1>8, <2>2, <2>3, <2>4
<1>14. PICK r : r = CHOOSE i \in Buckets : /\ obs(i) >= target
                                          /\ \A j \in 1 .. i - 1 : obs(j) < target
  OBVIOUS
<1>15. r \in Buckets /\ obs(r) >= target /\ r <= b
  <2> HIDE DEF target
  <2> QED
    BY <1>5, <1>8, <1>12, <1>13, <1>14, ReachFound
<1>16. Edges[r + 1] # Infinite
  BY <1>12, <1>15, EdgesRise
<1>17. p < Edges[r + 1]
  <2>1. Below(D, r) \in SUBSET D
    BY <1>4, <1>15
  <2>2. Below(D, r) # {}
    <3>1. obs(r) > 0
      BY <1>5, <1>8, <1>15
    <3>2. obs(r) = Total(during, Below(D, r))
      BY <1>3, <1>15
    <3> HIDE DEF obs
    <3> QED
      BY <3>1, <3>2, TotalOfNone
  <2>3. PICK e \in Below(D, r) : \A d \in Below(D, r) : d <= e
    BY <1>1, <2>1, <2>2, GreatestLength
  <2>4. e \in D /\ e < Edges[r + 1]
    BY <2>3 DEF Below
  <2>5. UpTo(D, e) = Below(D, r)
    <3>1. \A d \in D : d <= e => d < Edges[r + 1]
      BY <1>1, <1>15, <2>4, LengthsFinite, EdgesRise
    <3> QED
      BY <2>3, <3>1 DEF UpTo, Below
  <2>6. 100 * Total(during, UpTo(D, e)) >= 99 * n
    <3>1. obs(r) = Total(during, UpTo(D, e)) /\ obs(r) \in Nat
      BY <1>3, <1>5, <1>15, <2>5
    <3> HIDE DEF target, obs, n
    <3> QED
      BY <1>8, <1>15, <3>1
  <2>7. p <= e
    BY <1>10, <2>4, <2>6
  <2> QED
    BY <1>1, <1>10, <1>15, <2>4, <2>7, LengthsFinite, EdgesRise
<1>18. bucketUpper(r) = Edges[r + 1]
  BY <1>16 DEF bucketUpper, bucketBounds
<1>19. pauseDelta(Histogram(earlier), Histogram(After(earlier, during))).p99 = bucketUpper(r)
  <2>1. obs(Len(Edges) - 1) # 0
    BY <1>6, <1>7
  <2>2. r = CHOOSE i \in Buckets :
              /\ obs(i) >= (99 * obs(Len(Edges) - 1) + 99) \div 100
              /\ \A j \in 1 .. i - 1 : obs(j) < (99 * obs(Len(Edges) - 1) + 99) \div 100
    BY <1>7, <1>14, Zenon
  <2> QED
    BY <2>1, <2>2 DEF pauseDelta, counts
<1>20. Edges[r + 1] \in Int /\ p \in Int
  BY <1>1, <1>10, <1>15, LengthsFinite, EdgesRise
<1> QED
  BY <1>9, <1>17, <1>18, <1>19, <1>20

\* The runner comes to the second reading of the counters by stopping the recorder,
\* and nothing but its leaving it touches what was recorded.
LEMMA NextRecords ==
  ASSUME DOMAIN pc = Clients, [Next]_vars, pc'["runner"] = "after"
  PROVE  StopsRecorder \/ (pc["runner"] = "after" /\ UNCHANGED gc)
<1>1. "runner" \in Clients /\ "smoke" \in Clients /\ \A c \in Clients : c = "runner" \/ c = "smoke"
  BY DEF Clients
<1>2. \A there : Goes("runner", there) => pc'["runner"] = there
  BY <1>1 DEF Goes
<1>3. \A there : Goes("smoke", there) => pc'["runner"] = pc["runner"]
  BY <1>1 DEF Goes
<1>4. Fails("runner") => pc'["runner"] = "failed"
  BY <1>2 DEF Fails
<1>5. Fails("smoke") => pc'["runner"] = pc["runner"]
  BY <1>3 DEF Fails
<1>6. CASE LoadsSuite \/ prepareModel \/ startServices \/ WarmsUp \/ JudgesContract \/ ComparesCells
  BY <1>2, <1>4, <1>6 DEF LoadsSuite, prepareModel, Prepares, VerifiesArtifact, ReadsArtifact, clearDir,
     materializeEntry, startServices, WarmsUp, JudgesContract, ComparesCells
<1>7. CASE prepareServer("runner") \/ Measures("runner")
  BY <1>2, <1>4, <1>7 DEF prepareServer, WaitLive, UnloadAll, UnloadModel, Quiesce, QuiesceTimeout, LoadModel,
     ModelIdentity, CallFails, Measures, Statistics, Submit, StatisticsAfter
<1>8. CASE prepareServer("smoke") \/ Measures("smoke")
  BY <1>3, <1>5, <1>8 DEF prepareServer, WaitLive, UnloadAll, UnloadModel, Quiesce, QuiesceTimeout, LoadModel,
     ModelIdentity, CallFails, Measures, Statistics, Submit, StatisticsAfter
<1>9. CASE SmokeStarts \/ SmokeJudges \/ OperatorMaterializes \/ Regenerates \/ Catalogues \/ ClockSteps
           \/ ServerDies \/ ServerStarts \/ TearsDown
  BY <1>3, <1>9 DEF SmokeStarts, SmokeJudges, OperatorMaterializes, Regenerates, Catalogues, ClockSteps, ServerDies,
     ServerStarts, TearsDown, Interferes
<1>10. ASSUME NEW c \in Clients, LoadFails(c)
       PROVE  pc["runner"] = "after" /\ UNCHANGED gc
  <2>1. Goes(c, "failed") /\ UNCHANGED gc
    BY <1>10 DEF LoadFails, Interferes
  <2> QED
    BY <1>1, <1>2, <1>3, <2>1
<1>11. CASE UNCHANGED vars
  BY <1>11 DEF vars
<1> QED
  BY <1>6, <1>7, <1>8, <1>9, <1>10, <1>11 DEF Next, Runner, Smoke, Server

\* What the runner holds between the stop of the recorder and the second reading.
PausesAreRecorded == pc["runner"] = "after" => gc \in Recordings

\* The pauses that are recorded are bags of lengths the histogram has buckets for.
LEMMA RecordingsAreBags ==
  /\ \A during \in During : IsBag(during, {1, 5, 9})
  /\ \A earlier \in Earlier : IsBag(earlier, {1})
<1>1. {1, 5, 9} \in SUBSET Lengths
  BY LengthsFinite
<1>2. ASSUME NEW during \in During PROVE during \in [{1, 5, 9} -> Nat]
  <2>1. PICK n \in {<<0, 0, 0>>, <<0, 1, 0>>, <<99, 1, 0>>, <<99, 0, 2>>} :
          during = [d \in {1, 5, 9} |-> CASE d = 1 -> n[1] [] d = 5 -> n[2] [] d = 9 -> n[3]]
    BY DEF During
  <2>2. n[1] \in Nat /\ n[2] \in Nat /\ n[3] \in Nat
    OBVIOUS
  <2> QED
    BY <2>1, <2>2
<1>3. ASSUME NEW earlier \in Earlier PROVE earlier \in [{1} -> Nat]
  BY DEF Earlier
<1> QED
  BY <1>1, <1>2, <1>3 DEF IsBag

\* The percentile of pauses that a run reports bounds the run's own, whatever the
\* process went through before, unless it falls in the last bucket.
THEOREM PercentileIsABound == Spec => []P99BoundsThePauses
<1>1. Init => PausesAreRecorded
  BY DEF Init, PausesAreRecorded, Clients
<1>2. IInv /\ PausesAreRecorded /\ [Next]_vars => PausesAreRecorded'
  <2> SUFFICES ASSUME IInv, PausesAreRecorded, [Next]_vars, pc'["runner"] = "after"
               PROVE  gc' \in Recordings
    BY DEF PausesAreRecorded
  <2>1. StopsRecorder \/ (pc["runner"] = "after" /\ UNCHANGED gc)
    BY NextRecords DEF IInv, Typed
  <2>2. StopsRecorder => gc' \in Recordings
    BY DEF StopsRecorder
  <2> QED
    BY <2>1, <2>2 DEF PausesAreRecorded
<1>3. PausesAreRecorded => P99BoundsThePauses
  <2> SUFFICES ASSUME gc \in Recordings, \E d \in DOMAIN gc.during : gc.during[d] > 0,
                      bucketBounds(BucketOf(TrueP99(gc.during))).hi # Infinite
               PROVE  TrueP99(gc.during) <= gc.stats.p99
    BY DEF PausesAreRecorded, P99BoundsThePauses
  <2>1. PICK earlier \in Earlier, during \in During : gc = Recorded(earlier, during)
    BY DEF Recordings
  <2>2. gc.during = during /\ gc.stats = pauseDelta(Histogram(earlier), Histogram(After(earlier, during)))
    BY <2>1 DEF Recorded, After
  <2>3. IsBag(during, {1, 5, 9}) /\ IsBag(earlier, {1}) /\ {1} \in SUBSET {1, 5, 9}
    BY RecordingsAreBags
  <2>4. DOMAIN during = {1, 5, 9}
    BY <2>3 DEF IsBag
  <2>5. TrueP99(during) <= pauseDelta(Histogram(earlier), Histogram(After(earlier, during))).p99
    BY <2>2, <2>3, <2>4, PercentileBounds
  <2> QED
    BY <2>2, <2>5
<1> QED
  BY <1>1, <1>2, <1>3, Invariant, PTL DEF Spec

=============================================================================
