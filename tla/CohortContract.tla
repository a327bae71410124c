--------------------------- MODULE CohortContract ---------------------------
(***************************************************************************)
(* What an aggregating proxy promises its callers, with no formation, lock, *)
(* timer or registry: every cohort id is decided at most once.  Either one *)
(* envelope travels for it, carrying one call for each of its B ordinals,  *)
(* or the cohort fails whole.  Only a call whose payload travelled can be  *)
(* given a result; every other call, and any call at any time, may be given *)
(* an error.                                                               *)
(***************************************************************************)
EXTENDS Naturals

CONSTANTS Calls, Cohorts, TargetB, None

Members  == [cohort : Cohorts, ordinal : 0 .. TargetB]
Verdicts == {"open", "travelled", "failed"}

VARIABLES
  asked,    \* what each call asked for, None before it is made
  verdict,  \* what became of each cohort id
  carried,  \* the calls whose payloads travelled for each cohort id
  outcome   \* what each call was given: "result", "error" or None

vars == <<asked, verdict, carried, outcome>>

Init ==
  /\ asked = [c \in Calls |-> None]
  /\ verdict = [k \in Cohorts |-> "open"]
  /\ carried = [k \in Cohorts |-> {}]
  /\ outcome = [c \in Calls |-> None]

\* A call is made.  A malformed or late one may be answered with an error in
\* the same step, and may decide its cohort id.
Ask(c, m) ==
  /\ asked[c] = None
  /\ outcome[c] = None
  /\ asked' = [asked EXCEPT ![c] = m]
  /\ \/ UNCHANGED <<verdict, outcome>>
     \/ /\ outcome' = [outcome EXCEPT ![c] = "error"]
        /\ UNCHANGED verdict
     \/ /\ verdict[m.cohort] = "open"
        /\ verdict' = [verdict EXCEPT ![m.cohort] = "failed"]
        /\ outcome' = [outcome EXCEPT ![c] = "error"]
  /\ UNCHANGED carried

\* S is one whole cohort: one call for every ordinal of k, and no other.
WholeCohort(k, S) ==
  /\ \A c \in S : asked[c] \in [cohort : {k}, ordinal : 0 .. TargetB - 1]
  /\ \A o \in 0 .. TargetB - 1 : \E c \in S : asked[c].ordinal = o
  /\ \A c, d \in S : asked[c].ordinal = asked[d].ordinal => c = d

Travel(k, S) ==
  /\ verdict[k] = "open"
  /\ WholeCohort(k, S)
  /\ verdict' = [verdict EXCEPT ![k] = "travelled"]
  /\ carried' = [carried EXCEPT ![k] = S]
  /\ UNCHANGED <<asked, outcome>>

\* Shutdown fails every open cohort it is holding in one step.
Fail(K) ==
  /\ \A k \in K : verdict[k] = "open"
  /\ verdict' = [k \in Cohorts |-> IF k \in K THEN "failed" ELSE verdict[k]]
  /\ UNCHANGED <<asked, carried, outcome>>

GiveResult(c) ==
  /\ outcome[c] = None
  /\ \E k \in Cohorts : verdict[k] = "travelled" /\ c \in carried[k]
  /\ outcome' = [outcome EXCEPT ![c] = "result"]
  /\ UNCHANGED <<asked, verdict, carried>>

GiveError(c) ==
  /\ outcome[c] = None
  /\ outcome' = [outcome EXCEPT ![c] = "error"]
  /\ UNCHANGED <<asked, verdict, carried>>

Next ==
  \/ \E c \in Calls, m \in Members : Ask(c, m)
  \/ \E k \in Cohorts, S \in SUBSET Calls : Travel(k, S)
  \/ \E K \in SUBSET Cohorts : Fail(K)
  \/ \E c \in Calls : GiveResult(c) \/ GiveError(c)

Spec == Init /\ [][Next]_vars

=============================================================================
