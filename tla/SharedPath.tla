----------------------------- MODULE SharedPath -----------------------------
(***************************************************************************)
(* One cohort on the shared path at A=on: the load generator's release     *)
(* (internal/runner/run.go releaseCohort, internal/workload/barrier.go,    *)
(* internal/client/shared) composed with the proxy (module Proxy), and the *)
(* validator's reading of what both recorded                               *)
(* (internal/validate/aggregation.go findFormationFailures).               *)
(*                                                                         *)
(* There is one goroutine and one RPC per member of the cohort, so a call  *)
(* of Proxy is also a member of the load generator.  All members have the  *)
(* same request timeout: the deadlines pass in the order in which the      *)
(* contexts were created, and issued keeps that order.  The network may    *)
(* delay, reorder and lose requests and replies.                           *)
(***************************************************************************)
EXTENDS Proxy

CONSTANT Cohort  \* the cohort released, the only one of Cohorts

ASSUME SharedPathAssumption ==
  /\ Cohorts = {Cohort}
  /\ Cardinality(Calls) = TargetB
  /\ Aggregates
  /\ None \notin {"ok", "error", "timeout"}

VARIABLES
  ordinal,  \* the ordinal each member was minted with
  client,   \* where each member's goroutine stands
  gate,     \* whether Barrier.gate is closed, which is what releases
  issued,   \* the members in the order their contexts were created
  expired,  \* how many of those contexts have passed their deadline
  wire,     \* each member's request
  lgRecord  \* the status of the load generator's record

pathVars == <<ordinal, client, gate, issued, expired, wire, lgRecord>>
allVars  == <<vars, pathVars>>

\* reqCtx is past its deadline.
Late(c) == \E i \in 1 .. expired : issued[i] = c

Identity(c) == [cohort |-> Cohort, ordinal |-> ordinal[c]]

-----------------------------------------------------------------------------
(* The load generator.                                                     *)

\* Mutant: the gate waits for one member more than there are.
GateLate(arrivals) == Cardinality(arrivals) > TargetB

\* The last of the B arrivals closes the gate.
GateCloses(arrivals) == Cardinality(arrivals) = TargetB

\* Barrier.Arrive up to the wait.
Arrive(c) ==
  /\ client[c] = "started"
  /\ client' = [client EXCEPT ![c] = "arrived"]
  /\ gate' = (gate \/ GateCloses({d \in Calls : client[d] # "started"} \cup {c}))
  /\ UNCHANGED <<vars, ordinal, issued, expired, wire, lgRecord>>

\* Past the gate a goroutine creates its context and sends.  Nothing orders
\* the goroutines here.
Send(c) ==
  /\ client[c] = "arrived"
  /\ gate
  /\ client' = [client EXCEPT ![c] = "sent"]
  /\ issued' = Append(issued, c)
  /\ wire' = [wire EXCEPT ![c] = "request"]
  /\ UNCHANGED <<vars, ordinal, gate, expired, lgRecord>>

\* A request timeout passes.
DeadlinePasses ==
  /\ expired < Len(issued)
  /\ expired' = expired + 1
  /\ UNCHANGED <<vars, ordinal, client, gate, issued, wire, lgRecord>>

\* The member's record and outcome, and the goroutine is done.
Record(c, status) ==
  /\ client' = [client EXCEPT ![c] = "recorded"]
  /\ lgRecord' = [lgRecord EXCEPT ![c] = status]

\* How the load generator words a failed request.
StatusOfFailure(c) == IF Late(c) THEN "timeout" ELSE "error"

\* client.Send returns on its deadline, the RPC being somewhere else.
GiveUp(c) ==
  /\ client[c] = "sent"
  /\ Late(c)
  /\ Record(c, StatusOfFailure(c))
  /\ UNCHANGED <<vars, ordinal, gate, issued, expired, wire>>

\* The transport fails the RPC, before or after it reached the proxy.
TransportFails(c) ==
  /\ client[c] = "sent"
  /\ wire' = [wire EXCEPT ![c] = IF @ = "request" THEN "gone" ELSE @]
  /\ Record(c, StatusOfFailure(c))
  /\ UNCHANGED <<vars, ordinal, gate, issued, expired>>

\* The reply of a handler that returned arrives.  A result that is not ok is an
\* error of client.Send.
ReplyArrives(c) ==
  /\ client[c] = "sent"
  /\ pc[c] = "returned"
  /\ IF answer[c] # Failed /\ answer[c].status = "ok"
     THEN Record(c, "ok")
     ELSE Record(c, StatusOfFailure(c))
  /\ UNCHANGED <<vars, ordinal, gate, issued, expired, wire>>

-----------------------------------------------------------------------------
(* The proxy, as this path drives it.                                      *)

\* A request reaches the proxy, possibly after its caller gave up.
Delivered(c) ==
  /\ wire[c] = "request"
  /\ Submit(c, Identity(c))
  /\ wire' = [wire EXCEPT ![c] = "delivered"]
  /\ UNCHANGED <<ordinal, client, gate, issued, expired, lgRecord>>

\* A request whose caller is gone is cancelled on the way.
Cancelled(c) ==
  /\ wire[c] = "request"
  /\ client[c] = "recorded"
  /\ wire' = [wire EXCEPT ![c] = "gone"]
  /\ UNCHANGED <<vars, ordinal, client, gate, issued, expired, lgRecord>>

\* The deadline travels with the RPC; a caller that is gone cancels it.
CallerGone(c) ==
  /\ ContextEnds(c)
  /\ ctx'[c] = "deadline" => Late(c)
  /\ ctx'[c] = "cancelled" => client[c] = "recorded"
  /\ UNCHANGED pathVars

Serves(c) == Handler(c) /\ UNCHANGED pathVars

TimerStep(f) == (TimerFires(f) \/ Expire(f)) /\ UNCHANGED pathVars

-----------------------------------------------------------------------------

PathInit ==
  /\ Init
  /\ ordinal \in {u \in [Calls -> Ordinals] : \A c, d \in Calls : u[c] = u[d] => c = d}
  /\ client = [c \in Calls |-> "started"]
  /\ gate = FALSE
  /\ issued = <<>>
  /\ expired = 0
  /\ wire = [c \in Calls |-> "none"]
  /\ lgRecord = [c \in Calls |-> None]

Client(c) == Arrive(c) \/ Send(c) \/ GiveUp(c) \/ ReplyArrives(c)

PathNext ==
  \/ \E c \in Calls :
       \/ Client(c) \/ TransportFails(c)
       \/ Delivered(c) \/ Cancelled(c) \/ CallerGone(c) \/ Serves(c) \/ TimerStep(c)
  \/ DeadlinePasses

PathSpec == PathInit /\ [][PathNext]_allVars

\* Goroutines run and clocks advance; the proxy's handlers and timers run.
\* Nothing is asked of the network: a request need never be delivered, nor a
\* reply.
FairPathSpec ==
  /\ PathSpec
  /\ WF_allVars(DeadlinePasses)
  /\ \A c \in Calls : WF_allVars(Client(c)) /\ WF_allVars(Serves(c)) /\ WF_allVars(TimerStep(c))

-----------------------------------------------------------------------------
(* What the validator makes of the records.                                *)

\* The streams are complete: every member was recorded and every handler that
\* was started has returned (GracefulStop waits for them).
StreamsComplete ==
  /\ \A c \in Calls : client[c] = "recorded"
  /\ \A c \in Calls : wire[c] = "gone" \/ pc[c] = "returned"

\* Mutant: an arrival without a seal is enough.
AnyoneHeld == \E c \in Calls : record[c] # None /\ record[c].stages = "arrival"

\* findFormationFailures lists the cohort: some member has an arrival and no
\* seal, and some member has no proxy record.
NamedUnformed ==
  /\ \E c \in Calls : record[c] # None /\ record[c].stages = "arrival"
  /\ \E c \in Calls : record[c] = None

\* Mutant: whoever saw a success is believed.
RankOkWins(status) == CASE status = "timeout" -> 2 [] status = "error" -> 1 [] status = "ok" -> 3

\* statusRank: rank of a status when a request's records are joined.
Rank(status) == CASE status = "timeout" -> 3 [] status = "error" -> 2 [] status = "ok" -> 1

\* The status a request is judged by, over the records that name one.
JoinedStatus(c) ==
  IF record[c] # None /\ Rank(record[c].status) > Rank(lgRecord[c])
  THEN record[c].status ELSE lgRecord[c]

-----------------------------------------------------------------------------
(* What must hold.                                                         *)

\* A formation failure the verdict names is one: nothing of that cohort
\* travelled and none of its members is judged ok, however members left, replies
\* were lost and deadlines passed ("a cohort that cannot form fails whole").
DiagnosisIsTrue ==
  StreamsComplete /\ NamedUnformed =>
    /\ \A f \in Calls : env[f] = None
    /\ \A c \in Calls : JoinedStatus(c) # "ok"

\* A member is judged ok only if its caller was given the ok result of its own
\* payload, which travelled under its own ordinal: the join of two processes'
\* records never makes up a success, in particular not for a caller that had
\* given up when the proxy answered it (statusRank).
OkMeansServed ==
  StreamsComplete => \A c \in Calls : JoinedStatus(c) = "ok" =>
    /\ lgRecord[c] = "ok"
    /\ answer[c] = [cohort |-> Cohort, ordinal |-> ordinal[c], status |-> "ok"]
    /\ env[joined[c]] # None
    /\ env[joined[c]][ordinal[c]] = c

\* wg.Wait returns: the release of a cohort ends even if the network delivers
\* nothing.
ReleaseEnds == <>(\A c \in Calls : client[c] = "recorded")

\* What AggregationReport says of FailedFormations: a cohort the proxy failed
\* at its formation deadline is named as one that never assembled.
UnformedIsNamed ==
  StreamsComplete /\ (\E f \in Calls : terminal[f] = "deadline") => NamedUnformed

=============================================================================
