----------------------------- MODULE EventWriter -----------------------------
(***************************************************************************)
(* One process's event stream: internal/events/writer.go.                  *)
(*                                                                         *)
(* Any number of goroutines call Record while one goroutine, flush, is the *)
(* only one to touch the sink.  Buffer banks circulate between them: the   *)
(* active one, the free ones, the full ones pending, and the one being     *)
(* flushed.  Record never waits for I/O: with no free bank it drops the    *)
(* record and counts it.  Close may overlap both.                          *)
(*                                                                         *)
(* A record is named by the call that brought it; a bank's bytes are the   *)
(* records encoded in it, and Room is how many it admits before less than  *)
(* maxFrameSize is left.                                                   *)
(***************************************************************************)
EXTENDS Naturals, FiniteSets, SequencesExt

CONSTANTS
  Records,  \* the calls of Record
  Banks,    \* how many banks circulate
  Room,     \* how many records fit a bank
  None      \* no bank

ASSUME EventWriterAssumption ==
  /\ IsFiniteSet(Records)
  /\ Banks \in Nat /\ Banks >= 2
  /\ Room \in Nat \ {0}
  /\ None \notin Nat

BankIds == 1 .. Banks

\* Mutant: room for the banks but one.
CapacityButOne == Banks - 1

\* The capacity of both channels.
Capacity == Banks

VARIABLES
  call,        \* where each Record call stands
  seq,         \* Writer.seq
  written,     \* Writer.written
  dropped,     \* Writer.dropped
  active,      \* Writer.active
  closed,      \* Writer.closed
  free,        \* the channel of empty banks
  pending,     \* the channel of full banks
  contents,    \* what each bank's bytes hold
  flusher,     \* where flush stands
  flushing,    \* the bank flush holds
  sink,        \* what reached bufio and, once flushed, the file
  flushErr,    \* Writer.flushErr
  closer,      \* where Close stands
  closeErr     \* whether Close returned an error

recordVars == <<call, seq, written, dropped>>
bankVars   == <<active, free, pending, contents>>
flushVars  == <<flusher, flushing, sink, flushErr>>
closeVars  == <<closed, closer, closeErr>>
vars == <<recordVars, bankVars, flushVars, closeVars>>

-----------------------------------------------------------------------------
(* Record.                                                                 *)

\* The sequence number is taken before the mutex.
TakeNumber(r) ==
  /\ call[r] = "idle"
  /\ seq' = seq + 1
  /\ call' = [call EXCEPT ![r] = "numbered"]
  /\ UNCHANGED <<written, dropped, bankVars, flushVars, closeVars>>

HasRoom(b) == Len(contents[b]) < Room

\* Record under the mutex, the active bank admitting it.
AppendToActive(r) ==
  /\ call[r] = "numbered"
  /\ ~closed
  /\ HasRoom(active)
  /\ contents' = [contents EXCEPT ![active] = Append(@, r)]
  /\ call' = [call EXCEPT ![r] = "appended"]
  /\ UNCHANGED <<seq, written, dropped, active, free, pending, flushVars, closeVars>>

\* rotateLocked with a free bank at hand.  The send is a blocking one, under
\* the mutex.
Rotate ==
  /\ Len(pending) < Capacity
  /\ pending' = Append(pending, active)
  /\ active' = Head(free)
  /\ free' = Tail(free)

\* Record under the mutex, the active bank full and another free.
AppendAfterRotation(r) ==
  /\ call[r] = "numbered"
  /\ ~closed
  /\ ~HasRoom(active)
  /\ free # <<>>
  /\ Rotate
  /\ contents' = [contents EXCEPT ![Head(free)] = Append(@, r)]
  /\ call' = [call EXCEPT ![r] = "appended"]
  /\ UNCHANGED <<seq, written, dropped, flushVars, closeVars>>

\* rotateLocked reports false.
NoBank == ~HasRoom(active) /\ free = <<>>

\* Record under the mutex, refused.
Refuse(r) ==
  /\ call[r] = "numbered"
  /\ closed \/ NoBank
  /\ call' = [call EXCEPT ![r] = "refused"]
  /\ UNCHANGED <<seq, written, dropped, bankVars, flushVars, closeVars>>

\* The counters move after the mutex was released.
Count(r) ==
  /\ \/ call[r] = "appended" /\ written' = written + 1 /\ UNCHANGED dropped
     \/ call[r] = "refused" /\ dropped' = dropped + 1 /\ UNCHANGED written
  /\ call' = [call EXCEPT ![r] = "returned"]
  /\ UNCHANGED <<seq, bankVars, flushVars, closeVars>>

-----------------------------------------------------------------------------
(* flush.                                                                  *)

\* range over pending.
FlusherTakes ==
  /\ flusher = "idle"
  /\ pending # <<>>
  /\ flushing' = Head(pending)
  /\ pending' = Tail(pending)
  /\ flusher' = "writing"
  /\ UNCHANGED <<recordVars, active, free, contents, sink, flushErr, closeVars>>

\* out.Write of the bank's bytes.  bufio's error is sticky: once the sink
\* failed nothing more is written.
FlusherWrites ==
  /\ flusher = "writing"
  /\ \/ /\ ~flushErr
        /\ sink' = sink \o contents[flushing]
        /\ UNCHANGED flushErr
     \/ flushErr' = TRUE /\ UNCHANGED sink
  /\ flusher' = "written"
  /\ UNCHANGED <<recordVars, bankVars, flushing, closeVars>>

\* Mutant: the bank is handed back with its bytes still in it.
FlusherFreesUnreset ==
  /\ flusher = "written"
  /\ Len(free) < Capacity
  /\ free' = Append(free, flushing)
  /\ flushing' = None
  /\ flusher' = "idle"
  /\ UNCHANGED <<recordVars, active, pending, contents, sink, flushErr, closeVars>>

\* b.reset, and the bank is free again.
FlusherFrees ==
  /\ flusher = "written"
  /\ Len(free) < Capacity
  /\ contents' = [contents EXCEPT ![flushing] = <<>>]
  /\ free' = Append(free, flushing)
  /\ flushing' = None
  /\ flusher' = "idle"
  /\ UNCHANGED <<recordVars, active, pending, sink, flushErr, closeVars>>

\* Mutant: flush waits for every bank to come home.
FlusherEndsWhenAllHome ==
  /\ flusher = "idle"
  /\ pending = <<>>
  /\ Len(free) = Banks
  /\ closer = "waiting"
  /\ flusher' = "ended"
  /\ UNCHANGED <<recordVars, bankVars, flushing, sink, flushErr, closeVars>>

\* pending is closed and empty: bufio's own Flush, which may lose what it
\* still holds.
FlusherEnds ==
  /\ flusher = "idle"
  /\ pending = <<>>
  /\ closer = "waiting"
  /\ \/ ~flushErr /\ UNCHANGED <<sink, flushErr>>
     \/ /\ flushErr' = TRUE
        /\ \E n \in 0 .. Len(sink) : sink' = SubSeq(sink, 1, n)
  /\ flusher' = "ended"
  /\ UNCHANGED <<recordVars, bankVars, flushing, closeVars>>

-----------------------------------------------------------------------------
(* Close, its first call: closeOnce makes every other one return nil.      *)

\* Mutant: the partly filled bank is not flushed.
CloseForgetsActive ==
  /\ closer = "idle"
  /\ closed' = TRUE
  /\ closer' = "locked"
  /\ UNCHANGED <<recordVars, bankVars, flushVars, closeErr>>

\* Under the mutex: no more records, and the active bank is flushed too.
CloseRefuses ==
  /\ closer = "idle"
  /\ closed' = TRUE
  /\ IF contents[active] # <<>>
     THEN Len(pending) < Capacity /\ pending' = Append(pending, active)
     ELSE UNCHANGED pending
  /\ closer' = "locked"
  /\ UNCHANGED <<recordVars, active, free, contents, flushVars, closeErr>>

\* close(pending).
ClosePending ==
  /\ closer = "locked"
  /\ closer' = "waiting"
  /\ UNCHANGED <<recordVars, bankVars, flushVars, closed, closeErr>>

\* flusherDone: report the flush error, or the sink's own.
CloseReturns ==
  /\ closer = "waiting"
  /\ flusher = "ended"
  /\ closer' = "returned"
  /\ closeErr' \in {flushErr, TRUE}
  /\ UNCHANGED <<recordVars, bankVars, flushVars, closed>>

-----------------------------------------------------------------------------

Init ==
  /\ call = [r \in Records |-> "idle"]
  /\ seq = 0 /\ written = 0 /\ dropped = 0
  /\ active = 1
  /\ free = [i \in 1 .. Banks - 1 |-> i + 1]
  /\ pending = <<>>
  /\ contents = [b \in BankIds |-> <<>>]
  /\ flusher = "idle" /\ flushing = None
  /\ sink = <<>> /\ flushErr = FALSE
  /\ closed = FALSE /\ closer = "idle" /\ closeErr = FALSE

Recording(r) ==
  TakeNumber(r) \/ AppendToActive(r) \/ AppendAfterRotation(r) \/ Refuse(r) \/ Count(r)

Flushing == FlusherTakes \/ FlusherWrites \/ FlusherFrees \/ FlusherEnds

Closing == CloseRefuses \/ ClosePending \/ CloseReturns

Next == (\E r \in Records : Recording(r)) \/ Flushing \/ Closing

Spec == Init /\ [][Next]_vars

\* A call that was made goes on, and so do flush and a Close that began.
\* Nobody is obliged to call Record or Close.
FairSpec ==
  /\ Spec
  /\ \A r \in Records : WF_vars(AppendToActive(r) \/ AppendAfterRotation(r) \/ Refuse(r) \/ Count(r))
  /\ WF_vars(Flushing)
  /\ WF_vars(ClosePending \/ CloseReturns)

-----------------------------------------------------------------------------
(* What must hold.                                                         *)

\* Every variable holds what its field can hold.  In particular no bank is
\* ever filled beyond its buffer: a free bank was reset (b.reset).
TypeOK ==
  /\ call \in [Records -> {"idle", "numbered", "appended", "refused", "returned"}]
  /\ seq \in Nat /\ written \in Nat /\ dropped \in Nat
  /\ active \in BankIds
  /\ free \in Seq(BankIds) /\ Len(free) <= Capacity
  /\ pending \in Seq(BankIds) /\ Len(pending) <= Capacity
  /\ contents \in [BankIds -> Seq(Records)]
  /\ \A b \in BankIds : Len(contents[b]) <= Room
  /\ flusher \in {"idle", "writing", "written", "ended"}
  /\ flushing \in BankIds \cup {None}
  /\ sink \in Seq(Records)
  /\ flushErr \in BOOLEAN /\ closed \in BOOLEAN /\ closeErr \in BOOLEAN
  /\ closer \in {"idle", "locked", "waiting", "returned"}

\* The banks the flusher's side has or will have, and the free ones.
Elsewhere == free \o pending \o (IF flushing = None THEN <<>> ELSE <<flushing>>)

\* Record writes into the active bank and flush reads its bank without a
\* common lock: no bank is in two hands, and none is lost (Writer.free,
\* Writer.pending).  While records are taken, the others are all Banks - 1.
BankInOneHand ==
  /\ IsInjective(Elsewhere)
  /\ ~closed => active \notin ToSet(Elsewhere) /\ Len(Elsewhere) = Banks - 1

\* Both sends under the mutex find room, and so does the flusher's: Record
\* never waits for I/O, not even through rotateLocked's blocking send.
NoSendBlocks ==
  /\ ~closed => Len(pending) < Capacity
  /\ flushing # None => Len(free) < Capacity

\* The records accepted so far, in the order the stream will hold them.
Stream ==
  sink \o (IF flusher = "writing" THEN contents[flushing] ELSE <<>>)
       \o FlattenSeq([i \in DOMAIN pending |-> contents[pending[i]]])
       \o (IF closed THEN <<>> ELSE contents[active])

\* While the sink works, rotation, flushing and Close neither lose, reorder nor
\* repeat a record; the only thing that happens to the stream is that Record
\* appends to it ("records reach the file in bank order").
StreamOnlyGrows ==
  [][ ~flushErr' => \/ Stream' = Stream
                    \/ \E r \in Records : call[r] = "numbered" /\ Stream' = Append(Stream, r) ]_vars

\* A Close that reported no error left exactly the accepted records in the file,
\* and, once no Record call is under way, counters that say so: the runner
\* refuses a bundle whose two counts differ (externalStreamRecord).
CleanCloseKeepsAll ==
  closer = "returned" /\ ~closeErr =>
    /\ IsInjective(sink)
    /\ (\A r \in Records : call[r] \in {"idle", "returned"}) =>
         /\ Len(sink) = written
         /\ seq = written + dropped

\* Close waits for the flusher and returns, whatever is pending.
CloseEnds == closer # "idle" ~> closer = "returned"

=============================================================================
