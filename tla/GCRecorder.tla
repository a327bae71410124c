----------------------------- MODULE GCRecorder -----------------------------
(***************************************************************************)
(* What a run says of Go's collector (internal/runner/gc.go): the pauses   *)
(* between two readings of a cumulative histogram, as pure operators.      *)
(*                                                                         *)
(* A histogram has a count per bucket; a bucket reaches from its edge to   *)
(* the next one.  The outer edges are infinite.  The heap's sampled peak   *)
(* is left out.                                                            *)
(***************************************************************************)
EXTENDS Integers, Sequences, FiniteSetsExt

\* The edges of Go's pause histogram, in miniature.
Infinite == 1000
Edges    == <<-Infinite, 2, 8, Infinite>>
Buckets  == 1 .. Len(Edges) - 1

\* The bucket a pause is counted in, and the histogram of a bag of pauses.
BucketOf(pause) == CHOOSE i \in Buckets : Edges[i] <= pause /\ pause < Edges[i + 1]

Histogram(pauses) ==
  [i \in Buckets |-> MapThenSumSet(LAMBDA d : pauses[d], {d \in DOMAIN pauses : BucketOf(d) = i})]

bucketBounds(i) == [lo |-> Edges[i], hi |-> Edges[i + 1]]

\* Twice the middle of a bucket; an outer bucket has only its inner edge.
bucketMidpoint(i) ==
  LET b == bucketBounds(i)
  IN IF b.hi = Infinite THEN 2 * b.lo ELSE IF b.lo = -Infinite THEN 2 * b.hi ELSE b.lo + b.hi

bucketUpper(i) ==
  LET b == bucketBounds(i) IN IF b.hi = Infinite THEN b.lo ELSE b.hi

\* A mutant: the reading at the start of the run is not taken off.
CountsSoFar(start, end) == end

CountsBetween(start, end) == [i \in Buckets |-> end[i] - start[i]]

Observations(counts, last) == MapThenSumSet(LAMBDA i : counts[i], 1 .. last)

\* The total, twice over, and the upper edge of the bucket the 99th percentile
\* falls in.
pauseDelta(start, end) ==
  LET counts == CountsBetween(start, end)
      n      == Observations(counts, Len(Edges) - 1)
      target == (99 * n + 99) \div 100
      reach  == CHOOSE i \in Buckets : /\ Observations(counts, i) >= target
                                       /\ \A j \in 1 .. i - 1 : Observations(counts, j) < target
  IN IF n = 0 THEN [total |-> 0, p99 |-> 0]
     ELSE [total |-> MapThenSumSet(LAMBDA i : counts[i] * bucketMidpoint(i), Buckets),
           p99   |-> bucketUpper(reach)]

=============================================================================
