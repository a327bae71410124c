------------------------------ MODULE Identity ------------------------------
(***************************************************************************)
(* Cells and the identities requests travel under (internal/identity), as  *)
(* pure operators the other modules share.                                 *)
(***************************************************************************)
EXTENDS Integers

\* Every cell of the design, and those this build runs.
AllCells == {"D0", "F00", "F01", "F10", "F11D", "F11P", "F00seq"}
ImplementedCells == {"D0", "F00", "F10"}

\* Factor A: a cohort shares an envelope.
AggregatesEnvelopes(cell) == cell \in {"F10", "F11D", "F11P"}

\* Factor V: a cohort shares an execution.
VectorizesCompute(cell) == cell \in {"F01", "F11D", "F11P"}

PreformsBatch(cell) == cell = "F11P"

UsesProxy(cell) == cell # "D0"

\* The ordinal in the low bits, the cohort above it, and back.
uidOrdinalBits == 20

UID(cohort, ordinal) == cohort * 2^uidOrdinalBits + ordinal

CohortOf(uid)  == uid \div 2^uidOrdinalBits
OrdinalOf(uid) == uid % 2^uidOrdinalBits

=============================================================================
