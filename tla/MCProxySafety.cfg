\* Four calls and two cohorts of two: both can complete, and duplicates, strays and
\* members arriving after the seal or the failure all happen.
SPECIFICATION Spec
CONSTANTS
  Calls = {c1, c2, c3, c4}
  Cohorts = {k1, k2}
  TargetB = 2
  Aggregates = TRUE
  Statuses = {"ok"}
  None = None
SYMMETRY Symmetry
INVARIANTS
  ClosedOnce
  OneEnvelopePerCohort
  EnvelopeIsItsCohort
  AnswersAreOwn
  RecordTellsTheFate
  NothingFormsAfterClose
  FailedOnlyIfShort
CHECK_DEADLOCK FALSE
