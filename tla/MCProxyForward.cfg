\* A=off: the same calls, aggregated by nobody.
SPECIFICATION Spec
CONSTANTS
  Calls = {c1, c2, c3}
  Cohorts = {k1, k2}
  TargetB = 2
  Aggregates = FALSE
  Statuses = {"ok", "error"}
  None = None
INVARIANT RecordTellsTheFate
CHECK_DEADLOCK FALSE
