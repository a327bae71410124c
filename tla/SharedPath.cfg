\* One cohort of two.
SPECIFICATION FairPathSpec
CONSTANTS
  Calls = {c1, c2}
  Cohorts = {k1}
  Cohort = k1
  TargetB = 2
  Aggregates = TRUE
  Statuses = {"ok", "error"}
  None = None
CHECK_DEADLOCK FALSE
INVARIANTS
  DiagnosisIsTrue
  OkMeansServed
PROPERTIES
  ReleaseEnds
