\* Three calls where the one cohort needs two.  Contexts may outlive everything
\* and no formation deadline need ever come, except where the property asks.
SPECIFICATION FairSpec
CONSTANTS
  Calls = {c1, c2, c3}
  Cohorts = {k1}
  TargetB = 2
  Aggregates = TRUE
  Statuses = {"ok", "error"}
  None = None
PROPERTIES
  KeepsContract
  EveryCallReturns
  ShutdownReleasesHeld
CHECK_DEADLOCK FALSE
