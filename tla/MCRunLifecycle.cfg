\* Two processes and two cohorts: either process can be lost at every stage.
SPECIFICATION FairSpec
CONSTANTS
  Services <- SharedPath
  Cohorts = 2
  None = None
CHECK_DEADLOCK FALSE
INVARIANTS
  CompletedMeansWhole
  ShutdownIsNotADeath
PROPERTIES
  FailureKeepsCauseAndScope
  RunEnds
