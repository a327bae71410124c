\* Two concurrent calls, envelopes of two cohort ids, B = 2, in every cell that has an
\* adapter; a SIGINT, a kill and every answer of Triton at every point.
SPECIFICATION Spec
CONSTANTS
  Calls = {c1, c2}
  Cohorts = {1, 2}
  TargetB = 2
  None = None
INVARIANTS
  AdmitsWhatItsRunBuilds
  EveryMemberIsAccounted
  StatsVouchForTheStream
PROPERTY
  ShutdownEnds
CHECK_DEADLOCK FALSE
