\* Two recorded cohorts of two after one warm-up cohort, in every cell of the design and
\* with every planted fault; two attempts in one directory.
SPECIFICATION Spec
CONSTANTS
  None = None
  minArrivalSpread = 2
  TargetB = 2
  Count = 2
  Warmup = 1
  Attempts = 2
INVARIANTS
  PlantedFaultIsNamed
  VerdictSurvivesTheArchive
  CompletedMeansItsOwn
CHECK_DEADLOCK FALSE
