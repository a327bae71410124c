\* A cohort of two in each of the three cells, and three readings of the clock.
SPECIFICATION Spec
CONSTANTS
  TargetB = 2
  Tolerance = 5
  SkewBound = 1
  MaxTime = 3
  minArrivalSpread = 1
  None = None
CHECK_DEADLOCK FALSE
INVARIANTS
  SoundRunIsAccepted
  UnsoundRunIsNamed
  ConservationIsExact
