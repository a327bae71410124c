\* A suite of a pair or of three contracts, over what earlier sessions left, with at most
\* two interferences of different kinds; manifests with up to two fields edited.
SPECIFICATION Spec
CONSTANTS
  None = None
  minArrivalSpread = 2
  Original = Original
  Regenerated = Regenerated
  Truncated = Truncated
  MaxEvents = 2
INVARIANTS
  AcceptedManifestIsRealizable
  MeasuresWhatItsManifestNames
  CountsVouchForTheRun
  LeftoversAreHarmless
  GreenMeansOneModel
  P99BoundsThePauses
CHECK_DEADLOCK FALSE
