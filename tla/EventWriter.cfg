\* Four records into three banks of one record each: rotation through every
\* bank, drops, failing writes, and a Close at every point.
SPECIFICATION FairSpec
CONSTANTS
  Records = {r1, r2, r3, r4}
  Banks = 3
  Room = 1
  None = None
CHECK_DEADLOCK FALSE
INVARIANTS
  NoSendBlocks
  CleanCloseKeepsAll
PROPERTIES
  StreamOnlyGrows
  CloseEnds
