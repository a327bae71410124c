\* Two requests and two strangers; a setting rotates at two traces; the strangers can
\* exhaust the budget, and the last to arrive then is not traced.
SPECIFICATION FairSpec
CONSTANTS
  Requests = {q1, q2}
  Others = {w1, w2}
  Rotation = 2
  Margin = 1
  None = None
CHECK_DEADLOCK FALSE
INVARIANTS
  DoneMeansTheRunsOwn
PROPERTIES
  CollectionEnds
