\* A cohort refused at the proxy.
SPECIFICATION Spec
CONSTANTS
  Requests = {q1, q2}
  Others = {w1}
  Rotation = 2
  Margin = 2
  None = None
CHECK_DEADLOCK FALSE
INVARIANTS
  RefusedArePassedOver
