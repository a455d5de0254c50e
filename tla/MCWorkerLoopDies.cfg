\* A lost connection ends the lane loop of a worker nobody stopped.
CONSTANTS
  w1 = w1  w2 = w2  i1 = i1  i2 = i2  q1 = q1  bad = bad
  Workers = {w1}
  Jobs = {i1, i2}
  LaneOf <- MCLaneOf
  Serves <- MCServes
  Prefetch <- MCPrefetch
  DeliveryLimit = 2
  Malformed = {}
  NoReplyTo = {}
  WithDeadline = {}
  Interruptions = {"disconnect"}
  MaxInterruptions = 1
SPECIFICATION Spec
INVARIANTS ConsumesUntilStopped
CHECK_DEADLOCK FALSE
