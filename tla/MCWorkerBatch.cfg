\* A worker of the index lane; a job with a deadline and a malformed one that wants no reply; a stop, a crash or a
\* lost connection.
CONSTANTS
  w1 = w1  w2 = w2  i1 = i1  i2 = i2  q1 = q1  bad = bad
  Workers = {w1}
  Jobs = {i1, bad}
  LaneOf <- MCLaneOf
  Serves <- MCServes
  Prefetch <- MCPrefetch
  DeliveryLimit = 2
  Malformed = {bad}
  NoReplyTo = {bad}
  WithDeadline = {i1}
  Interruptions = {"stop", "crash", "disconnect"}
  MaxInterruptions = 1
SPECIFICATION Spec
INVARIANTS IndexKept UnackedInHand
PROPERTIES DecidedSurvives
CHECK_DEADLOCK FALSE
