\* A worker of both lanes, an index job and a query with a deadline: a stop, a crash or a failed start.
CONSTANTS
  w1 = w1  w2 = w2  i1 = i1  i2 = i2  q1 = q1  bad = bad
  Workers = {w1}
  Jobs = {i1, q1}
  LaneOf <- MCLaneOf
  Serves <- MCServes
  Prefetch <- MCPrefetch
  DeliveryLimit = 2
  Malformed = {}
  NoReplyTo = {}
  WithDeadline = {q1}
  Interruptions = {"stop", "crash", "startup"}
  MaxInterruptions = 1
SPECIFICATION FairSpec
INVARIANTS AckedMeansAnswered RetriesBounded NothingAbandoned
PROPERTIES ImplementsDelivery StopCompletes
CHECK_DEADLOCK FALSE
