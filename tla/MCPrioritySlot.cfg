CONSTANTS
  q1 = q1
  q2 = q2
  i1 = i1
  i2 = i2
  i3 = i3
  Tasks <- MCTasks
  Priority <- MCPriority
SPECIFICATION FairSpec
INVARIANTS OneOwner BusyMeansOwned NoStrandedWaiter
PROPERTIES NoQueueJumping TopPriorityServed ImplementsLock
