\* MAX_CONCURRENT_ENCODES=2: two threads measure truncation at once.
CONSTANTS
  app = app  script = script  r1 = r1  r2 = r2  r3 = r3
  Loaders = {app}
  Lifespan = app
  Requests = {r1, r2}
  MaxConcurrentEncodes = 2
SPECIFICATION Spec
INVARIANTS LevelRestored
CHECK_DEADLOCK FALSE
