\* The default of one encode at a time.
CONSTANTS
  app = app  script = script  r1 = r1  r2 = r2  r3 = r3
  Loaders = {app, script}
  Lifespan = app
  Requests = {r1, r2, r3}
  MaxConcurrentEncodes = 1
SPECIFICATION FairSpec
INVARIANTS TypeOK OneDownload LoadedBeforeUse ServedWhenWarm LevelRestored
PROPERTIES EveryRequestAnswered
CHECK_DEADLOCK FALSE
