\* Two jobs, one of which has results that cannot be read, and one mishap.
CONSTANTS
  app = app  w1 = w1  w2 = w2  j1 = j1  j2 = j2
  Processes = {app, w1, w2}
  SettingsOf <- MCSettingsOf
  Client = app
  Jobs = {j1, j2}
  Garbled = {j2}
  Prefetch = 1
  MaxCopies = 2
  MaxMishaps = 1
SPECIFICATION FairSpec
INVARIANTS OwnArguments ResultsQueueFirst NoResultLost Announced
PROPERTIES HandledInTheEnd
CHECK_DEADLOCK FALSE
