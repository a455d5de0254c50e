\* Two calls and a queue for one job.
CONSTANTS
  c1 = c1  c2 = c2
  Calls = {c1, c2}
  MaxLength = 1
SPECIFICATION FairSpec
INVARIANTS TypeOK PendingIsActive OwnReply EarlyReplyKept OverloadedNotTaken
PROPERTIES CloseEndsCalls
CHECK_DEADLOCK FALSE
