SPECIFICATION FairSpec
CONSTANTS
  MaxReworkAttempts = 1
  MaxCommits = 2
  MaxReviews = 1
  BusCap = 1
  QueueCap = 1
  MaxExtras = 1
  Yolo = {TRUE}
  Ours = {FALSE}
INVARIANTS GateHolds ReworkCapped
PROPERTIES ReadyMerges FailureAnswered
CHECK_DEADLOCK FALSE
