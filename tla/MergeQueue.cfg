SPECIFICATION QueueSpec
CONSTANTS
  b1 = b1
  b2 = b2
  q1 = q1
  q2 = q2
  Branches = {b1, b2}
  Overlap <- TwoSame
  Faults = {"diff", "list", "files"}
  Requeuers = {q1, q2}
  MaxRetries = 1
SYMMETRY Symmetry
INVARIANTS OverlapOnlyByRace ListedIsLabelled
PROPERTIES RetryUsedOnce
