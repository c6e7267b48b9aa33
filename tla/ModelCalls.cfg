SPECIFICATION Spec
CONSTANTS
  s1 = s1
  s2 = s2
  s3 = s3
  k1 = k1
  k2 = k2
  Sessions = {s1, s2, s3}
  Keys = {k1, k2}
  KeyOf <- HeirAndOther
  Evictable = {s1}
  MaxRetries = 1
  HasFallback = TRUE
  SessionLimit = 3
  MonthLimit = 4
  MaxCost = 1
  MaxFaults = 1
INVARIANTS MonthOverrunBounded SessionOverrunBounded
CHECK_DEADLOCK FALSE
