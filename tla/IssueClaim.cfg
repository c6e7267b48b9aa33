SPECIFICATION FairSpec
CONSTANTS
  s1 = s1
  s2 = s2
  Sessions = {s1, s2}
  MaxRetries = 2
  PersonLabels = {"ready", "blocked"}
  MaxEvents = 3
INVARIANTS InProgressIsClaimed ClaimExclusive
PROPERTIES GivesUpForGood WorkIsPickedUp
CHECK_DEADLOCK FALSE
