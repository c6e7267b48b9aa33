CONSTANTS
  k1 = k1  k2 = k2
  e1 = e1  e2 = e2  e3 = e3
  Keys = {k1, k2}
  Events = {e1, e2}
  EventKey <- TwoKeys
  Sids = {s1, s2, s3}
  Run = Run
  Aux = {a1}
  None = None
  MaxSessions = 1
  QueueCap = 1
  BusCap = 2
  MaxBoots = 1
SPECIFICATION Spec
INVARIANTS SessionCap NoOrphan RowsMatchSessions
PROPERTIES FirstTurnResumes
SYMMETRY SessionObjects
VIEW View
