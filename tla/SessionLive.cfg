CONSTANTS
  k1 = k1  k2 = k2
  e1 = e1  e2 = e2  e3 = e3
  Keys = {k1}
  Events = {e1, e2}
  EventKey <- OneKey
  Sids = {s1, s2}
  Run = Run
  Aux = {a1}
  None = None
  MaxSessions = 2
  QueueCap = 1
  BusCap = 2
  MaxBoots = 0
SPECIFICATION FairSpec
PROPERTIES QueuedEventServed ShutdownEnds
