SPECIFICATION Spec
CONSTANTS
  Clients = {c1}
  RingSize = 2
  StreamCap = 1
  Deliveries = {d1, d2}
  Payloads <- MCPayloads
  Requests = {r1, r2}
  PRs = {7}
  Labelings <- MCLabelings
  BusCap = 1
  NoPayload = NoPayload
  MaxExtras = 1
SYMMETRY Symmetry
INVARIANTS RepeatsExcused SeenIsDealtWith SpecNotReworked ClosedStaysQuiet NoneTwice
CHECK_DEADLOCK FALSE
