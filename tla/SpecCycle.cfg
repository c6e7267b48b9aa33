CONSTANTS
  Pulls = {"spec", "work"}
  Clients <- Callers
  Names = {"spec-proposed", "spec-approved", "spec-implementing"}
  N = 3
  a = a
  b = b
  Shapes <- SomeShapes
  MaxSpare = 2
SPECIFICATION CycleSpec
INVARIANTS EveryTaskOnce OverlapsOrdered LabelsSettle
CHECK_DEADLOCK FALSE
