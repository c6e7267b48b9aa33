---------------------------- MODULE MCSpecCycle -----------------------------
(* Three tasks, each serial or parallel, the last of which names the       *)
(* directories of both others; or all parallel, the last beside the second.*)
EXTENDS SpecCycle, TLC

CONSTANTS a, b

OverBoth  == <<{a}, {b}, {a, b}>>
BesideOne == <<{a}, {b}, {b}>>

Shape(marked, dirs) == [t \in 1..3 |-> [parallel |-> marked[t], paths |-> dirs[t]]]

SomeShapes ==
  {Shape(marked, OverBoth) : marked \in [1..3 -> BOOLEAN]}
    \cup {Shape([t \in 1..3 |-> TRUE], BesideOne)}

=============================================================================
