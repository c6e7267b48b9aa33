---------------------------- MODULE KeyedMailbox ----------------------------
(***************************************************************************)
(* What the session manager promises for the events it is given: an event  *)
(* is worked on at most once, two events of one key are never worked on at *)
(* the same time, and an event that is finished or lost stays so. Losing   *)
(* an event is allowed at any time: the bus, the session queues and the    *)
(* sessions themselves all drop events, and a restart forgets them all.    *)
(***************************************************************************)
CONSTANTS Keys, Events, EventKey

VARIABLE status

Status == {"new", "accepted", "turn", "done", "lost"}

Init == status = [e \in Events |-> "new"]

Accept(e) ==
  /\ status[e] = "new"
  /\ status' = [status EXCEPT ![e] = "accepted"]

BeginTurn(e) ==
  /\ status[e] = "accepted"
  /\ \A f \in Events : EventKey[f] = EventKey[e] => status[f] # "turn"
  /\ status' = [status EXCEPT ![e] = "turn"]

EndTurn(e) ==
  /\ status[e] = "turn"
  /\ status' = [status EXCEPT ![e] = "done"]

Lose(S) ==
  /\ \A e \in S : status[e] \in {"new", "accepted", "turn"}
  /\ status' = [e \in Events |-> IF e \in S THEN "lost" ELSE status[e]]

Next ==
  \/ \E e \in Events : Accept(e) \/ BeginTurn(e) \/ EndTurn(e)
  \/ \E S \in SUBSET Events : Lose(S)

Spec == Init /\ [][Next]_status
=============================================================================
