--------------------------- MODULE SessionDelivery --------------------------
(***************************************************************************)
(* SessionManager with one history variable, the events whose turn has     *)
(* ended under a live context, and the status KeyedMailbox gives an event. *)
(***************************************************************************)
EXTENDS SessionManager

VARIABLE done

deliveryVars == <<vars, done>>

TurnEnds(s) == spc[s] = "working" /\ spc'[s] \in {"completing", "blocking", "failing"} /\ Live(s)

DeliveryInit == Init /\ done = {}

DeliveryNext == Next /\ done' = done \cup {cur[s] : s \in {r \in Sids : TurnEnds(r)}}

DeliverySpec == DeliveryInit /\ [][DeliveryNext]_deliveryVars

InSequence(e, q) == \E i \in 1..Len(q) : q[i] = e

(* On its way to a turn: on the bus, in a dispatcher's hands, or queued at *)
(* or just taken by a goroutine that still has its context.                *)
InTransit(e) ==
  \/ InSequence(e, bus)
  \/ \E t \in Threads : tevt[t] = e
  \/ \E s \in Sids : Alive(s) /\ Live(s) /\ (InSequence(e, queue[s]) \/ (spc[s] = "taken" /\ cur[s] = e))

InTurn(e) == \E s \in Sids : spc[s] = "working" /\ Live(s) /\ cur[s] = e

EventStatus(e) ==
  CASE e \in pending -> "new"
    [] InTurn(e)     -> "turn"
    [] e \in done    -> "done"
    [] InTransit(e)  -> "accepted"
    [] OTHER         -> "lost"

Mailbox == INSTANCE KeyedMailbox WITH status <- [e \in Events |-> EventStatus(e)]

(* The detailed session manager, with its races, evictions, shutdown and   *)
(* restarts, keeps the promise of KeyedMailbox.                            *)
DeliversAsMailbox == Mailbox!Spec

-----------------------------------------------------------------------------
(* What the refinement needs to know of the places an event passes through *)
(* in memory: the bus, a dispatcher's hands, a session's channel, a        *)
(* session's turn.                                                         *)

Holds(s, e) == spc[s] \in {"taken", "working"} /\ cur[s] = e

InMemory(e) ==
  \/ InSequence(e, bus)
  \/ \E t \in Threads : tevt[t] = e
  \/ \E s \in Sids : InSequence(e, queue[s]) \/ Holds(s, e)

NoRepeats(q) == \A i, j \in 1..Len(q) : q[i] = q[j] => i = j

(* An event that is in memory is in one place only. *)
OnePlace(e) ==
  /\ InSequence(e, bus) => /\ \A t \in Threads : tevt[t] # e
                           /\ \A s \in Sids : ~InSequence(e, queue[s]) /\ ~Holds(s, e)
  /\ \A t \in Threads : tevt[t] = e => /\ \A u \in Threads : tevt[u] = e => u = t
                                       /\ \A s \in Sids : ~InSequence(e, queue[s]) /\ ~Holds(s, e)
  /\ \A s \in Sids : InSequence(e, queue[s]) =>
       \A r \in Sids : ~Holds(r, e) /\ (InSequence(e, queue[r]) => r = s)
  /\ \A r, s \in Sids : Holds(r, e) /\ Holds(s, e) => r = s

(* Nobody submits an event a second time, and a finished one is gone.      *)
EventOnce(e) ==
  /\ OnePlace(e)
  /\ e \in pending => e \notin done /\ ~InMemory(e)
  /\ e \in done => ~InMemory(e)

EachOnce ==
  /\ \A e \in Events : EventOnce(e)
  /\ NoRepeats(bus)
  /\ \A s \in Sids : NoRepeats(queue[s])

(* A dispatcher between two events and a session between two turns hold    *)
(* nothing.                                                                *)
HandsOK ==
  /\ \A t \in Threads : tpc[t] \notin {"create", "evict", "send", "blocked"} => tevt[t] = None
  /\ \A s \in Sids : spc[s] \in {"taken", "working"} => cur[s] \in Events

(* A session object is given the events of its own key only, however often *)
(* the object is used again.                                               *)
OwnKey ==
  /\ \A t \in Threads : tpc[t] \in {"send", "blocked"} => skey[tsid[t]] = EventKey[tevt[t]]
  /\ \A s \in Sids, e \in Events : InSequence(e, queue[s]) \/ Holds(s, e) => skey[s] = EventKey[e]

(* Nothing outlives the process. *)
DownEmpty ==
  ~Running => /\ bus = <<>>
              /\ \A t \in Threads : tevt[t] = None
              /\ \A s \in Sids : queue[s] = <<>> /\ spc[s] = "unused"

DInv == EachOnce /\ HandsOK /\ OwnKey /\ DownEmpty

=============================================================================
