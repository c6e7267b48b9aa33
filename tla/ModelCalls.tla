----------------------------- MODULE ModelCalls -----------------------------
(***************************************************************************)
(* One call of the model per turn, for sessions that share a budget: the   *)
(* check of the budget (cost.go), the slot of the client, the attempts of  *)
(* Retry and the second provider (provider/client.go, retry.go,            *)
(* fallback.go), and the record of what the call cost                      *)
(* (agent/turn.go, TurnExecutor.Run).                                      *)
(***************************************************************************)
EXTENDS Integers, FiniteSets

CONSTANTS
  Sessions,     \* session goroutines; an evicted one runs on beside its heir
  Keys,         \* session keys, to which costs are recorded
  KeyOf,        \* the key of each session
  MaxRetries,   \* RetryPolicy.MaxRetries
  HasFallback,  \* a fallback provider is configured
  SessionLimit, \* Budget.MaxSessionCost, in units of cost
  MonthLimit,   \* Budget.MaxMonthlyCost
  Evictable,    \* bound: sessions whose context may end
  MaxCost,      \* the most one call can cost
  MaxFaults     \* bound: sums not read and rows not written

ASSUME CallsAssumption ==
  /\ IsFiniteSet(Sessions)
  /\ KeyOf \in [Sessions -> Keys]
  /\ Evictable \subseteq Sessions
  /\ MaxRetries \in Nat
  /\ HasFallback \in BOOLEAN
  /\ SessionLimit \in Nat \ {0}
  /\ MonthLimit \in Nat \ {0}
  /\ MaxCost \in Nat
  /\ MaxFaults \in Nat

VARIABLES
  at,       \* where the goroutine of a session is
  client,   \* the client it asks
  attempt,  \* attempts of that client that have failed, from 0
  sent,     \* history: requests sent for this turn
  cost,     \* what the answer in hand costs
  live,     \* the context of the session is not done
  keySpent, \* the rows of each key, summed
  spent,    \* the rows of the month, summed
  lost,     \* history: the cost of calls whose row could not be written
  faults    \* history: sums that could not be read, rows not written

vars == <<at, client, attempt, sent, cost, live, keySpent, spent, lost, faults>>

Clients == {"primary", "fallback"}

(* What a request can come to, apart from an answer: statuses 429, 502,    *)
(* 503 and 529; another status from 500 up; another status from 400 up; no *)
(* connection or an answer that cannot be read; the timeout of the request.*)
Failures == {"transient", "server", "client", "broken", "timeout"}

(* IsRetryable *)
IsRetryable(failure) == failure \in {"transient", "timeout"}

(* The statuses of an HTTPError that Retry returned as it was.             *)
FallsBackOn(failure) == failure \in {"transient", "server"}

Places == {"idle", "month", "slot", "request", "backoff", "answered"}

Fault == faults < MaxFaults /\ faults' = faults + 1

Moves(s, place) == at' = [at EXCEPT ![s] = place]

Money == <<keySpent, spent, lost, faults>>
Call  == <<client, attempt, sent>>
-----------------------------------------------------------------------------
Init ==
  /\ at = [s \in Sessions |-> "idle"]
  /\ client = [s \in Sessions |-> "primary"]
  /\ attempt = [s \in Sessions |-> 0]
  /\ sent = [s \in Sessions |-> 0]
  /\ cost = [s \in Sessions |-> 0]
  /\ live = [s \in Sessions |-> TRUE]
  /\ keySpent = [k \in Keys |-> 0]
  /\ spent = 0
  /\ lost = 0
  /\ faults = 0

(* CheckBudget sums the rows of the key; an error counts as no cost ...     *)
WithinSessionAtLimit(s) == keySpent[KeyOf[s]] <= SessionLimit
WithinSession(s) == keySpent[KeyOf[s]] < SessionLimit

ChecksSession(s) ==
  /\ at[s] = "idle"
  /\ \/ WithinSession(s) /\ faults' = faults
     \/ Fault
  /\ Moves(s, "month")
  /\ UNCHANGED <<Call, cost, live, keySpent, spent, lost>>

(* ... and those of the month in a second query, with no lock around.      *)
WithinMonthAtLimit == spent <= MonthLimit
WithinMonth == spent < MonthLimit

ChecksMonth(s) ==
  /\ at[s] = "month"
  /\ \/ WithinMonth /\ faults' = faults
     \/ Fault
  /\ Moves(s, "slot")
  /\ UNCHANGED <<Call, cost, live, keySpent, spent, lost>>

Refused(s) ==
  /\ at[s] = "month"
  /\ ~WithinMonth
  /\ Moves(s, "idle")
  /\ UNCHANGED <<Call, cost, live, Money>>

(* Chat of the turn is over: Run returns, and the next turn starts afresh. *)
Returns(s) ==
  /\ Moves(s, "idle")
  /\ client' = [client EXCEPT ![s] = "primary"]
  /\ attempt' = [attempt EXCEPT ![s] = 0]
  /\ sent' = [sent EXCEPT ![s] = 0]
  /\ cost' = [cost EXCEPT ![s] = 0]

(* The slots belong to the client, and NewAgent makes a client for each    *)
(* session: there is always a free one. The select may still see the end   *)
(* of the context first.                                                   *)
TakesSlot(s) ==
  /\ at[s] = "slot"
  /\ Moves(s, "request")
  /\ UNCHANGED <<Call, cost, live, Money>>

NoSlot(s) ==
  /\ at[s] = "slot"
  /\ ~live[s]
  /\ Returns(s)
  /\ UNCHANGED <<live, Money>>

Sends(s) == sent' = [sent EXCEPT ![s] = @ + 1]

Answers(s) ==
  /\ at[s] = "request"
  /\ live[s]
  /\ Sends(s)
  /\ cost' \in {[cost EXCEPT ![s] = c] : c \in 0..MaxCost}
  /\ Moves(s, "answered")
  /\ UNCHANGED <<client, attempt, live, Money>>

(* FallbackClient.Chat asks the other client from the start.               *)
FallsBack(s) ==
  /\ client' = [client EXCEPT ![s] = "fallback"]
  /\ attempt' = [attempt EXCEPT ![s] = 0]
  /\ Sends(s)
  /\ Moves(s, "slot")
  /\ UNCHANGED cost

CanFallBack(s) == HasFallback /\ client[s] = "primary"

LastAttempt(s) == attempt[s] >= MaxRetries

(* A retryable failure before the last attempt: Retry backs off.           *)
Fails(s, failure) ==
  /\ at[s] = "request"
  /\ IsRetryable(failure)
  /\ ~LastAttempt(s)
  /\ attempt' = [attempt EXCEPT ![s] = @ + 1]
  /\ Sends(s)
  /\ Moves(s, "backoff")
  /\ UNCHANGED <<client, cost, live, Money>>

(* The last attempt ends in a RetryError whatever the failure, and that is *)
(* enough for the other client; before it a failure that is not retryable  *)
(* is returned as it is.                                                   *)
AsksFallback(s, failure) ==
  /\ at[s] = "request"
  /\ CanFallBack(s)
  /\ LastAttempt(s) \/ (~IsRetryable(failure) /\ FallsBackOn(failure))
  /\ FallsBack(s)
  /\ UNCHANGED <<live, Money>>

GivesUp(s, failure) ==
  /\ at[s] = "request"
  /\ LastAttempt(s) \/ ~IsRetryable(failure)
  /\ ~(CanFallBack(s) /\ (LastAttempt(s) \/ FallsBackOn(failure)))
  /\ Returns(s)
  /\ UNCHANGED <<live, Money>>

(* The context of the session is done while the request runs: cancelled,   *)
(* the error is not retryable, so only the last attempt falls back; past   *)
(* the deadline it is, as a timeout (above), and Retry sees the end of the *)
(* context when it backs off.                                              *)
Cancelled(s) ==
  /\ at[s] = "request"
  /\ ~live[s]
  /\ ~LastAttempt(s)
  /\ Returns(s)
  /\ UNCHANGED <<live, Money>>

(* The select of Retry: the timer, or the end of the context.              *)
TriesAgain(s) ==
  /\ at[s] = "backoff"
  /\ Moves(s, "request")
  /\ UNCHANGED <<Call, cost, live, Money>>

StopsBackingOff(s) ==
  /\ at[s] = "backoff"
  /\ ~live[s]
  /\ Returns(s)
  /\ UNCHANGED <<live, Money>>

(* Record adds a row under the lock of the tracker; its error is dropped.   *)
Adds(s) ==
  /\ keySpent' = [keySpent EXCEPT ![KeyOf[s]] = @ + cost[s]]
  /\ spent' = spent + cost[s]

Records(s) ==
  /\ at[s] = "answered"
  /\ Adds(s)
  /\ Returns(s)
  /\ UNCHANGED <<live, lost, faults>>

LosesRecord(s) ==
  /\ at[s] = "answered"
  /\ Fault
  /\ lost' = lost + cost[s]
  /\ Returns(s)
  /\ UNCHANGED <<live, keySpent, spent>>

(* Eviction, the deadline, a shutdown.                                     *)
ContextEnds(s) ==
  /\ s \in Evictable
  /\ live[s]
  /\ live' = [live EXCEPT ![s] = FALSE]
  /\ UNCHANGED <<at, Call, cost, Money>>
-----------------------------------------------------------------------------
Goes(s) ==
  \/ TakesSlot(s) \/ NoSlot(s) \/ Answers(s) \/ Cancelled(s)
  \/ TriesAgain(s) \/ StopsBackingOff(s) \/ Records(s) \/ LosesRecord(s)
  \/ ChecksMonth(s) \/ Refused(s)
  \/ \E f \in Failures : Fails(s, f) \/ AsksFallback(s, f) \/ GivesUp(s, f)

Next == \E s \in Sessions : ChecksSession(s) \/ Goes(s) \/ ContextEnds(s)

Spec == Init /\ [][Next]_vars
-----------------------------------------------------------------------------
TypeOK ==
  /\ at \in [Sessions -> Places]
  /\ client \in [Sessions -> Clients]
  /\ attempt \in [Sessions -> 0..MaxRetries]
  /\ sent \in [Sessions -> Nat]
  /\ cost \in [Sessions -> 0..MaxCost]
  /\ live \in [Sessions -> BOOLEAN]
  /\ keySpent \in [Keys -> Nat]
  /\ spent \in Nat
  /\ lost \in Nat
  /\ faults \in 0..MaxFaults

(* Sessions that have passed the check of their key, or that of the month, *)
(* and whose cost is not recorded yet.                                     *)
PastKey(k) == {s \in Sessions : KeyOf[s] = k /\ at[s] # "idle"}
PastMonth  == {s \in Sessions : at[s] \notin {"idle", "month"}}

OfKey(k) == {s \in Sessions : KeyOf[s] = k}

(* "Enforceable spend limits" (README.md), although CheckBudget and Record *)
(* are apart and a sum that cannot be read counts as nothing: what the     *)
(* calls of the month have cost exceeds the limit by the calls that were   *)
(* under way at that moment, one for each session, and by one for each     *)
(* sum not read or row not written.                                        *)
MonthOverrunBounded ==
  spent + lost <= MonthLimit - 1 + MaxCost * (Cardinality(Sessions) + faults)

(* The same of the rows of one key, to which an evicted session and its    *)
(* heir count.                                                             *)
SessionOverrunBounded ==
  \A k \in Keys :
    keySpent[k] <= SessionLimit - 1 + MaxCost * (Cardinality(OfKey(k)) + faults)

(* The retries of the two clients add up and never multiply: one turn      *)
(* sends at most MaxRetries + 1 requests to each.                          *)
RequestsBounded ==
  \A s \in Sessions : sent[s] <= (MaxRetries + 1) * (IF HasFallback THEN 2 ELSE 1)
-----------------------------------------------------------------------------
(* The inductive invariant of the bounds above.                            *)
LostOK == lost <= MaxCost * faults

MonthReserve ==
  spent + lost + MaxCost * Cardinality(PastMonth)
    <= MonthLimit - 1 + MaxCost * (Cardinality(Sessions) + faults)

KeyReserve ==
  \A k \in Keys :
    keySpent[k] + MaxCost * Cardinality(PastKey(k))
      <= SessionLimit - 1 + MaxCost * (Cardinality(OfKey(k)) + faults)

SentSoFar(s) == attempt[s] + (IF client[s] = "fallback" THEN MaxRetries + 1 ELSE 0)

CountsOK ==
  \A s \in Sessions :
    /\ client[s] = "fallback" => HasFallback
    /\ at[s] = "backoff" => attempt[s] >= 1
    /\ at[s] \in {"idle", "month"} => sent[s] = 0
    /\ sent[s] <= SentSoFar(s) + (IF at[s] = "answered" THEN 1 ELSE 0)

IInv == TypeOK /\ LostOK /\ MonthReserve /\ KeyReserve /\ CountsOK
=============================================================================
