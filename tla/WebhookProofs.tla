---------------------------- MODULE WebhookProofs ----------------------------
(***************************************************************************)
(* Proofs about Webhook: what is published, how often, and with which key, *)
(* for any number of deliveries, payloads, requests that run at a time and *)
(* pull requests that are relabelled and closed meanwhile.                 *)
(***************************************************************************)
EXTENDS Webhook, FiniteSetTheorems, WellFoundedInduction, TLAPS

-----------------------------------------------------------------------------
(* The routing table.                                                      *)
LEMMA TypeOfType ==
  ASSUME NEW p \in Payload
  PROVE  TypeOf(p) \in EventTypes
  <1>1. CASE IsMerge(p)
    <2>1. TypeOf(p) = PRMerged
      BY <1>1 DEF TypeOf, IsMerge, IsCheck
    <2> QED BY <2>1 DEF EventTypes
  <1>2. CASE p.kind \in Joined /\ ~IsMerge(p)
    BY <1>2 DEF TypeOf, EventTypes, Payload
  <1>3. CASE ~(p.kind \in Joined) /\ ~IsMerge(p) /\ p.kind \in {"pull_request_review", "push"}
    BY <1>3 DEF TypeOf, EventTypes, IsCheck
  <1>4. CASE /\ ~(p.kind \in Joined) /\ ~IsMerge(p) /\ ~(p.kind \in {"pull_request_review", "push"})
             /\ IsCheck(p) /\ p.action = "completed"
    BY <1>4 DEF TypeOf, EventTypes, IsCheck, CheckCompleted, WorkflowCompleted
  <1>5. CASE /\ ~(p.kind \in Joined) /\ ~IsMerge(p) /\ ~(p.kind \in {"pull_request_review", "push"})
             /\ ~(IsCheck(p) /\ p.action = "completed")
    BY <1>5 DEF TypeOf, EventTypes
  <1> QED BY <1>1, <1>2, <1>3, <1>4, <1>5

LEMMA DefaultKeys ==
  ASSUME NEW issue \in Nat, NEW pr \in Nat
  PROVE  DefaultKey(issue, pr) \in SessionKeys /\ DefaultKey(issue, pr)[3] = ""
  BY DEF DefaultKey, SessionKeys

LEMMA EventType ==
  ASSUME NEW p \in Payload, NEW n \in Nat
  PROVE  Event(p, n) \in Events
  <1>1. p.number \in Nat /\ p.checked \in Nat /\ PROf(p, n) \in Nat
    BY DEF Payload, PROf
  <1>2. DefaultKey(p.number, PROf(p, n)) \in SessionKeys
    BY <1>1, DefaultKeys
  <1> QED BY <1>1, <1>2, TypeOfType DEF Event, Events, Payload

LEMMA NoEventType == NoEvent \in Events /\ NoEvent.pr = 0
  <1>1. DefaultKey(0, 0) \in SessionKeys
    BY DefaultKeys
  <1> QED BY <1>1 DEF NoEvent, Events, EventTypes, Senders, Bodies, Verdicts

(* Every set of numbers has a least one.                                   *)
LEMMA Least ==
  ASSUME NEW S \in SUBSET Nat, S # {}
  PROVE  Min(S) \in S /\ \A n \in S : Min(S) <= n
  <1>1. PICK m \in S : \A n \in S : <<n, m>> \notin OpToRel(<, Nat)
    BY WFMin, NatLessThanWellFounded, Zenon
  <1>2. \A n \in S : ~(n < m)
    BY <1>1, Zenon DEF OpToRel
  <1>3. \A n \in S : m <= n
    BY <1>2
  <1> QED BY <1>3 DEF Min

(* The first of the rules that match; one that gives the key of rework is  *)
(* never the first for the pull request of a specification.                *)
LEMMA FirstRule ==
  ASSUME NEW e \in Events, NEW L
  PROVE  LET hits == {r \in Rules : Matches(r, e, L)}
             first == Min(hits) IN
         /\ hits # {} => first \in Rules
         /\ hits # {} /\ RoleOf(first) = "implementer" => e.pr > 0 /\ ~IsSpec(L)
  <1> DEFINE hits == {r \in Rules : Matches(r, e, L)}
             first == Min(hits)
  <1>1. SUFFICES ASSUME hits # {}
                 PROVE  first \in Rules /\ (RoleOf(first) = "implementer" => e.pr > 0 /\ ~IsSpec(L))
    OBVIOUS
  <1>2. hits \in SUBSET Nat
    BY DEF Rules
  <1>3. first \in hits /\ \A r \in hits : first <= r
    BY <1>1, <1>2, Least
  <1> HIDE DEF first
  <1>4. first \in Rules /\ Matches(first, e, L)
    BY <1>3
  <1>5. RoleOf(first) = "implementer" => first \in {3, 5, 7}
    BY <1>4 DEF RoleOf, Rules
  <1>6. ASSUME NEW r \in Rules, Matches(r, e, L) PROVE first <= r
    BY <1>3, <1>6
  <1>7. CASE first = 3
    <2>1. e.type = ReviewComment /\ e.pr > 0
      BY <1>4, <1>7 DEF Matches
    <2>2. IsSpec(L) => Matches(2, e, L)
      BY <2>1 DEF Matches
    <2>3. 2 \in Rules
      BY DEF Rules
    <2>4. IsSpec(L) => first <= 2
      BY <1>6, <2>2, <2>3
    <2> QED BY <1>4, <1>7, <2>1, <2>4
  <1>8. CASE first = 5
    <2>1. e.type = Review /\ e.pr > 0
      BY <1>4, <1>8 DEF Matches
    <2>2. IsSpec(L) => Matches(4, e, L)
      BY <2>1 DEF Matches
    <2>3. 4 \in Rules
      BY DEF Rules
    <2>4. IsSpec(L) => first <= 4
      BY <1>6, <2>2, <2>3
    <2> QED BY <1>4, <1>8, <2>1, <2>4
  <1>9. CASE first = 7
    <2>1. e.pr > 0 /\ ~IsSpec(L)
      BY <1>4, <1>9 DEF Matches
    <2> QED BY <1>4, <2>1
  <1> QED BY <1>4, <1>5, <1>7, <1>8, <1>9

(* What routing makes of an event.                                         *)
LEMMA Routing ==
  ASSUME NEW e \in Events, NEW L
  PROVE  LET r == Routed(e, L) IN
         /\ r \in Events /\ r.type = e.type /\ r.pr = e.pr
         /\ e.key[3] = "" /\ r.key[3] = "fix" => e.pr > 0 /\ ~IsSpec(L)
  <1> DEFINE hits == {r \in Rules : Matches(r, e, L)}
             first == Min(hits)
  <1>1. CASE hits = {}
    <2>1. Routed(e, L) = e
      BY <1>1 DEF Routed
    <2> QED BY <2>1
  <1>2. CASE hits # {}
    <2>1. first \in Rules /\ (RoleOf(first) = "implementer" => e.pr > 0 /\ ~IsSpec(L))
      BY <1>2, FirstRule
    <2>2. Routed(e, L) = [e EXCEPT !.role = RoleOf(first), !.key = KeyOf(first, e)]
      BY <1>2 DEF Routed
    <2> HIDE DEF first
    <2>3. RoleOf(first) \in {"pm", "implementer", "reviewer", "scheduler"}
      BY <2>1 DEF RoleOf, Rules
    <2>4. KeyOf(first, e) \in SessionKeys
      BY DEF KeyOf, SessionKeys, Events
    <2>5. KeyOf(first, e)[3] = "fix" => RoleOf(first) = "implementer"
      BY DEF KeyOf
    <2>6. /\ Routed(e, L) \in Events /\ Routed(e, L).type = e.type /\ Routed(e, L).pr = e.pr
          /\ Routed(e, L).key = KeyOf(first, e)
      BY <2>2, <2>3, <2>4 DEF Events
    <2> QED BY <2>1, <2>5, <2>6
  <1> QED BY <1>1, <1>2

-----------------------------------------------------------------------------
(* Types.                                                                  *)
Sound(q) ==
  /\ q \in RequestType
  /\ IF q.at = "idle" THEN q.d = "none"
     ELSE /\ q.d \in Deliveries /\ payload[q.d] # NoPayload
          /\ q.at = "broadcast" => q.id \in Nat

Entries == [d : Deliveries \cup {"test"}, event : Events, unspec : BOOLEAN, unclosed : BOOLEAN]

LEMMA RequestsAreSound ==
  ASSUME TypeOK, NEW r \in Requests
  PROVE  Sound(request[r]) /\ (request[r].at # "idle" => payload[request[r].d] \in Payload)
  BY WebhookAssumption DEF TypeOK, Sound, RequestType

LEMMA UnspecIsBoolean ==
  ASSUME NEW n, NEW L
  PROVE  Unspec(n, L) \in BOOLEAN /\ Unclosed(n, L) \in BOOLEAN
  BY DEF Unspec, Unclosed

LEMMA IdleIsSound == Sound(Idle) /\ Idle \in RequestType /\ Idle.event = NoEvent
  BY NoEventType DEF Sound, Idle, RequestType

(* Where a request goes on to.                                             *)
LEMMA CarriesOn ==
  ASSUME TypeOK, NEW q, Sound(q), q.at # "idle", NEW e \in Events
  PROVE  LET c == Carries(q, e)
             found == FoundByCommit(payload[q.d]) IN
         /\ Sound(c) /\ c.d = q.d /\ c.event = e /\ c.status = q.status /\ c.id = q.id
         /\ c.at = IF e.type = CommentCreated /\ e.pr > 0 THEN "closed" ELSE "route"
         /\ c.unspec = IF found THEN Unspec(e.pr, labels) ELSE q.unspec
         /\ c.unclosed = IF found THEN Unclosed(e.pr, open) ELSE q.unclosed
  <1> DEFINE c == Carries(q, e)
             found == FoundByCommit(payload[q.d])
             at == IF e.type = CommentCreated /\ e.pr > 0 THEN "closed" ELSE "route"
             u == IF found THEN Unspec(e.pr, labels) ELSE q.unspec
             v == IF found THEN Unclosed(e.pr, open) ELSE q.unclosed
  <1>1. q \in RequestType /\ q.d \in Deliveries /\ payload[q.d] # NoPayload
    BY DEF Sound
  <1>2. u \in BOOLEAN /\ v \in BOOLEAN /\ at \in {"closed", "route"}
    BY <1>1, UnspecIsBoolean DEF RequestType
  <1>3. c = [q EXCEPT !.at = at, !.event = e, !.unspec = u, !.unclosed = v]
    BY <1>1 DEF Carries, RequestType
  <1> HIDE DEF c, u, v, at
  <1>4. /\ c.at = at /\ c.event = e /\ c.unspec = u /\ c.unclosed = v
        /\ c.d = q.d /\ c.status = q.status /\ c.id = q.id
    BY <1>1, <1>3 DEF RequestType
  <1>5. c \in RequestType
    BY <1>1, <1>2, <1>3 DEF RequestType, Working
  <1>6. Sound(c)
    BY <1>1, <1>2, <1>4, <1>5 DEF Sound
  <1> QED BY <1>4, <1>6 DEF c, u, v, at

LEMMA FilteredOut ==
  ASSUME NEW q, Sound(q), q.at # "idle"
  PROVE  LET f == Filtered(q) IN
         /\ Sound(f) /\ f.d = q.d /\ f.at = "record" /\ f.status = "filtered"
         /\ f.event = q.event /\ f.unspec = q.unspec /\ f.unclosed = q.unclosed
  <1>1. q \in RequestType /\ q.d \in Deliveries /\ payload[q.d] # NoPayload
    BY DEF Sound
  <1>2. Filtered(q) \in RequestType
    BY <1>1 DEF Filtered, RequestType, Working, Statuses
  <1>3. LET f == Filtered(q) IN
        /\ f.d = q.d /\ f.at = "record" /\ f.status = "filtered"
        /\ f.event = q.event /\ f.unspec = q.unspec /\ f.unclosed = q.unclosed
    BY <1>1 DEF Filtered, RequestType
  <1> QED BY <1>1, <1>2, <1>3 DEF Sound

-----------------------------------------------------------------------------
(* What a step of a request does to the request, and to nothing else of    *)
(* it: q is the request before, n after.                                   *)
LooksUpTo(q, n) == IF IsDuplicate(q.d) THEN n = Idle ELSE n = [q EXCEPT !.at = "mark"]

GoesOnTo(q, e, n) ==
  IF IsAgentEvent(payload[q.d]) THEN n = Filtered(q) ELSE n = Carries(q, e)

NormalizesTo(q, n) ==
  \E bySHA \in {0} \cup (IF IsCheck(payload[q.d]) THEN open ELSE {}) :
    LET e == Event(payload[q.d], bySHA) IN
    IF e.type = NoType THEN n = [q EXCEPT !.at = "record", !.status = "ignored"]
    ELSE IF NeedsKey(e) THEN n = [q EXCEPT !.at = "key", !.event = e]
    ELSE GoesOnTo(q, e, n)

FixesKeyTo(q, n) ==
  LET e == q.event IN
  \/ GoesOnTo(q, IF e.issue \in PRs
                 THEN [e EXCEPT !.pr = e.issue, !.key = DefaultKey(e.issue, e.issue)] ELSE e, n)
  \/ IF IsAgentEvent(payload[q.d]) THEN n = Filtered(q)
     ELSE n = [q EXCEPT !.at = "route", !.unspec = TRUE, !.unclosed = TRUE]

ChecksClosedTo(q, n) ==
  \/ IF q.event.pr \in open THEN n = [q EXCEPT !.at = "route"]
     ELSE n = [q EXCEPT !.at = "record", !.status = "skipped_closed_pr"]
  \/ n = [q EXCEPT !.at = "route", !.unclosed = TRUE]

RoutesTo(q, n) == n = Sent(q, LabelsOf(q.event.pr), FALSE) \/ n = Sent(q, {}, TRUE)

StepsTo(q, n) ==
  CASE q.at = "lookup" -> LooksUpTo(q, n)
    [] q.at = "mark" -> n = [q EXCEPT !.at = "normalize"]
    [] q.at = "normalize" -> NormalizesTo(q, n)
    [] q.at = "key" -> FixesKeyTo(q, n)
    [] q.at = "closed" -> ChecksClosedTo(q, n)
    [] q.at = "route" -> RoutesTo(q, n)
    [] q.at = "publish" -> n = [q EXCEPT !.at = "record", !.status = "accepted"]
    [] q.at = "record" -> n = [q EXCEPT !.at = "broadcast", !.id = nextID]
    [] q.at = "broadcast" -> n = Idle

LEMMA HandlesIsStep ==
  ASSUME TypeOK, NEW r \in Requests, Handles(r)
  PROVE  /\ request[r].at \in Working /\ StepsTo(request[r], request'[r])
         /\ request' = [request EXCEPT ![r] = request'[r]]
         /\ UNCHANGED <<payload, stopping, labels, open, excused>>
  <1> DEFINE q == request[r]
             n == request'[r]
  <1>0. request = [x \in Requests |-> request[x]] /\ q \in RequestType
    BY DEF TypeOK
  <1>f. ASSUME NEW x, request' = [request EXCEPT ![r] = x]
        PROVE  n = x /\ request' = [request EXCEPT ![r] = n]
    BY <1>0, <1>f
  <1> USE DEF forgeVars, historyVars, streamVars, Goes
  <1>1. CASE LooksUp(r)
    <2>1. LooksUpTo(q, n) /\ request' = [request EXCEPT ![r] = n]
      BY <1>0, <1>1, <1>f DEF LooksUp, LooksUpTo
    <2> QED BY <1>1, <2>1 DEF LooksUp, StepsTo, Working
  <1>2. CASE Marks(r)
    <2>1. n = [q EXCEPT !.at = "normalize"] /\ request' = [request EXCEPT ![r] = n]
      BY <1>0, <1>2, <1>f DEF Marks
    <2> QED BY <1>2, <2>1 DEF Marks, StepsTo, Working
  <1>g. ASSUME NEW e, Onward(r, e)
        PROVE  GoesOnTo(q, e, n) /\ request' = [request EXCEPT ![r] = n]
    <2>1. request' = [request EXCEPT ![r] = IF IsAgentEvent(payload[q.d]) THEN Filtered(q) ELSE Carries(q, e)]
      BY <1>0, <1>g DEF Onward
    <2> QED BY <1>f, <2>1 DEF GoesOnTo
  <1>3. CASE Normalizes(r)
    <2>1. PICK bySHA \in {0} \cup (IF IsCheck(payload[q.d]) THEN open ELSE {}) :
            LET e == Event(payload[q.d], bySHA) IN
            IF e.type = NoType
            THEN request' = [request EXCEPT ![r] = [@ EXCEPT !.at = "record", !.status = "ignored"]]
            ELSE IF NeedsKey(e)
            THEN request' = [request EXCEPT ![r] = [@ EXCEPT !.at = "key", !.event = e]]
            ELSE Onward(r, e)
      BY <1>3 DEF Normalizes
    <2> DEFINE e == Event(payload[q.d], bySHA)
    <2> HIDE DEF e
    <2>2. /\ request' = [request EXCEPT ![r] = n]
          /\ IF e.type = NoType THEN n = [q EXCEPT !.at = "record", !.status = "ignored"]
             ELSE IF NeedsKey(e) THEN n = [q EXCEPT !.at = "key", !.event = e]
             ELSE GoesOnTo(q, e, n)
      <3>1. CASE e.type = NoType
        <4>1. request' = [request EXCEPT ![r] = [q EXCEPT !.at = "record", !.status = "ignored"]]
          BY <2>1, <3>1 DEF e
        <4> QED BY <1>f, <3>1, <4>1
      <3>2. CASE e.type # NoType /\ NeedsKey(e)
        <4>1. request' = [request EXCEPT ![r] = [q EXCEPT !.at = "key", !.event = e]]
          BY <2>1, <3>2 DEF e
        <4> QED BY <1>f, <3>2, <4>1
      <3>3. CASE e.type # NoType /\ ~NeedsKey(e)
        <4>1. Onward(r, e)
          BY <2>1, <3>3 DEF e
        <4> QED BY <1>g, <3>3, <4>1
      <3> QED BY <3>1, <3>2, <3>3
    <2>3. NormalizesTo(q, n)
      BY <2>1, <2>2 DEF NormalizesTo, e
    <2> QED BY <1>3, <2>2, <2>3 DEF Normalizes, StepsTo, Working
  <1>4. CASE FixesKey(r)
    <2> DEFINE e == IF q.event.issue \in PRs
                    THEN [q.event EXCEPT !.pr = q.event.issue,
                                         !.key = DefaultKey(q.event.issue, q.event.issue)]
                    ELSE q.event
    <2> HIDE DEF e
    <2>1. CASE Onward(r, e)
      <3>1. GoesOnTo(q, e, n) /\ request' = [request EXCEPT ![r] = n]
        BY <1>g, <2>1
      <3> QED BY <1>4, <3>1 DEF FixesKey, FixesKeyTo, StepsTo, Working, e
    <2>2. CASE request' = [request EXCEPT ![r] =
             IF IsAgentEvent(payload[q.d]) THEN Filtered(q)
             ELSE [q EXCEPT !.at = "route", !.unspec = TRUE, !.unclosed = TRUE]]
      <3>1. request' = [request EXCEPT ![r] = n] /\ FixesKeyTo(q, n)
        BY <1>f, <2>2 DEF FixesKeyTo
      <3> QED BY <1>4, <3>1 DEF FixesKey, StepsTo, Working
    <2> QED BY <1>4, <2>1, <2>2 DEF FixesKey, e
  <1>5. CASE ChecksClosed(r)
    <2>1. ChecksClosedTo(q, n) /\ request' = [request EXCEPT ![r] = n]
      BY <1>0, <1>5, <1>f DEF ChecksClosed, ChecksClosedTo
    <2> QED BY <1>5, <2>1 DEF ChecksClosed, StepsTo, Working
  <1>6. CASE Routes(r)
    <2>1. RoutesTo(q, n) /\ request' = [request EXCEPT ![r] = n]
      BY <1>0, <1>6, <1>f DEF Routes, RoutesTo
    <2> QED BY <1>6, <2>1 DEF Routes, StepsTo, Working
  <1>7. CASE Publishes(r)
    <2>1. n = [q EXCEPT !.at = "record", !.status = "accepted"] /\ request' = [request EXCEPT ![r] = n]
      BY <1>0, <1>7, <1>f DEF Publishes
    <2> QED BY <1>7, <2>1 DEF Publishes, StepsTo, Working
  <1>8. CASE Records(r)
    <2>1. n = [q EXCEPT !.at = "broadcast", !.id = nextID] /\ request' = [request EXCEPT ![r] = n]
      BY <1>0, <1>8, <1>f DEF Records
    <2> QED BY <1>8, <2>1 DEF Records, StepsTo, Working
  <1>9. CASE Answers(r)
    <2>1. n = Idle /\ request' = [request EXCEPT ![r] = n]
      BY <1>0, <1>9, <1>f DEF Answers
    <2> QED BY <1>9, <2>1 DEF Answers, StepsTo, Working
  <1> QED BY <1>1, <1>2, <1>3, <1>4, <1>5, <1>6, <1>7, <1>8, <1>9 DEF Handles


(* What it does besides.                                                   *)
LEMMA StreamTyped ==
  ASSUME TypeOK, UNCHANGED <<nextID, ring, channel, disordered>>
  PROVE  StreamTypeOK'
  BY DEF TypeOK, StreamTypeOK

LEMMA BroadcastTyped ==
  ASSUME StreamTypeOK, NEW id \in Nat, Broadcast(id)
  PROVE  StreamTypeOK'
  <1>1. nextID' \in Nat /\ disordered' \in BOOLEAN
    BY DEF StreamTypeOK, Broadcast
  <1>2. ring' \in Seq(Nat) /\ Len(ring') <= RingSize
    <2>1. CASE Len(ring) < RingSize
      BY <2>1, StreamAssumption DEF StreamTypeOK, Broadcast
    <2>2. CASE ~(Len(ring) < RingSize)
      <3>1. ring \in Seq(Nat) /\ ring # <<>> /\ Len(ring) <= RingSize /\ RingSize \in Nat
        BY <2>2, StreamAssumption DEF StreamTypeOK
      <3>2. Tail(ring) \in Seq(Nat) /\ Len(Tail(ring)) = Len(ring) - 1
        BY <3>1
      <3>3. ring' = Append(Tail(ring), id)
        BY <2>2 DEF Broadcast
      <3> QED BY <3>1, <3>2, <3>3
    <2> QED BY <2>1, <2>2
  <1>3. ASSUME NEW c \in Clients
        PROVE  channel'[c] \in Seq(Nat) /\ Len(channel'[c]) <= StreamCap
    BY StreamAssumption DEF StreamTypeOK, Broadcast
  <1>4. channel' = [c \in Clients |-> channel'[c]]
    BY DEF Broadcast
  <1> QED BY <1>1, <1>2, <1>3, <1>4 DEF StreamTypeOK

LEMMA Counting ==
  ASSUME TypeOK, Works \/ Extra
  PROVE  extras' \in 0..MaxExtras
  <1>1. extras \in 0..MaxExtras /\ MaxExtras \in Nat
    BY WebhookAssumption DEF TypeOK
  <1> QED BY <1>1 DEF Works, Extra

LEMMA AnsweredOrNot ==
  ASSUME NEW r, Answered(r) \/ Unanswered(r)
  PROVE  Works \/ Extra
  BY DEF Answered, Unanswered

LEMMA HandlesEffects ==
  ASSUME TypeOK, NEW r \in Requests, Handles(r)
  PROVE  LET q == request[r] IN
         /\ seen' = IF q.at = "mark" THEN [seen EXCEPT ![q.d] = "seen"] ELSE seen
         /\ q.at # "record" => UNCHANGED <<recorded, unrecorded>>
         /\ q.at = "record" =>
              \/ recorded' = recorded \cup {<<q.d, q.status>>} /\ UNCHANGED unrecorded
              \/ unrecorded' = unrecorded \cup {<<q.d, q.status>>} /\ UNCHANGED recorded
         /\ hungUp' \subseteq hungUp /\ UNCHANGED reworked
         /\ q.at # "publish" => UNCHANGED <<bus, published, lost>>
         /\ q.at = "publish" =>
              \/ /\ Len(bus) < BusCap /\ UNCHANGED lost
                 /\ bus' = Append(bus, [d |-> q.d, event |-> q.event, unspec |-> q.unspec,
                                        unclosed |-> q.unclosed])
                 /\ published' = [published EXCEPT ![q.d] = @ + 1]
              \/ lost' = lost \cup {q.d} /\ UNCHANGED <<bus, published>>
         /\ q.at = "lookup" => (IF seen[q.d] # "no" THEN request'[r] = Idle
                                ELSE request'[r].at = "mark" /\ request'[r].d = q.d)
         /\ extras' \in 0..MaxExtras /\ StreamTypeOK'
  <1> DEFINE q == request[r]
  <1>0. q \in RequestType /\ request = [x \in Requests |-> request[x]]
    BY DEF TypeOK
  <1>e. extras \in 0..MaxExtras /\ MaxExtras \in Nat
    BY WebhookAssumption DEF TypeOK
  <1> USE DEF forgeVars, historyVars, streamVars
  <1>1. CASE LooksUp(r)
    <2>1. StreamTypeOK'
      BY <1>1, StreamTyped DEF LooksUp
    <2>2. IF seen[q.d] # "no" THEN request'[r] = Idle
          ELSE request'[r].at = "mark" /\ request'[r].d = q.d
      BY <1>0, <1>1 DEF LooksUp, IsDuplicate, Goes, RequestType
    <2> QED BY <1>1, <1>e, <2>1, <2>2 DEF LooksUp
  <1>2. CASE Marks(r)
    <2>1. StreamTypeOK'
      BY <1>2, StreamTyped DEF Marks
    <2> QED BY <1>2, <1>e, <2>1 DEF Marks, Marked
  <1>3. CASE Normalizes(r)
    <2>1. StreamTypeOK'
      BY <1>3, StreamTyped DEF Normalizes
    <2> QED BY <1>3, <1>e, <2>1 DEF Normalizes
  <1>4. CASE FixesKey(r)
    <2>1. StreamTypeOK'
      BY <1>4, StreamTyped DEF FixesKey
    <2>2. extras' \in 0..MaxExtras
      BY <1>4, AnsweredOrNot, Counting DEF FixesKey
    <2> QED BY <1>4, <2>1, <2>2 DEF FixesKey
  <1>5. CASE ChecksClosed(r)
    <2>1. StreamTypeOK'
      BY <1>5, StreamTyped DEF ChecksClosed
    <2>2. extras' \in 0..MaxExtras
      BY <1>5, AnsweredOrNot, Counting DEF ChecksClosed
    <2> QED BY <1>5, <2>1, <2>2 DEF ChecksClosed
  <1>6. CASE Routes(r)
    <2>1. StreamTypeOK'
      BY <1>6, StreamTyped DEF Routes
    <2>2. extras' \in 0..MaxExtras
      BY <1>6, AnsweredOrNot, Counting DEF Routes
    <2> QED BY <1>6, <2>1, <2>2 DEF Routes
  <1>7. CASE Publishes(r)
    <2>1. StreamTypeOK'
      BY <1>7, StreamTyped DEF Publishes
    <2> QED BY <1>7, <1>e, <2>1 DEF Publishes
  <1>8. CASE Records(r)
    <2>1. StreamTypeOK'
      BY <1>8 DEF Records, TypeOK, StreamTypeOK
    <2>2. extras' \in 0..MaxExtras
      BY <1>8, AnsweredOrNot, Counting DEF Records
    <2> QED BY <1>8, <2>1, <2>2 DEF Records
  <1>9. CASE Answers(r)
    <2>1. q.id \in Nat
      BY <1>9 DEF Answers, TypeOK
    <2>2. StreamTypeOK'
      BY <1>9, <2>1, BroadcastTyped DEF Answers, TypeOK
    <2> QED BY <1>9, <1>e, <2>2 DEF Answers
  <1> QED BY <1>1, <1>2, <1>3, <1>4, <1>5, <1>6, <1>7, <1>8, <1>9 DEF Handles

(* Where a request goes to is sound.                                       *)
LEMMA StepIsSound ==
  ASSUME TypeOK, NEW q, Sound(q), q.at \in Working, NEW n, StepsTo(q, n)
  PROVE  Sound(n) /\ (n = Idle \/ n.d = q.d)
  <1>1. /\ q \in RequestType /\ q.at # "idle" /\ q.d \in Deliveries /\ payload[q.d] # NoPayload
        /\ payload[q.d] \in Payload /\ q.event \in Events /\ q.unspec \in BOOLEAN
    BY WebhookAssumption DEF TypeOK, Sound, RequestType, Working
  <1>2. CASE q.at = "lookup"
    <2>1. n = Idle \/ n = [q EXCEPT !.at = "mark"]
      BY <1>2 DEF StepsTo, LooksUpTo
    <2> QED BY <1>1, <2>1, IdleIsSound DEF Sound, RequestType, Working
  <1>3. CASE q.at = "mark"
    <2>1. n = [q EXCEPT !.at = "normalize"]
      BY <1>3 DEF StepsTo
    <2> QED BY <1>1, <2>1 DEF Sound, RequestType, Working
  <1>g. ASSUME NEW e \in Events, GoesOnTo(q, e, n)
        PROVE  Sound(n) /\ n.d = q.d
    BY <1>1, <1>g, CarriesOn, FilteredOut DEF GoesOnTo
  <1>4. CASE q.at = "normalize"
    <2>1. NormalizesTo(q, n)
      BY <1>4 DEF StepsTo
    <2>2. PICK bySHA \in {0} \cup (IF IsCheck(payload[q.d]) THEN open ELSE {}) :
            LET e == Event(payload[q.d], bySHA) IN
            IF e.type = NoType THEN n = [q EXCEPT !.at = "record", !.status = "ignored"]
            ELSE IF NeedsKey(e) THEN n = [q EXCEPT !.at = "key", !.event = e]
            ELSE GoesOnTo(q, e, n)
      BY <2>1 DEF NormalizesTo
    <2>3. bySHA \in Nat
      BY WebhookAssumption DEF TypeOK
    <2>4. PICK e \in Events : e = Event(payload[q.d], bySHA)
      BY <1>1, <2>3, EventType
    <2>5. \/ n = [q EXCEPT !.at = "record", !.status = "ignored"]
          \/ n = [q EXCEPT !.at = "key", !.event = e]
          \/ GoesOnTo(q, e, n)
      BY <2>2, <2>4
    <2>6. CASE n = [q EXCEPT !.at = "record", !.status = "ignored"]
      BY <1>1, <2>6 DEF Sound, RequestType, Working, Statuses
    <2>7. CASE n = [q EXCEPT !.at = "key", !.event = e]
      BY <1>1, <2>7 DEF Sound, RequestType, Working
    <2> QED BY <1>g, <2>5, <2>6, <2>7
  <1>5. CASE q.at = "key"
    <2>1. FixesKeyTo(q, n)
      BY <1>5 DEF StepsTo
    <2>2. q.event.issue \in Nat
      BY <1>1 DEF Events
    <2>3. DefaultKey(q.event.issue, q.event.issue) \in SessionKeys
      BY <2>2, DefaultKeys
    <2>4. [q.event EXCEPT !.pr = q.event.issue, !.key = DefaultKey(q.event.issue, q.event.issue)]
            \in Events
      BY <1>1, <2>2, <2>3 DEF Events
    <2>5. PICK e \in Events :
            \/ GoesOnTo(q, e, n)
            \/ n = Filtered(q)
            \/ n = [q EXCEPT !.at = "route", !.unspec = TRUE, !.unclosed = TRUE]
      BY <1>1, <2>1, <2>4 DEF FixesKeyTo
    <2>6. CASE n = [q EXCEPT !.at = "route", !.unspec = TRUE, !.unclosed = TRUE]
      BY <1>1, <2>6 DEF Sound, RequestType, Working
    <2> QED BY <1>1, <1>g, <2>5, <2>6, FilteredOut
  <1>6. CASE q.at = "closed"
    <2>1. \/ n = [q EXCEPT !.at = "route"]
          \/ n = [q EXCEPT !.at = "record", !.status = "skipped_closed_pr"]
          \/ n = [q EXCEPT !.at = "route", !.unclosed = TRUE]
      BY <1>6 DEF StepsTo, ChecksClosedTo
    <2> QED BY <1>1, <2>1 DEF Sound, RequestType, Working, Statuses
  <1>7. CASE q.at = "route"
    <2>0. n = Sent(q, LabelsOf(q.event.pr), FALSE) \/ n = Sent(q, {}, TRUE)
      BY <1>7 DEF StepsTo, RoutesTo
    <2>1. ASSUME NEW L, NEW v \in BOOLEAN, n = Sent(q, L, v)
          PROVE  Sound(n) /\ n.d = q.d
      <3>1. PICK e \in Events : e = Routed(q.event, L)
        BY <1>1, Routing
      <3>2. PICK u \in BOOLEAN : u = (q.unspec \/ v)
        OBVIOUS
      <3>3. n = [q EXCEPT !.at = "publish", !.event = e, !.unspec = u]
        BY <2>1, <3>1, <3>2 DEF Sent
      <3> QED BY <1>1, <3>3 DEF Sound, RequestType, Working
    <2> QED BY <2>0, <2>1
  <1>8. CASE q.at = "publish"
    <2>1. n = [q EXCEPT !.at = "record", !.status = "accepted"]
      BY <1>8 DEF StepsTo
    <2> QED BY <1>1, <2>1 DEF Sound, RequestType, Working, Statuses
  <1>9. CASE q.at = "record"
    <2>1. n = [q EXCEPT !.at = "broadcast", !.id = nextID]
      BY <1>9 DEF StepsTo
    <2>2. nextID \in Nat
      BY DEF TypeOK, StreamTypeOK
    <2> QED BY <1>1, <2>1, <2>2 DEF Sound, RequestType, Working
  <1>10. CASE q.at = "broadcast"
    BY <1>10, IdleIsSound DEF StepsTo
  <1> QED BY <1>2, <1>3, <1>4, <1>5, <1>6, <1>7, <1>8, <1>9, <1>10 DEF Working

-----------------------------------------------------------------------------
(* What is known of a request, and that its history misses nothing.        *)
LEMMA NormalizesKnown ==
  ASSUME NEW q, q.event = NoEvent, payload[q.d] \in Payload, Watching(q),
         NEW bySHA \in Nat, bySHA # 0 => IsCheck(payload[q.d])
  PROVE  LET p == payload[q.d]
             e == Event(p, bySHA) IN
         /\ e.key[3] = "" /\ e.issue = p.number /\ Subject(q) = About(p)
         /\ ~FoundByCommit(p) => (e.pr # 0 => e.pr = About(p))
         /\ FoundByCommit(p) => (e.pr = 0 => About(p) = 0)
         /\ NeedsKey(e) => e.pr = 0 /\ e.issue = About(p) /\ ~IsCheck(p)
         /\ e.type = CommentCreated => ~IsCheck(p) /\ About(p) = p.number
  <1> DEFINE p == payload[q.d]
             e == Event(p, bySHA)
  <1>1. p.number \in Nat /\ p.checked \in Nat /\ p.onPR \in BOOLEAN /\ p.kind \in Kinds
        /\ p.action \in Actions
    BY DEF Payload
  <1>2. e.issue = p.number /\ e.pr = PROf(p, bySHA) /\ e.type = TypeOf(p)
        /\ e.key = DefaultKey(p.number, PROf(p, bySHA))
    BY DEF Event
  <1>3. PROf(p, bySHA) \in Nat
    BY <1>1 DEF PROf
  <1>4. e.key[3] = ""
    BY <1>1, <1>2, <1>3, DefaultKeys
  <1>5. Subject(q) = About(p)
    BY NoEventType DEF Subject
  <1>6. ~FoundByCommit(p) => (e.pr # 0 => e.pr = About(p))
    <2>1. CASE p.onPR
      BY <1>2, <2>1 DEF About, PROf
    <2>2. CASE ~p.onPR /\ IsCheck(p)
      BY <1>2, <2>2 DEF FoundByCommit, About, PROf
    <2>3. CASE ~p.onPR /\ ~IsCheck(p)
      BY <1>2, <2>3 DEF About, PROf
    <2> QED BY <2>1, <2>2, <2>3
  <1>7. FoundByCommit(p) => (e.pr = 0 => About(p) = 0)
    BY DEF FoundByCommit
  <1>8. e.type[1] = "issue_comment" => p.kind = "issue_comment"
    <2>1. CASE IsMerge(p)
      <3>1. e.type = PRMerged
        BY <1>2, <2>1 DEF TypeOf, IsMerge, IsCheck
      <3> QED BY <3>1 DEF PRMerged
    <2>2. CASE ~IsMerge(p) /\ p.kind \in Joined
      <3>1. e.type = <<p.kind, p.action>>
        BY <1>2, <2>2 DEF TypeOf, IsCheck, Joined
      <3> QED BY <3>1
    <2>3. CASE ~IsMerge(p) /\ p.kind \notin Joined
      <3>1. e.type \in {Review, Push, <<p.kind, "completed">>, NoType}
        BY <1>2, <2>3 DEF TypeOf
      <3>2. e.type = <<p.kind, "completed">> => e.type[1] = p.kind
        OBVIOUS
      <3>3. Review[1] = "pull_request_review" /\ Push[1] = "push" /\ NoType[1] = "none"
        BY DEF Review, Push, NoType
      <3>4. e.type[1] \in {"pull_request_review", "push", "none", p.kind}
        BY <3>1, <3>2, <3>3
      <3> QED BY <2>3, <3>4 DEF Joined
    <2> QED BY <2>1, <2>2, <2>3
  <1>9. p.kind = "issue_comment" => ~IsCheck(p) /\ About(p) = p.number
    BY DEF IsCheck, About
  <1>10. NeedsKey(e) => e.pr = 0 /\ e.issue = About(p) /\ ~IsCheck(p)
    BY <1>2, <1>8, <1>9 DEF NeedsKey
  <1>11. e.type = CommentCreated => ~IsCheck(p) /\ About(p) = p.number
    BY <1>8, <1>9 DEF CommentCreated
  <1> QED BY <1>2, <1>4, <1>5, <1>6, <1>7, <1>10, <1>11

LEMMA Positive == \A m \in Nat : m > 0 <=> m # 0
  OBVIOUS

(* A request goes on with an event of a pull request or of none.           *)
LEMMA CarriesKnown ==
  ASSUME TypeOK, NEW q, Sound(q), q.at # "idle", NEW e \in Events, e.key[3] = "",
         Watching(q), Subject(q) = About(payload[q.d]),
         e.pr # 0 => e.pr = About(payload[q.d]) \/ FoundByCommit(payload[q.d]),
         e.type = CommentCreated => e.pr # 0 \/ q.unclosed,
         e.type = CommentCreated => ~FoundByCommit(payload[q.d])
  PROVE  Watching(Carries(q, e)) /\ KnownOf(Carries(q, e))
  <1> DEFINE c == Carries(q, e)
             found == FoundByCommit(payload[q.d])
  <1>1. /\ c.d = q.d /\ c.event = e
        /\ c.at = IF e.type = CommentCreated /\ e.pr > 0 THEN "closed" ELSE "route"
        /\ c.unspec = IF found THEN Unspec(e.pr, labels) ELSE q.unspec
        /\ c.unclosed = IF found THEN Unclosed(e.pr, open) ELSE q.unclosed
    BY CarriesOn
  <1>0. c.event = e /\ c.at = IF e.type = CommentCreated /\ e.pr > 0 THEN "closed" ELSE "route"
    BY CarriesOn
  <1>2. e.pr \in Nat
    BY DEF Events
  <1> HIDE DEF c
  <1>3. Subject(c) = IF e.pr # 0 THEN e.pr ELSE About(payload[q.d])
    BY <1>1 DEF Subject
  <1>4. found => Subject(c) = e.pr
    BY <1>2, <1>3 DEF FoundByCommit
  <1>5. ~found => Subject(c) = About(payload[q.d])
    BY <1>3
  <1>6. Watching(c)
    <2>1. CASE found
      BY <1>1, <1>4, <2>1 DEF Watching
    <2>2. CASE ~found
      BY <1>1, <1>5, <2>2 DEF Watching
    <2> QED BY <2>1, <2>2
  <1>7. KnownOf(c)
    <2>1. CASE e.type = CommentCreated /\ e.pr > 0
      <3>1. c.at = "closed"
        BY <1>0, <2>1, Zenon
      <3>2. c.event.pr # 0
        BY <1>0, <1>2, <2>1, Positive, Zenon
      <3> QED BY <1>0, <3>1, <3>2 DEF KnownOf
    <2>2. CASE ~(e.type = CommentCreated /\ e.pr > 0)
      <3>0. c.at = "route"
        BY <1>0, <2>2, Zenon
      <3>1. c.at = "route" /\ (e.type = CommentCreated => e.pr = 0)
        BY <1>2, <2>2, <3>0, Positive, Zenon
      <3>2. e.type = CommentCreated => c.unclosed
        BY <1>1, <3>1
      <3> QED BY <1>1, <3>1, <3>2 DEF KnownOf
    <2> QED BY <2>1, <2>2
  <1> QED BY <1>6, <1>7 DEF c

LEMMA SameKnown ==
  ASSUME NEW q, NEW n, n.event = q.event, n.d = q.d, n.unspec = q.unspec, n.unclosed = q.unclosed,
         Watching(q)
  PROVE  Watching(n)
  <1>1. Subject(n) = Subject(q)
    BY DEF Subject
  <1> QED BY <1>1 DEF Watching

LEMMA StepIsKnown ==
  ASSUME TypeOK, NEW q, Sound(q), q.at \in Working, Watching(q), KnownOf(q), NEW n, StepsTo(q, n)
  PROVE  n = Idle \/ (Watching(n) /\ KnownOf(n))
  <1>1. /\ q \in RequestType /\ q.at # "idle" /\ payload[q.d] \in Payload
        /\ q.event \in Events /\ q.event.pr \in Nat /\ q.event.issue \in Nat
    BY WebhookAssumption DEF TypeOK, Sound, RequestType, Working, Events
  <1>r. ASSUME n.at \in {"mark", "normalize", "record", "broadcast"},
               n.event = q.event, n.d = q.d, n.unspec = q.unspec, n.unclosed = q.unclosed,
               n.at \in {"mark", "normalize"} => q.event = NoEvent
        PROVE  Watching(n) /\ KnownOf(n)
    <2>1. Watching(n)
      BY <1>r, SameKnown
    <2>2. KnownOf(n)
      BY <1>r DEF KnownOf
    <2> QED BY <2>1, <2>2
  <1>2. CASE q.at = "lookup"
    <2>1. n = Idle \/ n = [q EXCEPT !.at = "mark"]
      BY <1>2 DEF StepsTo, LooksUpTo
    <2>2. q.event = NoEvent
      BY <1>2 DEF KnownOf
    <2>3. CASE n = [q EXCEPT !.at = "mark"]
      <3>1. /\ n.at = "mark" /\ n.event = q.event /\ n.d = q.d /\ n.unspec = q.unspec
            /\ n.unclosed = q.unclosed
        BY <1>1, <2>3 DEF RequestType
      <3> QED BY <1>r, <2>2, <3>1
    <2> QED BY <2>1, <2>3
  <1>3. CASE q.at = "mark"
    <2>1. n = [q EXCEPT !.at = "normalize"]
      BY <1>3 DEF StepsTo
    <2>2. q.event = NoEvent
      BY <1>3 DEF KnownOf
    <2>3. /\ n.at = "normalize" /\ n.event = q.event /\ n.d = q.d /\ n.unspec = q.unspec
          /\ n.unclosed = q.unclosed
      BY <1>1, <2>1 DEF RequestType
    <2> QED BY <1>r, <2>2, <2>3
  <1>f. ASSUME n = Filtered(q) PROVE Watching(n) /\ KnownOf(n)
    <2>1. /\ n.at = "record" /\ n.event = q.event /\ n.d = q.d /\ n.unspec = q.unspec
          /\ n.unclosed = q.unclosed
      BY <1>1, <1>f, FilteredOut
    <2> QED BY <1>r, <2>1
  <1>4. CASE q.at = "normalize"
    <2>1. NormalizesTo(q, n)
      BY <1>4 DEF StepsTo
    <2>2. PICK bySHA \in {0} \cup (IF IsCheck(payload[q.d]) THEN open ELSE {}) :
            LET e == Event(payload[q.d], bySHA) IN
            IF e.type = NoType THEN n = [q EXCEPT !.at = "record", !.status = "ignored"]
            ELSE IF NeedsKey(e) THEN n = [q EXCEPT !.at = "key", !.event = e]
            ELSE GoesOnTo(q, e, n)
      BY <2>1 DEF NormalizesTo
    <2>3. bySHA \in Nat /\ (bySHA # 0 => IsCheck(payload[q.d]))
      BY WebhookAssumption DEF TypeOK
    <2>4. q.event = NoEvent
      BY <1>4 DEF KnownOf
    <2>5. PICK e \in Events : e = Event(payload[q.d], bySHA)
      BY <1>1, <2>3, EventType
    <2>6. /\ e.key[3] = "" /\ e.issue = payload[q.d].number
          /\ Subject(q) = About(payload[q.d])
          /\ ~FoundByCommit(payload[q.d]) => (e.pr # 0 => e.pr = About(payload[q.d]))
          /\ FoundByCommit(payload[q.d]) => (e.pr = 0 => About(payload[q.d]) = 0)
          /\ NeedsKey(e) => e.pr = 0 /\ e.issue = About(payload[q.d]) /\ ~IsCheck(payload[q.d])
          /\ e.type = CommentCreated => ~IsCheck(payload[q.d]) /\ About(payload[q.d]) = payload[q.d].number
      BY <1>1, <2>3, <2>4, <2>5, NormalizesKnown
    <2>7. \/ n = [q EXCEPT !.at = "record", !.status = "ignored"]
          \/ NeedsKey(e) /\ n = [q EXCEPT !.at = "key", !.event = e]
          \/ ~NeedsKey(e) /\ GoesOnTo(q, e, n)
      BY <2>2, <2>5
    <2>8. CASE n = [q EXCEPT !.at = "record", !.status = "ignored"]
      <3>1. /\ n.at = "record" /\ n.event = q.event /\ n.d = q.d /\ n.unspec = q.unspec
            /\ n.unclosed = q.unclosed
        BY <1>1, <2>8 DEF RequestType
      <3> QED BY <1>r, <3>1
    <2>9. CASE NeedsKey(e) /\ n = [q EXCEPT !.at = "key", !.event = e]
      <3>1. /\ n.at = "key" /\ n.event = e /\ n.d = q.d /\ n.unspec = q.unspec
            /\ n.unclosed = q.unclosed
        BY <1>1, <2>9 DEF RequestType
      <3>2. Subject(n) = Subject(q)
        BY <2>6, <2>9, <3>1 DEF Subject
      <3>3. Watching(n)
        BY <3>1, <3>2 DEF Watching
      <3>4. KnownOf(n)
        BY <2>6, <2>9, <3>1 DEF KnownOf
      <3> QED BY <3>3, <3>4
    <2>10. CASE ~NeedsKey(e) /\ GoesOnTo(q, e, n)
      <3>1. CASE n = Filtered(q)
        BY <1>f, <3>1
      <3>2. CASE n = Carries(q, e)
        <4>1. e.type = CommentCreated => ~FoundByCommit(payload[q.d])
          BY <2>6 DEF FoundByCommit
        <4>2. e.type = CommentCreated => e.pr # 0 \/ q.unclosed
          <5>1. SUFFICES ASSUME e.type = CommentCreated, e.pr = 0 PROVE q.unclosed
            OBVIOUS
          <5>2. e.issue = 0
            BY <2>10, <5>1 DEF NeedsKey, CommentCreated, Events
          <5>3. Subject(q) = 0
            BY <2>6, <5>1, <5>2
          <5>4. Unclosed(0, open)
            BY WebhookAssumption DEF Unclosed
          <5> QED BY <5>3, <5>4 DEF Watching
        <4>3. e.pr # 0 => e.pr = About(payload[q.d]) \/ FoundByCommit(payload[q.d])
          BY <2>6
        <4> QED BY <1>1, <2>6, <3>2, <4>1, <4>2, <4>3, CarriesKnown
      <3> QED BY <2>10, <3>1, <3>2 DEF GoesOnTo
    <2> QED BY <2>7, <2>8, <2>9, <2>10
  <1>5. CASE q.at = "key"
    <2>1. /\ q.event.pr = 0 /\ q.event.issue = About(payload[q.d]) /\ ~IsCheck(payload[q.d])
          /\ q.event.key[3] = ""
      BY <1>5 DEF KnownOf
    <2>2. Subject(q) = About(payload[q.d])
      BY <2>1 DEF Subject
    <2>3. ~FoundByCommit(payload[q.d])
      BY <2>1 DEF FoundByCommit
    <2> DEFINE e == IF q.event.issue \in PRs
                    THEN [q.event EXCEPT !.pr = q.event.issue,
                                         !.key = DefaultKey(q.event.issue, q.event.issue)]
                    ELSE q.event
    <2>4. /\ e \in Events /\ e.key[3] = ""
          /\ e.pr # 0 => e.pr = About(payload[q.d])
          /\ e.pr = 0 => q.event.issue \notin PRs
      <3>1. CASE q.event.issue \in PRs
        <4>1. DefaultKey(q.event.issue, q.event.issue) \in SessionKeys
              /\ DefaultKey(q.event.issue, q.event.issue)[3] = ""
          BY <1>1, DefaultKeys
        <4>2. e \in Events /\ e.pr = q.event.issue /\ e.key = DefaultKey(q.event.issue, q.event.issue)
          BY <1>1, <3>1, <4>1 DEF Events
        <4>3. q.event.issue # 0
          BY <3>1, WebhookAssumption
        <4> QED BY <2>1, <4>1, <4>2, <4>3
      <3>2. CASE q.event.issue \notin PRs
        BY <1>1, <2>1, <3>2
      <3> QED BY <3>1, <3>2
    <2> HIDE DEF e
    <2>5. \/ GoesOnTo(q, e, n)
          \/ n = Filtered(q)
          \/ n = [q EXCEPT !.at = "route", !.unspec = TRUE, !.unclosed = TRUE]
      BY <1>5 DEF StepsTo, FixesKeyTo, e
    <2>6. CASE n = Carries(q, e)
      <3>1. e.type = CommentCreated => e.pr # 0 \/ q.unclosed
        <4>1. SUFFICES ASSUME e.pr = 0 PROVE q.unclosed
          OBVIOUS
        <4>2. Unclosed(About(payload[q.d]), open)
          BY <2>1, <2>4, <4>1 DEF Unclosed
        <4> QED BY <2>2, <4>2 DEF Watching
      <3> QED BY <1>1, <2>2, <2>3, <2>4, <2>6, <3>1, CarriesKnown
    <2>7. CASE n = [q EXCEPT !.at = "route", !.unspec = TRUE, !.unclosed = TRUE]
      <3>1. n.at = "route" /\ n.event = q.event /\ n.unspec = TRUE /\ n.unclosed = TRUE
        BY <1>1, <2>7 DEF RequestType
      <3>2. Watching(n)
        BY <3>1 DEF Watching
      <3>3. KnownOf(n)
        BY <2>1, <3>1 DEF KnownOf
      <3> QED BY <3>2, <3>3
    <2> QED BY <1>f, <2>5, <2>6, <2>7 DEF GoesOnTo
  <1>6. CASE q.at = "closed"
    <2>1. q.event.pr # 0 /\ q.event.key[3] = ""
      BY <1>6 DEF KnownOf
    <2>2. Subject(q) = q.event.pr
      BY <2>1 DEF Subject
    <2>3. \/ q.event.pr \in open /\ n = [q EXCEPT !.at = "route"]
          \/ n = [q EXCEPT !.at = "record", !.status = "skipped_closed_pr"]
          \/ n = [q EXCEPT !.at = "route", !.unclosed = TRUE]
      BY <1>6 DEF StepsTo, ChecksClosedTo
    <2>4. CASE q.event.pr \in open /\ n = [q EXCEPT !.at = "route"]
      <3>1. /\ n.at = "route" /\ n.event = q.event /\ n.d = q.d /\ n.unspec = q.unspec
            /\ n.unclosed = q.unclosed
        BY <1>1, <2>4 DEF RequestType
      <3>2. Watching(n)
        BY <3>1, SameKnown
      <3>3. Unclosed(Subject(q), open)
        BY <2>2, <2>4 DEF Unclosed
      <3>4. q.unclosed
        BY <3>3 DEF Watching
      <3>5. KnownOf(n)
        BY <2>1, <3>1, <3>4 DEF KnownOf
      <3> QED BY <3>2, <3>5
    <2>5. CASE n = [q EXCEPT !.at = "record", !.status = "skipped_closed_pr"]
      <3>1. /\ n.at = "record" /\ n.event = q.event /\ n.d = q.d /\ n.unspec = q.unspec
            /\ n.unclosed = q.unclosed
        BY <1>1, <2>5 DEF RequestType
      <3> QED BY <1>r, <3>1
    <2>6. CASE n = [q EXCEPT !.at = "route", !.unclosed = TRUE]
      <3>1. /\ n.at = "route" /\ n.event = q.event /\ n.d = q.d /\ n.unspec = q.unspec
            /\ n.unclosed = TRUE
        BY <1>1, <2>6 DEF RequestType
      <3>2. Subject(n) = Subject(q)
        BY <3>1 DEF Subject
      <3>3. Watching(n)
        BY <3>1, <3>2 DEF Watching
      <3>4. KnownOf(n)
        BY <2>1, <3>1 DEF KnownOf
      <3> QED BY <3>3, <3>4
    <2> QED BY <2>3, <2>4, <2>5, <2>6
  <1>7. CASE q.at = "route"
    <2>1. q.event.key[3] = "" /\ (q.event.type = CommentCreated => q.unclosed)
      BY <1>7 DEF KnownOf
    <2>2. n = Sent(q, LabelsOf(q.event.pr), FALSE) \/ n = Sent(q, {}, TRUE)
      BY <1>7 DEF StepsTo, RoutesTo
    <2>3. ASSUME NEW L, NEW v \in BOOLEAN, n = Sent(q, L, v),
                 ~IsSpec(L) /\ q.event.pr > 0 => v \/ q.unspec
          PROVE  Watching(n) /\ KnownOf(n)
      <3>1. PICK e \in Events : e = Routed(q.event, L)
        BY <1>1, Routing
      <3>2. e.type = q.event.type /\ e.pr = q.event.pr /\ (e.key[3] = "fix" => q.event.pr > 0 /\ ~IsSpec(L))
        BY <1>1, <2>1, <3>1, Routing
      <3>3. PICK u \in BOOLEAN : u <=> (q.unspec \/ v)
        OBVIOUS
      <3>4. (q.unspec \/ v) = u
        BY <3>3
      <3>5. n = [q EXCEPT !.at = "publish", !.event = e, !.unspec = u]
        BY <2>3, <3>1, <3>4 DEF Sent
      <3>6. /\ n.at = "publish" /\ n.event = e /\ n.d = q.d /\ n.unspec = u
            /\ n.unclosed = q.unclosed
        BY <1>1, <3>5 DEF RequestType
      <3>7. Subject(n) = Subject(q)
        BY <3>2, <3>6 DEF Subject
      <3>8. Watching(n)
        BY <3>3, <3>6, <3>7 DEF Watching
      <3>9. n.event.key[3] = "fix" => n.unspec
        BY <2>3, <3>2, <3>3, <3>6
      <3>10. n.event.type = CommentCreated => n.unclosed
        BY <2>1, <3>2, <3>6
      <3>11. KnownOf(n)
        BY <3>6, <3>9, <3>10 DEF KnownOf
      <3> QED BY <3>8, <3>11
    <2>4. CASE n = Sent(q, LabelsOf(q.event.pr), FALSE)
      <3>1. ASSUME ~IsSpec(LabelsOf(q.event.pr)), q.event.pr > 0
            PROVE  q.unspec
        <4>1. Subject(q) = q.event.pr
          BY <1>1, <3>1 DEF Subject
        <4>2. Unspec(q.event.pr, labels)
          BY <3>1 DEF Unspec, IsSpec, LabelsOf
        <4> QED BY <4>1, <4>2 DEF Watching
      <3> QED BY <2>3, <2>4, <3>1
    <2>5. CASE n = Sent(q, {}, TRUE)
      BY <2>3, <2>5
    <2> QED BY <2>2, <2>4, <2>5
  <1>8. CASE q.at = "publish"
    <2>1. n = [q EXCEPT !.at = "record", !.status = "accepted"]
      BY <1>8 DEF StepsTo
    <2>2. /\ n.at = "record" /\ n.event = q.event /\ n.d = q.d /\ n.unspec = q.unspec
          /\ n.unclosed = q.unclosed
      BY <1>1, <2>1 DEF RequestType
    <2> QED BY <1>r, <2>2
  <1>9. CASE q.at = "record"
    <2>1. n = [q EXCEPT !.at = "broadcast", !.id = nextID]
      BY <1>9 DEF StepsTo
    <2>2. /\ n.at = "broadcast" /\ n.event = q.event /\ n.d = q.d /\ n.unspec = q.unspec
          /\ n.unclosed = q.unclosed
      BY <1>1, <2>1 DEF RequestType
    <2> QED BY <1>r, <2>2
  <1>10. CASE q.at = "broadcast"
    BY <1>10 DEF StepsTo
  <1> QED BY <1>2, <1>3, <1>4, <1>5, <1>6, <1>7, <1>8, <1>9, <1>10 DEF Working

-----------------------------------------------------------------------------
(* A step of a request keeps the invariant.                                *)
LEMMA Owned ==
  ASSUME TypeOK, NEW r \in Requests, Handles(r)
  PROVE  /\ Sound(request[r]) /\ request[r].at \in Working /\ request[r].d \in Deliveries
         /\ Sound(request'[r]) /\ (request'[r] = Idle \/ request'[r].d = request[r].d)
         /\ \A x \in Requests : x # r => request'[x] = request[x]
         /\ UNCHANGED <<payload, stopping, labels, open, excused>>
         /\ StepsTo(request[r], request'[r])
  <1>1. /\ request[r].at \in Working /\ StepsTo(request[r], request'[r])
        /\ request' = [request EXCEPT ![r] = request'[r]]
        /\ UNCHANGED <<payload, stopping, labels, open, excused>>
    BY HandlesIsStep
  <1>2. Sound(request[r])
    BY RequestsAreSound
  <1>3. Sound(request'[r]) /\ (request'[r] = Idle \/ request'[r].d = request[r].d)
    BY <1>1, <1>2, StepIsSound
  <1>4. \A x \in Requests : x # r => request'[x] = request[x]
    BY <1>1 DEF TypeOK
  <1>5. request[r].d \in Deliveries
    BY <1>1, <1>2 DEF Sound, Working
  <1> QED BY <1>1, <1>2, <1>3, <1>4, <1>5

LEMMA HandlesTyped ==
  ASSUME TypeOK, DealtOK, NEW r \in Requests, Handles(r)
  PROVE  TypeOK'
  <1> DEFINE q == request[r]
  <1>1. /\ Sound(q) /\ q.d \in Deliveries /\ q.at \in Working /\ Sound(request'[r])
        /\ \A x \in Requests : x # r => request'[x] = request[x]
        /\ UNCHANGED <<payload, stopping, labels, open, excused>>
    BY Owned
  <1>2. /\ request' = [request EXCEPT ![r] = request'[r]]
    BY HandlesIsStep
  <1>3. request' \in [Requests -> RequestType]
    BY <1>1, <1>2 DEF TypeOK, Sound
  <1>4. ASSUME NEW x \in Requests
        PROVE  IF request'[x].at = "idle" THEN request'[x].d = "none"
               ELSE /\ request'[x].d \in Deliveries /\ payload'[request'[x].d] # NoPayload
                    /\ request'[x].at = "broadcast" => request'[x].id \in Nat
    <2>1. Sound(request'[x])
      BY <1>1, RequestsAreSound
    <2> QED BY <1>1, <2>1 DEF Sound
  <1>5. /\ seen' = IF q.at = "mark" THEN [seen EXCEPT ![q.d] = "seen"] ELSE seen
        /\ q.at # "record" => UNCHANGED <<recorded, unrecorded>>
        /\ q.at = "record" =>
             \/ recorded' = recorded \cup {<<q.d, q.status>>} /\ UNCHANGED unrecorded
             \/ unrecorded' = unrecorded \cup {<<q.d, q.status>>} /\ UNCHANGED recorded
        /\ hungUp' \subseteq hungUp /\ UNCHANGED reworked
        /\ q.at # "publish" => UNCHANGED <<bus, published, lost>>
        /\ q.at = "publish" =>
             \/ /\ Len(bus) < BusCap /\ UNCHANGED lost
                /\ bus' = Append(bus, [d |-> q.d, event |-> q.event, unspec |-> q.unspec,
                                       unclosed |-> q.unclosed])
                /\ published' = [published EXCEPT ![q.d] = @ + 1]
             \/ lost' = lost \cup {q.d} /\ UNCHANGED <<bus, published>>
        /\ extras' \in 0..MaxExtras /\ StreamTypeOK'
    BY HandlesEffects
  <1>6. seen' \in [Deliveries -> {"no", "seen"}]
    BY <1>1, <1>5 DEF TypeOK
  <1>7. recorded' \subseteq Deliveries \X Statuses /\ unrecorded' \subseteq Deliveries \X Statuses
    <2>1. q.at = "record" => q.status \in Statuses
      BY DEF DealtOK
    <2> QED BY <1>1, <1>5, <2>1 DEF TypeOK
  <1>8. Len(bus') <= BusCap /\ bus' \in Seq(Entries)
    <2>1. bus \in Seq(Entries) /\ Len(bus) <= BusCap /\ BusCap \in Nat
      BY WebhookAssumption DEF TypeOK, Entries
    <2>2. ASSUME NEW e, e = [d |-> q.d, event |-> q.event, unspec |-> q.unspec, unclosed |-> q.unclosed]
          PROVE  e \in Entries
      BY <1>1, <2>2 DEF Sound, RequestType, Entries
    <2> HIDE DEF Entries, q
    <2>3. ASSUME NEW e \in Entries, bus' = Append(bus, e), Len(bus) < BusCap
          PROVE  Len(bus') <= BusCap /\ bus' \in Seq(Entries)
      BY <2>1, <2>3
    <2>4. \/ bus' = bus
          \/ /\ Len(bus) < BusCap
             /\ bus' = Append(bus, [d |-> q.d, event |-> q.event, unspec |-> q.unspec,
                                    unclosed |-> q.unclosed])
      BY <1>5
    <2> QED BY <2>1, <2>2, <2>3, <2>4
  <1>9. published' \in [Deliveries -> Nat] /\ lost' \subseteq Deliveries
    <2>1. published \in [Deliveries -> Nat] /\ lost \subseteq Deliveries
      BY DEF TypeOK
    <2>2. published[q.d] \in Nat /\ published[q.d] + 1 \in Nat
      BY <1>1, <2>1
    <2> QED BY <1>1, <1>5, <2>1, <2>2
  <1>10. /\ stopping' \in BOOLEAN /\ labels' \in [PRs -> Labelings] /\ open' \in SUBSET PRs
         /\ payload' \in [Deliveries -> Payloads \cup {NoPayload}] /\ excused' \subseteq Deliveries
         /\ hungUp' \subseteq Requests /\ reworked' \subseteq EventTypes
    BY <1>1, <1>5 DEF TypeOK
  <1> HIDE DEF q
  <1> QED BY <1>3, <1>4, <1>5, <1>6, <1>7, <1>8, <1>9, <1>10 DEF TypeOK, Entries

LEMMA HandlesKnown ==
  ASSUME TypeOK, EventsOK, NEW r \in Requests, Handles(r)
  PROVE  EventsOK'
  <1>1. /\ Sound(request[r]) /\ request[r].at \in Working /\ request[r].d \in Deliveries
        /\ StepsTo(request[r], request'[r])
        /\ \A x \in Requests : x # r => request'[x] = request[x]
        /\ UNCHANGED <<payload, labels, open>>
    BY Owned
  <1>2. request[r].d # "none"
    BY <1>1, WebhookAssumption
  <1>3. request'[r] = Idle \/ (Watching(request'[r]) /\ KnownOf(request'[r]))
    BY <1>1, <1>2, StepIsKnown DEF EventsOK
  <1>4. ASSUME NEW x \in Requests, request'[x].d # "none"
        PROVE  Watching(request'[x]) /\ KnownOf(request'[x])
    <2>1. CASE x = r
      BY <1>3, <1>4, <2>1 DEF Idle
    <2>2. CASE x # r
      BY <1>1, <1>4, <2>2 DEF EventsOK
    <2> QED BY <2>1, <2>2
  <1> QED BY <1>1, <1>4 DEF EventsOK, Watching, KnownOf, Subject, Unspec, Unclosed

LEMMA HandlesPublishing ==
  ASSUME TypeOK, EventsOK, RoutesOK, ClosedStaysQuiet, NEW r \in Requests, Handles(r)
  PROVE  RoutesOK' /\ ClosedStaysQuiet'
  <1> DEFINE q == request[r]
             e == [d |-> q.d, event |-> q.event, unspec |-> q.unspec, unclosed |-> q.unclosed]
  <1>1. q.d \in Deliveries /\ q.d # "none"
    BY Owned, WebhookAssumption
  <1>2. q.at = "publish" => /\ e.event.key[3] = "fix" => e.unspec
                            /\ e.event.type = CommentCreated => e.unclosed
    BY <1>1 DEF EventsOK, KnownOf
  <1>3. bus' = bus \/ (q.at = "publish" /\ bus' = Append(bus, e))
    BY HandlesEffects
  <1>4. bus \in Seq(Entries)
    BY DEF TypeOK, Entries
  <1> HIDE DEF e, Entries
  <1>5. CASE q.at = "publish" /\ bus' = Append(bus, e)
    <2>1. ASSUME NEW i \in 1..Len(bus')
          PROVE  (i \in 1..Len(bus) /\ bus'[i] = bus[i]) \/ bus'[i] = e
      BY <1>4, <1>5, <2>1
    <2> QED BY <1>2, <1>5, <2>1 DEF RoutesOK, ClosedStaysQuiet
  <1>6. CASE bus' = bus
    BY <1>6 DEF RoutesOK, ClosedStaysQuiet
  <1> QED BY <1>3, <1>5, <1>6

(* Where a step takes a request, as the counts see it.                     *)
LEMMA GoesOnPlaces ==
  ASSUME TypeOK, NEW q, Sound(q), q.at # "idle", NEW e \in Events, NEW n, GoesOnTo(q, e, n)
  PROVE  n.d = q.d /\ (n.at \in {"closed", "route"} \/ (n.at = "record" /\ n.status = "filtered"))
  <1>1. CASE n = Filtered(q)
    BY <1>1, FilteredOut
  <1>2. CASE n = Carries(q, e)
    BY <1>2, CarriesOn
  <1> QED BY <1>1, <1>2 DEF GoesOnTo

LEMMA StepPlaces ==
  ASSUME TypeOK, NEW q, Sound(q), q.at \in Ahead, NEW n, StepsTo(q, n)
  PROVE  /\ n.d = q.d
         /\ \/ n.at \in Ahead /\ q.at # "publish"
            \/ /\ n.at = "record" /\ n.status \in Statuses
               /\ n.status = "accepted" <=> q.at = "publish"
  <1>1. /\ q \in RequestType /\ q.at # "idle" /\ payload[q.d] \in Payload
        /\ q.event \in Events /\ q.event.pr \in Nat /\ q.event.issue \in Nat
    BY WebhookAssumption DEF TypeOK, Sound, RequestType, Ahead, Events
  <1>2. ASSUME NEW e \in Events, GoesOnTo(q, e, n), q.at # "publish"
        PROVE  /\ n.d = q.d
               /\ \/ n.at \in Ahead /\ q.at # "publish"
                  \/ /\ n.at = "record" /\ n.status \in Statuses
                     /\ n.status = "accepted" <=> q.at = "publish"
    <2>1. n.d = q.d /\ (n.at \in {"closed", "route"} \/ (n.at = "record" /\ n.status = "filtered"))
      BY <1>1, <1>2, GoesOnPlaces
    <2> QED BY <1>2, <2>1 DEF Ahead, Statuses
  <1>3. CASE q.at = "normalize"
    <2>1. PICK bySHA \in {0} \cup (IF IsCheck(payload[q.d]) THEN open ELSE {}) :
            LET e == Event(payload[q.d], bySHA) IN
            IF e.type = NoType THEN n = [q EXCEPT !.at = "record", !.status = "ignored"]
            ELSE IF NeedsKey(e) THEN n = [q EXCEPT !.at = "key", !.event = e]
            ELSE GoesOnTo(q, e, n)
      BY <1>3 DEF StepsTo, NormalizesTo
    <2>2. bySHA \in Nat
      BY WebhookAssumption DEF TypeOK
    <2>3. PICK e \in Events : e = Event(payload[q.d], bySHA)
      BY <1>1, <2>2, EventType
    <2>4. \/ n = [q EXCEPT !.at = "record", !.status = "ignored"]
          \/ n = [q EXCEPT !.at = "key", !.event = e]
          \/ GoesOnTo(q, e, n)
      BY <2>1, <2>3
    <2>5. CASE n = [q EXCEPT !.at = "record", !.status = "ignored"]
      <3>1. n.at = "record" /\ n.status = "ignored" /\ n.d = q.d
        BY <1>1, <2>5 DEF RequestType
      <3> QED BY <1>3, <3>1 DEF Statuses
    <2>6. CASE n = [q EXCEPT !.at = "key", !.event = e]
      <3>1. n.at = "key" /\ n.d = q.d
        BY <1>1, <2>6 DEF RequestType
      <3> QED BY <1>3, <3>1 DEF Ahead
    <2> QED BY <1>2, <1>3, <2>4, <2>5, <2>6
  <1>4. CASE q.at = "key"
    <2>1. DefaultKey(q.event.issue, q.event.issue) \in SessionKeys
      BY <1>1, DefaultKeys
    <2>2. [q.event EXCEPT !.pr = q.event.issue, !.key = DefaultKey(q.event.issue, q.event.issue)]
            \in Events
      BY <1>1, <2>1 DEF Events
    <2>3. FixesKeyTo(q, n)
      BY <1>4 DEF StepsTo
    <2>4. PICK e \in Events :
            \/ GoesOnTo(q, e, n)
            \/ n = Filtered(q)
            \/ n = [q EXCEPT !.at = "route", !.unspec = TRUE, !.unclosed = TRUE]
      BY <1>1, <2>2, <2>3 DEF FixesKeyTo
    <2>5. CASE n = Filtered(q)
      <3>1. n.at = "record" /\ n.status = "filtered" /\ n.d = q.d
        BY <1>1, <2>5, FilteredOut
      <3> QED BY <1>4, <3>1 DEF Statuses
    <2>6. CASE n = [q EXCEPT !.at = "route", !.unspec = TRUE, !.unclosed = TRUE]
      <3>1. n.at = "route" /\ n.d = q.d
        BY <1>1, <2>6 DEF RequestType
      <3> QED BY <1>4, <3>1 DEF Ahead
    <2> QED BY <1>2, <1>4, <2>4, <2>5, <2>6
  <1>5. CASE q.at = "closed"
    <2>1. \/ n = [q EXCEPT !.at = "route"]
          \/ n = [q EXCEPT !.at = "record", !.status = "skipped_closed_pr"]
          \/ n = [q EXCEPT !.at = "route", !.unclosed = TRUE]
      BY <1>5 DEF StepsTo, ChecksClosedTo
    <2>2. /\ n.d = q.d
          /\ n.at = "route" \/ (n.at = "record" /\ n.status = "skipped_closed_pr")
      BY <1>1, <2>1 DEF RequestType
    <2> QED BY <1>5, <2>2 DEF Ahead, Statuses
  <1>6. CASE q.at = "route"
    <2>1. n = Sent(q, LabelsOf(q.event.pr), FALSE) \/ n = Sent(q, {}, TRUE)
      BY <1>6 DEF StepsTo, RoutesTo
    <2>2. n.at = "publish" /\ n.d = q.d
      BY <1>1, <2>1 DEF Sent, RequestType
    <2> QED BY <1>6, <2>2 DEF Ahead
  <1>7. CASE q.at = "publish"
    <2>1. n = [q EXCEPT !.at = "record", !.status = "accepted"]
      BY <1>7 DEF StepsTo
    <2>2. n.at = "record" /\ n.status = "accepted" /\ n.d = q.d
      BY <1>1, <2>1 DEF RequestType
    <2> QED BY <1>7, <2>2 DEF Statuses
  <1> QED BY <1>3, <1>4, <1>5, <1>6, <1>7 DEF Ahead

LEMMA OtherPlaces ==
  ASSUME TypeOK, NEW r \in Requests, Handles(r), request[r].at \notin Ahead
  PROVE  LET q == request[r]
             n == request'[r] IN
         \/ q.at = "lookup" /\ n = Idle
         \/ q.at = "lookup" /\ n.at = "mark" /\ n.d = q.d /\ seen[q.d] = "no"
         \/ q.at = "mark" /\ n.at = "normalize" /\ n.d = q.d
         \/ q.at = "record" /\ n.at = "broadcast" /\ n.d = q.d
         \/ q.at = "broadcast" /\ n = Idle
  <1> DEFINE q == request[r]
             n == request'[r]
  <1>1. /\ q \in RequestType /\ q.at \in Working \ Ahead /\ q.d \in Deliveries
        /\ StepsTo(q, n)
    BY Owned DEF Sound
  <1>2. q.at = "lookup" => (IF seen[q.d] # "no" THEN n = Idle ELSE n.at = "mark" /\ n.d = q.d)
    BY HandlesEffects
  <1>3. seen[q.d] \in {"no", "seen"}
    BY <1>1 DEF TypeOK
  <1>4. q.at = "mark" => n = [q EXCEPT !.at = "normalize"]
    BY <1>1 DEF StepsTo
  <1>5. q.at = "record" => n = [q EXCEPT !.at = "broadcast", !.id = nextID]
    BY <1>1 DEF StepsTo
  <1>6. q.at = "broadcast" => n = Idle
    BY <1>1 DEF StepsTo
  <1> HIDE DEF q, n
  <1>7. q.at \in {"lookup", "mark", "record", "broadcast"}
    BY <1>1 DEF Working, Ahead
  <1>8. (q.at = "mark" => n.at = "normalize" /\ n.d = q.d)
        /\ (q.at = "record" => n.at = "broadcast" /\ n.d = q.d)
    BY <1>1, <1>4, <1>5 DEF RequestType
  <1> QED BY <1>2, <1>3, <1>6, <1>7, <1>8 DEF q, n

(* The same, of any step.                                                  *)
LEMMA Places ==
  ASSUME TypeOK, NEW r \in Requests, Handles(r)
  PROVE  LET q == request[r]
             n == request'[r] IN
         /\ n = Idle \/ n.d = q.d
         /\ n.at \in Ahead => q.at \in MayPublish \ {"publish"}
         /\ n.at = "mark" => q.at = "lookup" /\ seen[q.d] = "no"
         /\ n.at = "record" => /\ q.at \in Ahead /\ n.status \in Statuses /\ n.d = q.d
                               /\ n.status = "accepted" => q.at = "publish"
         /\ q.at = "mark" => n.at = "normalize" /\ n.d = q.d
         /\ q.at \in Ahead => n.at \in Ahead \cup {"record"} /\ n.d = q.d
         /\ q.at = "publish" => n.at = "record"
  <1> DEFINE q == request[r]
             n == request'[r]
  <1>1. Sound(q) /\ StepsTo(q, n)
    BY Owned
  <1>2. CASE q.at \in Ahead
    <2>1. /\ n.d = q.d
          /\ \/ n.at \in Ahead /\ q.at # "publish"
             \/ /\ n.at = "record" /\ n.status \in Statuses
                /\ n.status = "accepted" <=> q.at = "publish"
      BY <1>1, <1>2, StepPlaces
    <2> QED BY <1>2, <2>1 DEF Ahead, MayPublish
  <1>3. CASE q.at \notin Ahead
    <2>1. \/ q.at = "lookup" /\ n = Idle
          \/ q.at = "lookup" /\ n.at = "mark" /\ n.d = q.d /\ seen[q.d] = "no"
          \/ q.at = "mark" /\ n.at = "normalize" /\ n.d = q.d
          \/ q.at = "record" /\ n.at = "broadcast" /\ n.d = q.d
          \/ q.at = "broadcast" /\ n = Idle
      BY <1>3, OtherPlaces
    <2>2. Idle.at = "idle"
      BY DEF Idle
    <2> QED BY <1>3, <2>1, <2>2 DEF Ahead, MayPublish
  <1> QED BY <1>2, <1>3

LEMMA HandlesOnce ==
  ASSUME TypeOK, OnceOK, NEW r \in Requests, Handles(r)
  PROVE  OnceOK'
  <1> DEFINE q == request[r]
             n == request'[r]
  <1>1. /\ \A x \in Requests : x # r => request'[x] = request[x]
        /\ UNCHANGED excused /\ q.d \in Deliveries
    BY Owned
  <1>2. /\ seen' = IF q.at = "mark" THEN [seen EXCEPT ![q.d] = "seen"] ELSE seen
        /\ published' = published \/ (q.at = "publish" /\ published' = [published EXCEPT ![q.d] = @ + 1])
    BY HandlesEffects
  <1>3. /\ n = Idle \/ n.d = q.d
        /\ n.at \in Ahead => q.at \in MayPublish \ {"publish"}
        /\ n.at = "mark" => q.at = "lookup" /\ seen[q.d] = "no"
        /\ q.at = "publish" => n.at = "record"
    BY Places
  <1>4. Idle.d = "none" /\ "none" \notin Deliveries
    BY WebhookAssumption DEF Idle
  <1>5. seen \in [Deliveries -> {"no", "seen"}] /\ published \in [Deliveries -> Nat]
    BY DEF TypeOK
  <1>6. SUFFICES ASSUME NEW d \in Deliveries \ excused
                 PROVE  /\ \A x, y \in Requests : request'[x].d = d /\ request'[y].d = d => x = y
                        /\ \A x \in Requests : request'[x].d = d =>
                             /\ request'[x].at \in Ahead => seen'[d] = "seen"
                             /\ request'[x].at \in MayPublish => published'[d] = 0
                        /\ published'[d] <= 1
                        /\ published'[d] = 1 => seen'[d] = "seen"
    BY <1>1 DEF OnceOK
  <1>7. /\ \A x, y \in Requests : request[x].d = d /\ request[y].d = d => x = y
        /\ \A x \in Requests : request[x].d = d =>
             /\ request[x].at \in Ahead => seen[d] = "seen"
             /\ request[x].at \in MayPublish => published[d] = 0
        /\ published[d] <= 1
        /\ published[d] = 1 => seen[d] = "seen"
        /\ published[d] \in Nat
    BY <1>5 DEF OnceOK
  <1>8. \A x \in Requests : request'[x].d = d => request[x].d = d
    BY <1>1, <1>3, <1>4
  <1>9. \A x, y \in Requests : request'[x].d = d /\ request'[y].d = d => x = y
    BY <1>7, <1>8
  <1>10. "publish" \notin {"mark", "lookup"} /\ "publish" \in Ahead /\ "mark" \notin Ahead
         /\ MayPublish = {"mark"} \cup Ahead /\ "record" \notin MayPublish
    BY DEF MayPublish, Ahead
  <1> HIDE DEF q, n
  <1>11. CASE q.d # d
    <2>1. seen'[d] = seen[d] /\ published'[d] = published[d]
      BY <1>1, <1>2, <1>5, <1>11
    <2>2. \A x \in Requests : request'[x].d = d => request'[x] = request[x]
      BY <1>1, <1>8, <1>11 DEF q
    <2> QED BY <1>7, <1>8, <1>9, <2>1, <2>2
  <1>12. CASE q.d = d
    <2>1. \A x \in Requests : request'[x].d = d => x = r
      BY <1>7, <1>8, <1>12 DEF q
    <2>2. q.at # "publish" => published' = published
      BY <1>2
    <2>3. n.at \in Ahead => seen'[d] = "seen"
      <3>1. SUFFICES ASSUME n.at \in Ahead PROVE seen'[d] = "seen"
        OBVIOUS
      <3>2. q.at \in MayPublish
        BY <1>3, <3>1
      <3>3. CASE q.at = "mark"
        BY <1>2, <1>5, <1>12, <3>3
      <3>4. CASE q.at \in Ahead
        <4>1. seen[d] = "seen"
          BY <1>7, <1>12, <3>4 DEF q
        <4> QED BY <1>2, <1>5, <1>12, <4>1
      <3> QED BY <1>10, <3>2, <3>3, <3>4
    <2>4. n.at \in MayPublish => published'[d] = 0
      <3>1. CASE n.at = "mark"
        BY <1>3, <1>7, <1>10, <1>12, <2>2, <3>1
      <3>2. CASE n.at \in Ahead
        <4>1. q.at \in MayPublish /\ q.at # "publish"
          BY <1>3, <3>2
        <4>2. published[d] = 0
          BY <1>7, <1>12, <4>1 DEF q
        <4> QED BY <2>2, <4>1, <4>2
      <3> QED BY <1>10, <3>1, <3>2
    <2>5. published'[d] <= 1 /\ (published'[d] = 1 => seen'[d] = "seen")
      <3>1. CASE published' = published
        BY <1>2, <1>5, <1>7, <1>12, <3>1
      <3>2. CASE q.at = "publish" /\ published' = [published EXCEPT ![q.d] = @ + 1]
        <4>1. seen[d] = "seen" /\ published[d] = 0
          BY <1>7, <1>10, <1>12, <3>2 DEF q
        <4>2. seen' = seen
          BY <1>2, <3>2
        <4>3. published'[d] = 1
          BY <1>5, <1>12, <3>2, <4>1
        <4> QED BY <4>1, <4>2, <4>3
      <3> QED BY <1>2, <3>1, <3>2
    <2> QED BY <1>9, <2>1, <2>3, <2>4, <2>5 DEF n
  <1> QED BY <1>11, <1>12

LEMMA DealtWithLasts ==
  ASSUME TypeOK, NEW d, DealtWith(d), d \in Deliveries, recorded \subseteq recorded',
         unrecorded \subseteq unrecorded', lost \subseteq lost',
         published[d] > 0 => published'[d] > 0
  PROVE  DealtWith(d)'
  BY DEF DealtWith, Outcomes

LEMMA HandlesDealt ==
  ASSUME TypeOK, DealtOK, NEW r \in Requests, Handles(r)
  PROVE  DealtOK'
  <1> DEFINE q == request[r]
             n == request'[r]
  <1>1. /\ \A x \in Requests : x # r => request'[x] = request[x]
        /\ q.d \in Deliveries
    BY Owned
  <1>2. /\ seen' = IF q.at = "mark" THEN [seen EXCEPT ![q.d] = "seen"] ELSE seen
        /\ q.at # "record" => UNCHANGED <<recorded, unrecorded>>
        /\ q.at = "record" =>
             \/ recorded' = recorded \cup {<<q.d, q.status>>} /\ UNCHANGED unrecorded
             \/ unrecorded' = unrecorded \cup {<<q.d, q.status>>} /\ UNCHANGED recorded
        /\ q.at # "publish" => UNCHANGED <<published, lost>>
        /\ q.at = "publish" => \/ /\ UNCHANGED lost
                                  /\ published' = [published EXCEPT ![q.d] = @ + 1]
                               \/ lost' = lost \cup {q.d} /\ UNCHANGED published
    BY HandlesEffects
  <1>3. /\ n.at = "record" => /\ q.at \in Ahead /\ n.status \in Statuses /\ n.d = q.d
                              /\ n.status = "accepted" => q.at = "publish"
        /\ q.at = "mark" => n.at = "normalize" /\ n.d = q.d
        /\ q.at \in Ahead => n.at \in Ahead \cup {"record"} /\ n.d = q.d
    BY Places
  <1>4. seen \in [Deliveries -> {"no", "seen"}] /\ published \in [Deliveries -> Nat]
    BY DEF TypeOK
  <1> HIDE DEF q, n
  <1>5. recorded \subseteq recorded' /\ unrecorded \subseteq unrecorded' /\ lost \subseteq lost'
    BY <1>2
  <1>6. \A d \in Deliveries : published[d] > 0 => published'[d] > 0
    <2>1. CASE published' = published
      BY <2>1
    <2>2. CASE published' = [published EXCEPT ![q.d] = @ + 1]
      BY <1>1, <1>4, <2>2
    <2> QED BY <1>2, <2>1, <2>2
  <1>7. ASSUME NEW d \in Deliveries, q.at = "record", q.d = d
        PROVE  DealtWith(d)'
    <2>1. q.status \in Statuses /\ (q.status = "accepted" => published[d] > 0 \/ d \in lost)
      BY <1>7 DEF DealtOK, q
    <2>2. <<d, q.status>> \in recorded' \cup unrecorded' /\ published' = published /\ lost' = lost
      BY <1>2, <1>7
    <2> QED BY <2>1, <2>2 DEF DealtWith, Outcomes, Statuses
  <1>8. ASSUME NEW d \in Deliveries, seen'[d] = "seen"
        PROVE  DealtWith(d)' \/ \E x \in Requests : request'[x].d = d /\ request'[x].at \in Ahead \cup {"record"}
    <2>1. CASE q.at = "mark" /\ q.d = d
      <3>1. n.d = d /\ n.at \in Ahead
        BY <1>3, <2>1 DEF Ahead
      <3> QED BY <3>1 DEF n
    <2>2. CASE ~(q.at = "mark" /\ q.d = d)
      <3>1. seen[d] = "seen"
        BY <1>1, <1>2, <1>4, <1>8, <2>2
      <3>2. CASE DealtWith(d)
        BY <1>5, <1>6, <3>2, DealtWithLasts
      <3>3. CASE \E x \in Requests : request[x].d = d /\ request[x].at \in Ahead \cup {"record"}
        <4>1. PICK x \in Requests : request[x].d = d /\ request[x].at \in Ahead \cup {"record"}
          BY <3>3
        <4>2. CASE x # r
          BY <1>1, <4>1, <4>2
        <4>3. CASE x = r /\ q.at = "record"
          BY <1>7, <4>1, <4>3 DEF q
        <4>4. CASE x = r /\ q.at # "record"
          <5>1. q.at \in Ahead /\ q.d = d
            BY <4>1, <4>4 DEF q
          <5>2. n.at \in Ahead \cup {"record"} /\ n.d = d
            BY <1>3, <5>1
          <5> QED BY <5>2 DEF n
        <4> QED BY <4>2, <4>3, <4>4
      <3> QED BY <3>1, <3>2, <3>3 DEF DealtOK
    <2> QED BY <2>1, <2>2
  <1>9. ASSUME NEW x \in Requests, request'[x].at = "record"
        PROVE  /\ request'[x].status \in Statuses
               /\ request'[x].status = "accepted" => published'[request'[x].d] > 0 \/ request'[x].d \in lost'
    <2>1. CASE x # r
      <3>1. request'[x] = request[x]
        BY <1>1, <2>1
      <3>2. /\ request[x].status \in Statuses
            /\ request[x].status = "accepted" => published[request[x].d] > 0 \/ request[x].d \in lost
        BY <1>9, <3>1 DEF DealtOK
      <3>3. request[x].d \in Deliveries
        BY <1>9, <3>1 DEF TypeOK
      <3> QED BY <1>5, <1>6, <3>1, <3>2, <3>3
    <2>2. CASE x = r
      <3>1. n.status \in Statuses /\ n.d = q.d /\ (n.status = "accepted" => q.at = "publish")
        BY <1>3, <1>9, <2>2 DEF n
      <3>2. q.at = "publish" => published'[q.d] > 0 \/ q.d \in lost'
        BY <1>1, <1>2, <1>4
      <3> QED BY <2>2, <3>1, <3>2 DEF n
    <2> QED BY <2>1, <2>2
  <1> QED BY <1>8, <1>9 DEF DealtOK

LEMMA HandlesKeeps ==
  ASSUME IInv, NEW r \in Requests, Handles(r)
  PROVE  IInv'
  BY HandlesTyped, HandlesKnown, HandlesPublishing, HandlesOnce, HandlesDealt DEF IInv

-----------------------------------------------------------------------------
(* The steps of everybody else. Most leave the requests and what has       *)
(* become of their deliveries alone.                                       *)
LEMMA Untouched ==
  ASSUME OnceOK, DealtOK, EventsOK,
         UNCHANGED <<payload, seen, labels, open, request, recorded, unrecorded, published, excused, lost>>
  PROVE  OnceOK' /\ DealtOK' /\ EventsOK'
  <1>1. OnceOK'
    BY DEF OnceOK
  <1>2. DealtOK'
    BY DEF DealtOK, DealtWith, Outcomes
  <1>3. EventsOK'
    BY DEF EventsOK, Watching, KnownOf, Subject, Unspec, Unclosed
  <1> QED BY <1>1, <1>2, <1>3

LEMMA SameBus ==
  ASSUME RoutesOK, ClosedStaysQuiet, UNCHANGED bus
  PROVE  RoutesOK' /\ ClosedStaysQuiet'
  BY DEF RoutesOK, ClosedStaysQuiet

LEMMA SendsKeeps ==
  ASSUME IInv, NEW d \in Deliveries, NEW p \in Payloads, Sends(d, p)
  PROVE  IInv'
  <1> USE DEF forgeVars, historyVars, streamVars
  <1>1. /\ payload[d] = NoPayload /\ payload' = [payload EXCEPT ![d] = p]
        /\ UNCHANGED <<seen, stopping, labels, open, request, bus, recorded, extras, published,
                       excused, lost, hungUp, unrecorded, reworked, nextID,
                       ring, channel, disordered>>
    BY DEF Sends
  <1>2. TypeOK
    BY DEF IInv
  <1>3. p # NoPayload
    BY WebhookAssumption
  <1>4. \A r \in Requests : request[r].d # "none" => payload'[request[r].d] = payload[request[r].d]
    BY <1>1, <1>2 DEF TypeOK
  <1>5. payload' \in [Deliveries -> Payloads \cup {NoPayload}]
    BY <1>1, <1>2 DEF TypeOK
  <1>6. ASSUME NEW r \in Requests
        PROVE  IF request'[r].at = "idle" THEN request'[r].d = "none"
               ELSE /\ request'[r].d \in Deliveries /\ payload'[request'[r].d] # NoPayload
                    /\ request'[r].at = "broadcast" => request'[r].id \in Nat
    BY <1>1, <1>2, <1>3 DEF TypeOK
  <1>7. StreamTypeOK'
    BY <1>1, <1>2, StreamTyped
  <1>8. TypeOK'
    BY <1>1, <1>2, <1>5, <1>6, <1>7 DEF TypeOK
  <1>9. OnceOK' /\ DealtOK'
    BY <1>1 DEF IInv, OnceOK, DealtOK, DealtWith, Outcomes
  <1>10. EventsOK'
    <2>1. SUFFICES ASSUME NEW r \in Requests, request[r].d # "none"
                   PROVE  (Watching(request[r]) /\ KnownOf(request[r]))'
      BY <1>1 DEF EventsOK
    <2>2. Watching(request[r]) /\ KnownOf(request[r])
      BY <2>1 DEF IInv, EventsOK
    <2>3. payload'[request[r].d] = payload[request[r].d]
      BY <1>4, <2>1
    <2>4. Subject(request[r])' = Subject(request[r])
      BY <1>1, <2>3 DEF Subject
    <2>5. Watching(request[r])'
      BY <1>1, <2>2, <2>4 DEF Watching, Unspec, Unclosed
    <2>6. KnownOf(request[r])'
      BY <1>1, <2>2, <2>3 DEF KnownOf
    <2> QED BY <2>5, <2>6
  <1> QED BY <1>1, <1>8, <1>9, <1>10, SameBus DEF IInv

LEMMA ArrivesKeeps ==
  ASSUME IInv, NEW r \in Requests, NEW d \in Deliveries, Arrives(r, d)
  PROVE  IInv'
  <1> USE DEF forgeVars, historyVars, streamVars
  <1> DEFINE new == [Idle EXCEPT !.at = "lookup", !.d = d,
                       !.unspec = Unspec(About(payload[d]), labels),
                       !.unclosed = Unclosed(About(payload[d]), open)]
  <1>1. /\ request[r].at = "idle" /\ payload[d] # NoPayload
        /\ request' = [request EXCEPT ![r] = new]
        /\ excused' = IF \E q \in Requests : request[q].d = d THEN excused \cup {d} ELSE excused
        /\ UNCHANGED <<payload, seen, stopping, labels, open, bus, recorded, published, lost, hungUp,
                       unrecorded, reworked, nextID, ring, channel, disordered>>
    BY DEF Arrives
  <1>2. Works \/ Extra
    BY DEF Arrives
  <1>3. TypeOK
    BY DEF IInv
  <1>4. PICK u \in BOOLEAN, v \in BOOLEAN :
          u = Unspec(About(payload[d]), labels) /\ v = Unclosed(About(payload[d]), open)
    BY UnspecIsBoolean
  <1>5. new = [Idle EXCEPT !.at = "lookup", !.d = d, !.unspec = u, !.unclosed = v]
    BY <1>4
  <1> HIDE DEF new
  <1>6. /\ new.at = "lookup" /\ new.d = d /\ new.event = NoEvent /\ new.unspec = u
        /\ new.unclosed = v
    BY <1>5 DEF Idle
  <1>7. new \in RequestType
    BY <1>4, <1>5, IdleIsSound DEF RequestType, Working
  <1>8. /\ request'[r] = new /\ request' \in [Requests -> RequestType]
        /\ \A x \in Requests : x # r => request'[x] = request[x]
    BY <1>1, <1>3, <1>7 DEF TypeOK
  <1>9. request[r].d = "none" /\ d # "none"
    BY <1>1, <1>3, WebhookAssumption DEF TypeOK
  <1>10. ASSUME NEW x \in Requests
         PROVE  IF request'[x].at = "idle" THEN request'[x].d = "none"
                ELSE /\ request'[x].d \in Deliveries /\ payload'[request'[x].d] # NoPayload
                     /\ request'[x].at = "broadcast" => request'[x].id \in Nat
    <2>1. CASE x = r
      BY <1>1, <1>6, <1>8, <2>1
    <2>2. CASE x # r
      BY <1>1, <1>3, <1>8, <2>2 DEF TypeOK
    <2> QED BY <2>1, <2>2
  <1>11. StreamTypeOK' /\ extras' \in 0..MaxExtras
    BY <1>1, <1>2, <1>3, StreamTyped, Counting
  <1>12. excused' \subseteq Deliveries
    BY <1>1, <1>3 DEF TypeOK
  <1>13. TypeOK'
    BY <1>1, <1>3, <1>8, <1>10, <1>11, <1>12 DEF TypeOK
  <1>14. OnceOK'
    <2>1. SUFFICES ASSUME NEW c \in Deliveries \ excused'
                   PROVE  /\ \A x, y \in Requests : request'[x].d = c /\ request'[y].d = c => x = y
                          /\ \A x \in Requests : request'[x].d = c =>
                               /\ request'[x].at \in Ahead => seen'[c] = "seen"
                               /\ request'[x].at \in MayPublish => published'[c] = 0
                          /\ published'[c] <= 1
                          /\ published'[c] = 1 => seen'[c] = "seen"
      BY DEF OnceOK
    <2>2. c \in Deliveries \ excused
      BY <1>1
    <2>3. /\ \A x, y \in Requests : request[x].d = c /\ request[y].d = c => x = y
          /\ \A x \in Requests : request[x].d = c =>
               /\ request[x].at \in Ahead => seen[c] = "seen"
               /\ request[x].at \in MayPublish => published[c] = 0
          /\ published[c] <= 1
          /\ published[c] = 1 => seen[c] = "seen"
      BY <2>2 DEF IInv, OnceOK
    <2>4. c = d => \A q \in Requests : request[q].d # c
      BY <1>1, <2>1
    <2>5. "lookup" \notin Ahead /\ "lookup" \notin MayPublish
      BY DEF Ahead, MayPublish
    <2>6. CASE c = d
      <3>1. \A x \in Requests : request'[x].d = c => x = r
        BY <1>8, <2>4, <2>6
      <3> QED BY <1>1, <1>6, <1>8, <2>3, <2>5, <3>1
    <2>7. CASE c # d
      <3>1. \A x \in Requests : request'[x].d = c => x # r
        BY <1>6, <1>8, <2>7
      <3> QED BY <1>1, <1>8, <2>3, <3>1
    <2> QED BY <2>6, <2>7
  <1>15. DealtOK'
    <2>1. ASSUME NEW c \in Deliveries, seen'[c] = "seen"
          PROVE  DealtWith(c)' \/ \E x \in Requests : request'[x].d = c /\ request'[x].at \in Ahead \cup {"record"}
      <3>1. DealtWith(c) \/ \E x \in Requests : request[x].d = c /\ request[x].at \in Ahead \cup {"record"}
        BY <1>1, <2>1 DEF IInv, DealtOK
      <3>2. DealtWith(c) => DealtWith(c)'
        BY <1>1 DEF DealtWith, Outcomes
      <3>3. ASSUME NEW x \in Requests, request[x].d = c, request[x].at \in Ahead \cup {"record"}
            PROVE  request'[x] = request[x]
        BY <1>1, <1>8, <3>3 DEF Ahead
      <3> QED BY <3>1, <3>2, <3>3
    <2>2. ASSUME NEW x \in Requests, request'[x].at = "record"
          PROVE  /\ request'[x].status \in Statuses
                 /\ request'[x].status = "accepted" => published'[request'[x].d] > 0 \/ request'[x].d \in lost'
      <3>1. request'[x] = request[x]
        BY <1>6, <1>8, <2>2
      <3> QED BY <1>1, <2>2, <3>1 DEF IInv, DealtOK
    <2> QED BY <2>1, <2>2 DEF DealtOK
  <1>16. EventsOK'
    <2>1. ASSUME NEW x \in Requests, request'[x].d # "none"
          PROVE  Watching(request'[x]) /\ KnownOf(request'[x])
      <3>1. CASE x = r
        <4>1. Subject(new) = About(payload[d])
          BY <1>6, NoEventType DEF Subject
        <4>2. Watching(new)
          BY <1>4, <1>6, <4>1 DEF Watching
        <4>3. KnownOf(new)
          BY <1>6 DEF KnownOf
        <4> QED BY <1>8, <3>1, <4>2, <4>3
      <3>2. CASE x # r
        BY <1>8, <2>1, <3>2 DEF IInv, EventsOK
      <3> QED BY <3>1, <3>2
    <2> QED BY <1>1, <2>1 DEF EventsOK, Watching, KnownOf, Subject, Unspec, Unclosed
  <1> QED BY <1>1, <1>13, <1>14, <1>15, <1>16, SameBus DEF IInv

LEMMA ExpiresKeeps ==
  ASSUME IInv, NEW d \in Deliveries, Expires(d)
  PROVE  IInv'
  <1> USE DEF forgeVars, historyVars, streamVars
  <1>1. /\ seen' = [seen EXCEPT ![d] = "no"] /\ excused' = excused \cup {d}
        /\ UNCHANGED <<payload, stopping, labels, open, request, bus, recorded, published, lost, hungUp,
                       unrecorded, reworked, nextID, ring, channel, disordered>>
    BY DEF Expires
  <1>2. TypeOK
    BY DEF IInv
  <1>3. seen \in [Deliveries -> {"no", "seen"}]
    BY <1>2 DEF TypeOK
  <1>4. StreamTypeOK' /\ extras' \in 0..MaxExtras
    BY <1>1, <1>2, StreamTyped, Counting DEF Expires
  <1>5. TypeOK'
    BY <1>1, <1>2, <1>3, <1>4 DEF TypeOK
  <1>6. OnceOK'
    <2>1. \A c \in Deliveries \ excused' : c \in Deliveries \ excused /\ seen'[c] = seen[c]
      BY <1>1, <1>3
    <2> QED BY <1>1, <2>1 DEF IInv, OnceOK
  <1>7. DealtOK'
    <2>1. \A c \in Deliveries : seen'[c] = "seen" => seen[c] = "seen"
      BY <1>1, <1>3
    <2> QED BY <1>1, <2>1 DEF IInv, DealtOK, DealtWith, Outcomes
  <1>8. EventsOK'
    BY <1>1 DEF IInv, EventsOK, Watching, KnownOf, Subject, Unspec, Unclosed
  <1> QED BY <1>1, <1>5, <1>6, <1>7, <1>8, SameBus DEF IInv

LEMMA TestMergesKeeps ==
  ASSUME IInv, NEW n \in PRs, NEW isMerged \in BOOLEAN, TestMerges(TestPayload(n, isMerged))
  PROVE  IInv'
  <1> USE DEF forgeVars, historyVars, streamVars
  <1> DEFINE p == TestPayload(n, isMerged)
             e == [d |-> "test", event |-> Event(p, 0), unspec |-> TRUE, unclosed |-> TRUE]
  <1>1. /\ bus' = bus \/ (bus' = Append(bus, e) /\ Len(bus) < BusCap)
        /\ UNCHANGED <<payload, seen, stopping, labels, open, request, recorded, published, excused,
                       lost, hungUp, unrecorded, reworked, nextID,
                       ring, channel, disordered>>
        /\ Extra
    <2>1. bus \in Seq(Entries) /\ BusCap \in Nat
      BY WebhookAssumption DEF IInv, TypeOK, Entries
    <2> QED BY <2>1 DEF TestMerges
  <1>2. TypeOK
    BY DEF IInv
  <1>3. p \in Payload
    BY WebhookAssumption DEF TestPayload, Payload, Kinds, Actions, Senders, Bodies, Verdicts
  <1>4. Event(p, 0) \in Events
    BY <1>3, EventType
  <1> HIDE DEF p
  <1>5. e \in Entries
    BY <1>4 DEF Entries
  <1>6. e.unspec = TRUE /\ e.unclosed = TRUE
    OBVIOUS
  <1> HIDE DEF e
  <1>7. Len(bus') <= BusCap /\ bus' \in Seq(Entries)
    <2>1. bus \in Seq(Entries) /\ Len(bus) <= BusCap /\ BusCap \in Nat
      BY <1>2, WebhookAssumption DEF TypeOK, Entries
    <2> HIDE DEF Entries
    <2> QED BY <1>1, <1>5, <2>1
  <1>8. StreamTypeOK' /\ extras' \in 0..MaxExtras
    BY <1>1, <1>2, StreamTyped, Counting
  <1>9. TypeOK'
    BY <1>1, <1>2, <1>7, <1>8 DEF TypeOK, Entries
  <1>10. OnceOK' /\ DealtOK' /\ EventsOK'
    BY <1>1, Untouched DEF IInv
  <1>11. RoutesOK' /\ ClosedStaysQuiet'
    <2>1. bus \in Seq(Entries)
      BY <1>2 DEF TypeOK, Entries
    <2> HIDE DEF Entries
    <2>2. CASE bus' = Append(bus, e)
      <3>1. ASSUME NEW i \in 1..Len(bus')
            PROVE  (i \in 1..Len(bus) /\ bus'[i] = bus[i]) \/ bus'[i] = e
        BY <2>1, <2>2, <3>1
      <3> QED BY <1>6, <2>2, <3>1 DEF IInv, RoutesOK, ClosedStaysQuiet
    <2> QED BY <1>1, <2>2, SameBus DEF IInv
  <1> QED BY <1>9, <1>10, <1>11 DEF IInv

LEMMA SetsShutdownKeeps ==
  ASSUME IInv, SetsShutdown
  PROVE  IInv'
  <1> USE DEF forgeVars, historyVars, streamVars
  <1>1. /\ UNCHANGED <<payload, seen, labels, open, request, bus, recorded, published, excused,
                       lost, hungUp, unrecorded, reworked, nextID,
                       ring, channel, disordered>>
        /\ stopping' = TRUE /\ Extra
    BY DEF SetsShutdown
  <1>2. TypeOK
    BY DEF IInv
  <1>3. StreamTypeOK' /\ extras' \in 0..MaxExtras
    BY <1>1, <1>2, StreamTyped, Counting
  <1>4. TypeOK'
    BY <1>1, <1>2, <1>3 DEF TypeOK
  <1> QED BY <1>1, <1>4, Untouched, SameBus DEF IInv

LEMMA NotedIsSound ==
  ASSUME TypeOK, NEW r \in Requests, NEW L, NEW O
  PROVE  LET q == request[r]
             m == Noted(q, L, O) IN
         /\ m \in RequestType /\ m.at = q.at /\ m.d = q.d /\ m.event = q.event
         /\ m.status = q.status /\ m.id = q.id
         /\ q.d # "none" =>
              /\ m.unspec <=> (q.unspec \/ Unspec(Subject(q), L))
              /\ m.unclosed <=> (q.unclosed \/ Unclosed(Subject(q), O))
  <1> DEFINE q == request[r]
             m == Noted(q, L, O)
  <1>1. q \in RequestType
    BY DEF TypeOK
  <1>2. CASE q.d = "none"
    <2>1. m = q
      BY <1>2 DEF Noted
    <2> QED BY <1>1, <1>2, <2>1
  <1>3. CASE q.d # "none"
    <2>1. PICK u \in BOOLEAN : u <=> (q.unspec \/ Unspec(Subject(q), L))
      BY UnspecIsBoolean
    <2>2. PICK v \in BOOLEAN : v <=> (q.unclosed \/ Unclosed(Subject(q), O))
      BY UnspecIsBoolean
    <2>3. (q.unspec \/ Unspec(Subject(q), L)) = u /\ (q.unclosed \/ Unclosed(Subject(q), O)) = v
      BY <2>1, <2>2
    <2>4. m = [q EXCEPT !.unspec = u, !.unclosed = v]
      BY <1>3, <2>3 DEF Noted
    <2> HIDE DEF m, q
    <2>5. /\ m \in RequestType /\ m.at = q.at /\ m.d = q.d /\ m.event = q.event
          /\ m.status = q.status /\ m.id = q.id /\ m.unspec = u /\ m.unclosed = v
      BY <1>1, <2>4 DEF RequestType
    <2> QED BY <2>1, <2>2, <2>5 DEF m, q
  <1> QED BY <1>2, <1>3

LEMMA ChangesKeeps ==
  ASSUME IInv, Changes
  PROVE  IInv'
  <1> USE DEF forgeVars, historyVars, streamVars
  <1>1. /\ request' = [r \in Requests |-> Noted(request[r], labels', open')]
        /\ UNCHANGED <<payload, seen, stopping, bus, recorded, published, excused,
                       lost, hungUp, unrecorded, reworked, nextID,
                       ring, channel, disordered>>
        /\ Extra
    BY DEF Changes
  <1>2. TypeOK
    BY DEF IInv
  <1>3. labels' \in [PRs -> Labelings] /\ open' \in SUBSET PRs
    BY <1>2 DEF Changes, TypeOK
  <1>4. ASSUME NEW r \in Requests
        PROVE  /\ request'[r] \in RequestType /\ request'[r].at = request[r].at
               /\ request'[r].d = request[r].d /\ request'[r].event = request[r].event
               /\ request'[r].status = request[r].status /\ request'[r].id = request[r].id
               /\ request[r].d # "none" =>
                    /\ request'[r].unspec <=> (request[r].unspec \/ Unspec(Subject(request[r]), labels'))
                    /\ request'[r].unclosed <=> (request[r].unclosed \/ Unclosed(Subject(request[r]), open'))
    <2>1. request'[r] = Noted(request[r], labels', open')
      BY <1>1
    <2> QED BY <1>2, <2>1, NotedIsSound
  <1>5. request' \in [Requests -> RequestType]
    BY <1>1, <1>4
  <1>6. ASSUME NEW r \in Requests
        PROVE  IF request'[r].at = "idle" THEN request'[r].d = "none"
               ELSE /\ request'[r].d \in Deliveries /\ payload'[request'[r].d] # NoPayload
                    /\ request'[r].at = "broadcast" => request'[r].id \in Nat
    BY <1>1, <1>2, <1>4 DEF TypeOK
  <1>7. StreamTypeOK' /\ extras' \in 0..MaxExtras
    BY <1>1, <1>2, StreamTyped, Counting
  <1>8. TypeOK'
    BY <1>1, <1>2, <1>3, <1>5, <1>6, <1>7 DEF TypeOK
  <1>9. OnceOK'
    BY <1>1, <1>4 DEF IInv, OnceOK
  <1>10. DealtOK'
    <2>1. ASSUME NEW d \in Deliveries, seen'[d] = "seen"
          PROVE  DealtWith(d)' \/ \E r \in Requests : request'[r].d = d /\ request'[r].at \in Ahead \cup {"record"}
      <3>1. DealtWith(d) \/ \E r \in Requests : request[r].d = d /\ request[r].at \in Ahead \cup {"record"}
        BY <1>1, <2>1 DEF IInv, DealtOK
      <3>2. DealtWith(d) => DealtWith(d)'
        BY <1>1 DEF DealtWith, Outcomes
      <3> QED BY <1>4, <3>1, <3>2
    <2>2. ASSUME NEW r \in Requests, request'[r].at = "record"
          PROVE  /\ request'[r].status \in Statuses
                 /\ request'[r].status = "accepted" => published'[request'[r].d] > 0 \/ request'[r].d \in lost'
      BY <1>1, <1>4, <2>2 DEF IInv, DealtOK
    <2> QED BY <2>1, <2>2 DEF DealtOK
  <1>11. EventsOK'
    <2>1. SUFFICES ASSUME NEW r \in Requests, request'[r].d # "none"
                   PROVE  (Watching(request[r]) /\ KnownOf(request[r]))'
      BY DEF EventsOK
    <2>2. Watching(request[r]) /\ KnownOf(request[r]) /\ request[r].d # "none"
      BY <1>4, <2>1 DEF IInv, EventsOK
    <2>3. Subject(request[r])' = Subject(request[r])
      BY <1>1, <1>4 DEF Subject
    <2>4. Watching(request[r])'
      <3>1. Unspec(Subject(request[r]), labels') => request'[r].unspec
        BY <1>4, <2>2
      <3>2. Unclosed(Subject(request[r]), open') => request'[r].unclosed
        BY <1>4, <2>2
      <3> QED BY <2>3, <3>1, <3>2 DEF Watching
    <2>5. KnownOf(request[r])'
      <3>1. /\ request'[r].at = request[r].at /\ request'[r].d = request[r].d
            /\ request'[r].event = request[r].event /\ payload' = payload
            /\ request[r].unspec => request'[r].unspec
            /\ request[r].unclosed => request'[r].unclosed
        BY <1>1, <1>4, <2>2
      <3> QED BY <2>2, <3>1 DEF KnownOf
    <2> QED BY <2>4, <2>5
  <1> QED BY <1>1, <1>8, <1>9, <1>10, <1>11, SameBus DEF IInv

LEMMA HangsUpKeeps ==
  ASSUME IInv, NEW r \in Requests, HangsUp(r)
  PROVE  IInv'
  <1> USE DEF historyVars, streamVars
  <1>1. /\ UNCHANGED <<payload, seen, stopping, labels, open, request, bus, recorded, published,
                       excused, lost, unrecorded, reworked, nextID, ring, channel, disordered>>
        /\ hungUp' = hungUp \cup {r} /\ Extra
    BY DEF HangsUp
  <1>2. TypeOK
    BY DEF IInv
  <1>3. StreamTypeOK' /\ extras' \in 0..MaxExtras
    BY <1>1, <1>2, StreamTyped, Counting
  <1>4. TypeOK'
    BY <1>1, <1>2, <1>3 DEF TypeOK
  <1> QED BY <1>1, <1>4, Untouched, SameBus DEF IInv

LEMMA TakenKeeps ==
  ASSUME IInv, Taken
  PROVE  IInv'
  <1> USE DEF forgeVars, historyVars, streamVars
  <1>1. /\ bus # <<>> /\ bus' = Tail(bus)
        /\ UNCHANGED <<payload, seen, stopping, labels, open, request, recorded, extras, published,
                       excused, lost, hungUp, unrecorded, nextID,
                       ring, channel, disordered>>
    BY DEF Taken
  <1>2. TypeOK
    BY DEF IInv
  <1>3. bus \in Seq(Entries) /\ Len(bus) <= BusCap /\ BusCap \in Nat
    BY <1>2, WebhookAssumption DEF TypeOK, Entries
  <1> HIDE DEF Entries
  <1>4. /\ bus' \in Seq(Entries) /\ Len(bus') <= BusCap
        /\ \A i \in 1..Len(bus') : i + 1 \in 1..Len(bus) /\ bus'[i] = bus[i + 1]
    BY <1>1, <1>3
  <1>5. StreamTypeOK'
    BY <1>1, <1>2, StreamTyped
  <1>6. reworked' \subseteq EventTypes
    <2>1. Head(bus) \in Entries
      BY <1>1, <1>3
    <2>2. Head(bus).event.type \in EventTypes
      BY <2>1 DEF Entries, Events
    <2>3. reworked' = reworked \/ reworked' = reworked \cup {Head(bus).event.type}
      BY DEF Taken
    <2> QED BY <1>2, <2>2, <2>3 DEF TypeOK
  <1>8. TypeOK'
    BY <1>1, <1>2, <1>4, <1>5, <1>6 DEF TypeOK, Entries
  <1>7. RoutesOK' /\ ClosedStaysQuiet'
    BY <1>4 DEF IInv, RoutesOK, ClosedStaysQuiet
  <1> QED BY <1>1, <1>7, <1>8, Untouched DEF IInv

LEMMA StreamsKeeps ==
  ASSUME IInv, Streams
  PROVE  IInv'
  <1> USE DEF forgeVars, historyVars
  <1>1. UNCHANGED <<payload, seen, stopping, labels, open, request, bus, recorded, extras, published,
                    excused, lost, hungUp, unrecorded, reworked>>
    BY DEF Streams
  <1>2. TypeOK /\ StreamTypeOK
    BY DEF IInv, TypeOK
  <1>3. PICK c \in Clients : Connect(c) \/ Subscribe(c) \/ Receive(c) \/ Disconnect(c)
    BY DEF Streams, StreamStep
  <1>4. channel \in [Clients -> Seq(Nat)] /\ Len(channel[c]) <= StreamCap /\ StreamCap \in Nat
    BY <1>2, StreamAssumption DEF StreamTypeOK
  <1>5. UNCHANGED <<nextID, ring, disordered>>
    BY <1>3 DEF Connect, Subscribe, Receive, Disconnect
  <1>6. PICK s \in Seq(Nat) : Len(s) <= StreamCap /\ channel' = [channel EXCEPT ![c] = s]
    <2>1. CASE Connect(c)
      BY <1>4, <2>1 DEF Connect
    <2>2. CASE Subscribe(c) \/ Disconnect(c)
      <3>1. channel' = [channel EXCEPT ![c] = <<>>]
        BY <2>2 DEF Subscribe, Disconnect
      <3>2. <<>> \in Seq(Nat) /\ Len(<<>>) <= StreamCap
        BY <1>4
      <3> QED BY <3>1, <3>2
    <2>3. CASE Receive(c)
      <3>1. channel' = [channel EXCEPT ![c] = Tail(channel[c])] /\ channel[c] # <<>>
        BY <2>3 DEF Receive
      <3>2. Tail(channel[c]) \in Seq(Nat) /\ Len(Tail(channel[c])) <= StreamCap
        BY <1>4, <3>1
      <3> QED BY <3>1, <3>2
    <2> QED BY <1>3, <2>1, <2>2, <2>3
  <1>7. StreamTypeOK'
    <2>1. channel' \in [Clients -> Seq(Nat)] /\ \A x \in Clients : Len(channel'[x]) <= StreamCap
      BY <1>2, <1>6 DEF StreamTypeOK
    <2> QED BY <1>2, <1>5, <2>1 DEF StreamTypeOK
  <1>8. TypeOK'
    BY <1>1, <1>2, <1>7 DEF TypeOK
  <1> QED BY <1>1, <1>8, Untouched, SameBus DEF IInv

LEMMA StuttersKeep ==
  ASSUME IInv, UNCHANGED vars
  PROVE  IInv'
  <1>1. /\ UNCHANGED <<payload, seen, stopping, labels, open, request, bus, recorded, extras,
                       published, excused, lost, hungUp, unrecorded, reworked, nextID,
                       ring, channel, disordered>>
    BY DEF vars, forgeVars, historyVars, streamVars
  <1>2. StreamTypeOK'
    BY <1>1, StreamTyped DEF IInv
  <1>3. TypeOK'
    BY <1>1, <1>2 DEF IInv, TypeOK
  <1> QED BY <1>1, <1>3, Untouched, SameBus DEF IInv, forgeVars

LEMMA Starts ==
  ASSUME Init
  PROVE  IInv
  <1> USE DEF Init
  <1>1. StreamTypeOK
    <2>1. nextID = 0 /\ ring = <<>> /\ channel = [c \in Clients |-> <<>>] /\ disordered = FALSE
      BY DEF StreamInit
    <2>2. <<>> \in Seq(Nat) /\ Len(<<>>) = 0 /\ RingSize \in Nat /\ StreamCap \in Nat
      BY StreamAssumption
    <2>3. channel \in [Clients -> Seq(Nat)] /\ \A c \in Clients : Len(channel[c]) <= StreamCap
      BY <2>1, <2>2
    <2> HIDE DEF Init
    <2>4. ring \in Seq(Nat) /\ Len(ring) <= RingSize
      BY <2>1, <2>2
    <2>5. nextID \in Nat /\ disordered \in BOOLEAN
      BY <2>1
    <2> QED BY <2>3, <2>4, <2>5 DEF StreamTypeOK
  <1>2. \A r \in Requests : request[r] = Idle
    OBVIOUS
  <1>3. Idle.at = "idle" /\ Idle.d = "none" /\ Idle \in RequestType
    BY IdleIsSound DEF Idle
  <1>4. /\ payload \in [Deliveries -> Payloads \cup {NoPayload}]
        /\ seen \in [Deliveries -> {"no", "seen"}] /\ stopping \in BOOLEAN
        /\ labels \in [PRs -> Labelings] /\ open \in SUBSET PRs
        /\ request \in [Requests -> RequestType] /\ recorded \subseteq Deliveries \X Statuses
        /\ published \in [Deliveries -> Nat] /\ excused \subseteq Deliveries /\ lost \subseteq Deliveries
        /\ hungUp \subseteq Requests /\ unrecorded \subseteq Deliveries \X Statuses
        /\ reworked \subseteq EventTypes
    BY <1>3
  <1>5. extras \in 0..MaxExtras /\ Len(bus) <= BusCap /\ bus \in Seq(Entries)
    BY WebhookAssumption
  <1>6. TypeOK
    BY <1>1, <1>2, <1>3, <1>4, <1>5 DEF TypeOK, Entries
  <1>7. OnceOK
    BY <1>2, <1>3, WebhookAssumption DEF OnceOK
  <1>8. DealtOK
    BY <1>2, <1>3 DEF DealtOK
  <1>9. EventsOK /\ RoutesOK /\ ClosedStaysQuiet
    BY <1>2, <1>3 DEF EventsOK, RoutesOK, ClosedStaysQuiet
  <1> QED BY <1>6, <1>7, <1>8, <1>9 DEF IInv

LEMMA Keeps ==
  ASSUME IInv, [Next]_vars
  PROVE  IInv'
  <1>1. CASE \E d \in Deliveries, p \in Payloads : Sends(d, p)
    BY <1>1, SendsKeeps
  <1>2. CASE \E r \in Requests, d \in Deliveries : Arrives(r, d)
    BY <1>2, ArrivesKeeps
  <1>3. CASE \E r \in Requests : Handles(r)
    BY <1>3, HandlesKeeps
  <1>4. CASE \E d \in Deliveries : Expires(d)
    BY <1>4, ExpiresKeeps
  <1>5. CASE \E n \in PRs, isMerged \in BOOLEAN : TestMerges(TestPayload(n, isMerged))
    BY <1>5, TestMergesKeeps
  <1>6. CASE SetsShutdown
    BY <1>6, SetsShutdownKeeps
  <1>7. CASE Changes
    BY <1>7, ChangesKeeps
  <1>8. CASE Taken
    BY <1>8, TakenKeeps
  <1>9. CASE Streams
    BY <1>9, StreamsKeeps
  <1>10. CASE \E r \in Requests : HangsUp(r)
    BY <1>10, HangsUpKeeps
  <1>11. CASE UNCHANGED vars
    BY <1>11, StuttersKeep
  <1> QED BY <1>1, <1>2, <1>3, <1>4, <1>5, <1>6, <1>7, <1>8, <1>9, <1>10, <1>11 DEF Next

-----------------------------------------------------------------------------
(* Sequences of numbers in order.                                          *)
LEMMA Numbers ==
  ASSUME NEW s \in Seq(Nat)
  PROVE  Len(s) \in Nat /\ DOMAIN s = 1..Len(s) /\ \A i \in 1..Len(s) : s[i] \in Nat
  OBVIOUS

LEMMA UpToLast ==
  ASSUME NEW s \in Seq(Nat), Increasing(s)
  PROVE  \A i \in DOMAIN s : s # <<>> /\ Len(s) \in DOMAIN s /\ s[i] <= s[Len(s)]
  <1>1. PICK n \in Nat : n = Len(s) /\ DOMAIN s = 1..n /\ \A i \in 1..n : s[i] \in Nat
    OBVIOUS
  <1>2. ASSUME NEW i \in DOMAIN s PROVE s # <<>> /\ n \in DOMAIN s /\ s[i] <= s[n]
    <2>1. i \in 1..n /\ n \in 1..n /\ s # <<>>
      BY <1>1, <1>2
    <2>2. i < n => s[i] < s[n]
      BY <1>1, <2>1 DEF Increasing
    <2>3. s[i] \in Nat /\ s[n] \in Nat /\ (i < n \/ i = n)
      BY <1>1, <2>1
    <2> QED BY <1>1, <2>1, <2>2, <2>3
  <1> QED BY <1>1, <1>2

LEMMA OneMore ==
  ASSUME NEW s \in Seq(Nat), NEW x \in Nat, Increasing(s), \A i \in DOMAIN s : s[i] < x
  PROVE  LET t == Append(s, x) IN
         /\ t \in Seq(Nat) /\ t # <<>> /\ Increasing(t) /\ t[Len(t)] = x
         /\ \A i \in DOMAIN t : t[i] = x \/ (i \in DOMAIN s /\ t[i] = s[i])
  <1>1. PICK n \in Nat : n = Len(s) /\ DOMAIN s = 1..n /\ \A i \in 1..n : s[i] \in Nat
    OBVIOUS
  <1>2. PICK t : t = Append(s, x) /\ t \in Seq(Nat)
    <2>1. Append(s, x) \in Seq(Nat)
      OBVIOUS
    <2> QED BY <2>1
  <1>3. Len(t) = n + 1 /\ DOMAIN t = 1..(n + 1) /\ t[n + 1] = x /\ \A i \in 1..n : t[i] = s[i]
    BY <1>1, <1>2
  <1>4. Increasing(t)
    <2>1. SUFFICES ASSUME NEW i \in 1..(n + 1), NEW j \in 1..(n + 1), i < j PROVE t[i] < t[j]
      BY <1>3 DEF Increasing
    <2>2. i \in 1..n /\ (j \in 1..n \/ j = n + 1)
      BY <2>1
    <2> QED BY <1>1, <1>3, <2>1, <2>2 DEF Increasing
  <1>5. \A i \in DOMAIN t : t[i] = x \/ (i \in DOMAIN s /\ t[i] = s[i])
    BY <1>1, <1>3
  <1>6. t # <<>>
    BY <1>2
  <1> QED BY <1>2, <1>3, <1>4, <1>5, <1>6

LEMMA OneLess ==
  ASSUME NEW s \in Seq(Nat), s # <<>>, Increasing(s)
  PROVE  LET t == Tail(s) IN
         /\ Head(s) \in Nat /\ Head(s) = s[1] /\ 1 \in DOMAIN s /\ t \in Seq(Nat) /\ Increasing(t)
         /\ \A i \in DOMAIN t : Head(s) < t[i] /\ i + 1 \in DOMAIN s /\ t[i] = s[i + 1]
  <1>1. PICK n \in Nat : n = Len(s) /\ DOMAIN s = 1..n /\ (\A i \in 1..n : s[i] \in Nat) /\ n > 0
    OBVIOUS
  <1>2. PICK t : t = Tail(s) /\ t \in Seq(Nat)
    <2>1. Tail(s) \in Seq(Nat)
      OBVIOUS
    <2> QED BY <2>1
  <1>3. DOMAIN t = 1..(n - 1) /\ \A i \in 1..(n - 1) : t[i] = s[i + 1]
    BY <1>1, <1>2
  <1>4. Head(s) = s[1] /\ 1 \in 1..n
    BY <1>1
  <1>5. \A i \in 1..(n - 1) : i + 1 \in 1..n /\ 1 < i + 1
    BY <1>1
  <1>6. \A i \in DOMAIN t : Head(s) < t[i] /\ i + 1 \in DOMAIN s /\ t[i] = s[i + 1]
    BY <1>1, <1>3, <1>4, <1>5 DEF Increasing
  <1>7. Increasing(t)
    <2>1. SUFFICES ASSUME NEW i \in 1..(n - 1), NEW j \in 1..(n - 1), i < j PROVE t[i] < t[j]
      BY <1>3 DEF Increasing
    <2>2. i + 1 \in 1..n /\ j + 1 \in 1..n /\ i + 1 < j + 1
      BY <1>5, <2>1
    <2> QED BY <1>1, <1>3, <2>1, <2>2 DEF Increasing
  <1> QED BY <1>1, <1>2, <1>4, <1>6, <1>7

LEMMA InARow ==
  ASSUME NEW s \in Seq(Nat), NEW t \in Seq(Nat), Increasing(s), Increasing(t),
         \A i \in DOMAIN s, j \in DOMAIN t : s[i] < t[j]
  PROVE  \E u :
           /\ u = s \o t /\ u \in Seq(Nat) /\ Increasing(u)
           /\ \A i \in DOMAIN u : (i \in DOMAIN s /\ u[i] = s[i]) \/ (\E j \in DOMAIN t : u[i] = t[j])
           /\ u[Len(u)] = IF t = <<>> THEN s[Len(s)] ELSE t[Len(t)]
           /\ u = <<>> <=> (s = <<>> /\ t = <<>>)
  <1>1. PICK n \in Nat : n = Len(s) /\ DOMAIN s = 1..n /\ \A i \in 1..n : s[i] \in Nat
    OBVIOUS
  <1>2. PICK m \in Nat : m = Len(t) /\ DOMAIN t = 1..m /\ \A i \in 1..m : t[i] \in Nat
    OBVIOUS
  <1>3. PICK u : u = s \o t /\ u \in Seq(Nat)
    <2>1. s \o t \in Seq(Nat)
      OBVIOUS
    <2> QED BY <2>1
  <1>4. Len(u) = n + m /\ DOMAIN u = 1..(n + m)
    BY <1>1, <1>2, <1>3
  <1>5. \A i \in 1..n : u[i] = s[i]
    BY <1>1, <1>3
  <1>6. \A i \in 1..(n + m) : ~(i <= n) => i - n \in 1..m /\ u[i] = t[i - n]
    BY <1>1, <1>2, <1>3
  <1>7. \A i \in 1..(n + m) : \/ i \in 1..n /\ u[i] = s[i]
                              \/ i - n \in 1..m /\ u[i] = t[i - n]
    BY <1>5, <1>6
  <1>8. Increasing(u)
    <2>1. SUFFICES ASSUME NEW i \in 1..(n + m), NEW j \in 1..(n + m), i < j PROVE u[i] < u[j]
      BY <1>4 DEF Increasing
    <2>2. CASE j <= n
      <3>1. i \in 1..n /\ j \in 1..n
        BY <2>1, <2>2
      <3> QED BY <1>1, <1>5, <2>1, <3>1 DEF Increasing
    <2>3. CASE i <= n /\ ~(j <= n)
      <3>1. i \in 1..n /\ j - n \in 1..m
        BY <2>1, <2>3
      <3> QED BY <1>1, <1>2, <1>5, <1>6, <2>3, <3>1
    <2>4. CASE ~(i <= n)
      <3>1. i - n \in 1..m /\ j - n \in 1..m /\ i - n < j - n /\ ~(j <= n)
        BY <2>1, <2>4
      <3>2. u[i] = t[i - n] /\ u[j] = t[j - n]
        BY <1>6, <2>4, <3>1
      <3> QED BY <1>2, <3>1, <3>2 DEF Increasing
    <2> QED BY <2>1, <2>2, <2>3, <2>4
  <1>9. \A i \in DOMAIN u : (i \in DOMAIN s /\ u[i] = s[i]) \/ (\E j \in DOMAIN t : u[i] = t[j])
    BY <1>1, <1>2, <1>4, <1>7
  <1>10. u[Len(u)] = IF t = <<>> THEN s[Len(s)] ELSE t[Len(t)]
    <2>1. CASE t = <<>>
      BY <1>3, <2>1
    <2>2. CASE t # <<>>
      <3>1. m > 0
        BY <1>2, <2>2
      <3>2. n + m \in 1..(n + m) /\ ~(n + m <= n) /\ n + m - n = m
        BY <3>1
      <3> QED BY <1>2, <1>4, <1>6, <2>2, <3>2
    <2> QED BY <2>1, <2>2
  <1>11. u = <<>> <=> (s = <<>> /\ t = <<>>)
    BY <1>1, <1>2, <1>3, <1>4
  <1> QED BY <1>3, <1>8, <1>9, <1>10, <1>11, Zenon

-----------------------------------------------------------------------------
(* The stream. A client that asks for what comes after an ID is sent newer *)
(* events of the ring, oldest first.                                       *)
LEMMA OrderThere ==
  ASSUME NEW a \in Nat, NEW b \in Nat, a <= b
  PROVE  \E f \in [1..Cardinality(a..b) -> a..b] : \A i, j \in DOMAIN f : i < j => f[i] < f[j]
  <1>1. Cardinality(a..b) = b - a + 1
    BY FS_Interval
  <1>2. PICK f : f = [i \in 1..(b - a + 1) |-> a + i - 1]
    OBVIOUS
  <1>3. f \in [1..(b - a + 1) -> a..b] /\ \A i, j \in DOMAIN f : i < j => f[i] < f[j]
    BY <1>2
  <1> QED BY <1>1, <1>3

LEMMA Replays ==
  ASSUME ring \in Seq(Nat), Increasing(ring), NEW last \in Int, NEW s, s = Since(last)
  PROVE  /\ s \in Seq(Nat) /\ Increasing(s)
         /\ \A i \in DOMAIN s : s[i] > last /\ \E j \in DOMAIN ring : s[i] = ring[j]
  <1>0. PICK n \in Nat : n = Len(ring) /\ DOMAIN ring = 1..n /\ \A i \in 1..n : ring[i] \in Nat
    BY Numbers
  <1>1. PICK places : places = {i \in DOMAIN ring : ring[i] > last}
    OBVIOUS
  <1>2. \E f \in [1..Cardinality(places) -> places] : \A i, j \in DOMAIN f : i < j => f[i] < f[j]
    <2>1. CASE places = {}
      <3>1. Cardinality(places) = 0
        BY <2>1, FS_EmptySet
      <3>2. PICK f : f = [i \in {} |-> 0]
        OBVIOUS
      <3>3. f \in [1..0 -> {}]
        BY <3>2
      <3> QED BY <2>1, <3>1, <3>3
    <2>2. CASE places # {}
      <3>1. places \in SUBSET Nat
        BY <1>0, <1>1
      <3>2. PICK m \in places : \A i \in places : m <= i
        BY <2>2, <3>1, Least
      <3>3. m \in 1..n /\ ring[m] > last /\ ring[m] \in Nat
        BY <1>0, <1>1
      <3>4. \A i \in 1..n : m < i => ring[m] < ring[i] /\ ring[i] \in Nat
        BY <1>0, <3>3 DEF Increasing
      <3>5. \A i \in 1..n : m <= i => ring[i] > last
        BY <3>3, <3>4
      <3>6. places = m..n
        BY <1>0, <1>1, <3>2, <3>3, <3>5
      <3>7. m \in Nat /\ m <= n
        BY <3>3
      <3>8. \E f \in [1..Cardinality(m..n) -> m..n] : \A i, j \in DOMAIN f : i < j => f[i] < f[j]
        BY <3>7, OrderThere
      <3> QED BY <3>6, <3>8
    <2> QED BY <2>1, <2>2
  <1>3. PICK f : f = InOrder(places)
    OBVIOUS
  <1>4. f \in [1..Cardinality(places) -> places] /\ \A i, j \in DOMAIN f : i < j => f[i] < f[j]
    BY <1>2, <1>3 DEF InOrder
  <1>5. Cardinality(places) \in Nat
    <2>1. places \in SUBSET (1..n)
      BY <1>0, <1>1
    <2>2. IsFiniteSet(1..n)
      BY FS_Interval
    <2>3. IsFiniteSet(places)
      BY <2>1, <2>2, FS_Subset
    <2> QED BY <2>3, FS_CardinalityType
  <1>6. s = [i \in 1..Cardinality(places) |-> ring[f[i]]]
    BY <1>1, <1>3 DEF Since, Replay
  <1>8. s \in Seq(Nat) /\ DOMAIN s = 1..Cardinality(places)
    <2>1. \A i \in 1..Cardinality(places) : ring[f[i]] \in Nat
      BY <1>0, <1>1, <1>4
    <2>2. s \in [1..Cardinality(places) -> Nat]
      BY <1>6, <2>1
    <2> QED BY <1>5, <2>2
  <1>9. \A i \in DOMAIN s : f[i] \in DOMAIN ring /\ s[i] = ring[f[i]] /\ ring[f[i]] > last
    BY <1>1, <1>4, <1>6, <1>8
  <1>10. Increasing(s)
    BY <1>4, <1>8, <1>9 DEF Increasing
  <1> QED BY <1>8, <1>9, <1>10

(* The IDs that requests have drawn.                                       *)
LEMMA DrawnStays ==
  ASSUME DrawnOK, UNCHANGED <<ring, nextID>>,
         \A r \in Requests : request'[r].at = "broadcast" =>
           request[r].at = "broadcast" /\ request'[r].id = request[r].id
  PROVE  DrawnOK'
  BY DEF DrawnOK

LEMMA StreamStays ==
  ASSUME StreamOK, UNCHANGED <<ring, channel, client, received, disordered>>
  PROVE  StreamOK'
  BY DEF StreamOK, ClientOK, Increasing, Reached

LEMMA RecordsDraws ==
  ASSUME TypeOK, SInv, NEW r \in Requests, Records(r)
  PROVE  SInv'
  <1>1. UNCHANGED <<ring, channel, client, received, disordered>> /\ nextID' = nextID + 1 /\ nextID \in Nat
    BY DEF Records, TypeOK, StreamTypeOK
  <1>2. /\ request'[r].at = "broadcast" /\ request'[r].id = nextID
        /\ \A q \in Requests : q # r => request'[q] = request[q]
    <2>1. PICK n : n = [request[r] EXCEPT !.at = "broadcast", !.id = nextID]
      OBVIOUS
    <2>2. request' = [request EXCEPT ![r] = n]
      BY <2>1 DEF Records
    <2>3. n.at = "broadcast" /\ n.id = nextID
      BY <2>1 DEF TypeOK, RequestType
    <2> QED BY <2>2, <2>3 DEF TypeOK
  <1>3. ring \in Seq(Nat) /\ \A q \in Requests : request[q].at = "broadcast" => request[q].id \in Nat
    BY DEF TypeOK, StreamTypeOK
  <1>4. DrawnOK'
    BY <1>1, <1>2, <1>3 DEF SInv, DrawnOK
  <1>5. StreamOK'
    BY <1>1, StreamStays DEF SInv
  <1> QED BY <1>4, <1>5 DEF SInv

LEMMA AnswersBroadcasts ==
  ASSUME TypeOK, SInv, NEW r \in Requests, Answers(r)
  PROVE  SInv'
  <1>1. PICK id \in Nat : id = request[r].id /\ Broadcast(id) /\ request[r].at = "broadcast"
    BY DEF Answers, TypeOK
  <1>2. UNCHANGED <<nextID, client, received>>
    BY <1>1 DEF Broadcast
  <1>3. ring \in Seq(Nat) /\ RingSize \in Nat \ {0} /\ StreamCap \in Nat \ {0}
        /\ channel \in [Clients -> Seq(Nat)]
    BY StreamAssumption DEF TypeOK, StreamTypeOK
  <1>4. PICK rest \in Seq(Nat) :
          /\ ring' = Append(rest, id)
          /\ rest = ring \/ (ring # <<>> /\ rest = Tail(ring))
    <2>1. CASE Len(ring) < RingSize
      BY <1>1, <1>3, <2>1 DEF Broadcast
    <2>2. CASE ~(Len(ring) < RingSize)
      <3>1. ring # <<>> /\ Tail(ring) \in Seq(Nat)
        BY <1>3, <2>2
      <3> QED BY <1>1, <2>2, <3>1 DEF Broadcast
    <2> QED BY <2>1, <2>2
  <1>5. \A i \in DOMAIN rest : \E j \in DOMAIN ring : rest[i] = ring[j]
    <2>1. ring # <<>> => \A i \in DOMAIN Tail(ring) : i + 1 \in DOMAIN ring /\ Tail(ring)[i] = ring[i + 1]
      BY <1>3
    <2> QED BY <1>4, <2>1
  <1>6. \A i \in DOMAIN ring' : ring'[i] = id \/ \E j \in DOMAIN ring : ring'[i] = ring[j]
    BY <1>4, <1>5
  <1>7. request'[r].at = "idle" /\ \A q \in Requests : q # r => request'[q] = request[q]
    BY DEF Answers, TypeOK, Idle
  <1>8. DrawnOK'
    BY <1>1, <1>2, <1>6, <1>7 DEF SInv, DrawnOK
  <1>9. StreamOK'
    <2> SUFFICES ASSUME ~disordered'
                 PROVE  /\ Increasing(ring)' /\ received' \in [Clients -> Seq(Nat)]
                        /\ client' \in [Clients -> [at : {"off", "replayed", "on"}, last : Nat \cup {None}]]
                        /\ \A c \in Clients : ClientOK(c)'
      BY DEF StreamOK
    <2>1. /\ ~disordered /\ (ring # <<>> => ring[Len(ring)] <= id)
      <3>1. ~disordered /\ ~(ring # <<>> /\ id < ring[Len(ring)])
        BY <1>1 DEF Broadcast, Last
      <3>2. ring # <<>> => ring[Len(ring)] \in Nat
        BY <1>3
      <3> QED BY <3>1, <3>2
    <2>2. /\ Increasing(ring) /\ received \in [Clients -> Seq(Nat)]
          /\ client \in [Clients -> [at : {"off", "replayed", "on"}, last : Nat \cup {None}]]
          /\ \A c \in Clients : ClientOK(c)
      BY <2>1 DEF SInv, StreamOK
    <2>3. \A i \in DOMAIN ring : ring[i] < id
      <3>1. \A i \in DOMAIN ring : ring[i] # id
        BY <1>1 DEF SInv, DrawnOK
      <3>2. \A i \in DOMAIN ring : ring # <<>> /\ Len(ring) \in DOMAIN ring /\ ring[i] <= ring[Len(ring)]
        BY <1>3, <2>2, UpToLast
      <3>3. \A i \in DOMAIN ring : ring[i] \in Nat
        BY <1>3
      <3> QED BY <2>1, <3>1, <3>2, <3>3
    <2>4. Increasing(rest) /\ \A i \in DOMAIN rest : rest[i] < id
      <3>1. ring # <<>> => Increasing(Tail(ring))
        BY <1>3, <2>2, OneLess
      <3>2. Increasing(rest)
        BY <1>4, <2>2, <3>1
      <3> QED BY <1>5, <2>3, <3>2
    <2>5. Increasing(ring)' /\ ring' # <<>> /\ ring'[Len(ring')] = id
      <3>1. PICK new : new = Append(rest, id)
        OBVIOUS
      <3>2. Increasing(new) /\ new # <<>> /\ new[Len(new)] = id
        BY <2>4, <3>1, OneMore
      <3> QED BY <1>4, <3>1, <3>2 DEF Increasing
    <2>7. ASSUME NEW s \in Seq(Nat), Reached(s)
          PROVE  \A i \in DOMAIN s : s[i] < id
      <3>1. \A i \in DOMAIN s : s[i] \in Nat
        OBVIOUS
      <3>2. ring # <<>> => Len(ring) \in DOMAIN ring /\ ring[Len(ring)] \in Nat
        BY <1>3
      <3> QED BY <2>3, <2>7, <3>1, <3>2 DEF Reached
    <2>8. ASSUME NEW c \in Clients PROVE ClientOK(c)'
      <3>1. received[c] \in Seq(Nat) /\ channel[c] \in Seq(Nat) /\ ClientOK(c)
        BY <1>3, <2>2
      <3>2. (\A i \in DOMAIN received[c] : received[c][i] < id) /\ \A i \in DOMAIN channel[c] : channel[c][i] < id
        BY <2>7, <3>1 DEF ClientOK
      <3>3. channel'[c] = channel[c] \/ (client[c].at = "on" /\ channel'[c] = Append(channel[c], id))
        BY <1>1 DEF Broadcast
      <3>4. PICK h : h = channel'[c]
        OBVIOUS
      <3>5. /\ Increasing(h) /\ \A i \in DOMAIN h : h[i] = id \/ (i \in DOMAIN channel[c] /\ h[i] = channel[c][i])
            /\ h # <<>> => client[c].at = "on"
        <4>1. CASE h = channel[c]
          BY <3>1, <4>1 DEF ClientOK
        <4>2. CASE h = Append(channel[c], id) /\ client[c].at = "on"
          BY <3>1, <3>2, <4>2, OneMore DEF ClientOK
        <4> QED BY <3>3, <3>4, <4>1, <4>2
      <3>6. \A i \in DOMAIN received[c] : received[c][i] \in Nat
        BY <3>1
      <3>7. \A i \in DOMAIN channel[c] : channel[c][i] \in Nat
        BY <3>1
      <3>8. \A i \in DOMAIN received[c], j \in DOMAIN h : received[c][i] < h[j]
        BY <3>1, <3>2, <3>5 DEF ClientOK
      <3>9. (\A i \in DOMAIN h : h[i] <= id) /\ \A i \in DOMAIN received[c] : received[c][i] <= id
        BY <3>2, <3>5, <3>6, <3>7
      <3>10. Reached(channel[c])' /\ Reached(received[c])'
        BY <1>2, <2>5, <3>4, <3>9 DEF Reached
      <3> QED BY <1>2, <3>1, <3>4, <3>5, <3>8, <3>10 DEF ClientOK, Increasing
    <2> QED BY <1>2, <2>2, <2>5, <2>8
  <1> QED BY <1>8, <1>9 DEF SInv

(* The streams of the clients.                                             *)
LEMMA ClientStays ==
  ASSUME NEW c \in Clients, ClientOK(c), UNCHANGED ring,
         received'[c] = received[c], channel'[c] = channel[c], client'[c] = client[c]
  PROVE  ClientOK(c)'
  BY DEF ClientOK, Increasing, Reached

LEMMA ClientsMove ==
  ASSUME StreamTypeOK, StreamOK, NEW c \in Clients,
         Connect(c) \/ Subscribe(c) \/ Receive(c) \/ Disconnect(c)
  PROVE  StreamOK'
  <1>1. UNCHANGED <<ring, nextID, disordered>> /\ ring \in Seq(Nat) /\ channel \in [Clients -> Seq(Nat)]
    BY DEF Connect, Subscribe, Receive, Disconnect, StreamTypeOK
  <1> SUFFICES ASSUME ~disordered
               PROVE  /\ Increasing(ring)' /\ received' \in [Clients -> Seq(Nat)]
                      /\ client' \in [Clients -> [at : {"off", "replayed", "on"}, last : Nat \cup {None}]]
                      /\ \A x \in Clients : ClientOK(x)'
    BY <1>1 DEF StreamOK
  <1>2. /\ Increasing(ring) /\ received \in [Clients -> Seq(Nat)]
        /\ client \in [Clients -> [at : {"off", "replayed", "on"}, last : Nat \cup {None}]]
        /\ \A x \in Clients : ClientOK(x)
    BY DEF StreamOK
  <1>3. PICK k, got, held : k = client[c] /\ got = received[c] /\ held = channel[c]
    OBVIOUS
  <1>4. /\ k \in [at : {"off", "replayed", "on"}, last : Nat \cup {None}]
        /\ got \in Seq(Nat) /\ held \in Seq(Nat)
        /\ Increasing(got) /\ Reached(got) /\ Increasing(held) /\ Reached(held)
        /\ k.last = IF got = <<>> THEN None ELSE got[Len(got)]
        /\ held # <<>> => k.at = "on"
        /\ \A i \in DOMAIN got, j \in DOMAIN held : got[i] < held[j]
    BY <1>1, <1>2, <1>3 DEF ClientOK
  (* What is left to show of a step: the client it moves, which is n after *)
  (* it, with what it was sent and its channel.                            *)
  <1>5. ASSUME NEW n \in [at : {"off", "replayed", "on"}, last : Nat \cup {None}],
               NEW s \in Seq(Nat), NEW h \in Seq(Nat),
               client' = [client EXCEPT ![c] = n], received' = [received EXCEPT ![c] = s],
               channel' = [channel EXCEPT ![c] = h],
               Increasing(s), Reached(s), Increasing(h), Reached(h),
               n.last = IF s = <<>> THEN None ELSE s[Len(s)],
               h # <<>> => n.at = "on",
               \A i \in DOMAIN s, j \in DOMAIN h : s[i] < h[j]
        PROVE  /\ Increasing(ring)' /\ received' \in [Clients -> Seq(Nat)]
               /\ client' \in [Clients -> [at : {"off", "replayed", "on"}, last : Nat \cup {None}]]
               /\ \A x \in Clients : ClientOK(x)'
    <2>1. client'[c] = n /\ received'[c] = s /\ channel'[c] = h
      BY <1>1, <1>2, <1>5
    <2>2. \A x \in Clients : x # c => client'[x] = client[x] /\ received'[x] = received[x] /\ channel'[x] = channel[x]
      BY <1>1, <1>2, <1>5
    <2>3. ClientOK(c)'
      BY <1>1, <1>5, <2>1 DEF ClientOK, Increasing, Reached
    <2>4. \A x \in Clients : ClientOK(x)'
      BY <1>1, <1>2, <2>2, <2>3, ClientStays
    <2>5. received' \in [Clients -> Seq(Nat)] /\ client' \in [Clients -> [at : {"off", "replayed", "on"}, last : Nat \cup {None}]]
      BY <1>2, <1>5
    <2>6. Increasing(ring)'
      BY <1>1, <1>2 DEF Increasing
    <2> QED BY <2>4, <2>5, <2>6
  <1>6. Increasing(<<>>) /\ Reached(<<>>) /\ <<>> \in Seq(Nat)
    BY DEF Increasing, Reached
  <1>7. CASE Connect(c)
    <2>1. k.at = "off" /\ held = <<>>
      BY <1>3, <1>4, <1>7 DEF Connect
    <2>2. PICK sent : sent = IF k.last = None THEN <<>> ELSE Since(k.last)
      OBVIOUS
    <2>3. PICK n : n = [at |-> "replayed", last |-> Newest(c, sent)]
      OBVIOUS
    <2>4. received' = [received EXCEPT ![c] = got \o sent] /\ client' = [client EXCEPT ![c] = n] /\ UNCHANGED channel
      BY <1>3, <1>7, <2>2, <2>3 DEF Connect
    <2>5. /\ sent \in Seq(Nat) /\ Increasing(sent) /\ (got = <<>> => sent = <<>>)
          /\ \A i \in DOMAIN sent : sent[i] > k.last /\ \E j \in DOMAIN ring : sent[i] = ring[j]
      <3>1. CASE k.last = None
        <4>1. sent = <<>>
          BY <2>2, <3>1
        <4> QED BY <1>6, <4>1
      <3>2. CASE k.last # None
        <4>1. PICK last \in Nat : last = k.last
          BY <1>4, <3>2
        <4>2. sent = Since(last)
          BY <2>2, <3>2, <4>1
        <4>3. /\ sent \in Seq(Nat) /\ Increasing(sent)
              /\ \A i \in DOMAIN sent : sent[i] > last /\ \E j \in DOMAIN ring : sent[i] = ring[j]
          <5>1. last \in Int
            BY <4>1
          <5> QED BY <1>1, <1>2, <4>2, <5>1, Replays
        <4>4. got # <<>>
          BY <1>4, <3>2
        <4> QED BY <4>1, <4>2, <4>3, <4>4
      <3> QED BY <3>1, <3>2
    <2>7. \A i \in DOMAIN got : got # <<>> /\ got[i] <= k.last /\ k.last \in Nat /\ got[i] \in Nat
      <3>1. \A i \in DOMAIN got : got # <<>> /\ Len(got) \in DOMAIN got /\ got[i] <= got[Len(got)]
        BY <1>4, UpToLast
      <3>2. \A i \in DOMAIN got : got[i] \in Nat
        BY <1>4
      <3> QED BY <1>4, <3>1, <3>2
    <2>8. \A i \in DOMAIN sent : sent[i] \in Nat
      BY <2>5
    <2>9. \A i \in DOMAIN got, j \in DOMAIN sent : got[i] < sent[j]
      BY <2>5, <2>7, <2>8
    <2>6. got \in Seq(Nat) /\ sent \in Seq(Nat) /\ Increasing(got) /\ Increasing(sent)
      BY <1>4, <2>5
    <2>10. PICK s :
             /\ s = got \o sent /\ s \in Seq(Nat) /\ Increasing(s)
             /\ \A i \in DOMAIN s : (i \in DOMAIN got /\ s[i] = got[i]) \/ (\E j \in DOMAIN sent : s[i] = sent[j])
             /\ s[Len(s)] = IF sent = <<>> THEN got[Len(got)] ELSE sent[Len(sent)]
             /\ s = <<>> <=> (got = <<>> /\ sent = <<>>)
      BY <2>6, <2>9, InARow, Zenon
    <2>11. Reached(s)
      <3>1. \A j \in DOMAIN ring : ring # <<>> /\ ring[j] <= ring[Len(ring)]
        BY <1>1, <1>2, UpToLast
      <3>2. Reached(sent)
        BY <2>5, <3>1 DEF Reached
      <3> QED BY <1>4, <2>10, <3>2 DEF Reached
    <2>12. n.at = "replayed" /\ n.last = IF sent = <<>> THEN k.last ELSE sent[Len(sent)]
      BY <1>3, <2>3 DEF Newest, Last
    <2>13. n.last = IF s = <<>> THEN None ELSE s[Len(s)]
      BY <1>4, <2>5, <2>10, <2>12
    <2>14. n \in [at : {"off", "replayed", "on"}, last : Nat \cup {None}]
      <3>1. n.last \in Nat \cup {None}
        <4>1. s # <<>> => s[Len(s)] \in Nat
          BY <2>10
        <4> QED BY <2>13, <4>1
      <3> QED BY <2>3, <3>1
    <2>15. channel' = [channel EXCEPT ![c] = <<>>] /\ received' = [received EXCEPT ![c] = s]
      BY <1>1, <1>3, <2>1, <2>4, <2>10
    <2>16. \A i \in DOMAIN s, j \in DOMAIN <<>> : s[i] < <<>>[j]
      OBVIOUS
    <2> QED BY <1>5, <1>6, <2>4, <2>10, <2>11, <2>13, <2>14, <2>15, <2>16
  <1>8. CASE Subscribe(c) \/ Disconnect(c)
    <2>1. PICK place \in {"off", "on"} : client' = [client EXCEPT ![c].at = place]
      BY <1>8 DEF Subscribe, Disconnect
    <2>2. PICK n : n = [k EXCEPT !.at = place]
      OBVIOUS
    <2>3. client' = [client EXCEPT ![c] = n] /\ channel' = [channel EXCEPT ![c] = <<>>] /\ UNCHANGED received
      BY <1>3, <1>8, <2>1, <2>2 DEF Subscribe, Disconnect
    <2>4. n \in [at : {"off", "replayed", "on"}, last : Nat \cup {None}] /\ n.last = k.last
      BY <1>4, <2>2
    <2>5. received' = [received EXCEPT ![c] = got]
      BY <1>2, <1>3, <2>3
    <2>6. \A i \in DOMAIN got, j \in DOMAIN <<>> : got[i] < <<>>[j]
      OBVIOUS
    <2> QED BY <1>4, <1>5, <1>6, <2>3, <2>4, <2>5, <2>6
  <1>9. CASE Receive(c)
    <2>1. k.at = "on" /\ held # <<>>
      BY <1>3, <1>9 DEF Receive
    <2>2. PICK m, rest : m = Head(held) /\ rest = Tail(held)
      OBVIOUS
    <2>8. /\ m \in Nat /\ m = held[1] /\ 1 \in DOMAIN held /\ rest \in Seq(Nat) /\ Increasing(rest)
          /\ \A i \in DOMAIN rest : m < rest[i] /\ i + 1 \in DOMAIN held /\ rest[i] = held[i + 1]
      BY <1>4, <2>1, <2>2, OneLess
    <2>3. PICK n : n = [k EXCEPT !.last = m]
      OBVIOUS
    <2>4. PICK s : s = Append(got, m)
      OBVIOUS
    <2>5. /\ client' = [client EXCEPT ![c] = n] /\ received' = [received EXCEPT ![c] = s]
          /\ channel' = [channel EXCEPT ![c] = rest]
      BY <1>3, <1>9, <2>2, <2>3, <2>4 DEF Receive
    <2>6. n \in [at : {"off", "replayed", "on"}, last : Nat \cup {None}] /\ n.last = m /\ n.at = "on"
      BY <1>4, <2>1, <2>3, <2>8
    <2>7. \A i \in DOMAIN got : got[i] < m
      BY <1>4, <2>8
    <2>9. /\ s \in Seq(Nat) /\ s # <<>> /\ Increasing(s) /\ s[Len(s)] = m
          /\ \A i \in DOMAIN s : s[i] = m \/ (i \in DOMAIN got /\ s[i] = got[i])
      <3>1. got \in Seq(Nat) /\ m \in Nat /\ Increasing(got)
        BY <1>4, <2>8
      <3> QED BY <2>4, <2>7, <3>1, OneMore
    <2>10. Reached(s) /\ Reached(rest)
      BY <1>4, <2>8, <2>9 DEF Reached
    <2>11. \A i \in DOMAIN got, j \in DOMAIN rest : got[i] < rest[j]
      BY <1>4, <2>8
    <2>12. \A i \in DOMAIN s, j \in DOMAIN rest : s[i] < rest[j]
      BY <2>8, <2>9, <2>11
    <2> QED BY <1>5, <2>5, <2>6, <2>8, <2>9, <2>10, <2>12
  <1> QED BY <1>7, <1>8, <1>9

(* Every step.                                                             *)
LEMMA StreamHandled ==
  ASSUME TypeOK, SInv, NEW r \in Requests, Handles(r)
  PROVE  SInv'
  <1>1. CASE Records(r)
    BY <1>1, RecordsDraws
  <1>2. CASE Answers(r)
    BY <1>2, AnswersBroadcasts
  <1>3. CASE LooksUp(r) \/ Marks(r) \/ Normalizes(r) \/ FixesKey(r) \/ ChecksClosed(r) \/ Routes(r) \/ Publishes(r)
    <2>1. /\ request[r].at \in {"lookup", "mark", "normalize", "key", "closed", "route", "publish"}
          /\ UNCHANGED streamVars
      BY <1>3 DEF LooksUp, Marks, Normalizes, FixesKey, ChecksClosed, Routes, Publishes
    <2>2. request'[r].at # "broadcast"
      <3>1. CASE request[r].at \in Ahead
        <4>1. request'[r].at \in Ahead \cup {"record"}
          BY <3>1, Places
        <4> QED BY <4>1 DEF Ahead
      <3>2. CASE request[r].at \notin Ahead
        <4>1. request'[r] = Idle \/ request'[r].at \in {"mark", "normalize"}
          BY <2>1, <3>2, OtherPlaces
        <4> QED BY <4>1 DEF Idle
      <3> QED BY <3>1, <3>2
    <2>3. \A q \in Requests : q # r => request'[q] = request[q]
      <3>1. request' = [request EXCEPT ![r] = request'[r]]
        BY HandlesIsStep
      <3> QED BY <3>1 DEF TypeOK
    <2>4. UNCHANGED <<nextID, ring, channel, client, received, disordered>>
      BY <2>1 DEF streamVars
    <2>5. DrawnOK'
      BY <2>2, <2>3, <2>4, DrawnStays DEF SInv
    <2> QED BY <2>4, <2>5, StreamStays DEF SInv
  <1> QED BY <1>1, <1>2, <1>3 DEF Handles

LEMMA StreamLeftAlone ==
  ASSUME SInv, UNCHANGED streamVars,
         \A r \in Requests : request'[r].at = "broadcast" =>
           request[r].at = "broadcast" /\ request'[r].id = request[r].id
  PROVE  SInv'
  <1>1. UNCHANGED <<nextID, ring, channel, client, received, disordered>>
    BY DEF streamVars
  <1> QED BY <1>1, DrawnStays, StreamStays DEF SInv

LEMMA StreamKeeps ==
  ASSUME IInv, SInv, [Next]_vars
  PROVE  SInv'
  <1>0. TypeOK
    BY DEF IInv
  <1>1. CASE \E d \in Deliveries, p \in Payloads : Sends(d, p)
    BY <1>1, StreamLeftAlone DEF Sends
  <1>2. ASSUME NEW r \in Requests, NEW d \in Deliveries, Arrives(r, d) PROVE SInv'
    <2>1. PICK u, v : u = Unspec(About(payload[d]), labels) /\ v = Unclosed(About(payload[d]), open)
      OBVIOUS
    <2>2. PICK n : n = [Idle EXCEPT !.at = "lookup", !.d = d, !.unspec = u, !.unclosed = v]
      OBVIOUS
    <2>3. request' = [request EXCEPT ![r] = n] /\ UNCHANGED streamVars
      BY <1>2, <2>1, <2>2 DEF Arrives
    <2>4. n.at = "lookup"
      BY <2>2 DEF Idle
    <2>5. request'[r] = n /\ \A q \in Requests : q # r => request'[q] = request[q]
      BY <1>0, <2>3 DEF TypeOK
    <2> QED BY <2>3, <2>4, <2>5, StreamLeftAlone
  <1>3. CASE \E r \in Requests : Handles(r)
    BY <1>0, <1>3, StreamHandled
  <1>4. CASE \E d \in Deliveries : Expires(d)
    BY <1>4, StreamLeftAlone DEF Expires
  <1>5. CASE \E n \in PRs, isMerged \in BOOLEAN : TestMerges(TestPayload(n, isMerged))
    BY <1>5, StreamLeftAlone DEF TestMerges
  <1>6. CASE SetsShutdown
    BY <1>6, StreamLeftAlone DEF SetsShutdown
  <1>7. CASE Changes
    <2>1. UNCHANGED streamVars /\ \A r \in Requests : request'[r] = Noted(request[r], labels', open')
      BY <1>7 DEF Changes
    <2>2. \A r \in Requests : request'[r].at = request[r].at /\ request'[r].id = request[r].id
      BY <1>0, <2>1, NotedIsSound
    <2> QED BY <2>1, <2>2, StreamLeftAlone
  <1>8. CASE Taken
    BY <1>8, StreamLeftAlone DEF Taken
  <1>9. CASE Streams
    <2>1. PICK c \in Clients : Connect(c) \/ Subscribe(c) \/ Receive(c) \/ Disconnect(c)
      BY <1>9 DEF Streams, StreamStep
    <2>2. UNCHANGED <<request, ring, nextID>>
      BY <1>9, <2>1 DEF Streams, Connect, Subscribe, Receive, Disconnect
    <2>3. DrawnOK'
      BY <2>2, DrawnStays DEF SInv
    <2> QED BY <1>0, <2>1, <2>3, ClientsMove DEF SInv, TypeOK
  <1>10. CASE \E r \in Requests : HangsUp(r)
    BY <1>10, StreamLeftAlone DEF HangsUp
  <1>11. CASE UNCHANGED vars
    BY <1>11, StreamLeftAlone DEF vars
  <1> QED BY <1>1, <1>2, <1>3, <1>4, <1>5, <1>6, <1>7, <1>8, <1>9, <1>10, <1>11 DEF Next

LEMMA StreamStarts == Init => SInv
  <1> SUFFICES ASSUME Init PROVE SInv
    OBVIOUS
  <1>1. /\ nextID = 0 /\ ring = <<>> /\ channel = [c \in Clients |-> <<>>]
        /\ client = [c \in Clients |-> [at |-> "off", last |-> None]]
        /\ received = [c \in Clients |-> <<>>]
        /\ \A r \in Requests : request[r].at = "idle"
    BY DEF Init, StreamInit, Idle
  <1>2. DrawnOK
    BY <1>1 DEF DrawnOK
  <1>3. Increasing(<<>>) /\ Reached(<<>>) /\ <<>> \in Seq(Nat)
    BY DEF Increasing, Reached
  <1>4. \A c \in Clients : ClientOK(c)
    <2> SUFFICES ASSUME NEW c \in Clients PROVE ClientOK(c)
      OBVIOUS
    <2>1. received[c] = <<>> /\ channel[c] = <<>> /\ client[c].last = None
      BY <1>1
    <2> QED BY <1>3, <2>1 DEF ClientOK
  <1>5. StreamOK
    <2>1. received \in [Clients -> Seq(Nat)]
      BY <1>1, <1>3
    <2>2. client \in [Clients -> [at : {"off", "replayed", "on"}, last : Nat \cup {None}]]
      BY <1>1
    <2> QED BY <1>1, <1>3, <1>4, <2>1, <2>2 DEF StreamOK
  <1> QED BY <1>2, <1>5 DEF SInv

-----------------------------------------------------------------------------
(* The inductive invariant.                                                *)
THEOREM Invariance == Spec => []IInv
  BY Starts, Keeps, PTL DEF Spec

(* Every variable has its type; the bus, the ring and the channels of the  *)
(* stream keep within their sizes.                                         *)
THEOREM TypeCorrect == Spec => []TypeOK
  <1>1. IInv => TypeOK
    BY DEF IInv
  <1> QED BY <1>1, Invariance, PTL

(* A delivery is published twice only when it was excused: two requests    *)
(* were in the handler together, or the first was forgotten meanwhile.     *)
THEOREM PublishedOnce == Spec => []RepeatsExcused
  <1>1. IInv => RepeatsExcused
    <2>1. SUFFICES ASSUME IInv, NEW d \in Deliveries, published[d] > 1, d \notin excused
                   PROVE  FALSE
      BY DEF RepeatsExcused
    <2>2. published[d] <= 1 /\ published[d] \in Nat
      BY <2>1 DEF IInv, OnceOK, TypeOK
    <2> QED BY <2>1, <2>2
  <1> QED BY <1>1, Invariance, PTL

(* A delivery taken for seen is in a request's hands or was dealt with: no *)
(* delivery is turned away as a duplicate whose event the manager was      *)
(* never to get, unless the bus had no room for it or the client had hung  *)
(* up before it was published, which the answer and the row both deny.     *)
THEOREM NothingTurnedAway == Spec => []SeenIsDealtWith
  <1>1. IInv => SeenIsDealtWith
    BY DEF IInv, DealtOK, SeenIsDealtWith
  <1> QED BY <1>1, Invariance, PTL

(* Of the events whose request found the label of a specification all the  *)
(* time, none but a person's comment begins an implementer's rework: the   *)
(* router gives none of them the key of a fix, and the manager gives it to *)
(* comments only.                                                          *)
LEMMA ReworkBegins ==
  ASSUME IInv, SpecNotReworked, [Next]_vars
  PROVE  SpecNotReworked'
  <1>1. CASE Taken
    <2>1. PICK m : m = Head(bus)
      OBVIOUS
    <2>2. \/ reworked' = reworked
          \/ /\ reworked' = reworked \cup {m.event.type}
             /\ ~m.unspec /\ (m.event.key[3] = "fix" \/ Redirected(m.event))
      BY <1>1, <2>1 DEF Taken
    <2>3. m.event.key[3] = "fix" => m.unspec
      <3>1. bus \in Seq(Entries) /\ bus # <<>>
        BY <1>1 DEF IInv, TypeOK, Entries, Taken
      <3> HIDE DEF Entries
      <3>2. 1 \in 1..Len(bus) /\ m = bus[1]
        BY <2>1, <3>1
      <3> QED BY <3>2 DEF IInv, RoutesOK
    <2> QED BY <2>2, <2>3 DEF SpecNotReworked, Redirected
  <1>2. CASE ~Taken
    <2>1. UNCHANGED reworked
      <3>1. ASSUME NEW r \in Requests, Handles(r) PROVE UNCHANGED reworked
        BY <3>1, HandlesEffects DEF IInv
      <3> QED BY <1>2, <3>1 DEF Next, vars, historyVars, Sends, Arrives, HangsUp, Expires,
                                TestMerges, SetsShutdown, Changes, Streams
    <2> QED BY <2>1 DEF SpecNotReworked
  <1> QED BY <1>1, <1>2

(* No event but a person's comment begins the rework of a specification    *)
(* whose request found the label there all the time (RouteTable.Route,     *)
(* handleEvent).                                                           *)
THEOREM SpecsStayWithThePM == Spec => []SpecNotReworked
  <1>1. Init => SpecNotReworked
    BY DEF Init, SpecNotReworked
  <1> QED BY <1>1, Invariance, ReworkBegins, PTL DEF Spec

(* A comment on a pull request closed all the time starts nothing.         *)
THEOREM ClosedIsQuiet == Spec => []ClosedStaysQuiet
  <1>1. IInv => ClosedStaysQuiet
    BY DEF IInv
  <1> QED BY <1>1, Invariance, PTL

(* No client of the stream is sent an event twice, through any number of   *)
(* streams that end and begin again, as long as events enter the ring in   *)
(* the order of their IDs (ReplaySince, handleStream).                     *)
THEOREM SentOnce == Spec => []NoneTwice
  <1>1. TypeOK /\ SInv => NoneTwice
    <2> SUFFICES ASSUME TypeOK, SInv, ~disordered, NEW c \in Clients
                 PROVE  IsInjective(received[c] \o channel[c])
      BY DEF NoneTwice
    <2>1. /\ received[c] \in Seq(Nat) /\ channel[c] \in Seq(Nat)
          /\ Increasing(received[c]) /\ Increasing(channel[c])
          /\ \A i \in DOMAIN received[c], j \in DOMAIN channel[c] : received[c][i] < channel[c][j]
      BY DEF SInv, StreamOK, ClientOK, TypeOK, StreamTypeOK
    <2>5. PICK got, held : got = received[c] /\ held = channel[c]
      OBVIOUS
    <2>6. /\ got \in Seq(Nat) /\ held \in Seq(Nat) /\ Increasing(got) /\ Increasing(held)
          /\ \A i \in DOMAIN got, j \in DOMAIN held : got[i] < held[j]
      BY <2>1, <2>5
    <2>7. \E u : u = got \o held /\ u \in Seq(Nat) /\ Increasing(u)
      BY <2>6, InARow
    <2>2. PICK u : u = received[c] \o channel[c] /\ u \in Seq(Nat) /\ Increasing(u)
      BY <2>5, <2>7
    <2>3. PICK n \in Nat : DOMAIN u = 1..n /\ \A i \in 1..n : u[i] \in Nat
      BY <2>2, Numbers
    <2>4. ASSUME NEW i \in DOMAIN u, NEW j \in DOMAIN u, u[i] = u[j] PROVE i = j
      <3>1. i < j => u[i] < u[j]
        BY <2>2, <2>4 DEF Increasing
      <3>2. j < i => u[j] < u[i]
        BY <2>2, <2>4 DEF Increasing
      <3>3. i \in 1..n /\ j \in 1..n /\ u[i] \in Nat
        BY <2>3, <2>4
      <3> QED BY <2>4, <3>1, <3>2, <3>3
    <2> QED BY <2>2, <2>4 DEF IsInjective
  <1>2. Init => IInv /\ SInv
    BY Starts, StreamStarts
  <1>3. IInv /\ SInv /\ [Next]_vars => (IInv /\ SInv)'
    BY Keeps, StreamKeeps
  <1>4. IInv => TypeOK
    BY DEF IInv
  <1> QED BY <1>1, <1>2, <1>3, <1>4, PTL DEF Spec
=============================================================================
