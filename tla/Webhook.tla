------------------------------ MODULE Webhook ------------------------------
(***************************************************************************)
(* The webhook endpoint (handleWebhook, internal/webhook/router.go): every *)
(* request has a goroutine of its own, which looks the delivery up among   *)
(* those seen, asks Forgejo what the payload leaves open, filters, routes  *)
(* (EventRouting), publishes on the bus and records the delivery, which    *)
(* also goes to the live stream (EventStream).                             *)
(*                                                                         *)
(* Forgejo sends a delivery again when it gets no answer, and it may hang  *)
(* up meanwhile, with which every call of the request fails; people        *)
(* relabel and close the pull request. Of the session manager there is     *)
(* what it makes of an event's key (handleEvent).                          *)
(***************************************************************************)
EXTENDS EventRouting, EventStream

CONSTANTS
  Deliveries,     \* delivery IDs; Forgejo gives every one an ID
  Payloads,       \* what a delivery may carry
  Requests,       \* goroutines; bounds how many requests run at a time
  PRs,            \* which of the numbers are pull requests
  Labelings,      \* the label sets a pull request may have
  BusCap,         \* capacity of the manager's channel on the bus
  NoPayload,      \* of a delivery not sent yet
  MaxExtras       \* bound: repeated requests, failed calls, clients that
                  \* hang up, relabelings, closings, expiries and the
                  \* shutdown, in all

ASSUME WebhookAssumption ==
  /\ Payloads \subseteq Payload /\ NoPayload \notin Payload
  /\ PRs \subseteq Nat \ {0} /\ "none" \notin Deliveries
  /\ BusCap \in Nat \ {0} /\ MaxExtras \in Nat

VARIABLES
  payload,      \* of each delivery
  seen,         \* seenEvents
  stopping,     \* shuttingDown
  labels,       \* of each pull request
  open,         \* the pull requests that are open
  hungUp,       \* the goroutines whose client is gone before they recorded
  request,      \* of each goroutine: its locals
  bus,          \* the manager's channel: deliveries and events
  recorded,     \* the delivery table: pairs of a delivery and a status
  extras,       \* count for the bound
  published,    \* history: how often the event of a delivery was published
  excused,      \* history: deliveries that two requests had at a time, or that
                \* were forgotten
  lost,         \* history: deliveries the bus had no room for, or whose client
                \* had hung up by then
  unrecorded,   \* history: what the delivery table did not take
  reworked      \* history: types of the events that have begun the rework of a
                \* specification

forgeVars == <<labels, open, hungUp>>
historyVars == <<published, excused, lost, unrecorded, reworked>>
vars == <<payload, seen, stopping, forgeVars, request, bus, recorded, extras, historyVars,
          streamVars>>

(* "unspec" and "unclosed" are history: whether the pull request that the  *)
(* request is about was without a label of a specification, and not        *)
(* closed, at some time since the request came in, or since it was found   *)
(* by its commit; a call that fails leaves either possible.                *)
NoEvent == [type |-> NoType, issue |-> 0, pr |-> 0, sender |-> "human", body |-> "none",
            verdict |-> "none", role |-> "none", key |-> DefaultKey(0, 0)]

Idle == [at |-> "idle", d |-> "none", event |-> NoEvent, status |-> "none", id |-> None,
         unspec |-> FALSE, unclosed |-> FALSE]

Extra == extras < MaxExtras /\ extras' = extras + 1
Works == UNCHANGED extras

(* A call with the request's context.                                      *)
Answered(r) == r \notin hungUp /\ Works
Unanswered(r) == IF r \in hungUp THEN Works ELSE Extra

(* The number a payload is about, whether it says that it is a pull        *)
(* request or not; 0 of a check that names none.                           *)
About(p) == IF p.onPR \/ ~IsCheck(p) THEN p.number ELSE p.checked
FoundByCommit(p) == IsCheck(p) /\ About(p) = 0

Unspec(n, L) == n \notin PRs \/ L[n] \cap {"spec-proposed", "spec-approved"} = {}
Unclosed(n, O) == n \notin PRs \/ n \in O

Goes(r, place) == request' = [request EXCEPT ![r] = [@ EXCEPT !.at = place]]

Ahead == {"normalize", "key", "closed", "route", "publish"}   \* the delivery is marked

-----------------------------------------------------------------------------
(* Forgejo sends a delivery, and sends it again.                           *)
Sends(d, p) ==
  /\ payload[d] = NoPayload
  /\ payload' = [payload EXCEPT ![d] = p]
  /\ UNCHANGED <<seen, stopping, forgeVars, request, bus, recorded, extras, historyVars,
                 streamVars>>

(* A request passes the checks of shutdown, signature and form.            *)
Arrives(r, d) ==
  /\ request[r].at = "idle" /\ payload[d] # NoPayload
  /\ ~stopping
  /\ IF \E q \in Requests : request[q].d = d
       \/ seen[d] # "no" \/ <<d, "accepted">> \in recorded
     THEN Extra ELSE Works
  /\ request' = [request EXCEPT ![r] =
       [Idle EXCEPT !.at = "lookup", !.d = d, !.unspec = Unspec(About(payload[d]), labels),
                    !.unclosed = Unclosed(About(payload[d]), open)]]
  /\ excused' = IF \E q \in Requests : request[q].d = d THEN excused \cup {d} ELSE excused
  /\ UNCHANGED <<payload, seen, stopping, forgeVars, bus, recorded, published, lost, unrecorded,
                 reworked, streamVars>>

(* seenEvents.Load: a delivery that is there is answered as a duplicate.   *)
IsDuplicateNever(d) == FALSE
IsDuplicate(d) == seen[d] # "no"

LooksUp(r) ==
  /\ request[r].at = "lookup"
  /\ IF IsDuplicate(request[r].d) THEN request' = [request EXCEPT ![r] = Idle]
     ELSE Goes(r, "mark")
  /\ UNCHANGED <<payload, seen, stopping, forgeVars, bus, recorded, extras, historyVars,
                 streamVars>>

(* seenEvents.Store                                                        *)
Marked(d) == [seen EXCEPT ![d] = "seen"]

Marks(r) ==
  /\ request[r].at = "mark"
  /\ seen' = Marked(request[r].d)
  /\ Goes(r, "normalize")
  /\ UNCHANGED <<payload, stopping, forgeVars, bus, recorded, extras, historyVars, streamVars>>

(* Where a request goes with its event when the key is right: out, if the  *)
(* agent sent it; to the check of closed pull requests, if it is a comment.*)
Carries(q, e) ==
  LET found == FoundByCommit(payload[q.d]) IN
  [q EXCEPT !.at = IF e.type = CommentCreated /\ e.pr > 0 THEN "closed" ELSE "route",
            !.event = e,
            !.unspec = IF found THEN Unspec(e.pr, labels) ELSE @,
            !.unclosed = IF found THEN Unclosed(e.pr, open) ELSE @]

OnwardUnrecorded(r, e) ==
  request' = [request EXCEPT ![r] = IF IsAgentEvent(payload[@.d]) THEN Idle ELSE Carries(@, e)]

Filtered(q) == [q EXCEPT !.at = "record", !.status = "filtered"]

Onward(r, e) ==
  request' = [request EXCEPT ![r] = IF IsAgentEvent(payload[@.d]) THEN Filtered(@) ELSE Carries(@, e)]

NeedsKeyNever(e) == FALSE

NeedsKey(e) == e.type[1] = "issue_comment" /\ e.pr = 0 /\ e.issue > 0

(* normalizeEvent. The pull request of a check without one is looked for   *)
(* among the open ones; it may have moved on to another commit.            *)
Normalizes(r) ==
  LET p == payload[request[r].d] IN
  /\ request[r].at = "normalize"
  /\ \E bySHA \in {0} \cup (IF IsCheck(p) THEN open ELSE {}) :
       LET e == Event(p, bySHA) IN
       IF e.type = NoType
       THEN request' = [request EXCEPT ![r] = [@ EXCEPT !.at = "record", !.status = "ignored"]]
       ELSE IF NeedsKey(e)
       THEN request' = [request EXCEPT ![r] = [@ EXCEPT !.at = "key", !.event = e]]
       ELSE Onward(r, e)
  /\ UNCHANGED <<payload, seen, stopping, forgeVars, bus, recorded, extras, historyVars,
                 streamVars>>

(* Forgejo leaves out of a comment that it is about a pull request.        *)
FixesKey(r) ==
  LET e == request[r].event IN
  /\ request[r].at = "key"
  /\ \/ /\ Answered(r)
        /\ Onward(r, IF e.issue \in PRs
                     THEN [e EXCEPT !.pr = e.issue, !.key = DefaultKey(e.issue, e.issue)]
                     ELSE e)
     \/ /\ Unanswered(r)
        /\ request' = [request EXCEPT ![r] =
             IF IsAgentEvent(payload[@.d]) THEN Filtered(@)
             ELSE [@ EXCEPT !.at = "route", !.unspec = TRUE, !.unclosed = TRUE]]
  /\ UNCHANGED <<payload, seen, stopping, forgeVars, bus, recorded, historyVars, streamVars>>

(* Comments on closed pull requests are dropped; a failed call lets them   *)
(* pass.                                                                   *)
ChecksClosed(r) ==
  /\ request[r].at = "closed"
  /\ \/ /\ Answered(r)
        /\ request' = [request EXCEPT ![r] =
             IF @.event.pr \in open THEN [@ EXCEPT !.at = "route"]
             ELSE [@ EXCEPT !.at = "record", !.status = "skipped_closed_pr"]]
     \/ /\ Unanswered(r)
        /\ request' = [request EXCEPT ![r] = [@ EXCEPT !.at = "route", !.unclosed = TRUE]]
  /\ UNCHANGED <<payload, seen, stopping, forgeVars, bus, recorded, historyVars, streamVars>>

(* ApplyRoute: without an answer the pull request has no labels.           *)
Sent(q, L, unsure) ==
  [q EXCEPT !.at = "publish", !.event = Routed(q.event, L), !.unspec = @ \/ unsure]

LabelsOf(n) == IF n \in PRs THEN labels[n] ELSE {}

Routes(r) ==
  /\ request[r].at = "route"
  /\ \/ /\ Answered(r)
        /\ request' = [request EXCEPT ![r] = Sent(@, LabelsOf(@.event.pr), FALSE)]
     \/ /\ Unanswered(r)
        /\ request' = [request EXCEPT ![r] = Sent(@, {}, TRUE)]
  /\ UNCHANGED <<payload, seen, stopping, forgeVars, bus, recorded, historyVars, streamVars>>

(* Publish drops an event for which there is no room, and may drop it when *)
(* the client has hung up; the delivery is accepted all the same.          *)
Publishes(r) ==
  LET d == request[r].d IN
  /\ request[r].at = "publish"
  /\ \/ /\ Len(bus) < BusCap
        /\ bus' = Append(bus, [d |-> d, event |-> request[r].event,
                               unspec |-> request[r].unspec,
                               unclosed |-> request[r].unclosed])
        /\ published' = [published EXCEPT ![d] = @ + 1]
        /\ UNCHANGED lost
     \/ /\ Len(bus) >= BusCap \/ r \in hungUp
        /\ lost' = lost \cup {d}
        /\ UNCHANGED <<bus, published>>
  /\ request' = [request EXCEPT ![r] = [@ EXCEPT !.at = "record", !.status = "accepted"]]
  /\ UNCHANGED <<payload, seen, stopping, forgeVars, recorded, extras, excused, unrecorded,
                 reworked, streamVars>>

(* RecordDelivery: a row, and only a warning if there is none; then a      *)
(* broadcast, which draws an ID and takes the lock.                        *)
Records(r) ==
  LET outcome == <<request[r].d, request[r].status>> IN
  /\ request[r].at = "record"
  /\ \/ Answered(r) /\ recorded' = recorded \cup {outcome} /\ UNCHANGED unrecorded
     \/ Unanswered(r) /\ unrecorded' = unrecorded \cup {outcome} /\ UNCHANGED recorded
  /\ request' = [request EXCEPT ![r] = [@ EXCEPT !.at = "broadcast", !.id = nextID]]
  /\ nextID' = nextID + 1
  /\ hungUp' = hungUp \ {r}
  /\ UNCHANGED <<payload, seen, stopping, labels, open, bus, published, excused, lost, reworked,
                 ring, channel, client, received, disordered>>

Answers(r) ==
  /\ request[r].at = "broadcast"
  /\ Broadcast(request[r].id)
  /\ request' = [request EXCEPT ![r] = Idle]
  /\ UNCHANGED <<payload, seen, stopping, forgeVars, bus, recorded, extras, historyVars>>

-----------------------------------------------------------------------------
(* handleTestMergeWebhook: a payload made by hand, which is looked up      *)
(* nowhere, needs no signature, is not routed and not recorded.            *)
TestPayload(n, isMerged) ==
  [kind |-> "pull_request", action |-> "closed", number |-> n, onPR |-> TRUE, checked |-> 0,
   merged |-> isMerged, sender |-> "human", body |-> "none", made |-> FALSE,
   verdict |-> "none"]

TestMerges(p) ==
  /\ Extra
  /\ bus' = IF IsAgentEvent(p) \/ Len(bus) >= BusCap THEN bus
            ELSE Append(bus, [d |-> "test", event |-> Event(p, 0), unspec |-> TRUE,
                              unclosed |-> TRUE])
  /\ UNCHANGED <<payload, seen, stopping, forgeVars, request, recorded, historyVars, streamVars>>

(* The sweep of the deliveries seen more than 30 seconds ago.              *)
Expires(d) ==
  /\ seen[d] = "seen" /\ Extra
  /\ seen' = [seen EXCEPT ![d] = "no"]
  /\ excused' = excused \cup {d}
  /\ UNCHANGED <<payload, stopping, forgeVars, request, bus, recorded, published, lost,
                 unrecorded, reworked, streamVars>>

(* The client of a request is gone, and the request's context with it.     *)
HangsUp(r) ==
  /\ request[r].at \in Ahead \cup {"record"}
  /\ r \notin hungUp /\ Extra
  /\ hungUp' = hungUp \cup {r}
  /\ UNCHANGED <<payload, seen, stopping, labels, open, request, bus, recorded, historyVars,
                 streamVars>>

(* main calls SetShutdown; requests under way go on.                       *)
SetsShutdown ==
  /\ ~stopping /\ stopping' = TRUE /\ Extra
  /\ UNCHANGED <<payload, seen, forgeVars, request, bus, recorded, historyVars, streamVars>>

(* People, and other sessions, relabel and close pull requests.            *)
Subject(q) == IF q.event.pr # 0 THEN q.event.pr ELSE About(payload[q.d])

Noted(q, L, O) ==
  IF q.d = "none" THEN q
  ELSE [q EXCEPT !.unspec = @ \/ Unspec(Subject(q), L), !.unclosed = @ \/ Unclosed(Subject(q), O)]

Changes ==
  /\ Extra
  /\ \E n \in PRs :
       \/ \E L \in Labelings :
            labels[n] # L /\ labels' = [labels EXCEPT ![n] = L] /\ UNCHANGED open
       \/ /\ UNCHANGED labels
          /\ open' = IF n \in open THEN open \ {n} ELSE open \cup {n}
  /\ request' = [r \in Requests |-> Noted(request[r], labels', open')]
  /\ UNCHANGED <<payload, seen, stopping, hungUp, bus, recorded, historyVars, streamVars>>

(* The manager takes an event. A person's comment on a pull request that   *)
(* is open goes to a fix session of its own, whatever its key and the      *)
(* labels say. Without an answer it does not, and handleEvent has other    *)
(* reasons to drop an event.                                               *)
Redirected(e) == e.type = CommentCreated /\ e.pr \in open /\ e.sender = "human"

Taken ==
  /\ bus # <<>> /\ bus' = Tail(bus)
  /\ LET m == Head(bus) IN
     reworked' \in {reworked} \cup
       (IF ~m.unspec /\ (m.event.key[3] = "fix" \/ Redirected(m.event))
        THEN {reworked \cup {m.event.type}} ELSE {})
  /\ UNCHANGED <<payload, seen, stopping, forgeVars, request, recorded, extras, published,
                 excused, lost, unrecorded, streamVars>>

Handles(r) ==
  \/ LooksUp(r) \/ Marks(r) \/ Normalizes(r) \/ FixesKey(r) \/ ChecksClosed(r)
  \/ Routes(r) \/ Publishes(r) \/ Records(r) \/ Answers(r)

Streams ==
  StreamStep /\ UNCHANGED <<payload, seen, stopping, forgeVars, request, bus, recorded, extras,
                            historyVars>>

Init ==
  /\ payload = [d \in Deliveries |-> NoPayload]
  /\ seen = [d \in Deliveries |-> "no"]
  /\ stopping = FALSE
  /\ labels \in [PRs -> Labelings] /\ open \in SUBSET PRs /\ hungUp = {}
  /\ request = [r \in Requests |-> Idle]
  /\ bus = <<>> /\ recorded = {} /\ extras = 0
  /\ published = [d \in Deliveries |-> 0] /\ excused = {} /\ lost = {}
  /\ unrecorded = {} /\ reworked = {}
  /\ StreamInit

Next ==
  \/ \E d \in Deliveries, p \in Payloads : Sends(d, p)
  \/ \E r \in Requests, d \in Deliveries : Arrives(r, d)
  \/ \E r \in Requests : Handles(r) \/ HangsUp(r)
  \/ \E d \in Deliveries : Expires(d)
  \/ \E n \in PRs, isMerged \in BOOLEAN : TestMerges(TestPayload(n, isMerged))
  \/ SetsShutdown \/ Changes \/ Taken \/ Streams

Spec == Init /\ [][Next]_vars

-----------------------------------------------------------------------------
(* Types. No client holds more than its channel does, nor the ring more    *)
(* than its size.                                                          *)
SessionKeys == {"issues", "pulls", "push"} \X Nat \X {"", "fix"}
Events == [type : EventTypes, issue : Nat, pr : Nat, sender : Senders, body : Bodies,
           verdict : Verdicts, role : {"none", "pm", "implementer", "reviewer", "scheduler"},
           key : SessionKeys]
Statuses == {"ignored", "filtered", "skipped_closed_pr", "accepted"}
Working == {"lookup", "mark", "normalize", "key", "closed", "route", "publish", "record", "broadcast"}

RequestType ==
  [at : Working \cup {"idle"}, d : Deliveries \cup {"none"}, event : Events,
   status : Statuses \cup {"none"}, id : Nat \cup {None}, unspec : BOOLEAN, unclosed : BOOLEAN]

StreamTypeOK ==
  /\ nextID \in Nat /\ disordered \in BOOLEAN
  /\ ring \in Seq(Nat) /\ Len(ring) <= RingSize
  /\ channel \in [Clients -> Seq(Nat)] /\ \A c \in Clients : Len(channel[c]) <= StreamCap

TypeOK ==
  /\ payload \in [Deliveries -> Payloads \cup {NoPayload}]
  /\ seen \in [Deliveries -> {"no", "seen"}]
  /\ stopping \in BOOLEAN
  /\ labels \in [PRs -> Labelings] /\ open \in SUBSET PRs /\ hungUp \subseteq Requests
  /\ request \in [Requests -> RequestType]
  /\ \A r \in Requests : IF request[r].at = "idle" THEN request[r].d = "none"
                         ELSE /\ request[r].d \in Deliveries /\ payload[request[r].d] # NoPayload
                              /\ request[r].at = "broadcast" => request[r].id \in Nat
  /\ Len(bus) <= BusCap
  /\ bus \in Seq([d : Deliveries \cup {"test"}, event : Events, unspec : BOOLEAN, unclosed : BOOLEAN])
  /\ recorded \subseteq Deliveries \X Statuses /\ extras \in 0..MaxExtras
  /\ published \in [Deliveries -> Nat] /\ excused \subseteq Deliveries /\ lost \subseteq Deliveries
  /\ unrecorded \subseteq Deliveries \X Statuses /\ reworked \subseteq EventTypes
  /\ StreamTypeOK

(* A delivery that Forgejo sends again is worked on again only when the    *)
(* two requests were in the handler together, or the first was forgotten:  *)
(* the lookup and the mark are two steps, and the mark is made long before *)
(* the event is published.                                                 *)
RepeatsExcused == \A d \in Deliveries : published[d] > 1 => d \in excused

(* What deliveries have come to.                                           *)
Outcomes == recorded \cup unrecorded

DealtWith(d) ==
  \/ \E s \in {"ignored", "filtered", "skipped_closed_pr"} : <<d, s>> \in Outcomes
  \/ <<d, "accepted">> \in Outcomes /\ (published[d] > 0 \/ d \in lost)

(* A delivery that is taken for seen, and so refused when it comes again,  *)
(* has been dealt with: it is in a request's hands, or recorded, if the    *)
(* database took it, and if it was accepted the manager was given its      *)
(* event, unless the bus had no room for it or the client had hung up.     *)
SeenIsDealtWith ==
  \A d \in Deliveries : seen[d] = "seen" /\ (\A r \in Requests : request[r].d # d) => DealtWith(d)

(* No review and no failed check begins an implementer's rework of a       *)
(* specification (RouteTable.Route, handleEvent), if it had the label all  *)
(* the time the request was handled and every call was answered. A         *)
(* person's comment does: the manager takes it away from the project       *)
(* manager the route gives it to.                                          *)
SpecNotReworked == reworked \subseteq {CommentCreated}

(* A comment on a pull request that was closed all the time its request    *)
(* was handled starts nothing, also when the payload does not say that it  *)
(* is about one, if every call was answered.                               *)
ClosedStaysQuiet ==
  \A i \in 1..Len(bus) : bus[i].event.type = CommentCreated => bus[i].unclosed

(* A client is sent no event twice, however often it comes back: what the  *)
(* ring replays was not in its channel before, and is broadcast before it  *)
(* subscribes again. This takes events in the order of their IDs, which    *)
(* are drawn before the lock is taken.                                     *)
NoneTwice ==
  ~disordered => \A c \in Clients : IsInjective(received[c] \o channel[c])

-----------------------------------------------------------------------------
(* Why these hold. A delivery that is not excused is in the hands of one   *)
(* request at most, and no request that may still publish it has company   *)
(* by one that was published.                                              *)
MayPublish == {"mark"} \cup Ahead

OnceOK ==
  \A d \in Deliveries \ excused :
    /\ \A r, q \in Requests : request[r].d = d /\ request[q].d = d => r = q
    /\ \A r \in Requests : request[r].d = d =>
         /\ request[r].at \in Ahead => seen[d] = "seen"
         /\ request[r].at \in MayPublish => published[d] = 0
    /\ published[d] <= 1
    /\ published[d] = 1 => seen[d] = "seen"

(* A delivery that is seen has been dealt with, or a request that has      *)
(* marked it will.                                                         *)
DealtOK ==
  /\ \A d \in Deliveries : seen[d] = "seen" =>
       DealtWith(d) \/ \E r \in Requests : request[r].d = d /\ request[r].at \in Ahead \cup {"record"}
  /\ \A r \in Requests : request[r].at = "record" =>
       /\ request[r].status \in Statuses
       /\ request[r].status = "accepted" => published[request[r].d] > 0 \/ request[r].d \in lost

(* What is known of the event at each place, and that the history misses   *)
(* nothing of the pull request it is about.                                *)
Watching(q) ==
  /\ Unspec(Subject(q), labels) => q.unspec
  /\ Unclosed(Subject(q), open) => q.unclosed

KnownOf(q) ==
  /\ q.at \in {"lookup", "mark", "normalize"} => q.event = NoEvent
  /\ q.at = "key" => q.event.pr = 0 /\ q.event.issue = About(payload[q.d]) /\ ~IsCheck(payload[q.d])
  /\ q.at = "closed" => q.event.pr # 0
  /\ q.at \in {"key", "closed", "route"} => q.event.key[3] = ""
  /\ q.at = "publish" => (q.event.key[3] = "fix" => q.unspec)
  /\ q.at \in {"route", "publish"} => (q.event.type = CommentCreated => q.unclosed)

EventsOK == \A r \in Requests : request[r].d # "none" => Watching(request[r]) /\ KnownOf(request[r])

(* An event of a specification waits with the key of a fix for nobody.     *)
RoutesOK ==
  \A i \in 1..Len(bus) : bus[i].event.key[3] = "fix" => bus[i].unspec

IInv == TypeOK /\ OnceOK /\ DealtOK /\ EventsOK /\ RoutesOK /\ ClosedStaysQuiet

(* Why no client is sent an event twice. An ID is drawn by one request,    *)
(* which alone can bring it into the ring.                                 *)
DrawnOK ==
  /\ \A i \in DOMAIN ring : ring[i] < nextID
  /\ \A r \in Requests : request[r].at = "broadcast" =>
       /\ request[r].id < nextID
       /\ \A i \in DOMAIN ring : ring[i] # request[r].id
       /\ \A q \in Requests : request[q].at = "broadcast" /\ request[q].id = request[r].id => q = r

(* As long as events enter the ring in the order of their IDs, a client    *)
(* has them in this order: what it was sent, the last of it being what it  *)
(* asks for more with, then its channel, and nothing that is newer than    *)
(* the ring.                                                               *)
Increasing(s) == \A i, j \in DOMAIN s : i < j => s[i] < s[j]

Reached(s) == \A i \in DOMAIN s : ring # <<>> /\ s[i] <= ring[Len(ring)]

ClientOK(c) ==
  /\ received[c] \in Seq(Nat) /\ Increasing(received[c]) /\ Reached(received[c])
  /\ client[c].last = IF received[c] = <<>> THEN None ELSE received[c][Len(received[c])]
  /\ Increasing(channel[c]) /\ Reached(channel[c])
  /\ channel[c] # <<>> => client[c].at = "on"
  /\ \A i \in DOMAIN received[c], j \in DOMAIN channel[c] : received[c][i] < channel[c][j]

StreamOK ==
  ~disordered =>
    /\ Increasing(ring)
    /\ received \in [Clients -> Seq(Nat)]
    /\ client \in [Clients -> [at : {"off", "replayed", "on"}, last : Nat \cup {None}]]
    /\ \A c \in Clients : ClientOK(c)

SInv == DrawnOK /\ StreamOK
=============================================================================
