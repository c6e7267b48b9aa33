----------------------------- MODULE ReviewLoop -----------------------------
(***************************************************************************)
(* One pull request between review, rework and merge: the notifications    *)
(* that reach the manager, the gated merge (evaluateAutomerge,             *)
(* internal/session/manager.go), the cap on rework (exhaustedRework) and   *)
(* the sessions of the pull request, whose turns push and review           *)
(* (forgejo_submit_review, internal/tool/forgejo_tools.go). Sessions can   *)
(* merge, too (forgejo_merge_pr), by rules of their own.                   *)
(*                                                                         *)
(* A notification becomes an event in one step here; Webhook has the steps *)
(* of the handler, and SessionManager those of sessions.                   *)
(***************************************************************************)
EXTENDS EventRouting, Sequences

CONSTANTS
  MaxReworkAttempts,
  MaxCommits, MaxReviews,   \* bounds: commits of the branch, reviews
  BusCap, QueueCap,         \* capacities of the bus and of a session's channel
  Yolo, Ours,               \* whether the repository may have the topic, and the
                            \* pull request's text the agent's marker
  MaxExtras                 \* bound: comments, failed calls, lost notifications,
                            \* conflicts, closings, restarts and sessions' merges, in all

ASSUME ReviewAssumption ==
  /\ MaxReworkAttempts \in Nat \ {0} /\ MaxCommits \in Nat \ {0} /\ MaxReviews \in Nat
  /\ Yolo \subseteq BOOLEAN /\ Ours \subseteq BOOLEAN
  /\ BusCap \in Nat \ {0} /\ QueueCap \in Nat \ {0} /\ MaxExtras \in Nat

VARIABLES
  yolo,         \* whether the repository has the topic
  ours,         \* whether the pull request's text has the agent's marker
  state,        \* of the pull request; "conflicted" is open
  head,         \* the newest commit of the branch
  check,        \* of each commit: its check run
  labels,       \* of the pull request
  reviews,      \* in order, who and what
  wire,         \* notifications under way
  bus,
  manager,      \* the dispatcher: where it is, its event and its locals
  session,      \* of each key: role, channel, and what it works on; an event
                \* is the commit whose check failed, 0 if it is another
  attempts,     \* pr_rework
  extras,       \* count for the bound
  missed,       \* history: the conditions for a merge that have not held since
                \* the evaluation began
  merges,       \* history: of each merge, whose it was, what was missed, and
                \* whether the topics could not be read
  granted,      \* history: how often rework was granted
  lost          \* history: something failed, was lost or had no room

forgeVars == <<state, head, check, labels, reviews>>
repoVars == <<yolo, ours>>
historyVars == <<merges, granted, lost>>
vars == <<repoVars, forgeVars, wire, bus, manager, session, attempts, extras, missed, historyVars>>

PR == 7
Verdict == {"success", "failure"}
Opinion == {"approved", "changes_requested"}
Commits == 1..MaxCommits
Keys == {"pulls", "fix", "fix-1"}       \* "fix-1": of a comment
FixKeys == {"fix", "fix-1"}

Base == [kind |-> "pull_request", action |-> "label_updated", number |-> PR, onPR |-> TRUE,
         checked |-> 0, merged |-> FALSE, sender |-> "human", body |-> "none", made |-> ours,
         verdict |-> "none"]

Note(p, n) == [p |-> p, n |-> n]
LabelNote == Note(Base, 0)
CheckNote(c, verdict) ==
  Note([Base EXCEPT !.kind = "check_run", !.action = "completed", !.number = 0, !.onPR = FALSE,
                    !.made = FALSE, !.verdict = verdict], c)
ReviewNote(by, verdict, n) ==
  Note([Base EXCEPT !.kind = "pull_request_review", !.action = "submitted", !.sender = by,
                    !.body = "plain", !.verdict = verdict], n)
CommentNote ==
  Note([Base EXCEPT !.kind = "issue_comment", !.action = "created", !.made = FALSE,
                    !.body = "plain"], 0)

NoJob == [type |-> NoType, verdict |-> "none", key |-> "none", sender |-> "none", n |-> 0]
Free == [role |-> "none", channel |-> <<>>, at |-> "off", job |-> 0]
Opened == [Free EXCEPT !.role = "reviewer", !.at = "wait", !.channel = <<0>>]
Resting == [at |-> "idle", job |-> NoJob, head |-> 0, blind |-> FALSE]

Extra == extras < MaxExtras /\ extras' = extras + 1
Works == UNCHANGED <<extras, lost>>
Breaks == Extra /\ lost' = TRUE

-----------------------------------------------------------------------------
(* The conditions for a merge.                                             *)
IsOpen == state \in {"open", "conflicted"}

LatestReviewByUser(by, verdict) ==
  \E i \in 1..Len(reviews) :
    /\ reviews[i] = [by |-> by, verdict |-> verdict]
    /\ \A j \in (i + 1)..Len(reviews) : reviews[j].by # by

AnyApproved == \E i \in 1..Len(reviews) : reviews[i].verdict = "approved"

Approved(strict) == IF strict THEN LatestReviewByUser("djent", "approved") ELSE AnyApproved

RejectedNever == FALSE
Rejected == "changes_requested" \in labels

(* The last one: of a commit that has been the newest since the manager    *)
(* read which one that is.                                                 *)
Conditions == {"automerge", "mergeable", "unrejected", "approved", "reviewed", "green"}

Holds(condition) ==
  CASE condition = "automerge" -> "automerge" \in labels
    [] condition = "mergeable" -> state = "open"
    [] condition = "unrejected" -> "changes_requested" \notin labels
    [] condition = "approved" -> Approved(yolo)
    [] condition = "reviewed" -> AnyApproved
    [] condition = "green" -> \E c \in manager.head..head : c # 0 /\ check[c] = "success"

Missing == {x \in Conditions : ~Holds(x)}

-----------------------------------------------------------------------------
(* The manager. Events that may have completed the conditions are followed *)
(* by an evaluation.                                                       *)
ProdsUnlessReview(job) == job.type \in {CheckCompleted, CommentCreated}
Prods(job) == job.type \in {CheckCompleted, CommentCreated, Review}

Takes ==
  /\ manager.at = "idle" /\ bus # <<>>
  /\ LET job == Head(bus) IN
     manager' = [at |-> IF job.type = PRLabelUpdated \/ Prods(job) THEN "label" ELSE "redirect",
                 job |-> job,
                 head |-> IF job.type = PRLabelUpdated \/ Prods(job) THEN head ELSE 0,
                 blind |-> FALSE]
  /\ bus' = Tail(bus)
  /\ UNCHANGED <<repoVars, forgeVars, wire, session, attempts, extras, historyVars>>

(* What comes after the evaluation: events about labels are done.          *)
Rest == IF manager.job.type = PRLabelUpdated THEN Resting
        ELSE [manager EXCEPT !.at = "redirect", !.head = 0, !.blind = FALSE]

(* One read of the evaluation, which goes on if its condition holds; a     *)
(* call that fails ends it.                                                *)
Reads(place, condition, next) ==
  /\ manager.at = place
  /\ \/ Works /\ manager' = IF condition THEN [manager EXCEPT !.at = next] ELSE Rest
     \/ Breaks /\ manager' = Rest
  /\ UNCHANGED <<repoVars, forgeVars, wire, bus, session, attempts, merges, granted>>

ReadsLabel == Reads("label", "automerge" \in labels, "pr")

ReadsPR ==
  /\ manager.at = "pr"
  /\ \/ /\ Works
        /\ manager' = IF state = "open" THEN [manager EXCEPT !.at = "labels", !.head = head]
                      ELSE Rest
     \/ Breaks /\ manager' = Rest
  /\ UNCHANGED <<repoVars, forgeVars, wire, bus, session, attempts, merges, granted>>

ReadsLabels == Reads("labels", ~Rejected, "checks")

ReadsChecks == Reads("checks", check[manager.head] = "success", "topics")

(* Without an answer about the topics the repository counts as not yolo.   *)
ReadsTopics ==
  /\ manager.at = "topics"
  /\ \/ Works /\ manager' = [manager EXCEPT !.at = "reviews"]
     \/ Breaks /\ manager' = [manager EXCEPT !.at = "reviews", !.blind = TRUE]
  /\ UNCHANGED <<repoVars, forgeVars, wire, bus, session, attempts, merges, granted>>

ReadsReviews == Reads("reviews", Approved(yolo /\ ~manager.blind), "merge")

(* MergePR, in three styles, names no commit and merges the newest.        *)
MergePR == state = "open" /\ state' = "merged"

Merges ==
  /\ manager.at = "merge"
  /\ \/ /\ Works /\ MergePR
        /\ merges' = merges \cup {[by |-> "manager", missed |-> missed, blind |-> manager.blind]}
        /\ manager' = [manager EXCEPT !.at = "unlabel"]
     \/ /\ (Works /\ state # "open") \/ Breaks
        /\ manager' = Rest /\ UNCHANGED <<state, merges>>
  /\ UNCHANGED <<repoVars, head, check, labels, reviews, wire, bus, session, attempts, granted>>

Unlabels ==
  /\ manager.at = "unlabel"
  /\ \/ Works /\ labels' = labels \ {"automerge"} /\ wire' = wire \cup {LabelNote}
     \/ Breaks /\ UNCHANGED <<labels, wire>>
  /\ manager' = Rest
  /\ UNCHANGED <<repoVars, state, head, check, reviews, bus, session, attempts, merges, granted>>

(* A human's comment on an open pull request gets a session of its own.    *)
Redirects ==
  LET human == manager.job.type = CommentCreated /\ manager.job.sender = "human" IN
  /\ manager.at = "redirect"
  /\ \/ /\ Works
        /\ manager' = IF human /\ IsOpen THEN [manager EXCEPT !.at = "send", !.job.key = "fix-1"]
                      ELSE [manager EXCEPT !.at = "cap"]
     \/ human /\ lost' = TRUE /\ UNCHANGED extras /\ manager' = [manager EXCEPT !.at = "cap"]
  /\ UNCHANGED <<repoVars, forgeVars, wire, bus, session, attempts, merges, granted>>

IsFixTriggerEvent(job) ==
  \/ job.type = CheckCompleted /\ IsFailure(job.verdict)
  \/ job.type = Review /\ job.verdict = "changes_requested"
  \/ job.type = CommentCreated

HasActiveFixSession == \E k \in FixKeys : session[k].at # "off" /\ session[k].at # "wait"

Capped(job) == IsFixTriggerEvent(job) /\ job.key = "fix"

(* A fix session that works is given the event, and nothing is counted.    *)
OnwardUnlessActive(job) ==
  IF ~Capped(job) THEN "send" ELSE IF HasActiveFixSession THEN "idle" ELSE "count"

Onward(job) == IF Capped(job) /\ ~HasActiveFixSession THEN "count" ELSE "send"

ChecksCap ==
  /\ manager.at = "cap"
  /\ manager' = [manager EXCEPT !.at = Onward(manager.job)]
  /\ UNCHANGED <<repoVars, forgeVars, wire, bus, session, attempts, extras, historyVars>>

Within(n) == n <= MaxReworkAttempts

(* exhaustedRework; a counter that cannot be written lets the event pass.  *)
Counts ==
  /\ manager.at = "count"
  /\ \/ /\ Works /\ attempts' = attempts + 1
        /\ IF Within(attempts')
           THEN /\ granted' = granted + 1 /\ manager' = [manager EXCEPT !.at = "send"]
           ELSE manager' = [manager EXCEPT !.at = "exhausted"] /\ UNCHANGED granted
     \/ Breaks /\ manager' = [manager EXCEPT !.at = "send"] /\ UNCHANGED <<attempts, granted>>
  /\ UNCHANGED <<repoVars, forgeVars, wire, bus, session, merges>>

GivesUp ==
  /\ manager.at = "exhausted"
  /\ \/ Works /\ labels' = labels \cup {"exhausted"} /\ wire' = wire \cup {LabelNote}
     \/ Breaks /\ UNCHANGED <<labels, wire>>
  /\ manager' = Resting
  /\ UNCHANGED <<repoVars, state, head, check, reviews, bus, session, attempts, merges, granted>>

(* getOrCreate and the send. A session is an implementer's only if a       *)
(* comment created it: runSession reads no role from the event, and makes  *)
(* every other session of a pull request a reviewer's.                     *)
HasSpace(s) == Len(s.channel) < QueueCap

FailedCheck(job) ==
  IF job.type = CheckCompleted /\ IsFailure(job.verdict) THEN job.n ELSE 0

RoleFor(job) == IF job.type = CommentCreated THEN "implementer" ELSE "reviewer"

Hands ==
  LET job == manager.job
      s == session[job.key] IN
  /\ manager.at = "send"
  /\ IF HasSpace(s)
     THEN /\ session' = [session EXCEPT ![job.key] =
               IF s.at = "off"
               THEN [Free EXCEPT !.role = RoleFor(job), !.at = "wait",
                                 !.channel = <<FailedCheck(job)>>]
               ELSE [s EXCEPT !.channel = Append(@, FailedCheck(job))]]
          /\ UNCHANGED lost
     ELSE lost' = TRUE /\ UNCHANGED session
  /\ manager' = Resting
  /\ UNCHANGED <<repoVars, forgeVars, wire, bus, attempts, extras, merges, granted>>

Manages ==
  \/ Takes \/ ReadsLabel \/ ReadsPR \/ ReadsLabels \/ ReadsChecks \/ ReadsTopics \/ ReadsReviews
  \/ Merges \/ Unlabels \/ Redirects \/ ChecksCap \/ Counts \/ GivesUp \/ Hands

-----------------------------------------------------------------------------
(* The sessions. An implementer may push, a reviewer submit a review.      *)
Begins(k) ==
  LET s == session[k] IN
  /\ s.at = "wait" /\ s.channel # <<>>
  /\ session' = [session EXCEPT ![k].at = "work", ![k].job = Head(s.channel),
                                ![k].channel = Tail(s.channel)]
  /\ UNCHANGED <<repoVars, forgeVars, wire, bus, manager, attempts, extras, historyVars>>

Pushes(k) ==
  /\ session[k].at = "work" /\ session[k].role = "implementer"
  /\ IsOpen /\ head < MaxCommits
  /\ head' = head + 1
  /\ UNCHANGED <<repoVars, state, check, labels, reviews, wire, bus, manager, session, attempts,
                 extras, historyVars>>

(* forgejo_submit_review: a verdict the reviewer's last review has already *)
(* is not submitted again, unless the reviews cannot be listed.            *)
Reviews(k, verdict) ==
  /\ session[k].at = "work" /\ session[k].role = "reviewer" /\ Len(reviews) < MaxReviews
  /\ (~LatestReviewByUser("djent", verdict) /\ Works) \/ Breaks
  /\ reviews' = Append(reviews, [by |-> "djent", verdict |-> verdict])
  /\ wire' = wire \cup {ReviewNote("djent", verdict, Len(reviews'))}
  /\ session' = [session EXCEPT ![k].at = verdict]
  /\ UNCHANGED <<repoVars, state, head, check, labels, bus, manager, attempts, merges, granted>>

(* Its second call, for the label.                                         *)
Relabeled(verdict) ==
  IF verdict = "approved" THEN labels \ {"changes_requested"} ELSE labels \cup {"changes_requested"}

LabelsReview(k) ==
  /\ session[k].at \in Opinion
  /\ \/ /\ Works /\ labels' = Relabeled(session[k].at)
        /\ wire' = IF labels' # labels THEN wire \cup {LabelNote} ELSE wire
     \/ Breaks /\ UNCHANGED <<labels, wire>>
  /\ session' = [session EXCEPT ![k].at = "work"]
  /\ UNCHANGED <<repoVars, state, head, check, reviews, bus, manager, attempts, merges, granted>>

(* forgejo_merge_pr, called by a session of this pull request or another.  *)
(* The policy of a repository with the topic lets the reviewer merge, of   *)
(* whom the tool wants nobody's approval. Of an implementer no policy asks *)
(* anything (require-review, which wants a label, is left out), and the    *)
(* tool wants an approval unless the pull request is the agent's own.      *)
(* Labels, checks and later reviews are not looked at. What is looked at   *)
(* lasts but for the state, so that one step will do.                      *)
Askers == {"reviewer", "implementer"}

Permitted(role) == IF role = "reviewer" THEN yolo ELSE ours \/ AnyApproved

SessionMerges(role) ==
  /\ Permitted(role) /\ MergePR /\ Extra
  /\ merges' = merges \cup {[by |-> role, missed |-> Missing \cap {"reviewed"}, blind |-> FALSE]}
  /\ UNCHANGED <<repoVars, head, check, labels, reviews, wire, bus, manager, session, attempts,
                 granted, lost>>

Ends(k) ==
  /\ session[k].at = "work"
  /\ session' = [session EXCEPT ![k].at = "wait", ![k].job = 0]
  /\ UNCHANGED <<repoVars, forgeVars, wire, bus, manager, attempts, extras, historyVars>>

-----------------------------------------------------------------------------
(* The rest: Forgejo and people, who leave a closed pull request alone.    *)
MainVars == <<repoVars, bus, manager, session, attempts, merges, granted>>

(* A notification comes in: the filter, the check of closed pull requests, *)
(* the routing table, the bus.                                             *)
Arrives(w) == \E e \in {Event(w.p, IF w.n = head /\ IsOpen THEN PR ELSE 0)} :
  LET job(r) == [type |-> r.type, verdict |-> r.verdict, sender |-> r.sender,
                 n |-> IF IsCheck(w.p) THEN w.n ELSE 0,
                 key |-> IF r.key[3] = "fix" THEN "fix" ELSE "pulls"] IN
  /\ wire' = wire \ {w}
  /\ IF e.pr = 0 \/ IsAgentEvent(w.p) \/ (e.type = CommentCreated /\ ~IsOpen)
     THEN UNCHANGED <<bus, lost>>
     ELSE IF Len(bus) < BusCap
     THEN (\E r \in {Routed(e, labels)} : bus' = Append(bus, job(r))) /\ UNCHANGED lost
     ELSE lost' = TRUE /\ UNCHANGED bus
  /\ UNCHANGED <<repoVars, forgeVars, manager, session, attempts, extras, merges, granted>>

(* The check run of the newest commit ends.                                *)
Checks(verdict) ==
  /\ IsOpen /\ check[head] = "none"
  /\ check' = [check EXCEPT ![head] = verdict]
  /\ wire' = wire \cup {CheckNote(head, verdict)}
  /\ UNCHANGED <<MainVars, state, head, labels, reviews, extras, lost>>

PeopleReview(verdict) ==
  /\ IsOpen /\ Len(reviews) < MaxReviews
  /\ reviews' = Append(reviews, [by |-> "human", verdict |-> verdict])
  /\ wire' = wire \cup {ReviewNote("human", verdict, Len(reviews'))}
  /\ UNCHANGED <<MainVars, state, head, check, labels, extras, lost>>

PeoplePush ==
  /\ IsOpen /\ head < MaxCommits /\ head' = head + 1 /\ Extra
  /\ UNCHANGED <<MainVars, state, check, labels, reviews, wire, lost>>

PeopleComment ==
  /\ IsOpen /\ Extra /\ wire' = wire \cup {CommentNote}
  /\ UNCHANGED <<MainVars, forgeVars, lost>>

PeopleLabel ==
  /\ IsOpen /\ Extra
  /\ \E l \in {"automerge", "changes_requested"} :
       labels' = IF l \in labels THEN labels \ {l} ELSE labels \cup {l}
  /\ wire' = wire \cup {LabelNote}
  /\ UNCHANGED <<MainVars, state, head, check, reviews, lost>>

(* Of a conflict, and of its end, nobody is told.                          *)
Turns ==
  /\ \/ state = "open" /\ state' = "conflicted" /\ Breaks
     \/ state = "conflicted" /\ state' = "open" /\ lost' = TRUE /\ UNCHANGED extras
     \/ IsOpen /\ state' = "closed" /\ Breaks
  /\ UNCHANGED <<MainVars, head, check, labels, reviews, wire>>

Loses(w) ==
  Breaks /\ wire' = wire \ {w} /\ UNCHANGED <<MainVars, forgeVars>>

(* The process dies. The counter is kept, and some sessions come back,     *)
(* as reviewers: of a comment's session its being one is not kept.         *)
Forgotten(n) == 0
Kept(n) == n

Restarts ==
  /\ Breaks
  /\ bus' = <<>> /\ manager' = Resting
  /\ \E back \in SUBSET {k \in Keys : session[k].at # "off"} :
       session' = [k \in Keys |->
                     IF k \in back THEN [Free EXCEPT !.role = "reviewer", !.at = "wait"] ELSE Free]
  /\ attempts' = Kept(attempts)
  /\ UNCHANGED <<repoVars, forgeVars, wire, merges, granted>>

Turn(k) ==
  Begins(k) \/ Pushes(k) \/ (\E v \in Opinion : Reviews(k, v)) \/ LabelsReview(k) \/ Ends(k)

Outside ==
  \/ \E v \in Verdict : Checks(v)
  \/ \E v \in Opinion : PeopleReview(v)
  \/ PeoplePush \/ PeopleComment \/ PeopleLabel \/ Turns \/ Restarts
  \/ \E w \in wire : Loses(w)

Evaluating ==
  manager.at \in {"label", "pr", "labels", "checks", "topics", "reviews", "merge"}

Watched ==
  missed' = IF ~Evaluating' THEN {} ELSE IF ~Evaluating THEN Missing' ELSE missed \cap Missing'

Init ==
  /\ yolo \in Yolo /\ ours \in Ours
  /\ state = "open" /\ head = 1 /\ check = [c \in Commits |-> "none"]
  /\ labels = {"automerge"} /\ reviews = <<>>
  /\ wire = {} /\ bus = <<>> /\ manager = Resting
  /\ session = [k \in Keys |-> IF k = "pulls" THEN Opened ELSE Free]
  /\ attempts = 0 /\ extras = 0
  /\ missed = {} /\ merges = {} /\ granted = 0 /\ lost = FALSE

Next ==
  /\ \/ Manages \/ Outside
     \/ \E k \in Keys : Turn(k)
     \/ \E role \in Askers : SessionMerges(role)
     \/ \E w \in wire : Arrives(w)
  /\ Watched

Spec == Init /\ [][Next]_vars

(* The dispatcher goes on, turns end, and a notification is delivered or   *)
(* lost; people and check runs do as they like.                            *)
Fairness ==
  /\ WF_manager(Manages)
  /\ WF_session(\E k \in Keys : Turn(k))
  /\ WF_wire(\E w \in wire : wire' = wire \ {w})

FairSpec == Spec /\ Fairness

-----------------------------------------------------------------------------
(* Types, and the capacities of the bus and of the channels.               *)
Places == {"idle", "label", "pr", "labels", "checks", "topics", "reviews", "merge", "unlabel",
           "redirect", "cap", "count", "exhausted", "send"}
Job == [type : EventTypes, verdict : Verdicts, key : Keys \cup {"none"},
        sender : Senders \cup {"none"}, n : Nat]
Session == [role : {"none", "implementer", "reviewer"}, channel : Seq(Nat),
            at : {"off", "wait", "work"} \cup Opinion, job : Nat]

TypeOK ==
  /\ yolo \in BOOLEAN /\ ours \in BOOLEAN
  /\ state \in {"open", "conflicted", "closed", "merged"}
  /\ head \in Commits /\ check \in [Commits -> {"none"} \cup Verdict]
  /\ labels \subseteq {"automerge", "changes_requested", "exhausted"}
  /\ reviews \in Seq([by : {"human", "djent"}, verdict : Opinion])
  /\ wire \subseteq [p : Payload, n : Nat]
  /\ bus \in Seq(Job) /\ Len(bus) <= BusCap
  /\ manager \in [at : Places, job : Job, head : 0..MaxCommits, blind : BOOLEAN]
  /\ session \in [Keys -> Session] /\ \A k \in Keys : Len(session[k].channel) <= QueueCap
  /\ attempts \in Nat /\ granted \in Nat /\ extras \in 0..MaxExtras /\ lost \in BOOLEAN
  /\ missed \subseteq Conditions
  /\ merges \subseteq [by : Askers \cup {"manager"}, missed : SUBSET Conditions, blind : BOOLEAN]

(* The manager merges the pull request only if each condition has held at  *)
(* some time since the evaluation began, though it is read in several      *)
(* calls while people and sessions push, review, relabel and merge. When   *)
(* the topics cannot be read, any approval does in the place of the        *)
(* reviewer's last one. The sessions' own merges are not behind this gate: *)
(* what is left of it is the topic for a reviewer, and for an implementer  *)
(* somebody's approval of a pull request that is not the agent's own.      *)
Gated(m) ==
  CASE m.by = "manager" -> m.missed = {} \/ (m.blind /\ m.missed = {"approved"})
    [] m.by = "reviewer" -> yolo
    [] m.by = "implementer" -> ours \/ m.missed = {}

GateHolds == \A m \in merges : Gated(m)

(* No more rework is granted than max_rework_attempts, restarts included;  *)
(* an event that passes because its attempt could not be written is not    *)
(* counted, and not one that was granted.                                  *)
ReworkCapped == granted <= MaxReworkAttempts

(* A pull request that is not the agent's own and fulfils all conditions   *)
(* is merged, if they last and nothing fails or is lost: whatever          *)
(* completes the conditions is followed by an evaluation.                  *)
Ready == {x \in Conditions : ~Holds(x)} = {} /\ check[head] = "success"
ReadyMerges == (~ours /\ Ready) ~> (~Ready \/ lost)

(* When the manager has been told of a failed check, a session will work   *)
(* on one, or the pull request is given up, if nothing fails or is lost.   *)
Told == \E i \in 1..Len(bus) : IsFailure(bus[i].verdict)
FailureAnswered ==
  Told ~> ((\E k \in Keys : session[k].job # 0) \/ "exhausted" \in labels \/ lost)
-----------------------------------------------------------------------------
(* Why the first two hold. What the manager has read is behind it: at each *)
(* place, the conditions that can no longer be among those missed.         *)
Passed(place) ==
  CASE place = "label" -> {}
    [] place = "pr" -> {"automerge"}
    [] place = "labels" -> {"automerge", "mergeable"}
    [] place = "checks" -> {"automerge", "mergeable", "unrejected"}
    [] place \in {"topics", "reviews"} -> {"automerge", "mergeable", "unrejected", "green"}
    [] OTHER -> Conditions \ {"approved"}

GateOK ==
  /\ missed \subseteq Missing
  /\ Evaluating => missed \cap Passed(manager.at) = {} /\ manager.head \in 1..head
  /\ manager.at = "merge" => "approved" \notin missed \/ manager.blind

ReworkOK == granted <= attempts /\ ReworkCapped

IInv == TypeOK /\ GateOK /\ GateHolds /\ ReworkOK
=============================================================================
