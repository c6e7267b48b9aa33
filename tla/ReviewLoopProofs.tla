-------------------------- MODULE ReviewLoopProofs --------------------------
(***************************************************************************)
(* Proofs about ReviewLoop: the gate of the merge and the cap on rework,   *)
(* for any number of commits, reviews, notifications and restarts and any  *)
(* capacities.                                                             *)
(***************************************************************************)
EXTENDS ReviewLoop, TLAPS

-----------------------------------------------------------------------------
(* The routing table, as far as types go: it changes role and key only.    *)
LEMMA TypeOfType ==
  ASSUME NEW p \in Payload
  PROVE  TypeOf(p) \in EventTypes
  <1>1. CASE IsMerge(p)
    <2>1. TypeOf(p) = PRMerged
      BY <1>1 DEF TypeOf, IsMerge, IsCheck
    <2> QED BY <2>1 DEF EventTypes
  <1>2. CASE p.kind \in Joined /\ ~IsMerge(p)
    BY <1>2 DEF TypeOf, EventTypes, Payload
  <1>3. CASE ~(p.kind \in Joined) /\ ~IsMerge(p) /\ p.kind \in {"pull_request_review", "push"}
    BY <1>3 DEF TypeOf, EventTypes, IsCheck
  <1>4. CASE /\ ~(p.kind \in Joined) /\ ~IsMerge(p) /\ ~(p.kind \in {"pull_request_review", "push"})
             /\ IsCheck(p) /\ p.action = "completed"
    BY <1>4 DEF TypeOf, EventTypes, IsCheck, CheckCompleted, WorkflowCompleted
  <1>5. CASE /\ ~(p.kind \in Joined) /\ ~IsMerge(p) /\ ~(p.kind \in {"pull_request_review", "push"})
             /\ ~(IsCheck(p) /\ p.action = "completed")
    BY <1>5 DEF TypeOf, EventTypes
  <1> QED BY <1>1, <1>2, <1>3, <1>4, <1>5

LEMMA RoutedKeeps ==
  ASSUME NEW p \in Payload, NEW n, NEW L
  PROVE  LET r == Routed(Event(p, n), L) IN
         r.type = TypeOf(p) /\ r.verdict = p.verdict /\ r.sender = p.sender
  BY DEF Routed, Event

LEMMA Payloads ==
  ASSUME TypeOK
  PROVE  /\ Base \in Payload
         /\ CommentNote \in [p : Payload, n : Nat] /\ LabelNote \in [p : Payload, n : Nat]
         /\ \A c \in Nat, v \in Verdict : CheckNote(c, v) \in [p : Payload, n : Nat]
         /\ \A by \in {"human", "djent"}, v \in Opinion, n \in Nat :
              ReviewNote(by, v, n) \in [p : Payload, n : Nat]
  <1> USE DEF Payload, Kinds, Actions, Senders, Bodies, Verdicts, Note, Base, PR, TypeOK
  <1>1. Base \in Payload
    OBVIOUS
  <1>2. CommentNote \in [p : Payload, n : Nat] /\ LabelNote \in [p : Payload, n : Nat]
    BY DEF CommentNote, LabelNote
  <1>3. \A c \in Nat, v \in Verdict : CheckNote(c, v) \in [p : Payload, n : Nat]
    BY DEF CheckNote, Verdict
  <1>4. \A by \in {"human", "djent"}, v \in Opinion, n \in Nat :
          ReviewNote(by, v, n) \in [p : Payload, n : Nat]
    BY DEF ReviewNote, Opinion
  <1> QED BY <1>1, <1>2, <1>3, <1>4

LEMMA JobTypes ==
  /\ NoJob \in Job
  /\ Free \in Session /\ Opened \in Session
  /\ Resting \in [at : Places, job : Job, head : 0..MaxCommits, blind : BOOLEAN]
  <1>1. NoJob \in Job
    BY DEF NoJob, Job, EventTypes, Verdicts
  <1>2. Free \in Session /\ Opened \in Session
    <2>1. <<0>> \in Seq(Nat) /\ <<>> \in Seq(Nat)
      OBVIOUS
    <2>2. Free \in Session
      BY <2>1 DEF Free, Session
    <2> QED BY <2>1, <2>2 DEF Opened, Session
  <1>3. 0 \in 0..MaxCommits
    BY ReviewAssumption
  <1> QED BY <1>1, <1>2, <1>3 DEF Resting, Places

-----------------------------------------------------------------------------
(* Types.                                                                  *)
Manager == [at : Places, job : Job, head : 0..MaxCommits, blind : BOOLEAN]
Notes == [p : Payload, n : Nat]

LEMMA TypeInit == Init => TypeOK
  <1> SUFFICES ASSUME Init PROVE TypeOK
    OBVIOUS
  <1>1. session \in [Keys -> Session] /\ \A k \in Keys : Len(session[k].channel) <= QueueCap
    <2>1. session = [k \in Keys |-> IF k = "pulls" THEN Opened ELSE Free]
      BY DEF Init
    <2>2. \A k \in Keys : session[k] \in Session
      BY <2>1, JobTypes
    <2>3. Len(Opened.channel) = 1 /\ Len(Free.channel) = 0
      BY DEF Opened, Free
    <2>4. \A k \in Keys : Len(session[k].channel) \in {0, 1}
      BY <2>1, <2>3
    <2>5. session \in [Keys -> Session]
      BY <2>1, <2>2
    <2>6. QueueCap \in Nat /\ 0 <= QueueCap /\ 1 <= QueueCap
      BY ReviewAssumption
    <2>7. \A k \in Keys : Len(session[k].channel) <= QueueCap
      BY <2>4, <2>6
    <2> QED BY <2>5, <2>7
  <1>2. yolo \in BOOLEAN /\ ours \in BOOLEAN
    BY ReviewAssumption DEF Init
  <1>3. manager \in Manager
    BY JobTypes DEF Init, Manager
  <1>4. head \in Commits /\ check \in [Commits -> {"none"} \cup Verdict] /\ extras \in 0..MaxExtras
    BY ReviewAssumption DEF Init, Commits
  <1>5. bus \in Seq(Job) /\ Len(bus) <= BusCap /\ reviews \in Seq([by : {"human", "djent"}, verdict : Opinion])
    BY ReviewAssumption DEF Init
  <1> QED BY <1>1, <1>2, <1>3, <1>4, <1>5 DEF Init, TypeOK, Manager

LEMMA BoundTypes ==
  ASSUME TypeOK
  PROVE  /\ Works => extras' \in 0..MaxExtras /\ lost' \in BOOLEAN
         /\ Breaks => extras' \in 0..MaxExtras /\ lost' \in BOOLEAN
         /\ Extra => extras' \in 0..MaxExtras
  <1>1. extras \in 0..MaxExtras /\ lost \in BOOLEAN /\ MaxExtras \in Nat
    BY ReviewAssumption DEF TypeOK
  <1>2. Extra => extras' \in 0..MaxExtras
    BY <1>1 DEF Extra
  <1> QED BY <1>1, <1>2 DEF Works, Breaks

LEMMA RestType ==
  ASSUME TypeOK
  PROVE  Rest \in Manager /\ Rest.at \in {"idle", "redirect"}
  <1>1. CASE manager.job.type = PRLabelUpdated
    <2>1. Rest = Resting
      BY <1>1 DEF Rest
    <2> QED BY <2>1, JobTypes DEF Resting, Manager
  <1>2. CASE manager.job.type # PRLabelUpdated
    <2>1. Rest = [manager EXCEPT !.at = "redirect", !.head = 0, !.blind = FALSE]
      BY <1>2 DEF Rest
    <2>2. manager \in Manager
      BY DEF TypeOK, Manager
    <2>3. Rest.at = "redirect" /\ Rest \in Manager
      <3>1. 0 \in 0..MaxCommits
        BY ReviewAssumption
      <3> QED BY <2>1, <2>2, <3>1 DEF Manager, Places
    <2> QED BY <2>3
  <1> QED BY <1>1, <1>2

(* The places of the evaluation.                                           *)
LEMMA MovesTypes ==
  ASSUME TypeOK, missed' \subseteq Conditions,
         \/ ReadsLabel \/ ReadsPR \/ ReadsLabels \/ ReadsChecks \/ ReadsTopics \/ ReadsReviews
  PROVE  TypeOK'
  <1>1. manager \in Manager /\ Rest \in Manager /\ head \in 0..MaxCommits
    BY RestType, ReviewAssumption DEF TypeOK, Manager, Commits
  <1>2. \A p \in Places : [manager EXCEPT !.at = p] \in Manager
    BY <1>1 DEF Manager
  <1>3. /\ UNCHANGED <<yolo, ours, state, head, check, labels, reviews, wire, bus, session>>
        /\ UNCHANGED <<attempts, merges, granted>>
        /\ Works \/ Breaks
    BY DEF ReadsLabel, ReadsPR, ReadsLabels, ReadsChecks, ReadsTopics, ReadsReviews, Reads,
           repoVars, forgeVars
  <1>4. manager' \in Manager
    <2>1. CASE ReadsLabel \/ ReadsLabels \/ ReadsChecks \/ ReadsReviews
      <3>1. PICK next \in Places : manager' \in {[manager EXCEPT !.at = next], Rest}
        BY <2>1 DEF ReadsLabel, ReadsLabels, ReadsChecks, ReadsReviews, Reads, Places
      <3> QED BY <1>1, <1>2, <3>1
    <2>2. CASE ReadsPR
      <3>1. manager' \in {[manager EXCEPT !.at = "labels", !.head = head], Rest}
        BY <2>2 DEF ReadsPR
      <3>2. [manager EXCEPT !.at = "labels", !.head = head] \in Manager
        BY <1>1 DEF Manager, Places
      <3> QED BY <1>1, <3>1, <3>2
    <2>3. CASE ReadsTopics
      <3>1. manager' \in {[manager EXCEPT !.at = "reviews"],
                          [manager EXCEPT !.at = "reviews", !.blind = TRUE]}
        BY <2>3 DEF ReadsTopics
      <3>2. [manager EXCEPT !.at = "reviews", !.blind = TRUE] \in Manager
        BY <1>1 DEF Manager, Places
      <3> QED BY <1>2, <3>1, <3>2 DEF Places
    <2> QED BY <2>1, <2>2, <2>3
  <1>5. extras' \in 0..MaxExtras /\ lost' \in BOOLEAN
    BY <1>3, BoundTypes
  <1> QED BY <1>3, <1>4, <1>5 DEF TypeOK, Manager

LEMMA Queues ==
  ASSUME NEW S, NEW q \in Seq(S), q # <<>>
  PROVE  Head(q) \in S /\ Tail(q) \in Seq(S) /\ Len(Tail(q)) = Len(q) - 1 /\ Len(q) \in Nat
  OBVIOUS

LEMMA Appends ==
  ASSUME NEW S, NEW q \in Seq(S), NEW x \in S
  PROVE  Append(q, x) \in Seq(S) /\ Len(Append(q, x)) = Len(q) + 1 /\ Len(q) \in Nat
  OBVIOUS

(* The other steps of the manager.                                         *)
LEMMA ManagesTypes ==
  ASSUME TypeOK, missed' \subseteq Conditions, Manages
  PROVE  TypeOK'
  <1> USE DEF repoVars, forgeVars, historyVars
  <1>0. /\ manager \in Manager /\ Rest \in Manager /\ Resting \in Manager
        /\ head \in 0..MaxCommits /\ 0 \in 0..MaxCommits
        /\ manager.job \in Job
    BY RestType, JobTypes, ReviewAssumption DEF TypeOK, Manager, Commits
  <1>p. \A p \in Places : [manager EXCEPT !.at = p] \in Manager
    BY <1>0 DEF Manager
  <1>w. wire \subseteq Notes /\ LabelNote \in Notes
    BY Payloads DEF TypeOK, Notes
  <1>1. CASE Takes
    <2>1. bus \in Seq(Job) /\ bus # <<>>
      BY <1>1 DEF Takes, TypeOK
    <2>2. Head(bus) \in Job /\ bus' \in Seq(Job) /\ Len(bus') <= BusCap
      BY <1>1, <2>1, Queues, ReviewAssumption DEF Takes, TypeOK
    <2>3. manager' \in Manager
      BY <1>0, <1>1, <2>2 DEF Takes, Manager, Places
    <2> QED BY <1>1, <2>2, <2>3 DEF Takes, TypeOK, Manager
  <1>2. CASE ReadsLabel \/ ReadsPR \/ ReadsLabels \/ ReadsChecks \/ ReadsTopics \/ ReadsReviews
    BY <1>2, MovesTypes
  <1>3. CASE Merges
    <2>1. state' \in {"open", "conflicted", "closed", "merged"}
      BY <1>3 DEF Merges, MergePR, TypeOK
    <2>2. merges' \subseteq [by : Askers \cup {"manager"}, missed : SUBSET Conditions, blind : BOOLEAN]
      <3>1. [by |-> "manager", missed |-> missed, blind |-> manager.blind]
              \in [by : Askers \cup {"manager"}, missed : SUBSET Conditions, blind : BOOLEAN]
        BY <1>0 DEF TypeOK, Manager
      <3>2. merges' \in {merges, merges \cup {[by |-> "manager", missed |-> missed, blind |-> manager.blind]}}
        BY <1>3 DEF Merges
      <3> QED BY <3>1, <3>2 DEF TypeOK
    <2>3. manager' \in Manager
      BY <1>0, <1>3, <1>p DEF Merges, Places
    <2>4. extras' \in 0..MaxExtras /\ lost' \in BOOLEAN
      BY <1>3, BoundTypes DEF Merges
    <2> QED BY <1>3, <2>1, <2>2, <2>3, <2>4 DEF Merges, TypeOK, Manager
  <1>4. CASE Unlabels
    <2>1. labels' \subseteq {"automerge", "changes_requested", "exhausted"} /\ wire' \subseteq Notes
      BY <1>4, <1>w DEF Unlabels, TypeOK
    <2>2. extras' \in 0..MaxExtras /\ lost' \in BOOLEAN
      BY <1>4, BoundTypes DEF Unlabels
    <2> QED BY <1>0, <1>4, <2>1, <2>2 DEF Unlabels, TypeOK, Manager, Notes
  <1>5. CASE Redirects
    <2>1. [manager EXCEPT !.at = "send", !.job.key = "fix-1"] \in Manager
      <3>1. [manager.job EXCEPT !.key = "fix-1"] \in Job
        BY <1>0 DEF Job, Keys
      <3>2. [manager EXCEPT !.at = "send", !.job.key = "fix-1"] =
              [[manager EXCEPT !.at = "send"] EXCEPT !.job = [manager.job EXCEPT !.key = "fix-1"]]
        BY <1>0 DEF Manager
      <3> QED BY <1>0, <3>1, <3>2 DEF Manager, Places
    <2>2. manager' \in Manager
      BY <1>5, <1>p, <2>1 DEF Redirects, Places
    <2>3. extras' \in 0..MaxExtras /\ lost' \in BOOLEAN
      BY <1>5, BoundTypes DEF Redirects, TypeOK
    <2> QED BY <1>5, <2>2, <2>3 DEF Redirects, TypeOK, Manager
  <1>6. CASE ChecksCap
    <2>1. Onward(manager.job) \in Places
      BY DEF Onward, Places
    <2> QED BY <1>6, <1>p, <2>1 DEF ChecksCap, TypeOK, Manager
  <1>7. CASE Counts
    <2>1. attempts' \in Nat /\ granted' \in Nat
      BY <1>7 DEF Counts, TypeOK
    <2>2. manager' \in Manager
      BY <1>7, <1>p DEF Counts, Places
    <2>3. extras' \in 0..MaxExtras /\ lost' \in BOOLEAN
      BY <1>7, BoundTypes DEF Counts
    <2> QED BY <1>7, <2>1, <2>2, <2>3 DEF Counts, TypeOK, Manager
  <1>8. CASE GivesUp
    <2>1. labels' \subseteq {"automerge", "changes_requested", "exhausted"} /\ wire' \subseteq Notes
      BY <1>8, <1>w DEF GivesUp, TypeOK
    <2>2. extras' \in 0..MaxExtras /\ lost' \in BOOLEAN
      BY <1>8, BoundTypes DEF GivesUp
    <2> QED BY <1>0, <1>8, <2>1, <2>2 DEF GivesUp, TypeOK, Manager, Notes
  <1>9. CASE Hands
    <2> DEFINE job == manager.job
               s == session[job.key]
               n == FailedCheck(job)
               opened == [Free EXCEPT !.role = RoleFor(job), !.at = "wait", !.channel = <<n>>]
               longer == [s EXCEPT !.channel = Append(@, n)]
    <2>1. n \in Nat /\ RoleFor(job) \in {"implementer", "reviewer"}
      BY <1>0 DEF FailedCheck, RoleFor, Job
    <2>2. \/ session' = session
          \/ HasSpace(s) /\ session' = [session EXCEPT ![job.key] = IF s.at = "off" THEN opened ELSE longer]
      BY <1>9 DEF Hands
    <2>3. opened \in Session /\ Len(opened.channel) <= QueueCap
      <3>1. <<n>> \in Seq(Nat) /\ Len(<<n>>) = 1
        BY <2>1
      <3>2. 1 <= QueueCap
        BY ReviewAssumption
      <3> HIDE DEF n
      <3> QED BY <2>1, <3>1, <3>2, JobTypes DEF Session, Free
    <2>4. ASSUME job.key \in Keys, HasSpace(s) PROVE longer \in Session /\ Len(longer.channel) <= QueueCap
      <3>1. s \in Session
        BY <2>4 DEF TypeOK
      <3>2. s.channel \in Seq(Nat)
        BY <3>1 DEF Session
      <3>3. Append(s.channel, n) \in Seq(Nat) /\ Len(Append(s.channel, n)) <= QueueCap
        BY <2>1, <2>4, <3>2, Appends, ReviewAssumption DEF HasSpace
      <3>4. longer = [s EXCEPT !.channel = Append(s.channel, n)]
        BY <3>1 DEF Session
      <3> HIDE DEF longer, n
      <3> QED BY <3>1, <3>3, <3>4 DEF Session
    <2>5. session' \in [Keys -> Session] /\ \A k \in Keys : Len(session'[k].channel) <= QueueCap
      <3>1. PICK v : v = (IF s.at = "off" THEN opened ELSE longer)
        OBVIOUS
      <3>2. job.key \in Keys /\ HasSpace(s) => v \in Session /\ Len(v.channel) <= QueueCap
        BY <2>3, <2>4, <3>1
      <3>3. session' = session \/ (HasSpace(s) /\ session' = [session EXCEPT ![job.key] = v])
        BY <2>2, <3>1
      <3> HIDE DEF opened, longer, s
      <3> QED BY <3>2, <3>3 DEF TypeOK
    <2>6. lost' \in BOOLEAN
      BY <1>9 DEF Hands, TypeOK
    <2>7. manager' = Resting /\ UNCHANGED <<yolo, ours, state, head, check, labels, reviews, wire, bus, attempts, extras, merges, granted>>
      BY <1>9 DEF Hands
    <2> QED BY <1>0, <2>5, <2>6, <2>7 DEF TypeOK, Manager
  <1> QED BY <1>1, <1>2, <1>3, <1>4, <1>5, <1>6, <1>7, <1>8, <1>9 DEF Manages

(* The sessions.                                                           *)
LEMMA TurnTypes ==
  ASSUME TypeOK, missed' \subseteq Conditions, NEW k \in Keys, Turn(k)
  PROVE  TypeOK'
  <1> USE DEF repoVars, forgeVars, historyVars
  <1>0. /\ session[k] \in Session /\ Len(session[k].channel) <= QueueCap
        /\ session[k].channel \in Seq(Nat)
    BY DEF TypeOK, Session
  <1>s. ASSUME NEW s \in Session, Len(s.channel) <= QueueCap,
               session' = [session EXCEPT ![k] = s]
        PROVE  session' \in [Keys -> Session] /\ \A j \in Keys : Len(session'[j].channel) <= QueueCap
    BY <1>s DEF TypeOK
  <1>1. CASE Begins(k)
    <2> DEFINE s == [session[k] EXCEPT !.at = "work", !.job = Head(session[k].channel),
                                       !.channel = Tail(session[k].channel)]
    <2>1. session' = [session EXCEPT ![k] = s]
      BY <1>0, <1>1 DEF Begins, TypeOK, Session
    <2>2. /\ Head(session[k].channel) \in Nat /\ Tail(session[k].channel) \in Seq(Nat)
          /\ Len(Tail(session[k].channel)) <= QueueCap
      <3>1. session[k].channel # <<>>
        BY <1>1 DEF Begins
      <3>2. QueueCap \in Nat
        BY ReviewAssumption
      <3> QED BY <1>0, <3>1, <3>2, Queues
    <2>3. s \in Session /\ Len(s.channel) <= QueueCap
      BY <1>0, <2>2 DEF Session
    <2> HIDE DEF s
    <2>4. session' \in [Keys -> Session] /\ \A j \in Keys : Len(session'[j].channel) <= QueueCap
      BY <1>s, <2>1, <2>3
    <2> QED BY <1>1, <2>4 DEF Begins, TypeOK
  <1>2. CASE Pushes(k)
    BY <1>2, ReviewAssumption DEF Pushes, TypeOK, Commits
  <1>3. ASSUME NEW verdict \in Opinion, Reviews(k, verdict) PROVE TypeOK'
    <2> DEFINE s == [session[k] EXCEPT !.at = verdict]
    <2>1. session' = [session EXCEPT ![k] = s]
      BY <1>0, <1>3 DEF Reviews, TypeOK, Session
    <2>2. s \in Session /\ Len(s.channel) <= QueueCap
      BY <1>0 DEF Session
    <2> HIDE DEF s
    <2>3. session' \in [Keys -> Session] /\ \A j \in Keys : Len(session'[j].channel) <= QueueCap
      BY <1>s, <2>1, <2>2
    <2>4. reviews' \in Seq([by : {"human", "djent"}, verdict : Opinion]) /\ Len(reviews') \in Nat
      BY <1>3, Appends DEF Reviews, TypeOK
    <2>5. wire' \subseteq Notes
      BY <1>3, <2>4, Payloads DEF Reviews, TypeOK, Notes
    <2>6. extras' \in 0..MaxExtras /\ lost' \in BOOLEAN
      BY <1>3, BoundTypes DEF Reviews
    <2> QED BY <1>3, <2>3, <2>4, <2>5, <2>6 DEF Reviews, TypeOK, Notes
  <1>4. CASE LabelsReview(k)
    <2> DEFINE s == [session[k] EXCEPT !.at = "work"]
    <2>1. session' = [session EXCEPT ![k] = s]
      BY <1>0, <1>4 DEF LabelsReview, TypeOK, Session
    <2>2. s \in Session /\ Len(s.channel) <= QueueCap
      BY <1>0 DEF Session
    <2> HIDE DEF s
    <2>3. session' \in [Keys -> Session] /\ \A j \in Keys : Len(session'[j].channel) <= QueueCap
      BY <1>s, <2>1, <2>2
    <2>4. labels' \subseteq {"automerge", "changes_requested", "exhausted"}
      BY <1>4 DEF LabelsReview, Relabeled, TypeOK
    <2>5. wire' \subseteq Notes
      BY <1>4, Payloads DEF LabelsReview, TypeOK, Notes
    <2>6. extras' \in 0..MaxExtras /\ lost' \in BOOLEAN
      BY <1>4, BoundTypes DEF LabelsReview
    <2> QED BY <1>4, <2>3, <2>4, <2>5, <2>6 DEF LabelsReview, TypeOK, Notes
  <1>5. CASE Ends(k)
    <2> DEFINE s == [session[k] EXCEPT !.at = "wait", !.job = 0]
    <2>1. session' = [session EXCEPT ![k] = s]
      BY <1>0, <1>5 DEF Ends, TypeOK, Session
    <2>2. s \in Session /\ Len(s.channel) <= QueueCap
      BY <1>0 DEF Session
    <2> HIDE DEF s
    <2>3. session' \in [Keys -> Session] /\ \A j \in Keys : Len(session'[j].channel) <= QueueCap
      BY <1>s, <2>1, <2>2
    <2> QED BY <1>5, <2>3 DEF Ends, TypeOK
  <1> QED BY <1>1, <1>2, <1>3, <1>4, <1>5 DEF Turn

(* Forgejo and people.                                                     *)
LEMMA OutsideTypes ==
  ASSUME TypeOK, missed' \subseteq Conditions, Outside
  PROVE  TypeOK'
  <1> USE DEF repoVars, forgeVars, historyVars, MainVars
  <1>1. ASSUME NEW v \in Verdict, Checks(v) PROVE TypeOK'
    <2>1. wire' \subseteq Notes
      <3>1. head \in Nat
        BY ReviewAssumption DEF TypeOK, Commits
      <3>2. CheckNote(head, v) \in Notes
        BY <3>1, Payloads DEF Notes
      <3> QED BY <1>1, <3>2 DEF Checks, TypeOK, Notes
    <2>2. check' \in [Commits -> {"none"} \cup Verdict]
      BY <1>1 DEF Checks, TypeOK
    <2> QED BY <1>1, <2>1, <2>2 DEF Checks, TypeOK, Notes
  <1>2. ASSUME NEW v \in Opinion, PeopleReview(v) PROVE TypeOK'
    <2>1. reviews' \in Seq([by : {"human", "djent"}, verdict : Opinion]) /\ Len(reviews') \in Nat
      BY <1>2, Appends DEF PeopleReview, TypeOK
    <2>2. wire' \subseteq Notes
      BY <1>2, <2>1, Payloads DEF PeopleReview, TypeOK, Notes
    <2> QED BY <1>2, <2>1, <2>2 DEF PeopleReview, TypeOK, Notes
  <1>3. CASE PeoplePush
    <2>1. head' \in Commits /\ extras' \in 0..MaxExtras
      BY <1>3, BoundTypes, ReviewAssumption DEF PeoplePush, TypeOK, Commits
    <2> QED BY <1>3, <2>1 DEF PeoplePush, TypeOK
  <1>4. CASE PeopleComment
    <2>1. wire' \subseteq Notes /\ extras' \in 0..MaxExtras
      BY <1>4, Payloads, BoundTypes DEF PeopleComment, TypeOK, Notes
    <2> QED BY <1>4, <2>1 DEF PeopleComment, TypeOK, Notes
  <1>5. CASE PeopleLabel
    <2>1. wire' \subseteq Notes /\ extras' \in 0..MaxExtras
      BY <1>5, Payloads, BoundTypes DEF PeopleLabel, TypeOK, Notes
    <2>2. labels' \subseteq {"automerge", "changes_requested", "exhausted"}
      BY <1>5 DEF PeopleLabel, TypeOK
    <2> QED BY <1>5, <2>1, <2>2 DEF PeopleLabel, TypeOK, Notes
  <1>6. CASE Turns
    <2>1. extras' \in 0..MaxExtras /\ lost' \in BOOLEAN
      BY <1>6, BoundTypes DEF Turns, TypeOK
    <2>2. state' \in {"open", "conflicted", "closed", "merged"}
      BY <1>6 DEF Turns
    <2> QED BY <1>6, <2>1, <2>2 DEF Turns, TypeOK
  <1>7. CASE Restarts
    <2>1. extras' \in 0..MaxExtras /\ lost' \in BOOLEAN /\ attempts' \in Nat
      BY <1>7, BoundTypes DEF Restarts, Kept, TypeOK
    <2>2. PICK back \in SUBSET {k \in Keys : session[k].at # "off"} :
            session' = [k \in Keys |->
                          IF k \in back THEN [Free EXCEPT !.role = "reviewer", !.at = "wait"] ELSE Free]
      BY <1>7 DEF Restarts
    <2>3. /\ Free \in Session /\ Len(Free.channel) = 0
          /\ [Free EXCEPT !.role = "reviewer", !.at = "wait"] \in Session
          /\ Len([Free EXCEPT !.role = "reviewer", !.at = "wait"].channel) = 0
      BY JobTypes DEF Free, Session
    <2>4. session' \in [Keys -> Session] /\ \A k \in Keys : Len(session'[k].channel) <= QueueCap
      BY <2>2, <2>3, ReviewAssumption
    <2>5. bus' = <<>> /\ Len(bus') <= BusCap /\ manager' \in Manager
      BY <1>7, JobTypes, ReviewAssumption DEF Restarts, Manager
    <2>6. bus' \in Seq(Job)
      BY <2>5
    <2> QED BY <1>7, <2>1, <2>4, <2>5, <2>6 DEF Restarts, TypeOK, Manager
  <1>8. ASSUME NEW w \in wire, Loses(w) PROVE TypeOK'
    <2>1. extras' \in 0..MaxExtras /\ lost' \in BOOLEAN
      BY <1>8, BoundTypes DEF Loses
    <2> QED BY <1>8, <2>1 DEF Loses, TypeOK
  <1> QED BY <1>1, <1>2, <1>3, <1>4, <1>5, <1>6, <1>7, <1>8 DEF Outside

LEMMA ArrivesTypes ==
  ASSUME TypeOK, missed' \subseteq Conditions, NEW w \in wire, Arrives(w)
  PROVE  TypeOK'
  <1> USE DEF repoVars, forgeVars, historyVars
  <1> DEFINE e == Event(w.p, IF w.n = head /\ IsOpen THEN PR ELSE 0)
             r == Routed(e, labels)
             job == [type |-> r.type, verdict |-> r.verdict, sender |-> r.sender,
                     n |-> IF IsCheck(w.p) THEN w.n ELSE 0,
                     key |-> IF r.key[3] = "fix" THEN "fix" ELSE "pulls"]
  <1>1. w.p \in Payload /\ w.n \in Nat
    BY DEF TypeOK
  <1>2. r.type \in EventTypes /\ r.verdict \in Verdicts /\ r.sender \in Senders
    BY <1>1, RoutedKeeps, TypeOfType DEF Payload
  <1>3. \/ UNCHANGED <<bus, lost>>
        \/ Len(bus) < BusCap /\ bus' = Append(bus, job) /\ lost' = lost
        \/ lost' = TRUE /\ UNCHANGED bus
    BY Zenon DEF Arrives
  <1> HIDE DEF r, e
  <1>4. job \in Job
    BY <1>1, <1>2 DEF Job, Keys
  <1>5. bus' \in Seq(Job) /\ Len(bus') <= BusCap /\ lost' \in BOOLEAN
    <2> HIDE DEF job
    <2>1. BusCap \in Nat /\ bus \in Seq(Job) /\ Len(bus) <= BusCap /\ lost \in BOOLEAN
      BY ReviewAssumption DEF TypeOK
    <2>2. Append(bus, job) \in Seq(Job) /\ Len(Append(bus, job)) = Len(bus) + 1 /\ Len(bus) \in Nat
      BY <1>4, <2>1, Appends
    <2>3. CASE Len(bus) < BusCap /\ bus' = Append(bus, job) /\ lost' = lost
      BY <2>1, <2>2, <2>3
    <2>4. CASE bus' = bus /\ lost' \in {TRUE, lost}
      BY <2>1, <2>4
    <2> QED BY <1>3, <2>3, <2>4
  <1>6. /\ wire' = wire \ {w}
        /\ UNCHANGED <<yolo, ours, state, head, check, labels, reviews, manager, session, attempts,
                       extras, merges, granted>>
    BY DEF Arrives
  <1> QED BY <1>5, <1>6 DEF TypeOK

LEMMA MissedNext ==
  ASSUME TypeOK, Next
  PROVE  missed' \subseteq Conditions
  BY DEF Next, Watched, Missing, TypeOK

LEMMA SessionMergesTypes ==
  ASSUME TypeOK, missed' \subseteq Conditions, NEW role \in Askers, SessionMerges(role)
  PROVE  TypeOK'
  <1>1. [by |-> role, missed |-> Missing \cap {"reviewed"}, blind |-> FALSE]
          \in [by : Askers \cup {"manager"}, missed : SUBSET Conditions, blind : BOOLEAN]
    BY DEF Missing
  <1>2. merges' \subseteq [by : Askers \cup {"manager"}, missed : SUBSET Conditions, blind : BOOLEAN]
    BY <1>1 DEF SessionMerges, TypeOK
  <1>3. state' = "merged" /\ extras' \in 0..MaxExtras
    BY ReviewAssumption DEF SessionMerges, MergePR, Extra, TypeOK
  <1> QED BY <1>2, <1>3 DEF SessionMerges, TypeOK, repoVars

LEMMA TypeNext ==
  ASSUME TypeOK, [Next]_vars
  PROVE  TypeOK'
  <1>1. CASE Next
    <2>1. missed' \subseteq Conditions
      BY <1>1, MissedNext
    <2>2. CASE Manages
      BY <2>1, <2>2, ManagesTypes
    <2>3. CASE Outside
      BY <2>1, <2>3, OutsideTypes
    <2>4. ASSUME NEW k \in Keys, Turn(k) PROVE TypeOK'
      BY <2>1, <2>4, TurnTypes
    <2>5. ASSUME NEW w \in wire, Arrives(w) PROVE TypeOK'
      BY <2>1, <2>5, ArrivesTypes
    <2>6. ASSUME NEW role \in Askers, SessionMerges(role) PROVE TypeOK'
      BY <2>1, <2>6, SessionMergesTypes
    <2> QED BY <1>1, <2>2, <2>3, <2>4, <2>5, <2>6 DEF Next
  <1>2. CASE UNCHANGED vars
    BY <1>2 DEF vars, TypeOK, repoVars, forgeVars, historyVars
  <1> QED BY <1>1, <1>2

-----------------------------------------------------------------------------
(* The gate. A condition the manager finds to hold is not among those      *)
(* missed from then on, for these can only become fewer.                   *)
LEMMA WhatIsPassed ==
  /\ Passed("label") = {}
  /\ Passed("pr") = {"automerge"}
  /\ Passed("labels") = {"automerge", "mergeable"}
  /\ Passed("checks") = {"automerge", "mergeable", "unrejected"}
  /\ Passed("topics") = {"automerge", "mergeable", "unrejected", "green"}
  /\ Passed("reviews") = {"automerge", "mergeable", "unrejected", "green"}
  /\ Passed("merge") = Conditions \ {"approved"}
  BY DEF Passed

LEMMA Read ==
  /\ Holds("automerge") <=> "automerge" \in labels
  /\ Holds("mergeable") <=> state = "open"
  /\ Holds("unrejected") <=> ~Rejected
  /\ Holds("approved") <=> Approved(yolo)
  /\ Holds("reviewed") <=> AnyApproved
  /\ Holds("green") <=> \E c \in manager.head..head : c # 0 /\ check[c] = "success"
  BY DEF Holds, Rejected

(* An approval by the reviewer is an approval.                             *)
LEMMA ApprovedIsReviewed ==
  ASSUME NEW strict \in BOOLEAN, Approved(strict)
  PROVE  AnyApproved
  BY DEF Approved, AnyApproved, LatestReviewByUser

(* A step with which no evaluation begins leaves no more missed than there *)
(* were.                                                                   *)
LEMMA WatchedShrinks ==
  ASSUME GateOK, Watched
  PROVE  /\ missed' \subseteq Missing'
         /\ Evaluating => missed' \subseteq missed
  BY DEF GateOK, Watched

LEMMA OthersKeepGate ==
  ASSUME TypeOK, GateOK, Watched, manager' = manager, head' \in {head, head + 1}
  PROVE  GateOK'
  <1>1. missed' \subseteq Missing' /\ (Evaluating => missed' \subseteq missed) /\ Evaluating' = Evaluating
    BY WatchedShrinks DEF Evaluating
  <1>2. Evaluating => manager.head \in 1..head'
    BY ReviewAssumption DEF GateOK, TypeOK, Commits
  <1>3. Passed(manager.at)' = Passed(manager.at)
    BY DEF Passed, Conditions
  <1>4. manager.at = "merge" => Evaluating
    BY DEF Evaluating
  <1> QED BY <1>1, <1>2, <1>3, <1>4 DEF GateOK

(* One step of the evaluation, from a place to the next.                   *)
LEMMA EvaluationGoesOn ==
  ASSUME TypeOK, GateOK, Watched, Evaluating, head' = head,
         \A x \in Passed(manager'.at) \ Passed(manager.at) : x \in Conditions /\ Holds(x),
         manager'.head \in {manager.head, head},
         manager'.at = "merge" => manager'.blind \/ Holds("approved")
  PROVE  GateOK'
  <1>1. missed' \subseteq Missing' /\ missed' \subseteq missed /\ missed \subseteq Missing
    BY WatchedShrinks DEF GateOK
  <1>2. \A x \in Passed(manager'.at) \ Passed(manager.at) : x \notin missed
    BY <1>1 DEF Missing
  <1>3. missed \cap Passed(manager.at) = {}
    BY DEF GateOK
  <1>4. Holds("approved") => "approved" \notin missed
    BY <1>1 DEF Missing
  <1>5. Passed(manager.at)' = Passed(manager'.at)
    BY DEF Passed, Conditions
  <1>6. manager'.head \in 1..head
    BY ReviewAssumption DEF GateOK, TypeOK, Commits
  <1> QED BY <1>1, <1>2, <1>3, <1>4, <1>5, <1>6 DEF GateOK

(* What ends an evaluation, or has none.                                   *)
LEMMA NoEvaluation ==
  ASSUME GateOK, Watched, manager'.at \notin {"label", "pr", "labels", "checks", "topics", "reviews", "merge"}
  PROVE  GateOK'
  <1>1. ~Evaluating' /\ manager'.at # "merge"
    BY DEF Evaluating
  <1>2. missed' \subseteq Missing'
    BY WatchedShrinks
  <1> QED BY <1>1, <1>2 DEF GateOK

(* The calls of the evaluation.                                            *)
LEMMA ReadsGate ==
  ASSUME TypeOK, GateOK, Watched,
         \/ ReadsLabel \/ ReadsPR \/ ReadsLabels \/ ReadsChecks \/ ReadsTopics \/ ReadsReviews
  PROVE  GateOK'
  <1>1. CASE manager' = Rest
    <2>1. Rest.at \notin {"label", "pr", "labels", "checks", "topics", "reviews", "merge"}
      BY RestType
    <2> QED BY <1>1, <2>1, NoEvaluation
  <1>2. CASE manager' # Rest
    <2>0. manager \in Manager /\ head' = head /\ Evaluating /\ manager.at \in Places
      BY DEF TypeOK, Manager, Evaluating, ReadsLabel, ReadsPR, ReadsLabels, ReadsChecks, ReadsTopics,
             ReadsReviews, Reads, forgeVars
    <2>1. CASE ReadsLabel
      <3>1. manager.at = "label" /\ "automerge" \in labels /\ manager' = [manager EXCEPT !.at = "pr"]
        BY <1>2, <2>1 DEF ReadsLabel, Reads
      <3>2. manager'.at = "pr" /\ manager'.head = manager.head
        BY <2>0, <3>1 DEF Manager
      <3>3. "automerge" \in Conditions /\ Holds("automerge")
        BY <3>1, Read DEF Conditions
      <3>4. Passed(manager'.at) \ Passed(manager.at) \subseteq {"automerge"}
        BY <3>1, <3>2, WhatIsPassed DEF Conditions
      <3> QED BY <2>0, <3>1, <3>2, <3>3, <3>4, EvaluationGoesOn
    <2>2. CASE ReadsPR
      <3>1. /\ manager.at = "pr" /\ state = "open"
            /\ manager' = [manager EXCEPT !.at = "labels", !.head = head]
        BY <1>2, <2>2 DEF ReadsPR
      <3>2. manager'.at = "labels" /\ manager'.head = head
        BY <2>0, <3>1 DEF Manager
      <3>3. "mergeable" \in Conditions /\ Holds("mergeable")
        BY <3>1, Read DEF Conditions
      <3>4. Passed(manager'.at) \ Passed(manager.at) \subseteq {"mergeable"}
        BY <3>1, <3>2, WhatIsPassed DEF Conditions
      <3> QED BY <2>0, <3>1, <3>2, <3>3, <3>4, EvaluationGoesOn
    <2>3. CASE ReadsLabels
      <3>1. manager.at = "labels" /\ ~Rejected /\ manager' = [manager EXCEPT !.at = "checks"]
        BY <1>2, <2>3 DEF ReadsLabels, Reads
      <3>2. manager'.at = "checks" /\ manager'.head = manager.head
        BY <2>0, <3>1 DEF Manager
      <3>3. "unrejected" \in Conditions /\ Holds("unrejected")
        BY <3>1, Read DEF Conditions
      <3>4. Passed(manager'.at) \ Passed(manager.at) \subseteq {"unrejected"}
        BY <3>1, <3>2, WhatIsPassed DEF Conditions
      <3> QED BY <2>0, <3>1, <3>2, <3>3, <3>4, EvaluationGoesOn
    <2>4. CASE ReadsChecks
      <3>1. /\ manager.at = "checks" /\ check[manager.head] = "success"
            /\ manager' = [manager EXCEPT !.at = "topics"]
        BY <1>2, <2>4 DEF ReadsChecks, Reads
      <3>2. manager'.at = "topics" /\ manager'.head = manager.head
        BY <2>0, <3>1 DEF Manager
      <3>3. manager.head \in 1..head /\ head \in Nat
        BY <2>0, ReviewAssumption DEF GateOK, TypeOK, Commits
      <3>4. manager.head \in manager.head..head /\ manager.head # 0
        BY <3>3
      <3>5. "green" \in Conditions /\ Holds("green")
        BY <3>1, <3>4, Read DEF Conditions
      <3>6. Passed(manager'.at) \ Passed(manager.at) \subseteq {"green"}
        BY <3>1, <3>2, WhatIsPassed DEF Conditions
      <3> QED BY <2>0, <3>1, <3>2, <3>5, <3>6, EvaluationGoesOn
    <2>5. CASE ReadsTopics
      <3>1. manager.at = "topics" /\ manager'.at = "reviews" /\ manager'.head = manager.head
        BY <2>0, <2>5 DEF ReadsTopics, Manager
      <3>2. Passed(manager'.at) \ Passed(manager.at) = {}
        BY <3>1, WhatIsPassed
      <3> QED BY <2>0, <3>1, <3>2, EvaluationGoesOn
    <2>6. CASE ReadsReviews
      <3>1. /\ manager.at = "reviews" /\ Approved(yolo /\ ~manager.blind)
            /\ manager' = [manager EXCEPT !.at = "merge"]
        BY <1>2, <2>6 DEF ReadsReviews, Reads
      <3>2. manager'.at = "merge" /\ manager'.head = manager.head /\ manager'.blind = manager.blind
        BY <2>0, <3>1 DEF Manager
      <3>3. (yolo /\ ~manager.blind) \in BOOLEAN
        OBVIOUS
      <3>4. AnyApproved
        BY <3>1, <3>3, ApprovedIsReviewed
      <3>5. "reviewed" \in Conditions /\ Holds("reviewed")
        BY <3>4, Read DEF Conditions
      <3>6. Passed(manager'.at) \ Passed(manager.at) \subseteq {"reviewed"}
        BY <3>1, <3>2, WhatIsPassed DEF Conditions
      <3>7. manager'.blind \/ Holds("approved")
        BY <3>1, <3>2, Read, <2>0 DEF Manager, TypeOK
      <3> QED BY <2>0, <3>1, <3>2, <3>5, <3>6, <3>7, EvaluationGoesOn
    <2> QED BY <2>1, <2>2, <2>3, <2>4, <2>5, <2>6
  <1> QED BY <1>1, <1>2

(* All other steps of the manager begin an evaluation, or end one, or have *)
(* nothing to do with it.                                                  *)
LEMMA ManagesGate ==
  ASSUME TypeOK, GateOK, Watched, Manages
  PROVE  GateOK'
  <1> DEFINE Outer == {"idle", "unlabel", "redirect", "cap", "count", "exhausted", "send"}
  <1>0. manager \in Manager /\ Rest.at \in Outer /\ Resting.at \in Outer
    BY RestType DEF TypeOK, Manager, Resting
  <1>1. CASE Takes
    <2>1. CASE manager'.at = "label"
      <3>1. manager'.head = head /\ head' = head /\ head \in 1..head
        BY <1>1, <2>1, ReviewAssumption DEF Takes, forgeVars, TypeOK, Commits
      <3>2. Evaluating' /\ ~Evaluating
        BY <1>1, <2>1 DEF Takes, Evaluating
      <3>3. missed' \subseteq Missing' /\ Passed(manager.at)' = {}
        BY <2>1, <3>2, WatchedShrinks DEF Passed
      <3> QED BY <2>1, <3>1, <3>3 DEF GateOK
    <2>2. CASE manager'.at # "label"
      <3>1. manager'.at = "redirect"
        BY <1>1, <2>2 DEF Takes
      <3> QED BY <3>1, NoEvaluation
    <2> QED BY <2>1, <2>2
  <1>2. CASE ReadsLabel \/ ReadsPR \/ ReadsLabels \/ ReadsChecks \/ ReadsTopics \/ ReadsReviews
    BY <1>2, ReadsGate
  <1>3. CASE Merges \/ Unlabels \/ Redirects \/ ChecksCap \/ Counts \/ GivesUp \/ Hands
    <2>1. manager'.at \in Outer
      <3>1. CASE Merges \/ Unlabels \/ Counts \/ GivesUp \/ Hands
        BY <1>0, <3>1 DEF Merges, Unlabels, Counts, GivesUp, Hands, Manager
      <3>2. CASE Redirects
        BY <1>0, <3>2 DEF Redirects, Manager
      <3>3. CASE ChecksCap
        BY <1>0, <3>3 DEF ChecksCap, Onward, Manager
      <3> QED BY <1>3, <3>1, <3>2, <3>3
    <2> QED BY <2>1, NoEvaluation
  <1> QED BY <1>1, <1>2, <1>3 DEF Manages

LEMMA GateNext ==
  ASSUME TypeOK, GateOK, [Next]_vars
  PROVE  GateOK'
  <1> USE DEF repoVars, forgeVars, historyVars, MainVars
  <1>1. CASE Next
    <2>0. Watched
      BY <1>1 DEF Next
    <2>1. CASE Manages
      BY <2>0, <2>1, ManagesGate
    <2>2. CASE Restarts
      <3>1. manager'.at = "idle"
        BY <2>2 DEF Restarts, Resting
      <3> QED BY <2>0, <3>1, NoEvaluation
    <2>3. ASSUME manager' = manager, head' \in {head, head + 1} PROVE GateOK'
      BY <2>0, <2>3, OthersKeepGate
    <2>4. CASE Outside /\ ~Restarts
      BY <2>3, <2>4 DEF Outside, Checks, PeopleReview, PeoplePush, PeopleComment, PeopleLabel,
                        Turns, Loses
    <2>5. ASSUME NEW k \in Keys, Turn(k) PROVE GateOK'
      BY <2>3, <2>5 DEF Turn, Begins, Pushes, Reviews, LabelsReview, Ends
    <2>6. ASSUME NEW w \in wire, Arrives(w) PROVE GateOK'
      BY <2>3, <2>6 DEF Arrives
    <2>7. ASSUME NEW role \in Askers, SessionMerges(role) PROVE GateOK'
      BY <2>3, <2>7 DEF SessionMerges
    <2> QED BY <1>1, <2>1, <2>2, <2>4, <2>5, <2>6, <2>7 DEF Next
  <1>2. CASE UNCHANGED vars
    <2>1. UNCHANGED <<missed, manager, head, labels, state, yolo, check, reviews>>
      BY <1>2 DEF vars
    <2>2. Missing' = Missing
      BY <2>1 DEF Missing, Holds, Approved, AnyApproved, LatestReviewByUser, Conditions
    <2>3. Evaluating' = Evaluating /\ Passed(manager.at)' = Passed(manager.at)
      BY <2>1 DEF Evaluating, Passed, Conditions
    <2> QED BY <2>1, <2>2, <2>3 DEF GateOK
  <1> QED BY <1>1, <1>2

(* The merges that were made.                                              *)
LEMMA MergesNext ==
  ASSUME TypeOK, GateOK, GateHolds, [Next]_vars
  PROVE  GateHolds'
  <1> USE DEF repoVars, forgeVars, historyVars, MainVars
  <1>0. UNCHANGED <<yolo, ours>> => \A m : Gated(m)' = Gated(m)
    BY DEF Gated
  <1>1. CASE Merges
    <2>0. UNCHANGED <<yolo, ours>>
      BY <1>1 DEF Merges
    <2>1. PICK m : m = [by |-> "manager", missed |-> missed, blind |-> manager.blind]
      OBVIOUS
    <2>2. merges' \subseteq merges \cup {m} /\ manager.at = "merge"
      BY <1>1, <2>1 DEF Merges
    <2>3. missed \subseteq Conditions /\ missed \cap (Conditions \ {"approved"}) = {}
      BY <2>2, WhatIsPassed DEF GateOK, Evaluating, TypeOK
    <2>4. missed = {} \/ (manager.blind /\ missed = {"approved"})
      BY <2>2, <2>3 DEF GateOK
    <2>5. Gated(m)
      BY <2>1, <2>4 DEF Gated
    <2> QED BY <1>0, <2>0, <2>2, <2>5 DEF GateHolds
  <1>2. CASE UNCHANGED <<merges, yolo, ours>>
    BY <1>0, <1>2 DEF GateHolds
  <1>5. ASSUME NEW role \in Askers, SessionMerges(role) PROVE GateHolds'
    <2>0. UNCHANGED <<yolo, ours>> /\ Permitted(role)
      BY <1>5 DEF SessionMerges
    <2>1. PICK m : m = [by |-> role, missed |-> Missing \cap {"reviewed"}, blind |-> FALSE]
      OBVIOUS
    <2>2. merges' = merges \cup {m}
      BY <1>5, <2>1 DEF SessionMerges
    <2>3. CASE role = "reviewer"
      <3>1. Gated(m)
        BY <2>0, <2>1, <2>3 DEF Gated, Permitted
      <3> QED BY <1>0, <2>0, <2>2, <3>1 DEF GateHolds
    <2>4. CASE role = "implementer"
      <3>1. ours \/ Missing \cap {"reviewed"} = {}
        BY <2>0, <2>4, Read DEF Permitted, Missing
      <3>2. Gated(m)
        BY <2>1, <2>4, <3>1 DEF Gated
      <3> QED BY <1>0, <2>0, <2>2, <3>2 DEF GateHolds
    <2> QED BY <2>3, <2>4 DEF Askers
  <1>3. ASSUME Next, ~Merges, \A role \in Askers : ~SessionMerges(role) PROVE UNCHANGED <<merges, yolo, ours>>
    <2>1. CASE Manages
      BY <1>3, <2>1 DEF Manages, Takes, ReadsLabel, ReadsPR, ReadsLabels, ReadsChecks, ReadsTopics,
             ReadsReviews, Reads, Unlabels, Redirects, ChecksCap, Counts, GivesUp, Hands
    <2>2. CASE Outside
      BY <2>2 DEF Outside, Checks, PeopleReview, PeoplePush, PeopleComment, PeopleLabel, Turns,
                  Restarts, Loses
    <2>3. ASSUME NEW k \in Keys, Turn(k) PROVE UNCHANGED <<merges, yolo, ours>>
      BY <2>3 DEF Turn, Begins, Pushes, Reviews, LabelsReview, Ends
    <2>4. ASSUME NEW w \in wire, Arrives(w) PROVE UNCHANGED <<merges, yolo, ours>>
      BY <2>4 DEF Arrives
    <2> QED BY <1>3, <2>1, <2>2, <2>3, <2>4 DEF Next
  <1>4. UNCHANGED vars => UNCHANGED <<merges, yolo, ours>>
    BY DEF vars
  <1> QED BY <1>1, <1>2, <1>3, <1>4, <1>5

(* Rework.                                                                 *)
LEMMA ReworkNext ==
  ASSUME TypeOK, ReworkOK, [Next]_vars
  PROVE  ReworkOK'
  <1> USE DEF repoVars, forgeVars, historyVars, MainVars
  <1>0. attempts \in Nat /\ granted \in Nat /\ MaxReworkAttempts \in Nat
    BY ReviewAssumption DEF TypeOK
  <1>1. CASE Counts
    BY <1>0, <1>1 DEF Counts, Within, ReworkOK, ReworkCapped
  <1>2. CASE UNCHANGED <<attempts, granted>>
    BY <1>2 DEF ReworkOK, ReworkCapped
  <1>3. ASSUME Next, ~Counts PROVE UNCHANGED <<attempts, granted>>
    <2>1. CASE Manages
      BY <1>3, <2>1 DEF Manages, Takes, ReadsLabel, ReadsPR, ReadsLabels, ReadsChecks, ReadsTopics,
             ReadsReviews, Reads, Merges, Unlabels, Redirects, ChecksCap, GivesUp, Hands
    <2>2. CASE Outside
      BY <2>2 DEF Outside, Checks, PeopleReview, PeoplePush, PeopleComment, PeopleLabel, Turns,
                  Restarts, Kept, Loses
    <2>3. ASSUME NEW k \in Keys, Turn(k) PROVE UNCHANGED <<attempts, granted>>
      BY <2>3 DEF Turn, Begins, Pushes, Reviews, LabelsReview, Ends
    <2>4. ASSUME NEW w \in wire, Arrives(w) PROVE UNCHANGED <<attempts, granted>>
      BY <2>4 DEF Arrives
    <2>5. ASSUME NEW role \in Askers, SessionMerges(role) PROVE UNCHANGED <<attempts, granted>>
      BY <2>5 DEF SessionMerges
    <2> QED BY <1>3, <2>1, <2>2, <2>3, <2>4, <2>5 DEF Next
  <1>4. UNCHANGED vars => UNCHANGED <<attempts, granted>>
    BY DEF vars
  <1> QED BY <1>1, <1>2, <1>3, <1>4

-----------------------------------------------------------------------------
LEMMA Starts == Init => IInv
  <1> SUFFICES ASSUME Init PROVE IInv
    OBVIOUS
  <1>1. TypeOK
    BY TypeInit
  <1>2. GateOK
    BY DEF Init, GateOK, Evaluating, Resting
  <1>3. GateHolds /\ ReworkOK
    BY ReviewAssumption DEF Init, GateHolds, ReworkOK, ReworkCapped
  <1> QED BY <1>1, <1>2, <1>3 DEF IInv

LEMMA Keeps == IInv /\ [Next]_vars => IInv'
  BY TypeNext, GateNext, MergesNext, ReworkNext DEF IInv

(* The inductive invariant: types, what the evaluation has behind it, the  *)
(* merges made, and the rework granted against the attempts counted.       *)
THEOREM Invariance == Spec => []IInv
  BY Starts, Keeps, PTL DEF Spec

(* Every variable keeps its type, and neither the bus nor a session's      *)
(* channel holds more than it has room for.                                *)
THEOREM TypeCorrect == Spec => []TypeOK
  <1>1. IInv => TypeOK
    BY DEF IInv
  <1> QED BY <1>1, Invariance, PTL

(* The manager merges nothing without each condition having held since the *)
(* evaluation began (manager.go, evaluateAutomerge): the six calls are not *)
(* atomic, but the list of what is missed can only shrink, and each call   *)
(* takes one off it. Sessions that merge (forgejo_merge_pr) are held by no *)
(* more than their policy and the tool's own wish for an approval.         *)
THEOREM MergesAreGated == Spec => []GateHolds
  <1>1. IInv => GateHolds
    BY DEF IInv
  <1> QED BY <1>1, Invariance, PTL

(* Rework is granted at most max_rework_attempts times (manager.go,        *)
(* exhaustedRework): every grant is paid for by an attempt that was        *)
(* counted first, and the count outlives restarts.                         *)
THEOREM ReworkIsCapped == Spec => []ReworkCapped
  <1>1. IInv => ReworkCapped
    BY DEF IInv, ReworkOK
  <1> QED BY <1>1, Invariance, PTL

=============================================================================
