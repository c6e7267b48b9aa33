---------------------------- MODULE EventRouting ----------------------------
(***************************************************************************)
(* What the webhook router (internal/webhook/router.go) makes of a         *)
(* payload: the type of the event (normalizeEvent), whether it comes from  *)
(* the agent itself (isAgentEvent), and the role and the session key the   *)
(* routing table gives it (RouteTable.Route).                              *)
(*                                                                         *)
(* Of a payload only what these decisions read is kept.                    *)
(***************************************************************************)
EXTENDS Naturals, FiniteSetsExt

Kinds == {"issues", "issue_comment", "pull_request", "pull_request_review_comment",
          "pull_request_review", "push", "check_run", "workflow_run", "other"}
Actions == {"opened", "created", "closed", "completed", "submitted", "label_updated"}
Senders == {"human", "djent", "bot"}    \* a role's account, fordjent-bot
Bodies == {"none", "plain", "actionable", "marker", "ping"}
Verdicts == {"none", "approved", "changes_requested", "commented", "dismissed",
             "success", "failure"}

(* "number" and "onPR" are what the payload says at its top level,         *)
(* "checked" the pull request it names as checked (0: found by the commit  *)
(* or not at all), "body" that of a comment or a review, "made" whether    *)
(* the issue's or pull request's own text has the agent's marker.          *)
Payload == [kind : Kinds, action : Actions, number : Nat, onPR : BOOLEAN, checked : Nat,
            merged : BOOLEAN, sender : Senders, body : Bodies, made : BOOLEAN,
            verdict : Verdicts]

(* Types are pairs, as the code joins a prefix and an action.              *)
NoType == <<"none", "none">>
IssueOpened == <<"issues", "opened">>
IssueClosed == <<"issues", "closed">>
CommentCreated == <<"issue_comment", "created">>
PROpened == <<"pull_request", "opened">>
PRMerged == <<"pull_request", "merged">>
PRLabelUpdated == <<"pull_request", "label_updated">>
ReviewComment == <<"pull_request_review_comment", "created">>
Review == <<"pull_request_review", "created">>
ReviewRequested == <<"review", "requested">>
Push == <<"push", "">>
CheckCompleted == <<"check_run", "completed">>
WorkflowCompleted == <<"workflow_run", "completed">>

Joined == {"issues", "issue_comment", "pull_request", "pull_request_review_comment"}
EventTypes == (Joined \X Actions) \cup
  {NoType, PRMerged, Review, Push, CheckCompleted, WorkflowCompleted}
IsCheck(p) == p.kind \in {"check_run", "workflow_run"}
IsMerge(p) == p.kind = "pull_request" /\ p.action = "closed" /\ p.merged

TypeOf(p) ==
  CASE IsMerge(p) -> PRMerged
    [] p.kind \in Joined /\ ~IsMerge(p) -> <<p.kind, p.action>>
    [] p.kind = "pull_request_review" -> Review
    [] p.kind = "push" -> Push
    [] IsCheck(p) /\ p.action = "completed" -> <<p.kind, "completed">>
    [] OTHER -> NoType

(* The pull request a payload is about; "bySHA" is what the search for the *)
(* commit among the open pull requests returned.                           *)
PROf(p, bySHA) ==
  CASE p.onPR -> p.number
    [] ~p.onPR /\ IsCheck(p) -> IF p.checked # 0 THEN p.checked ELSE bySHA
    [] OTHER -> 0

(* Session keys: <<"issues", n, "">>, <<"pulls", n, "">>, and one made up  *)
(* for what is about neither.                                              *)
DefaultKey(issue, pr) ==
  IF pr > 0 THEN <<"pulls", pr, "">>
  ELSE IF issue > 0 THEN <<"issues", issue, "">> ELSE <<"push", 0, "">>

Event(p, bySHA) ==
  [type |-> TypeOf(p), issue |-> p.number, pr |-> PROf(p, bySHA), sender |-> p.sender,
   body |-> p.body, verdict |-> p.verdict, role |-> "none",
   key |-> DefaultKey(p.number, PROf(p, bySHA))]

(* A review's text is copied to where a comment's is before the filter     *)
(* runs, so that a review counts as a comment here.                        *)
HasComment(p) ==
  \/ p.kind \in {"issue_comment", "pull_request_review_comment"}
  \/ p.kind = "pull_request_review" /\ p.body # "none"

IsAgentEvent(p) ==
  /\ p.kind # "push" /\ ~IsMerge(p)
  /\ ~(HasComment(p) /\ p.body = "ping")
  /\ \/ HasComment(p) /\ p.body = "marker"
     \/ HasComment(p) /\ p.sender = "bot"
     \/ /\ p.kind \in {"pull_request", "pull_request_review", "pull_request_review_comment"}
        /\ p.action # "opened" /\ p.made
     \/ p.kind = "issues" /\ p.made

-----------------------------------------------------------------------------
(* The routing table. Labels are those of the pull request; "failure" is   *)
(* any of the conclusions failure, cancelled, action_required, timed_out. *)
IsSpecApproved(labels) == "spec-approved" \in labels
IsSpec(labels) == labels \cap {"spec-proposed", "spec-approved"} # {}
IsFailure(verdict) == verdict = "failure"

Matches(rule, e, labels) ==
  LET about(t) == e.type = t /\ e.pr > 0 IN
  CASE rule = 1 -> about(CommentCreated) /\ IsSpec(labels)
    [] rule = 2 -> about(ReviewComment) /\ IsSpec(labels)
    [] rule = 3 -> about(ReviewComment)
                   /\ ("changes_requested" \in labels \/ e.body = "actionable")
    [] rule = 4 -> about(Review) /\ IsSpec(labels)
    [] rule = 5 -> about(Review)
                   /\ \/ e.verdict = "changes_requested"
                      \/ e.verdict = "none" /\ "changes_requested" \in labels
    [] rule = 6 -> about(ReviewRequested)
    [] rule = 7 -> /\ about(CheckCompleted) \/ about(WorkflowCompleted)
                   /\ ~IsSpec(labels) /\ labels \cap {"ralph", "merging"} = {}
                   /\ IsFailure(e.verdict)
    [] rule = 8 -> about(CommentCreated) /\ e.sender = "human"
    [] rule = 9 -> about(ReviewComment)
    [] rule = 10 -> about(PRMerged)
    [] rule = 11 -> e.type = IssueClosed /\ e.issue > 0

Rules == 1..11
RoleOf(rule) ==
  CASE rule \in {1, 2, 4} -> "pm"
    [] rule \in {3, 5, 7} -> "implementer"
    [] rule \in {6, 8, 9} -> "reviewer"
    [] rule \in {10, 11} -> "scheduler"

KeyOf(rule, e) ==
  IF rule = 11 THEN <<"issues", e.issue, "">>
  ELSE <<"pulls", e.pr, IF RoleOf(rule) = "implementer" THEN "fix" ELSE "">>

(* ApplyRoute: the first rule that matches sets role and key; an event no  *)
(* rule matches keeps its own.                                             *)
Routed(e, labels) ==
  LET hits == {r \in Rules : Matches(r, e, labels)} IN
  IF hits = {} THEN e
  ELSE [e EXCEPT !.role = RoleOf(Min(hits)), !.key = KeyOf(Min(hits), e)]
=============================================================================
