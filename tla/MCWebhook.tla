----------------------------- MODULE MCWebhook -----------------------------
(* Instances of Webhook. 7 is a pull request. Nothing orders requests or *)
(* deliveries, so that they are interchangeable.                           *)
EXTENDS Webhook

Symmetry == Permutations(Requests) \cup Permutations(Deliveries)

Base == [kind |-> "issue_comment", action |-> "created", number |-> 7, onPR |-> FALSE,
         checked |-> 0, merged |-> FALSE, sender |-> "human", body |-> "plain",
         made |-> FALSE, verdict |-> "none"]

MCPayloads == {
  Base,
  [Base EXCEPT !.body = "marker", !.sender = "djent"],
  [Base EXCEPT !.kind = "pull_request_review", !.action = "submitted", !.onPR = TRUE,
               !.body = "actionable", !.verdict = "changes_requested"],
  [Base EXCEPT !.kind = "pull_request_review_comment", !.onPR = TRUE, !.body = "actionable"],
  [Base EXCEPT !.kind = "check_run", !.action = "completed", !.number = 0, !.checked = 0,
               !.body = "none", !.verdict = "failure"],
  [Base EXCEPT !.kind = "other"]}

MCLabelings == {{}, {"spec-proposed"}}
=============================================================================
