------------------------------ MODULE MergeQueue ------------------------------
(***************************************************************************)
(* The merge queue: the gate in front of forgejo_create_pr                 *)
(* (internal/mergequeue/queue.go, internal/tool/forgejo_tools.go), what a  *)
(* blocked implementer leaves behind (internal/lifecycle/lifecycle.go) and *)
(* the requeue after a merge (handleEvent, internal/session/manager.go).   *)
(*                                                                         *)
(* One branch stands for its issue, its implementer session and its pull   *)
(* request. Which branches touch the same files is fixed by the data and   *)
(* given as a relation; a session's turns before forgejo_create_pr are one *)
(* state, "working". Errors of the calls that write the row and the label  *)
(* are discarded by the code, so each of these calls may fail.             *)
(***************************************************************************)
EXTENDS Naturals, FiniteSets

CONSTANTS
  Branches,    (* the implementers' branches                                 *)
  Overlap,     (* pairs of branches that touch a common file                 *)
  Faults,      (* calls of CheckGate that may fail: "diff", "list", "files"; *)
               (* an open pull request off the listing's page is unread too  *)
  Requeuers,   (* requeue goroutines; bounds how many run at a time          *)
  MaxRetries   (* 2 in the code                                              *)

ASSUME MergeQueueAssumption ==
  /\ Overlap \subseteq Branches \X Branches
  /\ \A b, c \in Branches : <<b, c>> \in Overlap => b # c /\ <<c, b>> \in Overlap
  /\ Faults \subseteq {"diff", "list", "files"}
  /\ IsFiniteSet(Requeuers)
  /\ MaxRetries \in Nat

VARIABLES
  open,     (* branches with an open pull request                            *)
  agent,    (* where the session of each branch is                           *)
  label,    (* branches whose issue carries the label blocked                *)
  row,      (* blocked_branches: status of each branch                       *)
  retries,  (* blocked_branches: retry_count                                 *)
  todo, target, (* per requeuer: the rows it listed and has not looked at,
                    the row it has just dispatched                           *)
  blind,    (* history: pairs of branches whose gates could not see one      *)
            (* another when they passed last: both were past CheckGate at    *)
            (* once, or the pull request of one was not read for the other   *)
  apart,    (* history: branches listed as blocked without the label because *)
            (* a call failed or another hand took it off                     *)
  sent      (* history: who dispatched each branch, at which retry count,    *)
            (* unless resolving the row failed                               *)

rowVars   == <<row, retries>>
queueVars == <<todo, target>>
history   == <<blind, apart, sent>>
mergeQueueVars == <<open, agent, label, rowVars, queueVars, history>>

OpenConflicts(b) == {c \in open \ {b} : <<b, c>> \in Overlap}

(* CheckGate: the pull requests whose files it fails to read, or that are  *)
(* not on the page it asks for, are passed over; a failure of its first    *)
(* two calls blocks.                                                       *)
Unread(b) == IF "files" \in Faults THEN SUBSET OpenConflicts(b) ELSE {{}}
GateUnavailable == Faults \cap {"diff", "list"} # {}
MayBlock(b) == GateUnavailable \/ OpenConflicts(b) # {}
MayClearUnseen(b, unread) == TRUE
MayClear(b, unread) == OpenConflicts(b) \subseteq unread

PairsWithout(b) == {p \in blind : b \notin p}

QueueInit ==
  /\ open = {}
  /\ agent = [b \in Branches |-> "idle"]
  /\ label = {}
  /\ row = [b \in Branches |-> "none"]
  /\ retries = [b \in Branches |-> 0]
  /\ todo = [q \in Requeuers |-> {}]
  /\ target = [q \in Requeuers |-> {}]
  /\ blind = {}
  /\ apart = {}
  /\ sent = [b \in Branches |-> {}]
-----------------------------------------------------------------------------
(* The implementer. It takes the events of people and of the requeue; as   *)
(* people may write at any time, it needs none of the requeue to start.    *)

Take(b) ==
  /\ agent[b] = "idle"
  /\ agent' = [agent EXCEPT ![b] = "working"]
  /\ UNCHANGED <<open, label, rowVars, queueVars, history>>

(* ProcessEvent returns nil: no forgejo_create_pr in the turn, or the call *)
(* has returned, with or without an error. OnSessionComplete. A branch     *)
(* that is then not open overlaps none.                                    *)
TurnEnds(b) ==
  /\ agent' = [agent EXCEPT ![b] = "idle"]
  /\ blind' = IF b \in open' THEN blind ELSE PairsWithout(b)
  /\ UNCHANGED <<label, rowVars, queueVars, apart, sent>>

EndWithoutPR(b) ==
  /\ agent[b] = "working"
  /\ open' = open
  /\ TurnEnds(b)

(* The stale gate: the branch is behind main and cannot be rebased and     *)
(* pushed. forgejo_create_pr returns a text for it, and no error.          *)
StaleBranch(b) ==
  /\ agent[b] = "working"
  /\ open' = open
  /\ TurnEnds(b)

(* The label blocked is added, or the call fails and nobody hears of it.   *)
Parts(b) == apart' = IF row[b] = "blocked" /\ b \notin label' THEN apart \cup {b} ELSE apart

AddsBlocked(b) ==
  \/ label' = label \cup {b} /\ apart' = apart \ {b}
  \/ label' = label /\ Parts(b)

(* ErrBlocked ends the turn with a comment and the label.                  *)
GateBlocks(b) ==
  /\ agent[b] = "working"
  /\ MayBlock(b)
  /\ agent' = [agent EXCEPT ![b] = "blocked"]
  /\ AddsBlocked(b)
  /\ UNCHANGED <<open, rowVars, queueVars, blind, sent>>

BlockedRowAfresh(b) ==
  /\ row' = [row EXCEPT ![b] = "blocked"]
  /\ retries' = [retries EXCEPT ![b] = 0]

(* OnSessionBlocked: the row is inserted, or updated with one retry more,  *)
(* unless git rev-parse gave no branch name or the statement fails; then   *)
(* the label is added once more.                                           *)
BlockedRow(b) ==
  /\ row' = [row EXCEPT ![b] = "blocked"]
  /\ retries' = IF row[b] = "none" \/ retries[b] = MaxRetries
                THEN retries ELSE [retries EXCEPT ![b] = @ + 1]

RecordBlocked(b) ==
  /\ agent[b] = "blocked"
  /\ agent' = [agent EXCEPT ![b] = "recorded"]
  /\ \/ BlockedRow(b)
     \/ UNCHANGED rowVars
  /\ UNCHANGED <<open, label, queueVars, history>>

LabelBlocked(b) ==
  /\ agent[b] = "recorded"
  /\ agent' = [agent EXCEPT ![b] = "idle"]
  /\ AddsBlocked(b)
  /\ UNCHANGED <<open, rowVars, queueVars, blind, sent>>

(* The label goes by another hand: the scheduler frees the issue, main is  *)
(* pushed to, an auto-retry begins, a person takes it off.                 *)
OthersUnblock(b) ==
  /\ b \in label
  /\ label' = label \ {b}
  /\ Parts(b)
  /\ UNCHANGED <<open, agent, rowVars, queueVars, blind, sent>>

PastGate(b) == {c \in Branches \ {b} : agent[c] = "gated"}

GateClears(b) ==
  /\ agent[b] = "working"
  /\ agent' = [agent EXCEPT ![b] = "gated"]
  /\ \E unread \in Unread(b) :
       /\ MayClear(b, unread)
       /\ blind' = PairsWithout(b) \cup {{b, c} : c \in PastGate(b) \cup unread}
  /\ UNCHANGED <<open, label, rowVars, queueVars, apart, sent>>

(* Build and tests fail, or the POST does. The error goes to the messages  *)
(* of a turn loop that then returns because forgejo_create_pr was called.  *)
CreateFails(b) ==
  /\ agent[b] = "gated"
  /\ open' = open
  /\ TurnEnds(b)

OpenPR(b) ==
  /\ agent[b] = "gated"
  /\ b \notin open
  /\ open' = open \cup {b}
  /\ TurnEnds(b)

(* Merged, or closed by a person. *)
LeavePR(b) ==
  /\ b \in open
  /\ open' = open \ {b}
  /\ blind' = IF agent[b] = "gated" THEN blind ELSE PairsWithout(b)
  /\ UNCHANGED <<agent, label, rowVars, queueVars, apart, sent>>
-----------------------------------------------------------------------------
(* A merge starts a requeuer, which five seconds later lists the blocked   *)
(* branches. Pull requests of people merge as well, at any time, so there  *)
(* is no guard to this.                                                    *)

List(q) ==
  /\ todo[q] = {} /\ target[q] = {}
  /\ todo' = [todo EXCEPT ![q] = {<<b, retries[b]>> : b \in {c \in Branches : row[c] = "blocked"}}]
  /\ UNCHANGED <<open, agent, label, rowVars, target, history>>

ListedRow(q, b, n) == target[q] = {} /\ <<b, n>> \in todo[q]
Done(q, b, n) == todo' = [todo EXCEPT ![q] = @ \ {<<b, n>>}]

(* The row is resolved, or the statement fails (the context of the requeue *)
(* has run out): the row stays as it is, its retry count too.              *)
GiveUp(q, b, n) ==
  /\ ListedRow(q, b, n)
  /\ n >= MaxRetries
  /\ \/ row' = [row EXCEPT ![b] = "resolved"] /\ apart' = apart \ {b}
     \/ UNCHANGED <<row, apart>>
  /\ Done(q, b, n)
  /\ UNCHANGED <<open, agent, label, retries, target, blind, sent>>

(* CheckGate reports blocked, the requeue takes it for cleared: it removes *)
(* the label, unless that call fails, and hands an event to handleEvent.   *)
MayDispatch(n) == n < MaxRetries

Dispatch(q, b, n) ==
  /\ ListedRow(q, b, n)
  /\ MayDispatch(n)
  /\ MayBlock(b)
  /\ label' \in {label, label \ {b}}
  /\ target' = [target EXCEPT ![q] = {<<b, n>>}]
  /\ sent' = [sent EXCEPT ![b] = @ \cup {<<q, n>>}]
  /\ Done(q, b, n)
  /\ UNCHANGED <<open, agent, rowVars, blind, apart>>

(* "merge gate still blocked for branch": nothing else happens. *)
Skip(q, b, n) ==
  /\ ListedRow(q, b, n)
  /\ n < MaxRetries
  /\ \E unread \in Unread(b) : MayClear(b, unread)
  /\ Done(q, b, n)
  /\ UNCHANGED <<open, agent, label, rowVars, target, history>>

ResolveForgotten(q, b, n) ==
  /\ target[q] = {<<b, n>>}
  /\ target' = [target EXCEPT ![q] = {}]
  /\ UNCHANGED <<open, agent, label, rowVars, todo, history>>

Resolve(q, b, n) ==
  /\ target[q] = {<<b, n>>}
  /\ target' = [target EXCEPT ![q] = {}]
  /\ label' = label
  /\ \/ /\ row' = [row EXCEPT ![b] = "resolved"]
        /\ apart' = apart \ {b}
        /\ sent' = sent
     \/ /\ row' = row
        /\ Parts(b)
        /\ sent' = [sent EXCEPT ![b] = @ \ {<<q, n>>}]
  /\ UNCHANGED <<open, agent, retries, todo, blind>>
-----------------------------------------------------------------------------
Implementer(b) ==
  \/ Take(b) \/ EndWithoutPR(b) \/ StaleBranch(b)
  \/ GateBlocks(b) \/ RecordBlocked(b) \/ LabelBlocked(b) \/ GateClears(b)
  \/ CreateFails(b) \/ OpenPR(b)

Requeue(q) ==
  \/ List(q)
  \/ \E b \in Branches, n \in 0..MaxRetries :
       GiveUp(q, b, n) \/ Dispatch(q, b, n) \/ Skip(q, b, n) \/ Resolve(q, b, n)

QueueNext ==
  \/ \E b \in Branches : Implementer(b) \/ LeavePR(b) \/ OthersUnblock(b)
  \/ \E q \in Requeuers : Requeue(q)

QueueSpec == QueueInit /\ [][QueueNext]_mergeQueueVars
-----------------------------------------------------------------------------
(* Types. The retry count never goes back and stops mattering at           *)
(* MaxRetries, where the model stops counting.                             *)
QueueTypeOK ==
  /\ open \subseteq Branches
  /\ agent \in [Branches -> {"idle", "working", "gated", "blocked", "recorded"}]
  /\ label \subseteq Branches
  /\ row \in [Branches -> {"none", "blocked", "resolved"}]
  /\ retries \in [Branches -> 0..MaxRetries]
  /\ todo \in [Requeuers -> SUBSET (Branches \X (0..MaxRetries))]
  /\ target \in [Requeuers -> SUBSET (Branches \X (0..MaxRetries))]
  /\ blind \subseteq SUBSET Branches
  /\ apart \subseteq Branches
  /\ sent \in [Branches -> SUBSET (Requeuers \X (0..MaxRetries))]

(* Two pull requests that touch the same file are open together only when  *)
(* their implementers were past the gate at once, between CheckGate and    *)
(* the POST of forgejo_create_pr, while build and tests ran, or when       *)
(* CheckGate of the later one did not read the pull request of the other.  *)
OverlapOnlyByRace ==
  \A b, c \in open : <<b, c>> \in Overlap => {b, c} \in blind

(* The row and the label tell the same: a branch is listed as blocked      *)
(* without the label only between the two calls of OnSessionBlocked or the *)
(* two of the requeue, or when one of these calls has failed since the     *)
(* label was last put on, or somebody else has taken it off.               *)
Dispatched(b) == \E q \in Requeuers, n \in 0..MaxRetries : target[q] = {<<b, n>>}

ListedIsLabelled ==
  \A b \in Branches : row[b] = "blocked" =>
    b \in label \/ agent[b] = "recorded" \/ Dispatched(b) \/ b \in apart

(* The retry count bounds the requeue although it is read from a list made *)
(* before and the row is resolved after the dispatch: a requeuer takes a   *)
(* branch again at the same count only when resolving its row failed, so   *)
(* that a branch is dispatched at most MaxRetries times by each requeuer,  *)
(* and once more for each resolve that failed.                             *)
RetryUsedOnce ==
  [][\A q \in Requeuers, b \in Branches, n \in 0..MaxRetries :
       target[q] = {} /\ target'[q] = {<<b, n>>}
         => n < MaxRetries /\ <<q, n>> \notin sent[b]]_target
-----------------------------------------------------------------------------
(* The inductive strengthening: of two sessions past the gate, and of one  *)
(* past the gate and an overlapping open pull request, the last to pass    *)
(* did not see the other.                                                  *)
GatedOK ==
  \A b, c \in Branches :
    b # c /\ agent[b] = "gated" /\ (agent[c] = "gated" \/ (c \in open /\ <<b, c>> \in Overlap))
      => {b, c} \in blind

(* A retry count that was used is not listed any more: the row has counted *)
(* on, or it is resolved or about to be.                                   *)
UsedOK ==
  \A q \in Requeuers, b \in Branches, n \in 0..MaxRetries : <<q, n>> \in sent[b] =>
    /\ n < MaxRetries
    /\ <<b, n>> \notin todo[q]
    /\ row[b] # "none"
    /\ n < retries[b] \/ (n = retries[b] /\ (row[b] = "resolved" \/ target[q] = {<<b, n>>}))

(* What is listed has been in the row. *)
ListsOK ==
  /\ \A b \in Branches : row[b] = "none" => retries[b] = 0
  /\ \A q \in Requeuers, b \in Branches, n \in 0..MaxRetries :
       <<b, n>> \in todo[q] => n <= retries[b] /\ row[b] # "none"
  /\ \A q \in Requeuers, b \in Branches, n \in 0..MaxRetries :
       <<b, n>> \in target[q] => target[q] = {<<b, n>>} /\ row[b] # "none"

QueueInv == QueueTypeOK /\ OverlapOnlyByRace /\ GatedOK /\ ListedIsLabelled /\ UsedOK /\ ListsOK
=============================================================================
