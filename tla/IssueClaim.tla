------------------------------ MODULE IssueClaim ------------------------------
(***************************************************************************)
(* One implementer issue: its labels on the forge, and everybody who       *)
(* changes them. A session claims the issue when it starts and gives it    *)
(* back when it ends (runSession, revertClaim), a failed turn labels it    *)
(* (internal/lifecycle/lifecycle.go), runAutoRetry tries it again or gives *)
(* it up, the scanner (internal/scanner/scanner.go) starts a session for a *)
(* ready issue nobody works on, and people and the scheduler label it.     *)
(*                                                                         *)
(* Each call of the forge's API is a step. The life of a session object is *)
(* that of SessionManager, reduced to what the labels depend on. The issue *)
(* stays open; issues meet in the limit of sessions, which may refuse a    *)
(* session here, and in the listings of open issues, of which scanner and  *)
(* scheduler read the first page only, pull requests included.             *)
(***************************************************************************)
EXTENDS Naturals, Sequences, FiniteSets

CONSTANTS
  Sessions,     (* session objects of the issue's key, several in turn        *)
  MaxRetries,   (* agent.max_session_retries                                  *)
  PersonLabels, (* labels people put on the issue                             *)
  MaxEvents     (* bound: see events                                          *)

Ready == "ready"
InProgress == "in_progress"
Blocked == "blocked"
FailedTurns == "failed:max-turns"
Failed == "failed" (* failed:error and failed:max-retries, told apart nowhere *)
FailedLabels == {FailedTurns, Failed}
Labels == {Ready, InProgress, Blocked} \cup FailedLabels

ASSUME IssueClaimAssumption ==
  /\ PersonLabels \subseteq Labels \ {InProgress}
  /\ MaxRetries \in Nat \ {0}
  /\ MaxEvents \in Nat

VARIABLES
  labels,       (* the labels of the issue                                    *)
  onPage,       (* whether the first page of open issues has it               *)
  events,       (* how much has happened: comments and labels from outside,
                   other issues opened or closed, evictions, deadlines,
                   failed turns, failed calls of the forge's API or the
                   database, crashes                                          *)
  bus,          (* kinds of events on their way to handleEvent, each at most
                   once: a person's label, one that needs a session, one of
                   runAutoRetry                                               *)
  holder,       (* the session m.sessions has for the issue: {} or {s}        *)
  row,          (* whether sessions.db has a row for it                       *)
  run,          (* per session: the state of runSession                       *)
  failures,     (* transitions to failed_max_turns in the lifecycle table     *)
  retrier,      (* where runAutoRetry is ...                                  *)
  retrierCalls, (* ... and the label calls it still has to make               *)
  schedulerCalls, (* the label calls of the scheduler still to be made         *)
  gaveUp,       (* history: runAutoRetry has found the retries used up        *)
  miscounted,   (* history: the attempt it is at goes by a failed count       *)
  relabelled,   (* history: ready was put on the issue while it was claimed   *)
  fault,        (* history: a call about the claim failed, or a crash         *)
  lost          (* history: another label call failed, or an event of
                   runAutoRetry was dropped                                   *)

manager == <<bus, holder, row>>
retry   == <<retrier, retrierCalls, gaveUp, miscounted>>
ghosts  == <<relabelled, fault, lost>>
vars == <<labels, onPage, events, manager, run, failures, retry, schedulerCalls, ghosts>>

Kinds == {"label", "other", "retry"}

(* events is a budget for what happens from outside and what goes wrong.   *)
Happens == events < MaxEvents /\ events' = events + 1
-----------------------------------------------------------------------------
(* Calls that add and remove labels.                                       *)

Add(L) == [add |-> L, remove |-> {}]
Remove(l) == [add |-> {}, remove |-> {l}]
Apply(call) == (labels \ call.remove) \cup call.add
Calls == [add : SUBSET (Labels \ {Ready, InProgress}), remove : SUBSET Labels]
UnblockCalls == [add : SUBSET {Ready}, remove : SUBSET (Labels \ {InProgress})]

(* StateFromLabels (internal/lifecycle/fsm.go) *)
Priority == [l \in {Blocked, InProgress, Ready} |->
               CASE l = Blocked -> 80 [] l = InProgress -> 55 [] l = Ready -> 30]
StateFromLabels(L) ==
  LET known == L \cap DOMAIN Priority IN
  CASE {Blocked, Ready} \subseteq L -> IF L \cap FailedLabels = {} THEN Ready ELSE Blocked
    [] OTHER -> IF known = {} THEN "opened"
                ELSE CHOOSE l \in known : \A k \in known : Priority[k] <= Priority[l]

(* OnSessionBlocked, OnSessionFailedMaxTurns, OnSessionFailedError, and    *)
(* runAutoRetry when it gives up and when it tries again.                  *)
BlockedCalls   == <<Add({Blocked})>>
MaxTurnsCalls  == <<Remove(Ready), Remove(InProgress), Add({FailedTurns})>>
ErrorCalls     == <<Remove(Ready), Remove(InProgress), Add({Failed}), Add({Blocked})>>
ExhaustedCalls == <<Remove(Ready), Remove(InProgress), Add({Blocked, Failed}), Remove(FailedTurns)>>
RetryCalls     == <<Remove(FailedTurns), Remove(Ready), Remove(Blocked), Remove(InProgress)>>
-----------------------------------------------------------------------------
(* runSession: where it is, its context, whether an event waits, what is   *)
(* left to do after a failed turn, claimedReady, and the labels it read    *)
(* for the PUT that follows.                                               *)
Places == {"none", "starting", "claiming", "idle", "turn", "calling", "putting"}
Run == [at : Places, ctx : {"live", "cancelled", "deadline"}, waits : BOOLEAN,
        calls : Seq(Calls), leaving : BOOLEAN, claimed : BOOLEAN,
        read : SUBSET Labels]

NoRun == [at |-> "none", ctx |-> "live", waits |-> FALSE, calls |-> <<>>, leaving |-> FALSE,
          claimed |-> FALSE, read |-> {}]
Opened(waits) == [NoRun EXCEPT !.at = "starting", !.waits = waits]

Alive(s)  == run[s].at # "none"
Live(s)   == run[s].ctx = "live"
Busy(s)   == run[s].at = "turn" \/ (run[s].at \in {"calling", "putting"} /\ ~run[s].leaving)
Claims(s) == run[s].claimed
Becomes(s, r) == run' = [run EXCEPT ![s] = r]

(* ready comes on while a session holds the claim.                         *)
WhileClaimed == \E s \in Sessions : Claims(s)

Init ==
  /\ labels \in {{}, {Ready}, {Blocked}}
  /\ onPage = TRUE
  /\ events = 0
  /\ bus = {}
  /\ holder = {}
  /\ row = FALSE
  /\ run = [s \in Sessions |-> NoRun]
  /\ failures \in 0..MaxRetries
  /\ retrier = "idle"
  /\ retrierCalls = <<>>
  /\ schedulerCalls = <<>>
  /\ gaveUp = FALSE
  /\ miscounted = FALSE
  /\ relabelled = FALSE
  /\ fault = FALSE
  /\ lost = FALSE
-----------------------------------------------------------------------------
(* People and the scheduler. *)

PutsLabel(l) ==
  /\ Happens
  /\ labels' = labels \cup {l}
  /\ bus' = bus \cup {"label"}
  /\ relabelled' = (relabelled \/ (l = Ready /\ WhileClaimed))
  /\ UNCHANGED <<onPage, holder, row, run, failures, retry, schedulerCalls, fault, lost>>

Comment ==
  /\ Happens
  /\ bus' = bus \cup {"other"}
  /\ UNCHANGED <<labels, onPage, holder, row, run, failures, retry, schedulerCalls, ghosts>>

(* Other issues and pull requests are opened before it, or closed.         *)
PageShifts ==
  /\ Happens
  /\ onPage' = ~onPage
  /\ UNCHANGED <<labels, manager, run, failures, retry, schedulerCalls, ghosts>>

(* checkAndUnblock lists the open issues and finds every dependency of this *)
(* one closed, blocked or not. It goes by the labels of the listing, call   *)
(* by call, and sends no event: the scanner finds the issue.                *)
RemoveIfListed(l) == IF l \in labels THEN <<Remove(l)>> ELSE <<>>

SchedulerLists ==
  /\ Happens
  /\ onPage
  /\ schedulerCalls = <<>>
  /\ schedulerCalls' = RemoveIfListed(Blocked) \o RemoveIfListed(FailedTurns)
                       \o RemoveIfListed(Failed)
                       \o (IF Ready \in labels THEN <<>> ELSE <<Add({Ready})>>)
  /\ UNCHANGED <<labels, onPage, manager, run, failures, retry, ghosts>>

SchedulerCalls ==
  /\ schedulerCalls # <<>>
  /\ schedulerCalls' = Tail(schedulerCalls)
  /\ \/ /\ labels' = Apply(Head(schedulerCalls))
        /\ relabelled' = (relabelled \/ (Ready \in labels' \ labels /\ WhileClaimed))
        /\ UNCHANGED <<events, lost>>
     \/ Happens /\ lost' = TRUE /\ UNCHANGED <<labels, relabelled>>
  /\ UNCHANGED <<onPage, manager, run, failures, retry, fault>>
-----------------------------------------------------------------------------
(* handleEvent, getOrCreate and the two ways out of the map.               *)

(* A label by a person starts work when the labels say ready.              *)
GreenLight ==
  /\ "label" \in bus
  /\ StateFromLabels(labels) = Ready
  /\ bus' = (bus \ {"label"}) \cup {"other"}
  /\ UNCHANGED <<labels, onPage, events, holder, row, run, failures, retry, schedulerCalls, ghosts>>

(* No green light, a gate of handleEvent, or the limit of sessions: the    *)
(* event is gone.                                                          *)
Drops(k) ==
  /\ k \in bus
  /\ bus' = bus \ {k}
  /\ lost' = (lost \/ k = "retry")
  /\ UNCHANGED <<labels, onPage, events, holder, row, run, failures, retry, schedulerCalls, relabelled, fault>>

Queues(k) ==
  /\ k \in bus \ {"label"}
  /\ holder # {}
  /\ bus' = bus \ {k}
  /\ run' = [s \in Sessions |->
               IF s \in holder /\ Alive(s) THEN [run[s] EXCEPT !.waits = TRUE] ELSE run[s]]
  /\ UNCHANGED <<labels, onPage, events, holder, row, failures, retry, schedulerCalls, ghosts>>

Creates(k, s) ==
  /\ k \in bus \ {"label"}
  /\ holder = {}
  /\ ~Alive(s)
  /\ holder' = {s}
  /\ row' = TRUE
  /\ bus' = bus \ {k}
  /\ Becomes(s, Opened(TRUE))
  /\ UNCHANGED <<labels, onPage, events, failures, retry, schedulerCalls, ghosts>>

(* evictOldest and reapIdle: any session that is not busy.                 *)
Evict(s) ==
  /\ Happens
  /\ s \in holder
  /\ ~Busy(s)
  /\ holder' = {}
  /\ row' = FALSE
  /\ run' = IF Alive(s) /\ Live(s) THEN [run EXCEPT ![s].ctx = "cancelled"] ELSE run
  /\ UNCHANGED <<labels, onPage, bus, failures, retry, schedulerCalls, ghosts>>

Deadline(s) ==
  /\ Happens
  /\ Alive(s)
  /\ Live(s)
  /\ Becomes(s, [run[s] EXCEPT !.ctx = "deadline"])
  /\ UNCHANGED <<labels, onPage, manager, failures, retry, schedulerCalls, ghosts>>
-----------------------------------------------------------------------------
(* runSession. A session's own calls fail with its context; those that end *)
(* it have a context of their own.                                         *)

MayCall(s) == Live(s) \/ run[s].leaving
Frame == UNCHANGED <<onPage, manager, retry, schedulerCalls, relabelled>>
NoLabels == UNCHANGED <<labels, fault, lost>>

FindsAny(s) ==
  /\ run[s].at = "starting"
  /\ MayCall(s)
  /\ Becomes(s, [run[s] EXCEPT !.at = "claiming", !.read = labels])
  /\ UNCHANGED <<events, failures>> /\ NoLabels /\ Frame

(* The claim protocol: GetIssue ...                                        *)
FindsReady(s) ==
  /\ run[s].at = "starting"
  /\ MayCall(s)
  /\ Ready \in labels
  /\ Becomes(s, [run[s] EXCEPT !.at = "claiming", !.read = labels])
  /\ UNCHANGED <<events, failures>> /\ NoLabels /\ Frame

FindsNotReady(s) ==
  /\ run[s].at = "starting"
  /\ \/ (Ready \notin labels \/ ~MayCall(s)) /\ events' = events
     \/ Happens
  /\ Becomes(s, [run[s] EXCEPT !.at = "idle"])
  /\ UNCHANGED failures /\ NoLabels /\ Frame

(* ... and ReplaceIssueLabels with what was read then.                     *)
Swaps(s) == labels' = (run[s].read \ {Ready}) \cup {InProgress}

ClaimsIssue(s) ==
  /\ run[s].at = "claiming"
  /\ MayCall(s)
  /\ Swaps(s)
  /\ Becomes(s, [run[s] EXCEPT !.at = "idle", !.read = {}, !.claimed = TRUE])
  /\ UNCHANGED <<events, failures, fault, lost>> /\ Frame

(* The PUT fails, before or after the forge has carried it out.            *)
ClaimFails(s) ==
  /\ run[s].at = "claiming"
  /\ \/ ~MayCall(s) /\ events' = events /\ NoLabels
     \/ Happens /\ NoLabels
     \/ Happens /\ Swaps(s) /\ fault' = TRUE /\ lost' = lost
  /\ Becomes(s, [run[s] EXCEPT !.at = "idle", !.read = {}])
  /\ UNCHANGED failures /\ Frame

(* The select takes a waiting event even when the context is done.         *)
Takes(s) ==
  /\ run[s].at = "idle"
  /\ run[s].waits
  /\ Becomes(s, [run[s] EXCEPT !.at = "turn", !.waits = FALSE])
  /\ UNCHANGED <<events, failures>> /\ NoLabels /\ Frame

(* OnSessionComplete leaves the labels and the claim alone.                *)
Completes(s) ==
  /\ run[s].at = "turn"
  /\ Becomes(s, [run[s] EXCEPT !.at = "idle"])
  /\ UNCHANGED <<events, failures>> /\ NoLabels /\ Frame

FailsWith(s, calls) ==
  /\ Happens
  /\ run[s].at = "turn"
  /\ Becomes(s, [run[s] EXCEPT !.at = "calling", !.calls = calls])
  /\ NoLabels /\ Frame

FailsBlocked(s) == FailsWith(s, BlockedCalls) /\ failures' = failures
FailsError(s)   == FailsWith(s, ErrorCalls) /\ failures' = failures
FailsMaxTurns(s) ==
  /\ FailsWith(s, MaxTurnsCalls)
  /\ failures' = IF Live(s) THEN failures + 1 ELSE failures

(* The context is done. Past the deadline the session is recorded as       *)
(* failed, with a context of its own for the calls.                        *)
Leaves(s) ==
  /\ run[s].at = "idle"
  /\ ~Live(s)
  /\ Becomes(s, [run[s] EXCEPT !.at = "calling", !.leaving = TRUE,
                               !.calls = IF run[s].ctx = "deadline" THEN ErrorCalls ELSE <<>>])
  /\ UNCHANGED <<events, failures>> /\ NoLabels /\ Frame

CallsForge(s) ==
  /\ run[s].at = "calling"
  /\ run[s].calls # <<>>
  /\ \/ MayCall(s) /\ labels' = Apply(Head(run[s].calls)) /\ UNCHANGED <<events, lost>>
     \/ ~MayCall(s) /\ UNCHANGED <<labels, events, lost>>
     \/ MayCall(s) /\ Happens /\ labels' = labels /\ lost' = TRUE
  /\ Becomes(s, [run[s] EXCEPT !.calls = Tail(@)])
  /\ UNCHANGED <<failures, fault>> /\ Frame

(* revertClaim, with a context of its own: GetIssue ...                    *)
Labelled(s) == run[s].at = "calling" /\ run[s].calls = <<>>

ReadsClaim(s) ==
  /\ Labelled(s)
  /\ Claims(s)
  /\ InProgress \in labels
  /\ Becomes(s, [run[s] EXCEPT !.at = "putting", !.read = labels])
  /\ UNCHANGED <<events, failures>> /\ NoLabels /\ Frame

PutsBackTwo(s) == labels' = run[s].read \cup {Ready}
PutsBackNone(s) == labels' = run[s].read \ {InProgress}

(* ... and ReplaceIssueLabels. The goroutine then waits for the next event *)
(* or returns, and what it kept is gone.                                   *)
PutsBack(s) == labels' = (run[s].read \ {InProgress}) \cup {Ready}

Settles(s, claimed) ==
  /\ Becomes(s, IF run[s].leaving THEN NoRun
                ELSE [run[s] EXCEPT !.at = "idle", !.read = {}, !.claimed = claimed])
  /\ UNCHANGED failures /\ Frame

KeepsNothing(s) ==
  /\ Labelled(s)
  /\ ~Claims(s) \/ InProgress \notin labels
  /\ Settles(s, Claims(s))
  /\ UNCHANGED events /\ NoLabels

Reverts(s) ==
  /\ run[s].at = "putting"
  /\ PutsBack(s)
  /\ Settles(s, FALSE)
  /\ UNCHANGED <<events, fault, lost>>

RevertFails(s) ==
  /\ Happens
  /\ fault' = TRUE
  /\ \/ Labelled(s) /\ Claims(s) /\ labels' = labels
     \/ run[s].at = "putting" /\ (labels' = labels \/ PutsBack(s))
  /\ Settles(s, Claims(s))
  /\ lost' = lost
-----------------------------------------------------------------------------
(* runAutoRetry. It goes by the rows of the store.                         *)

RetrierFrame == UNCHANGED <<onPage, holder, row, run, failures, schedulerCalls, relabelled, fault>>

SeesFailure ==
  /\ retrier = "idle"
  /\ row
  /\ FailedTurns \in labels
  /\ retrier' = "counting"
  /\ UNCHANGED <<labels, events, bus, retrierCalls, gaveUp, miscounted, lost>> /\ RetrierFrame

ExhaustedOnce == failures = MaxRetries

(* CountFailedRetries, when it can be read. Its error is discarded, and    *)
(* the attempt goes on with a count of 0.                                  *)
Exhausted == failures >= MaxRetries

GivesUp ==
  /\ retrier = "counting"
  /\ Exhausted
  /\ retrier' = "cleaning"
  /\ retrierCalls' = ExhaustedCalls
  /\ gaveUp' = TRUE
  /\ UNCHANGED <<labels, events, bus, miscounted, lost>> /\ RetrierFrame

TriesAgain ==
  /\ retrier = "counting"
  /\ \/ ~Exhausted /\ UNCHANGED <<events, miscounted>>
     \/ Happens /\ miscounted' = TRUE
  /\ retrier' = "clearing"
  /\ retrierCalls' = RetryCalls
  /\ UNCHANGED <<labels, bus, gaveUp, lost>> /\ RetrierFrame

RetrierCalls ==
  /\ retrierCalls # <<>>
  /\ \/ labels' = Apply(Head(retrierCalls)) /\ UNCHANGED <<events, lost>>
     \/ Happens /\ labels' = labels /\ lost' = TRUE
  /\ retrierCalls' = Tail(retrierCalls)
  /\ UNCHANGED <<bus, retrier, gaveUp, miscounted>> /\ RetrierFrame

(* A goroutine takes the new event to handleEvent.                         *)
Retries ==
  /\ retrier = "clearing"
  /\ retrierCalls = <<>>
  /\ bus' = bus \cup {"retry"}
  /\ retrier' = "idle"
  /\ miscounted' = FALSE
  /\ UNCHANGED <<labels, events, retrierCalls, gaveUp, lost>> /\ RetrierFrame

RetrierIsDone ==
  /\ retrier = "cleaning"
  /\ retrierCalls = <<>>
  /\ retrier' = "idle"
  /\ UNCHANGED <<labels, events, bus, retrierCalls, gaveUp, miscounted, lost>> /\ RetrierFrame
-----------------------------------------------------------------------------
(* The scanner, its own goroutine, finds the issue in its listing, if the  *)
(* first page has it, and no session for it. What may change before the    *)
(* event is handled may change before it is published, too.                *)
Scans ==
  /\ onPage
  /\ Ready \in labels
  /\ holder = {}
  /\ bus' = bus \cup {"other"}
  /\ UNCHANGED <<labels, onPage, events, holder, row, run, failures, retry, schedulerCalls, ghosts>>

(* The process dies and is started again; restoreSessions may open a       *)
(* session for the row, which has claimed nothing.                         *)
CrashAndRestart ==
  /\ Happens
  /\ fault' = TRUE
  /\ bus' = {}
  /\ retrier' = "idle"
  /\ retrierCalls' = <<>>
  /\ miscounted' = FALSE
  /\ schedulerCalls' = <<>>
  /\ \E restored \in {{}} \cup {{s} : s \in Sessions} :
       /\ restored # {} => row
       /\ holder' = restored
       /\ run' = [s \in Sessions |-> IF s \in restored THEN Opened(FALSE) ELSE NoRun]
  /\ UNCHANGED <<labels, onPage, row, failures, gaveUp, relabelled, lost>>
-----------------------------------------------------------------------------
Session(s) ==
  \/ FindsReady(s) \/ FindsNotReady(s) \/ ClaimsIssue(s) \/ ClaimFails(s)
  \/ Takes(s) \/ Completes(s) \/ FailsBlocked(s) \/ FailsError(s) \/ FailsMaxTurns(s)
  \/ Leaves(s) \/ CallsForge(s) \/ KeepsNothing(s) \/ ReadsClaim(s) \/ Reverts(s)
  \/ RevertFails(s)

Retrier == SeesFailure \/ GivesUp \/ TriesAgain \/ RetrierCalls \/ Retries \/ RetrierIsDone
Manager(k) == Drops(k) \/ Queues(k) \/ \E s \in Sessions : Creates(k, s)
Scheduler == SchedulerLists \/ SchedulerCalls
Outside == (\E l \in PersonLabels : PutsLabel(l)) \/ Comment \/ PageShifts

Next ==
  \/ Outside \/ Scheduler \/ Retrier \/ Scans \/ GreenLight \/ CrashAndRestart
  \/ \E k \in Kinds : Manager(k)
  \/ \E s \in Sessions : Session(s) \/ Evict(s) \/ Deadline(s)

Spec == Init /\ [][Next]_vars

(* Goroutines go on, turns end, scanner and runAutoRetry tick. No gate is   *)
(* for the scanner's event, which is a green light, and a limit of sessions *)
(* that refuses again and again gives way in the end: turns end, and a     *)
(* session that is not busy is evicted.                                    *)
Fairness ==
  /\ \A s \in Sessions : WF_vars(Session(s))
  /\ WF_vars(Scans)
  /\ WF_vars(Retrier)
  /\ WF_vars(SchedulerCalls)
  /\ \A k \in Kinds : WF_vars(Manager(k))
  /\ SF_vars(\E s \in Sessions : Creates("other", s))

FairSpec == Spec /\ Fairness
-----------------------------------------------------------------------------
TypeOK ==
  /\ labels \subseteq Labels
  /\ onPage \in BOOLEAN
  /\ events \in 0..MaxEvents
  /\ bus \subseteq Kinds
  /\ holder \in SUBSET Sessions
  /\ row \in BOOLEAN
  /\ run \in [Sessions -> Run]
  /\ failures \in Nat
  /\ retrier \in {"idle", "counting", "clearing", "cleaning"}
  /\ retrierCalls \in Seq(Calls)
  /\ schedulerCalls \in Seq(UnblockCalls)
  /\ gaveUp \in BOOLEAN
  /\ miscounted \in BOOLEAN
  /\ relabelled \in BOOLEAN
  /\ fault \in BOOLEAN
  /\ lost \in BOOLEAN

(* An issue labelled in_progress is claimed by a session that still runs,  *)
(* and that will give it back (revertClaim), unless a call about the claim *)
(* failed or the process died.                                             *)
InProgressIsClaimed ==
  InProgress \in labels => fault \/ \E s \in Sessions : Claims(s)

(* The claim is exclusive, although nothing locks the labels between       *)
(* GetIssue and the PUT and a session the map dropped runs on (runSession):*)
(* two hold it only when ready came on from outside while one did, or      *)
(* after a fault.                                                          *)
ClaimExclusive ==
  fault \/ relabelled \/ \A s, t \in Sessions : Claims(s) /\ Claims(t) => s = t

(* runAutoRetry gives up for good: no restart and no later turn makes it   *)
(* try again, only an attempt whose own count of the failures could not be *)
(* read.                                                                   *)
GivesUpForGood == [][gaveUp /\ retrier = "clearing" /\ retrier' = "idle" => miscounted]_vars

(* Work for an issue nobody has stopped is picked up: as long as the issue *)
(* is ready or in progress and has no session, somebody is still going to  *)
(* give it one, or to mark it failed or blocked, unless a call failed, the *)
(* process died, handleEvent dropped an event of runAutoRetry, or the      *)
(* issue goes off the first page of open issues.                           *)
Waiting == onPage /\ holder = {} /\ labels \cap {Ready, InProgress} # {}
Stopped == labels \cap ({Blocked} \cup FailedLabels) # {}

WorkIsPickedUp == Waiting ~> (holder # {} \/ Stopped \/ ~onPage \/ fault \/ lost)
=============================================================================
