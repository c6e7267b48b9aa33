------------------------------- MODULE Cascade -------------------------------
(***************************************************************************)
(* The dependency scheduler (internal/scheduler): the pass that looks for  *)
(* issues whose dependencies are settled and makes them ready, round after *)
(* round (checkAndUnblock), what the session manager does after a merge    *)
(* and after a push (handleEvent, internal/session/manager.go), the        *)
(* creation of sub-issues (forgejo_create_issue) and the block of issues   *)
(* that mention an open pull request (checkBugReportDependencyBlock).      *)
(*                                                                         *)
(* Passes run beside each other and read and write Forgejo call by call,   *)
(* each works on labels and bodies as its last listing showed them, and a  *)
(* listing shows the first page of what is open. Pull requests take their  *)
(* place on it; no text of theirs names a dependency here.                 *)
(***************************************************************************)
EXTENDS Naturals, FiniteSets

CONSTANTS
  Issues, PRs,   \* numbers, out of one sequence that starts at 1
  Texts,         \* what "Depends on:" of the bodies may say: functions
  Priority,      \* of each issue
  Parent,        \* of each issue the tool creates: the issue it is part of
  Mentions,      \* pairs of an issue and a pull request its text mentions
  PMs,           \* issues tagged for the project manager
  Scaffolds,     \* issues titled [scaffold]
  Passes,        \* goroutines; bounds how many passes run at a time
  MaxRounds,     \* maxCascadeRounds
  PageSize,      \* how much of what is open a listing of Forgejo shows
  MaxExtras      \* bound: labels others set, periodic passes, pushes,
                 \* passes beside another, failed calls and restarts, in all

Numbers == Issues \cup PRs
SubIssues == DOMAIN Parent

ASSUME CascadeAssumption ==
  /\ Issues \subseteq Nat \ {0} /\ PRs \subseteq Nat \ {0}
  /\ Issues \cap PRs = {} /\ IsFiniteSet(Numbers)
  /\ Texts \subseteq [Issues -> SUBSET Numbers]
  /\ Priority \in [Issues -> Nat]
  /\ Parent \in [SubIssues -> Issues \ SubIssues] /\ SubIssues \subseteq Issues
  /\ Mentions \subseteq Issues \X PRs
  /\ PMs \subseteq Issues /\ Scaffolds \subseteq Issues
  /\ MaxRounds \in Nat \ {0}
  /\ PageSize \in Nat \ {0}
  /\ MaxExtras \in Nat

VARIABLES
  state,      \* of each number: "none", "open" or "closed"
  text,       \* of each issue: the numbers after "Depends on:"
  native,     \* of each issue: its dependencies in Forgejo
  labels,     \* of each issue
  making,     \* of each issue: how far its creation or its block has got
  told,       \* pull requests whose merge the manager has heard of
  pass,       \* of each goroutine: its locals
  rechecks,   \* timers of scheduleRecheck, by merged pull request
  extras,     \* count for the bound
  said,       \* history: of each issue, every set of dependencies it has had
  readied,    \* history: issues the scheduler has made ready
  settled     \* history: parents closed, reactivated or archived

issueVars == <<text, native, labels, making>>
vars == <<state, issueVars, told, pass, rechecks, extras, said, readied, settled>>

Labels == {"blocked", "ready", "failed", "in_progress"}

(* An issue as a listing shows it.                                         *)
Listed == [text : SUBSET Numbers, labels : SUBSET Labels]

(* The locals of a goroutine. "due" is history: the issues the pass still  *)
(* owes a visit; a call that fails excuses it.                             *)
Idle == [at |-> "idle", event |-> FALSE, merged |-> 0, round |-> 0, listing |-> <<>>,
         todo |-> {}, cands |-> {}, exhausted |-> FALSE, due |-> {}]

(* isIssueClosed: an open issue that is no pull request counts as closed.  *)
Settled(d) == state[d] = "closed" \/ (d \in Issues /\ state[d] = "open")
AllSettled(D) == D # {} /\ \A d \in D : Settled(d)

OpenIssues == {i \in Issues : state[i] = "open"}

(* listOpenIssues asks for one page: the newest issues and pull requests.  *)
NewerOpen(i) == {n \in Numbers : state[n] = "open" /\ n > i}
OnPage == {i \in OpenIssues : Cardinality(NewerOpen(i)) < PageSize}
Existing == Issues \ SubIssues

Extra == extras < MaxExtras /\ extras' = extras + 1

(* A call of Forgejo fails, or it does not.                                *)
Fails == Extra
Works == UNCHANGED extras

Init ==
  /\ state = [n \in Numbers |-> IF n \in Existing THEN "open" ELSE "none"]
  /\ text \in Texts
  /\ native = [i \in Issues |-> {}]
  /\ labels = [i \in Issues |-> IF i \in Existing /\ text[i] # {} THEN {"blocked"} ELSE {}]
  /\ making = [i \in Issues |-> "no"]
  /\ told = {}
  /\ pass = [w \in Passes |-> Idle]
  /\ rechecks = {}
  /\ extras = 0
  /\ readied = {}
  /\ said = [i \in Issues |-> {text[i], {}}]
  /\ settled = {}
-----------------------------------------------------------------------------
(* Pull requests and people.                                               *)

Opens(p) ==
  /\ state[p] = "none"
  /\ state' = [state EXCEPT ![p] = "open"]
  /\ UNCHANGED <<issueVars, told, pass, rechecks, extras, said, readied, settled>>

(* Merged, or closed without: the scheduler does not tell them apart.      *)
Closes(p) ==
  /\ state[p] = "open"
  /\ state' = [state EXCEPT ![p] = "closed"]
  /\ UNCHANGED <<issueVars, told, pass, rechecks, extras, said, readied, settled>>

(* A session claims an issue: ready gives way to in_progress.              *)
Claims(i) ==
  /\ "ready" \in labels[i]
  /\ Extra
  /\ labels' = [labels EXCEPT ![i] = (@ \ {"ready"}) \cup {"in_progress"}]
  /\ UNCHANGED <<state, text, native, making, told, pass, rechecks, said, readied, settled>>

(* A person, the merge queue or a session that fails labels an issue.      *)
Relabels(i, l) ==
  /\ state[i] = "open" /\ l \notin labels[i]
  /\ Extra
  /\ labels' = [labels EXCEPT ![i] = @ \cup {l}]
  /\ UNCHANGED <<state, text, native, making, told, pass, rechecks, said, readied, settled>>
-----------------------------------------------------------------------------
(* An issue that mentions an open pull request is blocked before a session *)
(* is created: first the label, then the body.                             *)

BugReportRefs(i) == {p \in PRs : <<i, p>> \in Mentions}

AutoBlocks(i) ==
  /\ making[i] = "no" /\ state[i] = "open" /\ i \notin PMs
  /\ \E p \in BugReportRefs(i) : state[p] = "open" /\ p \notin text[i]
  /\ making' = [making EXCEPT ![i] = "blocking"]
  /\ labels' = [labels EXCEPT ![i] = @ \cup {"blocked"}]
  /\ UNCHANGED <<state, text, native, told, pass, rechecks, extras, said, readied, settled>>

Appends(i) ==
  /\ making[i] = "blocking"
  /\ making' = [making EXCEPT ![i] = "no"]
  /\ \/ /\ Works
        /\ \E p \in BugReportRefs(i) :
             /\ p \notin text[i] /\ state[p] # "none"
             /\ text' = [text EXCEPT ![i] = @ \cup {p}]
     \/ Fails /\ text' = text
  /\ said' = [said EXCEPT ![i] = @ \cup {text'[i]}]
  /\ UNCHANGED <<state, native, labels, told, pass, rechecks, readied, settled>>
-----------------------------------------------------------------------------
(* forgejo_create_issue for a session that has an issue of its own: post,  *)
(* label, add the dependency on the parent, and a pass.                    *)

Posts(i) ==
  /\ i \in SubIssues /\ state[i] = "none"
  /\ state' = [state EXCEPT ![i] = "open"]
  /\ making' = [making EXCEPT ![i] = "posted"]
  /\ UNCHANGED <<text, native, labels, told, pass, rechecks, extras, said, readied, settled>>

MarksBlocked(i) ==
  /\ making[i] = "posted"
  /\ making' = [making EXCEPT ![i] = "labelled"]
  /\ \/ Works /\ labels' = [labels EXCEPT ![i] = @ \cup {"blocked"}]
     \/ Fails /\ labels' = labels
  /\ UNCHANGED <<state, text, native, told, pass, rechecks, said, readied, settled>>

(* The locals of a pass that begins.                                       *)
Begun(event, merged) ==
  [Idle EXCEPT !.at = "list", !.event = event, !.merged = merged, !.round = 1]

Rests(w) == pass[w] = Idle

(* Bound: a pass beside another one is an extra.                           *)
Counted == IF \A w \in Passes : Rests(w) THEN Works ELSE Extra

Links(i, w) ==
  /\ making[i] = "labelled" /\ Rests(w)
  /\ making' = [making EXCEPT ![i] = "no"]
  /\ \/ Counted /\ native' = [native EXCEPT ![i] = @ \cup {Parent[i]}]
     \/ Fails /\ native' = native
  /\ pass' = [pass EXCEPT ![w] = Begun(FALSE, 0)]
  /\ said' = [said EXCEPT ![i] = @ \cup {native'[i]}]
  /\ UNCHANGED <<state, text, labels, told, rechecks, readied, settled>>
-----------------------------------------------------------------------------
(* What else begins a pass.                                                *)

(* OnPRMerged, for an event that reaches the manager.                      *)
Hears(w, p) ==
  /\ Rests(w) /\ state[p] = "closed" /\ p \notin told
  /\ told' = told \cup {p}
  /\ Counted
  /\ pass' = [pass EXCEPT ![w] = Begun(TRUE, p)]
  /\ UNCHANGED <<state, issueVars, rechecks, said, readied, settled>>

(* ReconcileBlocked, every two hours while the repository has a session.   *)
Reconciles(w) ==
  /\ Rests(w)
  /\ Extra
  /\ pass' = [pass EXCEPT ![w] = Begun(FALSE, 0)]
  /\ UNCHANGED <<state, issueVars, told, rechecks, said, readied, settled>>

(* The timer of scheduleRecheck.                                           *)
Rechecks(w, p) ==
  /\ Rests(w) /\ p \in rechecks
  /\ Counted
  /\ rechecks' = rechecks \ {p}
  /\ pass' = [pass EXCEPT ![w] = Begun(FALSE, p)]
  /\ UNCHANGED <<state, issueVars, told, said, readied, settled>>

(* A push to main closes the scaffold issues; when it closed one, blocked  *)
(* comes off every other issue that was listed with it. Closing may fail.  *)
Pushes(w) ==
  /\ Rests(w)
  /\ \E closed \in SUBSET (Scaffolds \cap OnPage) :
       /\ IF closed = {} THEN Extra ELSE Counted
       /\ state' = [n \in Numbers |-> IF n \in closed THEN "closed" ELSE state[n]]
       /\ pass' = [pass EXCEPT ![w] =
            [Begun(FALSE, 0) EXCEPT
               !.at = IF closed = {} THEN "list" ELSE "push",
               !.todo = IF closed = {} THEN {}
                        ELSE {i \in OnPage \ Scaffolds : "blocked" \in labels[i]}]]
  /\ UNCHANGED <<issueVars, told, rechecks, said, readied, settled>>

Frees(w, i) ==
  /\ pass[w].at = "push" /\ i \in pass[w].todo
  /\ pass' = [pass EXCEPT ![w].todo = @ \ {i}]
  /\ \/ Works /\ labels' = [labels EXCEPT ![i] = @ \ {"blocked"}]
     \/ Fails /\ labels' = labels
  /\ UNCHANGED <<state, text, native, making, told, rechecks, said, readied, settled>>

Freed(w) ==
  /\ pass[w].at = "push" /\ pass[w].todo = {}
  /\ pass' = [pass EXCEPT ![w].at = "list"]
  /\ UNCHANGED <<state, issueVars, told, rechecks, extras, said, readied, settled>>
-----------------------------------------------------------------------------
(* The pass, one call of Forgejo at a time.                                *)

Snapshot == [i \in OnPage |-> [text |-> text[i], labels |-> labels[i]]]

(* detectCircularDeps. Which cycles the search finds depends on the order  *)
(* of a map, and a node it has left can hide one; it never finds none when *)
(* there is one.                                                           *)
Knots(l) == {k \in SUBSET DOMAIN l :
  \A i \in k : l[i].text \cap k # {} /\ \E j \in k : i \in l[j].text}
Found(l) == IF Knots(l) = {{}} THEN {{}} ELSE Knots(l) \ {{}}

InForce(i) == IF native[i] # {} THEN native[i] ELSE text[i]

AfterPass(q) ==
  IF q.event THEN [Idle EXCEPT !.at = "reactivate", !.merged = q.merged] ELSE Idle

Step(w, q) == pass' = [pass EXCEPT ![w] = q]

Lists(w) ==
  LET q == pass[w] IN
  /\ q.at = "list"
  /\ \/ /\ Works
        /\ \E skip \in IF q.round = 1 THEN Found(Snapshot) ELSE {{}} :
          Step(w, [q EXCEPT
            !.at = "scan", !.listing = Snapshot, !.todo = OnPage \ skip,
            !.due = IF q.round = 1 THEN {i \in OnPage \ skip : AllSettled(InForce(i))}
                    ELSE @])
     \/ Fails /\ Step(w, AfterPass(q))
  /\ UNCHANGED <<state, issueVars, told, rechecks, said, readied, settled>>

Newest(S) == CHOOSE i \in S : \A j \in S : j <= i

Checked(q, i, found, verdict) ==
  [q EXCEPT !.todo = @ \ {i},
            !.cands = IF verdict = "free" THEN @ \cup {i} ELSE @,
            !.exhausted = @ \/ verdict = "exhausted",
            !.due = IF found = native[i] /\ verdict \in {"free", "held"} THEN @ ELSE {}]

VerdictStrict(D) == IF D # {} /\ \A d \in D : state[d] = "closed" THEN "free" ELSE "held"
Verdict(D) == IF AllSettled(D) THEN "free" ELSE "held"

(* What a check that fails counts as: the issue stays as it is, and after  *)
(* three attempts there will be a recheck.                                 *)
FailureIgnored == {"free", "exhausted"}
Failure == {"error", "exhausted"}

(* Dependencies of Forgejo come before those of the text, and a listing of *)
(* them that fails counts as empty.                                        *)
Scans(w) ==
  LET q == pass[w]
      i == Newest(q.todo)
      listed == q.listing[i].text
  IN
  /\ q.at = "scan" /\ q.todo # {}
  /\ \/ /\ Works
        /\ Step(w, Checked(q, i, native[i], Verdict(IF native[i] # {} THEN native[i] ELSE listed)))
     \/ /\ Fails
        /\ \/ Step(w, Checked(q, i, {}, Verdict(listed)))
           \/ /\ native[i] \cup listed # {}
              /\ \E failure \in Failure : Step(w, Checked(q, i, native[i], failure))
  /\ UNCHANGED <<state, issueVars, told, rechecks, said, readied, settled>>

Scanned(w) ==
  /\ pass[w].at = "scan" /\ pass[w].todo = {}
  /\ Step(w, [pass[w] EXCEPT !.at = IF pass[w].cands = {} THEN "finish" ELSE "unblock"])
  /\ UNCHANGED <<state, issueVars, told, rechecks, extras, said, readied, settled>>

(* Candidates go by priority, then by number.                              *)
Before(i, j) ==
  Priority[i] < Priority[j] \/ (Priority[i] = Priority[j] /\ i <= j)
First(S) == CHOOSE i \in S : \A j \in S : Before(i, j)

Unblocks(w) ==
  LET q == pass[w]
      c == First(q.cands)
      stale == q.listing[c].labels \cap {"blocked", "failed"}
  IN
  /\ q.at = "unblock"
  /\ \E gone \in SUBSET stale :
       /\ IF gone = stale THEN Works ELSE Fails
       /\ labels' = [labels EXCEPT ![c] = @ \ gone]
       /\ Step(w, [q EXCEPT !.at = "ready", !.due = IF gone = stale THEN @ ELSE {}])
  /\ UNCHANGED <<state, text, native, making, told, rechecks, said, readied, settled>>

(* The rounds end with the last candidate, or with their number.           *)
RoundsLeft(q) == q.round < MaxRounds

Readies(w) ==
  LET q == pass[w]
      c == First(q.cands)
      handled == [q EXCEPT !.cands = @ \ {c}, !.due = @ \ {c},
        !.at = IF q.cands # {c} THEN "unblock"
               ELSE IF RoundsLeft(q) THEN "list" ELSE "finish",
        !.round = IF q.cands = {c} /\ RoundsLeft(q) THEN @ + 1 ELSE @]
  IN
  /\ q.at = "ready"
  /\ \/ /\ Works
        /\ labels' = [labels EXCEPT
             ![c] = IF "ready" \in q.listing[c].labels THEN @ ELSE @ \cup {"ready"}]
        /\ readied' = readied \cup {c}
        /\ Step(w, handled)
     \/ /\ Fails
        /\ Step(w, [handled EXCEPT !.due = {}])
        /\ UNCHANGED <<labels, readied>>
  /\ UNCHANGED <<state, text, native, making, told, rechecks, said, settled>>
-----------------------------------------------------------------------------
(* After the rounds.                                                       *)

CompleteIfAny(D, p) == D # {} /\ \E d \in D : d = p \/ Settled(d)
Complete(D, p) == D # {} /\ \A d \in D : d = p \/ Settled(d)

Outcome(i, what, D) == [parent |-> i, what |-> what, children |-> D]

(* checkParentCompletion, on the last listing, and scheduleRecheck.        *)
Finishes(w) ==
  LET q == pass[w]
      parents == {i \in DOMAIN q.listing \ PMs : q.merged \in q.listing[i].text}
      complete == {i \in parents : Complete(q.listing[i].text, q.merged)}
  IN
  /\ q.at = "finish"
  /\ \E closed \in SUBSET complete :
       /\ IF closed = complete THEN Works ELSE Fails
       /\ state' = [n \in Numbers |-> IF n \in closed THEN "closed" ELSE state[n]]
       /\ settled' = settled \cup {Outcome(i, "closed", q.listing[i].text) : i \in closed}
  /\ rechecks' = IF q.exhausted THEN rechecks \cup {q.merged} ELSE rechecks
  /\ Step(w, AfterPass(q))
  /\ UNCHANGED <<issueVars, told, said, readied>>

(* CheckPMReactivation, on a listing of its own, and the events published  *)
(* for its results; then the issues are looked at once more for the end of *)
(* their change.                                                           *)
Reactivates(w) ==
  LET q == pass[w]
      parents == {i \in PMs \cap OnPage : q.merged \in text[i] /\ AllSettled(text[i])}
  IN
  /\ q.at = "reactivate"
  /\ \E awake \in SUBSET parents :
       /\ IF awake = parents THEN Works ELSE Fails
       /\ settled' = settled \cup {Outcome(i, "reactivated", text[i]) : i \in awake}
       /\ Step(w, [q EXCEPT !.at = "archive", !.todo = awake])
  /\ UNCHANGED <<state, issueVars, told, rechecks, said, readied>>

Archives(w) ==
  LET q == pass[w] IN
  /\ q.at = "archive" /\ q.todo # {}
  /\ LET i == Newest(q.todo) IN
     /\ \/ /\ Works
           /\ settled' = IF AllSettled(text[i])
                         THEN settled \cup {Outcome(i, "archived", text[i])} ELSE settled
        \/ Fails /\ UNCHANGED settled
     /\ Step(w, [q EXCEPT !.todo = @ \ {i}])
  /\ UNCHANGED <<state, issueVars, told, rechecks, said, readied>>

Archived(w) ==
  /\ pass[w].at = "archive" /\ pass[w].todo = {}
  /\ Step(w, Idle)
  /\ UNCHANGED <<state, issueVars, told, rechecks, extras, said, readied, settled>>

(* The process restarts: passes and timers are gone, and what a tool had   *)
(* begun stays as it is.                                                   *)
Crashes ==
  /\ Fails
  /\ pass' = [w \in Passes |-> Idle]
  /\ rechecks' = {}
  /\ making' = [i \in Issues |-> "no"]
  /\ UNCHANGED <<state, text, native, labels, told, said, readied, settled>>
-----------------------------------------------------------------------------
PassStep(w) ==
  \/ \E i \in Issues : Frees(w, i)
  \/ Freed(w) \/ Lists(w) \/ Scans(w) \/ Scanned(w) \/ Unblocks(w) \/ Readies(w)
  \/ Finishes(w) \/ Reactivates(w) \/ Archives(w) \/ Archived(w)

Begins(w) ==
  \/ \E i \in SubIssues : Links(i, w)
  \/ \E p \in PRs : Hears(w, p)
  \/ \E p \in PRs \cup {0} : Rechecks(w, p)
  \/ Reconciles(w) \/ Pushes(w)

Others ==
  \/ \E p \in PRs : Opens(p) \/ Closes(p)
  \/ \E i \in Issues : \/ Claims(i) \/ AutoBlocks(i) \/ Appends(i)
                       \/ Posts(i) \/ MarksBlocked(i)
                       \/ \E l \in {"blocked", "failed"} : Relabels(i, l)
  \/ Crashes

Next == Others \/ \E w \in Passes : Begins(w) \/ PassStep(w)

Spec == Init /\ [][Next]_vars
-----------------------------------------------------------------------------
Locals(l) == [at : {"idle", "push", "list", "scan", "unblock", "ready", "finish",
                    "reactivate", "archive"},
              event : BOOLEAN, merged : PRs \cup {0}, round : 0..MaxRounds, listing : {l},
              todo : SUBSET Issues, cands : SUBSET Issues, exhausted : BOOLEAN,
              due : SUBSET Issues]

(* What a pass still has to look at and its candidates are of its listing, *)
(* the calls in the middle of a candidate have one, and a pass ends within *)
(* maxCascadeRounds, although a candidate of one round is one of the next  *)
(* again (checkAndUnblock).                                                *)
PassTyped(q) ==
  /\ DOMAIN q.listing \subseteq Issues /\ q.listing \in [DOMAIN q.listing -> Listed]
  /\ q \in Locals(q.listing)
  /\ q.cands \subseteq DOMAIN q.listing
  /\ q.at = "scan" => q.todo \subseteq DOMAIN q.listing
  /\ q.at \in {"unblock", "ready"} => q.cands # {}

StoreTyped ==
  /\ state \in [Numbers -> {"none", "open", "closed"}]
  /\ text \in [Issues -> SUBSET Numbers] /\ native \in [Issues -> SUBSET Issues]
  /\ labels \in [Issues -> SUBSET Labels]
  /\ making \in [Issues -> {"no", "posted", "labelled", "blocking"}]
  /\ told \subseteq PRs /\ rechecks \subseteq PRs \cup {0}
  /\ extras \in 0..MaxExtras
  /\ readied \subseteq Issues /\ said \in [Issues -> SUBSET SUBSET Numbers]
  /\ \A s \in settled : s.parent \in Issues /\ s.what \in {"closed", "reactivated", "archived"}

TypeOK ==
  /\ StoreTyped
  /\ DOMAIN pass = Passes /\ \A w \in Passes : PassTyped(pass[w])

(* A pass that met no failing call has gone over every issue of the page   *)
(* it began with whose dependencies were settled then and that was on no   *)
(* cycle it had found, whatever the passes and people beside it did        *)
(* meanwhile and whatever has left the page since (checkAndUnblock).       *)
PassComplete ==
  \A w \in Passes : pass[w].at = "finish" => pass[w].due = {}

(* A parent is closed, reactivated or archived (checkParentCompletion,     *)
(* CheckPMReactivation, CheckAllTasksClosed) only when none of the pull    *)
(* requests it names is open or still to come.                             *)
ParentsSettled ==
  \A s \in settled : s.children # {} /\ \A d \in s.children \cap PRs : state[d] = "closed"

(* An issue is made ready only when all it once was said to depend on is   *)
(* settled, be the listing stale, the dependencies of two kinds and calls  *)
(* failing: the scheduler implements the gate of DependencyGate.           *)
Gate == INSTANCE DependencyGate WITH needs <- said
UnblocksAsGate == Gate!Spec

-----------------------------------------------------------------------------
(* What holds of the repository beside the passes. The dependencies that   *)
(* Forgejo has are on parents, which exist and so hold nobody up; what a   *)
(* body says was noted; a timer is of a merged pull request, or of none.   *)
RepositoryOK ==
  /\ \A i \in Existing : state[i] # "none"
  /\ \A i \in Issues : native[i] # {} => AllSettled(native[i])
  /\ \A i \in Issues : {{}, text[i], native[i]} \subseteq said[i]
  /\ \A p \in rechecks \cap PRs : state[p] = "closed"

(* What holds of a pass, however old its listing is: its candidates had    *)
(* dependencies that are all settled, for what is settled stays so; and    *)
(* what is due is still to be looked at, to be found free, or a candidate. *)
Scanning(q) ==
  /\ q.due \subseteq q.todo \cup q.cands
  /\ \A i \in q.due \cap q.todo : native[i] # {} \/ AllSettled(q.listing[i].text)

PassOK(q) ==
  /\ q.merged \in PRs => state[q.merged] = "closed"
  /\ \A i \in DOMAIN q.listing : q.listing[i].text \in said[i]
  /\ \A i \in q.cands : \E D \in said[i] : AllSettled(D)
  /\ q.at = "scan" => Scanning(q)
  /\ q.at \in {"unblock", "ready"} => q.due \subseteq q.cands
  /\ q.at \notin {"scan", "unblock", "ready"} => q.due = {} /\ q.cands = {}

CInv == TypeOK /\ ParentsSettled /\ RepositoryOK /\ \A w \in Passes : PassOK(pass[w])
=============================================================================
