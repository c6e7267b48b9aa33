# A TLA+ verification project for fordjent

fordjent is an agent harness: it turns Forgejo webhooks into events, gives each
issue or pull request a session, and lets a language-model agent work in it with
tools that read and write a clone, commit, push, and talk to the forge. This
directory models it, checks the models with TLC, and proves what can be proved
of them with TLAPS. Paths below are relative to the repository, those without
`internal/` or `cmd/` to `internal/`.

## 1. Inventory

| part | source | state | operations | interacts with |
|---|---|---|---|---|
| session manager | `session/manager.go`, `store.go` | map of sessions, one goroutine and one channel of 64 events per session, SQLite rows, `shutdown.json` | dispatch, create, evict, reap, time out, drain, restore, claim, gate merges, cap rework | bus, lifecycle, Forgejo, agent |
| event bus | `event/event.go` | subscribers' channels of 256 events | subscribe, publish (drops), unsubscribe | router, scanner, tools, manager |
| lifecycle | `lifecycle/lifecycle.go` | append-only transitions per session key, blocked branches, rework, deliveries | record, latest state, counters | manager, merge queue, router |
| issue FSM | `lifecycle/fsm.go` | none (labels) | state from labels | manager, agent |
| SSE broadcaster | `lifecycle/sse.go` | ring of the last events, subscribers | broadcast, replay, subscribe | web UI |
| scheduler | `scheduler/*.go` | none (issues are read), recheck timers | unblock cascade, retries, cycles, parents | Forgejo labels |
| merge queue | `mergequeue/queue.go` | none (open pull requests) | gate before a pull request | agent tools |
| scanner | `scanner/scanner.go` | ticker | publish an opened event for ready issues | bus, manager |
| webhook router | `webhook/router.go` | table of recent deliveries, shutdown flag | accept, deduplicate, normalize, filter, route, publish | bus, Forgejo |
| agent turn loop | `session/agent.go`, `agent/*.go` | conversation, nudges, counters | turn, tool calls, compaction | provider, tools, cost |
| provider | `provider/*.go` | semaphore of a client | call, retry, fallback | agent |
| cost tracker | `cost/cost.go` | spend per session | check budget, record | agent |
| stale gate | `stalegate/stalegate.go` | none (the clone) | fetch, compare, rebase, push | tools |
| tools | `tool/*.go` | cache of read files, the clone | git, files, forge, changes | agent |
| spec cycle | `speccycle/*.go` | none (tasks.md, issues) | generate issues, labels, archive | manager |
| Forgejo client | `forgejo/client.go` | none | labels by name and ID, calls | everybody |
| policy detector | `policy/policy.go` | cache of repository topics | fetch, invalidate | manager, agent |
| sandbox | `sandbox/*.go` | violation counters | path and command checks | local tools |
| auto-registration, scaffold | `autoreg`, `scaffold` | cache of registered repositories | idempotent set-up, gate | manager |
| memory, metrics, sentinel, config | `memory` and others | file, counters | append, count, parse | all |
| evaluation, user interfaces | `eval`, `tui`, `webui`, `cmd/fj` | none of their own | drive or display | HTTP |

The hard behaviours are the `hazards` of PROJECT.json, each at its line: steps
of two dispatchers, of a dispatcher and a session, or of two sessions of one
pull request; label sets and listings that are read in one call and acted upon
in another; gates that are passed before the thing they guard is done; a
session that is in the map and no longer runs, or the reverse; a crash between
two writes; a push that is lost, and everything after it that goes on.

## 2. Modules

| module | what it models | abstract specification |
|---|---|---|
| `SessionManager` | bus, dispatchers, session map, one goroutine per session, crash, exit, restart | |
| `SessionDelivery` | the same with one history variable, and the refinement mapping | `KeyedMailbox` |
| `MergeQueue` | the gate of `forgejo_create_pr`, blocked branches, the requeue after a merge | |
| `IssueClaim` | the labels of one issue: claim, release, failed turns, auto-retry, scanner, scheduler | |
| `ModelCalls` | calls of the model: budget, semaphore, retry, fallback, record | |
| `TurnLoop` | `Agent.ProcessEvent`: turns, tool calls, steering, limits, compaction | |
| `Cascade` | the scheduler's passes, parents, reactivation; sub-issues | `DependencyGate` |
| `EventRouting` | what becomes of a payload: type, agent filter, role, key | |
| `EventStream` | the ring and the subscribers of the live stream | |
| `Webhook` | the handler of deliveries, with the two above | |
| `ReviewLoop` | one pull request between review, rework and the gated merge; uses `EventRouting` | |
| `WorkingCopy` | the clone of a session, the tools on it, `forgejo_create_pr`, the remote | |
| `IssueLabels` | labels by name and ID, as the client changes them | |
| `SpecCycle` | what a merged specification does; uses `IssueLabels` | |
| `MC...` | instances for TLC | |
| `...Proofs` | theorems and proofs, a module per component, but for `AfterMergeProofs`, which is about `Cascade`, `MergeQueue` and `SpecCycle` | |

Every model is closed: events, labels, merges and faults come from actions of
the environment. Messages and names are model values or members of small sets;
of the forge only what the code reads is kept. `map` in PROJECT.json gives the
lines behind each definition.

### SessionManager, SessionDelivery

`tpc`, `tevt`, `tsid` of a thread say where `handleEvent` / `getOrCreate` is, in
the Run loop or in a goroutine of its own; `lock` is `m.mu` where it is held
across two steps (`evictOldest` and the creation that follows); `spc`, `skey`,
`queue`, `cur`, `ctx`, `recovery` are a `Session` and its goroutine, and `ctx`
whether the context is live, cancelled or past the deadline; `store`, `stale`,
`workdir`, `cp`, `lc` outlive the process. `Lookup` to `EvictAndFail` are the
paths through `getOrCreate`; `Send`, `Block`, `SendTimeout` the end of
`handleEvent`; `Start` to `Deadline` is `runSession`; `ReapIdle`, `MarkStuck`,
`RowAges`, `CleanupOldWorkDir` are the tickers; `Signal` to `Restart` are `main`,
`shutdownAll`, `Drain` and `restoreSessions`. A session object that the map has
dropped is kept as long as its goroutine runs, because that is where the races
are: its key may have a successor meanwhile.

A turn is one step with three outcomes (`TurnLoop` opens it up); a gate of
`handleEvent` is `Consume`, which may swallow any event; a handler that calls
`handleEvent` again is a further event; `IdleForTimeout` states what hours
without activity imply. The database fails in two ways only, an INSERT on a key
that has a row and any call under a context that is done. `-clean` is left out.

`KeyedMailbox` promises that an event is worked on at most once, that two events
of a key are never worked on together, and that what is finished or lost stays
so. `SessionDelivery` computes the status of an event from where it is.

### MergeQueue, IssueClaim

A branch stands for its issue, its session and its pull request. `agent` is where
the session is (`gated` is between `CheckGate` and the POST, when build and tests
run), `row` and `retries` the table `blocked_branches`; a requeuer is the
goroutine a merge starts. `Faults` says which calls of `CheckGate` may fail, the
reading of a pull request's files among them, on which the gate fails open. The
label call of `OnSessionBlocked`, that of the gate, the label call of the requeue
and `ResolveBlockedBranch` may fail at any time: the code drops their errors, and
the last runs under what is left of the requeue's 30 seconds. Two histories tell
what that does: `blind` has the pairs of branches whose gates could not see one
another, `apart` the rows that a failed call has left without their label.

`IssueClaim` has one issue, and each call that reads or writes its labels is a
step. `run[s]` is the goroutine of a session: the claim (`FindsReady` reads,
`ClaimsIssue` replaces the labels by what was read), the turn, the label calls of
a failed turn (`CallsForge`), `revertClaim`. `retrier` is `runAutoRetry`,
`schedulerCalls` are those of `checkAndUnblock`, which go by an older listing.
`onPage` says whether the issue is on the first page of the open ones, which is
all the scanner reads; a count of failures that cannot be read is zero, as in
`runAutoRetry`, and noted (`miscounted`).

### ModelCalls, TurnLoop

`ModelCalls` has one action per place a turn's call can be at: the check of the
key's budget, that of the month, the slot, the request, the backoff, the answer,
the row. `Finish` of either kind, cancellation and every status are among the
outcomes; a sum that cannot be read counts as nothing, as in the code.

`TurnLoop` keeps of the conversation who speaks and how many calls an answer
makes, which is all that providers check of it. The labels are read once for an
event (`StateRead`), analysis mode once for a session. `hidden` is the set of
excluded tools, which the comment limit and the hard gate each replace.

### Cascade, Webhook, ReviewLoop

A pass of `Cascade` is a goroutine: it lists, scans issue after issue (reading
dependencies call by call), unblocks its candidates in the order of priority with
two label calls each, starts another round, looks after parents. A listing is the
first page of what is open, pull requests included (`OnPage`, `PageSize`); an issue
leaves it when newer ones open. `due` is history: the issues of its first listing
it still owes a visit.

`Webhook` has one action per step of `handleWebhook`, so that two requests for one
delivery interleave between lookup and mark. The client may hang up (`hungUp`):
every later call of the request fails, `Publish` may drop the event and the row of
the delivery is not written, while the mark stays. `Taken` is what the manager makes
of an event's key: a person's comment on an open pull request goes to a fix session
whatever the labels say. `unspec` and `unclosed` are history and say whether, at
some point while the request was handled, the label was missing or the pull request
open, or a call failed.

In `ReviewLoop` the manager evaluates a merge in six calls; `missed` collects the
conditions that have not held since. The sessions of the pull request push and
review; notifications can be delivered in any order, or get lost. Sessions also
merge, by `forgejo_merge_pr` (`SessionMerges`), which reads neither labels nor checks:
a reviewer may where the policy allows it, and is asked for no approval; an
implementer may always, and is asked for one unless the pull request is the
agent's own. The other policy, require-review, is left out; it would ask for the
label `approved`, and only if it can be read.

### WorkingCopy

A commit is its number, a branch the set of commits reachable from it. Two files
are kept, the code and the tasks of a change, each a set of lines; a three-way
merge conflicts where both sides changed the code. The agent is the environment:
it may call any tool at any time, while `forgejo_create_pr` goes through its
gates step by step and other sessions merge, and push to the branch. A push of the
bash tool may be forced (`BashForces`), as the stale gate tells the agent to when its
rebase fails; the command names no branch, so that it is let through on main as
well. The fix session, the mirror image, only pushes. `proven` and
`excused` are history: the tree last built and tested for the pull request, and
whether one of the known ways around the gates was taken.

### SpecCycle

Two pull requests, `spec` which brings the change, and `work` on one of its
issues. Each starts two goroutines on its merge, one that generates issues and
one that moves labels; every label call is the sequence of requests it is in the
client. A crash cuts everything off. The client reads one page of the repository's
labels; `IssueLabels`, and what is checked and proved of it, is about repositories
whose labels fit on it.

## 3. Runs

TLC explores each instance completely. Every property of a run has a mutant in
PROJECT.json: a changed definition under which the run finds a violation.

| run | instance | distinct states | shows |
|---|---|---|---|
| `SessionSafety` | 2 keys, 1 slot, 2 dispatchers, 3 session objects, 1 restart | 298,536 | the limit, no orphan, rows describe the map, first turns are resumed |
| `SessionLive` | 1 key, 2 slots, 2 events, 2 dispatchers, no restart, fairness | 61,589 | a queued event is taken, a signalled process ends |
| `SessionDelivery` | 1 key, 2 slots, 2 events, a channel of 1, 1 restart | 235,165 | one event of a key at a time; `KeyedMailbox` is implemented |
| `MergeQueue` | 2 overlapping branches, 2 requeuers, calls of the gate, the labels and the rows that may fail | 659,052 | overlap only by race or unread files, rows and labels agree but for failed calls, a retry is used once |
| `IssueClaim` | 2 sessions in turn, 3 events and faults, fairness | 320,936 | the claim is one session's and is given back, giving up is final if the count is read, a ready issue on the page is picked up |
| `ModelCalls` | 3 sessions, 2 of one key, limits 3 and 4, 1 fault | 1,005,888 | the overrun of both budgets is bounded |
| `TurnLoop` | 3 roles, 2 events of 3 turns of 2 calls | 1,303,004 | the conversation stays well formed, the comment tool hidden, blocked issues alone |
| `Cascade` | a parent and a task, 2 pull requests, a page of 2, 2 goroutines, 1 extra event | 947,632 | a pass overlooks nothing of its page, parents are settled; `DependencyGate` is implemented |
| `Webhook` | 2 deliveries of 6 payloads, 2 requests, 1 extra event, 1 stream client, a ring of 2 | 1,557,170 | repeats, filters and routes; the stream repeats nothing |
| `ReviewLoop` | 1 pull request, 2 commits, 1 review, 1 attempt, 1 extra event, fairness | 484,981 | no merge of the manager past the gate, what is left of it for sessions, the cap; what is ready is merged, what failed is answered |
| `WorkingCopy` | 1 line on each side, 4 commits, 2 unusual calls | 1,211,426 | what is proposed was tested; only forced pushes take commits off, merges lose nothing unseen |
| `SpecCycle` | 3 tasks in 9 shapes, 2 merges, 2 failed requests or crashes | 927,639 | an issue for each open task, ordered where paths meet, labels settle |

**Bounds.** Two dispatchers, requests, passes, branches or sessions are what a
race takes; a third repeats a pair. One slot makes every second key evict; with
one key and two slots, two dispatchers can miss together. A channel, bus or ring
of one entry fills, as one of 64 does with 65. One restart lets what a process
left behind meet a second one. In `TurnLoop` three turns are enough for the hard
gate at the second to be followed by another, and two calls for one to fail
after another. In `Webhook` a ring of two both replays and overwrites. In `Cascade`
two open pull requests, or one and an issue, fill the page. In
`WorkingCopy` four commits are the first, one of the agent's,
one of another's and a merge, rebase or second of the agent's; every unusual
step (a lost push, a failed fetch, a conflict, a reclone, a tool of a change, a
commit or a push by bash, forced or not, a whole file read from the cache or into it)
costs one of two. In `SpecCycle` the last of three tasks names
the directories of both others, with every choice of what is marked parallel, or one. `MaxExtras`, `MaxEvents`,
`MaxSpare`, `MaxFaults` count everything from outside and everything that goes
wrong, so that what remains always comes to rest. The theorems of section 6 have
none of these bounds.

**Symmetry, view, deadlock.** Session objects, branches, requeuers, requests,
deliveries and passes of the scheduler are interchangeable where a run says so:
nothing orders or chooses among them. The view of `MCSessionManager` hides the
fields of an object nobody refers to, which `Open` overwrites before anything
reads them. Neither is used where liveness is checked: the action property of
`MergeQueue` and the refinement of `Cascade` speak of single steps.
`CHECK_DEADLOCK FALSE` stands where the world really may come to rest: an issue
nobody touches, a merged pull request, an agent that has had its events.

## 4. Fairness

`SessionManager`: goroutines, dispatchers and the exit path are weakly fair. A
turn ends, because the number of turns, the retries of the provider and the
session deadline bound it; the timer of a blocked send fires, and a drain has a
deadline. Webhooks, signals, crashes, deadlines and tickers are not fair.

`IssueClaim`: the goroutine of a session, the scanner, `runAutoRetry` and the
scheduler's calls are weakly fair: tickers and goroutines. One condition is
strong, the creation of a session for an event of the scanner: such an event is
a green light, no gate of `handleEvent` is for it, and only the limit of
sessions refuses it; that gives way when turns end, and the scanner asks again
every time. `WorkIsPickedUp` leaves out runs in which a label call failed, the
process died or an event of `runAutoRetry` was dropped: after any of these the
code looks for the issue by labels it no longer has. It also leaves out an issue that
goes off the first page of the open ones: the scanner does not see it there.

`ReviewLoop`: the dispatcher goes on (its calls have timeouts), the turns of
sessions end, and a notification is delivered or lost. What people, check runs
and restarts do is not fair. `ReadyMerges` and `FailureAnswered` leave out runs
in which a call failed or a notification or event was lost (`lost`).

The other modules state safety only. Of the passes of `Cascade` nothing is
claimed to happen eventually, since no pass has to be started.

## 5. Where the code and its documents differ

Found while modelling, by reading the code beside the quoted texts or by asking
TLC for the state in question. The models do what the code does.

Sessions.

- A session past its deadline swallows events: `runSession` returns, the session
  stays in the map and in its row, and later events go into a channel nobody
  reads, until it is evicted or reaped (manager.go:1005: "A dropped event (human
  comment, PR merge, etc.) is worse than a brief delay.").
- Drain does not wait: Run's `shutdownAll` empties the map at once, so that `Drain`
  finds no busy session and `main` returns with a turn under way.
- A second turn that a crash interrupts is not resumed: checkpoint and state of
  the first are still there. For a first turn the promise holds (`FirstTurnResumes`).
- `cleanupOldWorkDirs` removes a directory in use: the row that a restart left
  alone keeps its `last_active`, also when its key gets a new session.
- The requeue reads the gate the wrong way round (`CheckGate` returns `blocked`,
  the caller names it `cleared`): what is still blocked is dispatched.
- A completed session gives its issue back: `claimedReady` outlives the turn, and
  on eviction `revertClaim` turns `in_progress` into `ready` once more.
- `runAutoRetry` counts the first failure as a retry, and takes its labels off
  before the event is handled, which may be dropped.
- `runAutoRetry` drops the error of `CountFailedRetries` and goes on with zero, so
  that an issue that was given up is tried again (`miscounted`).
- The merge gate fails open when the files of a pull request cannot be read; the
  retry loop around `CheckGate` is dead, since it never returns an error.
- A blocked branch keeps its row without its label when the label call fails, or when
  `ResolveBlockedBranch` does after the requeue took the label off and dispatched
  (manager.go:496,521,540): the next requeue dispatches it at the same count.
- A failed `forgejo_create_pr` ends the event like a success; a failed turn writes
  no checkpoint; `Compact` keeps messages where README.md:169 says turns;
  `max_concurrent_llm_calls` limits one client, never sessions against each other
  (README.md:197).

Pull requests.

- `evaluateAutomerge` is not the only way to merge: `forgejo_merge_pr` merges past it,
  for a reviewer of a yolo repository with no review at all, for an implementer with
  any approval, or none if the pull request is the agent's own, with a red check and
  `changes_requested` on it. `GateHolds` says what is left.
- The stale gate asks for `git push -f origin HEAD` (stalegate.go:77-81), which the
  bash tool lets through on any branch (local_tools.go:125-137): what a fix session
  has pushed meanwhile is lost, and on main what others have merged.
  `RemoteOnlyGrows` says that nothing else takes commits off.
- A person's comment on a specification's pull request begins rework by an
  implementer (manager.go:921-969), although the routing table gives it to the project
  manager (webhook/router.go:97-105); `SpecNotReworked` holds for all other events.
- After the stale gate's rebase, the push of a branch that was pushed before is
  rejected, and so is every later one: the lease in `--force-with-lease` names no
  branch that the push updates. A second `forgejo_create_pr` then passes the stale
  gate, ignores the failed push, tests the rebased tree and proposes the old
  commits (stalegate.go:5-8). `excused` covers it.
- A failed rebase is never aborted; `checkout -b` fails when the branch exists,
  and what follows commits and pushes where the clone is, on main too;
  `openspec_mark_task` and `openspec_archive_change` push HEAD whatever it is;
  `git commit` by bash is not checked; the git tool tests the disk, not the commit.
  `MainOnlyMerged` says that nothing else reaches main (`strays`).
- `read_file`'s cache is never invalidated: `OthersKept` holds but for the lines a
  whole-file write from it took away (`blind`).
- `pruneMergedBranches` goes by the local main, which nothing updates.
- An agent's own ready pull request may never be evaluated: review and label
  events of pull requests with the agent's marker are filtered out, although
  conditions are "evaluated on the review event"; `ReadyMerges` is stated for
  the others.
- `evt.Role` and `IsFix` are not read by the manager: a fix session that a failed
  check or a review creates is a reviewer without the tools to write
  (manager.go:1590-1597), `RoleFor` models it. Human comments bypass the cap.
- An approval is tied to no commit, and the merge names none.

Issues.

- `ListOpenIssues` "returns all open issues" (forgejo/client.go:592) and
  `listOpenIssues` "returns all open issues in a repo" (scheduler/scheduler.go:626),
  but both read the first page, with pull requests on it: neither the scanner nor a
  pass sees an issue behind a full page.
- An issue that a merge unblocks can be taken for its parent and closed by the
  same pass (bug-report-dependency-block/spec.md:78); members of a cycle are left
  out in the first round only; every pass adds `ready` again to issues in progress;
  `checkParentCompletion` counts an open issue without a pull request as complete.
- An implementer's pull request that carries the tick of its task counts as a
  specification's when it is merged: issues are generated again
  (archive/2026-06-04-spec-hardening/specs/speccycle/spec.md:4 has one issue per
  task). Issues are created without `blocked`, so that serial ones start at once.
  `MarkTaskInTasksMd` is a stub; `ArchiveChangeRequested` and `PMReactivate` hand
  an event of their own type to `handleEvent`.
- Closing the scaffold takes `blocked` off all issues, whatever blocked them.

Webhooks.

- A delivery is answered as accepted though the bus dropped it, and its
  redelivery is refused as a duplicate (`lost` in `SeenIsDealtWith`). When the client
  hangs up first the same may happen (event/event.go:117), with no row in the
  delivery table either (`unrecorded`); a failed read
  of labels counts as no labels; the test webhook has no signature, deduplication
  or route. The stream loses what is broadcast between replay and subscription,
  and the server's write timeout ends it every 30 seconds.

## 6. Proofs

All theorems hold for every value of the constants that the named assumptions
allow, any number of steps, sessions, deliveries, commits. Each component has an
inductive invariant (`IInv`; `CInv` of `Cascade`, `QueueInv` of `MergeQueue`,
`CycleInv` and `IssuesInv` of `SpecCycle`; with `DInv` for the refinement of `SessionDelivery`,
`OthersOK` for `OthersKept` and `SInv` for the stream of `Webhook`), checked by TLC on the run's instance before it was proved; one lemma per action
shows that the action keeps it, and the theorems follow from it. No theorem
assumes more than the `ASSUME` of its module. The definitions
of `MergeQueue` and `SpecCycle` that would have the names of those of `Cascade`
are called `QueueInit`, `CycleInit` and so on, because one module holds the proofs
of all three.

| module | theorems | why the invariant is more than the properties |
|---|---|---|
| `SessionManagerProofs` | `TypeCorrect`, `Capped`, `Reachable`, `Serial`, `RowsMatch`, `FirstTurnIsResumed`, `ImplementsMailbox` | `DispatchersOK`: what a dispatcher holds at each place, and that nobody touches its victim while it has the lock; `MapOK`, `RowsOK`; `DownOK`: what the end of a process leaves behind. `DInv` adds that an event is in one place only (`EachOnce`), that a dispatcher between two events holds none (`HandsOK`), a session none but those of its own key (`OwnKey`), and that nothing of all this outlives the process (`DownEmpty`) |
| `AfterMergeProofs` | of `Cascade`: `CascadeTypes`, `PassesComplete`, `ParentsAreSettled`, `ImplementsGate`; of `MergeQueue`: `Race`, `RowsAndLabels`, `Retries`; of `SpecCycle`: `SpecLabelsSettle`, `TasksIssued`, `TasksOrdered`, `CycleTypes` | `PassOK`: what is due is still to be looked at or a candidate, and a candidate has had dependencies that are all settled, however old the listing is; `RepositoryOK`: dependencies of Forgejo hold nobody up, timers are of merged pull requests. `GatedOK`: of two overlapping branches past the gate it is noted that one gate did not see the other, for otherwise it would have; `UsedOK`, `ListsOK`: listings against retry counts, and which of them a failed resolve leaves to be used again. `CallsOK`: a removal that goes on has all labels of its name in its hands, and nobody adds one back; an ID once found stays one of its name. `CallersOK`: where a goroutine is fixes which call it has under way. `TasksOnce`, `TasksAll`: a task is ahead of a generation or behind it, once; `TicksStay`: what was ticked at a merge stays ticked; `OrderKept`: every issue made is the last serial one, behind it, or was created beside those still to come |
| `IssueClaimProofs` | `TypeCorrect`, `InProgressClaimed`, `Exclusive`, `ForGood` | `LiveIsHeld`: a live goroutine is the one in the map; `ClaimIsAlone`: under a claim no session that can still call the forge is about to claim; `GivenUp` |
| `ModelCallsProofs` | `CallsInvariant` (types), `MonthBudgetHolds`, `SessionBudgetHolds`, `TurnRequestsBounded` | `MonthReserve`, `KeyReserve`: what calls past the check may still cost is set aside |
| `TurnLoopProofs` | `TypeCorrect`, `AllAnswered`, `BoundedTurns`, `HiddenForGood`, `BlockedIsLeftAlone` | `MessagesOK`: in the middle of an answer exactly its last calls want results; `CountOK`: turns used against events; `SeenOK` |
| `WebhookProofs` | `TypeCorrect`, `PublishedOnce`, `NothingTurnedAway`, `SpecsStayWithThePM`, `ClosedIsQuiet`, `SentOnce` | `OnceOK`: a delivery not excused is in one request's hands, and none that may still publish it has company; `DealtOK`; `EventsOK`: what is known of the event at each place, and that the history misses nothing, whether calls are answered or the client has hung up; `RoutesOK`: an event with a key of rework is on the bus only if its pull request was not a specification's at some time of the request. `DrawnOK`: an event's number is drawn by one request and enters the ring once; `StreamOK`: as long as no two broadcasts overtook one another, what a client was sent and then its channel rise, and neither is ahead of the ring |
| `ReviewLoopProofs` | `TypeCorrect`, `MergesAreGated`, `ReworkIsCapped` | `GateOK`: at each of the six calls, what can no longer be missed, also when a session merges meanwhile; `ReworkOK`: every grant is paid for by an attempt counted before it |
| `WorkingCopyProofs` | `TypeCorrect`, `ProposedIsTested`, `MainIsProtected`, `ForgeOnlyGrows`, `OpensFresh`, `TipsHaveOthers`, `OthersSurvive` | `RefsOK`, `HeadOK`: every reference is to commits there are, and a rebase has a branch to go back to; `CallOK`: what each gate of `forgejo_create_pr` has made sure of, and that nothing moves the clone meanwhile. `OthersOK`: the tip of every branch has the other people's lines of all commits behind it, and so have the index and the files of the clone, but for what is noted as `blind` |

Arguments worth a word. **Sessions**: whatever takes a session out of the map has
cancelled it; two live goroutines of a key would both be the one in the map.
**Claims**: the label calls are not atomic, but a session with an old listing has
lost its context, so that its PUT fails. **Mailbox**: the status of an event is
read off the place it is in, so that `EachOnce` makes each step of the manager one
of the mailbox or none; that a turn begins alone for its key is `NoOrphan`.
**Passes**: a listing is old when it is acted upon, but a number that is settled
stays so (`Forward`, `SettledStays`), so that what is true of a pass in one state
is true of it in every later one (`PassStays`), and an action has only to be right
about the pass it moves, in the state it moves it in (`PassMoves`). **Webhooks**: a published delivery has
passed the lookup, the only step that asks whether it was seen; a second request
beyond it must have been there together with the first, or have come after an
expiry, and either is noted. The routing table is used through one lemma: the
first rule that matches for a specification's pull request never gives a key of
rework. **Streams**: the events a client that comes
back is owed are the last places of a ring that is in order, and an interval of numbers
has an enumeration in order, which is all that is used of what is replayed; the rest is that nothing is sent before it is in the ring. **Labels**: labels of a
repository are only added, and a pull request gets one by a POST with IDs read
before, so that what a call found is still true when it acts on it. **Tasks**: that
a set of tasks can be put in order (`Orders`), and that there is a set in which a
task is unless it overlaps one before it that is (`Chooses`), are shown for the least
number of tasks for which they would fail; then a new issue waits for what its
predecessor waits for, and whatever waited for something still does (`NewIssue`).
**Merges**: the list of what is missed only shrinks during an
evaluation, and each call takes its condition off it. **Clones**: commits are only
appended, so that every branch keeps its tree (`Growing`, `TreeStays`), a new
commit is the last of its branch (`TipOfNew`, which rests on the existence of a
greatest element, from the well-foundedness of the natural numbers), and a push
puts what is pushed on its branch or nothing anywhere (`Pushing`); a forced one drops
commits of the branch, but puts on it one whose tip has what is behind it. A merge or a
rebase keeps the lines both sides have had since they parted, a commit is made
from an index that has them, and none is ever rewritten: so a line of another
person that a branch had it keeps (`OthersStep`).

**Only checked by TLC.** Liveness under fairness, which is out of the provers'
reach: `QueuedEventServed`, `ShutdownEnds`, `WorkIsPickedUp`, `ReadyMerges`,
`FailureAnswered`. Every other property of a run is a theorem too. To that end
definitions say what comes out and not how it is computed: `InOrder` (of
`EventStream` and of `SpecCycle`) is the only sequence in order of a set's
elements, `Accepted` the only set that fits what `validateParallelTasks` asks of
each task, and the property `WaitsFor` speaks of closed sets. The provers cannot
expand `SelectSeq`, and know of a fold or a recursive function only what an
induction over data would show. Type invariants that are theorems are not repeated
in the runs.

## 7. What is not modelled, and the plan

Not modelled: the scaffold and role gates of `handleEvent` and its nudges of
inactive sessions (a question label put on the triggering issue, while only a
push that closes a scaffold unblocks the others, is an observation of reading);
the policy cache (a repository's policy is an input, or unread); the sandbox's
path and command checks (string functions); auto-registration; configuration,
metrics, memory; the evaluation harness and user interfaces. Within modelled
parts: forced pushes of the fix session, `commit --amend`, the deletion of a branch after its
merge, untracked files; reviews with the verdict "commented"; people who close
issues under a pass; pull requests on the scheduler's listing that a pass would label
(their place on the page is taken by the first-page choice); a failed write of the rework
counter, after which the code lets that pass go uncounted; queries that only read.

Planned next: the gates of `handleEvent` for scaffolds and roles, and the policy
cache, which `TurnLoop` and `ReviewLoop` take for read or unread.
