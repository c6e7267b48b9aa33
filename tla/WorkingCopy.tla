---------------------------- MODULE WorkingCopy -----------------------------
(***************************************************************************)
(* The clone of one implementer session and the repository it pushes to:   *)
(* the tools that read, write, commit and push (internal/tool), the stale  *)
(* gate and forgejo_create_pr, and what the session manager does to the    *)
(* clone. The agent is the environment: it may call any tool at any time.  *)
(*                                                                         *)
(* A commit is its number; commits[n] is the tree it holds, and a branch   *)
(* is the set of commits reachable from it, whose largest is its tip: a    *)
(* push is a fast-forward iff the remote branch is a subset. Of the tree   *)
(* two files are kept, the code and the tasks of a change, each a set of   *)
(* lines. Clash is what a conflicting rebase leaves in the code.           *)
(***************************************************************************)
EXTENDS Integers, FiniteSets, FiniteSetsExt, Sequences

CONSTANTS
  Ours,        \* lines the agent writes into the code
  Theirs,      \* lines of other people and of other sessions
  Scope,       \* the files write_file may write: SetAllowedPrefixes
  Scaffold,    \* AllowProtectedPush: a session that may commit on main
  MaxCommits,  \* bound on commits
  MaxSpare,    \* bound on failed fetches and pushes, conflicts, a fix
               \* session's pushes and the less usual calls
  None

Clash == "clash"
Mark  == "mark"       \* a ticked box in tasks.md
Moved == "moved"      \* the change is in the archive
Code  == Ours \cup Theirs \cup {Clash}
Tasks == {Mark, Moved}
Lines == Code \cup Tasks
Branches == {"main", "work"}

ASSUME WorkingCopyAssumption ==
  /\ ({Clash} \cup Tasks) \cap (Ours \cup Theirs) = {} /\ Ours \cap Theirs = {}
  /\ Scope \subseteq {"code", "tasks"} /\ Scaffold \in BOOLEAN
  /\ MaxCommits \in Nat \ {0} /\ MaxSpare \in Nat

VARIABLES
  spare,     \* how many more of those there may be
  commits,   \* the tree of every commit
  remote,    \* the branches of the forge; {} is a branch it does not have
  origin,    \* origin/main as last fetched or pushed
  local,     \* refs/heads
  head,      \* the branch checked out, or "rebase" in a conflicted rebase
  detached,  \* the commit a conflicted rebase is at
  index, disk,
  cache,     \* readFileTool.cache for the code, None before the first read
  call,      \* how far forgejo_create_pr is, and whether it has put all that
             \* it tests on the branch
  pr,        \* the pull request of the branch
  proven,    \* history: the tree that was built and tested for the pull
             \* request or before the last verified push
  excused,   \* history: the branch may be something else than that tree
  merged,    \* history: our lines that reached main in a pull request
  strays,    \* history: our lines that were pushed to main
  blind      \* history: their lines a write from an outdated read took away

refVars  == <<remote, origin, local>>
treeVars == <<head, detached, index, disk>>
readVars == <<cache, blind>>
proofVars == <<proven, excused>>
vars == <<spare, commits, refVars, treeVars, readVars, call, pr, proofVars, merged, strays>>

Idle == [step |-> "idle", whole |-> TRUE]

Init ==
  /\ spare = MaxSpare
  /\ commits = <<{}>>
  /\ remote = [main |-> {1}, work |-> {}] /\ local = remote /\ origin = {1}
  /\ head = "main" /\ detached = {} /\ index = {} /\ disk = {}
  /\ cache = None /\ blind = {}
  /\ call = Idle /\ pr = "none"
  /\ proven = {} /\ excused = FALSE /\ merged = {} /\ strays = {}

Usual   == UNCHANGED spare
Unusual == spare > 0 /\ spare' = spare - 1
Pays(unusual) == IF unusual THEN Unusual ELSE Usual
Stale(main) == main # remote.main     \* the fetch failed

-----------------------------------------------------------------------------
(* Git.                                                                    *)

TreeOf(log) == IF log = {} THEN {} ELSE commits[Max(log)]
HEAD  == IF head = "rebase" THEN detached ELSE local[head]
Clean == disk = TreeOf(HEAD) /\ index = TreeOf(HEAD)
New   == Len(commits) + 1
FileOf(l) == IF l \in Code THEN Code ELSE Tasks

Build(tree) == Clash \notin tree   \* and it may still fail

(* A three-way merge, which conflicts only where both sides changed the    *)
(* code.                                                                   *)
Merge(base, ours, theirs) == (ours \cap theirs) \cup (ours \ base) \cup (theirs \ base)
Fork(a, b) == TreeOf(a \cap b)
MayConflict(a, b) ==
  Cardinality({TreeOf(a) \cap Code, TreeOf(b) \cap Code, Fork(a, b) \cap Code}) = 3

(* Checking out keeps local changes, and refuses to where the commit       *)
(* differs in a file that has some.                                        *)
ChangedLocally(f) == {disk \cap f, index \cap f} # {TreeOf(HEAD) \cap f}
MayCheckOut(log) == \A f \in {Code, Tasks} : ChangedLocally(f) => TreeOf(HEAD) \cap f = TreeOf(log) \cap f
CarriedOver(tree, log) ==
  {l \in Lines : IF ChangedLocally(FileOf(l)) THEN l \in tree ELSE l \in TreeOf(log)}

CheckOut(b, log) ==
  /\ head # "rebase" /\ MayCheckOut(log)
  /\ head' = b /\ disk' = CarriedOver(disk, log) /\ index' = CarriedOver(index, log)

(* `git commit`: a tree, the index, becomes a commit on what is checked    *)
(* out, unless a conflict has not been added yet.                          *)
Unmerged == head = "rebase" /\ detached \subseteq remote.main /\ index \cap Code = TreeOf(HEAD) \cap Code

Commit(tree) ==
  /\ ~Unmerged /\ tree # TreeOf(HEAD)
  /\ Len(commits) < MaxCommits
  /\ commits' = Append(commits, tree)
  /\ IF head = "rebase" THEN detached' = detached \cup {New} /\ UNCHANGED local
     ELSE local' = [local EXCEPT ![head] = @ \cup {New}] /\ UNCHANGED detached

(* `git push -u origin HEAD`. There is no branch to name in the middle of  *)
(* a rebase, and the forge takes fast-forwards only, unless forced.        *)
Outcomes == {"ok", "lost", "rejected"}
AcceptsForced(b, log) == b # "rebase"
Accepts(b, log) == b # "rebase" /\ remote[b] \subseteq log

PushHead(fetched, b, log, how) ==
  \/ /\ how = "ok" /\ Accepts(b, log)
     /\ remote' = [remote EXCEPT ![b] = log]
     /\ origin' = IF b = "main" THEN log ELSE fetched
  \/ /\ how = "lost" \/ (how = "rejected" /\ ~Accepts(b, log))
     /\ origin' = fetched
     /\ UNCHANGED remote

(* What a push brought to main without a pull request.                     *)
Strays ==
  strays' = IF remote'.main = remote.main THEN strays
            ELSE strays \cup ((Ours \cap commits'[Max(remote'.main)]) \ TreeOf(remote.main))

(* `git rebase` on a tree without local changes. What main has already is  *)
(* left out; the rest becomes one new commit.                              *)
RebasesCleanly(onto) ==
  /\ Clean /\ head # "rebase"
  /\ LET tree == Merge(Fork(HEAD, onto), TreeOf(HEAD), TreeOf(onto))
         onMain == tree = TreeOf(onto)
     IN /\ onMain \/ Len(commits) < MaxCommits
        /\ commits' = IF onMain THEN commits ELSE Append(commits, tree)
        /\ local' = [local EXCEPT ![head] = IF onMain THEN onto ELSE onto \cup {New}]
        /\ disk' = tree /\ index' = tree
  /\ UNCHANGED <<head, detached>>

(* A failed rebase is not aborted: the clone stays in the middle of it.    *)
RebaseConflicts(onto) ==
  /\ Clean /\ head = "work"
  /\ MayConflict(HEAD, onto)
  /\ head' = "rebase" /\ detached' = onto
  /\ index' = TreeOf(onto)
  /\ disk' = TreeOf(onto) \cup {Clash} \cup (TreeOf(HEAD) \cap Ours)
  /\ UNCHANGED <<commits, local>>

-----------------------------------------------------------------------------
(* The session manager and the start of an event.                          *)

(* getOrCreate clones once and fetches; the tools, and with them the cache *)
(* of read_file, are those of a new agent.                                 *)
SessionStarts ==
  /\ call = Idle
  /\ origin' \in {origin, remote.main} /\ Pays(Stale(origin'))
  /\ cache' = None
  /\ UNCHANGED <<commits, remote, local, treeVars, blind, call, pr, proofVars, merged, strays>>

(* cleanupOldWorkDirs: the directory goes, and the next session clones.    *)
Recloned ==
  /\ Unusual
  /\ call = Idle
  /\ local' = [main |-> remote.main, work |-> {}] /\ origin' = remote.main
  /\ head' = "main" /\ detached' = {}
  /\ disk' = TreeOf(remote.main) /\ index' = TreeOf(remote.main)
  /\ cache' = None
  /\ UNCHANGED <<commits, remote, blind, call, pr, proofVars, merged, strays>>

(* Step 4 of HandleEvent, for an event of a pull request: fetch its branch *)
(* and `checkout -B`, which resets the local branch to what was fetched.   *)
BeginsOnPR ==
  /\ Usual
  /\ call = Idle /\ pr = "open"
  /\ CheckOut("work", remote.work)
  /\ local' = [local EXCEPT !.work = remote.work]
  /\ UNCHANGED <<commits, remote, origin, detached, readVars, call, pr, proofVars, merged, strays>>

(* pruneMergedBranches goes by the local main.                             *)
PruneMergedBranches ==
  /\ Usual
  /\ head = "main" /\ local.work # {} /\ local.work \subseteq local.main
  /\ local' = [local EXCEPT !.work = {}]
  /\ UNCHANGED <<commits, remote, origin, treeVars, readVars, call, pr, proofVars, merged, strays>>

-----------------------------------------------------------------------------
(* read_file and write_file.                                               *)

(* A full read is answered from the cache, which nothing invalidates; a    *)
(* read of a range goes to the disk.                                       *)
FullRead == IF cache = None THEN disk \cap Code ELSE cache
RangeReadCached == FullRead
RangeRead == disk \cap Code

ReadFile ==
  /\ Unusual
  /\ call = Idle
  /\ cache = None /\ cache' = FullRead
  /\ UNCHANGED <<commits, refVars, treeVars, blind, call, pr, proofVars, merged, strays>>

InScope(f) == f \in Scope

(* write_file replaces the whole file. The agent reads it right before,    *)
(* which is part of the step, and adds a line or takes the conflict out.   *)
WriteFile(l, whole) ==
  LET basis == IF whole THEN FullRead ELSE RangeRead
  IN /\ Pays(whole)
     /\ call = Idle /\ InScope("code")
     /\ cache' = IF whole THEN basis ELSE cache
     /\ disk' = ((basis \cup {l}) \ {Clash}) \cup (disk \ Code)
     /\ disk' # disk
     /\ blind' = IF whole THEN blind \cup ((disk \cap Theirs) \ basis) ELSE blind
     /\ UNCHANGED <<commits, refVars, head, detached, index, call, pr, proofVars, merged, strays>>

-----------------------------------------------------------------------------
(* The git tool and the commands of the bash tool.                         *)

GitAdd ==
  /\ Usual
  /\ call = Idle /\ index # disk
  /\ index' = disk
  /\ UNCHANGED <<commits, refVars, head, detached, disk, readVars, call, pr, proofVars, merged, strays>>

Fetch ==
  /\ Usual
  /\ call = Idle /\ origin # remote.main
  /\ origin' = remote.main
  /\ UNCHANGED <<commits, remote, local, treeVars, readVars, call, pr, proofVars, merged, strays>>

CheckoutBranch(b) ==
  /\ Unusual
  /\ call = Idle /\ head # b /\ local[b] # {}
  /\ CheckOut(b, local[b])
  /\ UNCHANGED <<commits, refVars, detached, readVars, call, pr, proofVars, merged, strays>>

CheckoutNew ==
  /\ Usual
  /\ call = Idle /\ head = "main" /\ local.work = {}
  /\ head' = "work" /\ local' = [local EXCEPT !.work = HEAD]
  /\ UNCHANGED <<commits, remote, origin, detached, index, disk, readVars, call, pr, proofVars, merged, strays>>

Rebase ==
  /\ call = Idle /\ ~(origin \subseteq HEAD)
  /\ (Usual /\ RebasesCleanly(origin)) \/ (Unusual /\ RebaseConflicts(origin))
  /\ UNCHANGED <<remote, origin, readVars, call, pr, proofVars, merged, strays>>

(* `rebase --continue`, once the resolution is committed, and `--abort`.   *)
RebaseContinues ==
  /\ Usual
  /\ call = Idle /\ head = "rebase" /\ Clean
  /\ head' = "work" /\ local' = [local EXCEPT !.work = detached] /\ detached' = {}
  /\ UNCHANGED <<commits, remote, origin, index, disk, readVars, call, pr, proofVars, merged, strays>>

RebaseAborts ==
  /\ Usual
  /\ call = Idle /\ head = "rebase"
  /\ head' = "work" /\ detached' = {}
  /\ disk' = TreeOf(local.work) /\ index' = TreeOf(local.work)
  /\ UNCHANGED <<commits, refVars, readVars, call, pr, proofVars, merged, strays>>

MayCommitAnywhere == TRUE
MayCommit == head # "main" \/ Scaffold

(* What the branch of an open pull request is known to be.                 *)
Unproven == excused' = (pr = "open") /\ proven' = {}
Proves(tree, whole) == excused' = ~whole /\ proven' = IF whole THEN tree ELSE {}

(* `commit` of the git tool: refused on a protected branch, then build and *)
(* test on the disk, then the push, whose failure is a warning.            *)
GitCommit ==
  /\ call = Idle /\ MayCommit
  /\ Commit(index)
  /\ \/ Usual /\ UNCHANGED <<remote, origin, proofVars>>   \* not verified
     \/ /\ Build(disk)
        /\ \E how \in Outcomes :
             /\ Pays(how = "lost")
             /\ PushHead(origin, head, HEAD \cup {New}, how)
             /\ IF how = "ok" /\ head = "work" /\ pr = "open" THEN Proves(disk, disk = index) ELSE UNCHANGED proofVars
  /\ UNCHANGED <<head, index, disk, readVars, call, pr, merged, strays>>

(* The bash tool looks for the name of a protected branch in a push, and   *)
(* not at commits.                                                         *)
BashCommit ==
  /\ Unusual
  /\ call = Idle
  /\ Commit(index)
  /\ UNCHANGED <<remote, origin, head, index, disk, readVars, call, pr, proofVars, merged, strays>>

BashPush ==
  /\ Unusual
  /\ call = Idle /\ head # "rebase" /\ remote[head] # local[head]
  /\ UNCHANGED commits
  /\ PushHead(origin, head, HEAD, "ok") /\ Strays
  /\ Unproven
  /\ UNCHANGED <<local, treeVars, readVars, call, pr, merged>>

(* `git push -f origin HEAD`, which stalegate.IsStale asks for when its    *)
(* rebase fails. It names no branch, and may be forced on main, too.       *)
BashForces ==
  /\ Unusual
  /\ call = Idle /\ head # "rebase" /\ ~(remote[head] \subseteq HEAD)
  /\ remote' = [remote EXCEPT ![head] = HEAD]
  /\ origin' = IF head = "main" THEN HEAD ELSE origin
  /\ UNCHANGED commits
  /\ Strays /\ Unproven
  /\ UNCHANGED <<local, treeVars, readVars, call, pr, merged>>

-----------------------------------------------------------------------------
(* The tools of a change. They commit the whole index and push whatever is *)
(* checked out.                                                            *)

CommitAndPush(tree) ==
  /\ Commit(tree) /\ index' = tree
  /\ \E how \in Outcomes : PushHead(origin, head, HEAD \cup {New}, how)
  /\ Strays /\ Unproven

NoCommit == UNCHANGED <<commits, refVars, detached, strays, proofVars>>

(* openspec_mark_task: a failed commit restores the file and leaves the    *)
(* mark in the index.                                                      *)
MarkTask ==
  /\ Unusual
  /\ call = Idle /\ Moved \notin disk
  /\ \/ disk' = disk \cup {Mark} /\ CommitAndPush(index \cup {Mark})
     \/ UNCHANGED disk /\ index' = index \cup {Mark} /\ NoCommit
  /\ UNCHANGED <<head, readVars, call, pr, merged>>

(* openspec_archive_change moves the directory, and restores nothing.      *)
ArchiveChange ==
  LET staged == (index \cap Code) \cup (disk \cap Tasks) \cup {Moved}
  IN /\ Unusual
     /\ call = Idle /\ Moved \notin disk
     /\ disk' = disk \cup {Moved}
     /\ \/ CommitAndPush(staged)
        \/ index' \in {index, staged} /\ NoCommit
     /\ UNCHANGED <<head, readVars, call, pr, merged>>

-----------------------------------------------------------------------------
(* forgejo_create_pr for the branch "work", in the order of its gates.     *)

FreshReversed(main) == HEAD \subseteq main
Fresh(main) == main \subseteq HEAD

Reached(step, whole) == call' = [step |-> step, whole |-> whole]
Returns == call' = Idle

(* What is pushed here is on the branch before it is tested.               *)
PushedUntested == IF remote'.work # remote.work THEN Unproven ELSE UNCHANGED proofVars

(* stalegate.IsStale. A branch that holds the main last fetched passes     *)
(* without a fetch. (One that does not cannot hold a newer one, so that    *)
(* the second look, after a fetch, never lets it pass.)                    *)
StaleGatePasses ==
  /\ Usual
  /\ call = Idle
  /\ Fresh(origin)
  /\ Reached("gated", TRUE)
  /\ UNCHANGED <<commits, refVars, treeVars, readVars, pr, proofVars, merged, strays>>

(* A branch that is behind is rebased and pushed, and passes if the push   *)
(* did: the lease names no branch the push updates, so that it is a plain  *)
(* push, which a branch pushed before does not take.                       *)
StaleGateRebases ==
  /\ call = Idle
  /\ ~Fresh(origin)
  /\ \E fetched \in {origin, remote.main}, how \in Outcomes :
       /\ ~Fresh(fetched)
       /\ RebasesCleanly(fetched)
       /\ Pays(how = "lost" \/ Stale(fetched))
       /\ PushHead(fetched, head, local'[head], how)
       /\ IF how = "ok" THEN Reached("gated", TRUE) ELSE Returns
  /\ Strays /\ PushedUntested
  /\ UNCHANGED <<readVars, pr, merged>>

StaleGateBlocks ==
  /\ call = Idle
  /\ ~Fresh(origin)
  /\ \E fetched \in {origin, remote.main} :
       /\ ~Fresh(fetched) /\ origin' = fetched
       /\ \/ Unusual /\ RebaseConflicts(fetched)
          \/ Pays(Stale(fetched)) /\ (~Clean \/ head = "rebase") /\ UNCHANGED <<commits, local, treeVars>>
  /\ UNCHANGED <<remote, readVars, call, pr, proofVars, merged, strays>>

(* Not on the branch: create it, add and commit everything. When it exists *)
(* already, `checkout -b` fails, and the rest happens where the clone is.  *)
(* Then the push, whose failure is a warning.                              *)
PushesNewBranchOnly(b, log, how) ==
  IF head # "work" THEN PushHead(origin, b, log, how)
  ELSE how = "ok" /\ UNCHANGED <<remote, origin>>
PushesBranch(b, log, how) == PushHead(origin, b, log, how)

BranchAndPush ==
  LET target == IF head = "main" /\ local.work = {} THEN "work" ELSE head
      commit == head # "work" /\ disk # TreeOf(HEAD)
      tip    == IF commit THEN HEAD \cup {New} ELSE HEAD
  IN /\ call.step = "gated"
     /\ commit => Len(commits) < MaxCommits
     /\ commits' = IF commit THEN Append(commits, disk) ELSE commits
     /\ head' = target
     /\ index' = IF head = "work" THEN index ELSE disk
     /\ IF target = "rebase" THEN detached' = tip /\ UNCHANGED local
        ELSE local' = [local EXCEPT ![target] = tip] /\ UNCHANGED detached
     /\ \E how \in Outcomes :
          /\ Pays(how = "lost")
          /\ PushesBranch(target, tip, how)
          /\ Reached("pushed", target = "work" /\ how = "ok" /\ (head = "work" => Clean))
     /\ Strays /\ PushedUntested
     /\ UNCHANGED <<disk, readVars, pr, merged>>

(* The branch is on the forge, the merge queue lets it in, and what is on  *)
(* the disk builds and passes its tests.                                   *)
OnForge(b) == remote[b] # {}

GatesPass ==
  /\ Usual
  /\ call.step = "pushed" /\ OnForge("work") /\ Build(disk)
  /\ Reached("tested", call.whole)
  /\ UNCHANGED <<commits, refVars, treeVars, readVars, pr, proofVars, merged, strays>>

CreatesPR ==
  /\ Usual
  /\ call.step = "tested" /\ pr # "open"
  /\ pr' = "open"
  /\ Proves(disk, call.whole)
  /\ Returns
  /\ UNCHANGED <<commits, refVars, treeVars, readVars, merged, strays>>

(* A gate that does not let it pass, three failed calls, a session ended.  *)
CreateFails ==
  /\ Usual
  /\ call # Idle
  /\ Returns
  /\ UNCHANGED <<commits, refVars, treeVars, readVars, pr, proofVars, merged, strays>>

-----------------------------------------------------------------------------
(* The forge and the other sessions.                                       *)

(* Another pull request is merged.                                         *)
OthersMerge(l) ==
  /\ Usual
  /\ l \notin TreeOf(remote.main) /\ Len(commits) < MaxCommits
  /\ commits' = Append(commits, TreeOf(remote.main) \cup {l})
  /\ remote' = [remote EXCEPT !.main = @ \cup {New}]
  /\ UNCHANGED <<origin, local, treeVars, readVars, call, pr, proofVars, merged, strays>>

(* The fix session of the pull request has a clone of its own, and commits *)
(* and pushes with the git tool.                                           *)
FixerPushes(l) ==
  /\ Unusual
  /\ pr = "open" /\ l \notin TreeOf(remote.work) /\ Build(TreeOf(remote.work))
  /\ Len(commits) < MaxCommits
  /\ commits' = Append(commits, TreeOf(remote.work) \cup {l})
  /\ remote' = [remote EXCEPT !.work = @ \cup {New}]
  /\ Proves(TreeOf(remote.work) \cup {l}, TRUE)
  /\ call' = [call EXCEPT !.whole = call = Idle]
  /\ UNCHANGED <<origin, local, treeVars, readVars, pr, merged, strays>>

(* A merge commit, or a squash, which does not have the branch's commits.  *)
MergePR(squash) ==
  LET tree == Merge(Fork(remote.main, remote.work), TreeOf(remote.main), TreeOf(remote.work))
  IN /\ Usual
     /\ pr = "open" /\ Len(commits) < MaxCommits
     /\ pr' = "merged"
     /\ commits' = Append(commits, tree)
     /\ remote' = [remote EXCEPT !.main = @ \cup {New} \cup (IF squash THEN {} ELSE remote.work)]
     /\ merged' = merged \cup (Ours \cap TreeOf(remote.work))
     /\ Proves({}, TRUE)
     /\ UNCHANGED <<origin, local, treeVars, readVars, call, strays>>

-----------------------------------------------------------------------------
Manager == SessionStarts \/ Recloned \/ BeginsOnPR \/ PruneMergedBranches

FileTools == ReadFile \/ \E l \in Ours, whole \in BOOLEAN : WriteFile(l, whole)

GitTools ==
  \/ GitAdd \/ Fetch \/ CheckoutNew \/ Rebase \/ RebaseContinues \/ RebaseAborts
  \/ \E b \in Branches : CheckoutBranch(b)
  \/ GitCommit \/ BashCommit \/ BashPush \/ BashForces

ChangeTools == MarkTask \/ ArchiveChange

CreatePR ==
  \/ StaleGatePasses \/ StaleGateRebases \/ StaleGateBlocks
  \/ BranchAndPush \/ GatesPass \/ CreatesPR \/ CreateFails

Forge ==
  \/ \E l \in Theirs : OthersMerge(l) \/ FixerPushes(l)
  \/ \E squash \in BOOLEAN : MergePR(squash)

Next == Manager \/ FileTools \/ GitTools \/ ChangeTools \/ CreatePR \/ Forge

Spec == Init /\ [][Next]_vars

-----------------------------------------------------------------------------
Logs == SUBSET (1..Len(commits))

(* Every reference is to commits there are; main has some, and so has what *)
(* is checked out. During a rebase there is a branch to go back to.        *)
RefsOK ==
  /\ remote \in [Branches -> Logs] /\ remote.main # {}
  /\ origin \in Logs \ {{}} /\ local \in [Branches -> Logs]

HeadOK ==
  /\ head \in Branches \cup {"rebase"} /\ detached \in Logs
  /\ HEAD # {} /\ (head = "rebase" <=> detached # {})
  /\ head = "rebase" => local.work # {}

TypeOK ==
  /\ spare \in 0..MaxSpare
  /\ commits \in Seq(SUBSET Lines) /\ Len(commits) \in 1..MaxCommits
  /\ RefsOK /\ HeadOK
  /\ index \in SUBSET Lines /\ disk \in SUBSET Lines
  /\ cache \in {None} \cup SUBSET Code /\ blind \in SUBSET Theirs
  /\ call \in [step : {"idle", "gated", "pushed", "tested"}, whole : BOOLEAN]
  /\ pr \in {"none", "open", "merged"} /\ (pr = "open" => remote.work # {})
  /\ proven \in SUBSET Lines /\ excused \in BOOLEAN
  /\ merged \in SUBSET Ours /\ strays \in SUBSET Ours

(* What an open pull request proposes was built and tested, by the verify  *)
(* gate of forgejo_create_pr or by the git tool that pushed it last, but   *)
(* for the ways that are listed: the disk had changes that were not        *)
(* committed, the push went elsewhere, was lost or was rejected, or what   *)
(* is on the branch was pushed by another tool, or by a later call of      *)
(* forgejo_create_pr, which pushes before it tests.                        *)
TestedUnlessExcused == pr = "open" /\ ~excused => TreeOf(remote.work) = proven

(* The agent's lines come to main in a pull request, or are pushed to it   *)
(* by one of the calls that do not look where the clone is. The git tool   *)
(* is none of them.                                                        *)
MainOnlyMerged == ~Scaffold => \A l \in Ours : l \in TreeOf(remote.main) => l \in merged \cup strays

(* Only a push that the bash tool forces takes commits off a branch of the *)
(* forge, and only off the branch that is checked out: what a fix session  *)
(* pushed to the branch of a pull request survives the rebase of another   *)
(* by forgejo_create_pr, and the pushes of all other tools.                *)
RemoteOnlyGrows ==
  [][\A b \in Branches : remote[b] \subseteq remote'[b] \/ (BashForces /\ b = head)]_remote

(* Unless main is forced back, other people's lines stay in it, but for    *)
(* lines the agent did not see because read_file answered from its cache:  *)
(* no merge takes them out, whatever rebases, checkouts and forced pushes  *)
(* of the branch went before.                                              *)
OthersKept ==
  [][remote.main \subseteq remote'.main
       => (TreeOf(remote.main) \cap Theirs) \ blind \subseteq commits'[Max(remote'.main)]]_remote

(* A pull request that opens holds the main its clone last fetched, unless *)
(* its push failed or went elsewhere.                                      *)
NotBehindFetched ==
  [][pr # "open" /\ pr' = "open" /\ call.whole => origin \subseteq remote.work]_pr

-----------------------------------------------------------------------------
(* What forgejo_create_pr has made sure of on its way: that the clone      *)
(* holds the main it fetched, that the branch holds what it tests, that    *)
(* there is a branch. Nothing else moves the clone meanwhile.              *)
CallOK ==
  /\ call.step = "gated" => origin \subseteq HEAD
  /\ call.step \in {"pushed", "tested"} /\ call.whole =>
       TreeOf(remote.work) = disk /\ origin \subseteq remote.work
  /\ call.step = "tested" => OnForge("work")

IInv == TypeOK /\ TestedUnlessExcused /\ MainOnlyMerged /\ CallOK

(* For OthersKept: the tip of every branch has all the lines of theirs     *)
(* that a commit of the branch has, and so does what is to be committed    *)
(* next, but for what the agent wrote blindly.                             *)
Kept(tree) == (tree \cap Theirs) \ blind
TipHas(log) == \A n \in log : Kept(commits[n]) \subseteq TreeOf(log)
Refs == {remote.main, remote.work, origin, local.main, local.work, detached}

OthersOK == /\ \A log \in Refs : TipHas(log)
            /\ Kept(TreeOf(HEAD)) \subseteq index /\ Kept(index) \subseteq disk
=============================================================================
