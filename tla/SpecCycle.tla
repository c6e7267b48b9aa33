----------------------------- MODULE SpecCycle ------------------------------
(***************************************************************************)
(* What a merged pull request does to a change of OpenSpec: the session    *)
(* manager generates an issue for every open task of its tasks.md and      *)
(* moves the labels of the pull request on, in two goroutines at a time    *)
(* for each merge event (handleSpecPRMerged, handleSpecLifecycleLabels).   *)
(*                                                                         *)
(* Two pull requests are merged: "spec" brings the change, and "work",     *)
(* which implements a task, may carry the tick of that task in tasks.md.   *)
(* Tasks are numbers in the order of the file. Nothing of a generation is  *)
(* persisted: a crash cuts it off.                                         *)
(***************************************************************************)
EXTENDS IssueLabels

CONSTANTS
  N,         \* number of tasks
  Shapes,    \* what the tasks may look like: [parallel, paths] for each
  MaxSpare   \* bound on failed requests and crashes

Tasks == 1..N

(* Both goroutines of a pull request call the Forgejo client.              *)
Callers == Pulls \X {"issues", "labels"}

ASSUME SpecCycleAssumption ==
  /\ N \in Nat \ {0} /\ MaxSpare \in Nat
  /\ Pulls = {"spec", "work"} /\ Clients = Callers
  /\ {"spec-proposed", "spec-approved", "spec-implementing"} \subseteq Names
  /\ \A s \in Shapes : DOMAIN s = Tasks /\ \A t \in Tasks : s[t].parallel \in BOOLEAN

VARIABLES
  shape,     \* the tasks of the change
  done,      \* the tasks ticked on main
  merged,    \* per pull request, the tasks ticked at its merge commit, and
             \* whether it has files of the change; NotMerged before
  gen,       \* per pull request, how far the generation of issues is
  lab,       \* per pull request, how far its labels are
  issues,    \* the generated issues in the order of their numbers
  spare,     \* how many more requests may fail
  slips      \* history: the labels whose calls had a request that failed

cycleVars == <<shape, done, merged, gen, lab, issues, spare, slips>>
allCycleVars == <<cycleVars, repoLabels, attached, request>>

NotMerged == [ticked |-> {}, ofChange |-> FALSE, is |-> FALSE]
NoGen == [at |-> "none", lang |-> TRUE, serial |-> <<>>, parallel |-> <<>>, last |-> 0, failed |-> {}]

CycleInit ==
  /\ shape \in Shapes /\ done = {}
  /\ merged = [p \in Pulls |-> NotMerged]
  /\ gen = [p \in Pulls |-> NoGen] /\ lab = [p \in Pulls |-> "none"]
  /\ issues = <<>> /\ spare = MaxSpare /\ slips = {}
  /\ repoLabels = <<"spec-proposed", "spec-proposed">>
  /\ attached = [p \in Pulls |-> IF p = "spec" THEN DOMAIN repoLabels ELSE {}]
  /\ request = [c \in Clients |-> NoRequest]

Spends == spare > 0 /\ spare' = spare - 1
Quiet  == UNCHANGED <<labelVars, slips>>

-----------------------------------------------------------------------------
(* People and sessions merge.                                              *)

Merges(p, ticked, ofChange) ==
  /\ ~merged[p].is
  /\ done' = ticked
  /\ merged' = [merged EXCEPT ![p] = [ticked |-> ticked, ofChange |-> ofChange, is |-> TRUE]]
  /\ UNCHANGED <<shape, gen, lab, issues, spare>> /\ Quiet

MergesSpec == Merges("spec", {}, TRUE)

(* "work" is the work on an issue that was generated. The generation has a *)
(* minute, and is taken to be over before the work on one of its issues.   *)
MergesWork == \E i \in DOMAIN issues, ticks \in BOOLEAN :
  /\ gen["spec"].at \in {"end", "cut"}
  /\ Merges("work", IF ticks THEN done \cup {issues[i].task} ELSE done, ticks)

(* handleEvent starts both goroutines. That of the labels leaves a pull    *)
(* request alone that is not from a branch spec/...                        *)
Handles(p) ==
  /\ merged[p].is /\ gen[p].at = "none"
  /\ gen' = [gen EXCEPT ![p].at = "detect"]
  /\ lab' = [lab EXCEPT ![p] = IF p = "spec" THEN "look" ELSE "end"]
  /\ UNCHANGED <<shape, done, merged, issues, spare>> /\ Quiet

-----------------------------------------------------------------------------
(* Which of the open tasks may be worked on side by side.                  *)

(* Whether the language of the repository is one of those of langPrefixes. *)
Languages == BOOLEAN

(* The directories named by a task, as far as the language says what is    *)
(* one.                                                                    *)
Paths(lang, t) == IF lang THEN shape[t].paths ELSE {}
PathsOverlap(lang, t, u) == Paths(lang, t) \cap Paths(lang, u) # {}

(* Tasks in the order of the file.                                         *)
InOrder(tasks) ==
  CHOOSE f \in [1..Cardinality(tasks) -> tasks] : \A i, j \in DOMAIN f : i < j => f[i] < f[j]

(* validateParallelTasks: each task marked parallel is accepted unless it  *)
(* overlaps one accepted before it.                                        *)
Accepted(lang, tasks) ==
  CHOOSE a \in SUBSET tasks :
    \A t \in tasks : t \in a <=> \A u \in a : u < t => ~PathsOverlap(lang, u, t)

Marked(undone) == {t \in undone : shape[t].parallel}
Parallel(lang, undone) == InOrder(Accepted(lang, Marked(undone)))
Downgraded(lang, undone) == Marked(undone) \ Accepted(lang, Marked(undone))
SerialUnmarked(lang, undone) == InOrder(undone \ Marked(undone))
Serial(lang, undone) == InOrder(undone \ Marked(undone)) \o InOrder(Downgraded(lang, undone))

-----------------------------------------------------------------------------
(* handleSpecPRMerged.                                                     *)

At(p, step) == gen[p].at = step
GenStays == UNCHANGED <<shape, done, merged, lab>>

(* A request that fails before any issue is created ends it.               *)
GivesUp(p) ==
  /\ gen[p].at \in {"detect", "read"} /\ Spends
  /\ gen' = [gen EXCEPT ![p].at = "cut"]
  /\ UNCHANGED issues /\ GenStays /\ Quiet

(* A file under openspec/changes/, the archive left out.                   *)
OfChange(p) == merged[p].ofChange

Detects(p) ==
  /\ At(p, "detect")
  /\ gen' = [gen EXCEPT ![p].at = IF OfChange(p) THEN "read" ELSE "end"]
  /\ UNCHANGED <<issues, spare>> /\ GenStays /\ Quiet

(* Reads tasks.md at the merge commit, or on main when the pull request    *)
(* cannot be fetched, and groups its open tasks. The language is not known *)
(* when the files of the repository cannot be listed.                      *)
Reads(p) ==
  /\ At(p, "read")
  /\ \E fetched \in BOOLEAN, lang \in Languages :
       LET undone == Tasks \ (IF fetched THEN merged[p].ticked ELSE done)
       IN /\ \/ fetched /\ lang /\ UNCHANGED spare
             \/ fetched # lang /\ Spends
          /\ gen' = [gen EXCEPT ![p].at = "create", ![p].lang = lang,
                                ![p].serial = Serial(lang, undone), ![p].parallel = Parallel(lang, undone)]
  /\ UNCHANGED issues /\ GenStays /\ Quiet

(* createSpecIssue. A request may fail after Forgejo has created the       *)
(* issue: the generation then takes it for failed.                         *)
LastSerialReset(p, how) == IF how = "ok" THEN Len(issues) + 1 ELSE 0
LastSerial(p, how) == IF how = "ok" THEN Len(issues) + 1 ELSE gen[p].last

IssueCreated(p, t, how) ==
  /\ IF how = "ok" THEN UNCHANGED spare ELSE Spends
  /\ issues' = IF how = "failed" THEN issues
               ELSE Append(issues, [task |-> t, from |-> p, lost |-> how = "lost",
                                    needs |-> IF gen[p].last = 0 THEN {} ELSE {gen[p].last}])

(* Each serial task depends on the one before it, ...                      *)
CreatesSerial(p) ==
  LET t == Head(gen[p].serial)
  IN /\ At(p, "create") /\ gen[p].serial # <<>>
     /\ \E how \in {"ok", "failed", "lost"} :
          /\ IssueCreated(p, t, how)
          /\ gen' = [gen EXCEPT ![p].serial = Tail(@), ![p].last = LastSerial(p, how),
                                ![p].failed = IF how = "ok" THEN @ ELSE @ \cup {t}]
     /\ GenStays /\ Quiet

(* ... and each parallel one on the last of them.                          *)
CreatesParallel(p) ==
  LET t == Head(gen[p].parallel)
  IN /\ At(p, "create") /\ gen[p].serial = <<>> /\ gen[p].parallel # <<>>
     /\ \E how \in {"ok", "failed", "lost"} :
          /\ IssueCreated(p, t, how)
          /\ gen' = [gen EXCEPT ![p].parallel = Tail(@), ![p].failed = IF how = "ok" THEN @ ELSE @ \cup {t}]
     /\ GenStays /\ Quiet

Implementing(p) ==
  /\ At(p, "create") /\ gen[p].serial = <<>> /\ gen[p].parallel = <<>>
  /\ Call(<<p, "issues">>, "add", p, "spec-implementing")
  /\ gen' = [gen EXCEPT ![p].at = "label"]
  /\ UNCHANGED <<issues, spare, slips>> /\ GenStays

Ends(p) ==
  /\ At(p, "label") /\ Returned(<<p, "issues">>)
  /\ gen' = [gen EXCEPT ![p].at = "end"]
  /\ UNCHANGED <<issues, spare>> /\ GenStays /\ Quiet

-----------------------------------------------------------------------------
(* handleSpecLifecycleLabels.                                              *)

LabStep(p, from, to) ==
  /\ lab[p] = from /\ lab' = [lab EXCEPT ![p] = to]
  /\ UNCHANGED <<shape, done, merged, gen, issues, slips>>

LabelsSkipped(p) ==
  /\ Spends
  /\ LabStep(p, "look", "cut") /\ UNCHANGED labelVars

Unproposes(p) ==
  /\ UNCHANGED spare
  /\ LabStep(p, "look", "remove") /\ Call(<<p, "labels">>, "remove", p, "spec-proposed")

(* Whether spec-proposed could be removed or not.                          *)
Approves(p) ==
  /\ Returned(<<p, "labels">>) /\ UNCHANGED spare
  /\ LabStep(p, "remove", "add") /\ Call(<<p, "labels">>, "add", p, "spec-approved")

LabelsEnd(p) ==
  /\ Returned(<<p, "labels">>) /\ UNCHANGED spare
  /\ LabStep(p, "add", "end") /\ UNCHANGED labelVars

-----------------------------------------------------------------------------
Requests(c) ==
  \/ UNCHANGED cycleVars /\ Serves(c)
  \/ /\ Spends /\ UNCHANGED <<shape, done, merged, gen, lab, issues>>
     /\ RequestFails(c) \/ Deletes(c, FALSE)
     /\ slips' = slips \cup {request[c].name}

Crash ==
  /\ Spends
  /\ \E p \in Pulls : gen[p].at \notin {"none", "end", "cut"} \/ lab[p] \notin {"none", "end", "cut"}
  /\ gen' = [p \in Pulls |-> IF gen[p].at \in {"none", "end"} THEN gen[p] ELSE [gen[p] EXCEPT !.at = "cut"]]
  /\ lab' = [p \in Pulls |-> IF lab[p] \in {"none", "end"} THEN lab[p] ELSE "cut"]
  /\ request' = [c \in Clients |-> NoRequest]
  /\ UNCHANGED <<shape, done, merged, issues, slips, repoLabels, attached>>

CycleNext ==
  \/ MergesSpec \/ MergesWork \/ Crash
  \/ \E p \in Pulls :
       \/ Handles(p) \/ GivesUp(p) \/ Detects(p) \/ Reads(p) \/ CreatesSerial(p) \/ CreatesParallel(p)
       \/ Implementing(p) \/ Ends(p)
       \/ LabelsSkipped(p) \/ Unproposes(p) \/ Approves(p) \/ LabelsEnd(p)
  \/ \E c \in Clients : Requests(c)

CycleSpec == CycleInit /\ [][CycleNext]_allCycleVars

-----------------------------------------------------------------------------
Stages == {"none", "detect", "read", "create", "label", "end", "cut"}

CycleTypeOK ==
  /\ shape \in Shapes /\ done \subseteq Tasks /\ spare \in 0..MaxSpare /\ slips \subseteq Names
  /\ merged \in [Pulls -> [ticked : SUBSET Tasks, ofChange : BOOLEAN, is : BOOLEAN]]
  /\ \A p \in Pulls :
       /\ gen[p].at \in Stages
       /\ gen[p].failed \subseteq Tasks
       /\ gen[p].serial \in Seq(Tasks) /\ gen[p].parallel \in Seq(Tasks) /\ gen[p].last \in 0..Len(issues)
  /\ lab \in [Pulls -> {"none", "look", "remove", "add", "end", "cut"}]
  /\ \A i \in DOMAIN issues : issues[i].needs \subseteq 1..(i - 1)
  /\ repoLabels \in Seq(Names) /\ attached \in [Pulls -> SUBSET DOMAIN repoLabels]
  /\ request \in [Clients -> {NoRequest} \cup Request]

IssuesOf(p, t) == {i \in DOMAIN issues : issues[i].from = p /\ issues[i].task = t}

(* A generation that gets through has created one issue for every task     *)
(* that is open, or counted it as failed, and none for a task that was     *)
(* ticked when its pull request was merged.                                *)
EveryTaskOnce ==
  \A p \in Pulls, t \in Tasks :
    /\ Cardinality(IssuesOf(p, t)) <= 1
    /\ t \in merged[p].ticked => IssuesOf(p, t) = {}
    /\ gen[p].at \in {"label", "end"} /\ merged[p].ofChange /\ t \notin done \cup gen[p].failed
         => IssuesOf(p, t) # {}

(* An issue waits for those that are in every set with its needs that has *)
(* the needs of its members.                                               *)
Closed(S) == \A k \in S : issues[k].needs \subseteq S
WaitsFor(j, i) == \A S \in SUBSET DOMAIN issues : issues[j].needs \subseteq S /\ Closed(S) => i \in S

(* Issues that may be worked on side by side.                              *)
Apart(i, j) ==
  LET t == issues[i].task  u == issues[j].task
  IN shape[t].parallel /\ shape[u].parallel /\ ~PathsOverlap(gen[issues[i].from].lang, t, u)

(* Of two issues of one generation one waits for the other, directly or    *)
(* through others, unless both tasks are marked parallel and no path is    *)
(* seen in both: whatever issues could not be created in between. What     *)
(* Forgejo created without an answer is known to no later one.             *)
OverlapsOrdered ==
  \A i, j \in DOMAIN issues :
    i < j /\ issues[i].from = issues[j].from /\ ~issues[i].lost /\ ~Apart(i, j) => WaitsFor(j, i)

(* The goroutines of a merge leave the labels of the pull request right,   *)
(* each label unless a request of its own call failed, and with as many    *)
(* labels of the name as the repository has.                               *)
LabelsSettle ==
  LET Right(label) == IF label = "spec-proposed" THEN label \notin NamesOn("spec") ELSE label \in NamesOn("spec")
  IN /\ lab["spec"] = "end" => \A label \in {"spec-proposed", "spec-approved"} \ slips : Right(label)
     /\ gen["spec"].at = "end" => \A label \in {"spec-implementing"} \ slips : Right(label)

-----------------------------------------------------------------------------
(* Why the labels settle. A call is one of three; what it knows of the IDs *)
(* of its label is so, for labels of the repository are only added; and    *)
(* unless a request failed, a removal that goes on has all the labels of   *)
(* the name in its hands, for nobody adds them.                            *)
RepoTyped ==
  /\ repoLabels \in Seq(Names) /\ attached \in [Pulls -> SUBSET DOMAIN repoLabels]
  /\ request \in [Clients -> {NoRequest} \cup Request]

Places ==
  /\ DOMAIN lab = Pulls /\ DOMAIN gen = Pulls /\ DOMAIN merged = Pulls
  /\ \A p \in Pulls : "at" \in DOMAIN gen[p]

Named(p, label) == {i \in attached[p] : repoLabels[i] = label}

CallSound(r) ==
  /\ IF r.kind = "remove" THEN r.name = "spec-proposed"
     ELSE r.kind = "add" /\ r.name \in {"spec-approved", "spec-implementing"}
  /\ r.at \in {"look", "again", "create", "fetch", "post"} => r.kind = "add"
  /\ r.at = "delete" => r.kind = "remove"
  /\ r.ids \subseteq IDs(r.name)
  /\ r.at \in {"post", "delete"} => r.ids # {}
  /\ r.at = "fetch" => IDs(r.name) # {}

CallDone(r) ==
  /\ r.at = "delete" => Named(r.pull, r.name) \subseteq r.ids
  /\ r.at = "done" => IF r.kind = "remove" THEN Named(r.pull, r.name) = {} ELSE Named(r.pull, r.name) # {}

CallsOK ==
  \A c \in Clients : request[c] # NoRequest =>
    CallSound(request[c]) /\ (request[c].name \notin slips => CallDone(request[c]))

Calling(c, kind, p, label) ==
  request[c] # NoRequest /\ request[c].kind = kind /\ request[c].pull = p /\ request[c].name = label

CallersOK ==
  \A p \in Pulls :
    /\ lab[p] = "remove" => Calling(<<p, "labels">>, "remove", p, "spec-proposed")
    /\ lab[p] = "add" => Calling(<<p, "labels">>, "add", p, "spec-approved")
    /\ gen[p].at = "label" => Calling(<<p, "issues">>, "add", p, "spec-implementing")

(* The specification's pull request has files of the change.               *)
SpecOfChange ==
  /\ merged["spec"].is => OfChange("spec")
  /\ gen["spec"].at = "detect" => merged["spec"].is

LabelsGotThere ==
  /\ lab["spec"] \in {"add", "end"} /\ "spec-proposed" \notin slips => Named("spec", "spec-proposed") = {}
  /\ lab["spec"] = "end" /\ "spec-approved" \notin slips => Named("spec", "spec-approved") # {}
  /\ gen["spec"].at = "end" /\ "spec-implementing" \notin slips => Named("spec", "spec-implementing") # {}

CycleInv == RepoTyped /\ Places /\ CallsOK /\ CallersOK /\ SpecOfChange /\ LabelsGotThere

-----------------------------------------------------------------------------
(* The inductive invariant of the issues.                                  *)

Of(s) == {s[i] : i \in DOMAIN s}
Ahead(p) == Of(gen[p].serial) \cup Of(gen[p].parallel)
IssuedBy(p) == {i \in DOMAIN issues : issues[i].from = p}

Generation ==
  [at : Stages, lang : BOOLEAN, serial : Seq(Tasks), parallel : Seq(Tasks), last : Nat, failed : SUBSET Tasks]
Issue == [task : Tasks, from : Pulls, lost : BOOLEAN, needs : SUBSET Nat]

IssuesTyped == CycleTypeOK /\ issues \in Seq(Issue) /\ gen \in [Pulls -> Generation]

(* A task that was ticked at a merge is ticked on main ever after.         *)
TicksStay ==
  /\ \A p \in Pulls :
       /\ merged[p].ticked \subseteq done
       /\ ~merged[p].is => gen[p].at = "none" /\ merged[p].ticked = {}
  /\ ~merged["spec"].is => done = {} /\ ~merged["work"].is

(* A task is ahead of a generation or behind it, once.                     *)
Distinct(s) == \A i, j \in DOMAIN s : s[i] = s[j] => i = j

TasksOnce(p) ==
  /\ Distinct(gen[p].serial) /\ Distinct(gen[p].parallel)
  /\ Of(gen[p].serial) \cap Of(gen[p].parallel) = {}
  /\ Ahead(p) \cap merged[p].ticked = {}
  /\ \A i \in IssuedBy(p) : issues[i].task \notin Ahead(p) \cup merged[p].ticked
  /\ \A i, j \in IssuedBy(p) : issues[i].task = issues[j].task => i = j

TasksAll(p) ==
  /\ gen[p].at \in {"none", "detect", "read"} =>
       gen[p].serial = <<>> /\ gen[p].parallel = <<>> /\ gen[p].last = 0 /\ IssuedBy(p) = {}
  /\ gen[p].at \in {"create", "label", "end"} /\ merged[p].ofChange =>
       \A t \in Tasks \ (done \cup gen[p].failed \cup Ahead(p)) : IssuesOf(p, t) # {}
  /\ gen[p].at \in {"label", "end"} /\ merged[p].ofChange => Ahead(p) = {}

(* What an issue of the generation is to those that follow: its last       *)
(* serial one, behind which all others are but those created in parallel.  *)
SideBySide(p, t, u) == shape[t].parallel /\ shape[u].parallel /\ ~PathsOverlap(gen[p].lang, t, u)

Followed(p, i) ==
  \/ i = gen[p].last
  \/ gen[p].last # 0 /\ WaitsFor(gen[p].last, i)
  \/ gen[p].serial = <<>> /\ \A t \in Of(gen[p].parallel) : SideBySide(p, issues[i].task, t)

OrderKept(p) ==
  /\ \A t, u \in Of(gen[p].parallel) : t # u => SideBySide(p, t, u)
  /\ \A i \in IssuedBy(p) : ~issues[i].lost => Followed(p, i)

IssuesInv ==
  /\ IssuesTyped /\ TicksStay /\ OverlapsOrdered
  /\ \A p \in Pulls : TasksOnce(p) /\ TasksAll(p) /\ OrderKept(p)
=============================================================================
