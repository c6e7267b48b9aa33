-------------------------- MODULE WorkingCopyProofs --------------------------
(***************************************************************************)
(* Proofs about WorkingCopy: what the branches of the forge hold, for any  *)
(* lines, any number of commits and of unusual calls, and for sessions     *)
(* that may commit on main as for those that may not.                      *)
(***************************************************************************)
EXTENDS WorkingCopy, WellFoundedInduction, TLAPS

-----------------------------------------------------------------------------
(* The tree of a branch. Every set of commits has a last one.              *)
TreeIn(cs, log) == IF log = {} THEN {} ELSE cs[Max(log)]

LEMMA Greatest ==
  ASSUME NEW n \in Nat, NEW S \in SUBSET (1..n), S # {}
  PROVE  Max(S) \in S /\ \A x \in S : x <= Max(S)
  <1> DEFINE T == {n - x : x \in S}
  <1>1. T # {} /\ T \in SUBSET Nat
    <2>1. \A x \in S : x \in 1..n
      OBVIOUS
    <2>2. \A x \in S : n - x \in Nat
      BY <2>1
    <2>3. T \in SUBSET Nat
      BY <2>2
    <2>4. PICK x \in S : TRUE
      OBVIOUS
    <2>5. n - x \in T
      BY <2>4
    <2> QED BY <2>3, <2>5
  <1>2. PICK m \in T : \A x \in T : <<x, m>> \notin OpToRel(<, Nat)
    BY <1>1, WFMin, NatLessThanWellFounded, Zenon
  <1>3. \A x \in T : ~(x < m)
    BY <1>1, <1>2, Zenon DEF OpToRel
  <1>4. PICK s \in S : m = n - s
    OBVIOUS
  <1>5. \A x \in S : s >= x
    <2>1. SUFFICES ASSUME NEW x \in S PROVE s >= x
      OBVIOUS
    <2>2. ~(n - x < n - s)
      BY <1>3, <1>4
    <2> QED BY <2>2
  <1>6. Max(S) \in S /\ \A x \in S : Max(S) >= x
    BY <1>5 DEF Max
  <1> HIDE DEF T
  <1> QED BY <1>6

LEMMA GreatestIs ==
  ASSUME NEW n \in Nat, NEW S \in SUBSET (1..n), NEW m \in S, \A x \in S : x <= m
  PROVE  Max(S) = m
  <1>1. S # {}
    OBVIOUS
  <1>2. Max(S) \in S /\ \A x \in S : x <= Max(S)
    BY <1>1, Greatest
  <1>3. PICK g : g = Max(S)
    OBVIOUS
  <1>4. g \in 1..n /\ m \in 1..n /\ g <= m /\ m <= g
    BY <1>2, <1>3
  <1>5. g = m
    BY <1>4
  <1> QED BY <1>3, <1>5

LEMMA TreeIsTree ==
  ASSUME NEW cs \in Seq(SUBSET Lines), NEW log \in SUBSET (1..Len(cs))
  PROVE  TreeIn(cs, log) \in SUBSET Lines
  <1>1. CASE log = {}
    BY <1>1 DEF TreeIn
  <1>2. CASE log # {}
    <2>1. Len(cs) \in Nat
      OBVIOUS
    <2>2. Max(log) \in log
      BY <1>2, <2>1, Greatest
    <2>3. Max(log) \in 1..Len(cs)
      BY <2>2
    <2> QED BY <1>2, <2>3 DEF TreeIn
  <1> QED BY <1>1, <1>2

(* A new commit changes no branch it is not put on.                        *)
LEMMA TreeStays ==
  ASSUME NEW cs \in Seq(SUBSET Lines), NEW t \in SUBSET Lines, NEW log \in SUBSET (1..Len(cs))
  PROVE  /\ TreeIn(Append(cs, t), log) = TreeIn(cs, log)
         /\ log \in SUBSET (1..Len(Append(cs, t)))
  <1> DEFINE L == SUBSET Lines
  <1>0. cs \in Seq(L) /\ t \in L
    OBVIOUS
  <1> HIDE DEF L
  <1>1. Len(Append(cs, t)) = Len(cs) + 1 /\ Len(cs) \in Nat
    BY <1>0
  <1>2. CASE log = {}
    BY <1>1, <1>2 DEF TreeIn
  <1>3. CASE log # {}
    <2>1. Max(log) \in 1..Len(cs)
      BY <1>1, <1>3, Greatest
    <2>2. Append(cs, t)[Max(log)] = cs[Max(log)]
      BY <1>0, <2>1
    <2> QED BY <1>1, <1>3, <2>2 DEF TreeIn
  <1> QED BY <1>2, <1>3

(* It is the tip of the branch it is put on.                               *)
LEMMA TipOfNew ==
  ASSUME NEW cs \in Seq(SUBSET Lines), NEW t \in SUBSET Lines, NEW log \in SUBSET (1..Len(cs))
  PROVE  LET new == log \cup {Len(cs) + 1} IN
         /\ TreeIn(Append(cs, t), new) = t
         /\ new \in SUBSET (1..Len(Append(cs, t)))
  <1> DEFINE L == SUBSET Lines
             n == Len(cs) + 1
  <1>0. cs \in Seq(L) /\ t \in L
    OBVIOUS
  <1> HIDE DEF L
  <1>1. Len(Append(cs, t)) = n /\ n \in Nat
    BY <1>0
  <1>2. log \cup {n} \in SUBSET (1..n)
    <2>1. Len(cs) \in Nat
      BY <1>0
    <2>2. \A x \in 1..Len(cs) : x \in 1..n
      BY <2>1
    <2>3. n \in 1..n
      BY <2>1
    <2> HIDE DEF n
    <2> QED BY <2>2, <2>3
  <1>3. \A x \in log \cup {n} : x <= n
    BY <1>2
  <1>4. Max(log \cup {n}) = n
    BY <1>1, <1>2, <1>3, GreatestIs
  <1>5. Append(cs, t)[n] = t
    BY <1>0
  <1> QED BY <1>1, <1>2, <1>4, <1>5 DEF TreeIn

-----------------------------------------------------------------------------
(* Commits are only added.                                                 *)
Grows ==
  \/ commits' = commits
  \/ \E t \in SUBSET Lines : commits' = Append(commits, t) /\ Len(commits) < MaxCommits

CommitsOK == commits \in Seq(SUBSET Lines) /\ Len(commits) \in 1..MaxCommits

LEMMA Growing ==
  ASSUME CommitsOK, Grows
  PROVE  /\ CommitsOK' /\ Logs \subseteq Logs'
         /\ \A log \in Logs : TreeIn(commits', log) = TreeIn(commits, log)
  <1>1. CASE commits' = commits
    BY <1>1 DEF CommitsOK, Logs
  <1>2. CASE \E t \in SUBSET Lines : commits' = Append(commits, t) /\ Len(commits) < MaxCommits
    <2>1. PICK t \in SUBSET Lines : commits' = Append(commits, t) /\ Len(commits) < MaxCommits
      BY <1>2
    <2>2. commits \in Seq(SUBSET Lines)
      BY DEF CommitsOK
    <2>3. \A log \in Logs : TreeIn(commits', log) = TreeIn(commits, log) /\ log \in Logs'
      BY <2>1, <2>2, TreeStays DEF Logs
    <2>4. CommitsOK'
      <3> DEFINE L == SUBSET Lines
      <3>1. commits \in Seq(L) /\ t \in L /\ Len(commits) \in 1..MaxCommits /\ MaxCommits \in Nat
        BY <2>2, WorkingCopyAssumption DEF CommitsOK
      <3>2. commits' \in Seq(L) /\ Len(commits') \in 1..MaxCommits
        <4> HIDE DEF L
        <4> QED BY <2>1, <3>1
      <3> QED BY <3>2 DEF CommitsOK
    <2> QED BY <2>3, <2>4
  <1> QED BY <1>1, <1>2 DEF Grows

LEMMA Trees ==
  ASSUME CommitsOK, NEW log \in Logs
  PROVE  TreeOf(log) = TreeIn(commits, log) /\ TreeOf(log) \in SUBSET Lines
  <1>1. TreeOf(log) = TreeIn(commits, log)
    BY DEF TreeOf, TreeIn
  <1> QED BY <1>1, TreeIsTree DEF CommitsOK, Logs

LEMMA AddingOne ==
  ASSUME CommitsOK, NEW t \in SUBSET Lines, commits' = Append(commits, t), Len(commits) < MaxCommits
  PROVE  /\ Grows
         /\ \A log \in Logs : log \cup {New} \in Logs' \ {{}} /\ TreeIn(commits', log \cup {New}) = t
  BY TipOfNew DEF Grows, CommitsOK, Logs, New

LEMMA TypeParts ==
  ASSUME TypeOK
  PROVE  /\ CommitsOK /\ RefsOK /\ HeadOK
         /\ HEAD \in Logs \ {{}} /\ TreeOf(HEAD) \in SUBSET Lines
         /\ \A b \in Branches : remote[b] \in Logs /\ local[b] \in Logs
         /\ remote.main \in Logs \ {{}} /\ remote.work \in Logs /\ local.work \in Logs
         /\ origin \in Logs \ {{}} /\ index \in SUBSET Lines /\ disk \in SUBSET Lines
  <1>1. CommitsOK /\ RefsOK /\ HeadOK /\ index \in SUBSET Lines /\ disk \in SUBSET Lines
    BY DEF TypeOK, CommitsOK
  <1>2. \A b \in Branches : remote[b] \in Logs /\ local[b] \in Logs
    BY <1>1 DEF RefsOK
  <1>3. remote.main \in Logs \ {{}} /\ remote.work \in Logs /\ local.work \in Logs
    BY <1>1, <1>2 DEF RefsOK, Branches
  <1>4. HEAD \in Logs \ {{}}
    BY <1>1, <1>2 DEF HeadOK, HEAD
  <1>5. TreeOf(HEAD) \in SUBSET Lines
    <2>1. PICK log \in Logs : log = HEAD
      BY <1>4
    <2> QED BY <1>1, <2>1, Trees
  <1> QED BY <1>1, <1>2, <1>3, <1>4, <1>5 DEF RefsOK

LEMMA Spares ==
  ASSUME TypeOK, Usual \/ Unusual
  PROVE  spare' \in 0..MaxSpare
  <1>1. spare \in 0..MaxSpare /\ MaxSpare \in Nat
    BY WorkingCopyAssumption DEF TypeOK
  <1> QED BY <1>1 DEF Usual, Unusual

LEMMA MergedTree ==
  ASSUME NEW a \in SUBSET Lines, NEW b \in SUBSET Lines, NEW c
  PROVE  Merge(c, a, b) \in SUBSET Lines /\ Merge(c, a, b) \subseteq a \cup b
  BY DEF Merge

(* What is left of the types when the commits only grow.                   *)
LEMMA TypesKept ==
  ASSUME TypeOK, Grows, Usual \/ Unusual, RefsOK', HeadOK', index' \in SUBSET Lines, disk' \in SUBSET Lines,
         cache' \in {None} \cup SUBSET Code, blind' \in SUBSET Theirs,
         call' \in [step : {"idle", "gated", "pushed", "tested"}, whole : BOOLEAN],
         pr' \in {"none", "open", "merged"}, pr' = "open" => remote'.work # {},
         proven' \in SUBSET Lines, excused' \in BOOLEAN, merged' \in SUBSET Ours, strays' \in SUBSET Ours
  PROVE  TypeOK'
  <1>1. CommitsOK'
    BY Growing, TypeParts
  <1> QED BY <1>1, Spares DEF TypeOK, CommitsOK

-----------------------------------------------------------------------------
(* Steps in the clone, while forgejo_create_pr is not at work.             *)
LEMMA LocalKeeps ==
  ASSUME IInv, call = Idle, Grows, UNCHANGED <<remote, call, pr, proven, excused, merged, strays>>
  PROVE  TestedUnlessExcused' /\ MainOnlyMerged' /\ CallOK'
  <1>1. TypeOK
    BY DEF IInv
  <1>2. CommitsOK /\ remote.main \in Logs /\ remote.work \in Logs
    BY <1>1, TypeParts
  <1>3. \A log \in Logs : TreeIn(commits', log) = TreeIn(commits, log)
    BY <1>2, Growing
  <1>4. TreeOf(remote.main)' = TreeOf(remote.main) /\ TreeOf(remote.work)' = TreeOf(remote.work)
    BY <1>2, <1>3 DEF TreeOf, TreeIn
  <1>5. CallOK'
    BY DEF CallOK, Idle
  <1>6. TestedUnlessExcused'
    BY <1>4 DEF IInv, TestedUnlessExcused
  <1>7. MainOnlyMerged'
    BY <1>4 DEF IInv, MainOnlyMerged
  <1> QED BY <1>5, <1>6, <1>7

(* The types then.                                                         *)
LEMMA LocalTyped ==
  ASSUME IInv, call = Idle, Grows, Usual \/ Unusual,
         UNCHANGED <<remote, call, pr, proven, excused, merged, strays>>,
         origin' \in Logs' \ {{}}, local' \in [Branches -> Logs'], HeadOK',
         index' \in SUBSET Lines, disk' \in SUBSET Lines,
         cache' \in {None} \cup SUBSET Code, blind' \in SUBSET Theirs
  PROVE  IInv'
  <1>1. TypeOK
    BY DEF IInv
  <1>2. CommitsOK /\ Logs \subseteq Logs'
    BY <1>1, TypeParts, Growing
  <1>3. RefsOK'
    BY <1>1, <1>2 DEF TypeOK, RefsOK
  <1>4. TypeOK'
    <2>1. /\ call' \in [step : {"idle", "gated", "pushed", "tested"}, whole : BOOLEAN]
          /\ pr' \in {"none", "open", "merged"} /\ (pr' = "open" => remote'.work # {})
          /\ proven' \in SUBSET Lines /\ excused' \in BOOLEAN /\ merged' \in SUBSET Ours
          /\ strays' \in SUBSET Ours
      BY <1>1 DEF TypeOK
    <2> QED BY <1>1, <1>3, <2>1, TypesKept
  <1> QED BY <1>4, LocalKeeps DEF IInv

LEMMA CarriedIsTree ==
  ASSUME NEW tree, NEW log
  PROVE  CarriedOver(tree, log) \in SUBSET Lines
  BY DEF CarriedOver

LEMMA ReadsCode ==
  ASSUME TypeOK
  PROVE  FullRead \in SUBSET Code /\ RangeRead \in SUBSET Code
  BY DEF TypeOK, FullRead, RangeRead

LEMMA SessionStartsKeeps ==
  ASSUME IInv, SessionStarts
  PROVE  IInv'
  <1> USE DEF treeVars, proofVars
  <1>1. /\ call = Idle /\ origin' \in {origin, remote.main} /\ cache' = None
        /\ UNCHANGED <<commits, remote, local, head, detached, index, disk, blind, call, pr, proven,
                       excused, merged, strays>>
        /\ Usual \/ Unusual
    BY DEF SessionStarts, Pays
  <1>2. TypeOK /\ Logs' = Logs
    BY <1>1 DEF IInv, Logs
  <1>3. origin' \in Logs' \ {{}}
    BY <1>1, <1>2, TypeParts
  <1>4. HeadOK' /\ local' \in [Branches -> Logs'] /\ index' \in SUBSET Lines /\ disk' \in SUBSET Lines
        /\ blind' \in SUBSET Theirs
    BY <1>1, <1>2 DEF TypeOK, HeadOK, HEAD, RefsOK
  <1> QED BY <1>1, <1>3, <1>4, LocalTyped DEF Grows

LEMMA ReclonedKeeps ==
  ASSUME IInv, Recloned
  PROVE  IInv'
  <1> USE DEF treeVars, proofVars
  <1>1. /\ call = Idle /\ Unusual
        /\ local' = [main |-> remote.main, work |-> {}] /\ origin' = remote.main
        /\ head' = "main" /\ detached' = {}
        /\ disk' = TreeOf(remote.main) /\ index' = TreeOf(remote.main) /\ cache' = None
        /\ UNCHANGED <<commits, remote, blind, call, pr, proven, excused, merged, strays>>
    BY DEF Recloned
  <1>2. TypeOK /\ Logs' = Logs
    BY <1>1 DEF IInv, Logs
  <1>3. remote.main \in Logs \ {{}} /\ CommitsOK
    BY <1>2, TypeParts
  <1>4. disk' \in SUBSET Lines /\ index' \in SUBSET Lines /\ blind' \in SUBSET Theirs
    BY <1>1, <1>2, <1>3, Trees DEF TypeOK
  <1>5. {} \in Logs
    BY DEF Logs
  <1>6. local' \in [Branches -> Logs'] /\ local'.main = remote.main
    BY <1>1, <1>2, <1>3, <1>5 DEF Branches
  <1>7. HeadOK'
    BY <1>1, <1>2, <1>3, <1>5, <1>6 DEF HeadOK, HEAD, Branches
  <1> QED BY <1>1, <1>2, <1>3, <1>4, <1>6, <1>7, LocalTyped DEF Grows

LEMMA BeginsOnPRKeeps ==
  ASSUME IInv, BeginsOnPR
  PROVE  IInv'
  <1> USE DEF readVars, proofVars
  <1>1. /\ call = Idle /\ Usual /\ pr = "open" /\ head # "rebase"
        /\ head' = "work" /\ disk' = CarriedOver(disk, remote.work) /\ index' = CarriedOver(index, remote.work)
        /\ local' = [local EXCEPT !.work = remote.work]
        /\ UNCHANGED <<commits, remote, origin, detached, cache, blind, call, pr, proven, excused,
                       merged, strays>>
    BY DEF BeginsOnPR, CheckOut
  <1>2. TypeOK /\ Logs' = Logs
    BY <1>1 DEF IInv, Logs
  <1>3. remote.work \in Logs \ {{}} /\ origin \in Logs \ {{}}
    BY <1>1, <1>2, TypeParts DEF TypeOK
  <1>4. disk' \in SUBSET Lines /\ index' \in SUBSET Lines
    BY <1>1, CarriedIsTree
  <1>5. local' \in [Branches -> Logs'] /\ local'.work = remote.work
    BY <1>1, <1>2, <1>3 DEF TypeOK, RefsOK, Branches
  <1>6. HeadOK'
    BY <1>1, <1>2, <1>3, <1>5 DEF TypeOK, HeadOK, HEAD, Branches
  <1>7. cache' \in {None} \cup SUBSET Code /\ blind' \in SUBSET Theirs
    BY <1>1, <1>2 DEF TypeOK
  <1> QED BY <1>1, <1>2, <1>3, <1>4, <1>5, <1>6, <1>7, LocalTyped DEF Grows

LEMMA ReadFileKeeps ==
  ASSUME IInv, ReadFile
  PROVE  IInv'
  <1> USE DEF treeVars, refVars, proofVars
  <1>1. /\ call = Idle /\ Unusual /\ cache' = FullRead
        /\ UNCHANGED <<commits, remote, origin, local, head, detached, index, disk, blind, call, pr,
                       proven, excused, merged, strays>>
    BY DEF ReadFile
  <1>2. TypeOK /\ Logs' = Logs
    BY <1>1 DEF IInv, Logs
  <1>3. cache' \in {None} \cup SUBSET Code
    BY <1>1, <1>2, ReadsCode
  <1>4. HeadOK' /\ local' \in [Branches -> Logs'] /\ index' \in SUBSET Lines /\ disk' \in SUBSET Lines
        /\ blind' \in SUBSET Theirs /\ origin' \in Logs' \ {{}}
    BY <1>1, <1>2 DEF TypeOK, HeadOK, HEAD, RefsOK
  <1> QED BY <1>1, <1>3, <1>4, LocalTyped DEF Grows

LEMMA WriteFileKeeps ==
  ASSUME IInv, NEW l \in Ours, NEW whole \in BOOLEAN, WriteFile(l, whole)
  PROVE  IInv'
  <1> USE DEF refVars, proofVars
  <1>1. PICK basis : /\ basis = IF whole THEN FullRead ELSE RangeRead
                     /\ cache' = (IF whole THEN basis ELSE cache)
                     /\ disk' = ((basis \cup {l}) \ {Clash}) \cup (disk \ Code)
                     /\ blind' = IF whole THEN blind \cup ((disk \cap Theirs) \ basis) ELSE blind
    BY DEF WriteFile
  <1>2. /\ call = Idle /\ (Usual \/ Unusual)
        /\ UNCHANGED <<commits, remote, origin, local, head, detached, index, call, pr, proven, excused,
                       merged, strays>>
    BY DEF WriteFile, Pays
  <1>3. TypeOK /\ Logs' = Logs
    BY <1>2 DEF IInv, Logs
  <1>4. basis \in SUBSET Code
    BY <1>1, <1>3, ReadsCode
  <1>5. cache' \in {None} \cup SUBSET Code /\ blind' \in SUBSET Theirs
    BY <1>1, <1>3, <1>4 DEF TypeOK
  <1>6. disk' \in SUBSET Lines
    BY <1>1, <1>3, <1>4 DEF TypeOK, Lines, Code
  <1>7. HeadOK' /\ local' \in [Branches -> Logs'] /\ index' \in SUBSET Lines /\ origin' \in Logs' \ {{}}
    BY <1>2, <1>3 DEF TypeOK, HeadOK, HEAD, RefsOK
  <1> QED BY <1>2, <1>5, <1>6, <1>7, LocalTyped DEF Grows

LEMMA GitAddKeeps ==
  ASSUME IInv, GitAdd
  PROVE  IInv'
  <1> USE DEF readVars, refVars, proofVars
  <1>1. /\ call = Idle /\ Usual /\ index' = disk
        /\ UNCHANGED <<commits, remote, origin, local, head, detached, disk, cache, blind, call, pr,
                       proven, excused, merged, strays>>
    BY DEF GitAdd
  <1>2. TypeOK /\ Logs' = Logs
    BY <1>1 DEF IInv, Logs
  <1>3. HeadOK' /\ local' \in [Branches -> Logs'] /\ index' \in SUBSET Lines /\ disk' \in SUBSET Lines
        /\ cache' \in {None} \cup SUBSET Code /\ blind' \in SUBSET Theirs /\ origin' \in Logs' \ {{}}
    BY <1>1, <1>2 DEF TypeOK, HeadOK, HEAD, RefsOK
  <1> QED BY <1>1, <1>3, LocalTyped DEF Grows

LEMMA FetchKeeps ==
  ASSUME IInv, Fetch
  PROVE  IInv'
  <1> USE DEF readVars, treeVars, proofVars
  <1>1. /\ call = Idle /\ Usual /\ origin' = remote.main
        /\ UNCHANGED <<commits, remote, local, head, detached, index, disk, cache, blind, call, pr,
                       proven, excused, merged, strays>>
    BY DEF Fetch
  <1>2. TypeOK /\ Logs' = Logs
    BY <1>1 DEF IInv, Logs
  <1>3. HeadOK' /\ local' \in [Branches -> Logs'] /\ index' \in SUBSET Lines /\ disk' \in SUBSET Lines
        /\ cache' \in {None} \cup SUBSET Code /\ blind' \in SUBSET Theirs
    BY <1>1, <1>2 DEF TypeOK, HeadOK, HEAD, RefsOK
  <1> QED BY <1>1, <1>2, <1>3, LocalTyped, TypeParts DEF Grows

LEMMA CheckoutBranchKeeps ==
  ASSUME IInv, NEW b \in Branches, CheckoutBranch(b)
  PROVE  IInv'
  <1> USE DEF readVars, refVars, proofVars
  <1>1. /\ call = Idle /\ Unusual /\ local[b] # {} /\ head # "rebase"
        /\ head' = b /\ disk' = CarriedOver(disk, local[b]) /\ index' = CarriedOver(index, local[b])
        /\ UNCHANGED <<commits, remote, origin, local, detached, cache, blind, call, pr,
                       proven, excused, merged, strays>>
    BY DEF CheckoutBranch, CheckOut
  <1>2. TypeOK /\ Logs' = Logs
    BY <1>1 DEF IInv, Logs
  <1>3. disk' \in SUBSET Lines /\ index' \in SUBSET Lines
    BY <1>1, CarriedIsTree
  <1>4. local' \in [Branches -> Logs'] /\ cache' \in {None} \cup SUBSET Code /\ blind' \in SUBSET Theirs
        /\ origin' \in Logs' \ {{}}
    BY <1>1, <1>2 DEF TypeOK, RefsOK
  <1>5. HeadOK'
    BY <1>1, <1>2 DEF TypeOK, HeadOK, HEAD, Branches
  <1> QED BY <1>1, <1>3, <1>4, <1>5, LocalTyped DEF Grows

LEMMA CheckoutNewKeeps ==
  ASSUME IInv, CheckoutNew
  PROVE  IInv'
  <1> USE DEF readVars, proofVars
  <1>1. /\ call = Idle /\ Usual /\ head = "main" /\ head' = "work"
        /\ local' = [local EXCEPT !.work = HEAD]
        /\ UNCHANGED <<commits, remote, origin, detached, index, disk, cache, blind, call, pr,
                       proven, excused, merged, strays>>
    BY DEF CheckoutNew
  <1>2. TypeOK /\ Logs' = Logs
    BY <1>1 DEF IInv, Logs
  <1>3. HEAD \in Logs \ {{}}
    BY <1>2, TypeParts
  <1>4. PICK h \in Logs \ {{}} : h = HEAD
    BY <1>3
  <1>5. local' \in [Branches -> Logs'] /\ local'.work = h
    BY <1>1, <1>2, <1>4 DEF TypeOK, RefsOK, Branches
  <1>6. HeadOK'
    BY <1>1, <1>2, <1>4, <1>5 DEF TypeOK, HeadOK, HEAD, Branches
  <1>7. index' \in SUBSET Lines /\ disk' \in SUBSET Lines /\ cache' \in {None} \cup SUBSET Code
        /\ blind' \in SUBSET Theirs /\ origin' \in Logs' \ {{}}
    BY <1>1, <1>2 DEF TypeOK, RefsOK
  <1> QED BY <1>1, <1>5, <1>6, <1>7, LocalTyped DEF Grows

LEMMA RebaseContinuesKeeps ==
  ASSUME IInv, RebaseContinues
  PROVE  IInv'
  <1> USE DEF readVars, proofVars
  <1>1. /\ call = Idle /\ Usual /\ head = "rebase" /\ head' = "work"
        /\ local' = [local EXCEPT !.work = detached] /\ detached' = {}
        /\ UNCHANGED <<commits, remote, origin, index, disk, cache, blind, call, pr,
                       proven, excused, merged, strays>>
    BY DEF RebaseContinues
  <1>2. TypeOK /\ Logs' = Logs
    BY <1>1 DEF IInv, Logs
  <1>3. detached \in Logs \ {{}} /\ {} \in Logs
    BY <1>1, <1>2 DEF TypeOK, HeadOK, Logs
  <1>4. local' \in [Branches -> Logs'] /\ local'.work = detached
    BY <1>1, <1>2, <1>3 DEF TypeOK, RefsOK, Branches
  <1>5. HeadOK'
    BY <1>1, <1>2, <1>3, <1>4 DEF HeadOK, HEAD, Branches
  <1>6. index' \in SUBSET Lines /\ disk' \in SUBSET Lines /\ cache' \in {None} \cup SUBSET Code
        /\ blind' \in SUBSET Theirs /\ origin' \in Logs' \ {{}}
    BY <1>1, <1>2 DEF TypeOK, RefsOK
  <1> QED BY <1>1, <1>4, <1>5, <1>6, LocalTyped DEF Grows

LEMMA RebaseAbortsKeeps ==
  ASSUME IInv, RebaseAborts
  PROVE  IInv'
  <1> USE DEF readVars, refVars, proofVars
  <1>1. /\ call = Idle /\ Usual /\ head = "rebase" /\ head' = "work" /\ detached' = {}
        /\ disk' = TreeOf(local.work) /\ index' = TreeOf(local.work)
        /\ UNCHANGED <<commits, remote, origin, local, cache, blind, call, pr,
                       proven, excused, merged, strays>>
    BY DEF RebaseAborts
  <1>2. TypeOK /\ Logs' = Logs
    BY <1>1 DEF IInv, Logs
  <1>3. local.work \in Logs \ {{}} /\ {} \in Logs /\ CommitsOK
    BY <1>1, <1>2, TypeParts DEF HeadOK, Logs
  <1>4. disk' \in SUBSET Lines /\ index' \in SUBSET Lines
    BY <1>1, <1>3, Trees
  <1>5. HeadOK'
    BY <1>1, <1>2, <1>3 DEF HeadOK, HEAD, Branches
  <1>6. local' \in [Branches -> Logs'] /\ cache' \in {None} \cup SUBSET Code
        /\ blind' \in SUBSET Theirs /\ origin' \in Logs' \ {{}}
    BY <1>1, <1>2 DEF TypeOK, RefsOK
  <1> QED BY <1>1, <1>4, <1>5, <1>6, LocalTyped DEF Grows

-----------------------------------------------------------------------------
(* What a rebase, a commit and a push do to the references.                *)
LEMMA CleanRebase ==
  ASSUME TypeOK, NEW onto \in Logs \ {{}}, RebasesCleanly(onto)
  PROVE  /\ Grows /\ head \in Branches /\ UNCHANGED <<head, detached>>
         /\ local' \in [Branches -> Logs'] /\ HeadOK'
         /\ onto \subseteq local'[head] /\ local'[head] \in Logs' \ {{}} /\ HEAD' = local'[head]
         /\ index' \in SUBSET Lines /\ disk' \in SUBSET Lines
  <1> DEFINE tree == Merge(Fork(HEAD, onto), TreeOf(HEAD), TreeOf(onto))
  <1>1. /\ head # "rebase" /\ UNCHANGED <<head, detached>>
        /\ tree = TreeOf(onto) \/ Len(commits) < MaxCommits
        /\ commits' = IF tree = TreeOf(onto) THEN commits ELSE Append(commits, tree)
        /\ local' = [local EXCEPT ![head] = IF tree = TreeOf(onto) THEN onto ELSE onto \cup {New}]
        /\ disk' = tree /\ index' = tree
    BY DEF RebasesCleanly
  <1>2. CommitsOK /\ TreeOf(HEAD) \in SUBSET Lines /\ TreeOf(onto) \in SUBSET Lines
    BY TypeParts, Trees
  <1>3. tree \in SUBSET Lines
    BY <1>2, MergedTree
  <1> HIDE DEF tree
  <1>4. Grows
    BY <1>1, <1>3 DEF Grows
  <1>5. Logs \subseteq Logs'
    BY <1>2, <1>4, Growing
  <1>6. PICK tip : tip = IF tree = TreeOf(onto) THEN onto ELSE onto \cup {New}
    OBVIOUS
  <1>7. tip \in Logs' \ {{}} /\ onto \subseteq tip
    <2>1. CASE tree = TreeOf(onto)
      BY <1>5, <1>6, <2>1
    <2>2. CASE tree # TreeOf(onto)
      BY <1>1, <1>2, <1>3, <1>6, <2>2, AddingOne
    <2> QED BY <2>1, <2>2
  <1>8. head \in Branches /\ detached = {} /\ {} \in Logs'
    BY <1>1 DEF TypeOK, HeadOK, Logs
  <1>9. local' \in [Branches -> Logs'] /\ local'[head] = tip
    BY <1>1, <1>5, <1>6, <1>7, <1>8 DEF TypeOK, RefsOK
  <1>10. HEAD' = local'[head]
    BY <1>1 DEF HEAD
  <1>11. HeadOK'
    BY <1>1, <1>7, <1>8, <1>9, <1>10 DEF HeadOK
  <1> QED BY <1>1, <1>3, <1>4, <1>7, <1>8, <1>9, <1>10, <1>11

LEMMA ConflictingRebase ==
  ASSUME TypeOK, NEW onto \in Logs \ {{}}, RebaseConflicts(onto)
  PROVE  /\ HeadOK' /\ UNCHANGED <<commits, local>>
         /\ index' \in SUBSET Lines /\ disk' \in SUBSET Lines
  <1>1. /\ head = "work" /\ head' = "rebase" /\ detached' = onto /\ index' = TreeOf(onto)
        /\ disk' = TreeOf(onto) \cup {Clash} \cup (TreeOf(HEAD) \cap Ours)
        /\ UNCHANGED <<commits, local>>
    BY DEF RebaseConflicts
  <1>2. TreeOf(HEAD) \in SUBSET Lines /\ TreeOf(onto) \in SUBSET Lines
    BY TypeParts, Trees
  <1>3. disk' \in SUBSET Lines
    BY <1>1, <1>2 DEF Lines, Code
  <1>4. local.work # {} /\ Logs' = Logs
    BY <1>1 DEF TypeOK, HeadOK, HEAD, Logs
  <1>5. HeadOK'
    BY <1>1, <1>4 DEF HeadOK, HEAD
  <1> QED BY <1>1, <1>2, <1>3, <1>5

LEMMA RebaseKeeps ==
  ASSUME IInv, Rebase
  PROVE  IInv'
  <1> USE DEF readVars, proofVars
  <1>1. /\ call = Idle
        /\ UNCHANGED <<remote, origin, cache, blind, call, pr, proven, excused, merged, strays>>
        /\ (Usual /\ RebasesCleanly(origin)) \/ (Unusual /\ RebaseConflicts(origin))
    BY DEF Rebase
  <1>2. TypeOK
    BY DEF IInv
  <1>3. CommitsOK /\ origin \in Logs \ {{}}
    BY <1>2, TypeParts
  <1>4. Grows /\ HeadOK' /\ local' \in [Branches -> Logs'] /\ index' \in SUBSET Lines
        /\ disk' \in SUBSET Lines
    <2>1. CASE RebasesCleanly(origin)
      BY <1>2, <1>3, <2>1, CleanRebase
    <2>2. CASE RebaseConflicts(origin)
      <3>1. UNCHANGED <<commits, local>> /\ Logs' = Logs
        BY <1>2, <1>3, <2>2, ConflictingRebase DEF Logs
      <3> QED BY <1>2, <1>3, <2>2, <3>1, ConflictingRebase DEF TypeOK, RefsOK, Grows
    <2> QED BY <1>1, <2>1, <2>2
  <1>5. origin' \in Logs' \ {{}}
    BY <1>1, <1>3, <1>4, Growing
  <1>6. cache' \in {None} \cup SUBSET Code /\ blind' \in SUBSET Theirs
    BY <1>1, <1>2 DEF TypeOK
  <1> QED BY <1>1, <1>4, <1>5, <1>6, LocalTyped

LEMMA Committing ==
  ASSUME TypeOK, NEW tree \in SUBSET Lines, Commit(tree), UNCHANGED head
  PROVE  /\ Grows /\ local' \in [Branches -> Logs'] /\ HeadOK'
         /\ HEAD \cup {New} \in Logs' \ {{}} /\ TreeIn(commits', HEAD \cup {New}) = tree
         /\ HEAD' = HEAD \cup {New}
  <1>1. /\ commits' = Append(commits, tree) /\ Len(commits) < MaxCommits
        /\ IF head = "rebase" THEN detached' = detached \cup {New} /\ UNCHANGED local
           ELSE local' = [local EXCEPT ![head] = @ \cup {New}] /\ UNCHANGED detached
    BY DEF Commit
  <1>2. CommitsOK /\ HEAD \in Logs \ {{}}
    BY TypeParts
  <1>3. Grows /\ HEAD \cup {New} \in Logs' \ {{}} /\ TreeIn(commits', HEAD \cup {New}) = tree
    BY <1>1, <1>2, AddingOne
  <1>4. Logs \subseteq Logs'
    BY <1>2, <1>3, Growing
  <1>5. CASE head = "rebase"
    <2>1. local' \in [Branches -> Logs'] /\ local'.work # {}
      BY <1>1, <1>4, <1>5 DEF TypeOK, RefsOK, HeadOK
    <2>2. HEAD' = HEAD \cup {New} /\ detached' = HEAD \cup {New}
      BY <1>1, <1>5 DEF HEAD
    <2>3. HeadOK'
      BY <1>3, <1>5, <2>1, <2>2 DEF HeadOK, TypeOK
    <2> QED BY <1>3, <2>1, <2>2, <2>3
  <1>6. CASE head # "rebase"
    <2>1. head \in Branches /\ detached = {} /\ HEAD = local[head]
      BY <1>6 DEF TypeOK, HeadOK, HEAD
    <2>2. local' \in [Branches -> Logs'] /\ local'[head] = HEAD \cup {New}
      <3>1. PICK tip \in Logs' : tip = HEAD \cup {New}
        BY <1>3
      <3>2. local' = [local EXCEPT ![head] = tip] /\ local \in [Branches -> Logs']
        BY <1>1, <1>4, <1>6, <2>1, <3>1 DEF TypeOK, RefsOK
      <3> QED BY <2>1, <3>1, <3>2
    <2>3. HEAD' = HEAD \cup {New}
      BY <1>6, <2>2 DEF HEAD
    <2>4. HeadOK'
      BY <1>1, <1>3, <1>6, <2>1, <2>3 DEF HeadOK, Logs
    <2> QED BY <1>3, <2>2, <2>3, <2>4
  <1> QED BY <1>5, <1>6

LEMMA BashCommitKeeps ==
  ASSUME IInv, BashCommit
  PROVE  IInv'
  <1> USE DEF readVars, proofVars
  <1>1. /\ call = Idle /\ Unusual /\ Commit(index)
        /\ UNCHANGED <<remote, origin, head, index, disk, cache, blind, call, pr, proven, excused,
                       merged, strays>>
    BY DEF BashCommit
  <1>2. TypeOK /\ CommitsOK /\ origin \in Logs \ {{}} /\ index \in SUBSET Lines
    BY TypeParts DEF IInv
  <1>3. Grows /\ local' \in [Branches -> Logs'] /\ HeadOK'
    BY <1>1, <1>2, Committing
  <1>4. origin' \in Logs' \ {{}}
    BY <1>1, <1>2, <1>3, Growing
  <1>5. index' \in SUBSET Lines /\ disk' \in SUBSET Lines /\ cache' \in {None} \cup SUBSET Code
        /\ blind' \in SUBSET Theirs
    BY <1>1, <1>2 DEF TypeOK
  <1> QED BY <1>1, <1>3, <1>4, <1>5, LocalTyped

(* A push puts what is pushed on its branch, or nothing anywhere.          *)
LEMMA Pushing ==
  ASSUME TypeOK, Grows, NEW fetched \in Logs' \ {{}}, NEW b \in Branches \cup {"rebase"},
         NEW log \in Logs' \ {{}}, NEW how, PushHead(fetched, b, log, how)
  PROVE  /\ remote' \in [Branches -> Logs'] /\ remote'.main # {} /\ origin' \in Logs' \ {{}}
         /\ \A x \in Branches : remote[x] \subseteq remote'[x]
         /\ (how = "ok" => b \in Branches /\ remote'[b] = log) /\ (how # "ok" => remote' = remote)
         /\ \A x \in Branches \ {b} : remote'[x] = remote[x]
         /\ origin' = fetched \/ (how = "ok" /\ b = "main" /\ origin' = log)
  <1>1. remote \in [Branches -> Logs'] /\ remote.main # {}
    BY TypeParts, Growing DEF RefsOK
  <1>2. CASE how = "ok" /\ Accepts(b, log) /\ remote' = [remote EXCEPT ![b] = log]
             /\ origin' = IF b = "main" THEN log ELSE fetched
    <2>1. b \in Branches /\ remote[b] \subseteq log
      BY <1>2 DEF Accepts
    <2>2. remote' \in [Branches -> Logs'] /\ remote'[b] = log /\ \A x \in Branches \ {b} : remote'[x] = remote[x]
      BY <1>1, <1>2, <2>1
    <2>3. remote'.main # {}
      BY <1>1, <2>1, <2>2 DEF Branches
    <2> QED BY <1>2, <2>1, <2>2, <2>3
  <1>3. CASE how # "ok" /\ origin' = fetched /\ UNCHANGED remote
    BY <1>1, <1>3
  <1> QED BY <1>2, <1>3 DEF PushHead

KeepsBranches == \A b \in Branches : remote[b] \subseteq remote'[b]

(* A push that is not known to be tested says so.                          *)
LEMMA UntestedKeeps ==
  ASSUME IInv, Grows, UNCHANGED pr,
         Unproven \/ (remote'.work = remote.work /\ UNCHANGED proofVars)
  PROVE  TestedUnlessExcused' /\ proven' \in SUBSET Lines /\ excused' \in BOOLEAN
  <1>1. CommitsOK /\ remote.work \in Logs /\ proven \in SUBSET Lines /\ excused \in BOOLEAN
    BY TypeParts DEF IInv, TypeOK
  <1>2. CASE Unproven
    BY <1>2 DEF Unproven, TestedUnlessExcused
  <1>3. CASE remote'.work = remote.work /\ UNCHANGED proofVars
    <2>1. TreeOf(remote.work)' = TreeOf(remote.work)
      BY <1>1, <1>3, Growing DEF TreeOf, TreeIn
    <2> QED BY <1>1, <1>3, <2>1 DEF IInv, TestedUnlessExcused, proofVars
  <1> QED BY <1>2, <1>3

(* What a push brings to main is noted.                                    *)
LEMMA StraysKeep ==
  ASSUME IInv, Grows, remote' \in [Branches -> Logs'], remote'.main # {}, UNCHANGED merged, Strays
  PROVE  MainOnlyMerged' /\ strays' \in SUBSET Ours /\ merged' \in SUBSET Ours
  <1>1. CommitsOK /\ remote.main \in Logs \ {{}} /\ strays \in SUBSET Ours /\ merged \in SUBSET Ours
    BY TypeParts DEF IInv, TypeOK
  <1>2. TreeOf(remote.main)' = commits'[Max(remote'.main)]
    BY DEF TreeOf
  <1>3. CASE remote'.main = remote.main
    <2>1. TreeOf(remote.main)' = TreeOf(remote.main)
      BY <1>1, <1>3, Growing DEF TreeOf, TreeIn
    <2> QED BY <1>1, <1>3, <2>1 DEF Strays, IInv, MainOnlyMerged
  <1>4. CASE remote'.main # remote.main
    <2>1. strays' = strays \cup ((Ours \cap commits'[Max(remote'.main)]) \ TreeOf(remote.main))
      BY <1>4 DEF Strays
    <2> QED BY <1>1, <1>2, <2>1 DEF IInv, MainOnlyMerged
  <1> QED BY <1>3, <1>4

(* The pull request keeps its branch.                                      *)
LEMMA StillThere ==
  ASSUME TypeOK, KeepsBranches, UNCHANGED pr
  PROVE  pr' \in {"none", "open", "merged"} /\ (pr' = "open" => remote'.work # {})
  BY DEF TypeOK, KeepsBranches, Branches

LEMMA BashPushKeeps ==
  ASSUME IInv, BashPush
  PROVE  IInv' /\ KeepsBranches
  <1> USE DEF readVars, treeVars
  <1>1. /\ call = Idle /\ Unusual /\ PushHead(origin, head, HEAD, "ok") /\ Strays /\ Unproven
        /\ UNCHANGED <<commits, local, head, detached, index, disk, cache, blind, call, pr, merged>>
    BY DEF BashPush
  <1>2. TypeOK /\ Logs' = Logs /\ Grows
    BY <1>1 DEF IInv, Logs, Grows
  <1>3. origin \in Logs' \ {{}} /\ HEAD \in Logs' \ {{}} /\ head \in Branches \cup {"rebase"}
    BY <1>2, TypeParts DEF HeadOK
  <1>4. /\ remote' \in [Branches -> Logs'] /\ remote'.main # {} /\ origin' \in Logs' \ {{}}
        /\ KeepsBranches
    BY <1>1, <1>2, <1>3, Pushing DEF KeepsBranches
  <1>5. RefsOK' /\ HeadOK'
    BY <1>1, <1>2, <1>4 DEF TypeOK, RefsOK, HeadOK, HEAD
  <1>6. TestedUnlessExcused' /\ proven' \in SUBSET Lines /\ excused' \in BOOLEAN
    BY <1>1, <1>2, UntestedKeeps
  <1>7. MainOnlyMerged' /\ strays' \in SUBSET Ours /\ merged' \in SUBSET Ours
    BY <1>1, <1>2, <1>4, StraysKeep
  <1>8. TypeOK'
    <2>1. /\ call' \in [step : {"idle", "gated", "pushed", "tested"}, whole : BOOLEAN]
          /\ index' \in SUBSET Lines /\ disk' \in SUBSET Lines /\ cache' \in {None} \cup SUBSET Code
          /\ blind' \in SUBSET Theirs
      BY <1>1, <1>2 DEF TypeOK
    <2> QED BY <1>1, <1>2, <1>4, <1>5, <1>6, <1>7, <2>1, StillThere, TypesKept
  <1>9. CallOK'
    BY <1>1 DEF CallOK, Idle
  <1> QED BY <1>4, <1>6, <1>7, <1>8, <1>9 DEF IInv

(* A forced one keeps the branches that are not checked out.               *)
LEMMA BashForcesKeeps ==
  ASSUME IInv, BashForces
  PROVE  IInv' /\ \A b \in Branches \ {head} : remote[b] \subseteq remote'[b]
  <1> USE DEF readVars, treeVars
  <1>1. /\ call = Idle /\ Unusual /\ Strays /\ Unproven /\ head # "rebase"
        /\ remote' = [remote EXCEPT ![head] = HEAD] /\ origin' \in {origin, HEAD}
        /\ UNCHANGED <<commits, local, head, detached, index, disk, cache, blind, call, pr, merged>>
    BY DEF BashForces
  <1>2. TypeOK /\ Logs' = Logs /\ Grows
    BY <1>1 DEF IInv, Logs, Grows
  <1>3. /\ origin \in Logs' \ {{}} /\ HEAD \in Logs' \ {{}} /\ head \in Branches
        /\ remote \in [Branches -> Logs] /\ remote.main # {}
    BY <1>1, <1>2, TypeParts DEF HeadOK, RefsOK
  <1>4. /\ remote' \in [Branches -> Logs'] /\ remote'.main # {} /\ origin' \in Logs' \ {{}}
        /\ \A b \in Branches \ {head} : remote[b] \subseteq remote'[b]
        /\ remote.work # {} => remote'.work # {}
    <2>1. PICK log \in Logs' \ {{}} : log = HEAD
      BY <1>3
    <2>2. remote' = [remote EXCEPT ![head] = log]
      BY <1>1, <2>1
    <2> QED BY <1>1, <1>2, <1>3, <2>1, <2>2 DEF Branches
  <1>5. RefsOK' /\ HeadOK'
    BY <1>1, <1>2, <1>4 DEF TypeOK, RefsOK, HeadOK, HEAD
  <1>6. TestedUnlessExcused' /\ proven' \in SUBSET Lines /\ excused' \in BOOLEAN
    BY <1>1, <1>2, UntestedKeeps
  <1>7. MainOnlyMerged' /\ strays' \in SUBSET Ours /\ merged' \in SUBSET Ours
    BY <1>1, <1>2, <1>4, StraysKeep
  <1>8. TypeOK'
    <2>1. /\ call' \in [step : {"idle", "gated", "pushed", "tested"}, whole : BOOLEAN]
          /\ index' \in SUBSET Lines /\ disk' \in SUBSET Lines /\ cache' \in {None} \cup SUBSET Code
          /\ blind' \in SUBSET Theirs
      BY <1>1, <1>2 DEF TypeOK
    <2>2. pr' \in {"none", "open", "merged"} /\ (pr' = "open" => remote'.work # {})
      BY <1>1, <1>2, <1>4 DEF TypeOK
    <2> QED BY <1>1, <1>2, <1>4, <1>5, <1>6, <1>7, <2>1, <2>2, TypesKept
  <1>9. CallOK'
    BY <1>1 DEF CallOK, Idle
  <1> QED BY <1>4, <1>6, <1>7, <1>8, <1>9 DEF IInv

(* The tools of a change.                                                  *)
LEMMA ChangeKeeps ==
  ASSUME IInv, call = Idle, Unusual, UNCHANGED <<head, cache, blind, call, pr, merged>>,
         disk' \in SUBSET Lines,
         \/ \E tree \in SUBSET Lines : CommitAndPush(tree)
         \/ index' \in SUBSET Lines /\ NoCommit
  PROVE  IInv' /\ KeepsBranches
  <1>1. TypeOK /\ CommitsOK
    BY TypeParts DEF IInv
  <1>2. CallOK'
    BY DEF CallOK, Idle
  <1>t. /\ call' \in [step : {"idle", "gated", "pushed", "tested"}, whole : BOOLEAN]
        /\ cache' \in {None} \cup SUBSET Code /\ blind' \in SUBSET Theirs
    BY <1>1 DEF TypeOK
  <1>3. CASE \E tree \in SUBSET Lines : CommitAndPush(tree)
    <2>1. PICK tree \in SUBSET Lines : CommitAndPush(tree)
      BY <1>3
    <2>2. PICK how \in Outcomes : PushHead(origin, head, HEAD \cup {New}, how)
      BY <2>1 DEF CommitAndPush
    <2>3. Commit(tree) /\ index' = tree /\ Strays /\ Unproven
      BY <2>1 DEF CommitAndPush
    <2>4. Grows /\ local' \in [Branches -> Logs'] /\ HeadOK' /\ HEAD \cup {New} \in Logs' \ {{}}
      BY <1>1, <2>3, Committing
    <2>5. origin \in Logs' \ {{}} /\ head \in Branches \cup {"rebase"}
      BY <1>1, <2>4, TypeParts, Growing DEF HeadOK
    <2>6. /\ remote' \in [Branches -> Logs'] /\ remote'.main # {} /\ origin' \in Logs' \ {{}}
          /\ KeepsBranches
      BY <1>1, <2>2, <2>4, <2>5, Pushing DEF KeepsBranches
    <2>7. RefsOK'
      BY <2>4, <2>6 DEF RefsOK
    <2>8. TestedUnlessExcused' /\ proven' \in SUBSET Lines /\ excused' \in BOOLEAN
      BY <2>3, <2>4, UntestedKeeps
    <2>9. MainOnlyMerged' /\ strays' \in SUBSET Ours /\ merged' \in SUBSET Ours
      BY <2>3, <2>4, <2>6, StraysKeep
    <2>10. TypeOK'
      BY <1>1, <1>t, <2>3, <2>4, <2>6, <2>7, <2>8, <2>9, StillThere, TypesKept
    <2> QED BY <1>2, <2>6, <2>8, <2>9, <2>10 DEF IInv
  <1>4. CASE index' \in SUBSET Lines /\ NoCommit
    <2>1. UNCHANGED <<commits, remote, origin, local, detached, strays, proven, excused>>
      BY <1>4 DEF NoCommit, refVars, proofVars
    <2>2. HeadOK' /\ local' \in [Branches -> Logs'] /\ origin' \in Logs' \ {{}}
      BY <1>1, <2>1 DEF TypeOK, HeadOK, HEAD, RefsOK, Logs
    <2>3. IInv'
      BY <1>4, <1>t, <2>1, <2>2, LocalTyped DEF Grows
    <2> QED BY <2>1, <2>3 DEF KeepsBranches
  <1> QED BY <1>3, <1>4

LEMMA MarkTaskKeeps ==
  ASSUME IInv, MarkTask
  PROVE  IInv' /\ KeepsBranches
  <1>1. disk \in SUBSET Lines /\ index \cup {Mark} \in SUBSET Lines /\ disk \cup {Mark} \in SUBSET Lines
    BY DEF IInv, TypeOK, Lines, Tasks
  <1>2. /\ call = Idle /\ Unusual /\ UNCHANGED <<head, cache, blind, call, pr, merged>>
        /\ \/ disk' = disk \cup {Mark} /\ CommitAndPush(index \cup {Mark})
           \/ UNCHANGED disk /\ index' = index \cup {Mark} /\ NoCommit
    BY DEF MarkTask, readVars
  <1> QED BY <1>1, <1>2, ChangeKeeps

LEMMA ArchiveChangeKeeps ==
  ASSUME IInv, ArchiveChange
  PROVE  IInv' /\ KeepsBranches
  <1>1. PICK staged : /\ staged = (index \cap Code) \cup (disk \cap Tasks) \cup {Moved}
                      /\ CommitAndPush(staged) \/ (index' \in {index, staged} /\ NoCommit)
    BY DEF ArchiveChange
  <1>2. /\ call = Idle /\ Unusual /\ UNCHANGED <<head, cache, blind, call, pr, merged>>
        /\ disk' = disk \cup {Moved}
    BY DEF ArchiveChange, readVars
  <1>3. index \in SUBSET Lines /\ staged \in SUBSET Lines /\ disk' \in SUBSET Lines
    BY <1>1, <1>2 DEF IInv, TypeOK, Lines, Tasks
  <1> QED BY <1>1, <1>2, <1>3, ChangeKeeps

-----------------------------------------------------------------------------
(* The git tool's commit, and the manager's pruning.                       *)
LEMMA GitCommitKeeps ==
  ASSUME IInv, GitCommit
  PROVE  IInv' /\ KeepsBranches
  <1>1. /\ call = Idle /\ MayCommit /\ Commit(index)
        /\ UNCHANGED <<head, index, disk, cache, blind, call, pr, merged, strays>>
    BY DEF GitCommit, readVars
  <1>2. TypeOK /\ CommitsOK /\ origin \in Logs \ {{}} /\ index \in SUBSET Lines /\ disk \in SUBSET Lines
        /\ head \in Branches \cup {"rebase"} /\ remote.main \in Logs /\ remote.work \in Logs
    BY TypeParts DEF IInv, HeadOK
  <1>3. /\ Grows /\ local' \in [Branches -> Logs'] /\ HeadOK' /\ HEAD \cup {New} \in Logs' \ {{}}
        /\ TreeIn(commits', HEAD \cup {New}) = index
    BY <1>1, <1>2, Committing
  <1>4. origin \in Logs' \ {{}} /\ \A log \in Logs : TreeIn(commits', log) = TreeIn(commits, log)
    BY <1>2, <1>3, Growing
  <1>t. /\ call' \in [step : {"idle", "gated", "pushed", "tested"}, whole : BOOLEAN]
        /\ index' \in SUBSET Lines /\ disk' \in SUBSET Lines
        /\ cache' \in {None} \cup SUBSET Code /\ blind' \in SUBSET Theirs
        /\ merged' \in SUBSET Ours /\ strays' \in SUBSET Ours
        /\ proven \in SUBSET Lines /\ excused \in BOOLEAN
    BY <1>1, <1>2 DEF TypeOK
  <1>5. CASE Usual /\ UNCHANGED <<remote, origin, proofVars>>
    BY <1>1, <1>3, <1>4, <1>5, <1>t, LocalTyped DEF proofVars, KeepsBranches
  <1>6. ASSUME NEW how \in Outcomes, Pays(how = "lost"), PushHead(origin, head, HEAD \cup {New}, how),
               IF how = "ok" /\ head = "work" /\ pr = "open" THEN Proves(disk, disk = index)
               ELSE UNCHANGED proofVars
        PROVE  IInv' /\ KeepsBranches
    <2>1. /\ remote' \in [Branches -> Logs'] /\ remote'.main # {} /\ origin' \in Logs' \ {{}}
          /\ KeepsBranches /\ (how = "ok" => remote'[head] = HEAD \cup {New})
          /\ (how # "ok" => remote' = remote) /\ \A x \in Branches \ {head} : remote'[x] = remote[x]
      BY <1>2, <1>3, <1>4, <1>6, Pushing DEF KeepsBranches
    <2>2. RefsOK'
      BY <1>3, <2>1 DEF RefsOK
    <2>3. proven' \in SUBSET Lines /\ excused' \in BOOLEAN
      BY <1>2, <1>6, <1>t DEF Proves, proofVars
    <2>4. TypeOK'
      BY <1>1, <1>2, <1>3, <1>6, <1>t, <2>1, <2>2, <2>3, StillThere, TypesKept DEF Pays
    <2>5. TestedUnlessExcused'
      <3>1. CASE how = "ok" /\ head = "work" /\ pr = "open"
        <4>1. excused' = ~(disk = index) /\ (disk = index => proven' = disk)
          BY <1>6, <3>1 DEF Proves
        <4>2. TreeOf(remote.work)' = index
          BY <1>3, <2>1, <3>1 DEF TreeOf, TreeIn
        <4> QED BY <4>1, <4>2 DEF TestedUnlessExcused
      <3>2. CASE pr # "open"
        BY <1>1, <3>2 DEF TestedUnlessExcused
      <3>3. CASE ~(how = "ok" /\ head = "work") /\ pr = "open"
        <4>1. remote'.work = remote.work
          BY <2>1, <3>3 DEF Branches
        <4>2. TreeOf(remote.work)' = TreeOf(remote.work)
          BY <1>2, <1>4, <4>1 DEF TreeOf, TreeIn
        <4> QED BY <1>1, <1>6, <3>3, <4>2 DEF IInv, TestedUnlessExcused, proofVars
      <3> QED BY <3>1, <3>2, <3>3
    <2>6. MainOnlyMerged'
      <3>1. SUFFICES ASSUME ~Scaffold PROVE MainOnlyMerged'
        BY DEF MainOnlyMerged
      <3>2. remote'.main = remote.main
        BY <1>1, <2>1, <3>1 DEF MayCommit, Branches
      <3>3. TreeOf(remote.main)' = TreeOf(remote.main)
        BY <1>2, <1>4, <3>2 DEF TreeOf, TreeIn
      <3> QED BY <1>1, <3>3 DEF IInv, MainOnlyMerged
    <2>7. CallOK'
      BY <1>1 DEF CallOK, Idle
    <2> QED BY <2>1, <2>4, <2>5, <2>6, <2>7 DEF IInv
  <1> QED BY <1>5, <1>6 DEF GitCommit

LEMMA SameTrees ==
  ASSUME IInv, UNCHANGED <<commits, remote, pr, proven, excused, merged, strays>>
  PROVE  TestedUnlessExcused' /\ MainOnlyMerged' /\ TreeOf(remote.work)' = TreeOf(remote.work)
  BY DEF IInv, TestedUnlessExcused, MainOnlyMerged, TreeOf

LEMMA PruneKeeps ==
  ASSUME IInv, PruneMergedBranches
  PROVE  IInv'
  <1>1. /\ Usual /\ head = "main" /\ local' = [local EXCEPT !.work = {}]
        /\ UNCHANGED <<commits, remote, origin, head, detached, index, disk, cache, blind, call, pr,
                       proven, excused, merged, strays>>
    BY DEF PruneMergedBranches, treeVars, readVars, proofVars
  <1>2. TypeOK /\ Logs' = Logs /\ {} \in Logs
    BY <1>1 DEF IInv, Logs
  <1>3. local' \in [Branches -> Logs'] /\ local'.main = local.main
    BY <1>1, <1>2 DEF TypeOK, RefsOK, Branches
  <1>4. HEAD' = HEAD
    BY <1>1, <1>3 DEF HEAD
  <1>5. HeadOK' /\ RefsOK'
    BY <1>1, <1>2, <1>3, <1>4 DEF TypeOK, HeadOK, RefsOK
  <1>6. TypeOK'
    BY <1>1, <1>2, <1>5, TypesKept DEF Grows, TypeOK
  <1>7. CallOK'
    BY <1>1, <1>4, SameTrees DEF IInv, CallOK, OnForge
  <1> QED BY <1>1, <1>6, <1>7, SameTrees DEF IInv

-----------------------------------------------------------------------------
(* forgejo_create_pr.                                                      *)
(* Its steps that leave clone and forge alone.                             *)
LEMMA StillTyped ==
  ASSUME IInv, Usual, UNCHANGED <<commits, refVars, treeVars, readVars, merged, strays>>,
         call' \in [step : {"idle", "gated", "pushed", "tested"}, whole : BOOLEAN],
         pr' \in {"none", "open", "merged"}, pr' = "open" => remote.work # {},
         proven' \in SUBSET Lines, excused' \in BOOLEAN
  PROVE  TypeOK'
  <1>1. UNCHANGED <<commits, remote, origin, local, head, detached, index, disk, cache, blind, merged,
                    strays>>
    BY DEF refVars, treeVars, readVars
  <1>2. TypeOK /\ Logs' = Logs
    BY <1>1 DEF IInv, Logs
  <1>3. HeadOK' /\ RefsOK'
    BY <1>1, <1>2 DEF TypeOK, HeadOK, HEAD, RefsOK
  <1> QED BY <1>1, <1>2, <1>3, TypesKept DEF Grows, TypeOK

LEMMA StaleGatePassesKeeps ==
  ASSUME IInv, StaleGatePasses
  PROVE  IInv'
  <1>1. /\ Usual /\ origin \subseteq HEAD /\ call' = [step |-> "gated", whole |-> TRUE]
        /\ UNCHANGED <<commits, refVars, treeVars, readVars, pr, proofVars, merged, strays>>
    BY DEF StaleGatePasses, Fresh, Reached
  <1>2. TypeOK'
    BY <1>1, StillTyped DEF proofVars, IInv, TypeOK
  <1>3. TestedUnlessExcused' /\ MainOnlyMerged'
    BY <1>1, SameTrees DEF refVars, proofVars
  <1>4. CallOK'
    BY <1>1 DEF CallOK, refVars, treeVars, HEAD
  <1> QED BY <1>2, <1>3, <1>4 DEF IInv

LEMMA GatesPassKeeps ==
  ASSUME IInv, GatesPass
  PROVE  IInv'
  <1>1. /\ Usual /\ call.step = "pushed" /\ OnForge("work")
        /\ call' = [step |-> "tested", whole |-> call.whole]
        /\ UNCHANGED <<commits, refVars, treeVars, readVars, pr, proofVars, merged, strays>>
    BY DEF GatesPass, Reached
  <1>2. call.whole \in BOOLEAN
    BY DEF IInv, TypeOK
  <1>3. TypeOK'
    BY <1>1, <1>2, StillTyped DEF proofVars, IInv, TypeOK
  <1>4. TestedUnlessExcused' /\ MainOnlyMerged' /\ TreeOf(remote.work)' = TreeOf(remote.work)
    BY <1>1, SameTrees DEF refVars, proofVars
  <1>5. CallOK'
    BY <1>1, <1>4 DEF IInv, CallOK, OnForge, refVars, treeVars
  <1> QED BY <1>3, <1>4, <1>5 DEF IInv

LEMMA CreateFailsKeeps ==
  ASSUME IInv, CreateFails
  PROVE  IInv'
  <1>1. /\ Usual /\ call' = Idle
        /\ UNCHANGED <<commits, refVars, treeVars, readVars, pr, proofVars, merged, strays>>
    BY DEF CreateFails, Returns
  <1>2. TypeOK'
    BY <1>1, StillTyped DEF proofVars, IInv, TypeOK, Idle
  <1>3. TestedUnlessExcused' /\ MainOnlyMerged'
    BY <1>1, SameTrees DEF refVars, proofVars
  <1>4. CallOK'
    BY <1>1 DEF CallOK, Idle
  <1> QED BY <1>2, <1>3, <1>4 DEF IInv

LEMMA CreatesPRKeeps ==
  ASSUME IInv, CreatesPR
  PROVE  IInv' /\ (call.whole => origin \subseteq remote.work)
  <1>1. /\ Usual /\ call.step = "tested" /\ pr' = "open" /\ call' = Idle /\ Proves(disk, call.whole)
        /\ UNCHANGED <<commits, refVars, treeVars, readVars, merged, strays>>
    BY DEF CreatesPR, Returns
  <1>2. call.whole \in BOOLEAN /\ disk \in SUBSET Lines
    BY DEF IInv, TypeOK
  <1>3. remote.work # {} /\ (call.whole => TreeOf(remote.work) = disk /\ origin \subseteq remote.work)
    BY <1>1 DEF IInv, CallOK, OnForge
  <1>4. /\ excused' = ~call.whole /\ (call.whole => proven' = disk)
        /\ proven' \in SUBSET Lines /\ excused' \in BOOLEAN
    BY <1>1, <1>2 DEF Proves
  <1>5. TypeOK'
    BY <1>1, <1>3, <1>4, StillTyped DEF Idle
  <1>6. UNCHANGED <<commits, remote>>
    BY <1>1 DEF refVars
  <1>7. TestedUnlessExcused'
    BY <1>3, <1>4, <1>6 DEF TestedUnlessExcused, TreeOf
  <1>8. MainOnlyMerged'
    BY <1>1, <1>6 DEF IInv, MainOnlyMerged, TreeOf
  <1>9. CallOK'
    BY <1>1 DEF CallOK, Idle
  <1> QED BY <1>3, <1>5, <1>7, <1>8, <1>9 DEF IInv

(* Its steps that push.                                                    *)
LEMMA PushedTyped ==
  ASSUME IInv, Grows, Usual \/ Unusual, HeadOK', local' \in [Branches -> Logs'],
         index' \in SUBSET Lines, disk' \in SUBSET Lines, UNCHANGED <<cache, blind, pr, merged>>,
         call' \in [step : {"idle", "gated", "pushed", "tested"}, whole : BOOLEAN],
         NEW fetched \in Logs' \ {{}}, NEW b \in Branches \cup {"rebase"}, NEW log \in Logs' \ {{}},
         NEW how, PushHead(fetched, b, log, how), Strays, PushedUntested
  PROVE  TypeOK' /\ TestedUnlessExcused' /\ MainOnlyMerged' /\ KeepsBranches
  <1>1. TypeOK
    BY DEF IInv
  <1>2. /\ remote' \in [Branches -> Logs'] /\ remote'.main # {} /\ origin' \in Logs' \ {{}}
        /\ KeepsBranches
    BY <1>1, Pushing DEF KeepsBranches
  <1>3. RefsOK'
    BY <1>2 DEF RefsOK
  <1>4. Unproven \/ (remote'.work = remote.work /\ UNCHANGED proofVars)
    BY DEF PushedUntested
  <1>5. TestedUnlessExcused' /\ proven' \in SUBSET Lines /\ excused' \in BOOLEAN
    BY <1>4, UntestedKeeps
  <1>6. MainOnlyMerged' /\ strays' \in SUBSET Ours /\ merged' \in SUBSET Ours
    BY <1>2, StraysKeep
  <1>7. cache' \in {None} \cup SUBSET Code /\ blind' \in SUBSET Theirs
    BY <1>1 DEF TypeOK
  <1>8. pr' \in {"none", "open", "merged"} /\ (pr' = "open" => remote'.work # {})
    BY <1>1, <1>2, StillThere
  <1> QED BY <1>1, <1>2, <1>3, <1>5, <1>6, <1>7, <1>8, TypesKept

LEMMA StaleGateRebasesKeeps ==
  ASSUME IInv, StaleGateRebases
  PROVE  IInv' /\ KeepsBranches
  <1>1. PICK fetched \in {origin, remote.main}, how \in Outcomes :
          /\ RebasesCleanly(fetched)
          /\ Pays(how = "lost" \/ Stale(fetched))
          /\ PushHead(fetched, head, local'[head], how)
          /\ IF how = "ok" THEN Reached("gated", TRUE) ELSE Returns
    BY DEF StaleGateRebases
  <1>2. Strays /\ PushedUntested /\ UNCHANGED <<cache, blind, pr, merged>>
    BY DEF StaleGateRebases, readVars
  <1>3. TypeOK /\ CommitsOK /\ fetched \in Logs \ {{}}
    BY TypeParts DEF IInv
  <1>4. /\ Grows /\ head \in Branches /\ local' \in [Branches -> Logs'] /\ HeadOK'
        /\ fetched \subseteq local'[head] /\ local'[head] \in Logs' \ {{}} /\ HEAD' = local'[head]
        /\ index' \in SUBSET Lines /\ disk' \in SUBSET Lines
    BY <1>1, <1>3, CleanRebase
  <1>5. fetched \in Logs' \ {{}}
    BY <1>3, <1>4, Growing
  <1>6. PICK log \in Logs' \ {{}} : log = local'[head]
    BY <1>4
  <1>7. PushHead(fetched, head, log, how)
    BY <1>1, <1>6
  <1>8. call' \in [step : {"idle", "gated", "pushed", "tested"}, whole : BOOLEAN]
        /\ (how # "ok" => call'.step = "idle") /\ call'.step \in {"idle", "gated"}
    <2>1. CASE how = "ok"
      <3>1. call' = [step |-> "gated", whole |-> TRUE]
        BY <1>1, <2>1, Zenon DEF Reached
      <3> QED BY <2>1, <3>1
    <2>2. CASE how # "ok"
      <3>1. call' = [step |-> "idle", whole |-> TRUE]
        BY <1>1, <2>2, Zenon DEF Returns, Idle
      <3> QED BY <3>1
    <2> QED BY <2>1, <2>2
  <1>9. Usual \/ Unusual
    BY <1>1 DEF Pays
  <1>10. TypeOK' /\ TestedUnlessExcused' /\ MainOnlyMerged' /\ KeepsBranches
    BY <1>2, <1>4, <1>5, <1>7, <1>8, <1>9, PushedTyped
  <1>11. origin' = fetched \/ origin' = log
    BY <1>3, <1>4, <1>5, <1>7, Pushing
  <1>12. CallOK'
    BY <1>4, <1>6, <1>8, <1>11 DEF CallOK
  <1> QED BY <1>10, <1>12 DEF IInv

LEMMA StaleGateBlocksKeeps ==
  ASSUME IInv, StaleGateBlocks
  PROVE  IInv'
  <1>1. PICK fetched \in {origin, remote.main} :
          /\ origin' = fetched
          /\ \/ Unusual /\ RebaseConflicts(fetched)
             \/ Pays(Stale(fetched)) /\ UNCHANGED <<commits, local, treeVars>>
    BY DEF StaleGateBlocks
  <1>2. /\ call = Idle
        /\ UNCHANGED <<remote, cache, blind, call, pr, proven, excused, merged, strays>>
    BY DEF StaleGateBlocks, readVars, proofVars
  <1>3. TypeOK /\ fetched \in Logs \ {{}} /\ index \in SUBSET Lines /\ disk \in SUBSET Lines
    BY TypeParts DEF IInv
  <1>4. UNCHANGED <<commits, local>> /\ HeadOK' /\ index' \in SUBSET Lines /\ disk' \in SUBSET Lines
        /\ (Usual \/ Unusual)
    <2>1. CASE Unusual /\ RebaseConflicts(fetched)
      BY <1>3, <2>1, ConflictingRebase
    <2>2. CASE Pays(Stale(fetched)) /\ UNCHANGED <<commits, local, treeVars>>
      BY <1>3, <2>2 DEF TypeOK, HeadOK, HEAD, treeVars, Logs, Pays
    <2> QED BY <1>1, <2>1, <2>2
  <1>5. Logs' = Logs /\ Grows
    BY <1>4 DEF Logs, Grows
  <1>6. origin' \in Logs' \ {{}} /\ local' \in [Branches -> Logs']
    BY <1>1, <1>3, <1>4, <1>5 DEF TypeOK, RefsOK
  <1>7. cache' \in {None} \cup SUBSET Code /\ blind' \in SUBSET Theirs
    BY <1>2, <1>3 DEF TypeOK
  <1> QED BY <1>2, <1>4, <1>5, <1>6, <1>7, LocalTyped

(* Where the step that pushes leaves the clone.                            *)
LEMMA Branching ==
  ASSUME TypeOK, NEW target \in {head, "work"}, NEW tip,
         target # head => head = "main",
         NEW tree,
         \/ tip = HEAD /\ UNCHANGED commits /\ tree = TreeOf(HEAD)
         \/ tip = HEAD \cup {New} /\ commits' = Append(commits, disk) /\ Len(commits) < MaxCommits /\ tree = disk,
         head' = target,
         IF target = "rebase" THEN detached' = tip /\ UNCHANGED local
         ELSE local' = [local EXCEPT ![target] = tip] /\ UNCHANGED detached
  PROVE  /\ Grows /\ tip \in Logs' \ {{}} /\ HEAD \subseteq tip /\ target \in Branches \cup {"rebase"}
         /\ local' \in [Branches -> Logs'] /\ HeadOK'
         /\ TreeIn(commits', tip) = tree
  <1>1. CommitsOK /\ HEAD \in Logs \ {{}} /\ disk \in SUBSET Lines
    BY TypeParts
  <1>2. /\ Grows /\ tip \in Logs' \ {{}} /\ HEAD \subseteq tip
        /\ TreeIn(commits', tip) = tree
    <2>1. CASE tip = HEAD /\ UNCHANGED commits /\ tree = TreeOf(HEAD)
      BY <1>1, <2>1, Trees DEF Grows, Logs
    <2>2. CASE tip = HEAD \cup {New} /\ commits' = Append(commits, disk) /\ Len(commits) < MaxCommits /\ tree = disk
      BY <1>1, <2>2, AddingOne
    <2> QED BY <2>1, <2>2
  <1>3. Logs \subseteq Logs'
    BY <1>1, <1>2, Growing
  <1>4. head \in Branches \cup {"rebase"} /\ target \in Branches \cup {"rebase"}
        /\ (target = "rebase" <=> head = "rebase")
    BY DEF TypeOK, HeadOK, Branches
  <1>5. HEAD' = tip /\ local' \in [Branches -> Logs'] /\ HeadOK'
    <2>1. CASE target = "rebase"
      <3>1. head = "rebase" /\ detached' = tip /\ UNCHANGED local
        BY <1>4, <2>1
      <3>2. HEAD' = tip
        BY <2>1, <3>1 DEF HEAD
      <3>3. local' \in [Branches -> Logs'] /\ local'.work # {}
        BY <1>3, <3>1 DEF TypeOK, RefsOK, HeadOK
      <3>4. HeadOK'
        BY <1>2, <2>1, <3>1, <3>2, <3>3 DEF HeadOK
      <3> QED BY <3>2, <3>3, <3>4
    <2>2. CASE target # "rebase"
      <3>1. target \in Branches /\ local' = [local EXCEPT ![target] = tip] /\ UNCHANGED detached
            /\ detached = {} /\ {} \in Logs'
        BY <1>4, <2>2 DEF TypeOK, HeadOK, Logs
      <3>2. local' \in [Branches -> Logs'] /\ local'[target] = tip
        BY <1>2, <1>3, <3>1 DEF TypeOK, RefsOK
      <3>3. HEAD' = tip
        BY <2>2, <3>2 DEF HEAD
      <3>4. HeadOK'
        BY <1>2, <2>2, <3>1, <3>3 DEF HeadOK
      <3> QED BY <3>2, <3>3, <3>4
    <2> QED BY <2>1, <2>2
  <1> QED BY <1>2, <1>4, <1>5

LEMMA BranchAndPushKeeps ==
  ASSUME IInv, BranchAndPush
  PROVE  IInv' /\ KeepsBranches
  <1> DEFINE commit == head # "work" /\ disk # TreeOf(HEAD)
  <1>1. PICK target : target = IF head = "main" /\ local.work = {} THEN "work" ELSE head
    OBVIOUS
  <1>2. PICK tip : tip = IF commit THEN HEAD \cup {New} ELSE HEAD
    OBVIOUS
  <1>3. /\ call.step = "gated" /\ (commit => Len(commits) < MaxCommits)
        /\ commits' = (IF commit THEN Append(commits, disk) ELSE commits)
        /\ head' = target /\ index' = IF head = "work" THEN index ELSE disk
        /\ IF target = "rebase" THEN detached' = tip /\ UNCHANGED local
           ELSE local' = [local EXCEPT ![target] = tip] /\ UNCHANGED detached
        /\ Strays /\ PushedUntested /\ UNCHANGED <<disk, cache, blind, pr, merged>>
    BY <1>1, <1>2 DEF BranchAndPush, readVars
  <1>4. PICK how \in Outcomes :
          /\ Pays(how = "lost") /\ PushHead(origin, target, tip, how)
          /\ Reached("pushed", target = "work" /\ how = "ok" /\ (head = "work" => Clean))
    BY <1>1, <1>2 DEF BranchAndPush, PushesBranch
  <1>5. PICK tree : tree = IF commit THEN disk ELSE TreeOf(HEAD)
    OBVIOUS
  <1>6. \/ tip = HEAD /\ UNCHANGED commits /\ tree = TreeOf(HEAD)
        \/ tip = HEAD \cup {New} /\ commits' = Append(commits, disk) /\ Len(commits) < MaxCommits /\ tree = disk
    BY <1>2, <1>3, <1>5
  <1>7. Clean \/ head # "work" => tree = disk
    BY <1>5 DEF Clean
  <1> HIDE DEF commit
  <1>8. TypeOK /\ CommitsOK /\ origin \in Logs \ {{}} /\ index \in SUBSET Lines /\ disk \in SUBSET Lines
    BY TypeParts DEF IInv
  <1>9. /\ Grows /\ tip \in Logs' \ {{}} /\ HEAD \subseteq tip /\ target \in Branches \cup {"rebase"}
        /\ local' \in [Branches -> Logs'] /\ HeadOK' /\ TreeIn(commits', tip) = tree
    BY <1>1, <1>3, <1>6, <1>8, Branching
  <1>10. origin \in Logs' \ {{}}
    BY <1>8, <1>9, Growing
  <1>11. PICK whole \in BOOLEAN : /\ whole <=> target = "work" /\ how = "ok" /\ (head = "work" => Clean)
                                  /\ call' = [step |-> "pushed", whole |-> whole]
    BY <1>4, Zenon DEF Reached
  <1>12. TypeOK' /\ TestedUnlessExcused' /\ MainOnlyMerged' /\ KeepsBranches
    <2>1. index' \in SUBSET Lines /\ disk' \in SUBSET Lines
      BY <1>3, <1>8
    <2>2. call' \in [step : {"idle", "gated", "pushed", "tested"}, whole : BOOLEAN]
      BY <1>11
    <2>3. (Usual \/ Unusual) /\ UNCHANGED <<cache, blind, pr, merged>>
      BY <1>3, <1>4 DEF Pays
    <2> QED BY <1>3, <1>4, <1>9, <1>10, <2>1, <2>2, <2>3, PushedTyped
  <1>13. CallOK'
    <2>1. SUFFICES ASSUME whole PROVE TreeOf(remote.work)' = disk' /\ origin' \subseteq remote'.work
      BY <1>11 DEF CallOK
    <2>2. target = "work" /\ how = "ok" /\ tree = disk
      BY <1>7, <1>11, <2>1
    <2>3. remote'.work = tip /\ origin' = origin
      BY <1>4, <1>8, <1>9, <1>10, <2>2, Pushing
    <2>4. TreeOf(remote.work)' = disk'
      BY <1>3, <1>9, <2>2, <2>3 DEF TreeOf, TreeIn
    <2>5. origin \subseteq HEAD
      BY <1>3 DEF IInv, CallOK
    <2> QED BY <1>9, <2>3, <2>4, <2>5
  <1> QED BY <1>12, <1>13 DEF IInv

-----------------------------------------------------------------------------
(* What the forge and the other sessions put on a branch.                  *)
LEMMA OnTheForge ==
  ASSUME TypeOK, NEW t \in SUBSET Lines, NEW b \in Branches, NEW more \in Logs,
         Len(commits) < MaxCommits, commits' = Append(commits, t),
         remote' = [remote EXCEPT ![b] = @ \cup {New} \cup more],
         UNCHANGED <<origin, local, treeVars>>
  PROVE  /\ Grows /\ RefsOK' /\ HeadOK' /\ KeepsBranches /\ HEAD' = HEAD
         /\ remote'[b] # {} /\ TreeOf(remote[b])' = t
         /\ \A x \in Branches \ {b} : remote'[x] = remote[x] /\ TreeOf(remote[x])' = TreeOf(remote[x])
  <1>1. CommitsOK /\ RefsOK /\ HeadOK /\ \A x \in Branches : remote[x] \in Logs
    BY TypeParts
  <1>2. Grows
    BY <1>1, AddingOne
  <1>3. Logs \subseteq Logs' /\ \A log \in Logs : TreeIn(commits', log) = TreeIn(commits, log)
    BY <1>1, <1>2, Growing
  <1>4. PICK tip : tip = remote[b] \cup {New} \cup more
    OBVIOUS
  <1>5. tip \in Logs' \ {{}} /\ TreeIn(commits', tip) = t
    <2>1. PICK log \in Logs : log = remote[b] \cup more
      BY <1>1 DEF Logs
    <2>2. tip = log \cup {New}
      BY <1>4, <2>1
    <2> QED BY <1>1, <2>2, AddingOne
  <1>6. remote' \in [Branches -> Logs'] /\ remote'[b] = tip /\ remote[b] \subseteq tip
        /\ \A x \in Branches \ {b} : remote'[x] = remote[x]
    BY <1>1, <1>3, <1>4, <1>5 DEF RefsOK
  <1>7. KeepsBranches
    BY <1>6 DEF KeepsBranches
  <1>8. RefsOK'
    BY <1>1, <1>3, <1>6, <1>7 DEF RefsOK, KeepsBranches, Branches
  <1>9. HEAD' = HEAD /\ HeadOK'
    BY <1>1, <1>3 DEF treeVars, HeadOK, HEAD
  <1>10. TreeOf(remote[b])' = t
    BY <1>5, <1>6 DEF TreeOf, TreeIn
  <1>11. ASSUME NEW x \in Branches \ {b}
         PROVE  TreeOf(remote[x])' = TreeOf(remote[x])
    BY <1>1, <1>3, <1>6 DEF TreeOf, TreeIn
  <1> QED BY <1>2, <1>5, <1>6, <1>7, <1>8, <1>9, <1>10, <1>11

LEMMA OthersMergeKeeps ==
  ASSUME IInv, NEW l \in Theirs, OthersMerge(l)
  PROVE  IInv' /\ KeepsBranches
  <1>1. PICK t : t = TreeOf(remote.main) \cup {l}
    OBVIOUS
  <1>2. /\ Usual /\ Len(commits) < MaxCommits /\ commits' = Append(commits, t)
        /\ remote' = [remote EXCEPT !["main"] = @ \cup {New} \cup {}]
        /\ UNCHANGED <<origin, local, treeVars, cache, blind, call, pr, proven, excused, merged, strays>>
    BY <1>1 DEF OthersMerge, readVars, proofVars
  <1>3. TypeOK /\ {} \in Logs /\ TreeOf(remote.main) \in SUBSET Lines
    BY TypeParts, Trees DEF IInv, Logs
  <1>4. t \in SUBSET Lines /\ Ours \cap t = Ours \cap TreeOf(remote.main)
    BY <1>1, <1>3, WorkingCopyAssumption DEF Lines, Code
  <1>5. /\ Grows /\ RefsOK' /\ HeadOK' /\ KeepsBranches /\ HEAD' = HEAD
        /\ TreeOf(remote.main)' = t /\ remote'.work = remote.work
        /\ TreeOf(remote.work)' = TreeOf(remote.work)
    BY <1>2, <1>3, <1>4, OnTheForge DEF Branches
  <1>6. TypeOK'
    <2>1. /\ index' \in SUBSET Lines /\ disk' \in SUBSET Lines
          /\ cache' \in {None} \cup SUBSET Code /\ blind' \in SUBSET Theirs
          /\ call' \in [step : {"idle", "gated", "pushed", "tested"}, whole : BOOLEAN]
          /\ proven' \in SUBSET Lines /\ excused' \in BOOLEAN
          /\ merged' \in SUBSET Ours /\ strays' \in SUBSET Ours
      BY <1>2, <1>3 DEF TypeOK, treeVars
    <2>2. pr' \in {"none", "open", "merged"} /\ (pr' = "open" => remote'.work # {})
      BY <1>2, <1>3, <1>5, StillThere
    <2> QED BY <1>2, <1>3, <1>5, <2>1, <2>2, TypesKept
  <1>7. TestedUnlessExcused'
    BY <1>2, <1>5 DEF IInv, TestedUnlessExcused
  <1>8. MainOnlyMerged'
    BY <1>2, <1>4, <1>5 DEF IInv, MainOnlyMerged
  <1>9. CallOK'
    BY <1>2, <1>5 DEF IInv, CallOK, OnForge, treeVars
  <1> QED BY <1>5, <1>6, <1>7, <1>8, <1>9 DEF IInv

LEMMA FixerPushesKeeps ==
  ASSUME IInv, NEW l \in Theirs, FixerPushes(l)
  PROVE  IInv' /\ KeepsBranches
  <1>1. PICK t : t = TreeOf(remote.work) \cup {l}
    OBVIOUS
  <1>2. /\ Unusual /\ Len(commits) < MaxCommits /\ commits' = Append(commits, t)
        /\ remote' = [remote EXCEPT !["work"] = @ \cup {New} \cup {}]
        /\ Proves(t, TRUE) /\ call' = [call EXCEPT !.whole = call = Idle]
        /\ UNCHANGED <<origin, local, treeVars, cache, blind, pr, merged, strays>>
    BY <1>1 DEF FixerPushes, readVars
  <1>3. TypeOK /\ {} \in Logs /\ TreeOf(remote.work) \in SUBSET Lines
    BY TypeParts, Trees DEF IInv, Logs
  <1>4. t \in SUBSET Lines
    BY <1>1, <1>3 DEF Lines, Code
  <1>5. /\ Grows /\ RefsOK' /\ HeadOK' /\ KeepsBranches /\ HEAD' = HEAD
        /\ TreeOf(remote.work)' = t /\ remote'.work # {} /\ remote'.main = remote.main
        /\ TreeOf(remote.main)' = TreeOf(remote.main)
    BY <1>2, <1>3, <1>4, OnTheForge DEF Branches
  <1>6. proven' = t /\ excused' = FALSE
    BY <1>2 DEF Proves
  <1>7. PICK idle \in BOOLEAN : (idle <=> call = Idle) /\ call' = [call EXCEPT !.whole = idle]
    BY <1>2, Zenon
  <1>8. /\ call' \in [step : {"idle", "gated", "pushed", "tested"}, whole : BOOLEAN]
        /\ call'.step = call.step /\ (call'.whole => call.step = "idle")
    BY <1>3, <1>7 DEF TypeOK, Idle
  <1>9. TypeOK'
    <2>1. /\ index' \in SUBSET Lines /\ disk' \in SUBSET Lines
          /\ cache' \in {None} \cup SUBSET Code /\ blind' \in SUBSET Theirs
          /\ merged' \in SUBSET Ours /\ strays' \in SUBSET Ours
      BY <1>2, <1>3 DEF TypeOK, treeVars
    <2>2. pr' \in {"none", "open", "merged"} /\ (pr' = "open" => remote'.work # {})
      BY <1>2, <1>3, <1>5, StillThere
    <2> QED BY <1>2, <1>3, <1>4, <1>5, <1>6, <1>8, <2>1, <2>2, TypesKept
  <1>10. TestedUnlessExcused'
    BY <1>5, <1>6 DEF TestedUnlessExcused
  <1>11. MainOnlyMerged'
    BY <1>2, <1>5 DEF IInv, MainOnlyMerged
  <1>12. CallOK'
    BY <1>2, <1>5, <1>8 DEF IInv, CallOK, OnForge
  <1> QED BY <1>5, <1>9, <1>10, <1>11, <1>12 DEF IInv

LEMMA MergePRKeeps ==
  ASSUME IInv, NEW squash \in BOOLEAN, MergePR(squash)
  PROVE  IInv' /\ KeepsBranches
  <1>1. PICK t : t = Merge(Fork(remote.main, remote.work), TreeOf(remote.main), TreeOf(remote.work))
    OBVIOUS
  <1>2. PICK more : more = IF squash THEN {} ELSE remote.work
    OBVIOUS
  <1>3. /\ Usual /\ Len(commits) < MaxCommits /\ commits' = Append(commits, t)
        /\ remote' = [remote EXCEPT !["main"] = @ \cup {New} \cup more]
        /\ pr' = "merged" /\ merged' = merged \cup (Ours \cap TreeOf(remote.work))
        /\ Proves({}, TRUE)
        /\ UNCHANGED <<origin, local, treeVars, cache, blind, call, strays>>
    BY <1>1, <1>2 DEF MergePR, readVars
  <1>4. /\ TypeOK /\ more \in Logs
        /\ TreeOf(remote.main) \in SUBSET Lines /\ TreeOf(remote.work) \in SUBSET Lines
    <2>1. TypeOK /\ CommitsOK /\ remote.main \in Logs /\ remote.work \in Logs /\ {} \in Logs
      BY TypeParts DEF IInv, Logs
    <2> QED BY <1>2, <2>1, Trees
  <1>5. t \in SUBSET Lines /\ t \subseteq TreeOf(remote.main) \cup TreeOf(remote.work)
    BY <1>1, <1>4, MergedTree
  <1>6. /\ Grows /\ RefsOK' /\ HeadOK' /\ KeepsBranches /\ HEAD' = HEAD
        /\ TreeOf(remote.main)' = t /\ remote'.work = remote.work
        /\ TreeOf(remote.work)' = TreeOf(remote.work)
    BY <1>3, <1>4, <1>5, OnTheForge DEF Branches
  <1>7. TypeOK'
    <2>1. /\ index' \in SUBSET Lines /\ disk' \in SUBSET Lines
          /\ cache' \in {None} \cup SUBSET Code /\ blind' \in SUBSET Theirs
          /\ call' \in [step : {"idle", "gated", "pushed", "tested"}, whole : BOOLEAN]
          /\ merged' \in SUBSET Ours /\ strays' \in SUBSET Ours
      BY <1>3, <1>4 DEF TypeOK, treeVars
    <2>2. proven' \in SUBSET Lines /\ excused' \in BOOLEAN
      BY <1>3 DEF Proves
    <2>3. pr' \in {"none", "open", "merged"} /\ (pr' = "open" => remote'.work # {})
      BY <1>3
    <2> QED BY <1>3, <1>4, <1>6, <2>1, <2>2, <2>3, TypesKept
  <1>8. TestedUnlessExcused'
    BY <1>3 DEF TestedUnlessExcused
  <1>9. MainOnlyMerged'
    BY <1>3, <1>5, <1>6 DEF IInv, MainOnlyMerged
  <1>10. CallOK'
    BY <1>3, <1>6 DEF IInv, CallOK, OnForge, treeVars
  <1> QED BY <1>6, <1>7, <1>8, <1>9, <1>10 DEF IInv

-----------------------------------------------------------------------------
LEMMA Starts ==
  ASSUME Init
  PROVE  IInv
  <1> DEFINE L == SUBSET Lines
  <1>1. /\ spare = MaxSpare /\ commits = <<{}>>
        /\ remote = [main |-> {1}, work |-> {}] /\ local = remote /\ origin = {1}
        /\ head = "main" /\ detached = {} /\ index = {} /\ disk = {} /\ cache = None /\ blind = {}
        /\ call = [step |-> "idle", whole |-> TRUE] /\ pr = "none"
        /\ proven = {} /\ excused = FALSE /\ merged = {} /\ strays = {}
    BY DEF Init, Idle
  <1>2. commits \in Seq(SUBSET Lines) /\ Len(commits) = 1 /\ commits[1] = {}
    <2>1. {} \in L
      OBVIOUS
    <2> HIDE DEF L
    <2>2. commits \in Seq(L)
      BY <1>1, <2>1
    <2> QED BY <1>1, <2>2 DEF L
  <1>3. {1} \in Logs /\ {} \in Logs
    BY <1>2 DEF Logs
  <1>4. remote \in [Branches -> Logs] /\ local \in [Branches -> Logs] /\ remote.main = {1} /\ local.main = {1}
    <2>1. PICK one, no : one = {1} /\ no = {} /\ one \in Logs /\ no \in Logs
      BY <1>3
    <2>2. remote = [main |-> one, work |-> no]
      BY <1>1, <2>1
    <2>3. remote \in [Branches -> Logs] /\ remote.main = one
      BY <2>1, <2>2 DEF Branches
    <2> QED BY <1>1, <2>1, <2>3
  <1>5. RefsOK /\ HeadOK
    BY <1>1, <1>3, <1>4 DEF RefsOK, HeadOK, HEAD, Branches
  <1>6. TypeOK
    <2>1. MaxCommits \in Nat \ {0} /\ MaxSpare \in Nat
      BY WorkingCopyAssumption
    <2>2. spare \in 0..MaxSpare /\ Len(commits) \in 1..MaxCommits
      BY <1>1, <1>2, <2>1
    <2>3. call \in [step : {"idle", "gated", "pushed", "tested"}, whole : BOOLEAN]
      BY <1>1
    <2>4. index \in SUBSET Lines /\ disk \in SUBSET Lines /\ cache \in {None} \cup SUBSET Code
          /\ blind \in SUBSET Theirs /\ pr \in {"none", "open", "merged"} /\ pr # "open"
          /\ proven \in SUBSET Lines /\ excused \in BOOLEAN /\ merged \in SUBSET Ours
          /\ strays \in SUBSET Ours
      BY <1>1
    <2> QED BY <1>2, <1>5, <2>2, <2>3, <2>4 DEF TypeOK
  <1>7. TestedUnlessExcused /\ CallOK
    BY <1>1 DEF TestedUnlessExcused, CallOK
  <1>8. MainOnlyMerged
    <2>1. Max({1}) = 1
      BY GreatestIs
    <2>2. TreeOf(remote.main) = {}
      BY <1>2, <1>4, <2>1 DEF TreeOf
    <2> QED BY <2>2 DEF MainOnlyMerged
  <1> QED BY <1>6, <1>7, <1>8 DEF IInv

LEMMA Stutters ==
  ASSUME IInv, UNCHANGED vars
  PROVE  IInv' /\ KeepsBranches
  <1>1. UNCHANGED <<spare, commits, remote, origin, local, head, detached, index, disk, cache, blind,
                    call, pr, proven, excused, merged, strays>>
    BY DEF vars, refVars, treeVars, readVars, proofVars
  <1>2. TypeOK'
    BY <1>1 DEF IInv, TypeOK, RefsOK, HeadOK, HEAD, Logs
  <1>3. TestedUnlessExcused' /\ MainOnlyMerged' /\ CallOK'
    BY <1>1 DEF IInv, TestedUnlessExcused, MainOnlyMerged, CallOK, OnForge, TreeOf, HEAD
  <1> QED BY <1>1, <1>2, <1>3 DEF IInv, KeepsBranches

LEMMA Keeps ==
  ASSUME IInv, [Next]_vars
  PROVE  IInv' /\ (KeepsBranches \/ BashForces)
  <1>1. CASE Manager
    <2>1. UNCHANGED remote
      BY <1>1 DEF Manager, SessionStarts, Recloned, BeginsOnPR, PruneMergedBranches
    <2>2. IInv'
      BY <1>1, SessionStartsKeeps, ReclonedKeeps, BeginsOnPRKeeps, PruneKeeps DEF Manager
    <2> QED BY <2>1, <2>2 DEF KeepsBranches
  <1>2. CASE FileTools
    <2>1. UNCHANGED remote
      BY <1>2 DEF FileTools, ReadFile, WriteFile, refVars
    <2>2. IInv'
      BY <1>2, ReadFileKeeps, WriteFileKeeps DEF FileTools
    <2> QED BY <2>1, <2>2 DEF KeepsBranches
  <1>3. CASE GitTools
    <2>1. CASE GitCommit \/ BashPush
      BY <2>1, GitCommitKeeps, BashPushKeeps
    <2>2. CASE \/ GitAdd \/ Fetch \/ CheckoutNew \/ Rebase \/ RebaseContinues \/ RebaseAborts
               \/ \E b \in Branches : CheckoutBranch(b)
               \/ BashCommit
      <3>1. UNCHANGED remote
        BY <2>2 DEF GitAdd, Fetch, CheckoutNew, Rebase, RebaseContinues, RebaseAborts, CheckoutBranch,
                    BashCommit, refVars
      <3>2. IInv'
        BY <2>2, GitAddKeeps, FetchKeeps, CheckoutNewKeeps, RebaseKeeps, RebaseContinuesKeeps,
           RebaseAbortsKeeps, CheckoutBranchKeeps, BashCommitKeeps
      <3> QED BY <3>1, <3>2 DEF KeepsBranches
    <2>3. CASE BashForces
      BY <2>3, BashForcesKeeps
    <2> QED BY <1>3, <2>1, <2>2, <2>3 DEF GitTools
  <1>4. CASE ChangeTools
    BY <1>4, MarkTaskKeeps, ArchiveChangeKeeps DEF ChangeTools
  <1>5. CASE CreatePR
    <2>1. CASE StaleGateRebases \/ BranchAndPush
      BY <2>1, StaleGateRebasesKeeps, BranchAndPushKeeps
    <2>2. CASE StaleGatePasses \/ StaleGateBlocks \/ GatesPass \/ CreatesPR \/ CreateFails
      <3>1. UNCHANGED remote
        BY <2>2 DEF StaleGatePasses, StaleGateBlocks, GatesPass, CreatesPR, CreateFails, refVars
      <3>2. IInv'
        BY <2>2, StaleGatePassesKeeps, StaleGateBlocksKeeps, GatesPassKeeps, CreatesPRKeeps,
           CreateFailsKeeps
      <3> QED BY <3>1, <3>2 DEF KeepsBranches
    <2> QED BY <1>5, <2>1, <2>2 DEF CreatePR
  <1>6. CASE Forge
    BY <1>6, OthersMergeKeeps, FixerPushesKeeps, MergePRKeeps DEF Forge
  <1>7. CASE UNCHANGED vars
    BY <1>7, Stutters
  <1> QED BY <1>1, <1>2, <1>3, <1>4, <1>5, <1>6, <1>7 DEF Next

-----------------------------------------------------------------------------
(* The inductive invariant: what the clone and the forge hold, and what    *)
(* forgejo_create_pr has made sure of so far.                              *)
THEOREM Invariance == Spec => []IInv
  <1>1. Init => IInv
    BY Starts
  <1>2. IInv /\ [Next]_vars => IInv'
    BY Keeps
  <1> QED BY <1>1, <1>2, PTL DEF Spec

(* Every reference is to commits there are, and what is checked out has    *)
(* some, whatever order the tools are called in.                           *)
THEOREM TypeCorrect == Spec => []TypeOK
  <1>1. IInv => TypeOK
    BY DEF IInv
  <1> QED BY <1>1, Invariance, PTL

(* What an open pull request proposes was built and tested, but for the    *)
(* ways that are listed: a claim about forgejo_create_pr, the git tool and *)
(* every other tool that reaches the branch.                               *)
THEOREM ProposedIsTested == Spec => []TestedUnlessExcused
  <1>1. IInv => TestedUnlessExcused
    BY DEF IInv
  <1> QED BY <1>1, Invariance, PTL

(* The agent's lines on main came in a pull request or in one of the       *)
(* pushes that do not look where the clone is; never by the git tool, and  *)
(* never by a rebase or a fetch.                                           *)
THEOREM MainIsProtected == Spec => []MainOnlyMerged
  <1>1. IInv => MainOnlyMerged
    BY DEF IInv
  <1> QED BY <1>1, Invariance, PTL

(* Nothing takes a commit off a branch of the forge but a forced push of   *)
(* the bash tool, and that only off the branch that is checked out.        *)
THEOREM ForgeOnlyGrows == Spec => RemoteOnlyGrows
  <1>1. IInv /\ [Next]_vars
          => [\A b \in Branches : remote[b] \subseteq remote'[b] \/ (BashForces /\ b = head)]_remote
    BY Keeps, BashForcesKeeps DEF KeepsBranches
  <1> QED BY <1>1, Invariance, PTL DEF Spec, RemoteOnlyGrows

(* A pull request opens only by forgejo_create_pr.                         *)
LEMMA OnlyCreateOpens ==
  ASSUME Next, pr # "open", pr' = "open"
  PROVE  CreatesPR
  <1>1. pr' # pr /\ pr' # "merged"
    OBVIOUS
  <1>2. ~Manager
    BY <1>1 DEF Manager, SessionStarts, Recloned, BeginsOnPR, PruneMergedBranches
  <1>3. ~FileTools
    BY <1>1 DEF FileTools, ReadFile, WriteFile
  <1>4. ~GitTools
    BY <1>1 DEF GitTools, GitAdd, Fetch, CheckoutNew, Rebase, RebaseContinues, RebaseAborts,
                CheckoutBranch, GitCommit, BashCommit, BashPush, BashForces
  <1>5. ~ChangeTools
    BY <1>1 DEF ChangeTools, MarkTask, ArchiveChange
  <1>6. ~Forge
    BY <1>1 DEF Forge, OthersMerge, FixerPushes, MergePR
  <1>7. CASE CreatePR
    BY <1>1, <1>7 DEF CreatePR, StaleGatePasses, StaleGateRebases, StaleGateBlocks, BranchAndPush,
                      GatesPass, CreateFails
  <1> QED BY <1>2, <1>3, <1>4, <1>5, <1>6, <1>7 DEF Next

(* A pull request that opens holds the main its clone last fetched, unless *)
(* its push failed or went elsewhere: what stalegate is for.               *)
THEOREM OpensFresh == Spec => NotBehindFetched
  <1>1. IInv /\ [Next]_vars
          => [pr # "open" /\ pr' = "open" /\ call.whole => origin \subseteq remote.work]_pr
    <2>1. SUFFICES ASSUME IInv, [Next]_vars, pr # "open", pr' = "open", call.whole
                   PROVE  origin \subseteq remote.work
      OBVIOUS
    <2>2. Next
      BY <2>1 DEF vars
    <2> QED BY <2>1, <2>2, OnlyCreateOpens, CreatesPRKeeps
  <1> QED BY <1>1, Invariance, PTL DEF Spec, NotBehindFetched

-----------------------------------------------------------------------------
(* What other people's lines go through: the tip of every branch, in the   *)
(* clone as on the forge, has the lines of theirs that a commit of the     *)
(* branch has.                                                             *)
HasAll(cs, bl, log) == \A n \in log : (cs[n] \cap Theirs) \ bl \subseteq TreeIn(cs, log)
NextRefs == {remote'.main, remote'.work, origin', local'.main, local'.work, detached'}

LEMMA RefsAreLogs ==
  ASSUME TypeOK
  PROVE  Refs \subseteq Logs /\ HEAD \in Refs
  <1>1. Refs \subseteq Logs
    <2>1. local.main \in Logs /\ detached \in Logs
      BY TypeParts DEF HeadOK, Branches
    <2> QED BY <2>1, TypeParts DEF Refs
  <1>2. HEAD \in Refs
    BY DEF TypeOK, HeadOK, HEAD, Refs, Branches
  <1> QED BY <1>1, <1>2

(* A commit more changes nothing for a branch that does not have it.       *)
LEMMA HasAllStays ==
  ASSUME CommitsOK, Grows, blind \subseteq blind', NEW log \in Logs, TipHas(log)
  PROVE  HasAll(commits', blind', log)
  <1>1. TreeIn(commits', log) = TreeOf(log)
    BY Growing, Trees
  <1>2. \A n \in log : commits'[n] = commits[n]
    <2>1. CASE commits' = commits
      BY <2>1
    <2>2. CASE \E t \in SUBSET Lines : commits' = Append(commits, t) /\ Len(commits) < MaxCommits
      <3> DEFINE L == SUBSET Lines
      <3>1. PICK t \in L : commits' = Append(commits, t)
        BY <2>2
      <3>2. commits \in Seq(L) /\ \A n \in log : n \in 1..Len(commits)
        BY DEF CommitsOK, Logs
      <3> HIDE DEF L
      <3> QED BY <3>1, <3>2
    <2> QED BY <2>1, <2>2 DEF Grows
  <1> QED BY <1>1, <1>2 DEF HasAll, TipHas, Kept

(* It has what is behind it if it has what the tips had that it is put on. *)
LEMMA HasAllNew ==
  ASSUME CommitsOK, NEW t \in SUBSET Lines, commits' = Append(commits, t), Len(commits) < MaxCommits,
         blind \subseteq blind', NEW log \in Logs, \A n \in log : Kept(commits[n]) \subseteq t
  PROVE  HasAll(commits', blind', log \cup {New})
  <1> DEFINE L == SUBSET Lines
  <1>1. TreeIn(commits', log \cup {New}) = t
    BY AddingOne
  <1>2. commits \in Seq(L) /\ t \in L /\ \A n \in log : n \in 1..Len(commits)
    BY DEF CommitsOK, Logs
  <1>3. commits'[New] = t /\ \A n \in log : commits'[n] = commits[n]
    <2> HIDE DEF L
    <2> QED BY <1>2 DEF New
  <1> QED BY <1>1, <1>3 DEF HasAll, Kept

LEMMA OthersFrame ==
  ASSUME TypeOK, OthersOK, Grows, blind \subseteq blind',
         \A log \in NextRefs : log \in Refs \cup {{}} \/ HasAll(commits', blind', log),
         Kept(TreeOf(HEAD))' \subseteq index', Kept(index)' \subseteq disk'
  PROVE  OthersOK'
  <1>1. CommitsOK /\ Refs \subseteq Logs
    BY TypeParts, RefsAreLogs
  <1>2. \A log \in NextRefs : HasAll(commits', blind', log)
    <2>1. SUFFICES ASSUME NEW log \in NextRefs PROVE HasAll(commits', blind', log)
      OBVIOUS
    <2>2. CASE log \in Refs
      <3>1. TipHas(log) /\ log \in Logs
        BY <1>1, <2>2 DEF OthersOK
      <3> QED BY <1>1, <3>1, HasAllStays
    <2>3. CASE log = {}
      BY <2>3 DEF HasAll
    <2> QED BY <2>1, <2>2, <2>3
  <1>3. \A log \in Refs' : TipHas(log)'
    BY <1>2 DEF NextRefs, Refs, HasAll, TipHas, Kept, TreeOf, TreeIn
  <1> QED BY <1>3 DEF OthersOK

(* Nothing of the trees moves.                                             *)
LEMMA SameClone ==
  ASSUME TypeOK, OthersOK, UNCHANGED <<commits, index, disk, blind>>, HEAD' = HEAD,
         NextRefs \subseteq Refs \cup {{}}
  PROVE  OthersOK'
  <1>1. Kept(TreeOf(HEAD))' \subseteq index' /\ Kept(index)' \subseteq disk'
    BY DEF OthersOK, Kept, TreeOf
  <1> QED BY <1>1, OthersFrame DEF Grows

(* The clone has what a commit has.                                        *)
LEMMA TreeClone ==
  ASSUME TypeOK, OthersOK, UNCHANGED <<commits, blind>>, NEW log \in Logs, HEAD' = log,
         index' = TreeOf(log), TreeOf(log) \subseteq disk', NextRefs \subseteq Refs \cup {{}}
  PROVE  OthersOK'
  <1>1. TreeOf(HEAD)' = TreeOf(log)
    BY DEF TreeOf
  <1>2. Kept(TreeOf(HEAD))' \subseteq index' /\ Kept(index)' \subseteq disk'
    BY <1>1 DEF Kept
  <1> QED BY <1>2, OthersFrame DEF Grows

(* Calls that leave the trees alone: branches are moved among the commits. *)
LEMMA PointersOthers ==
  ASSUME TypeOK, OthersOK,
         SessionStarts \/ ReadFile \/ Fetch \/ CheckoutNew \/ PruneMergedBranches \/ RebaseContinues
  PROVE  OthersOK'
  <1>1. local \in [Branches -> Logs]
    BY DEF TypeOK, RefsOK
  <1>2. UNCHANGED <<commits, index, disk, blind>>
    BY DEF SessionStarts, ReadFile, Fetch, CheckoutNew, PruneMergedBranches, RebaseContinues, treeVars, readVars
  <1>3. CASE SessionStarts \/ ReadFile \/ Fetch
    <2>1. UNCHANGED <<remote, local, head, detached>> /\ origin' \in {origin, remote.main}
      BY <1>3 DEF SessionStarts, ReadFile, Fetch, treeVars, refVars
    <2> QED BY <1>2, <2>1, SameClone DEF HEAD, NextRefs, Refs
  <1>4. CASE CheckoutNew
    <2>1. /\ head = "main" /\ head' = "work" /\ local' = [local EXCEPT !.work = HEAD]
          /\ UNCHANGED <<remote, origin, detached>>
      BY <1>4 DEF CheckoutNew
    <2>2. HEAD = local.main
      BY <2>1 DEF HEAD
    <2>3. local'.work = local.main /\ local'.main = local.main
      BY <1>1, <2>1, <2>2 DEF Branches
    <2>4. HEAD' = HEAD
      BY <2>1, <2>2, <2>3 DEF HEAD
    <2> QED BY <1>2, <2>1, <2>3, <2>4, SameClone DEF NextRefs, Refs
  <1>5. CASE PruneMergedBranches
    <2>1. head = "main" /\ local' = [local EXCEPT !.work = {}] /\ UNCHANGED <<remote, origin, head, detached>>
      BY <1>5 DEF PruneMergedBranches, treeVars
    <2>2. local'.work = {} /\ local'.main = local.main
      BY <1>1, <2>1 DEF Branches
    <2>3. HEAD' = HEAD
      BY <2>1, <2>2 DEF HEAD
    <2> QED BY <1>2, <2>1, <2>2, <2>3, SameClone DEF NextRefs, Refs
  <1>6. CASE RebaseContinues
    <2>1. /\ head = "rebase" /\ head' = "work" /\ local' = [local EXCEPT !.work = detached] /\ detached' = {}
          /\ UNCHANGED <<remote, origin>>
      BY <1>6 DEF RebaseContinues
    <2>2. local'.work = detached /\ local'.main = local.main
      BY <1>1, <2>1 DEF Branches
    <2>3. HEAD' = HEAD
      BY <2>1, <2>2 DEF HEAD
    <2> QED BY <1>2, <2>1, <2>2, <2>3, SameClone DEF NextRefs, Refs
  <1> QED BY <1>3, <1>4, <1>5, <1>6

(* Calls that put the tree of a commit on the disk.                        *)
LEMMA ResetsOthers ==
  ASSUME TypeOK, OthersOK, Recloned \/ RebaseAborts
  PROVE  OthersOK'
  <1>1. UNCHANGED <<commits, blind>>
    BY DEF Recloned, RebaseAborts, readVars
  <1>2. CASE Recloned
    <2>1. /\ local' = [main |-> remote.main, work |-> {}] /\ origin' = remote.main
          /\ head' = "main" /\ detached' = {} /\ UNCHANGED remote
          /\ disk' = TreeOf(remote.main) /\ index' = TreeOf(remote.main)
      BY <1>2 DEF Recloned
    <2>2. HEAD' = remote.main /\ remote.main \in Logs
      BY <2>1, TypeParts DEF HEAD
    <2>3. NextRefs \subseteq Refs \cup {{}}
      BY <2>1 DEF NextRefs, Refs
    <2> QED BY <1>1, <2>1, <2>2, <2>3, TreeClone
  <1>3. CASE RebaseAborts
    <2>1. /\ head' = "work" /\ detached' = {} /\ UNCHANGED <<remote, origin, local>>
          /\ disk' = TreeOf(local.work) /\ index' = TreeOf(local.work)
      BY <1>3 DEF RebaseAborts, refVars
    <2>2. HEAD' = local.work /\ local.work \in Logs
      BY <2>1, TypeParts DEF HEAD
    <2>3. NextRefs \subseteq Refs \cup {{}}
      BY <2>1 DEF NextRefs, Refs
    <2> QED BY <1>1, <2>1, <2>2, <2>3, TreeClone
  <1> QED BY <1>2, <1>3

LEMMA ConflictOthers ==
  ASSUME TypeOK, OthersOK, NEW onto \in {origin, remote.main}, RebaseConflicts(onto),
         UNCHANGED <<remote, blind>>, origin' \in {origin, remote.main}
  PROVE  OthersOK'
  <1>1. /\ head' = "rebase" /\ detached' = onto /\ index' = TreeOf(onto) /\ TreeOf(onto) \subseteq disk'
        /\ UNCHANGED <<commits, local>>
    BY DEF RebaseConflicts
  <1>2. HEAD' = onto /\ onto \in Logs
    BY <1>1, TypeParts DEF HEAD
  <1>3. NextRefs \subseteq Refs \cup {{}}
    BY <1>1 DEF NextRefs, Refs
  <1> QED BY <1>1, <1>2, <1>3, TreeClone

(* A checkout keeps a file that has local changes and brings the other.    *)
LEMMA CheckOutOthers ==
  ASSUME TypeOK, OthersOK, NEW log \in Logs, NEW b, CheckOut(b, log), HEAD' = log, UNCHANGED <<commits, blind>>,
         NextRefs \subseteq Refs \cup {{}}
  PROVE  OthersOK'
  <1>1. /\ MayCheckOut(log) /\ disk' = CarriedOver(disk, log) /\ index' = CarriedOver(index, log)
    BY DEF CheckOut
  <1>2. Theirs \subseteq Code /\ Theirs \subseteq Lines
    BY DEF Code, Lines
  <1>3. TreeOf(HEAD)' = TreeOf(log)
    BY DEF TreeOf
  <1>4. Kept(TreeOf(HEAD)) \subseteq index /\ Kept(index) \subseteq disk
    BY DEF OthersOK
  <1>5. \A l \in Theirs : FileOf(l) = Code
    BY <1>2 DEF FileOf
  <1>6. PICK changed \in BOOLEAN : changed <=> ChangedLocally(Code)
    OBVIOUS
  <1>7. \A l \in Theirs : /\ l \in disk' <=> IF changed THEN l \in disk ELSE l \in TreeOf(log)
                          /\ l \in index' <=> IF changed THEN l \in index ELSE l \in TreeOf(log)
    BY <1>1, <1>2, <1>5, <1>6 DEF CarriedOver
  <1>8. changed => \A l \in Theirs : l \in TreeOf(HEAD) <=> l \in TreeOf(log)
    BY <1>1, <1>2, <1>6 DEF MayCheckOut
  <1>9. Kept(TreeOf(HEAD))' \subseteq index' /\ Kept(index)' \subseteq disk'
    BY <1>3, <1>4, <1>7, <1>8 DEF Kept
  <1> QED BY <1>9, OthersFrame DEF Grows

LEMMA CheckOutsOthers ==
  ASSUME TypeOK, OthersOK, BeginsOnPR \/ \E b \in Branches : CheckoutBranch(b)
  PROVE  OthersOK'
  <1>1. local \in [Branches -> Logs]
    BY DEF TypeOK, RefsOK
  <1>2. CASE BeginsOnPR
    <2>1. /\ CheckOut("work", remote.work) /\ local' = [local EXCEPT !.work = remote.work] /\ head' = "work"
          /\ UNCHANGED <<commits, blind, remote, origin, detached>>
      BY <1>2 DEF BeginsOnPR, CheckOut, readVars
    <2>2. local'.work = remote.work /\ local'.main = local.main
      BY <1>1, <2>1 DEF Branches
    <2>3. HEAD' = remote.work /\ remote.work \in Logs
      BY <2>1, <2>2, TypeParts DEF HEAD
    <2>4. NextRefs \subseteq Refs \cup {{}}
      BY <2>1, <2>2 DEF NextRefs, Refs
    <2> QED BY <2>1, <2>3, <2>4, CheckOutOthers
  <1>3. ASSUME NEW b \in Branches, CheckoutBranch(b)
        PROVE  OthersOK'
    <2>1. CheckOut(b, local[b]) /\ head' = b /\ UNCHANGED <<commits, blind, remote, origin, local, detached>>
      BY <1>3 DEF CheckoutBranch, CheckOut, readVars, refVars
    <2>2. HEAD' = local[b] /\ local[b] \in Logs
      BY <1>1, <2>1 DEF HEAD, Branches
    <2>3. NextRefs \subseteq Refs \cup {{}}
      BY <2>1 DEF NextRefs, Refs
    <2> QED BY <2>1, <2>2, <2>3, CheckOutOthers
  <1> QED BY <1>2, <1>3

(* A write keeps the lines it has read, and what it did not read is noted. *)
LEMMA EditsOthers ==
  ASSUME TypeOK, OthersOK, GitAdd \/ \E l \in Ours, whole \in BOOLEAN : WriteFile(l, whole)
  PROVE  OthersOK'
  <1>1. UNCHANGED <<commits, remote, origin, local, head, detached>>
    BY DEF GitAdd, WriteFile, refVars
  <1>2. TreeOf(HEAD)' = TreeOf(HEAD) /\ NextRefs \subseteq Refs
    BY <1>1 DEF TreeOf, HEAD, NextRefs, Refs
  <1>3. Kept(TreeOf(HEAD)) \subseteq index /\ Kept(index) \subseteq disk
    BY DEF OthersOK
  <1>4. CASE GitAdd
    <2>1. index' = disk /\ disk' = disk /\ blind' = blind
      BY <1>4 DEF GitAdd, readVars
    <2>2. Kept(TreeOf(HEAD))' \subseteq index' /\ Kept(index)' \subseteq disk'
      BY <1>2, <1>3, <2>1 DEF Kept
    <2> QED BY <1>1, <1>2, <2>1, <2>2, OthersFrame DEF Grows
  <1>5. ASSUME NEW l \in Ours, NEW whole \in BOOLEAN, WriteFile(l, whole)
        PROVE  OthersOK'
    <2>1. PICK basis : /\ basis = IF whole THEN FullRead ELSE RangeRead
                       /\ disk' = ((basis \cup {l}) \ {Clash}) \cup (disk \ Code)
                       /\ blind' = IF whole THEN blind \cup ((disk \cap Theirs) \ basis) ELSE blind
      BY <1>5 DEF WriteFile
    <2>2. index' = index
      BY <1>5 DEF WriteFile
    <2>3. Clash \notin Theirs
      BY WorkingCopyAssumption
    <2>4. (disk \cap Theirs) \ basis \subseteq blind' /\ blind \subseteq blind'
      BY <2>1 DEF RangeRead, Code
    <2>5. (disk \cap Theirs) \ blind' \subseteq disk'
      BY <2>1, <2>3, <2>4
    <2>6. Kept(TreeOf(HEAD))' \subseteq index' /\ Kept(index)' \subseteq disk'
      BY <1>2, <1>3, <2>2, <2>4, <2>5 DEF Kept
    <2> QED BY <1>1, <1>2, <2>4, <2>6, OthersFrame DEF Grows
  <1> QED BY <1>4, <1>5

(* What a commit brings to a branch has what the branch had.               *)
LEMMA NextCommit ==
  ASSUME TypeOK, OthersOK, NEW t \in SUBSET Lines, commits' = Append(commits, t), Len(commits) < MaxCommits,
         UNCHANGED blind, Kept(TreeOf(HEAD)) \subseteq t
  PROVE  HasAll(commits', blind', HEAD \cup {New})
  <1>1. CommitsOK /\ HEAD \in Logs /\ TipHas(HEAD)
    BY TypeParts, RefsAreLogs DEF OthersOK
  <1>2. PICK log \in Logs : log = HEAD
    BY <1>1
  <1>3. \A n \in log : Kept(commits[n]) \subseteq t
    BY <1>1, <1>2 DEF TipHas, Kept
  <1>4. HasAll(commits', blind', log \cup {New})
    BY <1>1, <1>3, HasAllNew
  <1> QED BY <1>2, <1>4

(* A push puts what is pushed on a branch and on what is last fetched, or  *)
(* leaves them as they were.                                               *)
LEMMA PushedRefs ==
  ASSUME TypeOK, NEW fetched, NEW b, NEW log, NEW how, PushHead(fetched, b, log, how)
  PROVE  /\ remote'.main \in {remote.main, log} /\ remote'.work \in {remote.work, log}
         /\ origin' \in {fetched, log}
  <1>1. remote \in [Branches -> Logs]
    BY DEF TypeOK, RefsOK
  <1>2. CASE remote' = [remote EXCEPT ![b] = log] /\ origin' = IF b = "main" THEN log ELSE fetched
    BY <1>1, <1>2 DEF Branches
  <1>3. CASE origin' = fetched /\ UNCHANGED remote
    BY <1>3
  <1> QED BY <1>2, <1>3 DEF PushHead

LEMMA CommitOthers ==
  ASSUME TypeOK, OthersOK, NEW tree \in SUBSET Lines, Commit(tree), UNCHANGED <<head, blind>>,
         Kept(TreeOf(HEAD)) \subseteq tree, index' = tree, Kept(tree) \subseteq disk',
         remote'.main \in {remote.main, HEAD \cup {New}}, remote'.work \in {remote.work, HEAD \cup {New}},
         origin' \in {origin, HEAD \cup {New}}
  PROVE  OthersOK'
  <1>1. /\ commits' = Append(commits, tree) /\ Len(commits) < MaxCommits
        /\ IF head = "rebase" THEN detached' = detached \cup {New} /\ UNCHANGED local
           ELSE local' = [local EXCEPT ![head] = @ \cup {New}] /\ UNCHANGED detached
    BY DEF Commit
  <1>2. /\ Grows /\ HEAD' = HEAD \cup {New} /\ TreeIn(commits', HEAD \cup {New}) = tree
    BY Committing
  <1>3. TreeOf(HEAD)' = tree
    BY <1>2 DEF TreeOf, TreeIn
  <1>4. HasAll(commits', blind', HEAD \cup {New})
    BY <1>1, NextCommit
  <1>5. local \in [Branches -> Logs] /\ head \in Branches \cup {"rebase"}
    BY DEF TypeOK, RefsOK, HeadOK
  <1>6. PICK tip : tip = HEAD \cup {New}
    OBVIOUS
  <1>7. local'.main \in {local.main, tip} /\ local'.work \in {local.work, tip} /\ detached' \in {detached, tip}
    <2>1. CASE head = "rebase"
      BY <1>1, <1>6, <2>1 DEF HEAD
    <2>2. CASE head # "rebase"
      <3>1. local' = [local EXCEPT ![head] = tip] /\ detached' = detached
        BY <1>1, <1>5, <1>6, <2>2 DEF HEAD
      <3> QED BY <1>5, <3>1 DEF Branches
    <2> QED BY <2>1, <2>2
  <1>8. \A log \in NextRefs : log \in Refs \/ log = tip
    BY <1>6, <1>7 DEF NextRefs, Refs
  <1>9. Kept(TreeOf(HEAD))' \subseteq index' /\ Kept(index)' \subseteq disk'
    BY <1>3 DEF Kept
  <1>10. \A log \in NextRefs : log \in Refs \cup {{}} \/ HasAll(commits', blind', log)
    BY <1>4, <1>6, <1>8
  <1> QED BY <1>2, <1>9, <1>10, OthersFrame

LEMMA CommitsOthers ==
  ASSUME TypeOK, OthersOK, BashCommit \/ GitCommit
  PROVE  OthersOK'
  <1>1. Commit(index) /\ UNCHANGED <<head, index, disk, blind>>
    BY DEF BashCommit, GitCommit, readVars
  <1>2. Kept(TreeOf(HEAD)) \subseteq index /\ Kept(index) \subseteq disk' /\ index \in SUBSET Lines
    BY <1>1, TypeParts DEF OthersOK
  <1>3. /\ remote'.main \in {remote.main, HEAD \cup {New}} /\ remote'.work \in {remote.work, HEAD \cup {New}}
        /\ origin' \in {origin, HEAD \cup {New}}
    <2>1. CASE UNCHANGED <<remote, origin>>
      BY <2>1
    <2>2. ASSUME NEW how \in Outcomes, PushHead(origin, head, HEAD \cup {New}, how)
          PROVE  /\ remote'.main \in {remote.main, HEAD \cup {New}}
                 /\ remote'.work \in {remote.work, HEAD \cup {New}}
                 /\ origin' \in {origin, HEAD \cup {New}}
      BY <2>2, PushedRefs
    <2> QED BY <2>1, <2>2 DEF BashCommit, GitCommit
  <1> QED BY <1>1, <1>2, <1>3, CommitOthers

LEMMA BashPushOthers ==
  ASSUME TypeOK, OthersOK, BashPush
  PROVE  OthersOK'
  <1>1. /\ PushHead(origin, head, HEAD, "ok")
        /\ UNCHANGED <<commits, local, head, detached, index, disk, blind>>
    BY DEF BashPush, treeVars, readVars
  <1>2. HEAD' = HEAD /\ HEAD \in Refs
    BY <1>1, RefsAreLogs DEF HEAD
  <1>3. NextRefs \subseteq Refs
    BY <1>1, <1>2, PushedRefs DEF NextRefs, Refs
  <1> QED BY <1>1, <1>2, <1>3, SameClone

LEMMA BashForcesOthers ==
  ASSUME TypeOK, OthersOK, BashForces
  PROVE  OthersOK'
  <1>1. /\ remote' = [remote EXCEPT ![head] = HEAD] /\ origin' \in {origin, HEAD} /\ head # "rebase"
        /\ UNCHANGED <<commits, local, head, detached, index, disk, blind>>
    BY DEF BashForces, treeVars, readVars
  <1>2. HEAD' = HEAD /\ HEAD \in Refs
    BY <1>1, RefsAreLogs DEF HEAD
  <1>3. remote'.main \in {remote.main, HEAD} /\ remote'.work \in {remote.work, HEAD}
    BY <1>1, TypeParts DEF RefsOK, Branches
  <1>4. NextRefs \subseteq Refs
    BY <1>1, <1>2, <1>3 DEF NextRefs, Refs
  <1> QED BY <1>1, <1>2, <1>4, SameClone

(* The tools of a change write no code.                                    *)
LEMMA ChangesOthers ==
  ASSUME TypeOK, OthersOK, MarkTask \/ ArchiveChange
  PROVE  OthersOK'
  <1>1. UNCHANGED <<head, blind>> /\ disk \subseteq disk'
    BY DEF MarkTask, ArchiveChange, readVars
  <1>2. PICK staged \in SUBSET Lines : /\ staged \cap Theirs = index \cap Theirs
                                       /\ CommitAndPush(staged) \/ (index' \in {index, staged} /\ NoCommit)
    <2>1. Tasks \cap Theirs = {} /\ Theirs \subseteq Code /\ index \in SUBSET Lines
      BY WorkingCopyAssumption DEF Code, TypeOK
    <2>2. CASE MarkTask
      <3>1. index \cup {Mark} \in SUBSET Lines /\ (index \cup {Mark}) \cap Theirs = index \cap Theirs
        BY <2>1 DEF Tasks, Lines
      <3>2. CommitAndPush(index \cup {Mark}) \/ (index' \in {index, index \cup {Mark}} /\ NoCommit)
        BY <2>2 DEF MarkTask
      <3> QED BY <3>1, <3>2
    <2>3. CASE ArchiveChange
      <3>1. PICK staged : /\ staged = (index \cap Code) \cup (disk \cap Tasks) \cup {Moved}
                          /\ CommitAndPush(staged) \/ (index' \in {index, staged} /\ NoCommit)
        BY <2>3 DEF ArchiveChange
      <3>2. staged \in SUBSET Lines /\ staged \cap Theirs = index \cap Theirs
        BY <2>1, <3>1 DEF Tasks, Lines
      <3> QED BY <3>1, <3>2
    <2> QED BY <2>2, <2>3
  <1>3. Kept(TreeOf(HEAD)) \subseteq staged /\ Kept(staged) \subseteq disk'
    BY <1>1, <1>2 DEF OthersOK, Kept
  <1>4. CASE CommitAndPush(staged)
    <2>1. PICK how \in Outcomes : PushHead(origin, head, HEAD \cup {New}, how)
      BY <1>4 DEF CommitAndPush
    <2>2. Commit(staged) /\ index' = staged
      BY <1>4 DEF CommitAndPush
    <2>3. /\ remote'.main \in {remote.main, HEAD \cup {New}} /\ remote'.work \in {remote.work, HEAD \cup {New}}
          /\ origin' \in {origin, HEAD \cup {New}}
      BY <2>1, PushedRefs
    <2> QED BY <1>1, <1>3, <2>2, <2>3, CommitOthers
  <1>5. CASE index' \in {index, staged} /\ NoCommit
    <2>1. UNCHANGED <<commits, remote, origin, local, detached>>
      BY <1>5 DEF NoCommit, refVars
    <2>2. HEAD' = HEAD /\ NextRefs \subseteq Refs /\ TreeOf(HEAD)' = TreeOf(HEAD)
      BY <1>1, <2>1 DEF HEAD, NextRefs, Refs, TreeOf
    <2>3. index' \cap Theirs = index \cap Theirs
      BY <1>2, <1>5
    <2>4. Kept(TreeOf(HEAD))' \subseteq index' /\ Kept(index)' \subseteq disk'
      BY <1>1, <2>2, <2>3 DEF OthersOK, Kept
    <2> QED BY <1>1, <2>1, <2>2, <2>4, OthersFrame DEF Grows
  <1> QED BY <1>2, <1>4, <1>5

(* A merge has what both sides have, for what they come from they have.    *)
LEMMA MergeHas ==
  ASSUME TypeOK, NEW a \in Logs, NEW b \in Logs, TipHas(a), TipHas(b)
  PROVE  /\ Kept(TreeOf(a)) \subseteq Merge(Fork(a, b), TreeOf(a), TreeOf(b))
         /\ Kept(TreeOf(b)) \subseteq Merge(Fork(a, b), TreeOf(a), TreeOf(b))
  <1>1. Kept(Fork(a, b)) \subseteq TreeOf(a) /\ Kept(Fork(a, b)) \subseteq TreeOf(b)
    <2>1. PICK fork : fork = a \cap b
      OBVIOUS
    <2>2. CASE fork = {}
      BY <2>1, <2>2 DEF Fork, TreeOf, Kept
    <2>3. CASE fork # {}
      <3>1. fork \in SUBSET (1..Len(commits)) /\ Len(commits) \in Nat
        BY <2>1, TypeParts DEF Logs, CommitsOK
      <3>2. Max(fork) \in fork
        BY <2>3, <3>1, Greatest
      <3>3. Fork(a, b) = commits[Max(fork)]
        BY <2>1, <2>3 DEF Fork, TreeOf
      <3> QED BY <2>1, <3>2, <3>3 DEF TipHas
    <2> QED BY <2>2, <2>3
  <1>2. PICK base, ours, theirs : base = Fork(a, b) /\ ours = TreeOf(a) /\ theirs = TreeOf(b)
    OBVIOUS
  <1>3. Kept(base) \subseteq ours /\ Kept(base) \subseteq theirs
    BY <1>1, <1>2
  <1>4. Kept(ours) \subseteq Merge(base, ours, theirs) /\ Kept(theirs) \subseteq Merge(base, ours, theirs)
    BY <1>3 DEF Kept, Merge
  <1> QED BY <1>2, <1>4

LEMMA RebasedOthers ==
  ASSUME TypeOK, OthersOK, NEW onto \in {origin, remote.main}, RebasesCleanly(onto), UNCHANGED blind,
         remote'.main \in {remote.main, local'[head]}, remote'.work \in {remote.work, local'[head]},
         origin' \in {origin, remote.main, local'[head]}
  PROVE  OthersOK'
  <1>1. PICK tree : tree = Merge(Fork(HEAD, onto), TreeOf(HEAD), TreeOf(onto))
    OBVIOUS
  <1>2. PICK tip : tip = IF tree = TreeOf(onto) THEN onto ELSE onto \cup {New}
    OBVIOUS
  <1>3. /\ head # "rebase" /\ UNCHANGED <<head, detached>>
        /\ tree = TreeOf(onto) \/ Len(commits) < MaxCommits
        /\ commits' = (IF tree = TreeOf(onto) THEN commits ELSE Append(commits, tree))
        /\ local' = [local EXCEPT ![head] = tip]
        /\ disk' = tree /\ index' = tree
    BY <1>1, <1>2 DEF RebasesCleanly
  <1>4. /\ CommitsOK /\ onto \in Logs \ {{}} /\ onto \in Refs /\ HEAD \in Logs /\ HEAD \in Refs
        /\ TreeOf(HEAD) \in SUBSET Lines /\ TreeOf(onto) \in SUBSET Lines
    BY TypeParts, RefsAreLogs, Trees DEF Refs
  <1>5. TipHas(HEAD) /\ TipHas(onto)
    BY <1>4 DEF OthersOK
  <1>6. tree \in SUBSET Lines
    BY <1>1, <1>4, MergedTree
  <1>7. Kept(TreeOf(onto)) \subseteq tree
    <2>1. PICK log \in Logs : log = HEAD
      BY <1>4
    <2> QED BY <1>1, <1>4, <1>5, <2>1, MergeHas
  <1>8. Grows /\ HEAD' = local'[head] /\ local'[head] = tip
    <2>1. Grows /\ HEAD' = local'[head] /\ head \in Branches
      BY <1>4, CleanRebase
    <2> QED BY <1>3, <2>1 DEF TypeOK, RefsOK
  <1>9. /\ tip \in Refs \/ HasAll(commits', blind', tip)
        /\ TreeIn(commits', tip) = tree
    <2>1. CASE tree = TreeOf(onto)
      BY <1>2, <1>3, <1>4, <2>1, Trees
    <2>2. CASE tree # TreeOf(onto)
      <3>1. /\ tip = onto \cup {New} /\ commits' = Append(commits, tree) /\ Len(commits) < MaxCommits
        BY <1>2, <1>3, <2>2
      <3>2. \A n \in onto : Kept(commits[n]) \subseteq tree
        BY <1>5, <1>7 DEF TipHas, Kept
      <3>3. HasAll(commits', blind', tip)
        BY <1>4, <1>6, <3>1, <3>2, HasAllNew
      <3>4. TreeIn(commits', tip) = tree
        BY <1>4, <1>6, <3>1, AddingOne
      <3> QED BY <3>3, <3>4
    <2> QED BY <2>1, <2>2
  <1>10. local'.main \in {local.main, tip} /\ local'.work \in {local.work, tip}
    BY <1>3 DEF TypeOK, RefsOK, HeadOK, Branches
  <1>11. \A log \in NextRefs : log \in Refs \/ log = tip
    BY <1>3, <1>8, <1>10 DEF NextRefs, Refs
  <1>12. TreeOf(HEAD)' = tree
    BY <1>8, <1>9 DEF TreeOf, TreeIn
  <1>13. Kept(TreeOf(HEAD))' \subseteq index' /\ Kept(index)' \subseteq disk'
    BY <1>3, <1>12 DEF Kept
  <1>14. \A log \in NextRefs : log \in Refs \cup {{}} \/ HasAll(commits', blind', log)
    BY <1>9, <1>11
  <1> QED BY <1>8, <1>13, <1>14, OthersFrame

LEMMA RebasesOthers ==
  ASSUME TypeOK, OthersOK, Rebase \/ StaleGateRebases \/ StaleGateBlocks
  PROVE  OthersOK'
  <1>1. CASE Rebase
    <2>1. UNCHANGED <<remote, origin, blind>> /\ (RebasesCleanly(origin) \/ RebaseConflicts(origin))
      BY <1>1 DEF Rebase, readVars
    <2> QED BY <2>1, RebasedOthers, ConflictOthers
  <1>2. CASE StaleGateRebases
    <2>1. PICK fetched \in {origin, remote.main}, how \in Outcomes :
            RebasesCleanly(fetched) /\ PushHead(fetched, head, local'[head], how)
      BY <1>2 DEF StaleGateRebases
    <2>2. UNCHANGED blind
      BY <1>2 DEF StaleGateRebases, readVars
    <2>3. PICK log : log = local'[head]
      OBVIOUS
    <2>4. /\ remote'.main \in {remote.main, log} /\ remote'.work \in {remote.work, log}
          /\ origin' \in {fetched, log}
      BY <2>1, <2>3, PushedRefs
    <2> QED BY <2>1, <2>2, <2>3, <2>4, RebasedOthers
  <1>3. CASE StaleGateBlocks
    <2>1. PICK fetched \in {origin, remote.main} :
            /\ origin' = fetched
            /\ RebaseConflicts(fetched) \/ UNCHANGED <<commits, local, treeVars>>
      BY <1>3 DEF StaleGateBlocks
    <2>2. UNCHANGED <<remote, blind>>
      BY <1>3 DEF StaleGateBlocks, readVars
    <2>3. CASE UNCHANGED <<commits, local, treeVars>>
      <3>1. HEAD' = HEAD /\ UNCHANGED <<local, detached, index, disk>>
        BY <2>3 DEF HEAD, treeVars
      <3>2. NextRefs \subseteq Refs
        BY <2>1, <2>2, <3>1 DEF NextRefs, Refs
      <3> QED BY <2>2, <2>3, <3>1, <3>2, SameClone
    <2> QED BY <2>1, <2>2, <2>3, ConflictOthers
  <1> QED BY <1>1, <1>2, <1>3

LEMMA BranchAndPushOthers ==
  ASSUME TypeOK, OthersOK, BranchAndPush
  PROVE  OthersOK'
  <1> DEFINE commit == head # "work" /\ disk # TreeOf(HEAD)
  <1>1. PICK target : target = IF head = "main" /\ local.work = {} THEN "work" ELSE head
    OBVIOUS
  <1>2. PICK tip : tip = IF commit THEN HEAD \cup {New} ELSE HEAD
    OBVIOUS
  <1>3. /\ (commit => Len(commits) < MaxCommits)
        /\ commits' = (IF commit THEN Append(commits, disk) ELSE commits)
        /\ head' = target /\ index' = IF head = "work" THEN index ELSE disk
        /\ IF target = "rebase" THEN detached' = tip /\ UNCHANGED local
           ELSE local' = [local EXCEPT ![target] = tip] /\ UNCHANGED detached
        /\ UNCHANGED <<disk, blind>>
    BY <1>1, <1>2 DEF BranchAndPush, readVars
  <1>4. PICK how \in Outcomes : PushHead(origin, target, tip, how)
    BY <1>1, <1>2 DEF BranchAndPush, PushesBranch
  <1>5. PICK tree : tree = IF commit THEN disk ELSE TreeOf(HEAD)
    OBVIOUS
  <1>6. \/ tip = HEAD /\ UNCHANGED commits /\ tree = TreeOf(HEAD)
        \/ tip = HEAD \cup {New} /\ commits' = Append(commits, disk) /\ Len(commits) < MaxCommits /\ tree = disk
    BY <1>2, <1>3, <1>5
  <1> HIDE DEF commit
  <1>7. Grows /\ TreeIn(commits', tip) = tree /\ target \in Branches \cup {"rebase"}
    BY <1>1, <1>3, <1>6, Branching
  <1>8. local \in [Branches -> Logs] /\ disk \in SUBSET Lines
    BY DEF TypeOK, RefsOK
  <1>9. local'.main \in {local.main, tip} /\ local'.work \in {local.work, tip} /\ detached' \in {detached, tip}
    <2>1. CASE target = "rebase"
      BY <1>3, <2>1
    <2>2. CASE target # "rebase"
      BY <1>3, <1>8, <2>2 DEF Branches
    <2> QED BY <2>1, <2>2
  <1>10. HEAD' = tip
    <2>1. CASE target = "rebase"
      BY <1>3, <2>1 DEF HEAD
    <2>2. CASE target # "rebase"
      BY <1>3, <1>7, <1>8, <2>2 DEF HEAD
    <2> QED BY <2>1, <2>2
  <1>11. Kept(TreeOf(HEAD)) \subseteq index /\ Kept(index) \subseteq disk /\ Kept(TreeOf(HEAD)) \subseteq disk
    BY DEF OthersOK, Kept
  <1>12. tip \in Refs \/ HasAll(commits', blind', tip)
    <2>1. CASE tip = HEAD
      BY <2>1, RefsAreLogs
    <2>2. CASE tip = HEAD \cup {New} /\ commits' = Append(commits, disk) /\ Len(commits) < MaxCommits
      BY <1>3, <1>8, <1>11, <2>2, NextCommit
    <2> QED BY <1>6, <2>1, <2>2
  <1>13. \A log \in NextRefs : log \in Refs \/ log = tip
    <2>1. /\ remote'.main \in {remote.main, tip} /\ remote'.work \in {remote.work, tip}
          /\ origin' \in {origin, tip}
      BY <1>4, PushedRefs
    <2> QED BY <1>9, <2>1 DEF NextRefs, Refs
  <1>14. TreeOf(HEAD)' = tree
    BY <1>7, <1>10 DEF TreeOf, TreeIn
  <1>15. Kept(TreeOf(HEAD))' \subseteq index' /\ Kept(index)' \subseteq disk'
    <2>1. CASE head = "work"
      <3>1. index' = index /\ tree = TreeOf(HEAD)
        BY <1>3, <1>5, <2>1 DEF commit
      <3> QED BY <1>3, <1>11, <1>14, <3>1 DEF Kept
    <2>2. CASE head # "work"
      <3>1. index' = disk /\ tree \in {disk, TreeOf(HEAD)}
        BY <1>3, <1>5, <2>2
      <3> QED BY <1>3, <1>11, <1>14, <3>1 DEF Kept
    <2> QED BY <2>1, <2>2
  <1>16. \A log \in NextRefs : log \in Refs \cup {{}} \/ HasAll(commits', blind', log)
    BY <1>12, <1>13
  <1> QED BY <1>3, <1>7, <1>15, <1>16, OthersFrame

LEMMA CreateOthers ==
  ASSUME TypeOK, OthersOK, StaleGatePasses \/ GatesPass \/ CreatesPR \/ CreateFails
  PROVE  OthersOK'
  <1>1. UNCHANGED <<commits, remote, origin, local, head, detached, index, disk, blind>>
    BY DEF StaleGatePasses, GatesPass, CreatesPR, CreateFails, refVars, treeVars, readVars
  <1>2. HEAD' = HEAD /\ NextRefs \subseteq Refs
    BY <1>1 DEF HEAD, NextRefs, Refs
  <1> QED BY <1>1, <1>2, SameClone

(* The forge.                                                              *)
LEMMA ForgesOthers ==
  ASSUME TypeOK, OthersOK, NEW t \in SUBSET Lines, NEW b \in Branches, NEW more \in Logs,
         Len(commits) < MaxCommits, commits' = Append(commits, t),
         remote' = [remote EXCEPT ![b] = @ \cup {New} \cup more],
         UNCHANGED <<origin, local, treeVars, blind>>,
         \A n \in remote[b] \cup more : Kept(commits[n]) \subseteq t
  PROVE  OthersOK'
  <1>1. /\ CommitsOK /\ Grows /\ HEAD' = HEAD /\ HEAD \in Logs /\ remote \in [Branches -> Logs]
    BY TypeParts, OnTheForge DEF RefsOK
  <1>2. PICK log \in Logs : log = remote[b] \cup more
    BY <1>1 DEF Logs
  <1>3. HasAll(commits', blind', log \cup {New})
    BY <1>1, <1>2, HasAllNew
  <1>4. PICK tip : tip = log \cup {New}
    OBVIOUS
  <1>5. remote' = [remote EXCEPT ![b] = tip]
    BY <1>2, <1>4
  <1>6. remote'.main \in {remote.main, tip} /\ remote'.work \in {remote.work, tip}
    BY <1>1, <1>5 DEF Branches
  <1>7. \A x \in NextRefs : x \in Refs \cup {{}} \/ HasAll(commits', blind', x)
    BY <1>3, <1>4, <1>6 DEF NextRefs, Refs, treeVars
  <1>8. TreeOf(HEAD)' = TreeOf(HEAD)
    <2>1. PICK h \in Logs : h = HEAD
      BY <1>1
    <2>2. TreeIn(commits', h) = TreeIn(commits, h)
      BY <1>1, Growing
    <2> QED BY <1>1, <2>1, <2>2 DEF TreeOf, TreeIn
  <1>9. Kept(TreeOf(HEAD))' \subseteq index' /\ Kept(index)' \subseteq disk'
    BY <1>8 DEF OthersOK, Kept, treeVars
  <1> QED BY <1>1, <1>7, <1>9, OthersFrame

LEMMA ForgeOthers ==
  ASSUME TypeOK, OthersOK, Forge
  PROVE  OthersOK'
  <1>1. /\ remote.main \in Logs /\ remote.work \in Logs /\ {} \in Logs
        /\ TreeOf(remote.main) \in SUBSET Lines /\ TreeOf(remote.work) \in SUBSET Lines
    BY TypeParts, Trees DEF Logs
  <1>2. TipHas(remote.main) /\ TipHas(remote.work)
    BY DEF OthersOK, Refs
  <1>3. ASSUME NEW l \in Theirs, OthersMerge(l)
        PROVE  OthersOK'
    <2>1. PICK t : t = TreeOf(remote.main) \cup {l}
      OBVIOUS
    <2>2. /\ Len(commits) < MaxCommits /\ commits' = Append(commits, t)
          /\ remote' = [remote EXCEPT !["main"] = @ \cup {New} \cup {}]
          /\ UNCHANGED <<origin, local, treeVars, blind>>
      BY <1>3, <2>1 DEF OthersMerge, readVars
    <2>3. t \in SUBSET Lines /\ \A n \in remote.main \cup {} : Kept(commits[n]) \subseteq t
      BY <1>1, <1>2, <2>1 DEF TipHas, Lines, Code
    <2> QED BY <1>1, <2>2, <2>3, ForgesOthers DEF Branches
  <1>4. ASSUME NEW l \in Theirs, FixerPushes(l)
        PROVE  OthersOK'
    <2>1. PICK t : t = TreeOf(remote.work) \cup {l}
      OBVIOUS
    <2>2. /\ Len(commits) < MaxCommits /\ commits' = Append(commits, t)
          /\ remote' = [remote EXCEPT !["work"] = @ \cup {New} \cup {}]
          /\ UNCHANGED <<origin, local, treeVars, blind>>
      BY <1>4, <2>1 DEF FixerPushes, readVars
    <2>3. t \in SUBSET Lines /\ \A n \in remote.work \cup {} : Kept(commits[n]) \subseteq t
      BY <1>1, <1>2, <2>1 DEF TipHas, Lines, Code
    <2> QED BY <1>1, <2>2, <2>3, ForgesOthers DEF Branches
  <1>5. ASSUME NEW squash \in BOOLEAN, MergePR(squash)
        PROVE  OthersOK'
    <2>1. PICK t : t = Merge(Fork(remote.main, remote.work), TreeOf(remote.main), TreeOf(remote.work))
      OBVIOUS
    <2>2. PICK more : more = IF squash THEN {} ELSE remote.work
      OBVIOUS
    <2>3. /\ Len(commits) < MaxCommits /\ commits' = Append(commits, t)
          /\ remote' = [remote EXCEPT !["main"] = @ \cup {New} \cup more]
          /\ UNCHANGED <<origin, local, treeVars, blind>>
      BY <1>5, <2>1, <2>2 DEF MergePR, readVars
    <2>4. t \in SUBSET Lines /\ Kept(TreeOf(remote.main)) \subseteq t /\ Kept(TreeOf(remote.work)) \subseteq t
      BY <1>1, <1>2, <2>1, MergedTree, MergeHas
    <2>5. \A n \in remote.main \cup more : Kept(commits[n]) \subseteq t
      BY <1>2, <2>2, <2>4 DEF TipHas, Kept
    <2>6. more \in Logs
      BY <1>1, <2>2
    <2> QED BY <2>3, <2>4, <2>5, <2>6, ForgesOthers DEF Branches
  <1> QED BY <1>3, <1>4, <1>5 DEF Forge

LEMMA OthersStart ==
  ASSUME Init
  PROVE  OthersOK
  <1>1. /\ commits = <<{}>> /\ remote = [main |-> {1}, work |-> {}] /\ local = remote /\ origin = {1}
        /\ head = "main" /\ detached = {} /\ index = {} /\ disk = {}
    BY DEF Init
  <1>2. commits[1] = {}
    BY <1>1
  <1>3. remote.main = {1} /\ remote.work = {} /\ local.main = {1} /\ local.work = {} /\ HEAD = {1}
    BY <1>1 DEF HEAD
  <1>4. Refs \subseteq {{1}, {}}
    BY <1>1, <1>3 DEF Refs
  <1>5. TipHas({1}) /\ TipHas({})
    BY <1>2 DEF TipHas, Kept
  <1>6. TreeOf({1}) = {}
    <2>1. Max({1}) = 1
      BY GreatestIs
    <2> QED BY <1>2, <2>1 DEF TreeOf
  <1> QED BY <1>1, <1>3, <1>4, <1>5, <1>6 DEF OthersOK, Kept

LEMMA OthersStep ==
  ASSUME TypeOK, OthersOK, [Next]_vars
  PROVE  OthersOK'
  <1>1. CASE Manager
    BY <1>1, PointersOthers, ResetsOthers, CheckOutsOthers DEF Manager
  <1>2. CASE FileTools
    BY <1>2, PointersOthers, EditsOthers DEF FileTools
  <1>3. CASE GitTools
    BY <1>3, EditsOthers, PointersOthers, RebasesOthers, ResetsOthers, CheckOutsOthers, CommitsOthers,
       BashPushOthers, BashForcesOthers DEF GitTools
  <1>4. CASE ChangeTools
    BY <1>4, ChangesOthers DEF ChangeTools
  <1>5. CASE CreatePR
    BY <1>5, CreateOthers, RebasesOthers, BranchAndPushOthers DEF CreatePR
  <1>6. CASE Forge
    BY <1>6, ForgeOthers
  <1>7. CASE UNCHANGED vars
    <2>1. UNCHANGED <<commits, remote, origin, local, head, detached, index, disk, blind>>
      BY <1>7 DEF vars, refVars, treeVars, readVars
    <2>2. HEAD' = HEAD /\ NextRefs \subseteq Refs
      BY <2>1 DEF HEAD, NextRefs, Refs
    <2> QED BY <2>1, <2>2, SameClone
  <1> QED BY <1>1, <1>2, <1>3, <1>4, <1>5, <1>6, <1>7 DEF Next

(* The tip of every branch has the lines of theirs that are in a commit    *)
(* behind it, and so has what the clone is to commit next: the git tool,   *)
(* the rebases of the stale gate and the tools of a change drop none.      *)
THEOREM TipsHaveOthers == Spec => []OthersOK
  <1>1. Init => OthersOK
    BY OthersStart
  <1>2. IInv /\ OthersOK /\ [Next]_vars => OthersOK'
    BY OthersStep DEF IInv
  <1> QED BY <1>1, <1>2, Invariance, PTL DEF Spec

(* What the agent did not see is noted by a write, which pushes nothing.   *)
LEMMA BlindOrPush ==
  ASSUME [Next]_vars, remote' # remote
  PROVE  blind' = blind
  <1>1. ~FileTools
    BY DEF FileTools, ReadFile, WriteFile, refVars
  <1>2. CASE Manager
    BY <1>2 DEF Manager, SessionStarts, Recloned, BeginsOnPR, PruneMergedBranches, readVars
  <1>3. CASE GitTools
    BY <1>3 DEF GitTools, GitAdd, Fetch, CheckoutNew, Rebase, RebaseContinues, RebaseAborts,
                CheckoutBranch, GitCommit, BashCommit, BashPush, BashForces, readVars
  <1>4. CASE ChangeTools
    BY <1>4 DEF ChangeTools, MarkTask, ArchiveChange, readVars
  <1>5. CASE CreatePR
    BY <1>5 DEF CreatePR, StaleGatePasses, StaleGateRebases, StaleGateBlocks, BranchAndPush,
                GatesPass, CreatesPR, CreateFails, readVars
  <1>6. CASE Forge
    BY <1>6 DEF Forge, OthersMerge, FixerPushes, MergePR, readVars
  <1>7. CASE UNCHANGED vars
    BY <1>7 DEF vars, readVars
  <1> QED BY <1>1, <1>2, <1>3, <1>4, <1>5, <1>6, <1>7 DEF Next

(* A commit is never rewritten: a rebase makes another.                    *)
LEMMA OnlyAppends ==
  ASSUME [Next]_vars
  PROVE  commits' = commits \/ \E t : commits' = Append(commits, t)
  <1>1. CASE Manager
    BY <1>1 DEF Manager, SessionStarts, Recloned, BeginsOnPR, PruneMergedBranches
  <1>2. CASE FileTools
    BY <1>2 DEF FileTools, ReadFile, WriteFile
  <1>3. CASE GitTools
    BY <1>3 DEF GitTools, GitAdd, Fetch, CheckoutNew, Rebase, RebaseContinues, RebaseAborts,
                CheckoutBranch, GitCommit, BashCommit, BashPush, BashForces, Commit, RebasesCleanly, RebaseConflicts
  <1>4. CASE ChangeTools
    BY <1>4 DEF ChangeTools, MarkTask, ArchiveChange, CommitAndPush, NoCommit, Commit
  <1>5. CASE CreatePR
    <2>1. CASE StaleGateRebases
      BY <2>1 DEF StaleGateRebases, RebasesCleanly
    <2>2. CASE BranchAndPush
      <3>1. commits' \in {commits, Append(commits, disk)}
        BY <2>2 DEF BranchAndPush
      <3> QED BY <3>1
    <2>3. CASE StaleGatePasses \/ StaleGateBlocks \/ GatesPass \/ CreatesPR \/ CreateFails
      BY <2>3 DEF StaleGatePasses, StaleGateBlocks, GatesPass, CreatesPR, CreateFails, RebaseConflicts
    <2> QED BY <1>5, <2>1, <2>2, <2>3 DEF CreatePR
  <1>6. CASE Forge
    BY <1>6 DEF Forge, OthersMerge, FixerPushes, MergePR
  <1>7. CASE UNCHANGED vars
    BY <1>7 DEF vars
  <1> QED BY <1>1, <1>2, <1>3, <1>4, <1>5, <1>6, <1>7 DEF Next

LEMMA CommitStays ==
  ASSUME CommitsOK, NEW n \in 1..Len(commits), commits' = commits \/ \E t : commits' = Append(commits, t)
  PROVE  commits'[n] = commits[n]
  <1>1. CASE commits' = commits
    BY <1>1
  <1>2. ASSUME NEW t, commits' = Append(commits, t)
        PROVE  commits'[n] = commits[n]
    <2>1. PICK trees : trees = SUBSET Lines
      OBVIOUS
    <2>2. commits \in Seq(trees)
      BY <2>1 DEF CommitsOK
    <2>3. commits \in Seq(trees \cup {t})
      BY <2>2
    <2> QED BY <1>2, <2>3
  <1> QED BY <1>1, <1>2

(* Unless main is forced back, other people's lines stay in it, but for    *)
(* lines the agent overwrote because read_file answered from its cache.    *)
THEOREM OthersSurvive == Spec => OthersKept
  <1>1. IInv /\ OthersOK /\ IInv' /\ OthersOK' /\ [Next]_vars
          => [remote.main \subseteq remote'.main
                => (TreeOf(remote.main) \cap Theirs) \ blind \subseteq commits'[Max(remote'.main)]]_remote
    <2>1. SUFFICES ASSUME IInv, OthersOK, IInv', OthersOK', [Next]_vars, remote' # remote,
                          remote.main \subseteq remote'.main
                   PROVE  (TreeOf(remote.main) \cap Theirs) \ blind \subseteq commits'[Max(remote'.main)]
      OBVIOUS
    <2>2. CommitsOK /\ remote.main \in Logs \ {{}} /\ remote.main \subseteq remote'.main
      BY <2>1, TypeParts DEF IInv
    <2>3. Max(remote.main) \in remote.main
      <3>1. PICK log \in Logs \ {{}} : log = remote.main
        BY <2>2
      <3>2. log \in SUBSET (1..Len(commits)) /\ Len(commits) \in Nat
        BY <2>2 DEF Logs, CommitsOK
      <3> QED BY <3>1, <3>2, Greatest
    <2>4. PICK tip \in remote.main : tip = Max(remote.main)
      BY <2>3
    <2>5. TreeOf(remote.main) = commits[tip]
      BY <2>2, <2>4 DEF TreeOf
    <2>6. commits'[tip] = commits[tip]
      <3>1. tip \in 1..Len(commits)
        BY <2>2, <2>4 DEF Logs
      <3> QED BY <2>1, <2>2, <3>1, CommitStays, OnlyAppends
    <2>7. TreeOf(remote.main)' = commits'[Max(remote'.main)]
      BY <2>2 DEF TreeOf
    <2>8. (commits'[tip] \cap Theirs) \ blind' \subseteq TreeOf(remote.main)'
      BY <2>1, <2>2, <2>4 DEF OthersOK, Refs, TipHas, Kept
    <2>9. blind' = blind
      BY <2>1, BlindOrPush
    <2> QED BY <2>5, <2>6, <2>7, <2>8, <2>9
  <1> QED BY <1>1, Invariance, TipsHaveOthers, PTL DEF Spec, OthersKept
=============================================================================
