--------------------------- MODULE AfterMergeProofs ---------------------------
(***************************************************************************)
(* What waits for pull requests to merge and what a merge sets off, each   *)
(* for any instance of it.                                                 *)
(*                                                                         *)
(* The scheduler, for any issues, pull requests, texts and number of       *)
(* passes beside each other: it implements the gate, overlooks no issue    *)
(* that was free when it began, and settles parents when their pull        *)
(* requests are closed.                                                    *)
(*                                                                         *)
(* The merge queue, for any set of branches and requeuers: overlapping     *)
(* pull requests come from a race only, and no requeuer uses a retry twice.*)
(*                                                                         *)
(* The merge of a specification, for any tasks and any number of requests  *)
(* that fail: the labels of its pull request end up right, every open task *)
(* gets one issue, and tasks that touch the same paths wait for another.   *)
(***************************************************************************)
EXTENDS Cascade, MergeQueue, SpecCycle, FiniteSetTheorems, WellFoundedInduction, TLAPS

-----------------------------------------------------------------------------
(* The issue a scan looks at and the candidate a pass handles are of their *)
(* sets.                                                                   *)
LEMMA Least ==
  ASSUME NEW S \in SUBSET Nat, S # {}
  PROVE  \E m \in S : \A x \in S : m <= x
  <1>1. PICK m \in S : \A x \in S : <<x, m>> \notin OpToRel(<, Nat)
    BY WFMin, NatLessThanWellFounded, Zenon
  <1>2. \A x \in S : ~(x < m)
    BY <1>1, Zenon DEF OpToRel
  <1> QED BY <1>2

LEMMA Greatest ==
  ASSUME NEW S \in SUBSET Nat, IsFiniteSet(S), S # {}
  PROVE  \E m \in S : \A x \in S : x <= m
  <1> DEFINE T == {R \in SUBSET S : R # {} /\ ~(\E m \in R : \A x \in R : x <= m)}
  <1>1. SUFFICES ASSUME T # {} PROVE FALSE
    OBVIOUS
  <1>2. T \subseteq FiniteSubsetsOf(S)
    BY FS_FiniteSubsetsOfFinite
  <1>3. PICK R \in T : \A y \in T : <<y, R>> \notin StrictSubsetOrdering(S)
    BY <1>1, <1>2, WFMin, FS_StrictSubsetOrderingWellFounded, Zenon
  <1>4. PICK r \in R : TRUE
    OBVIOUS
  <1>5. R \ {r} \notin T
    <2>1. <<R \ {r}, R>> \in StrictSubsetOrdering(S)
      BY <1>4 DEF StrictSubsetOrdering
    <2> QED BY <1>3, <2>1
  <1>6. CASE R \ {r} = {}
    <2>1. \A x \in R : x <= r
      BY <1>4, <1>6
    <2> QED BY <1>4, <2>1
  <1>7. CASE R \ {r} # {}
    <2>1. PICK m \in R \ {r} : \A x \in R \ {r} : x <= m
      BY <1>5, <1>7
    <2>2. m \in Nat /\ r \in Nat
      BY <1>4, <2>1
    <2>3. CASE r <= m
      <3>1. \A x \in R : x <= m
        BY <2>1, <2>3
      <3> QED BY <2>1, <3>1
    <2>4. CASE m <= r
      <3>1. \A x \in R : x <= r
        BY <2>1, <2>2, <2>4
      <3> QED BY <1>4, <3>1
    <2> QED BY <2>2, <2>3, <2>4
  <1> QED BY <1>6, <1>7

LEMMA NewestIs ==
  ASSUME NEW S \in SUBSET Issues, S # {}
  PROVE  Newest(S) \in S
  <1>1. S \in SUBSET Nat /\ IsFiniteSet(S)
    BY CascadeAssumption, FS_Subset DEF Numbers
  <1>2. \E m \in S : \A x \in S : x <= m
    BY <1>1, Greatest
  <1> QED BY <1>2 DEF Newest

LEMMA FirstIs ==
  ASSUME NEW S \in SUBSET Issues, S # {}
  PROVE  First(S) \in S
  <1> DEFINE P == {Priority[i] : i \in S}
  <1>1. S \in SUBSET Nat /\ \A i \in S : Priority[i] \in Nat
    BY CascadeAssumption
  <1>2. P \in SUBSET Nat /\ P # {}
    BY <1>1
  <1>3. PICK p \in P : \A x \in P : p <= x
    BY <1>2, Least
  <1> DEFINE T == {i \in S : Priority[i] = p}
  <1>4. T \in SUBSET Nat /\ T # {}
    BY <1>1
  <1>5. PICK m \in T : \A x \in T : m <= x
    BY <1>4, Least
  <1>6. \A x \in S : Before(m, x)
    <2>1. SUFFICES ASSUME NEW x \in S PROVE Before(m, x)
      OBVIOUS
    <2>2. p <= Priority[x] /\ Priority[m] = p /\ p \in Nat /\ Priority[x] \in Nat
      BY <1>1, <1>2, <1>3
    <2>3. Priority[x] = p => m <= x
      BY <1>5
    <2> HIDE DEF P, T
    <2> QED BY <2>2, <2>3 DEF Before
  <1> QED BY <1>6 DEF First

-----------------------------------------------------------------------------
(* Numbers come into being and are closed for good; what was said is kept. *)
Forward ==
  /\ \A d \in Numbers : state[d] = "closed" => state'[d] = "closed"
  /\ \A d \in Numbers : state'[d] = "none" => state[d] = "none"
  /\ \A i \in Issues : said[i] \subseteq said'[i]
  /\ \A i \in Issues : native[i] # {} => native'[i] # {}

LEMMA SettledStays ==
  ASSUME StoreTyped, StoreTyped', Forward, NEW D \in SUBSET Numbers, AllSettled(D)
  PROVE  AllSettled(D)'
  <1>1. \A d \in D : state[d] \in {"none", "open", "closed"} /\ state'[d] \in {"none", "open", "closed"}
    BY DEF StoreTyped
  <1> QED BY <1>1 DEF Forward, AllSettled, Settled

LEMMA SettledClosed ==
  ASSUME NEW D \in SUBSET Numbers, AllSettled(D)
  PROVE  D # {} /\ \A d \in D \cap PRs : state[d] = "closed"
  BY CascadeAssumption DEF AllSettled, Settled

LEMMA PassFields ==
  ASSUME NEW q, PassTyped(q)
  PROVE  /\ q.at \in {"idle", "push", "list", "scan", "unblock", "ready", "finish", "reactivate", "archive"}
         /\ q.event \in BOOLEAN /\ q.merged \in PRs \cup {0} /\ q.round \in 0..MaxRounds
         /\ q.todo \in SUBSET Issues /\ q.cands \in SUBSET Issues /\ q.exhausted \in BOOLEAN
         /\ q.due \in SUBSET Issues /\ DOMAIN q.listing \subseteq Issues
         /\ \A i \in DOMAIN q.listing : q.listing[i].text \in SUBSET Numbers /\ q.listing[i].labels \in SUBSET Labels
  <1>1. q \in Locals(q.listing) /\ DOMAIN q.listing \subseteq Issues /\ q.listing \in [DOMAIN q.listing -> Listed]
    BY DEF PassTyped
  <1>2. \A i \in DOMAIN q.listing : q.listing[i] \in Listed
    BY <1>1
  <1>3. PICK l : l = q.listing
    OBVIOUS
  <1>4. q \in Locals(l)
    BY <1>1, <1>3
  <1> QED BY <1>1, <1>2, <1>4 DEF Locals, Listed

(* What holds of a pass goes on to hold while others work.                 *)
LEMMA PassStays ==
  ASSUME StoreTyped, StoreTyped', Forward, NEW q, PassTyped(q), PassOK(q)
  PROVE  PassOK(q)'
  <1>1. /\ DOMAIN q.listing \subseteq Issues /\ q.cands \subseteq DOMAIN q.listing /\ q.todo \in SUBSET Issues
        /\ q.cands \in SUBSET Issues
        /\ \A i \in DOMAIN q.listing : q.listing[i].text \in SUBSET Numbers
    BY PassFields DEF PassTyped
  <1>2. \A D \in SUBSET Numbers : AllSettled(D) => AllSettled(D)'
    BY SettledStays
  <1>3. \A i \in Issues : said[i] \subseteq SUBSET Numbers
    BY DEF StoreTyped
  <1>4. q.merged \in PRs => state'[q.merged] = "closed"
    BY DEF PassOK, Forward, Numbers
  <1>5. \A i \in DOMAIN q.listing : q.listing[i].text \in said'[i]
    BY <1>1 DEF PassOK, Forward
  <1>6. \A i \in q.cands : \E D \in said'[i] : AllSettled(D)'
    <2>1. SUFFICES ASSUME NEW i \in q.cands PROVE \E D \in said'[i] : AllSettled(D)'
      OBVIOUS
    <2>2. PICK D \in said[i] : AllSettled(D)
      BY DEF PassOK
    <2> QED BY <1>1, <1>2, <1>3, <2>2 DEF Forward
  <1>7. Scanning(q) /\ q.at = "scan" => Scanning(q)'
    <2>1. q.at = "scan" => q.todo \subseteq DOMAIN q.listing
      BY DEF PassTyped
    <2> QED BY <1>1, <1>2, <2>1 DEF Scanning, Forward
  <1> QED BY <1>4, <1>5, <1>6, <1>7 DEF PassOK

-----------------------------------------------------------------------------
LEMMA NumberFacts == MaxRounds \in Nat \ {0} /\ 0 \in 0..MaxRounds /\ 1 \in 0..MaxRounds /\ 0 \notin Numbers
  BY CascadeAssumption DEF Numbers

(* A pass that begins, that waits for the events of its results, that is   *)
(* over: it has looked at nothing and owes nothing.                        *)
Fresh(q) ==
  /\ q \in Locals(q.listing) /\ DOMAIN q.listing = {} /\ q.listing \in [{} -> Listed]
  /\ q.at \in {"idle", "push", "list", "reactivate", "archive"}
  /\ q.cands = {} /\ q.due = {}

LEMMA FreshTyped == ASSUME NEW q, Fresh(q) PROVE PassTyped(q)
  BY DEF Fresh, PassTyped

LEMMA FreshOK ==
  ASSUME NEW q, Fresh(q), q.merged \in PRs => state[q.merged] = "closed"
  PROVE  PassOK(q)
  BY DEF Fresh, PassOK

LEMMA IdleFresh == Fresh(Idle) /\ Idle.merged = 0 /\ Idle.at = "idle" /\ Idle.event = FALSE
  <1>1. PICK l : l = <<>>
    OBVIOUS
  <1>2. DOMAIN l = {} /\ l \in [{} -> Listed]
    BY <1>1
  <1>3. PICK q : q = Idle
    OBVIOUS
  <1>4. q = [at |-> "idle", event |-> FALSE, merged |-> 0, round |-> 0, listing |-> l,
             todo |-> {}, cands |-> {}, exhausted |-> FALSE, due |-> {}]
    BY <1>1, <1>3 DEF Idle
  <1>5. /\ q.at = "idle" /\ q.event = FALSE /\ q.merged = 0 /\ q.listing = l
        /\ q.cands = {} /\ q.due = {}
    BY <1>4
  <1>6. q \in Locals(l)
    BY <1>4, NumberFacts DEF Locals
  <1>7. Fresh(q)
    BY <1>2, <1>5, <1>6 DEF Fresh
  <1> QED BY <1>3, <1>5, <1>7

LEMMA BegunFresh ==
  ASSUME NEW e \in BOOLEAN, NEW m \in PRs \cup {0}
  PROVE  Fresh(Begun(e, m)) /\ Begun(e, m).merged = m /\ Begun(e, m).at = "list"
  <1>1. PICK i : i = Idle
    OBVIOUS
  <1>2. PICK q : q = Begun(e, m)
    OBVIOUS
  <1>3. q = [i EXCEPT !.at = "list", !.event = e, !.merged = m, !.round = 1]
    BY <1>1, <1>2 DEF Begun
  <1>4. PICK l : l = i.listing
    OBVIOUS
  <1>5. i \in Locals(l) /\ DOMAIN l = {} /\ l \in [{} -> Listed] /\ i.cands = {} /\ i.due = {}
    BY <1>1, <1>4, IdleFresh DEF Fresh
  <1>6. q \in Locals(l) /\ q.listing = l /\ q.cands = {} /\ q.due = {} /\ q.merged = m /\ q.at = "list"
    BY <1>3, <1>5, NumberFacts DEF Locals
  <1>7. Fresh(q)
    BY <1>5, <1>6 DEF Fresh
  <1> QED BY <1>2, <1>6, <1>7

LEMMA InitOK == Init => CInv
  <1> SUFFICES ASSUME Init PROVE CInv
    OBVIOUS
  <1>1. PassTyped(Idle) /\ PassOK(Idle)
    BY IdleFresh, FreshTyped, FreshOK, NumberFacts DEF Numbers
  <1>2. \A w \in Passes : PassTyped(pass[w]) /\ PassOK(pass[w])
    BY <1>1 DEF Init
  <1>3. text \in [Issues -> SUBSET Numbers]
    BY CascadeAssumption DEF Init
  <1>4. labels \in [Issues -> SUBSET Labels]
    BY DEF Init, Labels
  <1>5. TypeOK
    BY <1>2, <1>3, <1>4, CascadeAssumption DEF Init, TypeOK, StoreTyped, Numbers
  <1>6. ParentsSettled
    BY DEF Init, ParentsSettled
  <1>7. RepositoryOK
    BY <1>3 DEF Init, RepositoryOK, Existing, Numbers
  <1> QED BY <1>2, <1>5, <1>6, <1>7 DEF CInv

-----------------------------------------------------------------------------
(* What the actions leave alone, and that they only go forward.            *)
LEMMA PassQuiet ==
  ASSUME NEW w \in Passes, PassStep(w), ~Finishes(w)
  PROVE  UNCHANGED <<state, text, native, making, told, rechecks, said>>
  <1>1. ASSUME NEW i \in Issues, Frees(w, i)
        PROVE  UNCHANGED <<state, text, native, making, told, rechecks, said>>
    BY <1>1 DEF Frees
  <1>2. CASE Freed(w)
    BY <1>2 DEF Freed, issueVars
  <1>3. CASE Lists(w)
    BY <1>3 DEF Lists, issueVars
  <1>4. CASE Scans(w)
    BY <1>4 DEF Scans, issueVars
  <1>5. CASE Scanned(w)
    BY <1>5 DEF Scanned, issueVars
  <1>6. CASE Unblocks(w)
    BY <1>6 DEF Unblocks
  <1>7. CASE Readies(w)
    BY <1>7 DEF Readies
  <1>8. CASE Reactivates(w)
    BY <1>8 DEF Reactivates, issueVars
  <1>9. CASE Archives(w)
    BY <1>9 DEF Archives, issueVars
  <1>10. CASE Archived(w)
    BY <1>10 DEF Archived, issueVars
  <1> QED BY <1>1, <1>2, <1>3, <1>4, <1>5, <1>6, <1>7, <1>8, <1>9, <1>10 DEF PassStep

LEMMA ForwardUnchanged ==
  ASSUME UNCHANGED <<state, native, said>>
  PROVE  Forward
  BY DEF Forward

LEMMA ForwardOthers ==
  ASSUME StoreTyped, Others
  PROVE  Forward
  <1> USE DEF StoreTyped, Forward
  <1>1. ASSUME NEW p \in PRs, Opens(p) PROVE Forward
    BY <1>1 DEF Opens, issueVars, Numbers
  <1>2. ASSUME NEW p \in PRs, Closes(p) PROVE Forward
    BY <1>2 DEF Closes, issueVars, Numbers
  <1>3. ASSUME NEW i \in Issues, Claims(i) \/ AutoBlocks(i) \/ MarksBlocked(i)
        PROVE  Forward
    BY <1>3 DEF Claims, AutoBlocks, MarksBlocked
  <1>4. ASSUME NEW i \in Issues, NEW l, Relabels(i, l) PROVE Forward
    BY <1>4 DEF Relabels
  <1>5. ASSUME NEW i \in Issues, Appends(i) PROVE Forward
    BY <1>5 DEF Appends
  <1>6. ASSUME NEW i \in Issues, Posts(i) PROVE Forward
    BY <1>6 DEF Posts, Numbers
  <1>7. CASE Crashes
    BY <1>7 DEF Crashes
  <1> QED BY <1>1, <1>2, <1>3, <1>4, <1>5, <1>6, <1>7 DEF Others

LEMMA ForwardStep ==
  ASSUME StoreTyped, [Next]_vars
  PROVE  Forward
  <1>1. CASE UNCHANGED vars
    BY <1>1, ForwardUnchanged DEF vars, issueVars
  <1>2. CASE Others
    BY <1>2, ForwardOthers
  <1>3. ASSUME NEW w \in Passes, PassStep(w) PROVE Forward
    <2>1. CASE Finishes(w)
      BY <2>1 DEF Finishes, issueVars, StoreTyped, Forward
    <2> QED BY <1>3, <2>1, PassQuiet, ForwardUnchanged
  <1>4. ASSUME NEW w \in Passes, Begins(w) PROVE Forward
    <2>1. ASSUME NEW i \in SubIssues, Links(i, w) PROVE Forward
      BY <2>1, CascadeAssumption DEF Links, StoreTyped, Forward
    <2>2. ASSUME NEW p, Hears(w, p) \/ Rechecks(w, p) PROVE Forward
      BY <2>2, ForwardUnchanged DEF Hears, Rechecks, issueVars
    <2>3. CASE Reconciles(w)
      BY <2>3, ForwardUnchanged DEF Reconciles, issueVars
    <2>4. CASE Pushes(w)
      BY <2>4 DEF Pushes, issueVars, StoreTyped, Forward, OpenIssues, OnPage, Numbers
    <2> QED BY <1>4, <2>1, <2>2, <2>3, <2>4 DEF Begins
  <1> QED BY <1>1, <1>2, <1>3, <1>4 DEF Next

-----------------------------------------------------------------------------
(* Types of the repository.                                                *)
LEMMA ExtrasTyped ==
  ASSUME extras \in 0..MaxExtras, Works \/ Fails \/ Counted
  PROVE  extras' \in 0..MaxExtras
  BY CascadeAssumption DEF Works, Fails, Counted, Extra

LEMMA StoreOthers ==
  ASSUME StoreTyped, Others
  PROVE  StoreTyped'
  <1> USE DEF StoreTyped
  <1>1. ASSUME NEW p \in PRs, Opens(p) \/ Closes(p) PROVE StoreTyped'
    BY <1>1 DEF Opens, Closes, issueVars, Numbers
  <1>2. ASSUME NEW i \in Issues, Claims(i) PROVE StoreTyped'
    BY <1>2, ExtrasTyped DEF Claims, Fails, Labels
  <1>3. ASSUME NEW i \in Issues, AutoBlocks(i) PROVE StoreTyped'
    BY <1>3 DEF AutoBlocks, Labels
  <1>4. ASSUME NEW i \in Issues, Appends(i) PROVE StoreTyped'
    <2>1. text' \in [Issues -> SUBSET Numbers]
      <3>1. CASE text' = text
        BY <3>1
      <3>2. ASSUME NEW p \in BugReportRefs(i), text' = [text EXCEPT ![i] = @ \cup {p}]
            PROVE  text' \in [Issues -> SUBSET Numbers]
        BY <3>2 DEF BugReportRefs, Numbers
      <3> QED BY <1>4, <3>1, <3>2 DEF Appends
    <2>2. extras' \in 0..MaxExtras
      BY <1>4, ExtrasTyped DEF Appends
    <2>3. said' \in [Issues -> SUBSET SUBSET Numbers]
      <3>1. PICK t \in SUBSET Numbers : t = text'[i]
        BY <2>1
      <3>2. said' = [said EXCEPT ![i] = @ \cup {t}]
        BY <1>4, <3>1 DEF Appends
      <3> QED BY <3>1, <3>2
    <2> QED BY <1>4, <2>1, <2>2, <2>3 DEF Appends
  <1>5. ASSUME NEW i \in Issues, Posts(i) PROVE StoreTyped'
    BY <1>5 DEF Posts, Numbers
  <1>6. ASSUME NEW i \in Issues, MarksBlocked(i) PROVE StoreTyped'
    <2>1. extras' \in 0..MaxExtras
      BY <1>6, ExtrasTyped DEF MarksBlocked
    <2>2. labels' \in [Issues -> SUBSET Labels]
      BY <1>6 DEF MarksBlocked, Labels
    <2> QED BY <1>6, <2>1, <2>2 DEF MarksBlocked
  <1>7. ASSUME NEW i \in Issues, NEW l \in {"blocked", "failed"}, Relabels(i, l)
        PROVE  StoreTyped'
    BY <1>7, ExtrasTyped DEF Relabels, Fails, Labels
  <1>8. CASE Crashes
    BY <1>8, ExtrasTyped DEF Crashes
  <1> QED BY <1>1, <1>2, <1>3, <1>4, <1>5, <1>6, <1>7, <1>8 DEF Others

LEMMA StoreBegins ==
  ASSUME StoreTyped, NEW w \in Passes, Begins(w)
  PROVE  StoreTyped'
  <1> USE DEF StoreTyped
  <1>1. ASSUME NEW i \in SubIssues, Links(i, w) PROVE StoreTyped'
    <2>1. i \in Issues /\ Parent[i] \in Issues /\ Issues \subseteq Numbers
      BY CascadeAssumption DEF Numbers
    <2>2. native' \in [Issues -> SUBSET Issues]
      BY <1>1, <2>1 DEF Links
    <2>3. said' \in [Issues -> SUBSET SUBSET Numbers]
      <3>1. native'[i] \in SUBSET Numbers
        BY <2>1, <2>2
      <3> QED BY <1>1, <2>1, <3>1 DEF Links
    <2>4. extras' \in 0..MaxExtras
      BY <1>1, ExtrasTyped DEF Links
    <2> QED BY <1>1, <2>2, <2>3, <2>4 DEF Links
  <1>2. ASSUME NEW p \in PRs, Hears(w, p) PROVE StoreTyped'
    BY <1>2, ExtrasTyped DEF Hears, issueVars
  <1>3. ASSUME NEW p, Rechecks(w, p) PROVE StoreTyped'
    BY <1>3, ExtrasTyped DEF Rechecks, issueVars
  <1>4. CASE Reconciles(w)
    BY <1>4, ExtrasTyped DEF Reconciles, Fails, issueVars
  <1>5. CASE Pushes(w)
    <2>1. extras' \in 0..MaxExtras
      BY <1>5, ExtrasTyped DEF Pushes, Fails
    <2>2. state' \in [Numbers -> {"none", "open", "closed"}]
      BY <1>5 DEF Pushes
    <2> QED BY <1>5, <2>1, <2>2 DEF Pushes, issueVars
  <1> QED BY <1>1, <1>2, <1>3, <1>4, <1>5 DEF Begins

LEMMA StoreFrees ==
  ASSUME StoreTyped, NEW w \in Passes, NEW i \in Issues, Frees(w, i)
  PROVE  StoreTyped'
  <1>1. extras' \in 0..MaxExtras
    BY ExtrasTyped DEF Frees, StoreTyped
  <1>2. labels' \in [Issues -> SUBSET Labels]
    BY DEF Frees, StoreTyped
  <1> QED BY <1>1, <1>2 DEF Frees, StoreTyped

LEMMA StoreUnblocks ==
  ASSUME StoreTyped, NEW w \in Passes, Unblocks(w)
  PROVE  StoreTyped'
  <1>1. extras' \in 0..MaxExtras
    BY ExtrasTyped DEF Unblocks, StoreTyped
  <1>2. labels' \in [Issues -> SUBSET Labels]
    <2>1. PICK c : c = First(pass[w].cands)
      OBVIOUS
    <2>2. PICK gone : labels' = [labels EXCEPT ![c] = @ \ gone]
      BY <2>1 DEF Unblocks
    <2> QED BY <2>2 DEF StoreTyped
  <1> QED BY <1>1, <1>2 DEF Unblocks, StoreTyped

LEMMA StoreReadies ==
  ASSUME StoreTyped, NEW w \in Passes, PassTyped(pass[w]), Readies(w)
  PROVE  StoreTyped'
  <1>1. PICK q : q = pass[w]
    OBVIOUS
  <1>2. PICK c : c = First(q.cands)
    OBVIOUS
  <1>3. c \in Issues
    <2>1. q.cands \in SUBSET Issues /\ q.cands # {}
      BY <1>1, PassFields DEF Readies, PassTyped
    <2> QED BY <1>2, <2>1, FirstIs
  <1>4. extras' \in 0..MaxExtras
    BY ExtrasTyped DEF Readies, StoreTyped
  <1>5. \/ labels' = labels /\ readied' = readied
        \/ /\ \/ labels' = [labels EXCEPT ![c] = @]
              \/ labels' = [labels EXCEPT ![c] = @ \cup {"ready"}]
           /\ readied' = readied \cup {c}
    BY <1>1, <1>2 DEF Readies
  <1>6. labels' \in [Issues -> SUBSET Labels] /\ readied' \subseteq Issues
    BY <1>3, <1>5 DEF StoreTyped, Labels
  <1> QED BY <1>4, <1>6 DEF Readies, StoreTyped

LEMMA StoreFinishes ==
  ASSUME StoreTyped, NEW w \in Passes, PassTyped(pass[w]), Finishes(w)
  PROVE  StoreTyped'
  <1>1. PICK q : q = pass[w]
    OBVIOUS
  <1>2. DOMAIN q.listing \subseteq Issues /\ q.merged \in PRs \cup {0}
    BY <1>1, PassFields
  <1>3. extras' \in 0..MaxExtras
    BY ExtrasTyped DEF Finishes, StoreTyped
  <1>4. state' \in [Numbers -> {"none", "open", "closed"}]
    BY DEF Finishes, StoreTyped
  <1>5. rechecks' \subseteq PRs \cup {0}
    BY <1>1, <1>2 DEF Finishes, StoreTyped
  <1>6. \A s \in settled' : s.parent \in Issues /\ s.what \in {"closed", "reactivated", "archived"}
    <2>1. PICK closed \in SUBSET DOMAIN q.listing :
            settled' = settled \cup {Outcome(i, "closed", q.listing[i].text) : i \in closed}
      BY <1>1 DEF Finishes
    <2>2. \A i \in closed : Outcome(i, "closed", q.listing[i].text).parent \in Issues
      BY <1>2, <2>1 DEF Outcome
    <2>3. \A i \in closed : Outcome(i, "closed", q.listing[i].text).what = "closed"
      BY DEF Outcome
    <2> QED BY <2>1, <2>2, <2>3 DEF StoreTyped
  <1> QED BY <1>3, <1>4, <1>5, <1>6 DEF Finishes, StoreTyped, issueVars

LEMMA StoreReactivates ==
  ASSUME StoreTyped, NEW w \in Passes, Reactivates(w)
  PROVE  StoreTyped'
  <1>1. extras' \in 0..MaxExtras
    BY ExtrasTyped DEF Reactivates, StoreTyped
  <1>2. \A s \in settled' : s.parent \in Issues /\ s.what \in {"closed", "reactivated", "archived"}
    <2>1. PICK awake \in SUBSET OnPage :
            settled' = settled \cup {Outcome(i, "reactivated", text[i]) : i \in awake}
      BY DEF Reactivates
    <2>2. \A i \in awake : /\ Outcome(i, "reactivated", text[i]).parent \in Issues
                           /\ Outcome(i, "reactivated", text[i]).what = "reactivated"
      BY <2>1 DEF Outcome, OpenIssues, OnPage
    <2> QED BY <2>1, <2>2 DEF StoreTyped
  <1> QED BY <1>1, <1>2 DEF Reactivates, StoreTyped, issueVars

LEMMA StoreArchives ==
  ASSUME StoreTyped, NEW w \in Passes, PassTyped(pass[w]), Archives(w)
  PROVE  StoreTyped'
  <1>1. extras' \in 0..MaxExtras
    BY ExtrasTyped DEF Archives, StoreTyped
  <1>2. PICK i : i = Newest(pass[w].todo)
    OBVIOUS
  <1>3. i \in Issues
    BY <1>2, PassFields, NewestIs DEF Archives
  <1>4. settled' \in {settled, settled \cup {Outcome(i, "archived", text[i])}}
    BY <1>2 DEF Archives
  <1>5. /\ Outcome(i, "archived", text[i]).parent \in Issues
        /\ Outcome(i, "archived", text[i]).what = "archived"
    BY <1>3 DEF Outcome
  <1>6. \A s \in settled' : s.parent \in Issues /\ s.what \in {"closed", "reactivated", "archived"}
    BY <1>4, <1>5 DEF StoreTyped
  <1> QED BY <1>1, <1>6 DEF Archives, StoreTyped, issueVars

LEMMA StoreRest ==
  ASSUME StoreTyped, NEW w \in Passes, Freed(w) \/ Lists(w) \/ Scans(w) \/ Scanned(w) \/ Archived(w)
  PROVE  StoreTyped'
  <1>1. UNCHANGED <<state, text, native, labels, making, told, rechecks, said, readied, settled>>
    BY DEF Freed, Lists, Scans, Scanned, Archived, issueVars
  <1>2. extras' \in 0..MaxExtras
    <2>1. CASE Freed(w) \/ Scanned(w) \/ Archived(w)
      BY <2>1 DEF Freed, Scanned, Archived, StoreTyped
    <2>2. CASE Lists(w)
      BY <2>2, ExtrasTyped DEF Lists, StoreTyped
    <2>3. CASE Scans(w)
      BY <2>3, ExtrasTyped DEF Scans, StoreTyped
    <2> QED BY <2>1, <2>2, <2>3
  <1> QED BY <1>1, <1>2 DEF StoreTyped

LEMMA StoreStep ==
  ASSUME TypeOK, [Next]_vars
  PROVE  StoreTyped'
  <1>1. StoreTyped /\ \A w \in Passes : PassTyped(pass[w])
    BY DEF TypeOK
  <1>2. CASE UNCHANGED vars
    BY <1>1, <1>2 DEF vars, issueVars, StoreTyped
  <1>3. CASE Others
    BY <1>1, <1>3, StoreOthers
  <1>4. ASSUME NEW w \in Passes, Begins(w) PROVE StoreTyped'
    BY <1>1, <1>4, StoreBegins
  <1>5. ASSUME NEW w \in Passes, PassStep(w) PROVE StoreTyped'
    BY <1>1, <1>5, StoreFrees, StoreUnblocks, StoreReadies, StoreFinishes, StoreReactivates,
       StoreArchives, StoreRest DEF PassStep
  <1> QED BY <1>2, <1>3, <1>4, <1>5 DEF Next

-----------------------------------------------------------------------------
(* What is recorded of parents was so, and stays so.                       *)
LEMMA OutcomeStays ==
  ASSUME ParentsSettled, Forward, settled' = settled
  PROVE  ParentsSettled'
  BY DEF ParentsSettled, Forward, Numbers

(* What a pass has seen settled when it records it.                        *)
LEMMA OutcomeNew ==
  ASSUME ParentsSettled, Forward,
         \A s \in settled' \ settled :
           s.children # {} /\ \A d \in s.children \cap PRs : state[d] = "closed"
  PROVE  ParentsSettled'
  BY DEF ParentsSettled, Forward, Numbers

LEMMA ParentsStep ==
  ASSUME CInv, [Next]_vars, Forward
  PROVE  ParentsSettled'
  <1>1. ParentsSettled /\ StoreTyped /\ \A w \in Passes : PassTyped(pass[w]) /\ PassOK(pass[w])
    BY DEF CInv, TypeOK
  <1>2. CASE UNCHANGED vars
    BY <1>1, <1>2, OutcomeStays DEF vars
  <1>3. CASE Others
    <2>1. settled' = settled
      BY <1>3 DEF Others, Opens, Closes, Claims, AutoBlocks, Appends, Posts, MarksBlocked, Relabels, Crashes
    <2> QED BY <1>1, <2>1, OutcomeStays
  <1>4. ASSUME NEW w \in Passes, Begins(w) PROVE ParentsSettled'
    <2>1. settled' = settled
      BY <1>4 DEF Begins, Links, Hears, Rechecks, Reconciles, Pushes
    <2> QED BY <1>1, <2>1, OutcomeStays
  <1>5. ASSUME NEW w \in Passes, Finishes(w) PROVE ParentsSettled'
    <2>1. PICK q : q = pass[w]
      OBVIOUS
    <2>2. PICK closed \in SUBSET DOMAIN q.listing :
            /\ \A i \in closed : Complete(q.listing[i].text, q.merged)
            /\ settled' = settled \cup {Outcome(i, "closed", q.listing[i].text) : i \in closed}
      BY <1>5, <2>1 DEF Finishes
    <2>3. q.merged \in PRs => state[q.merged] = "closed"
      BY <1>1, <2>1 DEF PassOK
    <2>4. ASSUME NEW i \in closed
          PROVE  /\ q.listing[i].text # {}
                 /\ \A d \in q.listing[i].text \cap PRs : state[d] = "closed"
      BY <2>2, <2>3, CascadeAssumption DEF Complete, Settled
    <2>5. \A i \in closed : Outcome(i, "closed", q.listing[i].text).children = q.listing[i].text
      BY DEF Outcome
    <2> QED BY <1>1, <2>2, <2>4, <2>5, OutcomeNew
  <1>6. ASSUME NEW w \in Passes, Reactivates(w) PROVE ParentsSettled'
    <2>1. PICK awake \in SUBSET OnPage :
            /\ \A i \in awake : AllSettled(text[i])
            /\ settled' = settled \cup {Outcome(i, "reactivated", text[i]) : i \in awake}
      BY <1>6 DEF Reactivates
    <2>2. \A i \in awake : text[i] \in SUBSET Numbers
      BY <1>1, <2>1 DEF StoreTyped, OpenIssues, OnPage
    <2>3. \A i \in awake : text[i] # {} /\ \A d \in text[i] \cap PRs : state[d] = "closed"
      BY <2>1, <2>2, SettledClosed
    <2>4. \A i \in awake : Outcome(i, "reactivated", text[i]).children = text[i]
      BY DEF Outcome
    <2> QED BY <1>1, <2>1, <2>3, <2>4, OutcomeNew
  <1>7. ASSUME NEW w \in Passes, Archives(w) PROVE ParentsSettled'
    <2>1. PICK i : i = Newest(pass[w].todo)
      OBVIOUS
    <2>2. i \in Issues
      BY <1>1, <1>7, <2>1, PassFields, NewestIs DEF Archives
    <2>3. \/ settled' = settled
          \/ AllSettled(text[i]) /\ settled' = settled \cup {Outcome(i, "archived", text[i])}
      BY <1>7, <2>1 DEF Archives
    <2>4. AllSettled(text[i]) => text[i] # {} /\ \A d \in text[i] \cap PRs : state[d] = "closed"
      BY <1>1, <2>2, SettledClosed DEF StoreTyped
    <2>5. Outcome(i, "archived", text[i]).children = text[i]
      BY DEF Outcome
    <2> QED BY <1>1, <2>3, <2>4, <2>5, OutcomeNew
  <1>8. ASSUME NEW w \in Passes, PassStep(w), ~Finishes(w), ~Reactivates(w), ~Archives(w)
        PROVE  ParentsSettled'
    <2>1. settled' = settled
      BY <1>8 DEF PassStep, Frees, Freed, Lists, Scans, Scanned, Unblocks, Readies, Archived
    <2> QED BY <1>1, <2>1, OutcomeStays
  <1> QED BY <1>2, <1>3, <1>4, <1>5, <1>6, <1>7, <1>8 DEF Next

-----------------------------------------------------------------------------
(* The repository beside the passes.                                       *)
LEMMA NativeStays ==
  ASSUME StoreTyped, StoreTyped', RepositoryOK, Forward, native' = native
  PROVE  \A i \in Issues : native'[i] # {} => AllSettled(native[i])'
  <1>1. SUFFICES ASSUME NEW i \in Issues, native'[i] # {} PROVE AllSettled(native[i])'
    OBVIOUS
  <1>2. PICK D : D = native[i]
    OBVIOUS
  <1>3. D \in SUBSET Numbers /\ AllSettled(D)
    BY <1>1, <1>2 DEF StoreTyped, RepositoryOK, Numbers
  <1>4. AllSettled(D)'
    BY <1>3, SettledStays
  <1>5. D = native'[i]
    BY <1>2
  <1> QED BY <1>4, <1>5

LEMMA RepositoryStep ==
  ASSUME CInv, [Next]_vars, Forward, StoreTyped'
  PROVE  RepositoryOK'
  <1>1. /\ RepositoryOK /\ StoreTyped
        /\ \A w \in Passes : PassTyped(pass[w]) /\ PassOK(pass[w])
    BY DEF CInv, TypeOK
  <1>2. \A i \in Existing : state'[i] # "none"
    BY <1>1 DEF RepositoryOK, Forward, Existing, Numbers
  <1>3. \A p \in rechecks' \cap PRs : state'[p] = "closed"
    <2>1. CASE rechecks' \subseteq rechecks
      BY <1>1, <2>1 DEF RepositoryOK, Forward, Numbers
    <2>2. ASSUME NEW w \in Passes, Finishes(w)
          PROVE  \A p \in rechecks' \cap PRs : state'[p] = "closed"
      <3>1. rechecks' \subseteq rechecks \cup {pass[w].merged}
        BY <2>2 DEF Finishes
      <3>2. pass[w].merged \in PRs => state[pass[w].merged] = "closed"
        BY <1>1 DEF PassOK
      <3> QED BY <1>1, <3>1, <3>2 DEF RepositoryOK, Forward, Numbers
    <2>3. ASSUME NEW w \in Passes, PassStep(w), ~Finishes(w) PROVE rechecks' = rechecks
      BY <2>3, PassQuiet
    <2>4. ASSUME NEW w \in Passes, Begins(w) PROVE rechecks' \subseteq rechecks
      BY <2>4 DEF Begins, Links, Hears, Rechecks, Reconciles, Pushes
    <2>5. ASSUME Others PROVE rechecks' \subseteq rechecks
      BY <2>5 DEF Others, Opens, Closes, Claims, AutoBlocks, Appends, Posts, MarksBlocked, Relabels, Crashes
    <2>6. CASE UNCHANGED vars
      BY <2>1, <2>6 DEF vars
    <2> QED BY <2>1, <2>2, <2>3, <2>4, <2>5, <2>6 DEF Next
  <1>4. CASE UNCHANGED <<text, native, said>>
    <2>1. \A i \in Issues : {{}, text'[i], native'[i]} \subseteq said'[i]
      BY <1>1, <1>4 DEF RepositoryOK
    <2>2. \A i \in Issues : native'[i] # {} => AllSettled(native[i])'
      BY <1>1, <1>4, NativeStays
    <2> QED BY <1>2, <1>3, <2>1, <2>2 DEF RepositoryOK
  <1>5. ASSUME NEW j \in Issues, Appends(j) PROVE RepositoryOK'
    <2>1. native' = native /\ said' = [said EXCEPT ![j] = @ \cup {text'[j]}]
      BY <1>5 DEF Appends
    <2>2. \A i \in Issues : i # j => text'[i] = text[i]
      BY <1>1, <1>5 DEF Appends, StoreTyped
    <2>3. \A i \in Issues : {{}, text'[i], native'[i]} \subseteq said'[i]
      BY <1>1, <2>1, <2>2 DEF RepositoryOK, StoreTyped
    <2>4. \A i \in Issues : native'[i] # {} => AllSettled(native[i])'
      BY <1>1, <2>1, NativeStays
    <2> QED BY <1>2, <1>3, <2>3, <2>4 DEF RepositoryOK
  <1>6. ASSUME NEW w \in Passes, NEW j \in SubIssues, Links(j, w) PROVE RepositoryOK'
    <2>1. j \in Issues /\ Parent[j] \in Existing /\ Existing \subseteq Issues
      BY CascadeAssumption DEF Existing
    <2>2. /\ text' = text /\ state' = state /\ said' = [said EXCEPT ![j] = @ \cup {native'[j]}]
          /\ native' = native \/ native' = [native EXCEPT ![j] = @ \cup {Parent[j]}]
      BY <1>6 DEF Links
    <2>3. \A i \in Issues : i # j => native'[i] = native[i]
      BY <1>1, <2>2 DEF StoreTyped
    <2>4. \A i \in Issues : {{}, text'[i], native'[i]} \subseteq said'[i]
      BY <1>1, <2>1, <2>2, <2>3 DEF RepositoryOK, StoreTyped
    <2>5. Settled(Parent[j])'
      <3>1. state'[Parent[j]] \in {"none", "open", "closed"}
        BY <1>1, <2>1, <2>2 DEF StoreTyped, Numbers
      <3> QED BY <1>2, <2>1, <3>1 DEF Settled
    <2>6. \A d : Settled(d) => Settled(d)'
      BY <2>2 DEF Settled
    <2>7. ASSUME NEW i \in Issues, native'[i] # {} PROVE AllSettled(native[i])'
      <3>1. native[i] # {} => AllSettled(native[i])
        BY <1>1 DEF RepositoryOK
      <3>2. native'[i] \subseteq native[i] \cup {Parent[j]}
        BY <1>1, <2>1, <2>2 DEF StoreTyped
      <3>3. \A d \in native'[i] : Settled(d)' \/ (native'[i] # native[i] /\ i # j)
        BY <2>3, <2>5, <2>6, <3>1, <3>2 DEF AllSettled
      <3> QED BY <2>3, <2>7, <3>3 DEF AllSettled
    <2> QED BY <1>2, <1>3, <2>4, <2>7 DEF RepositoryOK
  <1>7. ASSUME NEW w \in Passes, Begins(w) PROVE RepositoryOK'
    <2>1. (\E p \in PRs : Hears(w, p)) \/ (\E p \in PRs \cup {0} : Rechecks(w, p)) \/ Reconciles(w) \/ Pushes(w)
          => UNCHANGED <<text, native, said>>
      BY DEF Hears, Rechecks, Reconciles, Pushes, issueVars
    <2> QED BY <1>4, <1>6, <1>7, <2>1 DEF Begins
  <1>8. ASSUME NEW w \in Passes, PassStep(w) PROVE RepositoryOK'
    <2>1. CASE Finishes(w)
      BY <1>4, <2>1 DEF Finishes, issueVars
    <2> QED BY <1>4, <1>8, <2>1, PassQuiet
  <1>9. CASE Others
    <2>1. ASSUME ~(\E i \in Issues : Appends(i)) PROVE UNCHANGED <<text, native, said>>
      BY <1>9, <2>1 DEF Others, Opens, Closes, Claims, AutoBlocks, Posts, MarksBlocked, Relabels, Crashes, issueVars
    <2> QED BY <1>4, <1>5, <1>9, <2>1
  <1>10. CASE UNCHANGED vars
    BY <1>4, <1>10 DEF vars, issueVars
  <1> QED BY <1>7, <1>8, <1>9, <1>10 DEF Next

-----------------------------------------------------------------------------
(* The passes. It is enough that what an action makes of the pass it moves *)
(* was right before the step: no step takes it back.                       *)
PassesOK ==
  DOMAIN pass = Passes /\ \A w \in Passes : PassTyped(pass[w]) /\ PassOK(pass[w])

LEMMA PassesStay ==
  ASSUME PassesOK, StoreTyped, StoreTyped', Forward,
         DOMAIN pass' = Passes,
         \A w \in Passes : pass'[w] = pass[w] \/ (PassTyped(pass'[w]) /\ PassOK(pass'[w]))
  PROVE  PassesOK'
  <1>1. ASSUME NEW w \in Passes PROVE PassTyped(pass'[w]) /\ PassOK(pass[w])'
    <2>1. PICK q : q = pass'[w]
      OBVIOUS
    <2>2. PassTyped(q) /\ PassOK(q)
      BY <2>1 DEF PassesOK
    <2>3. PassOK(q)'
      BY <2>2, PassStays
    <2> QED BY <2>1, <2>2, <2>3
  <1> QED BY <1>1 DEF PassesOK

LEMMA PassMoves ==
  ASSUME PassesOK, StoreTyped, StoreTyped', Forward,
         NEW v \in Passes, NEW q, pass' = [pass EXCEPT ![v] = q],
         PassTyped(q), PassOK(q)
  PROVE  PassesOK'
  <1>1. DOMAIN pass' = Passes /\ \A w \in Passes : pass'[w] = pass[w] \/ pass'[w] = q
    BY DEF PassesOK
  <1>2. \A w \in Passes : pass'[w] = pass[w] \/ (PassTyped(pass'[w]) /\ PassOK(pass'[w]))
    BY <1>1, Zenon
  <1> QED BY <1>1, <1>2, PassesStay

LEMMA PassesOthers ==
  ASSUME PassesOK, StoreTyped, StoreTyped', Forward, Others
  PROVE  PassesOK'
  <1>1. CASE Crashes
    <2>1. PassTyped(Idle) /\ PassOK(Idle)
      BY IdleFresh, FreshTyped, FreshOK, NumberFacts DEF Numbers
    <2>2. pass' = [w \in Passes |-> Idle]
      BY <1>1 DEF Crashes
    <2> QED BY <2>1, <2>2, PassesStay
  <1>2. CASE pass' = pass
    BY <1>2, PassesStay DEF PassesOK
  <1>3. ~Crashes => pass' = pass
    BY DEF Others, Opens, Closes, Claims, AutoBlocks, Appends, Posts, MarksBlocked, Relabels
  <1> QED BY <1>1, <1>2, <1>3

LEMMA PassesBegin ==
  ASSUME PassesOK, RepositoryOK, StoreTyped, StoreTyped', Forward, NEW v \in Passes, Begins(v)
  PROVE  PassesOK'
  <1>1. 0 \notin PRs
    BY NumberFacts DEF Numbers
  <1>2. ASSUME NEW e \in BOOLEAN, NEW m \in PRs \cup {0}, m \in PRs => state[m] = "closed",
               pass' = [pass EXCEPT ![v] = Begun(e, m)]
        PROVE  PassesOK'
    <2>1. PassTyped(Begun(e, m)) /\ PassOK(Begun(e, m))
      BY <1>2, BegunFresh, FreshTyped, FreshOK
    <2> QED BY <1>2, <2>1, PassMoves
  <1>3. ASSUME NEW i \in SubIssues, Links(i, v) PROVE PassesOK'
    BY <1>1, <1>2, <1>3 DEF Links
  <1>4. ASSUME NEW p \in PRs, Hears(v, p) PROVE PassesOK'
    BY <1>2, <1>4 DEF Hears
  <1>5. ASSUME NEW p \in PRs \cup {0}, Rechecks(v, p) PROVE PassesOK'
    <2>1. p \in PRs => state[p] = "closed"
      BY <1>5 DEF Rechecks, RepositoryOK
    <2> QED BY <1>2, <1>5, <2>1 DEF Rechecks
  <1>6. CASE Reconciles(v)
    BY <1>1, <1>2, <1>6 DEF Reconciles
  <1>7. CASE Pushes(v)
    <2>1. PICK b : b = Begun(FALSE, 0)
      OBVIOUS
    <2>2. PICK a \in {"list", "push"}, T \in SUBSET Issues :
            pass' = [pass EXCEPT ![v] = [b EXCEPT !.at = a, !.todo = T]]
      <3>1. PICK closed :
              pass' = [pass EXCEPT ![v] =
                [b EXCEPT
                   !.at = IF closed = {} THEN "list" ELSE "push",
                   !.todo = IF closed = {} THEN {}
                            ELSE {i \in OnPage \ Scaffolds : "blocked" \in labels[i]}]]
        BY <1>7, <2>1 DEF Pushes
      <3>2. PICK T : T = IF closed = {} THEN {} ELSE {i \in OnPage \ Scaffolds : "blocked" \in labels[i]}
        OBVIOUS
      <3>3. PICK a : a = IF closed = {} THEN "list" ELSE "push"
        OBVIOUS
      <3>4. pass' = [pass EXCEPT ![v] = [b EXCEPT !.at = a, !.todo = T]]
        BY <3>1, <3>2, <3>3
      <3>5. T \in SUBSET Issues /\ a \in {"list", "push"}
        BY <3>2, <3>3 DEF OpenIssues, OnPage
      <3> QED BY <3>4, <3>5
    <2>3. PICK q : q = [b EXCEPT !.at = a, !.todo = T]
      OBVIOUS
    <2>4. PICK l : l = b.listing
      OBVIOUS
    <2>5. b \in Locals(l) /\ DOMAIN l = {} /\ l \in [{} -> Listed] /\ b.cands = {} /\ b.due = {} /\ b.merged = 0
      BY <2>1, <2>4, BegunFresh DEF Fresh
    <2>6. q \in Locals(l) /\ q.listing = l /\ q.cands = {} /\ q.due = {} /\ q.merged = 0 /\ q.at = a
      BY <2>3, <2>5 DEF Locals
    <2>7. Fresh(q)
      BY <2>5, <2>6 DEF Fresh
    <2>8. PassTyped(q) /\ PassOK(q)
      BY <1>1, <2>6, <2>7, FreshTyped, FreshOK
    <2> QED BY <2>2, <2>3, <2>8, PassMoves
  <1> QED BY <1>3, <1>4, <1>5, <1>6, <1>7 DEF Begins

(* The steps of a pass.                                                    *)
LEMMA FreesPass ==
  ASSUME PassesOK, NEW w \in Passes, NEW i, Frees(w, i)
  PROVE  \E q : pass' = [pass EXCEPT ![w] = q] /\ PassTyped(q) /\ PassOK(q)
  <1>1. PICK p : p = pass[w]
    OBVIOUS
  <1>2. PICK q : q = [p EXCEPT !.todo = p.todo \ {i}]
    OBVIOUS
  <1>3. pass' = [pass EXCEPT ![w] = q]
    BY <1>1, <1>2, Zenon DEF Frees
  <1>4. PICK l : l = p.listing
    OBVIOUS
  <1>5. PassTyped(p) /\ PassOK(p) /\ p.at = "push" /\ p \in Locals(l)
    BY <1>1, <1>4 DEF PassesOK, PassTyped, Frees
  <1>6. /\ q \in Locals(l) /\ q.listing = l /\ q.cands = p.cands /\ q.due = p.due
        /\ q.merged = p.merged /\ q.at = "push"
    BY <1>2, <1>5 DEF Locals
  <1>7. PassTyped(q)
    BY <1>4, <1>5, <1>6 DEF PassTyped
  <1>8. PassOK(q)
    BY <1>4, <1>5, <1>6 DEF PassOK
  <1> QED BY <1>3, <1>7, <1>8

LEMMA FreedPass ==
  ASSUME PassesOK, NEW w \in Passes, Freed(w)
  PROVE  \E q : pass' = [pass EXCEPT ![w] = q] /\ PassTyped(q) /\ PassOK(q)
  <1>1. PICK p : p = pass[w]
    OBVIOUS
  <1>2. PICK q : q = [p EXCEPT !.at = "list"]
    OBVIOUS
  <1>3. pass' = [pass EXCEPT ![w] = q]
    BY <1>1, <1>2, Zenon DEF Freed
  <1>4. PICK l : l = p.listing
    OBVIOUS
  <1>5. PassTyped(p) /\ PassOK(p) /\ p.at = "push" /\ p \in Locals(l)
    BY <1>1, <1>4 DEF PassesOK, PassTyped, Freed
  <1>6. /\ q \in Locals(l) /\ q.listing = l /\ q.cands = p.cands /\ q.due = p.due
        /\ q.merged = p.merged /\ q.at = "list"
    BY <1>2, <1>5 DEF Locals
  <1>7. PassTyped(q)
    BY <1>4, <1>5, <1>6 DEF PassTyped
  <1>8. PassOK(q)
    BY <1>4, <1>5, <1>6 DEF PassOK
  <1> QED BY <1>3, <1>7, <1>8

(* A pass that is over, or that goes on to the events of its results.      *)
LEMMA AfterPassOK ==
  ASSUME NEW p, PassTyped(p), PassOK(p)
  PROVE  PassTyped(AfterPass(p)) /\ PassOK(AfterPass(p))
  <1>1. CASE ~p.event
    <2>1. AfterPass(p) = Idle
      BY <1>1 DEF AfterPass
    <2>2. PassTyped(Idle) /\ PassOK(Idle)
      BY IdleFresh, FreshTyped, FreshOK, NumberFacts DEF Numbers
    <2> QED BY <2>1, <2>2, Zenon
  <1>2. CASE p.event
    <2>1. PICK b : b = Idle
      OBVIOUS
    <2>2. PICK m \in PRs \cup {0} : m = p.merged
      BY PassFields
    <2>3. PICK q : q = [b EXCEPT !.at = "reactivate", !.merged = m]
      OBVIOUS
    <2>4. AfterPass(p) = q
      BY <1>2, <2>1, <2>2, <2>3 DEF AfterPass
    <2>5. PICK l : l = b.listing
      OBVIOUS
    <2>6. b \in Locals(l) /\ DOMAIN l = {} /\ l \in [{} -> Listed] /\ b.cands = {} /\ b.due = {}
      BY <2>1, <2>5, IdleFresh DEF Fresh
    <2>7. /\ q \in Locals(l) /\ q.listing = l /\ q.cands = {} /\ q.due = {}
          /\ q.merged = m /\ q.at = "reactivate"
      BY <2>3, <2>6 DEF Locals
    <2>8. Fresh(q)
      BY <2>6, <2>7 DEF Fresh
    <2>9. q.merged \in PRs => state[q.merged] = "closed"
      BY <2>2, <2>7 DEF PassOK
    <2>10. PassTyped(q) /\ PassOK(q)
      BY <2>8, <2>9, FreshTyped, FreshOK
    <2> QED BY <2>4, <2>10, Zenon
  <1> QED BY <1>1, <1>2

LEMMA SnapshotOK ==
  ASSUME StoreTyped
  PROVE  DOMAIN Snapshot = OnPage /\ OnPage \subseteq Issues /\ Snapshot \in [OnPage -> Listed]
  BY DEF StoreTyped, Snapshot, OpenIssues, OnPage, Listed

LEMMA ListsPass ==
  ASSUME PassesOK, RepositoryOK, StoreTyped, NEW w \in Passes, Lists(w)
  PROVE  \E q : pass' = [pass EXCEPT ![w] = q] /\ PassTyped(q) /\ PassOK(q)
  <1>1. PICK p : p = pass[w]
    OBVIOUS
  <1>2. PassTyped(p) /\ PassOK(p) /\ p.at = "list" /\ p.cands = {} /\ p.due = {}
    BY <1>1 DEF PassesOK, PassOK, Lists
  <1>3. CASE pass' = [pass EXCEPT ![w] = AfterPass(p)]
    BY <1>2, <1>3, AfterPassOK
  <1>4. CASE pass' # [pass EXCEPT ![w] = AfterPass(p)]
    <2>1. PICK s : s = Snapshot
      OBVIOUS
    <2>2. PICK skip : pass' = [pass EXCEPT ![w] = [p EXCEPT
            !.at = "scan", !.listing = s, !.todo = OnPage \ skip,
            !.due = IF p.round = 1 THEN {i \in OnPage \ skip : AllSettled(InForce(i))}
                    ELSE p.due]]
      BY <1>1, <1>4, <2>1 DEF Lists, Step
    <2>3. PICK T : T = OnPage \ skip
      OBVIOUS
    <2>4. PICK D : D = IF p.round = 1 THEN {i \in OnPage \ skip : AllSettled(InForce(i))} ELSE p.due
      OBVIOUS
    <2>5. PICK q : q = [p EXCEPT !.at = "scan", !.listing = s, !.todo = T, !.due = D]
      OBVIOUS
    <2>6. pass' = [pass EXCEPT ![w] = q]
      BY <2>2, <2>3, <2>4, <2>5
    <2>7. /\ DOMAIN s = OnPage /\ OnPage \subseteq Issues /\ s \in [DOMAIN s -> Listed]
          /\ \A i \in DOMAIN s : s[i].text = text[i]
      BY <2>1, SnapshotOK DEF Snapshot
    <2>8. T \in SUBSET Issues /\ T \subseteq DOMAIN s /\ D \subseteq T
      BY <1>2, <2>3, <2>4, <2>7
    <2>9. ASSUME NEW i \in D PROVE native[i] # {} \/ AllSettled(s[i].text)
      <3>1. AllSettled(InForce(i)) /\ i \in DOMAIN s
        BY <1>2, <2>4, <2>7, <2>8
      <3> QED BY <2>7, <3>1 DEF InForce
    <2>10. PICK l : l = p.listing
      OBVIOUS
    <2>11. p \in Locals(l)
      BY <1>2, <2>10 DEF PassTyped
    <2>12. /\ q \in Locals(s) /\ q.listing = s /\ q.cands = {} /\ q.due = D
           /\ q.todo = T /\ q.merged = p.merged /\ q.at = "scan"
      BY <1>2, <2>5, <2>8, <2>11 DEF Locals
    <2>13. PassTyped(q)
      BY <2>7, <2>8, <2>12 DEF PassTyped
    <2>14. Scanning(q)
      BY <2>8, <2>9, <2>12 DEF Scanning
    <2>15. \A i \in DOMAIN s : s[i].text \in said[i]
      BY <2>7 DEF RepositoryOK
    <2>16. PassOK(q)
      BY <1>2, <2>12, <2>14, <2>15 DEF PassOK
    <2> QED BY <2>6, <2>13, <2>16
  <1> QED BY <1>3, <1>4

(* A check that finds an issue free adds a candidate; one that meets a     *)
(* failing call excuses the pass.                                          *)
LEMMA CheckedOK ==
  ASSUME NEW p, PassTyped(p), PassOK(p), p.at = "scan", NEW i \in p.todo, NEW found,
         NEW verdict \in {"free", "held", "error", "exhausted"},
         verdict = "free" => \E D \in said[i] : AllSettled(D),
         found = native[i] /\ verdict = "held" => i \notin p.due
  PROVE  PassTyped(Checked(p, i, found, verdict)) /\ PassOK(Checked(p, i, found, verdict))
  <1>1. PICK T : T = p.todo \ {i}
    OBVIOUS
  <1>2. PICK C : C = IF verdict = "free" THEN p.cands \cup {i} ELSE p.cands
    OBVIOUS
  <1>3. PICK x \in BOOLEAN : x = (p.exhausted \/ verdict = "exhausted")
    OBVIOUS
  <1>4. PICK D : D = IF found = native[i] /\ verdict \in {"free", "held"} THEN p.due ELSE {}
    OBVIOUS
  <1>5. PICK q : q = [p EXCEPT !.todo = T, !.cands = C, !.exhausted = x, !.due = D]
    OBVIOUS
  <1>6. Checked(p, i, found, verdict) = q
    BY <1>1, <1>2, <1>3, <1>4, <1>5 DEF Checked
  <1>7. PICK l : l = p.listing
    OBVIOUS
  <1>8. p \in Locals(l) /\ p.cands \subseteq DOMAIN l /\ p.todo \subseteq DOMAIN l /\ Scanning(p)
    BY <1>7 DEF PassTyped, PassOK
  <1>9. p.todo \in SUBSET Issues /\ p.cands \in SUBSET Issues /\ p.due \in SUBSET Issues
    BY PassFields
  <1>10. T \in SUBSET Issues /\ C \in SUBSET Issues /\ D \in SUBSET Issues
    BY <1>1, <1>2, <1>4, <1>9
  <1>11. /\ q \in Locals(l) /\ q.listing = l /\ q.at = "scan" /\ q.todo = T /\ q.cands = C
         /\ q.due = D /\ q.merged = p.merged
    BY <1>5, <1>8, <1>10 DEF Locals
  <1>12. C \subseteq DOMAIN l /\ T \subseteq DOMAIN l
    BY <1>1, <1>2, <1>8
  <1>13. PassTyped(q)
    BY <1>7, <1>11, <1>12 DEF PassTyped
  <1>14. D \subseteq T \cup C
    BY <1>1, <1>2, <1>4, <1>8 DEF Scanning
  <1>15. Scanning(q)
    BY <1>1, <1>4, <1>7, <1>8, <1>11, <1>14 DEF Scanning
  <1>16. \A j \in C : \E E \in said[j] : AllSettled(E)
    BY <1>2 DEF PassOK
  <1>17. PassOK(q)
    BY <1>7, <1>11, <1>15, <1>16 DEF PassOK
  <1> QED BY <1>6, <1>13, <1>17, Zenon

LEMMA ScansPass ==
  ASSUME PassesOK, RepositoryOK, NEW w \in Passes, Scans(w)
  PROVE  \E q : pass' = [pass EXCEPT ![w] = q] /\ PassTyped(q) /\ PassOK(q)
  <1>1. PICK p : p = pass[w]
    OBVIOUS
  <1>2. PassTyped(p) /\ PassOK(p) /\ p.at = "scan" /\ p.todo # {}
    BY <1>1 DEF PassesOK, Scans
  <1>3. PICK i : i = Newest(p.todo)
    OBVIOUS
  <1>4. i \in p.todo /\ i \in Issues /\ p.todo \subseteq DOMAIN p.listing
    BY <1>2, <1>3, PassFields, NewestIs DEF PassTyped
  <1>5. PICK t : t = p.listing[i].text
    OBVIOUS
  <1>6. t \in said[i] /\ native[i] \in said[i] /\ (native[i] # {} => AllSettled(native[i]))
    BY <1>2, <1>4, <1>5 DEF PassOK, RepositoryOK
  <1>7. i \in p.due => native[i] # {} \/ AllSettled(t)
    BY <1>2, <1>4, <1>5 DEF PassOK, Scanning
  <1>8. PICK found, verdict :
          /\ pass' = [pass EXCEPT ![w] = Checked(p, i, found, verdict)]
          /\ \/ found = native[i] /\ verdict = Verdict(IF native[i] # {} THEN native[i] ELSE t)
             \/ found = {} /\ verdict = Verdict(t)
             \/ verdict \in {"error", "exhausted"}
    BY <1>1, <1>3, <1>5 DEF Scans, Step, Failure
  <1>9. verdict \in {"free", "held", "error", "exhausted"}
    BY <1>8 DEF Verdict
  <1>10. verdict = "free" => \E D \in said[i] : AllSettled(D)
    BY <1>6, <1>8 DEF Verdict
  <1>11. found = native[i] /\ verdict = "held" => i \notin p.due
    BY <1>6, <1>7, <1>8 DEF Verdict
  <1> QED BY <1>2, <1>4, <1>8, <1>9, <1>10, <1>11, CheckedOK

LEMMA ScannedPass ==
  ASSUME PassesOK, NEW w \in Passes, Scanned(w)
  PROVE  \E q : pass' = [pass EXCEPT ![w] = q] /\ PassTyped(q) /\ PassOK(q)
  <1>1. PICK p : p = pass[w]
    OBVIOUS
  <1>2. PICK a \in {"finish", "unblock"} : a = IF p.cands = {} THEN "finish" ELSE "unblock"
    OBVIOUS
  <1>3. PICK q : q = [p EXCEPT !.at = a]
    OBVIOUS
  <1>4. pass' = [pass EXCEPT ![w] = q]
    BY <1>1, <1>2, <1>3 DEF Scanned, Step
  <1>5. PICK l : l = p.listing
    OBVIOUS
  <1>6. /\ PassTyped(p) /\ PassOK(p) /\ p.at = "scan" /\ p.todo = {} /\ p \in Locals(l)
        /\ p.due \subseteq p.cands
    BY <1>1, <1>5 DEF PassesOK, PassOK, PassTyped, Scanned, Scanning
  <1>7. /\ q \in Locals(l) /\ q.listing = l /\ q.cands = p.cands /\ q.due = p.due
        /\ q.merged = p.merged /\ q.at = a
    BY <1>3, <1>6 DEF Locals
  <1>8. PassTyped(q)
    BY <1>2, <1>5, <1>6, <1>7 DEF PassTyped
  <1>9. PassOK(q)
    BY <1>2, <1>5, <1>6, <1>7 DEF PassOK
  <1> QED BY <1>4, <1>8, <1>9

LEMMA UnblocksPass ==
  ASSUME PassesOK, NEW w \in Passes, Unblocks(w)
  PROVE  \E q : pass' = [pass EXCEPT ![w] = q] /\ PassTyped(q) /\ PassOK(q)
  <1>1. PICK p : p = pass[w]
    OBVIOUS
  <1>2. PICK D : D \in {p.due, {}} /\ pass' = [pass EXCEPT ![w] = [p EXCEPT !.at = "ready", !.due = D]]
    <2>1. PICK gone, stale : pass' = [pass EXCEPT ![w] = [p EXCEPT !.at = "ready",
                                        !.due = IF gone = stale THEN p.due ELSE {}]]
      BY <1>1 DEF Unblocks, Step
    <2> QED BY <2>1
  <1>3. PICK q : q = [p EXCEPT !.at = "ready", !.due = D]
    OBVIOUS
  <1>4. PICK l : l = p.listing
    OBVIOUS
  <1>5. /\ PassTyped(p) /\ PassOK(p) /\ p.at = "unblock" /\ p \in Locals(l) /\ p.cands # {}
        /\ p.due \subseteq p.cands
    BY <1>1, <1>4 DEF PassesOK, PassOK, PassTyped, Unblocks
  <1>6. D \in SUBSET Issues /\ D \subseteq p.cands
    BY <1>2, <1>5, PassFields
  <1>7. /\ q \in Locals(l) /\ q.listing = l /\ q.cands = p.cands /\ q.due = D
        /\ q.merged = p.merged /\ q.at = "ready"
    BY <1>3, <1>5, <1>6 DEF Locals
  <1>8. PassTyped(q)
    BY <1>4, <1>5, <1>7 DEF PassTyped
  <1>9. PassOK(q)
    BY <1>4, <1>5, <1>6, <1>7 DEF PassOK
  <1> QED BY <1>2, <1>3, <1>8, <1>9

LEMMA ReadiesPass ==
  ASSUME PassesOK, NEW w \in Passes, Readies(w)
  PROVE  \E q : pass' = [pass EXCEPT ![w] = q] /\ PassTyped(q) /\ PassOK(q)
  <1>1. PICK p : p = pass[w]
    OBVIOUS
  <1>2. PICK c : c = First(p.cands)
    OBVIOUS
  <1>3. PICK l : l = p.listing
    OBVIOUS
  <1>4. /\ PassTyped(p) /\ PassOK(p) /\ p.at = "ready" /\ p \in Locals(l) /\ p.cands # {}
        /\ p.due \subseteq p.cands /\ p.cands \subseteq DOMAIN l
    BY <1>1, <1>3 DEF PassesOK, PassOK, PassTyped, Readies
  <1>5. PICK C : C = p.cands \ {c}
    OBVIOUS
  <1>6. PICK a : a = IF p.cands # {c} THEN "unblock"
                     ELSE IF RoundsLeft(p) THEN "list" ELSE "finish"
    OBVIOUS
  <1>7. PICK n : n = IF p.cands = {c} /\ RoundsLeft(p) THEN p.round + 1 ELSE p.round
    OBVIOUS
  <1>8. PICK D : /\ D \subseteq p.due \ {c}
                 /\ pass' = [pass EXCEPT ![w] =
                      [p EXCEPT !.cands = C, !.due = D, !.at = a, !.round = n]]
    <2>1. PICK h : h = [p EXCEPT !.cands = C, !.due = p.due \ {c}, !.at = a, !.round = n]
      OBVIOUS
    <2>2. \/ pass' = [pass EXCEPT ![w] = h]
          \/ pass' = [pass EXCEPT ![w] = [h EXCEPT !.due = {}]]
      BY <1>1, <1>2, <1>5, <1>6, <1>7, <2>1 DEF Readies, Step
    <2>3. [h EXCEPT !.due = {}] = [p EXCEPT !.cands = C, !.due = {}, !.at = a, !.round = n]
      BY <1>4, <2>1 DEF Locals
    <2> QED BY <2>1, <2>2, <2>3
  <1>9. PICK q : q = [p EXCEPT !.cands = C, !.due = D, !.at = a, !.round = n]
    OBVIOUS
  <1>10. n \in 0..MaxRounds
    BY <1>4, <1>7, PassFields, NumberFacts DEF RoundsLeft
  <1>11. C \in SUBSET Issues /\ D \in SUBSET Issues /\ C \subseteq DOMAIN l /\ D \subseteq C
    BY <1>4, <1>5, <1>8, PassFields
  <1>12. a \in {"unblock", "list", "finish"} /\ (a = "unblock" => C # {}) /\ (a # "unblock" => C = {})
    BY <1>4, <1>5, <1>6
  <1>13. /\ q \in Locals(l) /\ q.listing = l /\ q.cands = C /\ q.due = D
         /\ q.merged = p.merged /\ q.at = a
    BY <1>4, <1>9, <1>10, <1>11, <1>12 DEF Locals
  <1>14. PassTyped(q)
    BY <1>3, <1>4, <1>11, <1>12, <1>13 DEF PassTyped
  <1>15. PassOK(q)
    BY <1>3, <1>4, <1>5, <1>11, <1>12, <1>13 DEF PassOK
  <1> QED BY <1>8, <1>9, <1>14, <1>15

LEMMA FinishesPass ==
  ASSUME PassesOK, NEW w \in Passes, Finishes(w)
  PROVE  \E q : pass' = [pass EXCEPT ![w] = q] /\ PassTyped(q) /\ PassOK(q)
  <1>1. PICK p : p = pass[w]
    OBVIOUS
  <1>2. PassTyped(p) /\ PassOK(p)
    BY <1>1 DEF PassesOK
  <1>3. pass' = [pass EXCEPT ![w] = AfterPass(p)]
    BY <1>1 DEF Finishes, Step
  <1> QED BY <1>2, <1>3, AfterPassOK

LEMMA ReactivatesPass ==
  ASSUME PassesOK, NEW w \in Passes, Reactivates(w)
  PROVE  \E q : pass' = [pass EXCEPT ![w] = q] /\ PassTyped(q) /\ PassOK(q)
  <1>1. PICK p : p = pass[w]
    OBVIOUS
  <1>2. PICK T \in SUBSET Issues : pass' = [pass EXCEPT ![w] = [p EXCEPT !.at = "archive", !.todo = T]]
    BY <1>1, CascadeAssumption DEF Reactivates, Step, OpenIssues, OnPage
  <1>3. PICK q : q = [p EXCEPT !.at = "archive", !.todo = T]
    OBVIOUS
  <1>4. PICK l : l = p.listing
    OBVIOUS
  <1>5. PassTyped(p) /\ PassOK(p) /\ p.at = "reactivate" /\ p \in Locals(l)
    BY <1>1, <1>4 DEF PassesOK, PassTyped, Reactivates
  <1>6. /\ q \in Locals(l) /\ q.listing = l /\ q.cands = p.cands /\ q.due = p.due
        /\ q.merged = p.merged /\ q.at = "archive"
    BY <1>3, <1>5 DEF Locals
  <1>7. PassTyped(q)
    BY <1>4, <1>5, <1>6 DEF PassTyped
  <1>8. PassOK(q)
    BY <1>4, <1>5, <1>6 DEF PassOK
  <1> QED BY <1>2, <1>3, <1>7, <1>8

LEMMA ArchivesPass ==
  ASSUME PassesOK, NEW w \in Passes, Archives(w)
  PROVE  \E q : pass' = [pass EXCEPT ![w] = q] /\ PassTyped(q) /\ PassOK(q)
  <1>1. PICK p : p = pass[w]
    OBVIOUS
  <1>2. PICK i : i = Newest(p.todo)
    OBVIOUS
  <1>3. PICK q : q = [p EXCEPT !.todo = p.todo \ {i}]
    OBVIOUS
  <1>4. pass' = [pass EXCEPT ![w] = q]
    BY <1>1, <1>2, <1>3 DEF Archives, Step
  <1>5. PICK l : l = p.listing
    OBVIOUS
  <1>6. PassTyped(p) /\ PassOK(p) /\ p.at = "archive" /\ p \in Locals(l)
    BY <1>1, <1>5 DEF PassesOK, PassTyped, Archives
  <1>7. /\ q \in Locals(l) /\ q.listing = l /\ q.cands = p.cands /\ q.due = p.due
        /\ q.merged = p.merged /\ q.at = "archive"
    BY <1>3, <1>6 DEF Locals
  <1>8. PassTyped(q)
    BY <1>5, <1>6, <1>7 DEF PassTyped
  <1>9. PassOK(q)
    BY <1>5, <1>6, <1>7 DEF PassOK
  <1> QED BY <1>4, <1>8, <1>9

LEMMA ArchivedPass ==
  ASSUME PassesOK, NEW w \in Passes, Archived(w)
  PROVE  \E q : pass' = [pass EXCEPT ![w] = q] /\ PassTyped(q) /\ PassOK(q)
  <1>1. pass' = [pass EXCEPT ![w] = Idle]
    BY DEF Archived, Step
  <1>2. PassTyped(Idle) /\ PassOK(Idle)
    BY IdleFresh, FreshTyped, FreshOK, NumberFacts DEF Numbers
  <1> QED BY <1>1, <1>2

LEMMA PassesStep ==
  ASSUME CInv, [Next]_vars, StoreTyped', Forward
  PROVE  PassesOK'
  <1>1. PassesOK /\ RepositoryOK /\ StoreTyped
    BY DEF CInv, TypeOK, PassesOK
  <1>2. CASE UNCHANGED vars
    BY <1>1, <1>2, PassesStay DEF vars, PassesOK
  <1>3. CASE Others
    BY <1>1, <1>3, PassesOthers
  <1>4. ASSUME NEW w \in Passes, Begins(w) PROVE PassesOK'
    BY <1>1, <1>4, PassesBegin
  <1>5. ASSUME NEW w \in Passes, PassStep(w) PROVE PassesOK'
    <2>1. \E q : pass' = [pass EXCEPT ![w] = q] /\ PassTyped(q) /\ PassOK(q)
      BY <1>1, <1>5, FreesPass, FreedPass, ListsPass, ScansPass, ScannedPass, UnblocksPass,
         ReadiesPass, FinishesPass, ReactivatesPass, ArchivesPass, ArchivedPass DEF PassStep
    <2> QED BY <1>1, <2>1, PassMoves
  <1> QED BY <1>2, <1>3, <1>4, <1>5 DEF Next

-----------------------------------------------------------------------------
LEMMA CInvStep ==
  ASSUME CInv, [Next]_vars
  PROVE  CInv' /\ Forward
  <1>1. StoreTyped /\ TypeOK
    BY DEF CInv, TypeOK
  <1>2. StoreTyped'
    BY <1>1, StoreStep
  <1>3. Forward
    BY <1>1, ForwardStep
  <1>4. PassesOK'
    BY <1>2, <1>3, PassesStep
  <1>5. ParentsSettled' /\ RepositoryOK'
    BY <1>2, <1>3, ParentsStep, RepositoryStep
  <1> QED BY <1>2, <1>3, <1>4, <1>5 DEF CInv, TypeOK, PassesOK

(* The invariant of the scheduler: what a pass holds in its hands follows  *)
(* from what the repository was like at some time, and what was settled    *)
(* then is settled now.                                                    *)
THEOREM CascadeInvariant == Spec => []CInv
  <1>1. CInv /\ [Next]_vars => CInv'
    BY CInvStep
  <1> QED BY <1>1, InitOK, PTL DEF Spec

(* Types, and the shape of a pass between the calls of checkAndUnblock.    *)
THEOREM CascadeTypes == Spec => []TypeOK
  <1>1. CInv => TypeOK
    BY DEF CInv
  <1> QED BY <1>1, CascadeInvariant, PTL

(* A pass that met no failing call has gone over every issue that was free *)
(* when it began and on the page it read (checkAndUnblock, up to its last  *)
(* round).                                                                 *)
THEOREM PassesComplete == Spec => []PassComplete
  <1>1. CInv => PassComplete
    BY DEF CInv, PassOK, PassComplete
  <1> QED BY <1>1, CascadeInvariant, PTL

(* A parent is closed, reactivated or archived only when every pull        *)
(* request it names is closed (checkParentCompletion, CheckPMReactivation, *)
(* CheckAllTasksClosed).                                                   *)
THEOREM ParentsAreSettled == Spec => []ParentsSettled
  <1>1. CInv => ParentsSettled
    BY DEF CInv
  <1> QED BY <1>1, CascadeInvariant, PTL

-----------------------------------------------------------------------------
(* The gate.                                                               *)
LEMMA GateInit == Init => Gate!Init
  <1> SUFFICES ASSUME Init PROVE Gate!Init
    OBVIOUS
  <1>1. text \in [Issues -> SUBSET Numbers]
    BY CascadeAssumption DEF Init
  <1>2. said \in [Issues -> SUBSET SUBSET Numbers]
    BY <1>1 DEF Init
  <1>3. state \in [Numbers -> {"none", "open"}]
    BY DEF Init
  <1>4. Gate!Numbers = Numbers
    BY DEF Gate!Numbers, Numbers
  <1> QED BY <1>2, <1>3, <1>4 DEF Init, Gate!Init

LEMMA GateChanges ==
  ASSUME Forward, readied' = readied
  PROVE  Gate!Changes
  BY DEF Forward, Gate!Changes, Gate!Numbers, Numbers

LEMMA ReadiesFree ==
  ASSUME PassesOK, StoreTyped, NEW w \in Passes, Readies(w), readied' # readied
  PROVE  \E i \in Issues : Gate!MakesReady(i)
  <1>1. PICK c : c = First(pass[w].cands)
    OBVIOUS
  <1>2. /\ PassTyped(pass[w]) /\ PassOK(pass[w]) /\ pass[w].cands # {}
        /\ pass[w].cands \in SUBSET Issues
    BY PassFields DEF PassesOK, Readies, PassTyped
  <1>3. c \in pass[w].cands /\ c \in Issues
    BY <1>1, <1>2, FirstIs
  <1>4. PICK D \in said[c] : AllSettled(D)
    BY <1>2, <1>3 DEF PassOK
  <1>5. D # {} /\ \A d \in D : Gate!Settled(d)
    BY <1>4 DEF AllSettled, Settled, Gate!Settled
  <1>6. Gate!Free(c)
    BY <1>4, <1>5 DEF Gate!Free
  <1>7. readied' = readied \cup {c}
    BY <1>1 DEF Readies
  <1>8. UNCHANGED <<state, said>>
    BY DEF Readies
  <1> QED BY <1>3, <1>6, <1>7, <1>8 DEF Gate!MakesReady

LEMMA UnblocksStep ==
  ASSUME CInv, [Next]_vars
  PROVE  [Gate!Next]_(Gate!gateVars)
  <1>1. PassesOK /\ StoreTyped /\ Forward
    BY CInvStep DEF CInv, TypeOK, PassesOK
  <1>2. CASE readied' = readied
    BY <1>1, <1>2, GateChanges DEF Gate!Next
  <1>3. CASE readied' # readied
    <2>1. ~UNCHANGED vars
      BY <1>3 DEF vars
    <2>2. ~Others
      BY <1>3 DEF Others, Opens, Closes, Claims, AutoBlocks, Appends, Posts, MarksBlocked, Relabels, Crashes
    <2>3. ASSUME NEW w \in Passes PROVE ~Begins(w)
      BY <1>3 DEF Begins, Links, Hears, Rechecks, Reconciles, Pushes
    <2>4. ASSUME NEW w \in Passes, PassStep(w) PROVE Readies(w)
      BY <1>3, <2>4 DEF PassStep, Frees, Freed, Lists, Scans, Scanned, Unblocks, Finishes,
                        Reactivates, Archives, Archived
    <2>5. PICK w \in Passes : Readies(w)
      BY <2>1, <2>2, <2>3, <2>4 DEF Next
    <2> QED BY <1>1, <1>3, <2>5, ReadiesFree DEF Gate!Next
  <1> QED BY <1>2, <1>3

(* The scheduler implements the gate: an issue is made ready only when all *)
(* it once was said to depend on is settled (checkAndUnblock).             *)
THEOREM ImplementsGate == Spec => UnblocksAsGate
  <1>1. CInv /\ [Next]_vars => [Gate!Next]_(Gate!gateVars)
    BY UnblocksStep
  <1>2. Spec => Gate!Init /\ [][Gate!Next]_(Gate!gateVars)
    BY <1>1, GateInit, CascadeInvariant, PTL DEF Spec
  <1> QED BY <1>2 DEF UnblocksAsGate, Gate!Spec

-----------------------------------------------------------------------------
(* The merge queue.                                                        *)
USE MergeQueueAssumption

(* Arithmetic the larger steps cite. *)
LEMMA LeqSplit == \A i, j \in Nat : i <= j => i < j \/ i = j
OBVIOUS

LEMMA OneRow ==
  ASSUME NEW b \in Branches, NEW c \in Branches, NEW n \in 0..MaxRetries, NEW i \in 0..MaxRetries,
         {<<b, n>>} = {<<c, i>>}
  PROVE  b = c /\ n = i
<1>1. <<b, n>> = <<c, i>>
  <2>1. <<b, n>> \in {<<c, i>>}
    OBVIOUS
  <2> QED BY <2>1
<1> QED BY <1>1

(* Every step keeps the types. *)
LEMMA QueueTypeStep == QueueTypeOK /\ [QueueNext]_mergeQueueVars => QueueTypeOK'
<1> SUFFICES ASSUME QueueTypeOK, [QueueNext]_mergeQueueVars PROVE QueueTypeOK'
  OBVIOUS
<1> USE DEF QueueTypeOK, rowVars, queueVars, history
<1>1. ASSUME NEW b \in Branches, Implementer(b) PROVE QueueTypeOK'
  <2>1. CASE Take(b) BY <2>1 DEF Take
  <2>2. CASE EndWithoutPR(b) \/ StaleBranch(b) BY <2>2 DEF EndWithoutPR, StaleBranch, TurnEnds, PairsWithout
  <2>3. CASE GateBlocks(b) BY <2>3 DEF GateBlocks, AddsBlocked, Parts
  <2>4. CASE LabelBlocked(b) BY <2>4 DEF LabelBlocked, AddsBlocked, Parts
  <2>5. CASE RecordBlocked(b)
    <3>1. row' \in [Branches -> {"none", "blocked", "resolved"}]
      BY <2>5 DEF RecordBlocked, BlockedRow
    <3>2. retries' \in [Branches -> 0..MaxRetries]
      <4>1. CASE retries' = retries BY <4>1
      <4>2. CASE retries[b] # MaxRetries /\ retries' = [retries EXCEPT ![b] = @ + 1]
        <5>1. retries[b] + 1 \in 0..MaxRetries
          BY <4>2, MergeQueueAssumption
        <5> QED BY <4>2, <5>1
      <4> QED BY <2>5, <4>1, <4>2 DEF RecordBlocked, BlockedRow
    <3> QED BY <2>5, <3>1, <3>2 DEF RecordBlocked
  <2>6. CASE GateClears(b)
    <3>1. PICK unread \in Unread(b) :
            blind' = PairsWithout(b) \cup {{b, c} : c \in PastGate(b) \cup unread}
      BY <2>6 DEF GateClears
    <3>2. PastGate(b) \cup unread \subseteq Branches
      BY <3>1 DEF Unread, OpenConflicts, PastGate
    <3>3. blind' \subseteq SUBSET Branches
      BY <3>1, <3>2 DEF PairsWithout
    <3> QED BY <2>6, <3>3 DEF GateClears
  <2>7. CASE CreateFails(b) BY <2>7 DEF CreateFails, TurnEnds, PairsWithout
  <2>8. CASE OpenPR(b) BY <2>8 DEF OpenPR, TurnEnds, PairsWithout
  <2> QED BY <1>1, <2>1, <2>2, <2>3, <2>4, <2>5, <2>6, <2>7, <2>8 DEF Implementer
<1>2. ASSUME NEW b \in Branches, LeavePR(b) \/ OthersUnblock(b) PROVE QueueTypeOK'
  BY <1>2 DEF LeavePR, OthersUnblock, Parts, PairsWithout
<1>3. ASSUME NEW q \in Requeuers, Requeue(q) PROVE QueueTypeOK'
  <2>1. CASE List(q) BY <2>1 DEF List
  <2>2. ASSUME NEW b \in Branches, NEW n \in 0..MaxRetries,
               GiveUp(q, b, n) \/ Dispatch(q, b, n) \/ Skip(q, b, n)
        PROVE  QueueTypeOK'
    BY <2>2 DEF GiveUp, Dispatch, Skip, Done
  <2>3. ASSUME NEW b \in Branches, NEW n \in 0..MaxRetries, Resolve(q, b, n) PROVE QueueTypeOK'
    BY <2>3 DEF Resolve, Parts
  <2> QED BY <1>3, <2>1, <2>2, <2>3 DEF Requeue
<1>4. CASE UNCHANGED mergeQueueVars BY <1>4 DEF mergeQueueVars
<1> QED BY <1>1, <1>2, <1>3, <1>4 DEF QueueNext

(* The gate: only the implementers' steps and a pull request that leaves   *)
(* touch what OverlapOnlyByRace and GatedOK speak about; a pair is dropped *)
(* from the history when one of it is neither open nor past the gate.      *)
LEMMA GateStep ==
  ASSUME QueueTypeOK, OverlapOnlyByRace, GatedOK, [QueueNext]_mergeQueueVars
  PROVE  OverlapOnlyByRace' /\ GatedOK'
<1> USE DEF QueueTypeOK, OverlapOnlyByRace, GatedOK, rowVars, queueVars, history
<1>1. CASE UNCHANGED <<open, agent, blind>> BY <1>1
<1>2. ASSUME NEW b \in Branches,
             \/ Take(b) \/ EndWithoutPR(b) \/ StaleBranch(b) \/ GateBlocks(b)
             \/ RecordBlocked(b) \/ LabelBlocked(b) \/ CreateFails(b) \/ LeavePR(b)
      PROVE  OverlapOnlyByRace' /\ GatedOK'
  <2> USE DEF Take, EndWithoutPR, StaleBranch, GateBlocks, RecordBlocked, LabelBlocked, CreateFails,
              LeavePR, TurnEnds
  <2>1. open' \subseteq open
    BY <1>2
  <2>2. \A c \in Branches : agent'[c] = "gated" => agent[c] = "gated"
    BY <1>2
  <2>3. blind' = blind \/ (blind' = PairsWithout(b) /\ b \notin open' /\ agent'[b] # "gated")
    BY <1>2
  <2>4. \A c, d \in Branches : {c, d} \in blind =>
          {c, d} \in blind' \/ ((c = b \/ d = b) /\ b \notin open' /\ agent'[b] # "gated")
    BY <2>3 DEF PairsWithout
  <2>5. OverlapOnlyByRace'
    BY <2>1, <2>4
  <2>6. GatedOK'
    BY <2>1, <2>2, <2>4
  <2> QED BY <2>5, <2>6
<1>3. ASSUME NEW b \in Branches, GateClears(b) PROVE OverlapOnlyByRace' /\ GatedOK'
  <2>1. PICK unread \in Unread(b) :
          /\ MayClear(b, unread)
          /\ blind' = PairsWithout(b) \cup {{b, c} : c \in PastGate(b) \cup unread}
    BY <1>3 DEF GateClears
  <2>2. open' = open
    BY <1>3 DEF GateClears
  <2>3. \A c \in Branches : agent'[c] = "gated" <=> c = b \/ agent[c] = "gated"
    BY <1>3 DEF GateClears
  <2>4. \A c \in PastGate(b) \cup unread : {b, c} \in blind'
    BY <2>1
  <2>5. \A c \in Branches : c # b /\ agent[c] = "gated" => {b, c} \in blind'
    BY <2>4 DEF PastGate
  <2>6. \A c \in Branches : c # b /\ c \in open /\ <<b, c>> \in Overlap => {b, c} \in blind'
    BY <2>1, <2>4 DEF MayClear, OpenConflicts
  <2>7. \A c, d \in Branches : c # b /\ d # b /\ {c, d} \in blind => {c, d} \in blind'
    BY <2>1 DEF PairsWithout
  <2>8. \A c, d \in Branches : {c, d} = {d, c}
    OBVIOUS
  <2>9. OverlapOnlyByRace'
    <3> SUFFICES ASSUME NEW c \in open, NEW d \in open, <<c, d>> \in Overlap PROVE {c, d} \in blind'
      BY <2>2
    <3>1. <<d, c>> \in Overlap /\ c # d
      BY MergeQueueAssumption
    <3>2. {c, d} \in blind
      OBVIOUS
    <3>3. CASE c = b BY <3>1, <3>3, <2>6
    <3>4. CASE d = b BY <3>1, <3>4, <2>6, <2>8
    <3> QED BY <3>2, <3>3, <3>4, <2>7
  <2>10. GatedOK'
    <3> SUFFICES ASSUME NEW c \in Branches, NEW d \in Branches, c # d, agent'[c] = "gated",
                        agent'[d] = "gated" \/ (d \in open /\ <<c, d>> \in Overlap)
                 PROVE  {c, d} \in blind'
      BY <2>2
    <3>1. CASE c = b BY <3>1, <2>3, <2>5, <2>6
    <3>2. CASE d = b
      <4>1. agent[c] = "gated"
        BY <3>2, <2>3
      <4> QED BY <3>2, <4>1, <2>5, <2>8
    <3>3. CASE c # b /\ d # b BY <3>3, <2>3, <2>7
    <3> QED BY <3>1, <3>2, <3>3
  <2> QED BY <2>9, <2>10
<1>4. ASSUME NEW b \in Branches, OpenPR(b) PROVE OverlapOnlyByRace' /\ GatedOK'
  <2>1. open' = open \cup {b} /\ blind' = blind /\ agent[b] = "gated"
    BY <1>4 DEF OpenPR, TurnEnds
  <2>2. \A c \in Branches : agent'[c] = "gated" => c # b /\ agent[c] = "gated"
    BY <1>4 DEF OpenPR, TurnEnds
  <2>3. \A c \in Branches : {b, c} = {c, b}
    OBVIOUS
  <2> QED BY <2>1, <2>2, <2>3
<1>5. ASSUME NEW b \in Branches, OthersUnblock(b) PROVE OverlapOnlyByRace' /\ GatedOK'
  BY <1>1, <1>5 DEF OthersUnblock
<1>6. ASSUME NEW q \in Requeuers, Requeue(q) PROVE OverlapOnlyByRace' /\ GatedOK'
  BY <1>1, <1>6 DEF Requeue, List, GiveUp, Dispatch, Skip, Resolve
<1> QED BY <1>1, <1>2, <1>3, <1>4, <1>5, <1>6 DEF QueueNext, Implementer, mergeQueueVars

(* A branch excused by its label, its session, a requeuer or the history   *)
(* stays excused as long as none of them goes.                             *)
Excused(b) == b \in label \/ agent[b] = "recorded" \/ Dispatched(b) \/ b \in apart

(* The rows: RecordBlocked and the requeuers touch them.                   *)
LEMMA RowStep ==
  ASSUME QueueTypeOK, UsedOK, ListsOK, [QueueNext]_mergeQueueVars
  PROVE  UsedOK' /\ ListsOK'
<1> DEFINE Good == UsedOK' /\ ListsOK'
<1> SUFFICES Good
  OBVIOUS
<1> USE DEF QueueTypeOK, UsedOK, ListsOK, rowVars, queueVars, history
<1>1. CASE UNCHANGED <<row, retries, todo, target, sent>>
  BY <1>1
<1>2. ASSUME NEW b \in Branches, RecordBlocked(b) PROVE Good
  <2>1. UNCHANGED <<todo, target, sent>>
    BY <1>2 DEF RecordBlocked
  <2>2. CASE UNCHANGED rowVars BY <2>1, <2>2
  <2>3. CASE BlockedRow(b)
    <3>1. \A c \in Branches : row'[c] = IF c = b THEN "blocked" ELSE row[c]
      BY <2>3 DEF BlockedRow
    <3>2. \A c \in Branches : retries'[c] \in Nat /\ retries[c] \in Nat /\ retries[c] <= retries'[c]
      BY <2>3 DEF BlockedRow
    <3>3. \A c \in Branches \ {b} : retries'[c] = retries[c]
      BY <2>3 DEF BlockedRow
    <3>4. ASSUME row[b] # "none", retries[b] < MaxRetries PROVE retries'[b] = retries[b] + 1
      <4>1. retries[b] # MaxRetries
        BY <3>4
      <4>2. retries' = [retries EXCEPT ![b] = retries[b] + 1]
        BY <2>3, <3>4, <4>1 DEF BlockedRow
      <4> QED BY <4>2
    <3>6. UsedOK'
      <4> SUFFICES ASSUME NEW q \in Requeuers, NEW c \in Branches, NEW n \in 0..MaxRetries,
                          <<q, n>> \in sent[c]
                   PROVE  /\ n < MaxRetries
                          /\ <<c, n>> \notin todo[q]
                          /\ row'[c] # "none"
                          /\ \/ n < retries'[c]
                             \/ n = retries'[c] /\ (row'[c] = "resolved" \/ target[q] = {<<c, n>>})
        BY <2>1
      <4>0. /\ n < MaxRetries
            /\ <<c, n>> \notin todo[q]
            /\ row[c] # "none"
            /\ n < retries[c] \/ (n = retries[c] /\ (row[c] = "resolved" \/ target[q] = {<<c, n>>}))
        OBVIOUS
      <4>3. row'[c] # "none"
        BY <4>0, <3>1
      <4>1. CASE c # b BY <4>0, <4>1, <4>3, <3>1, <3>3
      <4>2. CASE c = b
        <5>1. retries[c] \in Nat /\ retries'[c] \in Nat /\ MaxRetries \in Nat /\ n \in Nat
          BY <3>2
        <5>2. n < retries'[c]
          BY <4>0, <4>2, <5>1, <3>2, <3>4
        <5> QED BY <4>0, <4>3, <5>2
      <4> QED BY <4>1, <4>2
    <3>7. ListsOK'
      BY <2>1, <3>1, <3>2, <3>3
    <3> QED BY <3>6, <3>7
  <2> QED BY <1>2, <2>2, <2>3 DEF RecordBlocked
<1>3. ASSUME NEW q \in Requeuers, List(q) PROVE Good
  <2>1. UNCHANGED <<row, retries, target, sent>>
    BY <1>3 DEF List
  <2>2. target[q] = {}
    BY <1>3 DEF List
  <2>3. \A p \in Requeuers, b \in Branches, n \in 0..MaxRetries :
          <<b, n>> \in todo'[p] => \/ p # q /\ <<b, n>> \in todo[p]
                                   \/ p = q /\ row[b] = "blocked" /\ n = retries[b]
    BY <1>3 DEF List
  <2>4. UsedOK'
    BY <2>1, <2>2, <2>3
  <2>5. ListsOK'
    BY <2>1, <2>3
  <2> QED BY <2>4, <2>5
<1>4. ASSUME NEW q \in Requeuers, NEW b \in Branches, NEW n \in 0..MaxRetries,
             GiveUp(q, b, n) \/ Skip(q, b, n)
      PROVE  Good
  <2>1. UNCHANGED <<retries, target, sent>>
    BY <1>4 DEF GiveUp, Skip
  <2>2. todo' = [todo EXCEPT ![q] = @ \ {<<b, n>>}]
    BY <1>4 DEF GiveUp, Skip, Done
  <2>5. \A p \in Requeuers, c \in Branches, i \in 0..MaxRetries :
          <<c, i>> \in todo'[p] => <<c, i>> \in todo[p]
    BY <2>2
  <2>3. \A c \in Branches : row'[c] = row[c] \/ row'[c] = "resolved"
    BY <1>4 DEF GiveUp, Skip
  <2>6. \A c \in Branches : row[c] = "none" => row'[c] # "blocked"
    BY <2>3
  <2>4. \A c \in Branches : row[c] # "none" => row'[c] # "none"
    BY <2>3
  <2> QED BY <2>1, <2>3, <2>4, <2>5
<1>5. ASSUME NEW q \in Requeuers, NEW b \in Branches, NEW n \in 0..MaxRetries, Dispatch(q, b, n)
      PROVE  Good
  <2>1. UNCHANGED <<row, retries>>
    BY <1>5 DEF Dispatch
  <2>2. target' = [target EXCEPT ![q] = {<<b, n>>}] /\ target[q] = {}
    BY <1>5 DEF Dispatch, ListedRow
  <2>3. <<b, n>> \in todo[q] /\ n < MaxRetries
    BY <1>5 DEF Dispatch, ListedRow, MayDispatch
  <2>4. /\ \A p \in Requeuers : todo'[p] \subseteq todo[p]
        /\ <<b, n>> \notin todo'[q]
    BY <1>5 DEF Dispatch, Done
  <2>5. \A p \in Requeuers, c \in Branches, i \in 0..MaxRetries :
          <<p, i>> \in sent'[c] => <<p, i>> \in sent[c] \/ (p = q /\ c = b /\ i = n)
    BY <1>5 DEF Dispatch
  <2>7. UsedOK'
    <3> SUFFICES ASSUME NEW p \in Requeuers, NEW c \in Branches, NEW i \in 0..MaxRetries,
                        <<p, i>> \in sent'[c]
                 PROVE  /\ i < MaxRetries
                        /\ <<c, i>> \notin todo'[p]
                        /\ row[c] # "none"
                        /\ \/ i < retries[c]
                           \/ i = retries[c] /\ (row[c] = "resolved" \/ target'[p] = {<<c, i>>})
      BY <2>1
    <3>1. CASE p = q /\ c = b /\ i = n
      <4>1. target'[q] = {<<b, n>>}
        BY <2>2
      <4>2. n <= retries[b] /\ row[b] # "none" /\ retries[b] \in Nat /\ n \in Nat
        BY <2>3
      <4>3. n < retries[b] \/ n = retries[b]
        BY <4>2, LeqSplit
      <4> QED BY <3>1, <2>3, <2>4, <4>1, <4>2, <4>3
    <3>2. CASE <<p, i>> \in sent[c]
      <4>1. target[p] = {<<c, i>>} => target'[p] = {<<c, i>>}
        BY <2>2
      <4>2. /\ i < MaxRetries
            /\ <<c, i>> \notin todo[p]
            /\ row[c] # "none"
            /\ i < retries[c] \/ (i = retries[c] /\ (row[c] = "resolved" \/ target[p] = {<<c, i>>}))
        BY <3>2
      <4> QED BY <2>4, <4>1, <4>2
    <3> QED BY <2>5, <3>1, <3>2
  <2>8. ListsOK'
    BY <2>1, <2>2, <2>3, <2>4
  <2> QED BY <2>7, <2>8
<1>6. ASSUME NEW q \in Requeuers, NEW b \in Branches, NEW n \in 0..MaxRetries, Resolve(q, b, n) PROVE Good
  <2>1. UNCHANGED <<retries, todo>>
    BY <1>6 DEF Resolve
  <2>2. target[q] = {<<b, n>>} /\ row[b] # "none"
    BY <1>6 DEF Resolve
  <2>3. \A p \in Requeuers : target'[p] = IF p = q THEN {} ELSE target[p]
    BY <1>6 DEF Resolve
  <2>4. \A c \in Branches : row'[c] = row[c] \/ (c = b /\ row'[c] = "resolved")
    BY <1>6 DEF Resolve
  <2>5. \A p \in Requeuers, c \in Branches, i \in 0..MaxRetries :
          <<p, i>> \in sent'[c] => <<p, i>> \in sent[c]
    <3>1. sent' = sent \/ sent' = [sent EXCEPT ![b] = @ \ {<<q, n>>}]
      BY <1>6 DEF Resolve
    <3> QED BY <3>1
  <2>6. \/ row'[b] = "resolved"
        \/ <<q, n>> \notin sent'[b]
    BY <1>6 DEF Resolve
  <2>7. UsedOK'
    <3> SUFFICES ASSUME NEW p \in Requeuers, NEW c \in Branches, NEW i \in 0..MaxRetries,
                        <<p, i>> \in sent'[c]
                 PROVE  /\ i < MaxRetries
                        /\ <<c, i>> \notin todo[p]
                        /\ row'[c] # "none"
                        /\ \/ i < retries[c]
                           \/ i = retries[c] /\ (row'[c] = "resolved" \/ target'[p] = {<<c, i>>})
      BY <2>1
    <3>1. /\ i < MaxRetries
          /\ <<c, i>> \notin todo[p]
          /\ row[c] # "none"
          /\ i < retries[c] \/ (i = retries[c] /\ (row[c] = "resolved" \/ target[p] = {<<c, i>>}))
      BY <2>5
    <3>2. row'[c] # "none" /\ (row[c] = "resolved" => row'[c] = "resolved")
      BY <2>4, <3>1
    <3>3. ASSUME target[p] = {<<c, i>>} PROVE row'[c] = "resolved" \/ target'[p] = {<<c, i>>}
      <4>1. CASE p # q BY <2>3, <3>3, <4>1
      <4>2. CASE p = q
        <5>2. {<<c, i>>} = {<<b, n>>}
          BY <2>2, <3>3, <4>2
        <5>3. <<c, i>> \in {<<b, n>>}
          BY <5>2
        <5>1. c = b /\ i = n
          BY <5>3
        <5> QED BY <2>6, <4>2, <5>1
      <4> QED BY <4>1, <4>2
    <3> QED BY <3>1, <3>2, <3>3
  <2>8. ListsOK'
    <3>1. \A p \in Requeuers : target'[p] \subseteq target[p]
      BY <2>3
    <3>2. \A p \in Requeuers : \A x \in target'[p] : target'[p] = target[p]
      BY <2>3
    <3>3. \A c \in Branches : row[c] = "none" <=> row'[c] = "none"
      BY <2>2, <2>4
    <3>4. \A c \in Branches : row'[c] = "none" => retries'[c] = 0
      BY <2>1, <3>3
    <3>5. \A p \in Requeuers, c \in Branches, i \in 0..MaxRetries :
            <<c, i>> \in todo'[p] => i <= retries'[c] /\ row'[c] # "none"
      BY <2>1, <3>3
    <3>6. \A p \in Requeuers, c \in Branches, i \in 0..MaxRetries :
            <<c, i>> \in target'[p] => target'[p] = {<<c, i>>} /\ row'[c] # "none"
      BY <3>1, <3>2, <3>3
    <3> QED BY <3>4, <3>5, <3>6
  <2> QED BY <2>7, <2>8
<1>7. ASSUME NEW b \in Branches, Implementer(b), ~RecordBlocked(b) PROVE Good
  BY <1>1, <1>7 DEF Implementer, Take, EndWithoutPR, StaleBranch, TurnEnds, GateBlocks, LabelBlocked,
                    GateClears, CreateFails, OpenPR
<1>8. ASSUME NEW b \in Branches, LeavePR(b) \/ OthersUnblock(b) PROVE Good
  BY <1>1, <1>8 DEF LeavePR, OthersUnblock
<1>9. CASE UNCHANGED mergeQueueVars
  BY <1>1, <1>9 DEF mergeQueueVars
<1> QED BY <1>2, <1>3, <1>4, <1>5, <1>6, <1>7, <1>8, <1>9 DEF QueueNext, Requeue

(* Rows and labels. *)
LEMMA LabelStep ==
  ASSUME QueueTypeOK, ListsOK, ListedIsLabelled, [QueueNext]_mergeQueueVars
  PROVE  ListedIsLabelled'
<1> USE DEF QueueTypeOK, rowVars, queueVars, history
<1> SUFFICES ASSUME NEW c \in Branches, row'[c] = "blocked" PROVE Excused(c)'
  BY DEF ListedIsLabelled, Excused, Dispatched
<1>a. row[c] = "blocked" => Excused(c)
  BY DEF ListedIsLabelled, Excused
<1>b. ASSUME row[c] = "blocked", label \subseteq label', agent'[c] = agent[c], target' = target, apart \subseteq apart'
      PROVE  Excused(c)'
  BY <1>a, <1>b DEF Excused, Dispatched
<1>1. ASSUME NEW b \in Branches, Take(b) \/ EndWithoutPR(b) \/ StaleBranch(b) \/ GateClears(b)
                                 \/ CreateFails(b) \/ OpenPR(b)
      PROVE  Excused(c)'
  <2>1. UNCHANGED <<label, row, target, apart>>
    BY <1>1 DEF Take, EndWithoutPR, StaleBranch, GateClears, CreateFails, OpenPR, TurnEnds
  <2>2. agent[c] = "recorded" => agent'[c] = agent[c]
    BY <1>1 DEF Take, EndWithoutPR, StaleBranch, GateClears, CreateFails, OpenPR, TurnEnds
  <2> QED BY <1>a, <2>1, <2>2 DEF Excused, Dispatched
<1>2. ASSUME NEW b \in Branches, GateBlocks(b) \/ LabelBlocked(b) PROVE Excused(c)'
  <2>1. UNCHANGED <<row, target>>
    BY <1>2 DEF GateBlocks, LabelBlocked
  <2>2. AddsBlocked(b)
    BY <1>2 DEF GateBlocks, LabelBlocked
  <2>3. CASE c = b
    <3>1. c \in label' \/ c \in apart'
      BY <2>1, <2>2, <2>3 DEF AddsBlocked, Parts
    <3> QED BY <3>1 DEF Excused
  <2>4. CASE c # b
    <3>1. agent'[c] = agent[c]
      BY <1>2, <2>4 DEF GateBlocks, LabelBlocked
    <3>2. (c \in label => c \in label') /\ (c \in apart => c \in apart')
      BY <2>2, <2>4 DEF AddsBlocked, Parts
    <3> QED BY <1>a, <2>1, <3>1, <3>2 DEF Excused, Dispatched
  <2> QED BY <2>3, <2>4
<1>3. ASSUME NEW b \in Branches, RecordBlocked(b) PROVE Excused(c)'
  <2>1. CASE c = b BY <1>3, <2>1 DEF RecordBlocked, Excused
  <2>2. CASE c # b
    <3>1. row[c] = "blocked" /\ agent'[c] = agent[c]
      BY <1>3, <2>2 DEF RecordBlocked, BlockedRow
    <3> QED BY <1>3, <3>1, <1>b DEF RecordBlocked
  <2> QED BY <2>1, <2>2
<1>4. ASSUME NEW b \in Branches, LeavePR(b) PROVE Excused(c)'
  BY <1>4, <1>b DEF LeavePR
<1>5. ASSUME NEW b \in Branches, OthersUnblock(b) PROVE Excused(c)'
  <2>1. UNCHANGED <<row, agent, target>> /\ label' = label \ {b} /\ Parts(b)
    BY <1>5 DEF OthersUnblock
  <2>2. CASE c = b
    <3>1. c \in apart'
      BY <2>1, <2>2 DEF Parts
    <3> QED BY <3>1 DEF Excused
  <2>3. CASE c # b
    <3>1. (c \in label => c \in label') /\ (c \in apart => c \in apart')
      BY <2>1, <2>3 DEF Parts
    <3> QED BY <1>a, <2>1, <3>1 DEF Excused, Dispatched
  <2> QED BY <2>2, <2>3
<1>6. ASSUME NEW q \in Requeuers, List(q) PROVE Excused(c)'
  BY <1>6, <1>b DEF List
<1>7. ASSUME NEW q \in Requeuers, NEW b \in Branches, NEW n \in 0..MaxRetries,
             GiveUp(q, b, n) \/ Skip(q, b, n)
      PROVE  Excused(c)'
  <2>1. UNCHANGED <<label, agent, target>>
    BY <1>7 DEF GiveUp, Skip
  <2>2. row[c] = "blocked" /\ (c \in apart => c \in apart')
    BY <1>7 DEF GiveUp, Skip
  <2> QED BY <1>a, <2>1, <2>2 DEF Excused, Dispatched
<1>8. ASSUME NEW q \in Requeuers, NEW b \in Branches, NEW n \in 0..MaxRetries, Dispatch(q, b, n)
      PROVE  Excused(c)'
  <2>1. UNCHANGED <<row, agent, apart>>
    BY <1>8 DEF Dispatch
  <2>2. target' = [target EXCEPT ![q] = {<<b, n>>}] /\ target[q] = {}
    BY <1>8 DEF Dispatch, ListedRow
  <2>3. CASE c = b
    <3>1. target'[q] = {<<c, n>>}
      BY <2>2, <2>3
    <3> QED BY <3>1 DEF Excused, Dispatched
  <2>4. CASE c # b
    <3>1. c \in label => c \in label'
      BY <1>8, <2>4 DEF Dispatch
    <3>2. Dispatched(c) => Dispatched(c)'
      BY <2>2 DEF Dispatched
    <3> QED BY <1>a, <2>1, <3>1, <3>2 DEF Excused
  <2> QED BY <2>3, <2>4
<1>9. ASSUME NEW q \in Requeuers, NEW b \in Branches, NEW n \in 0..MaxRetries, Resolve(q, b, n)
      PROVE  Excused(c)'
  <2>1. UNCHANGED <<label, agent>>
    BY <1>9 DEF Resolve
  <2>2. target[q] = {<<b, n>>} /\ target' = [target EXCEPT ![q] = {}]
    BY <1>9 DEF Resolve
  <2>3. CASE c = b
    <3>1. row'[c] = row[c] /\ Parts(c)
      BY <1>9, <2>3 DEF Resolve
    <3>2. c \in label' \/ c \in apart'
      BY <3>1 DEF Parts
    <3> QED BY <3>2 DEF Excused
  <2>4. CASE c # b
    <3>1. row[c] = "blocked" /\ (c \in apart => c \in apart')
      BY <1>9, <2>4 DEF Resolve, Parts
    <3>2. Dispatched(c) => Dispatched(c)'
      <4> SUFFICES ASSUME NEW p \in Requeuers, NEW i \in 0..MaxRetries, target[p] = {<<c, i>>}
                   PROVE  Dispatched(c)'
        BY DEF Dispatched
      <4>1. ASSUME p = q PROVE FALSE
        <5>1. {<<c, i>>} = {<<b, n>>}
          BY <2>2, <4>1
        <5> QED BY <2>4, <5>1, OneRow
      <4>2. target'[p] = {<<c, i>>}
        BY <2>2, <4>1
      <4> QED BY <4>2 DEF Dispatched
    <3> QED BY <1>a, <2>1, <3>1, <3>2 DEF Excused
  <2> QED BY <2>3, <2>4
<1>10. CASE UNCHANGED mergeQueueVars
  BY <1>10, <1>b DEF mergeQueueVars
<1> QED BY <1>1, <1>2, <1>3, <1>4, <1>5, <1>6, <1>7, <1>8, <1>9, <1>10 DEF QueueNext, Requeue, Implementer

(* The initial state satisfies the inductive invariant. *)
LEMMA InitQueueInv == QueueInit => QueueInv
BY DEF QueueInit, QueueInv, QueueTypeOK, OverlapOnlyByRace, GatedOK, ListedIsLabelled, UsedOK, ListsOK

(* The inductive invariant holds, whatever calls of the gate, of the       *)
(* lifecycle and of the requeue fail.                                      *)
THEOREM QueueInvariant == QueueSpec => []QueueInv
<1>1. QueueInv /\ [QueueNext]_mergeQueueVars => QueueInv'
  BY QueueTypeStep, GateStep, RowStep, LabelStep DEF QueueInv
<1> QED BY InitQueueInv, <1>1, PTL DEF QueueSpec

(* Overlapping pull requests are open together only after a race between   *)
(* two calls of forgejo_create_pr (CheckGate before the POST), or when one *)
(* was not read by CheckGate for the other.                                *)
THEOREM Race == QueueSpec => []OverlapOnlyByRace
<1>1. QueueInv => OverlapOnlyByRace BY DEF QueueInv
<1> QED BY QueueInvariant, <1>1, PTL

(* The rows and the labels agree but for the calls that failed between     *)
(* them, whatever CheckGate's calls do.                                    *)
THEOREM RowsAndLabels == QueueSpec => []ListedIsLabelled
<1>1. QueueInv => ListedIsLabelled BY DEF QueueInv
<1> QED BY QueueInvariant, <1>1, PTL

(* The requeue after a merge uses each retry of a branch once, but for the *)
(* dispatches whose row it failed to resolve.                              *)
THEOREM Retries == QueueSpec => RetryUsedOnce
<1> DEFINE Once == \A q \in Requeuers, b \in Branches, n \in 0..MaxRetries :
                     target[q] = {} /\ target'[q] = {<<b, n>>}
                       => n < MaxRetries /\ <<q, n>> \notin sent[b]
<1>1. QueueInv /\ [QueueNext]_mergeQueueVars => [Once]_target
  <2> SUFFICES ASSUME QueueInv, QueueNext, NEW q \in Requeuers, NEW b \in Branches, NEW n \in 0..MaxRetries,
                      target[q] = {}, target'[q] = {<<b, n>>}
               PROVE  n < MaxRetries /\ <<q, n>> \notin sent[b]
    BY DEF mergeQueueVars, queueVars
  <2> USE DEF QueueInv, QueueTypeOK
  <2>1. PICK p \in Requeuers : Requeue(p)
    BY DEF QueueNext, Implementer, LeavePR, OthersUnblock, Take, EndWithoutPR, StaleBranch, TurnEnds,
           GateBlocks, RecordBlocked, LabelBlocked, GateClears, CreateFails, OpenPR, queueVars
  <2>2. PICK c \in Branches, i \in 0..MaxRetries : Dispatch(p, c, i)
    BY <2>1 DEF Requeue, List, GiveUp, Skip, Resolve, queueVars
  <2>6. target' = [target EXCEPT ![p] = {<<c, i>>}]
    BY <2>2 DEF Dispatch
  <2>7. p = q
    BY <2>6
  <2>8. {<<c, i>>} = {<<b, n>>}
    BY <2>6, <2>7
  <2>10. <<c, i>> \in {<<b, n>>}
    BY <2>8
  <2>9. c = b /\ i = n
    BY <2>10
  <2>3. p = q /\ c = b /\ i = n
    BY <2>7, <2>9
  <2>4. <<b, n>> \in todo[q] /\ n < MaxRetries
    BY <2>2, <2>3 DEF Dispatch, ListedRow, MayDispatch
  <2>5. <<q, n>> \notin sent[b]
    BY <2>4 DEF UsedOK
  <2> QED BY <2>4, <2>5
<1> QED BY QueueInvariant, <1>1, PTL DEF QueueSpec, RetryUsedOnce

-----------------------------------------------------------------------------
(* Calls of the labels.                                                    *)
Steps == {"list", "look", "again", "create", "fetch", "post", "delete", "done"}

LEMMA MinIs ==
  ASSUME NEW S \in SUBSET Nat, S # {}
  PROVE  Min(S) \in S
  BY Least DEF Min

LEMMA IDsTyped ==
  ASSUME repoLabels \in Seq(Names)
  PROVE  \A l : IDs(l) \in SUBSET Nat
  BY DEF IDs

(* The labels of the repository are only added, of the pull requests only  *)
(* spec-proposed is taken away, and never put back.                        *)
LabelsMove ==
  /\ \A l : IDs(l) \subseteq IDs(l)'
  /\ \A p \in Pulls : Named(p, "spec-proposed")' \subseteq Named(p, "spec-proposed")
  /\ \A p \in Pulls : \A l \in {"spec-approved", "spec-implementing"} : Named(p, l) \subseteq Named(p, l)'

LEMMA CallStays ==
  ASSUME LabelsMove, NEW r, r.pull \in Pulls, CallSound(r)
  PROVE  CallSound(r)' /\ (CallDone(r) => CallDone(r)')
  <1>1. CallSound(r)'
    BY DEF LabelsMove, CallSound
  <1>2. CASE r.kind = "remove"
    BY <1>2 DEF LabelsMove, CallSound, CallDone
  <1>3. CASE r.kind = "add"
    BY <1>3 DEF LabelsMove, CallSound, CallDone
  <1> QED BY <1>1, <1>2, <1>3 DEF CallSound

LEMMA Goes ==
  ASSUME request \in [Clients -> {NoRequest} \cup Request], NEW c \in Clients, request[c] \in Request,
         NEW step \in Steps, NEW ids \in SUBSET Nat, GoesTo(c, step, ids)
  PROVE  \E q \in Request :
           /\ request' = [request EXCEPT ![c] = q]
           /\ q.at = step /\ q.ids = ids
           /\ q.kind = request[c].kind /\ q.pull = request[c].pull /\ q.name = request[c].name
  <1>1. PICK r \in Request : r = request[c]
    OBVIOUS
  <1>2. PICK q : q = [r EXCEPT !.at = step, !.ids = ids]
    OBVIOUS
  <1>3. request' = [request EXCEPT ![c] = q]
    BY <1>1, <1>2 DEF GoesTo
  <1>4. q \in Request /\ q.at = step /\ q.ids = ids /\ q.kind = r.kind /\ q.pull = r.pull /\ q.name = r.name
    BY <1>1, <1>2 DEF Request, Steps
  <1> QED BY <1>1, <1>3, <1>4

LEMMA UnderWay ==
  ASSUME request \in [Clients -> {NoRequest} \cup Request], NEW c \in Clients, request[c].at # "none"
  PROVE  request[c] \in Request /\ request[c] # NoRequest
  BY DEF NoRequest

LEMMA NotNone == \A r \in Request : r # NoRequest
  BY DEF Request, NoRequest

(* What a request of a call does: the call goes on, and knows what it did. *)
GoesOn(c, q) ==
  /\ request' = [request EXCEPT ![c] = q] /\ q # NoRequest
  /\ q.kind = request[c].kind /\ q.pull = request[c].pull /\ q.name = request[c].name
  /\ RepoTyped' /\ LabelsMove /\ CallSound(q)'

LEMMA SameLabels ==
  ASSUME UNCHANGED <<repoLabels, attached>>
  PROVE  LabelsMove
  BY DEF LabelsMove, IDs, Named

LEMMA GoesOnQuietly ==
  ASSUME RepoTyped, NEW c \in Clients, request[c] \in Request, UNCHANGED <<repoLabels, attached>>,
         NEW step \in Steps, NEW ids \in SUBSET Nat, GoesTo(c, step, ids), CallSound(request[c]),
         ids \subseteq IDs(request[c].name),
         step \in {"look", "again", "create", "fetch", "post"} => request[c].kind = "add",
         step = "delete" => request[c].kind = "remove",
         step \in {"post", "delete"} => ids # {},
         step # "fetch"
  PROVE  \E q \in Request : q.at = step /\ q.ids = ids /\ GoesOn(c, q)
  <1>1. PICK q \in Request :
           /\ request' = [request EXCEPT ![c] = q]
           /\ q.at = step /\ q.ids = ids
           /\ q.kind = request[c].kind /\ q.pull = request[c].pull /\ q.name = request[c].name
    BY Goes DEF RepoTyped
  <1>2. RepoTyped'
    BY <1>1 DEF RepoTyped
  <1>3. \A l : IDs(l)' = IDs(l)
    BY DEF IDs
  <1>4. CallSound(q)'
    BY <1>1, <1>3 DEF CallSound
  <1> QED BY <1>1, <1>2, <1>4, SameLabels, NotNone DEF GoesOn

LEMMA FailsOn ==
  ASSUME RepoTyped, NEW c \in Clients, request[c] # NoRequest => CallSound(request[c]), RequestFails(c)
  PROVE  \E q \in Request : GoesOn(c, q)
  <1>1. request[c] \in Request /\ CallSound(request[c])
    BY UnderWay DEF RequestFails, RepoTyped
  <1>2. GoesTo(c, "done", {}) /\ UNCHANGED <<repoLabels, attached>>
    BY DEF RequestFails
  <1>3. "done" \in Steps /\ {} \in SUBSET Nat
    BY DEF Steps
  <1> QED BY <1>1, <1>2, <1>3, GoesOnQuietly

LEMMA ListsOn ==
  ASSUME RepoTyped, NEW c \in Clients, request[c] # NoRequest => CallSound(request[c]), ListsLabels(c)
  PROVE  \E q \in Request : GoesOn(c, q) /\ CallDone(q)'
  <1>1. request[c] \in Request /\ CallSound(request[c])
    BY UnderWay DEF ListsLabels, Under, RepoTyped
  <1>2. PICK r \in Request : r = request[c]
    BY <1>1
  <1>3. PICK ids : ids = IDs(r.name)
    OBVIOUS
  <1>4. PICK step : step = IF r.kind = "add" THEN "look" ELSE IF ids = {} THEN "done" ELSE "delete"
    OBVIOUS
  <1>5. GoesTo(c, step, ids) /\ UNCHANGED <<repoLabels, attached>>
    BY <1>2, <1>3, <1>4 DEF ListsLabels, Known
  <1>6. step \in {"look", "done", "delete"} /\ step \in Steps /\ ids \in SUBSET Nat
    BY <1>3, <1>4, IDsTyped DEF Steps, RepoTyped
  <1>7. r.kind \in {"add", "remove"} /\ r.pull \in Pulls
    BY DEF Request
  <1>8. PICK q \in Request : q.at = step /\ q.ids = ids /\ GoesOn(c, q)
    BY <1>1, <1>2, <1>3, <1>4, <1>5, <1>6, <1>7, GoesOnQuietly
  <1>9. q.kind = r.kind /\ q.name = r.name /\ q.pull = r.pull
    BY <1>2, <1>8 DEF GoesOn
  <1>10. Named(r.pull, r.name)' \subseteq IDs(r.name)
    BY <1>5, <1>7 DEF Named, IDs, RepoTyped
  <1>11. CallDone(q)'
    BY <1>3, <1>4, <1>7, <1>8, <1>9, <1>10 DEF CallDone
  <1> QED BY <1>8, <1>11

LEMMA LooksOn ==
  ASSUME RepoTyped, NEW c \in Clients, request[c] # NoRequest => CallSound(request[c]), Looks(c)
  PROVE  \E q \in Request : GoesOn(c, q) /\ CallDone(q)'
  <1>1. request[c] \in Request /\ CallSound(request[c])
    BY UnderWay DEF Looks, Under, RepoTyped
  <1>2. PICK r \in Request : r = request[c]
    BY <1>1
  <1>3. PICK step : step = IF r.name \in NamesOn(r.pull) THEN "done" ELSE IF r.ids = {} THEN "again" ELSE "post"
    OBVIOUS
  <1>4. GoesTo(c, step, r.ids) /\ UNCHANGED <<repoLabels, attached>> /\ r.at = "look"
    BY <1>2, <1>3 DEF Looks, Under
  <1>5. step \in {"done", "again", "post"} /\ step \in Steps /\ r.ids \in SUBSET Nat
    BY <1>3 DEF Steps, Request
  <1>6. r.kind = "add" /\ r.ids \subseteq IDs(r.name)
    BY <1>1, <1>2, <1>4 DEF CallSound
  <1>7. PICK q \in Request : q.at = step /\ q.ids = r.ids /\ GoesOn(c, q)
    BY <1>1, <1>2, <1>3, <1>4, <1>5, <1>6, GoesOnQuietly
  <1>8. q.kind = r.kind /\ q.name = r.name /\ q.pull = r.pull
    BY <1>2, <1>7 DEF GoesOn
  <1>9. r.name \in NamesOn(r.pull) => Named(r.pull, r.name)' # {}
    BY <1>4 DEF Named, NamesOn
  <1>10. CallDone(q)'
    BY <1>3, <1>5, <1>6, <1>7, <1>8, <1>9 DEF CallDone
  <1> QED BY <1>7, <1>10

LEMMA ListsAgainOn ==
  ASSUME RepoTyped, NEW c \in Clients, request[c] # NoRequest => CallSound(request[c]), ListsAgain(c)
  PROVE  \E q \in Request : GoesOn(c, q) /\ CallDone(q)'
  <1>1. request[c] \in Request /\ CallSound(request[c])
    BY UnderWay DEF ListsAgain, Under, RepoTyped
  <1>2. PICK r \in Request : r = request[c]
    BY <1>1
  <1>3. PICK ids : ids = IDs(r.name)
    OBVIOUS
  <1>4. PICK step : step = IF ids = {} THEN "create" ELSE "post"
    OBVIOUS
  <1>5. GoesTo(c, step, ids) /\ UNCHANGED <<repoLabels, attached>> /\ r.at = "again"
    BY <1>2, <1>3, <1>4 DEF ListsAgain, Under
  <1>6. step \in {"create", "post"} /\ step \in Steps /\ ids \in SUBSET Nat
    BY <1>3, <1>4, IDsTyped DEF Steps, RepoTyped
  <1>7. r.kind = "add"
    BY <1>1, <1>2, <1>5 DEF CallSound
  <1>8. PICK q \in Request : q.at = step /\ q.ids = ids /\ GoesOn(c, q)
    BY <1>1, <1>2, <1>3, <1>4, <1>5, <1>6, <1>7, GoesOnQuietly
  <1>9. CallDone(q)'
    BY <1>6, <1>8 DEF CallDone
  <1> QED BY <1>8, <1>9

LEMMA FetchesOn ==
  ASSUME RepoTyped, NEW c \in Clients, request[c] # NoRequest => CallSound(request[c]), Fetches(c)
  PROVE  \E q \in Request : GoesOn(c, q) /\ CallDone(q)'
  <1>1. request[c] \in Request /\ CallSound(request[c])
    BY UnderWay DEF Fetches, Under, RepoTyped
  <1>2. PICK r \in Request : r = request[c]
    BY <1>1
  <1>3. PICK ids : ids = IDs(r.name)
    OBVIOUS
  <1>5. GoesTo(c, "post", ids) /\ UNCHANGED <<repoLabels, attached>> /\ r.at = "fetch"
    BY <1>2, <1>3 DEF Fetches, Under
  <1>6. "post" \in Steps /\ ids \in SUBSET Nat
    BY <1>3, IDsTyped DEF Steps, RepoTyped
  <1>7. r.kind = "add" /\ ids # {}
    BY <1>1, <1>2, <1>3, <1>5 DEF CallSound
  <1>8. PICK q \in Request : q.at = "post" /\ q.ids = ids /\ GoesOn(c, q)
    BY <1>1, <1>2, <1>3, <1>5, <1>6, <1>7, GoesOnQuietly
  <1>9. CallDone(q)'
    BY <1>8 DEF CallDone
  <1> QED BY <1>8, <1>9

LEMMA CreatesOn ==
  ASSUME RepoTyped, NEW c \in Clients, request[c] # NoRequest => CallSound(request[c]),
         request[c].name \in Names, Creates(c)
  PROVE  \E q \in Request : GoesOn(c, q) /\ CallDone(q)'
  <1>1. request[c] \in Request /\ request[c].kind = "add" /\ CallSound(request[c])
    BY UnderWay DEF Creates, Under, RepoTyped, CallSound
  <1>2. PICK n \in Names : n = request[c].name
    OBVIOUS
  <1>3. repoLabels' = Append(repoLabels, n) /\ attached' = attached /\ GoesTo(c, "fetch", {})
    BY <1>2 DEF Creates
  <1>4. "fetch" \in Steps /\ {} \in SUBSET Nat
    BY DEF Steps
  <1>5. PICK q \in Request :
           /\ request' = [request EXCEPT ![c] = q]
           /\ q.at = "fetch" /\ q.ids = {}
           /\ q.kind = request[c].kind /\ q.pull = request[c].pull /\ q.name = request[c].name
    BY <1>1, <1>3, <1>4, Goes DEF RepoTyped
  <1>6. /\ DOMAIN repoLabels' = DOMAIN repoLabels \cup {Len(repoLabels) + 1}
        /\ \A i \in DOMAIN repoLabels : repoLabels'[i] = repoLabels[i]
        /\ repoLabels'[Len(repoLabels) + 1] = n /\ repoLabels' \in Seq(Names)
    BY <1>2, <1>3 DEF RepoTyped
  <1>7. RepoTyped'
    <2>1. attached' \in [Pulls -> SUBSET DOMAIN repoLabels']
      BY <1>3, <1>6 DEF RepoTyped
    <2>2. request' \in [Clients -> {NoRequest} \cup Request]
      BY <1>5 DEF RepoTyped
    <2> QED BY <1>6, <2>1, <2>2 DEF RepoTyped
  <1>8. /\ \A l : IDs(l) \subseteq IDs(l)'
        /\ IDs(n)' # {}
    BY <1>6 DEF IDs
  <1>9. \A p \in Pulls : \A l : Named(p, l)' = Named(p, l)
    BY <1>3, <1>6 DEF Named, RepoTyped
  <1>10. LabelsMove
    BY <1>8, <1>9 DEF LabelsMove
  <1>11. CallSound(q)' /\ CallDone(q)'
    BY <1>1, <1>2, <1>5, <1>8 DEF CallSound, CallDone
  <1> QED BY <1>5, <1>7, <1>10, <1>11, NotNone DEF GoesOn

LEMMA PostsOn ==
  ASSUME RepoTyped, NEW c \in Clients, request[c] # NoRequest => CallSound(request[c]), PostsLabel(c)
  PROVE  \E q \in Request : GoesOn(c, q) /\ CallDone(q)'
  <1>1. request[c] \in Request /\ CallSound(request[c])
    BY UnderWay DEF PostsLabel, Under, RepoTyped
  <1>2. PICK r \in Request : r = request[c]
    BY <1>1
  <1>3. /\ r.kind = "add" /\ r.name \in {"spec-approved", "spec-implementing"} /\ r.pull \in Pulls
        /\ r.ids # {} /\ r.ids \in SUBSET Nat /\ r.ids \subseteq IDs(r.name)
    BY <1>1, <1>2 DEF PostsLabel, Under, CallSound, Request
  <1>4. PICK m : m = Min(r.ids)
    OBVIOUS
  <1>5. m \in DOMAIN repoLabels /\ repoLabels[m] = r.name
    BY <1>3, <1>4, MinIs DEF IDs
  <1>6. repoLabels' = repoLabels /\ attached' = [attached EXCEPT ![r.pull] = @ \cup {m}] /\ GoesTo(c, "done", {})
    BY <1>2, <1>4 DEF PostsLabel
  <1>7. "done" \in Steps /\ {} \in SUBSET Nat
    BY DEF Steps
  <1>8. PICK q \in Request :
           /\ request' = [request EXCEPT ![c] = q]
           /\ q.at = "done" /\ q.ids = {}
           /\ q.kind = r.kind /\ q.pull = r.pull /\ q.name = r.name
    BY <1>1, <1>2, <1>6, <1>7, Goes DEF RepoTyped
  <1>9. attached' \in [Pulls -> SUBSET DOMAIN repoLabels]
    BY <1>5, <1>6 DEF RepoTyped
  <1>10. RepoTyped'
    BY <1>6, <1>8, <1>9 DEF RepoTyped
  <1>11. \A p \in Pulls : attached[p] \subseteq attached'[p] /\ attached'[p] \subseteq attached[p] \cup {m}
    BY <1>6 DEF RepoTyped
  <1>12. m \in attached'[r.pull]
    BY <1>3, <1>6 DEF RepoTyped
  <1>13. LabelsMove
    BY <1>3, <1>5, <1>6, <1>11 DEF LabelsMove, Named, IDs
  <1>14. Named(r.pull, r.name)' # {}
    BY <1>5, <1>6, <1>12 DEF Named
  <1>15. CallSound(q)' /\ CallDone(q)'
    BY <1>3, <1>8, <1>14 DEF CallSound, CallDone
  <1> QED BY <1>2, <1>8, <1>10, <1>13, <1>15, NotNone DEF GoesOn

LEMMA DeletesOn ==
  ASSUME RepoTyped, NEW c \in Clients, request[c] # NoRequest => CallSound(request[c]),
         NEW works \in BOOLEAN, Deletes(c, works)
  PROVE  \E q \in Request : GoesOn(c, q) /\ (works /\ CallDone(request[c]) => CallDone(q)')
  <1>1. request[c] \in Request /\ CallSound(request[c])
    BY UnderWay DEF Deletes, Under, RepoTyped
  <1>2. PICK r \in Request : r = request[c]
    BY <1>1
  <1>3. /\ r.at = "delete" /\ r.kind = "remove" /\ r.name = "spec-proposed" /\ r.pull \in Pulls
        /\ r.ids # {} /\ r.ids \in SUBSET Nat /\ r.ids \subseteq IDs(r.name)
    BY <1>1, <1>2 DEF Deletes, Under, CallSound, Request
  <1>4. PICK m : m = Min(r.ids)
    OBVIOUS
  <1>5. m \in DOMAIN repoLabels /\ repoLabels[m] = "spec-proposed"
    BY <1>3, <1>4, MinIs DEF IDs
  <1>6. PICK rest : rest = r.ids \ {m}
    OBVIOUS
  <1>7. PICK step : step = IF rest = {} THEN "done" ELSE "delete"
    OBVIOUS
  <1>8. /\ repoLabels' = repoLabels /\ GoesTo(c, step, rest)
        /\ attached' = [attached EXCEPT ![r.pull] = IF works THEN @ \ {m} ELSE @]
    BY <1>2, <1>4, <1>6, <1>7 DEF Deletes
  <1>9. step \in Steps /\ step \in {"done", "delete"} /\ rest \in SUBSET Nat
    BY <1>3, <1>6, <1>7 DEF Steps
  <1>10. PICK q \in Request :
           /\ request' = [request EXCEPT ![c] = q]
           /\ q.at = step /\ q.ids = rest
           /\ q.kind = r.kind /\ q.pull = r.pull /\ q.name = r.name
    BY <1>1, <1>2, <1>8, <1>9, Goes DEF RepoTyped
  <1>11. /\ \A p \in Pulls : attached'[p] \subseteq attached[p] /\ attached[p] \subseteq attached'[p] \cup {m}
         /\ works => m \notin attached'[r.pull]
    <2>1. CASE works
      BY <1>3, <1>8, <2>1 DEF RepoTyped
    <2>2. CASE ~works
      BY <1>3, <1>8, <2>2 DEF RepoTyped
    <2> QED BY <2>1, <2>2
  <1>12. attached' \in [Pulls -> SUBSET DOMAIN repoLabels]
    <2>1. attached' = [p \in Pulls |-> attached'[p]]
      BY <1>8 DEF RepoTyped
    <2>2. \A p \in Pulls : attached'[p] \in SUBSET DOMAIN repoLabels
      BY <1>11 DEF RepoTyped
    <2> QED BY <2>1, <2>2
  <1>13. RepoTyped'
    BY <1>8, <1>10, <1>12 DEF RepoTyped
  <1>14. LabelsMove
    BY <1>5, <1>8, <1>11 DEF LabelsMove, Named, IDs
  <1>15. CallSound(q)'
    BY <1>3, <1>6, <1>7, <1>8, <1>10 DEF CallSound, IDs
  <1>16. ASSUME works, CallDone(r) PROVE CallDone(q)'
    <2>1. Named(r.pull, r.name) \subseteq r.ids
      BY <1>3, <1>16 DEF CallDone
    <2>2. Named(r.pull, r.name)' \subseteq rest
      BY <1>3, <1>6, <1>8, <1>11, <1>16, <2>1 DEF Named
    <2> QED BY <1>3, <1>7, <1>10, <2>2 DEF CallDone
  <1> QED BY <1>2, <1>10, <1>13, <1>14, <1>15, <1>16, NotNone DEF GoesOn

LEMMA ServesOn ==
  ASSUME RepoTyped, NEW c \in Clients,
         request[c] # NoRequest => CallSound(request[c]) /\ request[c].name \in Names, Serves(c)
  PROVE  \E q \in Request : GoesOn(c, q) /\ (CallDone(request[c]) => CallDone(q)')
  <1>1. Creates(c) => request[c].name \in Names
    BY UnderWay DEF Creates, Under, RepoTyped
  <1> QED BY <1>1, ListsOn, LooksOn, ListsAgainOn, CreatesOn, FetchesOn, PostsOn, DeletesOn DEF Serves

-----------------------------------------------------------------------------
(* Where the two goroutines of a pull request are.                         *)
GenAt(p, step) ==
  /\ DOMAIN gen' = Pulls /\ (\A s \in Pulls : "at" \in DOMAIN gen'[s])
  /\ gen'[p].at = step /\ \A s \in Pulls : s # p => gen'[s] = gen[s]

LEMMA OneField ==
  ASSUME Places, NEW p \in Pulls, NEW step, gen' = [gen EXCEPT ![p].at = step]
  PROVE  GenAt(p, step)
  BY DEF Places, GenAt

LEMMA ReadsAt ==
  ASSUME Places, NEW p \in Pulls, Reads(p)
  PROVE  GenAt(p, "create")
  <1>1. PICK lang, s, t :
           gen' = [gen EXCEPT ![p].at = "create", ![p].lang = lang, ![p].serial = s, ![p].parallel = t]
    BY DEF Reads
  <1> QED BY <1>1 DEF Places, GenAt

LEMMA SerialAt ==
  ASSUME Places, NEW p \in Pulls, CreatesSerial(p)
  PROVE  GenAt(p, gen[p].at)
  <1>1. PICK f, s, t :
           gen' = [gen EXCEPT ![p].serial = s, ![p].last = t, ![p].failed = f]
    BY DEF CreatesSerial
  <1> QED BY <1>1 DEF Places, GenAt

LEMMA ParallelAt ==
  ASSUME Places, NEW p \in Pulls, CreatesParallel(p)
  PROVE  GenAt(p, gen[p].at)
  <1>1. PICK f, s :
           gen' = [gen EXCEPT ![p].parallel = s, ![p].failed = f]
    BY DEF CreatesParallel
  <1> QED BY <1>1 DEF Places, GenAt

LEMMA Two == /\ "spec" \in Pulls /\ "work" \in Pulls /\ \A p \in Pulls : p = "spec" \/ p = "work"
             /\ \A p \in Pulls : <<p, "issues">> \in Clients /\ <<p, "labels">> \in Clients
             /\ \A p, s \in Pulls : <<p, "issues">> # <<s, "labels">>
  BY SpecCycleAssumption DEF Callers

LEMMA CycleStart == CycleInit => CycleInv
  <1> SUFFICES ASSUME CycleInit PROVE CycleInv
    OBVIOUS
  <1>1. \A p \in Pulls : gen[p].at = "none" /\ "at" \in DOMAIN gen[p] /\ lab[p] = "none" /\ merged[p].is = FALSE
    BY DEF CycleInit, NoGen, NotMerged
  <1>2. Places
    BY <1>1 DEF CycleInit, Places
  <1>3. RepoTyped
    BY SpecCycleAssumption DEF CycleInit, RepoTyped
  <1>4. CallsOK
    BY DEF CycleInit, CallsOK
  <1>5. CallersOK /\ SpecOfChange /\ LabelsGotThere
    BY <1>1, Two DEF CallersOK, SpecOfChange, LabelsGotThere
  <1> QED BY <1>2, <1>3, <1>4, <1>5 DEF CycleInv

(* Steps that make no request and end none.                                *)
LEMMA QuietCalls ==
  ASSUME CycleInv, Quiet, Places',
         \A p \in Pulls : lab'[p] \in {"remove", "add"} => lab'[p] = lab[p],
         \A p \in Pulls : gen'[p].at = "label" => gen[p].at = "label"
  PROVE  RepoTyped' /\ Places' /\ CallsOK' /\ CallersOK'
  <1>1. UNCHANGED <<repoLabels, attached, request, slips>>
    BY DEF Quiet, labelVars
  <1>2. RepoTyped'
    BY <1>1 DEF CycleInv, RepoTyped
  <1>3. CallsOK'
    BY <1>1 DEF CycleInv, CallsOK, CallSound, CallDone, IDs, Named
  <1>4. \A c, kind, p, l : Calling(c, kind, p, l)' = Calling(c, kind, p, l)
    BY <1>1 DEF Calling
  <1>5. CallersOK'
    <2> SUFFICES ASSUME NEW p \in Pulls
                 PROVE  /\ lab'[p] = "remove" => Calling(<<p, "labels">>, "remove", p, "spec-proposed")'
                        /\ lab'[p] = "add" => Calling(<<p, "labels">>, "add", p, "spec-approved")'
                        /\ gen'[p].at = "label" => Calling(<<p, "issues">>, "add", p, "spec-implementing")'
      BY DEF CallersOK
    <2>1. lab'[p] \in {"remove", "add"} => lab[p] = lab'[p]
      OBVIOUS
    <2>2. gen'[p].at = "label" => gen[p].at = "label"
      OBVIOUS
    <2> QED BY <1>4, <2>1, <2>2 DEF CycleInv, CallersOK
  <1> QED BY <1>2, <1>3, <1>5

LEMMA QuietLabels ==
  ASSUME CycleInv, Quiet, lab'["spec"] \in {"add", "end"} => lab'["spec"] = lab["spec"],
         gen'["spec"].at = "end" => gen["spec"].at = "end"
  PROVE  LabelsGotThere'
  BY DEF CycleInv, Quiet, labelVars, LabelsGotThere, Named

LEMMA MergesKeep ==
  ASSUME CycleInv, MergesSpec \/ MergesWork
  PROVE  CycleInv'
  <1>0. PICK p \in Pulls : \E ticked, ofChange : Merges(p, ticked, ofChange) /\ (p = "spec" => ofChange = TRUE)
    BY Two DEF MergesSpec, MergesWork
  <1>1. PICK ticked, ofChange : Merges(p, ticked, ofChange) /\ (p = "spec" => ofChange = TRUE)
    BY <1>0
  <1>2. UNCHANGED <<gen, lab>> /\ Quiet
    BY <1>1 DEF Merges
  <1>3. PICK m : m = [ticked |-> ticked, ofChange |-> ofChange, is |-> TRUE]
    OBVIOUS
  <1>4. merged' = [merged EXCEPT ![p] = m] /\ m.is = TRUE /\ m.ofChange = ofChange
    BY <1>1, <1>3 DEF Merges
  <1>5. Places'
    BY <1>2, <1>4 DEF CycleInv, Places
  <1>6. SpecOfChange'
    <2>1. p = "spec" => merged'["spec"] = m
      BY <1>4, Two DEF CycleInv, Places
    <2>2. p # "spec" => merged'["spec"] = merged["spec"]
      BY <1>4, Two DEF CycleInv, Places
    <2> QED BY <1>1, <1>2, <1>4, <2>1, <2>2 DEF CycleInv, SpecOfChange, OfChange
  <1> QED BY <1>2, <1>5, <1>6, QuietCalls, QuietLabels DEF CycleInv

LEMMA HandlesKeeps ==
  ASSUME CycleInv, NEW p \in Pulls, Handles(p)
  PROVE  CycleInv'
  <1>1. GenAt(p, "detect") /\ Quiet /\ merged' = merged /\ merged[p].is
    BY OneField DEF Handles, CycleInv
  <1>2. /\ DOMAIN lab' = Pulls /\ lab'[p] = (IF p = "spec" THEN "look" ELSE "end")
        /\ \A s \in Pulls : s # p => lab'[s] = lab[s]
    BY DEF Handles, CycleInv, Places
  <1>3. Places'
    BY <1>1, <1>2 DEF CycleInv, Places, GenAt
  <1>4. SpecOfChange'
    BY <1>1, Two DEF CycleInv, SpecOfChange, OfChange, GenAt
  <1>5. RepoTyped' /\ CallsOK' /\ CallersOK'
    BY <1>1, <1>2, <1>3, QuietCalls DEF GenAt
  <1>6. LabelsGotThere'
    BY <1>1, <1>2, Two, QuietLabels DEF GenAt
  <1> QED BY <1>3, <1>4, <1>5, <1>6 DEF CycleInv

(* The generation of the issues.                                           *)
LEMMA GenKeeps ==
  ASSUME CycleInv, NEW p \in Pulls, NEW step, GenAt(p, step), GenStays, Quiet,
         step # "label", step # "detect" \/ gen[p].at = "detect",
         step = "end" /\ p = "spec" => gen[p].at = "end"
  PROVE  CycleInv'
  <1>1. Places'
    BY DEF CycleInv, Places, GenAt, GenStays
  <1>2. SpecOfChange'
    BY Two DEF CycleInv, SpecOfChange, OfChange, GenAt, GenStays
  <1>3. RepoTyped' /\ CallsOK' /\ CallersOK'
    BY <1>1, QuietCalls DEF GenAt, GenStays
  <1>4. LabelsGotThere'
    BY Two, QuietLabels DEF GenAt, GenStays
  <1> QED BY <1>1, <1>2, <1>3, <1>4 DEF CycleInv

LEMMA GenerationKeeps ==
  ASSUME CycleInv, NEW p \in Pulls,
         GivesUp(p) \/ Detects(p) \/ Reads(p) \/ CreatesSerial(p) \/ CreatesParallel(p)
  PROVE  CycleInv'
  <1>1. Places
    BY DEF CycleInv
  <1>2. CASE GivesUp(p)
    BY <1>1, <1>2, OneField, GenKeeps DEF GivesUp
  <1>3. CASE Detects(p)
    <2>1. gen[p].at = "detect" /\ (p = "spec" => OfChange(p))
      BY <1>3 DEF Detects, At, CycleInv, SpecOfChange
    <2>2. PICK step \in {"read", "end"} : step = (IF OfChange(p) THEN "read" ELSE "end") /\ GenAt(p, step)
      BY <1>1, <1>3, OneField DEF Detects
    <2> QED BY <1>3, <2>1, <2>2, GenKeeps DEF Detects
  <1>4. CASE Reads(p)
    BY <1>1, <1>4, ReadsAt, GenKeeps DEF Reads
  <1>5. CASE CreatesSerial(p)
    <2>1. gen[p].at = "create" /\ GenStays /\ Quiet
      BY <1>5 DEF CreatesSerial, At
    <2> QED BY <1>1, <1>5, <2>1, SerialAt, GenKeeps
  <1>6. CASE CreatesParallel(p)
    <2>1. gen[p].at = "create" /\ GenStays /\ Quiet
      BY <1>6 DEF CreatesParallel, At
    <2> QED BY <1>1, <1>6, <2>1, ParallelAt, GenKeeps
  <1> QED BY <1>2, <1>3, <1>4, <1>5, <1>6

-----------------------------------------------------------------------------
(* Steps that make a request or end one.                                   *)
LEMMA CallMade ==
  ASSUME RepoTyped, CallsOK, NEW c \in Clients, NEW p \in Pulls, NEW kind, NEW l,
         \/ kind = "remove" /\ l = "spec-proposed"
         \/ kind = "add" /\ l \in {"spec-approved", "spec-implementing"},
         Call(c, kind, p, l), UNCHANGED slips
  PROVE  /\ RepoTyped' /\ CallsOK' /\ UNCHANGED <<repoLabels, attached>>
         /\ Calling(c, kind, p, l)' /\ \A d \in Clients : d # c => request'[d] = request[d]
  <1>1. PICK q : q = [at |-> "list", kind |-> kind, pull |-> p, name |-> l, ids |-> {}]
    OBVIOUS
  <1>2. request' = [request EXCEPT ![c] = q] /\ UNCHANGED <<repoLabels, attached>>
    BY <1>1 DEF Call
  <1>3. l \in Names /\ kind \in {"add", "remove"}
    BY SpecCycleAssumption
  <1>4. q \in Request /\ q.at = "list" /\ q.kind = kind /\ q.pull = p /\ q.name = l /\ q.ids = {}
    BY <1>1, <1>3 DEF Request
  <1>5. RepoTyped'
    BY <1>2, <1>4 DEF RepoTyped
  <1>6. request'[c] = q /\ \A d \in Clients : d # c => request'[d] = request[d]
    BY <1>2 DEF RepoTyped
  <1>7. Calling(c, kind, p, l)'
    BY <1>4, <1>6, NotNone DEF Calling
  <1>8. \A r : CallSound(r)' = CallSound(r) /\ CallDone(r)' = CallDone(r)
    BY <1>2 DEF CallSound, CallDone, IDs, Named
  <1>9. CallSound(q) /\ CallDone(q)
    BY <1>4 DEF CallSound, CallDone
  <1>10. CallsOK'
    <2> SUFFICES ASSUME NEW d \in Clients, request'[d] # NoRequest
                 PROVE  (CallSound(request[d]) /\ (request[d].name \notin slips => CallDone(request[d])))'
      BY DEF CallsOK
    <2>0. PICK r : r = request'[d]
      OBVIOUS
    <2>3. CallSound(r) /\ (r.name \notin slips => CallDone(r))
      <3>1. CASE d = c
        BY <1>6, <1>9, <2>0, <3>1
      <3>2. CASE d # c
        BY <1>6, <2>0, <3>2 DEF CallsOK
      <3> QED BY <3>1, <3>2
    <2>4. CallSound(r)' /\ (r.name \notin slips' => CallDone(r)')
      BY <1>8, <2>3
    <2> QED BY <2>0, <2>4
  <1> QED BY <1>2, <1>5, <1>6, <1>7, <1>10

LEMMA ImplementingKeeps ==
  ASSUME CycleInv, NEW p \in Pulls, Implementing(p)
  PROVE  CycleInv'
  <1>1. GenAt(p, "label") /\ GenStays /\ UNCHANGED slips
    BY OneField DEF CycleInv, Implementing
  <1>2. /\ RepoTyped' /\ CallsOK' /\ UNCHANGED <<repoLabels, attached>>
        /\ Calling(<<p, "issues">>, "add", p, "spec-implementing")'
        /\ \A d \in Clients : d # <<p, "issues">> => request'[d] = request[d]
    BY <1>1, Two, CallMade DEF CycleInv, Implementing
  <1>3. Places'
    BY <1>1 DEF CycleInv, Places, GenAt, GenStays
  <1>4. SpecOfChange'
    BY <1>1, Two DEF CycleInv, SpecOfChange, OfChange, GenAt, GenStays
  <1>5. LabelsGotThere'
    BY <1>1, <1>2, Two DEF CycleInv, LabelsGotThere, Named, GenAt, GenStays
  <1>6. CallersOK'
    <2> SUFFICES ASSUME NEW s \in Pulls
                 PROVE  /\ lab'[s] = "remove" => Calling(<<s, "labels">>, "remove", s, "spec-proposed")'
                        /\ lab'[s] = "add" => Calling(<<s, "labels">>, "add", s, "spec-approved")'
                        /\ gen'[s].at = "label" => Calling(<<s, "issues">>, "add", s, "spec-implementing")'
      BY DEF CallersOK
    <2>1. request'[<<s, "labels">>] = request[<<s, "labels">>] /\ lab'[s] = lab[s]
      BY <1>1, <1>2, Two DEF GenStays
    <2>2. s # p => request'[<<s, "issues">>] = request[<<s, "issues">>] /\ gen'[s] = gen[s]
      BY <1>1, <1>2, Two DEF GenAt
    <2> QED BY <1>2, <2>1, <2>2 DEF CycleInv, CallersOK, Calling
  <1> QED BY <1>2, <1>3, <1>4, <1>5, <1>6 DEF CycleInv

(* A call that has returned without a slip has done what it was for.       *)
LEMMA CallOver ==
  ASSUME CycleInv, NEW c \in Clients, NEW kind, NEW p \in Pulls, NEW l, Calling(c, kind, p, l), Returned(c),
         l \notin slips
  PROVE  IF kind = "remove" THEN Named(p, l) = {} ELSE Named(p, l) # {}
  BY DEF CycleInv, CallsOK, Calling, Returned, CallDone

LEMMA EndsKeeps ==
  ASSUME CycleInv, NEW p \in Pulls, Ends(p)
  PROVE  CycleInv'
  <1>1. GenAt(p, "end") /\ GenStays /\ Quiet /\ gen[p].at = "label" /\ Returned(<<p, "issues">>)
    BY OneField DEF CycleInv, Ends, At
  <1>2. Places'
    BY <1>1 DEF CycleInv, Places, GenAt, GenStays
  <1>3. SpecOfChange'
    BY <1>1, Two DEF CycleInv, SpecOfChange, OfChange, GenAt, GenStays
  <1>4. RepoTyped' /\ CallsOK' /\ CallersOK'
    BY <1>1, <1>2, QuietCalls DEF GenAt, GenStays
  <1>5. p = "spec" /\ "spec-implementing" \notin slips => Named("spec", "spec-implementing") # {}
    <2>1. Calling(<<p, "issues">>, "add", p, "spec-implementing") /\ <<p, "issues">> \in Clients
      BY <1>1, Two DEF CycleInv, CallersOK
    <2> QED BY <1>1, <2>1, CallOver
  <1>6. LabelsGotThere'
    BY <1>1, <1>5, Two DEF CycleInv, LabelsGotThere, Named, GenAt, GenStays, Quiet, labelVars
  <1> QED BY <1>2, <1>3, <1>4, <1>6 DEF CycleInv

-----------------------------------------------------------------------------
(* The goroutine of the labels.                                            *)
LabAt(p, step) ==
  /\ DOMAIN lab' = Pulls /\ lab'[p] = step /\ \A s \in Pulls : s # p => lab'[s] = lab[s]
  /\ UNCHANGED <<merged, gen, slips>>

LEMMA LabStepAt ==
  ASSUME Places, NEW p \in Pulls, NEW from, NEW to, LabStep(p, from, to)
  PROVE  lab[p] = from /\ LabAt(p, to)
  BY DEF Places, LabStep, LabAt

LEMMA LabPlaces ==
  ASSUME CycleInv, NEW p \in Pulls, NEW step, LabAt(p, step)
  PROVE  Places' /\ SpecOfChange'
  BY DEF CycleInv, Places, SpecOfChange, OfChange, LabAt

LEMMA LabelsSkippedKeeps ==
  ASSUME CycleInv, NEW p \in Pulls, LabelsSkipped(p)
  PROVE  CycleInv'
  <1>1. LabAt(p, "cut") /\ Quiet
    BY LabStepAt DEF CycleInv, LabelsSkipped, LabStep, Quiet
  <1>2. Places' /\ SpecOfChange'
    BY <1>1, LabPlaces
  <1>3. RepoTyped' /\ CallsOK' /\ CallersOK'
    BY <1>1, <1>2, QuietCalls DEF LabAt
  <1>4. LabelsGotThere'
    BY <1>1, Two, QuietLabels DEF LabAt
  <1> QED BY <1>2, <1>3, <1>4 DEF CycleInv

LEMMA LabelsEndKeeps ==
  ASSUME CycleInv, NEW p \in Pulls, LabelsEnd(p)
  PROVE  CycleInv'
  <1>1. LabAt(p, "end") /\ Quiet /\ lab[p] = "add" /\ Returned(<<p, "labels">>)
    BY LabStepAt DEF CycleInv, LabelsEnd, LabStep, Quiet
  <1>2. Places' /\ SpecOfChange'
    BY <1>1, LabPlaces
  <1>3. RepoTyped' /\ CallsOK' /\ CallersOK'
    BY <1>1, <1>2, QuietCalls DEF LabAt
  <1>4. "spec-approved" \notin slips => Named(p, "spec-approved") # {}
    <2>1. Calling(<<p, "labels">>, "add", p, "spec-approved") /\ <<p, "labels">> \in Clients
      BY <1>1, Two DEF CycleInv, CallersOK
    <2> QED BY <1>1, <2>1, CallOver
  <1>5. LabelsGotThere'
    BY <1>1, <1>4, Two DEF CycleInv, LabelsGotThere, Named, LabAt, Quiet, labelVars
  <1> QED BY <1>2, <1>3, <1>5 DEF CycleInv

(* The next call of the goroutine.                                         *)
LEMMA LabCalls ==
  ASSUME CycleInv, NEW p \in Pulls, NEW kind, NEW l, NEW step,
         \/ kind = "remove" /\ l = "spec-proposed" /\ step = "remove"
         \/ kind = "add" /\ l = "spec-approved" /\ step = "add",
         Call(<<p, "labels">>, kind, p, l), LabAt(p, step)
  PROVE  RepoTyped' /\ CallsOK' /\ CallersOK' /\ UNCHANGED <<repoLabels, attached>>
  <1>1. /\ RepoTyped' /\ CallsOK' /\ UNCHANGED <<repoLabels, attached>>
        /\ Calling(<<p, "labels">>, kind, p, l)'
        /\ \A d \in Clients : d # <<p, "labels">> => request'[d] = request[d]
    BY Two, CallMade DEF CycleInv, LabAt
  <1>2. CallersOK'
    <2> SUFFICES ASSUME NEW s \in Pulls
                 PROVE  /\ lab'[s] = "remove" => Calling(<<s, "labels">>, "remove", s, "spec-proposed")'
                        /\ lab'[s] = "add" => Calling(<<s, "labels">>, "add", s, "spec-approved")'
                        /\ gen'[s].at = "label" => Calling(<<s, "issues">>, "add", s, "spec-implementing")'
      BY DEF CallersOK
    <2>1. request'[<<s, "issues">>] = request[<<s, "issues">>] /\ gen'[s] = gen[s]
      BY <1>1, Two DEF LabAt
    <2>2. s # p => request'[<<s, "labels">>] = request[<<s, "labels">>] /\ lab'[s] = lab[s]
      BY <1>1, Two DEF LabAt
    <2>3. s = p => lab'[s] = step
      BY DEF LabAt
    <2> QED BY <1>1, <2>1, <2>2, <2>3 DEF CycleInv, CallersOK, Calling
  <1> QED BY <1>1, <1>2

LEMMA UnproposesKeeps ==
  ASSUME CycleInv, NEW p \in Pulls, Unproposes(p)
  PROVE  CycleInv'
  <1>1. LabAt(p, "remove") /\ Call(<<p, "labels">>, "remove", p, "spec-proposed")
    BY LabStepAt DEF CycleInv, Unproposes
  <1>2. Places' /\ SpecOfChange'
    BY <1>1, LabPlaces
  <1>3. RepoTyped' /\ CallsOK' /\ CallersOK' /\ UNCHANGED <<repoLabels, attached>>
    BY <1>1, LabCalls
  <1>4. LabelsGotThere'
    BY <1>1, <1>3, Two DEF CycleInv, LabelsGotThere, Named, LabAt
  <1> QED BY <1>2, <1>3, <1>4 DEF CycleInv

LEMMA ApprovesKeeps ==
  ASSUME CycleInv, NEW p \in Pulls, Approves(p)
  PROVE  CycleInv'
  <1>1. LabAt(p, "add") /\ Call(<<p, "labels">>, "add", p, "spec-approved") /\ lab[p] = "remove" /\ Returned(<<p, "labels">>)
    BY LabStepAt DEF CycleInv, Approves
  <1>2. Places' /\ SpecOfChange'
    BY <1>1, LabPlaces
  <1>3. RepoTyped' /\ CallsOK' /\ CallersOK' /\ UNCHANGED <<repoLabels, attached>>
    BY <1>1, LabCalls
  <1>4. "spec-proposed" \notin slips => Named(p, "spec-proposed") = {}
    <2>1. Calling(<<p, "labels">>, "remove", p, "spec-proposed") /\ <<p, "labels">> \in Clients
      BY <1>1, Two DEF CycleInv, CallersOK
    <2> QED BY <1>1, <2>1, CallOver
  <1>5. LabelsGotThere'
    BY <1>1, <1>3, <1>4, Two DEF CycleInv, LabelsGotThere, Named, LabAt
  <1> QED BY <1>2, <1>3, <1>5 DEF CycleInv

-----------------------------------------------------------------------------
(* What a request changes is what its own call is for.                     *)
LEMMA GoesOnKeeps ==
  ASSUME CycleInv, NEW c \in Clients, NEW q \in Request, GoesOn(c, q),
         UNCHANGED <<merged, gen, lab>>, slips \subseteq slips',
         q.name \notin slips' => CallDone(q)'
  PROVE  CycleInv'
  <1>1. request'[c] = q /\ \A d \in Clients : d # c => request'[d] = request[d]
    BY DEF GoesOn, CycleInv, RepoTyped
  <1>2. CallsOK'
    <2> SUFFICES ASSUME NEW d \in Clients, request'[d] # NoRequest
                 PROVE  (CallSound(request[d]) /\ (request[d].name \notin slips => CallDone(request[d])))'
      BY DEF CallsOK
    <2>1. PICK r : r = request'[d]
      OBVIOUS
    <2>2. CASE d = c
      BY <1>1, <2>1, <2>2 DEF GoesOn
    <2>3. CASE d # c
      <3>1. r = request[d] /\ r \in Request /\ r.pull \in Pulls
        BY <1>1, <2>1, <2>3 DEF CycleInv, RepoTyped, Request
      <3>2. CallSound(r) /\ (r.name \notin slips => CallDone(r))
        BY <2>1, <3>1 DEF CycleInv, CallsOK
      <3>3. CallSound(r)' /\ (CallDone(r) => CallDone(r)')
        BY <3>1, <3>2, CallStays DEF GoesOn
      <3> QED BY <2>1, <3>2, <3>3
    <2> QED BY <2>2, <2>3
  <1>3. \A d \in Clients : \A kind, p, l : Calling(d, kind, p, l) => Calling(d, kind, p, l)'
    BY <1>1 DEF Calling, GoesOn
  <1>4. CallersOK'
    BY <1>3, Two DEF CycleInv, CallersOK
  <1>5. Places' /\ SpecOfChange'
    BY DEF CycleInv, Places, SpecOfChange, OfChange
  <1>6. LabelsGotThere'
    BY Two DEF CycleInv, LabelsGotThere, GoesOn, LabelsMove
  <1> QED BY <1>2, <1>4, <1>5, <1>6 DEF CycleInv, GoesOn

LEMMA RequestsKeep ==
  ASSUME CycleInv, NEW c \in Clients, Requests(c)
  PROVE  CycleInv'
  <1>1. request[c] # NoRequest => CallSound(request[c]) /\ (request[c].name \notin slips => CallDone(request[c]))
    BY DEF CycleInv, CallsOK
  <1>2. RepoTyped
    BY DEF CycleInv
  <1>3. request[c] # NoRequest => request[c].name \in Names
    BY <1>2 DEF RepoTyped, Request
  <1>4. CASE UNCHANGED cycleVars /\ Serves(c)
    <2>1. PICK q \in Request : GoesOn(c, q) /\ (CallDone(request[c]) => CallDone(q)')
      BY <1>1, <1>2, <1>3, <1>4, ServesOn
    <2>2. request[c] # NoRequest
      BY <1>4 DEF Serves, ListsLabels, Looks, ListsAgain, Creates, Fetches, PostsLabel, Deletes, Under, NoRequest
    <2>3. q.name \notin slips' => CallDone(q)'
      BY <1>1, <1>4, <2>1, <2>2 DEF GoesOn, cycleVars
    <2> QED BY <1>4, <2>1, <2>3, GoesOnKeeps DEF cycleVars
  <1>5. CASE /\ UNCHANGED <<shape, done, merged, gen, lab, issues>>
             /\ RequestFails(c) \/ Deletes(c, FALSE)
             /\ slips' = slips \cup {request[c].name}
    <2>1. PICK q \in Request : GoesOn(c, q)
      BY <1>1, <1>2, <1>5, FailsOn, DeletesOn
    <2>2. q.name \in slips'
      BY <1>5, <2>1 DEF GoesOn
    <2> QED BY <1>5, <2>1, <2>2, GoesOnKeeps
  <1> QED BY <1>4, <1>5 DEF Requests

LEMMA CrashKeeps ==
  ASSUME CycleInv, Crash
  PROVE  CycleInv'
  <1>1. /\ \A p \in Pulls : /\ "at" \in DOMAIN gen'[p]
                            /\ gen'[p].at = "cut" \/ (gen'[p].at = gen[p].at /\ gen[p].at \in {"none", "end"})
        /\ DOMAIN gen' = Pulls
    BY DEF CycleInv, Crash, Places
  <1>2. /\ DOMAIN lab' = Pulls
        /\ \A p \in Pulls : lab'[p] = "cut" \/ (lab'[p] = lab[p] /\ lab[p] \in {"none", "end"})
    BY DEF CycleInv, Crash, Places
  <1>3. /\ UNCHANGED <<merged, slips, repoLabels, attached>>
        /\ request' \in [Clients -> {NoRequest}]
    BY DEF Crash
  <1>4. RepoTyped' /\ CallsOK'
    BY <1>3 DEF CycleInv, RepoTyped, CallsOK
  <1>5. Places' /\ CallersOK'
    BY <1>1, <1>2, <1>3 DEF CycleInv, Places, CallersOK
  <1>6. SpecOfChange' /\ LabelsGotThere'
    BY <1>1, <1>2, <1>3, Two DEF CycleInv, SpecOfChange, OfChange, LabelsGotThere, Named
  <1> QED BY <1>4, <1>5, <1>6 DEF CycleInv

LEMMA CycleStep == CycleInv /\ [CycleNext]_allCycleVars => CycleInv'
  <1> SUFFICES ASSUME CycleInv, [CycleNext]_allCycleVars PROVE CycleInv'
    OBVIOUS
  <1>1. CASE UNCHANGED allCycleVars
    <2>1. UNCHANGED <<merged, gen, lab, slips>> /\ Quiet
      BY <1>1 DEF allCycleVars, cycleVars, Quiet, labelVars
    <2>2. Places' /\ SpecOfChange'
      BY <2>1 DEF CycleInv, Places, SpecOfChange, OfChange
    <2> QED BY <2>1, <2>2, QuietCalls, QuietLabels DEF CycleInv
  <1>2. CASE MergesSpec \/ MergesWork
    BY <1>2, MergesKeep
  <1>3. CASE Crash
    BY <1>3, CrashKeeps
  <1>4. ASSUME NEW p \in Pulls, Handles(p) PROVE CycleInv'
    BY <1>4, HandlesKeeps
  <1>5. ASSUME NEW p \in Pulls,
               GivesUp(p) \/ Detects(p) \/ Reads(p) \/ CreatesSerial(p) \/ CreatesParallel(p)
        PROVE  CycleInv'
    BY <1>5, GenerationKeeps
  <1>6. ASSUME NEW p \in Pulls, Implementing(p) \/ Ends(p) PROVE CycleInv'
    BY <1>6, ImplementingKeeps, EndsKeeps
  <1>7. ASSUME NEW p \in Pulls, LabelsSkipped(p) \/ Unproposes(p) \/ Approves(p) \/ LabelsEnd(p) PROVE CycleInv'
    BY <1>7, LabelsSkippedKeeps, UnproposesKeeps, ApprovesKeeps, LabelsEndKeeps
  <1>8. ASSUME NEW c \in Clients, Requests(c) PROVE CycleInv'
    BY <1>8, RequestsKeep
  <1> QED BY <1>1, <1>2, <1>3, <1>4, <1>5, <1>6, <1>7, <1>8 DEF CycleNext

(* The labels of the specification's pull request are right when the       *)
(* goroutines of its merge are through, whatever requests of other calls   *)
(* came in between, up to the labels whose own call had one that failed    *)
(* (handleSpecLifecycleLabels, handleSpecPRMerged).                        *)
THEOREM SpecLabelsSettle == CycleSpec => []LabelsSettle
  <1>1. CycleInv => LabelsSettle
    BY DEF CycleInv, LabelsGotThere, LabelsSettle, NamesOn, Named
  <1> QED BY <1>1, CycleStart, CycleStep, PTL DEF CycleSpec

-----------------------------------------------------------------------------
(* The tasks of a set can be put in order: the last of them after the      *)
(* others.                                                                 *)
Ordered(T) == \E f \in [1..Cardinality(T) -> T] : \A i, j \in DOMAIN f : i < j => f[i] < f[j]

LEMMA OneAfter ==
  ASSUME NEW n \in Nat, NEW T \in SUBSET (1..(n + 1)), n + 1 \in T, Ordered(T \ {n + 1})
  PROVE  Ordered(T)
  <1> DEFINE U == T \ {n + 1}
  <1>1. PICK f \in [1..Cardinality(U) -> U] : \A i, j \in DOMAIN f : i < j => f[i] < f[j]
    BY DEF Ordered
  <1>2. U \in SUBSET (1..n) /\ T = U \cup {n + 1} /\ n + 1 \notin U
    OBVIOUS
  <1>3. IsFiniteSet(U)
    <2>1. IsFiniteSet(1..n)
      BY FS_Interval
    <2> QED BY <1>2, <2>1, FS_Subset
  <1>4. PICK k \in Nat : Cardinality(U) = k /\ Cardinality(T) = k + 1
    <2>1. Cardinality(U) \in Nat
      BY <1>3, FS_CardinalityType
    <2>2. Cardinality(U \cup {n + 1}) = Cardinality(U) + 1
      BY <1>2, <1>3, FS_AddElement
    <2> QED BY <1>2, <2>1, <2>2
  <1>5. PICK g : g = [i \in 1..(k + 1) |-> IF i = k + 1 THEN n + 1 ELSE f[i]]
    OBVIOUS
  <1> HIDE DEF U
  <1>6. g \in [1..(k + 1) -> T]
    BY <1>1, <1>2, <1>4, <1>5
  <1>7. ASSUME NEW i \in 1..(k + 1), NEW j \in 1..(k + 1), i < j PROVE g[i] < g[j]
    <2>1. i \in 1..k /\ g[i] = f[i]
      BY <1>5, <1>7
    <2>4. f[i] \in 1..n
      BY <1>1, <1>2, <1>4, <2>1
    <2>2. CASE j = k + 1
      <3>1. g[j] = n + 1
        BY <1>5, <2>2
      <3> QED BY <2>1, <2>4, <3>1
    <2>3. CASE j # k + 1
      <3>1. j \in 1..k /\ g[j] = f[j]
        BY <1>5, <2>3
      <3> QED BY <1>1, <1>4, <1>7, <2>1, <3>1
    <2> QED BY <2>2, <2>3
  <1> QED BY <1>4, <1>6, <1>7 DEF Ordered

LEMMA Orders ==
  ASSUME NEW n \in Nat, NEW T \in SUBSET (1..n)
  PROVE  Ordered(T)
  <1> DEFINE Bad == {m \in Nat : \E U \in SUBSET (1..m) : ~Ordered(U)}
  <1>1. SUFFICES ASSUME Bad # {} PROVE FALSE
    OBVIOUS
  <1>2. PICK m \in Bad : \A x \in Bad : m <= x
    BY <1>1, Least
  <1>3. PICK U \in SUBSET (1..m) : ~Ordered(U)
    BY <1>2
  <1>4. CASE m = 0
    <2>1. U = {}
      BY <1>3, <1>4
    <2>4. Cardinality(U) = 0
      BY <2>1, FS_EmptySet
    <2>2. PICK f : f = [i \in {} |-> 0]
      OBVIOUS
    <2>3. f \in [1..0 -> {}]
      BY <2>2
    <2> QED BY <1>3, <2>1, <2>3, <2>4 DEF Ordered
  <1>5. CASE m # 0
    <2>1. PICK k \in Nat : m = k + 1
      <3>1. m \in Nat /\ m - 1 \in Nat /\ m = (m - 1) + 1
        BY <1>2, <1>5
      <3> QED BY <3>1
    <2>2. k \notin Bad
      <3>1. ~(m <= k)
        BY <2>1
      <3> QED BY <1>2, <3>1, Zenon
    <2>3. U \ {m} \in SUBSET (1..k)
      BY <1>3, <2>1
    <2>4. Ordered(U \ {m})
      BY <2>2, <2>3
    <2>5. CASE m \in U
      BY <1>3, <2>1, <2>4, <2>5, OneAfter
    <2>6. CASE m \notin U
      <3>1. U \ {m} = U
        BY <2>6
      <3> QED BY <1>3, <2>4, <3>1
    <2> QED BY <2>5, <2>6
  <1> QED BY <1>4, <1>5

(* The tasks of a set in order are each of them, once.                     *)
LEMMA InOrderIs ==
  ASSUME NEW T \in SUBSET Tasks, NEW s, s = InOrder(T)
  PROVE  s \in Seq(Tasks) /\ Distinct(s) /\ Of(s) = T
  <1>1. Ordered(T)
    BY SpecCycleAssumption, Orders DEF Tasks
  <1>2. s \in [1..Cardinality(T) -> T] /\ \A i, j \in DOMAIN s : i < j => s[i] < s[j]
    BY <1>1 DEF Ordered, InOrder
  <1>3. IsFiniteSet(T) /\ T \in SUBSET Nat
    <2>0. N \in Nat
      BY SpecCycleAssumption
    <2>3. IsFiniteSet(1..N)
      BY <2>0, FS_Interval
    <2>1. IsFiniteSet(1..N) /\ T \in SUBSET (1..N) /\ N \in Nat
      BY <2>0, <2>3 DEF Tasks
    <2>2. IsFiniteSet(T)
      BY <2>1, FS_Subset
    <2> QED BY <2>1, <2>2
  <1>4. PICK k \in Nat : k = Cardinality(T)
    BY <1>3, FS_CardinalityType
  <1>5. \A i, j \in 1..k : s[i] = s[j] => i = j
    <2> SUFFICES ASSUME NEW i \in 1..k, NEW j \in 1..k, i < j PROVE s[i] # s[j]
      OBVIOUS
    <2>1. s[i] < s[j] /\ s[i] \in Nat /\ s[j] \in Nat
      BY <1>2, <1>3, <1>4
    <2> QED BY <2>1
  <1>6. s \in Injection(1..k, T)
    BY <1>2, <1>4, <1>5 DEF Injection, IsInjective
  <1>7. Cardinality(1..k) = Cardinality(T)
    BY <1>4, FS_Interval
  <1>8. s \in Surjection(1..k, T)
    BY <1>3, <1>6, <1>7, FS_Injection
  <1>9. Of(s) = T
    BY <1>2, <1>4, <1>8 DEF Surjection, Of
  <1>10. s \in Seq(Tasks)
    BY <1>2, <1>4
  <1> QED BY <1>2, <1>4, <1>5, <1>9, <1>10 DEF Distinct

-----------------------------------------------------------------------------
(* There is a set in which a task is unless it overlaps one before it that *)
(* is in it: whether the last is can be said when the others are settled.  *)
Chosen(lang, T) ==
  \E a \in SUBSET T : \A t \in T : t \in a <=> \A u \in a : u < t => ~PathsOverlap(lang, u, t)

LEMMA OneMoreChosen ==
  ASSUME NEW lang, NEW n \in Nat, NEW T \in SUBSET (1..(n + 1)), n + 1 \in T, Chosen(lang, T \ {n + 1})
  PROVE  Chosen(lang, T)
  <1> DEFINE U == T \ {n + 1}
  <1>1. PICK a \in SUBSET U : \A t \in U : t \in a <=> \A u \in a : u < t => ~PathsOverlap(lang, u, t)
    BY DEF Chosen
  <1>2. U \in SUBSET (1..n) /\ T = U \cup {n + 1} /\ n + 1 \notin U
    OBVIOUS
  <1> HIDE DEF U
  <1>3. CASE \A u \in a : ~PathsOverlap(lang, u, n + 1)
    <2>1. \A t \in T : t \in a \cup {n + 1} <=> \A u \in a \cup {n + 1} : u < t => ~PathsOverlap(lang, u, t)
      <3> TAKE t \in T
      <3>1. CASE t = n + 1
        BY <1>3, <3>1
      <3>2. CASE t # n + 1
        <4>1. t \in U /\ t \in 1..n /\ ~(n + 1 < t)
          BY <1>2, <3>2
        <4> QED BY <1>1, <3>2, <4>1
      <3> QED BY <3>1, <3>2
    <2>2. a \cup {n + 1} \in SUBSET T
      BY <1>2
    <2> QED BY <2>1, <2>2 DEF Chosen
  <1>4. CASE ~(\A u \in a : ~PathsOverlap(lang, u, n + 1))
    <2>1. \A u \in a : u < n + 1
      BY <1>2
    <2>2. \A t \in T : t \in a <=> \A u \in a : u < t => ~PathsOverlap(lang, u, t)
      BY <1>1, <1>2, <1>4, <2>1
    <2> QED BY <1>2, <2>2 DEF Chosen
  <1> QED BY <1>3, <1>4

LEMMA Chooses ==
  ASSUME NEW lang, NEW n \in Nat, NEW T \in SUBSET (1..n)
  PROVE  Chosen(lang, T)
  <1> DEFINE Bad == {m \in Nat : \E U \in SUBSET (1..m) : ~Chosen(lang, U)}
  <1>1. SUFFICES ASSUME Bad # {} PROVE FALSE
    OBVIOUS
  <1>2. PICK m \in Bad : \A x \in Bad : m <= x
    BY <1>1, Least
  <1>3. PICK U \in SUBSET (1..m) : ~Chosen(lang, U)
    BY <1>2
  <1>4. CASE m = 0
    <2>1. U = {}
      BY <1>3, <1>4
    <2> QED BY <1>3, <2>1 DEF Chosen
  <1>5. CASE m # 0
    <2>1. PICK k \in Nat : m = k + 1
      <3>1. m \in Nat /\ m - 1 \in Nat /\ m = (m - 1) + 1
        BY <1>2, <1>5
      <3> QED BY <3>1
    <2>2. k \notin Bad
      <3>1. ~(m <= k)
        BY <2>1
      <3> QED BY <1>2, <3>1, Zenon
    <2>3. U \ {m} \in SUBSET (1..k)
      BY <1>3, <2>1
    <2>4. Chosen(lang, U \ {m})
      BY <2>2, <2>3
    <2>5. CASE m \in U
      BY <1>3, <2>1, <2>4, <2>5, OneMoreChosen
    <2>6. CASE m \notin U
      <3>1. U \ {m} = U
        BY <2>6
      <3> QED BY <1>3, <2>4, <3>1
    <2> QED BY <2>5, <2>6
  <1> QED BY <1>4, <1>5

(* No two accepted tasks name one path.                                    *)
LEMMA AcceptedApart ==
  ASSUME NEW lang, NEW T \in SUBSET Tasks, NEW a, a = Accepted(lang, T)
  PROVE  a \in SUBSET T /\ \A t, u \in a : t # u => ~PathsOverlap(lang, t, u)
  <1>1. Chosen(lang, T)
    BY SpecCycleAssumption, Chooses DEF Tasks
  <1>2. a \in SUBSET T /\ \A t \in T : t \in a <=> \A u \in a : u < t => ~PathsOverlap(lang, u, t)
    BY <1>1 DEF Chosen, Accepted
  <1>3. \A t, u \in a : u < t => ~PathsOverlap(lang, u, t) /\ ~PathsOverlap(lang, t, u)
    BY <1>2 DEF PathsOverlap
  <1>4. \A t, u \in a : t # u => t < u \/ u < t
    BY <1>2, SpecCycleAssumption DEF Tasks
  <1> QED BY <1>2, <1>3, <1>4

-----------------------------------------------------------------------------
(* What is left of a list, and two lists one after the other.              *)
LEMMA LeftOf ==
  ASSUME NEW s \in Seq(Tasks), s # <<>>, Distinct(s), NEW h, h = Head(s), NEW r, r = Tail(s)
  PROVE  h \in Tasks /\ h \in Of(s) /\ r \in Seq(Tasks) /\ Distinct(r) /\ Of(r) = Of(s) \ {h}
  <1>1. PICK n \in Nat : n = Len(s) /\ DOMAIN s = 1..n /\ (\A i \in 1..n : s[i] \in Tasks) /\ n > 0
    OBVIOUS
  <1>2. h = s[1] /\ 1 \in 1..n
    BY <1>1
  <1>3. r \in Seq(Tasks) /\ DOMAIN r = 1..(n - 1) /\ \A i \in 1..(n - 1) : r[i] = s[i + 1]
    <2>1. Tail(s) \in Seq(Tasks)
      OBVIOUS
    <2> QED BY <1>1, <2>1
  <1>4. \A i \in 1..(n - 1) : i + 1 \in 1..n /\ i + 1 # 1
    BY <1>1
  <1>5. \A i \in 1..n : i # 1 => i - 1 \in 1..(n - 1) /\ (i - 1) + 1 = i
    BY <1>1
  <1>6. Distinct(r)
    <2> SUFFICES ASSUME NEW i \in 1..(n - 1), NEW j \in 1..(n - 1), r[i] = r[j] PROVE i = j
      BY <1>3 DEF Distinct
    <2>1. i + 1 = j + 1
      BY <1>1, <1>3, <1>4 DEF Distinct
    <2> QED BY <2>1
  <1>7. Of(r) = Of(s) \ {h}
    <2>1. ASSUME NEW t \in Of(r) PROVE t \in Of(s) \ {h}
      <3>1. PICK i \in 1..(n - 1) : t = s[i + 1]
        BY <1>3 DEF Of
      <3> QED BY <1>1, <1>2, <1>4, <3>1 DEF Distinct, Of
    <2>2. ASSUME NEW t \in Of(s) \ {h} PROVE t \in Of(r)
      <3>1. PICK i \in 1..n : t = s[i] /\ i # 1
        BY <1>1, <1>2 DEF Of
      <3>2. i - 1 \in DOMAIN r /\ r[i - 1] = t
        BY <1>3, <1>5, <3>1
      <3> QED BY <3>2 DEF Of
    <2> QED BY <2>1, <2>2
  <1>8. h \in Tasks /\ h \in Of(s)
    BY <1>1, <1>2 DEF Of
  <1> QED BY <1>3, <1>6, <1>7, <1>8

LEMMA Joined ==
  ASSUME NEW s \in Seq(Tasks), NEW t \in Seq(Tasks), Distinct(s), Distinct(t), Of(s) \cap Of(t) = {},
         NEW r, r = s \o t
  PROVE  r \in Seq(Tasks) /\ Distinct(r) /\ Of(r) = Of(s) \cup Of(t)
  <1>1. PICK n \in Nat : n = Len(s) /\ DOMAIN s = 1..n /\ \A i \in 1..n : s[i] \in Tasks
    OBVIOUS
  <1>0. PICK m \in Nat : m = Len(t) /\ DOMAIN t = 1..m /\ \A i \in 1..m : t[i] \in Tasks
    OBVIOUS
  <1>2. r \in Seq(Tasks) /\ DOMAIN r = 1..(n + m)
    <2>1. PICK u : u = s \o t /\ u \in Seq(Tasks)
      <3>1. s \o t \in Seq(Tasks)
        OBVIOUS
      <3> QED BY <3>1
    <2>2. Len(u) = n + m /\ DOMAIN u = 1..(n + m)
      BY <1>0, <1>1, <2>1
    <2> QED BY <2>1, <2>2
  <1>3. \A i \in 1..(n + m) : r[i] = IF i <= n THEN s[i] ELSE t[i - n]
    BY <1>0, <1>1
  <1>4. \A i \in 1..(n + m) : i <= n => i \in 1..n
    OBVIOUS
  <1>5. \A i \in 1..(n + m) : ~(i <= n) => i - n \in 1..m
    OBVIOUS
  <1>6. \A i \in 1..m : i + n \in 1..(n + m) /\ ~(i + n <= n) /\ (i + n) - n = i
    OBVIOUS
  <1>7. Distinct(r)
    <2> SUFFICES ASSUME NEW i \in 1..(n + m), NEW j \in 1..(n + m), r[i] = r[j] PROVE i = j
      BY <1>2 DEF Distinct
    <2>1. CASE i <= n /\ j <= n
      BY <1>1, <1>3, <1>4, <2>1 DEF Distinct
    <2>2. CASE ~(i <= n) /\ ~(j <= n)
      <3>1. t[i - n] = t[j - n] /\ i - n \in 1..m /\ j - n \in 1..m
        BY <1>3, <1>5, <2>2
      <3>2. i - n = j - n
        BY <1>0, <3>1 DEF Distinct
      <3> QED BY <3>2
    <2>3. ~(\E k \in 1..n, l \in 1..m : s[k] = t[l])
      BY <1>0, <1>1 DEF Of
    <2> QED BY <1>3, <1>4, <1>5, <2>1, <2>2, <2>3
  <1>8. \A i \in 1..n : i \in 1..(n + m) /\ i <= n
    OBVIOUS
  <1>9. Of(r) = Of(s) \cup Of(t)
    <2>1. \A i \in 1..(n + m) : r[i] \in Of(s) \cup Of(t)
      BY <1>0, <1>1, <1>3, <1>4, <1>5 DEF Of
    <2>2. \A i \in 1..n : s[i] \in Of(r)
      BY <1>2, <1>3, <1>8 DEF Of
    <2>3. \A i \in 1..m : t[i] \in Of(r)
      <3> TAKE i \in 1..m
      <3>1. r[i + n] = t[i] /\ i + n \in DOMAIN r
        BY <1>2, <1>3, <1>6
      <3> QED BY <3>1 DEF Of
    <2>4. Of(r) \subseteq Of(s) \cup Of(t)
      BY <1>2, <2>1 DEF Of
    <2>5. Of(s) \subseteq Of(r) /\ Of(t) \subseteq Of(r)
      BY <1>0, <1>1, <2>2, <2>3 DEF Of
    <2> QED BY <2>4, <2>5
  <1> QED BY <1>2, <1>7, <1>9

(* The open tasks are all in one of the two lists, and only there.         *)
LEMMA Grouped ==
  ASSUME NEW lang, NEW undone \in SUBSET Tasks, NEW s, s = Serial(lang, undone), NEW q, q = Parallel(lang, undone)
  PROVE  /\ s \in Seq(Tasks) /\ Distinct(s) /\ q \in Seq(Tasks) /\ Distinct(q)
         /\ Of(s) \cap Of(q) = {} /\ Of(s) \cup Of(q) = undone
         /\ \A t, u \in Of(q) : t # u => shape[t].parallel /\ shape[u].parallel /\ ~PathsOverlap(lang, t, u)
  <1> DEFINE marked == Marked(undone)
             unmarked == undone \ Marked(undone)
             a == Accepted(lang, marked)
             rest == marked \ a
  <1>1. marked \in SUBSET undone /\ \A t \in marked : shape[t].parallel
    BY DEF Marked
  <1>2. a \in SUBSET marked /\ \A t, u \in a : t # u => ~PathsOverlap(lang, t, u)
    BY <1>1, AcceptedApart
  <1>3. s = InOrder(unmarked) \o InOrder(rest) /\ q = InOrder(a)
    BY DEF Serial, Parallel, Downgraded
  <1>4. unmarked \cap marked = {} /\ unmarked \cup marked = undone
    BY <1>1
  <1> HIDE DEF marked, unmarked, a
  <1>5. PICK x, y : x = InOrder(unmarked) /\ y = InOrder(rest)
    OBVIOUS
  <1>6. /\ x \in Seq(Tasks) /\ Distinct(x) /\ Of(x) = unmarked
        /\ y \in Seq(Tasks) /\ Distinct(y) /\ Of(y) = rest
        /\ q \in Seq(Tasks) /\ Distinct(q) /\ Of(q) = a
    BY <1>1, <1>2, <1>3, <1>4, <1>5, InOrderIs
  <1>7. Of(x) \cap Of(y) = {}
    BY <1>4, <1>6
  <1>8. s \in Seq(Tasks) /\ Distinct(s) /\ Of(s) = unmarked \cup rest
    <2>1. s = x \o y
      BY <1>3, <1>5
    <2>2. s \in Seq(Tasks) /\ Distinct(s) /\ Of(s) = Of(x) \cup Of(y)
      BY <1>6, <1>7, <2>1, Joined
    <2> QED BY <1>6, <2>2
  <1> QED BY <1>1, <1>2, <1>4, <1>6, <1>8

-----------------------------------------------------------------------------
(* A new issue: what waited for what still does, and it waits for what     *)
(* those wait for that it needs.                                           *)
Grown(p) ==
  /\ DOMAIN issues \subseteq DOMAIN issues'
  /\ \A i \in DOMAIN issues : issues'[i] = issues[i]
  /\ \A i \in DOMAIN issues' \ DOMAIN issues : issues'[i].from = p
  /\ \A i, j \in DOMAIN issues : WaitsFor(j, i) => WaitsFor(j, i)'

LEMMA NewIssue ==
  ASSUME IssuesTyped, NEW p \in Pulls, NEW e \in Issue, e.from = p, e.needs \subseteq DOMAIN issues,
         issues' = Append(issues, e)
  PROVE  /\ Grown(p) /\ issues' \in Seq(Issue)
         /\ \A i \in DOMAIN issues' : issues'[i].needs \subseteq 1..(i - 1)
         /\ \E new \in Nat : /\ DOMAIN issues' = DOMAIN issues \cup {new} /\ issues'[new] = e
                             /\ \A i \in DOMAIN issues : i < new
                             /\ new = Len(issues) + 1 /\ new = Len(issues')
                             /\ \A k \in e.needs : WaitsFor(new, k)'
                             /\ \A k \in e.needs, i \in DOMAIN issues : WaitsFor(k, i) => WaitsFor(new, i)'
  <1>1. PICK n \in Nat : Len(issues) = n /\ DOMAIN issues = 1..n /\ issues \in Seq(Issue)
    BY DEF IssuesTyped, Issue
  <1>2. /\ DOMAIN issues' = 1..(n + 1) /\ issues'[n + 1] = e /\ \A i \in 1..n : issues'[i] = issues[i]
        /\ issues' \in Seq(Issue) /\ Len(issues') = n + 1
    BY <1>1
  <1>3. \A i \in 1..n : issues[i].needs \in SUBSET (1..(i - 1)) /\ issues[i].needs \in SUBSET (1..n)
    <2>1. \A i \in 1..n : issues[i].needs \subseteq 1..(i - 1)
      BY <1>1 DEF IssuesTyped, CycleTypeOK
    <2>2. \A i \in 1..n : 1..(i - 1) \subseteq 1..n
      OBVIOUS
    <2> QED BY <2>1, <2>2, Zenon
  <1>4. \A i \in 1..(n + 1) : issues'[i].needs \subseteq 1..(i - 1)
    BY <1>1, <1>2, <1>3
  <1>5. ASSUME NEW S \in SUBSET DOMAIN issues', Closed(S)'
        PROVE  /\ S \cap (1..n) \in SUBSET DOMAIN issues /\ Closed(S \cap (1..n))
               /\ \A j \in 1..n : issues'[j].needs \subseteq S => issues[j].needs \subseteq S \cap (1..n)
    BY <1>1, <1>2, <1>3, <1>5 DEF Closed
  <1>6. \A i, j \in 1..n : WaitsFor(j, i) => WaitsFor(j, i)'
    BY <1>5 DEF WaitsFor
  <1>7. \A k \in e.needs : WaitsFor(n + 1, k)'
    BY <1>2 DEF WaitsFor
  <1>8. ASSUME NEW k \in e.needs, NEW i \in 1..n, WaitsFor(k, i) PROVE WaitsFor(n + 1, i)'
    <2> SUFFICES ASSUME NEW S \in SUBSET DOMAIN issues', issues'[n + 1].needs \subseteq S, Closed(S)'
                 PROVE  i \in S
      BY DEF WaitsFor
    <2>1. k \in S /\ k \in 1..n
      BY <1>1, <1>2
    <2>2. issues'[k].needs \subseteq S
      BY <2>1 DEF Closed
    <2> QED BY <1>5, <1>8, <2>1, <2>2 DEF WaitsFor
  <1>9. DOMAIN issues' = DOMAIN issues \cup {n + 1} /\ \A i \in 1..n : i < n + 1
    BY <1>1, <1>2
  <1>10. Grown(p)
    BY <1>1, <1>2, <1>6, <1>9 DEF Grown
  <1> QED BY <1>1, <1>2, <1>4, <1>7, <1>8, <1>9, <1>10

LEMMA SameIssues ==
  ASSUME issues' = issues, NEW p
  PROVE  Grown(p)
  BY DEF Grown, WaitsFor, Closed

LEMMA Stays ==
  ASSUME IssuesInv, NEW p, NEW q \in Pulls, q # p, Grown(p), gen'[q] = gen[q], merged'[q] = merged[q],
         shape' = shape, done \subseteq done'
  PROVE  TasksOnce(q)' /\ TasksAll(q)' /\ OrderKept(q)'
  <1>1. IssuedBy(q)' = IssuedBy(q) /\ \A i \in IssuedBy(q) : issues'[i] = issues[i] /\ i \in DOMAIN issues
    BY DEF Grown, IssuedBy
  <1>2. \A t : IssuesOf(q, t) \subseteq IssuesOf(q, t)'
    BY DEF Grown, IssuesOf
  <1>3. TasksOnce(q) /\ TasksAll(q) /\ OrderKept(q) /\ Ahead(q)' = Ahead(q)
    BY DEF IssuesInv, Ahead
  <1>4. TasksOnce(q)'
    BY <1>1, <1>3 DEF TasksOnce
  <1>5. TasksAll(q)'
    BY <1>1, <1>2, <1>3 DEF TasksAll
  <1>6. gen[q].last # 0 => gen[q].last \in DOMAIN issues
    BY DEF IssuesInv, IssuesTyped, CycleTypeOK
  <1>7. \A i \in IssuedBy(q) : Followed(q, i) => Followed(q, i)'
    BY <1>1, <1>6 DEF Followed, SideBySide, PathsOverlap, Paths, Grown
  <1>8. OrderKept(q)'
    BY <1>1, <1>3, <1>7 DEF OrderKept, SideBySide, PathsOverlap, Paths
  <1> QED BY <1>4, <1>5, <1>8

-----------------------------------------------------------------------------
(* Every step keeps the invariant, be it that only the place of a          *)
(* generation moves, ...                                                   *)
Spare == spare' \in 0..MaxSpare

LEMMA Spending ==
  ASSUME IssuesTyped, Spends \/ spare' = spare
  PROVE  Spare
  <1>1. spare \in 0..MaxSpare /\ MaxSpare \in Nat
    BY SpecCycleAssumption DEF IssuesTyped, CycleTypeOK
  <1> QED BY <1>1 DEF Spends, Spare

LabSteps == {"none", "look", "remove", "add", "end", "cut"}

LEMMA TypesStay ==
  ASSUME IssuesTyped, CycleInv', UNCHANGED <<shape, done, merged>>, gen' \in [Pulls -> Generation],
         \A p \in Pulls : gen'[p].last \in 0..Len(issues'), issues' \in Seq(Issue),
         \A i \in DOMAIN issues' : issues'[i].needs \subseteq 1..(i - 1),
         slips' \subseteq Names, Spare, lab' \in [Pulls -> LabSteps]
  PROVE  IssuesTyped'
  <1>1. \A p \in Pulls : gen'[p] \in Generation
    OBVIOUS
  <1>2. \A p \in Pulls : /\ gen'[p].at \in Stages /\ gen'[p].failed \subseteq Tasks
                         /\ gen'[p].serial \in Seq(Tasks) /\ gen'[p].parallel \in Seq(Tasks)
    BY <1>1 DEF Generation
  <1>3. RepoTyped'
    BY DEF CycleInv
  <1> QED BY <1>2, <1>3 DEF IssuesTyped, CycleTypeOK, RepoTyped, Spare, LabSteps

LEMMA AtMoves ==
  ASSUME IssuesInv, UNCHANGED <<shape, done, merged, issues>>, NEW q \in Pulls, NEW x \in Stages,
         gen'[q] = [gen[q] EXCEPT !.at = x],
         x \in {"none", "detect", "read"} => gen[q].at \in {"none", "detect", "read"},
         x \in {"create", "label", "end"} /\ merged[q].ofChange => gen[q].at \in {"create", "label", "end"},
         x \in {"label", "end"} /\ merged[q].ofChange => Ahead(q) = {}
  PROVE  TasksOnce(q)' /\ TasksAll(q)' /\ OrderKept(q)' /\ gen'[q] \in Generation /\ gen'[q].last = gen[q].last
         /\ gen'[q].lang = gen[q].lang /\ gen'[q].at = x
  <1>1. gen[q] \in Generation
    BY DEF IssuesInv, IssuesTyped
  <1>2. gen'[q] \in Generation /\ gen'[q].at = x /\ gen'[q].lang = gen[q].lang
        /\ gen'[q].serial = gen[q].serial /\ gen'[q].parallel = gen[q].parallel
        /\ gen'[q].last = gen[q].last /\ gen'[q].failed = gen[q].failed
    BY <1>1 DEF Generation
  <1>3. TasksOnce(q) /\ TasksAll(q) /\ OrderKept(q)
    BY DEF IssuesInv
  <1>4. Ahead(q)' = Ahead(q) /\ IssuedBy(q)' = IssuedBy(q) /\ \A t : IssuesOf(q, t)' = IssuesOf(q, t)
    BY <1>2 DEF Ahead, IssuedBy, IssuesOf
  <1>5. TasksOnce(q)'
    BY <1>2, <1>3, <1>4 DEF TasksOnce
  <1>6. TasksAll(q)'
    BY <1>2, <1>3, <1>4 DEF TasksAll
  <1>7. OrderKept(q)'
    BY <1>2, <1>3, <1>4 DEF OrderKept, Followed, SideBySide, PathsOverlap, Paths, WaitsFor, Closed
  <1> QED BY <1>2, <1>5, <1>6, <1>7

LEMMA OverlapsStay ==
  ASSUME OverlapsOrdered, issues' = issues, shape' = shape,
         \A i \in DOMAIN issues : gen'[issues[i].from].lang = gen[issues[i].from].lang
  PROVE  OverlapsOrdered'
  BY DEF OverlapsOrdered, Apart, PathsOverlap, Paths, WaitsFor, Closed

LEMMA IssuedFrom ==
  ASSUME IssuesTyped
  PROVE  \A i \in DOMAIN issues : issues[i] \in Issue /\ issues[i].from \in Pulls
  <1>1. \A i \in DOMAIN issues : issues[i] \in Issue
    BY DEF IssuesTyped
  <1> QED BY <1>1 DEF Issue

LEMMA OnlyPlaces ==
  ASSUME IssuesInv, CycleInv', UNCHANGED <<shape, done, merged, issues>>,
         slips' \subseteq Names, Spare, lab' \in [Pulls -> LabSteps], DOMAIN gen' = Pulls,
         gen' = [q \in Pulls |-> gen'[q]],
         \A q \in Pulls : \E x \in Stages :
           /\ gen'[q] = [gen[q] EXCEPT !.at = x]
           /\ ~merged[q].is => x = "none"
           /\ x \in {"none", "detect", "read"} => gen[q].at \in {"none", "detect", "read"}
           /\ x \in {"create", "label", "end"} /\ merged[q].ofChange => gen[q].at \in {"create", "label", "end"}
           /\ x \in {"label", "end"} /\ merged[q].ofChange => Ahead(q) = {}
  PROVE  IssuesInv'
  <1>1. \A q \in Pulls : /\ TasksOnce(q)' /\ TasksAll(q)' /\ OrderKept(q)' /\ gen'[q] \in Generation
                         /\ gen'[q].last = gen[q].last /\ gen'[q].lang = gen[q].lang
                         /\ ~merged[q].is => gen'[q].at = "none"
    BY AtMoves
  <1>2. IssuesTyped
    BY DEF IssuesInv
  <1>3. gen' \in [Pulls -> Generation]
    BY <1>1
  <1>4. /\ \A q \in Pulls : gen'[q].last \in 0..Len(issues')
        /\ issues' \in Seq(Issue) /\ \A i \in DOMAIN issues' : issues'[i].needs \subseteq 1..(i - 1)
    BY <1>1, <1>2 DEF IssuesTyped, CycleTypeOK
  <1>5. IssuesTyped'
    BY <1>2, <1>3, <1>4, TypesStay
  <1>6. TicksStay'
    BY <1>1 DEF IssuesInv, TicksStay
  <1>7. OverlapsOrdered'
    BY <1>1, <1>2, IssuedFrom, OverlapsStay DEF IssuesInv
  <1> QED BY <1>1, <1>5, <1>6, <1>7 DEF IssuesInv

LEMMA PlaceKept ==
  ASSUME IssuesInv, NEW q \in Pulls
  PROVE  /\ gen[q].at \in Stages /\ gen[q] = [gen[q] EXCEPT !.at = gen[q].at]
         /\ ~merged[q].is => gen[q].at = "none"
         /\ gen[q].at \in {"label", "end"} /\ merged[q].ofChange => Ahead(q) = {}
  <1>1. gen[q] \in Generation
    BY DEF IssuesInv, IssuesTyped
  <1> QED BY <1>1 DEF Generation, IssuesInv, TicksStay, TasksAll

LEMMA OnePlace ==
  ASSUME IssuesInv, CycleInv', UNCHANGED <<shape, done, merged, issues>>,
         slips' = slips, Spends \/ spare' = spare, lab' \in [Pulls -> LabSteps],
         NEW p \in Pulls, NEW x \in Stages, gen' = [gen EXCEPT ![p].at = x], merged[p].is,
         x \in {"none", "detect", "read"} => gen[p].at \in {"none", "detect", "read"},
         x \in {"create", "label", "end"} /\ merged[p].ofChange => gen[p].at \in {"create", "label", "end"},
         x \in {"label", "end"} /\ merged[p].ofChange => Ahead(p) = {}
  PROVE  IssuesInv'
  <1>1. slips' \subseteq Names /\ Spare /\ gen \in [Pulls -> Generation]
    BY Spending DEF IssuesInv, IssuesTyped, CycleTypeOK
  <1>2. DOMAIN gen' = Pulls /\ gen' = [q \in Pulls |-> gen'[q]]
    BY <1>1
  <1>3. gen'[p] = [gen[p] EXCEPT !.at = x]
    BY <1>1
  <1>4. \A q \in Pulls : q # p => gen'[q] = gen[q]
    BY <1>1
  <1>5. \A q \in Pulls : \E y \in Stages :
           /\ gen'[q] = [gen[q] EXCEPT !.at = y]
           /\ ~merged[q].is => y = "none"
           /\ y \in {"none", "detect", "read"} => gen[q].at \in {"none", "detect", "read"}
           /\ y \in {"create", "label", "end"} /\ merged[q].ofChange => gen[q].at \in {"create", "label", "end"}
           /\ y \in {"label", "end"} /\ merged[q].ofChange => Ahead(q) = {}
    <2> TAKE q \in Pulls
    <2>1. CASE q = p
      BY <1>3, <2>1
    <2>2. CASE q # p
      <3>1. gen'[q] = [gen[q] EXCEPT !.at = gen[q].at]
        BY <1>4, <2>2, PlaceKept
      <3> QED BY <3>1, PlaceKept
    <2> QED BY <2>1, <2>2
  <1> QED BY <1>1, <1>2, <1>5, OnlyPlaces

LEMMA NoPlace ==
  ASSUME IssuesInv, CycleInv', UNCHANGED <<shape, done, merged, issues, gen>>,
         slips' \subseteq Names, Spends \/ spare' = spare, lab' \in [Pulls -> LabSteps]
  PROVE  IssuesInv'
  <1>1. Spare /\ gen \in [Pulls -> Generation]
    BY Spending DEF IssuesInv, IssuesTyped
  <1>2. DOMAIN gen' = Pulls /\ gen' = [q \in Pulls |-> gen'[q]]
    BY <1>1
  <1>3. \A q \in Pulls : \E y \in Stages :
           /\ gen'[q] = [gen[q] EXCEPT !.at = y]
           /\ ~merged[q].is => y = "none"
           /\ y \in {"none", "detect", "read"} => gen[q].at \in {"none", "detect", "read"}
           /\ y \in {"create", "label", "end"} /\ merged[q].ofChange => gen[q].at \in {"create", "label", "end"}
           /\ y \in {"label", "end"} /\ merged[q].ofChange => Ahead(q) = {}
    <2> TAKE q \in Pulls
    <2>1. gen'[q] = [gen[q] EXCEPT !.at = gen[q].at]
      BY PlaceKept
    <2> QED BY <2>1, PlaceKept
  <1> QED BY <1>1, <1>2, <1>3, OnlyPlaces

LEMMA LabTyped ==
  ASSUME IssuesInv
  PROVE  lab \in [Pulls -> LabSteps] /\ slips \subseteq Names
  BY DEF IssuesInv, IssuesTyped, CycleTypeOK, LabSteps

LEMMA PlacesMove ==
  ASSUME IssuesInv, CycleInv', NEW p \in Pulls,
         Handles(p) \/ GivesUp(p) \/ Detects(p) \/ Implementing(p) \/ Ends(p)
  PROVE  IssuesInv'
  <1>1. lab \in [Pulls -> LabSteps]
    BY LabTyped
  <1>2. gen[p].at # "none" => merged[p].is
    BY PlaceKept
  <1>3. CASE Handles(p)
    <2>1. lab' \in [Pulls -> LabSteps]
      BY <1>1, <1>3 DEF Handles, LabSteps
    <2> QED BY <1>3, <2>1, OnePlace DEF Handles, Quiet, Stages
  <1>4. CASE GivesUp(p)
    BY <1>1, <1>2, <1>4, OnePlace DEF GivesUp, GenStays, Quiet, Stages
  <1>5. CASE Detects(p)
    <2>1. PICK x \in Stages : x = (IF OfChange(p) THEN "read" ELSE "end")
      BY DEF Stages
    <2>2. gen' = [gen EXCEPT ![p].at = x]
      BY <1>5, <2>1 DEF Detects
    <2> QED BY <1>1, <1>2, <1>5, <2>1, <2>2, OnePlace DEF Detects, At, OfChange, GenStays, Quiet
  <1>6. CASE Implementing(p)
    <2>1. Ahead(p) = {}
      BY <1>6 DEF Implementing, Ahead, Of
    <2> QED BY <1>1, <1>2, <1>6, <2>1, OnePlace DEF Implementing, At, GenStays, Stages
  <1>7. CASE Ends(p)
    <2>1. merged[p].ofChange => Ahead(p) = {}
      BY <1>7, PlaceKept DEF Ends, At
    <2> QED BY <1>1, <1>2, <1>7, <2>1, OnePlace DEF Ends, At, GenStays, Quiet, Stages
  <1> QED BY <1>3, <1>4, <1>5, <1>6, <1>7

LEMMA LabelsMoveOn ==
  ASSUME IssuesInv, CycleInv', NEW p \in Pulls,
         LabelsSkipped(p) \/ Unproposes(p) \/ Approves(p) \/ LabelsEnd(p)
  PROVE  IssuesInv'
  <1>1. lab \in [Pulls -> LabSteps] /\ slips \subseteq Names
    BY LabTyped
  <1>2. PICK from, to \in LabSteps : LabStep(p, from, to) /\ (Spends \/ spare' = spare)
    BY DEF LabelsSkipped, Unproposes, Approves, LabelsEnd, LabSteps
  <1>3. lab' \in [Pulls -> LabSteps] /\ UNCHANGED <<shape, done, merged, issues, gen, slips>>
    BY <1>1, <1>2 DEF LabStep
  <1> QED BY <1>1, <1>2, <1>3, NoPlace

LEMMA RequestsMoveOn ==
  ASSUME IssuesInv, CycleInv, CycleInv', NEW c \in Clients, Requests(c)
  PROVE  IssuesInv'
  <1>1. lab \in [Pulls -> LabSteps] /\ slips \subseteq Names
    BY LabTyped
  <1>2. CASE UNCHANGED cycleVars
    BY <1>1, <1>2, NoPlace DEF cycleVars
  <1>3. CASE /\ Spends /\ UNCHANGED <<shape, done, merged, gen, lab, issues>>
             /\ RequestFails(c) \/ Deletes(c, FALSE)
             /\ slips' = slips \cup {request[c].name}
    <2>1. request[c].at # "none"
      BY <1>3 DEF RequestFails, Deletes, Under
    <2>2. request[c] \in Request
      BY <2>1 DEF CycleInv, RepoTyped, NoRequest
    <2>3. request[c].name \in Names
      BY <2>2 DEF Request
    <2> QED BY <1>1, <1>3, <2>3, NoPlace
  <1> QED BY <1>2, <1>3 DEF Requests

LEMMA CrashLeaves ==
  ASSUME IssuesInv, CycleInv', Crash
  PROVE  IssuesInv'
  <1>1. lab \in [Pulls -> LabSteps] /\ slips \subseteq Names
    BY LabTyped
  <1>2. /\ lab' \in [Pulls -> LabSteps] /\ slips' \subseteq Names /\ Spends
        /\ UNCHANGED <<shape, done, merged, issues>>
    BY <1>1 DEF Crash, LabSteps
  <1>3. gen' = [q \in Pulls |-> IF gen[q].at \in {"none", "end"} THEN gen[q] ELSE [gen[q] EXCEPT !.at = "cut"]]
    BY DEF Crash
  <1>4. DOMAIN gen' = Pulls /\ gen' = [q \in Pulls |-> gen'[q]]
    BY <1>3
  <1>5. \A q \in Pulls : \E y \in Stages :
           /\ gen'[q] = [gen[q] EXCEPT !.at = y]
           /\ ~merged[q].is => y = "none"
           /\ y \in {"none", "detect", "read"} => gen[q].at \in {"none", "detect", "read"}
           /\ y \in {"create", "label", "end"} /\ merged[q].ofChange => gen[q].at \in {"create", "label", "end"}
           /\ y \in {"label", "end"} /\ merged[q].ofChange => Ahead(q) = {}
    <2> TAKE q \in Pulls
    <2>1. CASE gen[q].at \in {"none", "end"}
      <3>1. gen'[q] = [gen[q] EXCEPT !.at = gen[q].at]
        BY <1>3, <2>1, PlaceKept
      <3> QED BY <2>1, <3>1, PlaceKept
    <2>2. CASE gen[q].at \notin {"none", "end"}
      <3>1. gen'[q] = [gen[q] EXCEPT !.at = "cut"] /\ "cut" \in Stages
        BY <1>3, <2>2 DEF Stages
      <3> QED BY <2>2, <3>1, PlaceKept
    <2> QED BY <2>1, <2>2
  <1> QED BY <1>2, <1>4, <1>5, Spending, OnlyPlaces DEF IssuesInv

-----------------------------------------------------------------------------
(* ... or a pull request is merged, ...                                    *)
LEMMA MergesLeave ==
  ASSUME IssuesInv, CycleInv', MergesSpec \/ MergesWork
  PROVE  IssuesInv'
  <1>1. "spec" \in Pulls /\ "work" \in Pulls
    BY SpecCycleAssumption
  <1>2. IssuesTyped /\ TicksStay
    BY DEF IssuesInv
  <1>3. PICK p \in Pulls, ticked \in SUBSET Tasks, ofChange \in BOOLEAN :
          /\ Merges(p, ticked, ofChange)
          /\ done \subseteq ticked
          /\ p = "spec" \/ (p = "work" /\ merged["spec"].is)
    <2>1. CASE MergesSpec
      <3>1. Merges("spec", {}, TRUE) /\ done = {}
        BY <1>2, <2>1 DEF MergesSpec, Merges, TicksStay
      <3> QED BY <1>1, <3>1
    <2>2. CASE MergesWork
      <3>1. PICK k \in DOMAIN issues, ticks \in BOOLEAN :
              Merges("work", IF ticks THEN done \cup {issues[k].task} ELSE done, ticks)
        BY <2>2 DEF MergesWork
      <3>2. issues[k].task \in Tasks
        <4>1. issues[k] \in Issue
          BY <1>2, IssuedFrom
        <4> QED BY <4>1 DEF Issue
      <3>3. done \subseteq Tasks
        BY <1>2 DEF IssuesTyped, CycleTypeOK
      <3>4. PICK ticked \in SUBSET Tasks : ticked = (IF ticks THEN done \cup {issues[k].task} ELSE done)
        BY <3>2, <3>3
      <3>5. merged["spec"].is
        BY <1>1, <1>2, <2>2 DEF MergesWork, TicksStay
      <3> QED BY <1>1, <3>1, <3>4, <3>5
    <2> QED BY <2>1, <2>2
  <1>4. /\ UNCHANGED <<shape, gen, lab, issues, spare, slips>> /\ done' = ticked /\ ~merged[p].is
        /\ merged' = [merged EXCEPT ![p] = [ticked |-> ticked, ofChange |-> ofChange, is |-> TRUE]]
    BY <1>3 DEF Merges, Quiet
  <1>5. merged \in [Pulls -> [ticked : SUBSET Tasks, ofChange : BOOLEAN, is : BOOLEAN]]
    BY <1>2 DEF IssuesTyped, CycleTypeOK
  <1>6. merged' \in [Pulls -> [ticked : SUBSET Tasks, ofChange : BOOLEAN, is : BOOLEAN]]
    BY <1>4, <1>5
  <1>7. merged'[p].ticked = ticked /\ merged'[p].is = TRUE /\ \A q \in Pulls : q # p => merged'[q] = merged[q]
    BY <1>4, <1>5
  <1>8. IssuesTyped'
    <2>1. RepoTyped'
      BY DEF CycleInv
    <2> QED BY <1>2, <1>3, <1>4, <1>6, <2>1 DEF IssuesTyped, CycleTypeOK, RepoTyped
  <1>9. TicksStay'
    BY <1>1, <1>2, <1>3, <1>4, <1>7 DEF TicksStay
  <1>10. OverlapsOrdered'
    BY <1>4, OverlapsStay DEF IssuesInv
  <1>11. \A q \in Pulls : q # p => TasksOnce(q)' /\ TasksAll(q)' /\ OrderKept(q)'
    BY <1>3, <1>4, <1>7, SameIssues, Stays
  <1>12. gen[p].at = "none"
    BY <1>2, <1>4 DEF TicksStay
  <1>13. gen[p].serial = <<>> /\ gen[p].parallel = <<>> /\ gen[p].last = 0 /\ IssuedBy(p) = {}
    BY <1>12 DEF IssuesInv, TasksAll
  <1>14. Ahead(p)' = {} /\ IssuedBy(p)' = {}
    BY <1>4, <1>13 DEF Ahead, Of, IssuedBy
  <1>15. TasksOnce(p)' /\ TasksAll(p)' /\ OrderKept(p)'
    BY <1>4, <1>12, <1>13, <1>14 DEF TasksOnce, TasksAll, OrderKept, Distinct, Of, Ahead
  <1> QED BY <1>8, <1>9, <1>10, <1>11, <1>15 DEF IssuesInv

(* ... or tasks.md is read, ...                                            *)
LEMMA ReadsGroups ==
  ASSUME IssuesInv, CycleInv', NEW p \in Pulls, Reads(p)
  PROVE  IssuesInv'
  <1>1. IssuesTyped /\ TicksStay /\ gen[p].at = "read" /\ TasksAll(p)
    BY DEF IssuesInv, Reads, At
  <1>2. PICK fetched \in BOOLEAN, lang \in BOOLEAN :
          LET undone == Tasks \ (IF fetched THEN merged[p].ticked ELSE done)
          IN gen' = [gen EXCEPT ![p].at = "create", ![p].lang = lang,
                                ![p].serial = Serial(lang, undone), ![p].parallel = Parallel(lang, undone)]
    BY DEF Reads, Languages
  <1>3. PICK undone \in SUBSET Tasks : undone = Tasks \ (IF fetched THEN merged[p].ticked ELSE done)
    OBVIOUS
  <1>4. PICK s, q : s = Serial(lang, undone) /\ q = Parallel(lang, undone)
    OBVIOUS
  <1>5. /\ s \in Seq(Tasks) /\ Distinct(s) /\ q \in Seq(Tasks) /\ Distinct(q)
        /\ Of(s) \cap Of(q) = {} /\ Of(s) \cup Of(q) = undone
        /\ \A t, u \in Of(q) : t # u => shape[t].parallel /\ shape[u].parallel /\ ~PathsOverlap(lang, t, u)
    BY <1>4, Grouped
  <1>6. UNCHANGED <<shape, done, merged, issues, slips, lab>> /\ (Spends \/ spare' = spare)
    BY DEF Reads, GenStays, Quiet
  <1>7. gen \in [Pulls -> Generation] /\ gen[p] \in Generation
    BY <1>1 DEF IssuesTyped
  <1>8. PICK g : g = [gen[p] EXCEPT !.at = "create", !.lang = lang, !.serial = s, !.parallel = q]
    OBVIOUS
  <1>9. gen' = [gen EXCEPT ![p] = g]
    BY <1>2, <1>3, <1>4, <1>8
  <1>10. g \in Generation /\ g.at = "create" /\ g.lang = lang /\ g.serial = s /\ g.parallel = q
         /\ g.last = gen[p].last /\ g.failed = gen[p].failed
    BY <1>5, <1>7, <1>8 DEF Generation, Stages
  <1>11. gen' \in [Pulls -> Generation] /\ gen'[p] = g /\ \A r \in Pulls : r # p => gen'[r] = gen[r]
    BY <1>7, <1>9, <1>10
  <1>12. IssuesTyped'
    <2>1. \A r \in Pulls : gen'[r].last \in 0..Len(issues')
      BY <1>1, <1>6, <1>10, <1>11 DEF IssuesTyped, CycleTypeOK
    <2>2. issues' \in Seq(Issue) /\ \A k \in DOMAIN issues' : issues'[k].needs \subseteq 1..(k - 1)
      BY <1>1, <1>6 DEF IssuesTyped, CycleTypeOK
    <2> QED BY <1>1, <1>6, <1>11, <2>1, <2>2, TypesStay, Spending, LabTyped
  <1>13. IssuedBy(p) = {} /\ IssuedBy(p)' = {}
    BY <1>1, <1>6 DEF TasksAll, IssuedBy
  <1>14. OverlapsOrdered'
    BY <1>1, <1>6, <1>11, <1>13, IssuedFrom, OverlapsStay DEF IssuesInv, IssuedBy
  <1>15. TicksStay'
    BY <1>1, <1>6, <1>10, <1>11 DEF TicksStay
  <1>16. \A r \in Pulls : r # p => TasksOnce(r)' /\ TasksAll(r)' /\ OrderKept(r)'
    BY <1>6, <1>11, SameIssues, Stays
  <1>17. Ahead(p)' = undone /\ undone \cap merged[p].ticked = {} /\ Tasks \ undone \subseteq done
    BY <1>1, <1>3, <1>5, <1>10, <1>11 DEF Ahead, TicksStay
  <1>18. TasksOnce(p)'
    BY <1>5, <1>6, <1>10, <1>11, <1>13, <1>17 DEF TasksOnce
  <1>19. TasksAll(p)'
    BY <1>6, <1>10, <1>11, <1>17 DEF TasksAll
  <1>20. OrderKept(p)'
    BY <1>5, <1>6, <1>10, <1>11, <1>13 DEF OrderKept, SideBySide, PathsOverlap, Paths
  <1> QED BY <1>12, <1>14, <1>15, <1>16, <1>18, <1>19, <1>20 DEF IssuesInv

(* ... or an issue is created, or not.                                     *)
Behind(p, i) == i = gen[p].last \/ (gen[p].last # 0 /\ WaitsFor(gen[p].last, i))

Adds(p, t, how, new) ==
  /\ DOMAIN issues' = DOMAIN issues \cup {new} /\ new = Len(issues) + 1 /\ new = Len(issues')
  /\ issues'[new].task = t /\ issues'[new].from = p /\ issues'[new].lost = (how = "lost")
  /\ \A i \in DOMAIN issues : i < new /\ (Behind(p, i) => WaitsFor(new, i)')

LEMMA Creating ==
  ASSUME IssuesInv, NEW p \in Pulls, NEW t \in Tasks, NEW how \in {"ok", "failed", "lost"}, IssueCreated(p, t, how)
  PROVE  /\ Grown(p) /\ issues' \in Seq(Issue) /\ Len(issues') \in Nat /\ Len(issues) <= Len(issues')
         /\ \A i \in DOMAIN issues' : issues'[i].needs \subseteq 1..(i - 1)
         /\ how = "failed" => issues' = issues
         /\ how # "failed" => \E new : Adds(p, t, how, new)
         /\ Spends \/ spare' = spare
  <1>1. IssuesTyped
    BY DEF IssuesInv
  <1>2. PICK n \in Nat : n = Len(issues) /\ DOMAIN issues = 1..n /\ issues \in Seq(Issue)
    BY <1>1 DEF IssuesTyped
  <1>3. gen[p].last \in 0..n
    BY <1>1, <1>2 DEF IssuesTyped, CycleTypeOK
  <1>4. Spends \/ spare' = spare
    BY DEF IssueCreated
  <1>5. CASE how = "failed"
    <2>1. issues' = issues
      BY <1>5 DEF IssueCreated
    <2> QED BY <1>1, <1>2, <1>4, <1>5, <2>1, SameIssues DEF IssuesTyped, CycleTypeOK
  <1>6. CASE how # "failed"
    <2>1. PICK needs \in SUBSET Nat : needs = IF gen[p].last = 0 THEN {} ELSE {gen[p].last}
      <3>1. gen[p].last \in Nat
        BY <1>3
      <3>2. (IF gen[p].last = 0 THEN {} ELSE {gen[p].last}) \in SUBSET Nat
        BY <3>1
      <3> QED BY <3>2
    <2>2. PICK e : e = [task |-> t, from |-> p, lost |-> how = "lost", needs |-> needs]
      OBVIOUS
    <2>3. e \in Issue /\ e.from = p /\ e.task = t /\ e.lost = (how = "lost") /\ e.needs = needs
      BY <2>2 DEF Issue
    <2>4. issues' = Append(issues, e)
      BY <1>6, <2>1, <2>2 DEF IssueCreated
    <2>5. e.needs \subseteq DOMAIN issues
      BY <1>2, <1>3, <2>1, <2>3
    <2>6. /\ Grown(p) /\ issues' \in Seq(Issue)
          /\ \A i \in DOMAIN issues' : issues'[i].needs \subseteq 1..(i - 1)
      BY <1>1, <2>3, <2>4, <2>5, NewIssue
    <2>7. PICK new \in Nat : /\ DOMAIN issues' = DOMAIN issues \cup {new} /\ issues'[new] = e
                             /\ \A i \in DOMAIN issues : i < new
                             /\ new = Len(issues) + 1 /\ new = Len(issues')
                             /\ \A k \in e.needs : WaitsFor(new, k)'
                             /\ \A k \in e.needs, i \in DOMAIN issues : WaitsFor(k, i) => WaitsFor(new, i)'
      BY <1>1, <2>3, <2>4, <2>5, NewIssue
    <2>8. \A i \in DOMAIN issues : Behind(p, i) => WaitsFor(new, i)'
      <3> TAKE i \in DOMAIN issues
      <3>1. CASE i = gen[p].last
        <4>1. i # 0
          BY <1>2
        <4> QED BY <2>1, <2>3, <2>7, <3>1, <4>1
      <3>2. CASE gen[p].last # 0 /\ WaitsFor(gen[p].last, i)
        BY <2>1, <2>3, <2>7, <3>2
      <3> QED BY <3>1, <3>2 DEF Behind
    <2>9. Adds(p, t, how, new)
      BY <2>3, <2>7, <2>8 DEF Adds
    <2> QED BY <1>2, <1>4, <1>6, <2>6, <2>7, <2>9
  <1> QED BY <1>5, <1>6

(* Those that stand before the new issue in the order stay before it.      *)
LEMMA Created ==
  ASSUME IssuesInv, CycleInv', NEW p \in Pulls, gen[p].at = "create", GenStays, Quiet,
         NEW t \in Ahead(p), NEW how \in {"ok", "failed", "lost"}, IssueCreated(p, t, how),
         NEW g \in Generation, gen' = [gen EXCEPT ![p] = g], g.at = "create", g.lang = gen[p].lang,
         Distinct(g.serial), Distinct(g.parallel),
         Of(g.serial) \subseteq Of(gen[p].serial), Of(g.parallel) \subseteq Of(gen[p].parallel),
         Of(g.serial) \cup Of(g.parallel) = Ahead(p) \ {t},
         g.failed = IF how = "ok" THEN gen[p].failed ELSE gen[p].failed \cup {t},
         g.last \in 0..Len(issues'),
         \A i \in IssuedBy(p) : ~issues[i].lost => Behind(p, i) \/ SideBySide(p, issues[i].task, t),
         OrderKept(p)'
  PROVE  IssuesInv'
  <1>1. IssuesTyped /\ TicksStay /\ TasksOnce(p) /\ TasksAll(p) /\ OverlapsOrdered
    BY DEF IssuesInv
  <1>2. gen \in [Pulls -> Generation]
    BY <1>1 DEF IssuesTyped
  <1>3. gen' \in [Pulls -> Generation] /\ gen'[p] = g /\ \A r \in Pulls : r # p => gen'[r] = gen[r]
    BY <1>2
  <1>4. UNCHANGED <<shape, done, merged, slips, lab>>
    BY DEF GenStays, Quiet
  <1>5. t \in Tasks /\ Ahead(p) \subseteq Tasks
    <2>1. gen[p] \in Generation
      BY <1>2
    <2>2. gen[p].serial \in Seq(Tasks) /\ gen[p].parallel \in Seq(Tasks)
      BY <2>1 DEF Generation
    <2>3. \A s \in Seq(Tasks) : Of(s) \subseteq Tasks
      BY DEF Of
    <2> QED BY <2>2, <2>3 DEF Ahead
  <1>6. /\ Grown(p) /\ issues' \in Seq(Issue) /\ Len(issues') \in Nat /\ Len(issues) <= Len(issues')
        /\ \A i \in DOMAIN issues' : issues'[i].needs \subseteq 1..(i - 1)
        /\ how = "failed" => issues' = issues
        /\ Spends \/ spare' = spare
    BY <1>5, Creating
  <1>7. (how = "failed" /\ issues' = issues) \/ (how # "failed" /\ \E new : Adds(p, t, how, new))
    BY <1>5, Creating
  <1>8. Len(issues) \in Nat /\ DOMAIN issues = 1..Len(issues)
    BY <1>1 DEF IssuesTyped
  <1>9. IssuesTyped'
    <2>1. \A r \in Pulls : gen'[r].last \in 0..Len(issues')
      BY <1>1, <1>3, <1>6, <1>8 DEF IssuesTyped, CycleTypeOK
    <2> QED BY <1>1, <1>3, <1>4, <1>6, <2>1, TypesStay, Spending, LabTyped
  <1>10. TicksStay'
    BY <1>1, <1>3, <1>4 DEF TicksStay
  <1>11. \A r \in Pulls : r # p => TasksOnce(r)' /\ TasksAll(r)' /\ OrderKept(r)'
    BY <1>3, <1>4, <1>6, Stays
  <1>12. Ahead(p)' = Ahead(p) \ {t}
    BY <1>3 DEF Ahead
  <1>13. \A i \in IssuedBy(p)' : \/ i \in IssuedBy(p) /\ issues'[i] = issues[i]
                                 \/ how # "failed" /\ issues'[i].task = t /\ i \notin DOMAIN issues
                                    /\ \A j \in DOMAIN issues' : j \notin DOMAIN issues => j = i
    <2>1. CASE issues' = issues
      BY <2>1 DEF IssuedBy
    <2>2. CASE how # "failed" /\ \E new : Adds(p, t, how, new)
      <3>1. PICK new : Adds(p, t, how, new)
        BY <2>2
      <3>2. DOMAIN issues' = DOMAIN issues \cup {new} /\ issues'[new].task = t
        BY <3>1 DEF Adds
      <3>3. ASSUME NEW i \in IssuedBy(p)', i \in DOMAIN issues PROVE i \in IssuedBy(p) /\ issues'[i] = issues[i]
        BY <1>6, <3>3 DEF IssuedBy, Grown
      <3> QED BY <2>2, <3>2, <3>3 DEF IssuedBy
    <2> QED BY <1>7, <2>1, <2>2
  <1>14. TasksOnce(p)'
    <2>1. Distinct(gen'[p].serial) /\ Distinct(gen'[p].parallel) /\ Of(gen'[p].serial) \cap Of(gen'[p].parallel) = {}
      BY <1>1, <1>3 DEF TasksOnce
    <2>2. Ahead(p)' \cap merged'[p].ticked = {} /\ t \notin merged[p].ticked
      BY <1>1, <1>4, <1>12 DEF TasksOnce
    <2>3. \A i \in IssuedBy(p)' : issues'[i].task \notin Ahead(p)' \cup merged'[p].ticked
      BY <1>1, <1>4, <1>12, <1>13, <2>2 DEF TasksOnce
    <2>4. \A i, j \in IssuedBy(p)' : issues'[i].task = issues'[j].task => i = j
      BY <1>1, <1>13 DEF TasksOnce, IssuedBy
    <2> QED BY <2>1, <2>2, <2>3, <2>4 DEF TasksOnce
  <1>15. TasksAll(p)'
    <2>1. \A u : IssuesOf(p, u) \subseteq IssuesOf(p, u)'
      BY <1>6 DEF Grown, IssuesOf
    <2>2. how # "failed" => IssuesOf(p, t)' # {}
      BY <1>7 DEF IssuesOf, Adds
    <2>3. how # "ok" => t \in g.failed
      OBVIOUS
    <2>4. merged[p].ofChange => \A u \in Tasks \ (done \cup g.failed \cup (Ahead(p) \ {t})) : IssuesOf(p, u)' # {}
      BY <1>1, <2>1, <2>2, <2>3 DEF TasksAll
    <2> QED BY <1>3, <1>4, <1>12, <2>4 DEF TasksAll
  <1>16. OverlapsOrdered'
    <2>1. \A i, j : Apart(i, j)' <=> LET a == issues'[i].task  b == issues'[j].task
                                     IN shape[a].parallel /\ shape[b].parallel /\ ~PathsOverlap(gen'[issues'[i].from].lang, a, b)
      BY <1>4 DEF Apart, PathsOverlap, Paths
    <2>2. \A r \in Pulls : gen'[r].lang = gen[r].lang
      BY <1>3
    <2>3. \A i, j \in DOMAIN issues : Apart(i, j) => Apart(i, j)'
      BY <1>1, <1>6, <2>1, <2>2, IssuedFrom DEF Apart, Grown
    <2>4. ASSUME NEW i \in DOMAIN issues, NEW j \in DOMAIN issues, i < j, issues'[i].from = issues'[j].from,
                 ~issues'[i].lost, ~Apart(i, j)'
          PROVE  WaitsFor(j, i)'
      BY <1>1, <1>6, <2>3, <2>4 DEF OverlapsOrdered, Grown
    <2>5. ASSUME NEW i \in DOMAIN issues, NEW j \in DOMAIN issues', j \notin DOMAIN issues,
                 issues'[i].from = issues'[j].from, ~issues'[i].lost, ~Apart(i, j)'
          PROVE  WaitsFor(j, i)'
      <3>1. issues'[j].task = t /\ issues'[j].from = p /\ (Behind(p, i) => WaitsFor(j, i)')
        <4>1. issues' # issues
          BY <2>5
        <4>2. PICK new : Adds(p, t, how, new)
          BY <1>7, <4>1
        <4>3. j = new
          BY <2>5, <4>2 DEF Adds
        <4> QED BY <4>2, <4>3 DEF Adds
      <3>2. issues'[i] = issues[i] /\ i \in IssuedBy(p) /\ ~issues[i].lost
        BY <1>6, <2>5, <3>1 DEF Grown, IssuedBy
      <3>3. ~SideBySide(p, issues[i].task, t)
        BY <2>1, <2>2, <2>5, <3>1, <3>2 DEF SideBySide
      <3> QED BY <3>1, <3>2, <3>3
    <2>6. \A i, j \in DOMAIN issues' : i < j /\ i \notin DOMAIN issues => j \notin DOMAIN issues /\ i = j
      <3>1. CASE issues' = issues
        BY <3>1
      <3>2. CASE \E new : Adds(p, t, how, new)
        <4>1. PICK new : Adds(p, t, how, new)
          BY <3>2
        <4>2. \A i \in DOMAIN issues' : i \in DOMAIN issues \/ i = new
          BY <4>1 DEF Adds
        <4>3. \A j \in DOMAIN issues : j < new /\ j \in Nat
          BY <1>8, <4>1 DEF Adds
        <4>4. new \in Nat
          BY <1>6, <4>1 DEF Adds
        <4> QED BY <4>2, <4>3, <4>4
      <3> QED BY <1>7, <3>1, <3>2
    <2>7. \A i, j \in DOMAIN issues' : i < j => i # j
      BY <1>6
    <2> QED BY <2>4, <2>5, <2>6, <2>7 DEF OverlapsOrdered
  <1> QED BY <1>9, <1>10, <1>11, <1>14, <1>15, <1>16 DEF IssuesInv

LEMMA CreatesSerialKeeps ==
  ASSUME IssuesInv, CycleInv', NEW p \in Pulls, CreatesSerial(p)
  PROVE  IssuesInv'
  <1>1. IssuesTyped /\ TasksOnce(p) /\ OrderKept(p) /\ gen[p].at = "create" /\ gen[p].serial # <<>>
    BY DEF IssuesInv, CreatesSerial, At
  <1>2. gen \in [Pulls -> Generation] /\ gen[p] \in Generation
    BY <1>1 DEF IssuesTyped
  <1>3. PICK t, r : t = Head(gen[p].serial) /\ r = Tail(gen[p].serial)
    OBVIOUS
  <1>4. t \in Tasks /\ t \in Of(gen[p].serial) /\ r \in Seq(Tasks) /\ Distinct(r) /\ Of(r) = Of(gen[p].serial) \ {t}
    BY <1>1, <1>2, <1>3, LeftOf DEF TasksOnce, Generation
  <1>5. PICK how \in {"ok", "failed", "lost"} :
          /\ IssueCreated(p, t, how)
          /\ gen' = [gen EXCEPT ![p].serial = Tail(@), ![p].last = LastSerial(p, how),
                                ![p].failed = IF how = "ok" THEN @ ELSE @ \cup {t}]
    BY <1>3 DEF CreatesSerial
  <1>6. PICK last, failed :
          last = LastSerial(p, how) /\ failed = IF how = "ok" THEN gen[p].failed ELSE gen[p].failed \cup {t}
    OBVIOUS
  <1>7. PICK g : g = [gen[p] EXCEPT !.serial = r, !.last = last, !.failed = failed]
    OBVIOUS
  <1>8. gen' = [gen EXCEPT ![p] = g]
    BY <1>2, <1>3, <1>5, <1>6, <1>7
  <1>9. /\ Grown(p) /\ Len(issues') \in Nat /\ Len(issues) <= Len(issues')
        /\ how = "failed" => issues' = issues
    BY <1>4, <1>5, Creating
  <1>10. how # "failed" => \E new : Adds(p, t, how, new)
    BY <1>4, <1>5, Creating
  <1>11. Len(issues) \in Nat /\ DOMAIN issues = 1..Len(issues) /\ gen[p].last \in 0..Len(issues)
    BY <1>1 DEF IssuesTyped, CycleTypeOK
  <1>12. last \in 0..Len(issues') /\ last \in Nat
    <2>1. CASE how = "ok"
      <3>1. last = Len(issues) + 1 /\ last = Len(issues')
        BY <1>6, <1>10, <2>1 DEF LastSerial, Adds
      <3> QED BY <1>9, <1>11, <3>1
    <2>2. CASE how # "ok"
      <3>1. last = gen[p].last
        BY <1>6, <2>2 DEF LastSerial
      <3> QED BY <1>9, <1>11, <3>1
    <2> QED BY <2>1, <2>2
  <1>13. g \in Generation /\ g.at = "create" /\ g.lang = gen[p].lang /\ g.serial = r /\ g.parallel = gen[p].parallel
         /\ g.last = last /\ g.failed = failed
    <2>1. failed \in SUBSET Tasks
      BY <1>2, <1>4, <1>6 DEF Generation
    <2> QED BY <1>1, <1>2, <1>4, <1>7, <1>12, <2>1 DEF Generation
  <1>14. t \in Ahead(p) /\ Of(r) \cup Of(gen[p].parallel) = Ahead(p) \ {t}
    BY <1>1, <1>4 DEF Ahead, TasksOnce
  <1>15. \A i \in IssuedBy(p) : ~issues[i].lost => Behind(p, i)
    BY <1>1 DEF OrderKept, Followed, Behind
  <1>16. gen'[p] = g /\ shape' = shape
    BY <1>2, <1>8 DEF CreatesSerial, GenStays
  <1>17. OrderKept(p)'
    <2>1. \A a, b \in Of(gen'[p].parallel) : a # b => SideBySide(p, a, b)'
      BY <1>1, <1>13, <1>16 DEF OrderKept, SideBySide, PathsOverlap, Paths
    <2>2. ASSUME NEW i \in IssuedBy(p)', ~issues'[i].lost PROVE Followed(p, i)'
      <3>1. CASE i \in DOMAIN issues
        <4>1. i \in IssuedBy(p) /\ ~issues[i].lost
          BY <1>9, <2>2, <3>1 DEF Grown, IssuedBy
        <4>2. Behind(p, i)
          BY <1>15, <4>1
        <4>3. CASE how = "ok"
          <5>1. last = Len(issues) + 1 /\ WaitsFor(last, i)'
            BY <1>6, <1>10, <3>1, <4>2, <4>3 DEF LastSerial, Adds
          <5>2. last # 0
            BY <1>11, <5>1
          <5> QED BY <1>13, <1>16, <5>1, <5>2 DEF Followed
        <4>4. CASE how # "ok"
          <5>1. last = gen[p].last
            BY <1>6, <4>4 DEF LastSerial
          <5>2. last # 0 => last \in DOMAIN issues
            BY <1>11, <5>1
          <5>3. i = last \/ (last # 0 /\ WaitsFor(last, i)')
            BY <1>9, <3>1, <4>2, <5>1, <5>2 DEF Behind, Grown
          <5> QED BY <1>13, <1>16, <5>3 DEF Followed
        <4> QED BY <4>3, <4>4
      <3>2. CASE i \notin DOMAIN issues
        <4>1. i = Len(issues) + 1 /\ how = "ok"
          BY <1>5, <1>9, <1>10, <2>2, <3>2 DEF IssuedBy, Adds
        <4> QED BY <1>6, <1>13, <1>16, <4>1 DEF Followed, LastSerial
      <3> QED BY <3>1, <3>2
    <2> QED BY <2>1, <2>2 DEF OrderKept
  <1>18. GenStays /\ Quiet
    BY DEF CreatesSerial
  <1>19. Distinct(gen[p].parallel)
    BY <1>1 DEF TasksOnce
  <1>20. /\ Distinct(g.serial) /\ Distinct(g.parallel) /\ g.last \in 0..Len(issues')
         /\ Of(g.serial) \subseteq Of(gen[p].serial) /\ Of(g.parallel) \subseteq Of(gen[p].parallel)
         /\ Of(g.serial) \cup Of(g.parallel) = Ahead(p) \ {t}
         /\ g.failed = IF how = "ok" THEN gen[p].failed ELSE gen[p].failed \cup {t}
    BY <1>4, <1>6, <1>12, <1>13, <1>14, <1>19
  <1> QED BY <1>1, <1>5, <1>8, <1>13, <1>14, <1>15, <1>17, <1>18, <1>20, Created

LEMMA CreatesParallelKeeps ==
  ASSUME IssuesInv, CycleInv', NEW p \in Pulls, CreatesParallel(p)
  PROVE  IssuesInv'
  <1>1. /\ IssuesTyped /\ TasksOnce(p) /\ OrderKept(p)
        /\ gen[p].at = "create" /\ gen[p].parallel # <<>> /\ gen[p].serial = <<>>
    BY DEF IssuesInv, CreatesParallel, At
  <1>2. gen \in [Pulls -> Generation] /\ gen[p] \in Generation
    BY <1>1 DEF IssuesTyped
  <1>3. PICK t, r : t = Head(gen[p].parallel) /\ r = Tail(gen[p].parallel)
    OBVIOUS
  <1>4. t \in Tasks /\ t \in Of(gen[p].parallel) /\ r \in Seq(Tasks) /\ Distinct(r) /\ Of(r) = Of(gen[p].parallel) \ {t}
    BY <1>1, <1>2, <1>3, LeftOf DEF TasksOnce, Generation
  <1>5. PICK how \in {"ok", "failed", "lost"} :
          /\ IssueCreated(p, t, how)
          /\ gen' = [gen EXCEPT ![p].parallel = Tail(@), ![p].failed = IF how = "ok" THEN @ ELSE @ \cup {t}]
    BY <1>3 DEF CreatesParallel
  <1>6. PICK failed : failed = IF how = "ok" THEN gen[p].failed ELSE gen[p].failed \cup {t}
    OBVIOUS
  <1>7. PICK g : g = [gen[p] EXCEPT !.parallel = r, !.failed = failed]
    OBVIOUS
  <1>8. gen' = [gen EXCEPT ![p] = g]
    BY <1>2, <1>3, <1>5, <1>6, <1>7
  <1>9. /\ Grown(p) /\ Len(issues') \in Nat /\ Len(issues) <= Len(issues')
        /\ how = "failed" => issues' = issues
        /\ how # "failed" => \E new : Adds(p, t, how, new)
    BY <1>4, <1>5, Creating
  <1>10. Len(issues) \in Nat /\ DOMAIN issues = 1..Len(issues) /\ gen[p].last \in 0..Len(issues)
    BY <1>1 DEF IssuesTyped, CycleTypeOK
  <1>11. g \in Generation /\ g.at = "create" /\ g.lang = gen[p].lang /\ g.serial = gen[p].serial /\ g.parallel = r
         /\ g.last = gen[p].last /\ g.failed = failed
    <2>1. failed \in SUBSET Tasks
      BY <1>2, <1>4, <1>6 DEF Generation
    <2> QED BY <1>1, <1>2, <1>4, <1>7, <2>1 DEF Generation
  <1>12. t \in Ahead(p) /\ Of(gen[p].serial) \cup Of(r) = Ahead(p) \ {t}
    BY <1>1, <1>4 DEF Ahead, TasksOnce
  <1>13. \A i \in IssuedBy(p) : ~issues[i].lost => Behind(p, i) \/ SideBySide(p, issues[i].task, t)
    BY <1>1, <1>4 DEF OrderKept, Followed, Behind
  <1>14. gen'[p] = g /\ shape' = shape
    BY <1>2, <1>8 DEF CreatesParallel, GenStays
  <1>15. \A a, b : SideBySide(p, a, b)' = SideBySide(p, a, b)
    BY <1>11, <1>14 DEF SideBySide, PathsOverlap, Paths
  <1>16. OrderKept(p)'
    <2>1. \A a, b \in Of(gen'[p].parallel) : a # b => SideBySide(p, a, b)'
      BY <1>1, <1>4, <1>11, <1>14, <1>15 DEF OrderKept
    <2>2. ASSUME NEW i \in IssuedBy(p)', ~issues'[i].lost PROVE Followed(p, i)'
      <3>1. CASE i \in DOMAIN issues
        <4>1. i \in IssuedBy(p) /\ issues'[i] = issues[i] /\ ~issues[i].lost
          BY <1>9, <2>2, <3>1 DEF Grown, IssuedBy
        <4>2. Followed(p, i)
          BY <1>1, <4>1 DEF OrderKept
        <4>3. PICK last : last = gen[p].last /\ (last # 0 => last \in DOMAIN issues)
          BY <1>10
        <4>4. last # 0 /\ WaitsFor(last, i) => WaitsFor(last, i)'
          BY <1>9, <3>1, <4>3 DEF Grown
        <4>5. gen'[p].last = last
          BY <1>11, <1>14, <4>3
        <4> QED BY <1>4, <1>11, <1>14, <1>15, <4>1, <4>2, <4>3, <4>4, <4>5 DEF Followed
      <3>2. CASE i \notin DOMAIN issues
        <4>1. issues'[i].task = t
          BY <1>9, <2>2, <3>2 DEF IssuedBy, Adds
        <4>2. \A u \in Of(r) : SideBySide(p, t, u)
          BY <1>1, <1>4 DEF OrderKept
        <4> QED BY <1>1, <1>11, <1>14, <1>15, <4>1, <4>2 DEF Followed
      <3> QED BY <3>1, <3>2
    <2> QED BY <2>1, <2>2 DEF OrderKept
  <1>17. GenStays /\ Quiet
    BY DEF CreatesParallel
  <1>18. g.last \in 0..Len(issues')
    BY <1>9, <1>10, <1>11
  <1>19. /\ Distinct(g.serial) /\ Distinct(g.parallel)
         /\ Of(g.serial) \subseteq Of(gen[p].serial) /\ Of(g.parallel) \subseteq Of(gen[p].parallel)
         /\ Of(g.serial) \cup Of(g.parallel) = Ahead(p) \ {t}
         /\ g.failed = IF how = "ok" THEN gen[p].failed ELSE gen[p].failed \cup {t}
    BY <1>1, <1>4, <1>6, <1>11, <1>12 DEF TasksOnce
  <1> QED BY <1>1, <1>5, <1>8, <1>11, <1>12, <1>13, <1>16, <1>17, <1>18, <1>19, Created

-----------------------------------------------------------------------------
LEMMA IssuesStart == CycleInit => IssuesInv
  <1> SUFFICES ASSUME CycleInit PROVE IssuesInv
    OBVIOUS
  <1>1. /\ shape \in Shapes /\ done = {} /\ spare = MaxSpare /\ MaxSpare \in Nat /\ slips = {} /\ issues = <<>>
        /\ lab \in [Pulls -> {"none"}] /\ merged \in [Pulls -> {NotMerged}] /\ gen \in [Pulls -> {NoGen}]
    BY SpecCycleAssumption DEF CycleInit
  <1>2. NoGen \in Generation /\ NoGen.at = "none" /\ NoGen.serial = <<>> /\ NoGen.parallel = <<>>
        /\ NoGen.last = 0 /\ NoGen.failed = {}
    BY DEF NoGen, Generation, Stages
  <1>3. NotMerged \in [ticked : SUBSET Tasks, ofChange : BOOLEAN, is : BOOLEAN]
        /\ NotMerged.ticked = {} /\ ~NotMerged.is
    BY DEF NotMerged
  <1>4. \A p \in Pulls : gen[p] = NoGen /\ merged[p] = NotMerged
    BY <1>1
  <1>5. gen \in [Pulls -> Generation] /\ merged \in [Pulls -> [ticked : SUBSET Tasks, ofChange : BOOLEAN, is : BOOLEAN]]
    BY <1>1, <1>2, <1>3
  <1>6. DOMAIN issues = {} /\ issues \in Seq(Issue) /\ Len(issues) = 0
    BY <1>1
  <1>7. RepoTyped
    BY CycleStart DEF CycleInv
  <1>8. \A p \in Pulls : gen[p].at \in Stages /\ gen[p].failed \subseteq Tasks /\ gen[p].serial \in Seq(Tasks)
                         /\ gen[p].parallel \in Seq(Tasks) /\ gen[p].last \in 0..Len(issues)
    <2>1. NoGen.serial \in Seq(Tasks) /\ NoGen.parallel \in Seq(Tasks) /\ NoGen.last \in 0..Len(issues)
      BY <1>2, <1>6
    <2> QED BY <1>2, <1>4, <2>1 DEF Stages
  <1>9. lab \in [Pulls -> {"none", "look", "remove", "add", "end", "cut"}] /\ spare \in 0..MaxSpare
    BY <1>1
  <1>10. IssuesTyped
    <2>1. done \subseteq Tasks /\ slips \subseteq Names /\ \A i \in DOMAIN issues : issues[i].needs \subseteq 1..(i - 1)
      BY <1>1, <1>6
    <2> QED BY <1>1, <1>5, <1>6, <1>7, <1>8, <1>9, <2>1 DEF IssuesTyped, CycleTypeOK, RepoTyped
  <1>11. TicksStay
    BY <1>1, <1>2, <1>3, <1>4, SpecCycleAssumption DEF TicksStay
  <1>12. OverlapsOrdered
    BY <1>6 DEF OverlapsOrdered
  <1>13. \A p \in Pulls : Ahead(p) = {} /\ IssuedBy(p) = {} /\ gen[p].serial = <<>> /\ gen[p].parallel = <<>>
                          /\ gen[p].last = 0 /\ gen[p].at = "none"
    BY <1>2, <1>4, <1>6 DEF Ahead, Of, IssuedBy
  <1>14. \A p \in Pulls : TasksOnce(p) /\ TasksAll(p) /\ OrderKept(p)
    BY <1>13 DEF TasksOnce, TasksAll, OrderKept, Distinct, Of, Ahead
  <1> QED BY <1>10, <1>11, <1>12, <1>14 DEF IssuesInv

LEMMA IssuesStep == IssuesInv /\ CycleInv /\ [CycleNext]_allCycleVars => IssuesInv'
  <1> SUFFICES ASSUME IssuesInv, CycleInv, [CycleNext]_allCycleVars PROVE IssuesInv'
    OBVIOUS
  <1>1. CycleInv'
    BY CycleStep
  <1>2. CASE UNCHANGED allCycleVars
    <2>1. UNCHANGED <<shape, done, merged, issues, gen, lab, slips, spare>>
      BY <1>2 DEF allCycleVars, cycleVars
    <2> QED BY <1>1, <2>1, LabTyped, NoPlace
  <1>3. CASE MergesSpec \/ MergesWork
    BY <1>1, <1>3, MergesLeave
  <1>4. CASE Crash
    BY <1>1, <1>4, CrashLeaves
  <1>5. ASSUME NEW p \in Pulls, Handles(p) \/ GivesUp(p) \/ Detects(p) \/ Implementing(p) \/ Ends(p) PROVE IssuesInv'
    BY <1>1, <1>5, PlacesMove
  <1>6. ASSUME NEW p \in Pulls, Reads(p) PROVE IssuesInv'
    BY <1>1, <1>6, ReadsGroups
  <1>7. ASSUME NEW p \in Pulls, CreatesSerial(p) PROVE IssuesInv'
    BY <1>1, <1>7, CreatesSerialKeeps
  <1>8. ASSUME NEW p \in Pulls, CreatesParallel(p) PROVE IssuesInv'
    BY <1>1, <1>8, CreatesParallelKeeps
  <1>9. ASSUME NEW p \in Pulls, LabelsSkipped(p) \/ Unproposes(p) \/ Approves(p) \/ LabelsEnd(p) PROVE IssuesInv'
    BY <1>1, <1>9, LabelsMoveOn
  <1>10. ASSUME NEW c \in Clients, Requests(c) PROVE IssuesInv'
    BY <1>1, <1>10, RequestsMoveOn
  <1> QED BY <1>2, <1>3, <1>4, <1>5, <1>6, <1>7, <1>8, <1>9, <1>10 DEF CycleNext

LEMMA OnlyOne ==
  ASSUME NEW S, \A x, y \in S : x = y
  PROVE  Cardinality(S) <= 1
  <1>1. CASE S = {}
    BY <1>1, FS_EmptySet
  <1>2. CASE S # {}
    <2>1. PICK x \in S : TRUE
      BY <1>2
    <2>2. S = {x}
      BY <2>1
    <2>3. Cardinality({x}) = 1
      BY FS_Singleton
    <2> QED BY <2>2, <2>3
  <1> QED BY <1>1, <1>2

(* The variables of the generation and of the labels have their types.     *)
THEOREM CycleTypes == CycleSpec => []CycleTypeOK
  <1>1. IssuesInv => CycleTypeOK
    BY DEF IssuesInv, IssuesTyped
  <1> QED BY <1>1, CycleStart, CycleStep, IssuesStart, IssuesStep, PTL DEF CycleSpec

(* Every task that is open at the merge of its change gets one issue, or   *)
(* is counted as failed, and a ticked one gets none, for any tasks.md,     *)
(* whatever requests fail (handleSpecPRMerged).                            *)
THEOREM TasksIssued == CycleSpec => []EveryTaskOnce
  <1>1. IssuesInv => EveryTaskOnce
    <2> SUFFICES ASSUME IssuesInv, NEW p \in Pulls, NEW t \in Tasks
                 PROVE  /\ Cardinality(IssuesOf(p, t)) <= 1
                        /\ t \in merged[p].ticked => IssuesOf(p, t) = {}
                        /\ gen[p].at \in {"label", "end"} /\ merged[p].ofChange /\ t \notin done \cup gen[p].failed
                             => IssuesOf(p, t) # {}
      BY DEF EveryTaskOnce
    <2>1. TasksOnce(p) /\ TasksAll(p)
      BY DEF IssuesInv
    <2>2. \A i \in IssuesOf(p, t) : i \in IssuedBy(p) /\ issues[i].task = t
      BY DEF IssuesOf, IssuedBy
    <2>3. Cardinality(IssuesOf(p, t)) <= 1
      BY <2>1, <2>2, OnlyOne DEF TasksOnce
    <2> QED BY <2>1, <2>2, <2>3 DEF TasksOnce, TasksAll
  <1> QED BY <1>1, CycleStart, CycleStep, IssuesStart, IssuesStep, PTL DEF CycleSpec

(* Issues whose tasks touch the same paths, or that are not both marked    *)
(* parallel, never can be worked on at the same time, for any tasks.md     *)
(* (validateParallelTasks, handleSpecPRMerged).                            *)
THEOREM TasksOrdered == CycleSpec => []OverlapsOrdered
  <1>1. IssuesInv => OverlapsOrdered
    BY DEF IssuesInv
  <1> QED BY <1>1, CycleStart, CycleStep, IssuesStart, IssuesStep, PTL DEF CycleSpec
=============================================================================
