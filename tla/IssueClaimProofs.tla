--------------------------- MODULE IssueClaimProofs ---------------------------
(***************************************************************************)
(* Proofs about IssueClaim, for every set of sessions and every bound.     *)
(***************************************************************************)
EXTENDS IssueClaim, TLAPS

(* A goroutine that ended holds nothing, one that is on its way out is     *)
(* making its last calls, and only a session with a claim puts it back.    *)
Goroutines ==
  \A s \in Sessions :
    /\ ~Alive(s) => run[s] = NoRun
    /\ run[s].leaving => run[s].at \in {"calling", "putting"}
    /\ run[s].at = "putting" => Claims(s)

(* A goroutine with a live context is the one the map holds. *)
LiveIsHeld ==
  /\ \A s, t \in holder : s = t
  /\ \A s \in Sessions : Alive(s) /\ Live(s) => s \in holder

(* While a session holds the claim the issue is not ready, nobody else     *)
(* holds it and nobody who can still call the forge is about to write it.  *)
ClaimIsAlone ==
  fault \/ relabelled \/
  \A s \in Sessions : Claims(s) =>
    /\ Ready \notin labels
    /\ \A t \in Sessions : Claims(t) \/ (run[t].at = "claiming" /\ Live(t)) => s = t

(* Once given up the failures stay over the limit, and a retry that is     *)
(* under way goes by a failed count.                                       *)
GivenUp == gaveUp => Exhausted /\ (retrier = "clearing" => miscounted)

IInv ==
  /\ TypeOK
  /\ Goroutines
  /\ LiveIsHeld
  /\ InProgressIsClaimed
  /\ ClaimIsAlone
  /\ GivenUp
-----------------------------------------------------------------------------
(* What the records and the calls of the model are. *)

LEMMA RunTypes ==
  /\ NoRun \in Run
  /\ \A waits \in BOOLEAN : Opened(waits) \in Run
<1>1. NoRun \in Run
  BY DEF NoRun, Run, Places, Calls, Labels
<1>2. ASSUME NEW waits \in BOOLEAN
      PROVE  Opened(waits) \in Run
  BY <1>1 DEF Opened, Run, Places
<1> QED
  BY <1>1, <1>2

LEMMA CallTypes ==
  /\ BlockedCalls \in Seq(Calls)
  /\ MaxTurnsCalls \in Seq(Calls)
  /\ ErrorCalls \in Seq(Calls)
  /\ ExhaustedCalls \in Seq(Calls)
  /\ RetryCalls \in Seq(Calls)
<1>1. \A L \in SUBSET (Labels \ {Ready, InProgress}) : Add(L) \in Calls
  BY DEF Add, Calls, Labels
<1>2. \A l \in Labels : Remove(l) \in Calls
  BY DEF Remove, Calls, Labels
<1>3. /\ {Blocked} \in SUBSET (Labels \ {Ready, InProgress})
      /\ {Failed} \in SUBSET (Labels \ {Ready, InProgress})
      /\ {FailedTurns} \in SUBSET (Labels \ {Ready, InProgress})
      /\ {Blocked, Failed} \in SUBSET (Labels \ {Ready, InProgress})
  BY DEF Labels, FailedLabels, Blocked, Failed, FailedTurns, Ready, InProgress
<1>4. /\ Ready \in Labels /\ InProgress \in Labels
      /\ FailedTurns \in Labels /\ Blocked \in Labels
  BY DEF Labels, FailedLabels
<1> QED
  BY <1>1, <1>2, <1>3, <1>4
     DEF BlockedCalls, MaxTurnsCalls, ErrorCalls, ExhaustedCalls, RetryCalls

(* A label call takes labels off, or puts on others than the two of the    *)
(* claim.                                                                  *)
LEMMA CallKeeps ==
  ASSUME NEW calls \in Seq(Calls), calls # <<>>, labels \subseteq Labels
  PROVE  /\ Apply(Head(calls)) \subseteq Labels
         /\ InProgress \in Apply(Head(calls)) => InProgress \in labels
         /\ Ready \in Apply(Head(calls)) => Ready \in labels
         /\ Tail(calls) \in Seq(Calls)
<1>1. Head(calls) \in Calls /\ Tail(calls) \in Seq(Calls)
  OBVIOUS
<1> QED
  BY <1>1 DEF Apply, Calls, Labels
-----------------------------------------------------------------------------
THEOREM InitIInv == Init => IInv
<1> SUFFICES ASSUME Init PROVE IInv
  OBVIOUS
<1>1. TypeOK
  <2>1. labels \subseteq Labels /\ holder \in SUBSET Sessions /\ bus \subseteq Kinds
    BY DEF Init, Labels
  <2>2. events \in 0..MaxEvents /\ failures \in Nat
    BY IssueClaimAssumption DEF Init
  <2>3. run \in [Sessions -> Run] /\ retrierCalls \in Seq(Calls) /\ schedulerCalls \in Seq(UnblockCalls)
    BY RunTypes DEF Init
  <2> QED
    BY <2>1, <2>2, <2>3 DEF Init, TypeOK
<1>2. Goroutines /\ LiveIsHeld
  BY DEF Init, Goroutines, LiveIsHeld, Alive, Claims, NoRun
<1>3. InProgressIsClaimed /\ ClaimIsAlone
  BY DEF Init, InProgressIsClaimed, ClaimIsAlone, Claims, NoRun, Ready, InProgress, Blocked
<1>4. GivenUp
  BY DEF Init, GivenUp
<1> QED
  BY <1>1, <1>2, <1>3, <1>4 DEF IInv
-----------------------------------------------------------------------------
(* A step of one goroutine changes its record and no other.                *)
LEMMA OneMoves ==
  ASSUME run \in [Sessions -> Run], NEW s \in Sessions, NEW r \in Run, Becomes(s, r)
  PROVE  /\ run' \in [Sessions -> Run]
         /\ run'[s] = r
         /\ \A t \in Sessions : t # s => run'[t] = run[t]
BY DEF Becomes

LEMMA Happening ==
  ASSUME TypeOK, Happens
  PROVE  events' \in 0..MaxEvents
BY IssueClaimAssumption DEF TypeOK, Happens

(* A goroutine that goes on, its context as it was.                        *)
LEMMA GoesOn ==
  ASSUME IInv, NEW s \in Sessions, NEW r \in Run, Becomes(s, r),
         Alive(s), r.at # "none", r.ctx = run[s].ctx,
         r.leaving => r.at \in {"calling", "putting"},
         r.at = "putting" => r.claimed,
         holder' = holder
  PROVE  /\ run' \in [Sessions -> Run]
         /\ Goroutines'
         /\ LiveIsHeld'
<1>1. /\ run' \in [Sessions -> Run]
      /\ run'[s] = r
      /\ \A t \in Sessions : t # s => run'[t] = run[t]
  BY OneMoves DEF IInv, TypeOK
<1>2. Goroutines'
  BY <1>1 DEF IInv, Goroutines, Alive, Claims
<1>3. LiveIsHeld'
  BY <1>1 DEF IInv, LiveIsHeld, Alive, Live
<1> QED
  BY <1>1, <1>2, <1>3

(* A goroutine that ends, or waits for its next event.                     *)
LEMMA Settling ==
  ASSUME IInv, NEW s \in Sessions, Alive(s), NEW claimed \in BOOLEAN, Settles(s, claimed)
  PROVE  /\ run' \in [Sessions -> Run]
         /\ Goroutines'
         /\ LiveIsHeld'
         /\ run'[s].at \in {"none", "idle"}
         /\ run'[s].claimed = (claimed /\ ~run[s].leaving)
         /\ \A t \in Sessions : t # s => run'[t] = run[t]
<1>1. run \in [Sessions -> Run] /\ run[s] \in Run
  BY DEF IInv, TypeOK
<1>2. holder' = holder
  BY DEF Settles, Frame, manager
<1>3. CASE run[s].leaving
  <2>1. Becomes(s, NoRun)
    BY <1>3 DEF Settles
  <2>2. /\ run' \in [Sessions -> Run]
        /\ run'[s] = NoRun
        /\ \A t \in Sessions : t # s => run'[t] = run[t]
    BY <1>1, <2>1, RunTypes, OneMoves
  <2>3. NoRun.at = "none" /\ ~NoRun.leaving /\ NoRun.claimed = FALSE
    BY DEF NoRun
  <2>4. Goroutines'
    BY <2>2, <2>3 DEF IInv, Goroutines, Alive, Claims
  <2>5. LiveIsHeld'
    BY <2>2, <2>3, <1>2 DEF IInv, LiveIsHeld, Alive, Live
  <2> QED
    BY <1>3, <2>2, <2>3, <2>4, <2>5
<1>4. CASE ~run[s].leaving
  <2> DEFINE r == [run[s] EXCEPT !.at = "idle", !.read = {}, !.claimed = claimed]
  <2>1. r \in Run
    BY <1>1 DEF Run, Places
  <2>2. /\ r.at = "idle"
        /\ r.ctx = run[s].ctx
        /\ ~r.leaving
        /\ r.claimed = claimed
    BY <1>1, <1>4 DEF Run
  <2>3. Becomes(s, r)
    BY <1>4 DEF Settles
  <2> HIDE DEF r
  <2>4. /\ run' \in [Sessions -> Run]
        /\ Goroutines'
        /\ LiveIsHeld'
    BY <1>2, <2>1, <2>2, <2>3, GoesOn
  <2>5. run'[s] = r /\ \A t \in Sessions : t # s => run'[t] = run[t]
    BY <1>1, <2>1, <2>3, OneMoves
  <2> QED
    BY <1>4, <2>2, <2>4, <2>5
<1> QED
  BY <1>1, <1>3, <1>4 DEF Run

(* A step that puts neither label of the claim on, claims nothing, and     *)
(* gives a claim up only when the issue is not in progress.                *)
LEMMA ClaimKept ==
  ASSUME IInv, NEW s \in Sessions,
         \A t \in Sessions : t # s => run'[t] = run[t],
         run'[s].claimed => Claims(s),
         InProgress \in labels' => InProgress \in labels /\ (Claims(s) => run'[s].claimed),
         Ready \in labels' => Ready \in labels,
         run'[s].at = "claiming" => Ready \in labels,
         fault' = fault, relabelled' = relabelled
  PROVE  InProgressIsClaimed' /\ ClaimIsAlone'
<1>1. InProgressIsClaimed'
  BY DEF IInv, InProgressIsClaimed, Claims
<1>2. ASSUME ~fault', ~relabelled', NEW t \in Sessions, Claims(t)'
      PROVE  /\ Ready \notin labels'
             /\ \A u \in Sessions : (Claims(u) \/ (run[u].at = "claiming" /\ Live(u)))' => t = u
  <2>1. Claims(t)
    BY <1>2 DEF Claims
  <2>2. /\ Ready \notin labels
        /\ \A u \in Sessions : Claims(u) \/ (run[u].at = "claiming" /\ Live(u)) => t = u
    BY <1>2, <2>1 DEF IInv, ClaimIsAlone
  <2> QED
    BY <2>2 DEF Claims, Live
<1> QED
  BY <1>1, <1>2 DEF ClaimIsAlone

(* A step of a session that leaves runAutoRetry alone.                     *)
LEMMA RetryLeftAlone ==
  ASSUME IInv, Frame, failures' \in Nat, failures <= failures'
  PROVE  GivenUp'
BY IssueClaimAssumption DEF IInv, TypeOK, GivenUp, Exhausted, Frame, retry
-----------------------------------------------------------------------------
(* The steps of runSession.                                                *)

(* The issue was ready: nobody held the claim. *)
LEMMA FindsReadyKeeps ==
  ASSUME IInv, NEW s \in Sessions, FindsReady(s)
  PROVE  IInv'
<1> DEFINE r == [run[s] EXCEPT !.at = "claiming", !.read = labels]
<1>1. run \in [Sessions -> Run] /\ run[s] \in Run /\ labels \subseteq Labels
  BY DEF IInv, TypeOK
<1>2. r \in Run
  BY <1>1, CallTypes DEF Run, Places
<1>3. /\ r.at = "claiming"
      /\ r.ctx = run[s].ctx
      /\ r.claimed = run[s].claimed
      /\ r.leaving = run[s].leaving
  BY <1>1 DEF Run
<1>4. Becomes(s, r)
  BY DEF FindsReady
<1> HIDE DEF r
<1>5. Alive(s) /\ holder' = holder /\ relabelled' = relabelled /\ fault' = fault /\ labels' = labels
  BY DEF FindsReady, Alive, Frame, NoLabels, manager
<1>6. r.leaving => r.at \in {"calling", "putting"}
  BY <1>3 DEF IInv, Goroutines, FindsReady
<1>7. /\ run' \in [Sessions -> Run]
      /\ Goroutines'
      /\ LiveIsHeld'
  BY <1>2, <1>3, <1>4, <1>5, <1>6, GoesOn
<1>8. run'[s] = r /\ \A t \in Sessions : t # s => run'[t] = run[t]
  BY <1>1, <1>2, <1>4, OneMoves
<1>9. InProgressIsClaimed' /\ ClaimIsAlone'
  BY <1>3, <1>5, <1>8, ClaimKept DEF Claims, FindsReady
<1>10. TypeOK'
  BY <1>5, <1>7, Happening DEF IInv, TypeOK, Frame, NoLabels, manager, retry, FindsReady
<1>11. GivenUp'
  BY RetryLeftAlone DEF IInv, TypeOK, FindsReady
<1> QED
  BY <1>7, <1>9, <1>10, <1>11 DEF IInv

(* No claim. *)
LEMMA FindsNotReadyKeeps ==
  ASSUME IInv, NEW s \in Sessions, FindsNotReady(s)
  PROVE  IInv'
<1> DEFINE r == [run[s] EXCEPT !.at = "idle"]
<1>1. run \in [Sessions -> Run] /\ run[s] \in Run /\ labels \subseteq Labels
  BY DEF IInv, TypeOK
<1>2. r \in Run
  BY <1>1, CallTypes DEF Run, Places
<1>3. /\ r.at = "idle"
      /\ r.ctx = run[s].ctx
      /\ r.claimed = run[s].claimed
      /\ r.leaving = run[s].leaving
  BY <1>1 DEF Run
<1>4. Becomes(s, r)
  BY DEF FindsNotReady
<1> HIDE DEF r
<1>5. Alive(s) /\ holder' = holder /\ relabelled' = relabelled /\ fault' = fault /\ labels' = labels
  BY DEF FindsNotReady, Alive, Frame, NoLabels, manager
<1>6. r.leaving => r.at \in {"calling", "putting"}
  BY <1>3 DEF IInv, Goroutines, FindsNotReady
<1>7. /\ run' \in [Sessions -> Run]
      /\ Goroutines'
      /\ LiveIsHeld'
  BY <1>2, <1>3, <1>4, <1>5, <1>6, GoesOn
<1>8. run'[s] = r /\ \A t \in Sessions : t # s => run'[t] = run[t]
  BY <1>1, <1>2, <1>4, OneMoves
<1>9. InProgressIsClaimed' /\ ClaimIsAlone'
  BY <1>3, <1>5, <1>8, ClaimKept DEF Claims
<1>10. TypeOK'
  BY <1>5, <1>7, Happening DEF IInv, TypeOK, Frame, NoLabels, manager, retry, FindsNotReady
<1>11. GivenUp'
  BY RetryLeftAlone DEF IInv, TypeOK, FindsNotReady
<1> QED
  BY <1>7, <1>9, <1>10, <1>11 DEF IInv

(* A turn begins. *)
LEMMA TakesKeeps ==
  ASSUME IInv, NEW s \in Sessions, Takes(s)
  PROVE  IInv'
<1> DEFINE r == [run[s] EXCEPT !.at = "turn", !.waits = FALSE]
<1>1. run \in [Sessions -> Run] /\ run[s] \in Run /\ labels \subseteq Labels
  BY DEF IInv, TypeOK
<1>2. r \in Run
  BY <1>1, CallTypes DEF Run, Places
<1>3. /\ r.at = "turn"
      /\ r.ctx = run[s].ctx
      /\ r.claimed = run[s].claimed
      /\ r.leaving = run[s].leaving
  BY <1>1 DEF Run
<1>4. Becomes(s, r)
  BY DEF Takes
<1> HIDE DEF r
<1>5. Alive(s) /\ holder' = holder /\ relabelled' = relabelled /\ fault' = fault /\ labels' = labels
  BY DEF Takes, Alive, Frame, NoLabels, manager
<1>6. r.leaving => r.at \in {"calling", "putting"}
  BY <1>3 DEF IInv, Goroutines, Takes
<1>7. /\ run' \in [Sessions -> Run]
      /\ Goroutines'
      /\ LiveIsHeld'
  BY <1>2, <1>3, <1>4, <1>5, <1>6, GoesOn
<1>8. run'[s] = r /\ \A t \in Sessions : t # s => run'[t] = run[t]
  BY <1>1, <1>2, <1>4, OneMoves
<1>9. InProgressIsClaimed' /\ ClaimIsAlone'
  BY <1>3, <1>5, <1>8, ClaimKept DEF Claims
<1>10. TypeOK'
  BY <1>5, <1>7, Happening DEF IInv, TypeOK, Frame, NoLabels, manager, retry, Takes
<1>11. GivenUp'
  BY RetryLeftAlone DEF IInv, TypeOK, Takes
<1> QED
  BY <1>7, <1>9, <1>10, <1>11 DEF IInv

(* A turn completes. *)
LEMMA CompletesKeeps ==
  ASSUME IInv, NEW s \in Sessions, Completes(s)
  PROVE  IInv'
<1> DEFINE r == [run[s] EXCEPT !.at = "idle"]
<1>1. run \in [Sessions -> Run] /\ run[s] \in Run /\ labels \subseteq Labels
  BY DEF IInv, TypeOK
<1>2. r \in Run
  BY <1>1, CallTypes DEF Run, Places
<1>3. /\ r.at = "idle"
      /\ r.ctx = run[s].ctx
      /\ r.claimed = run[s].claimed
      /\ r.leaving = run[s].leaving
  BY <1>1 DEF Run
<1>4. Becomes(s, r)
  BY DEF Completes
<1> HIDE DEF r
<1>5. Alive(s) /\ holder' = holder /\ relabelled' = relabelled /\ fault' = fault /\ labels' = labels
  BY DEF Completes, Alive, Frame, NoLabels, manager
<1>6. r.leaving => r.at \in {"calling", "putting"}
  BY <1>3 DEF IInv, Goroutines, Completes
<1>7. /\ run' \in [Sessions -> Run]
      /\ Goroutines'
      /\ LiveIsHeld'
  BY <1>2, <1>3, <1>4, <1>5, <1>6, GoesOn
<1>8. run'[s] = r /\ \A t \in Sessions : t # s => run'[t] = run[t]
  BY <1>1, <1>2, <1>4, OneMoves
<1>9. InProgressIsClaimed' /\ ClaimIsAlone'
  BY <1>3, <1>5, <1>8, ClaimKept DEF Claims
<1>10. TypeOK'
  BY <1>5, <1>7, Happening DEF IInv, TypeOK, Frame, NoLabels, manager, retry, Completes
<1>11. GivenUp'
  BY RetryLeftAlone DEF IInv, TypeOK, Completes
<1> QED
  BY <1>7, <1>9, <1>10, <1>11 DEF IInv

(* A turn fails, in three ways. *)
LEMMA FailsBlockedKeeps ==
  ASSUME IInv, NEW s \in Sessions, FailsBlocked(s)
  PROVE  IInv'
<1> DEFINE r == [run[s] EXCEPT !.at = "calling", !.calls = BlockedCalls]
<1>1. run \in [Sessions -> Run] /\ run[s] \in Run /\ labels \subseteq Labels
  BY DEF IInv, TypeOK
<1>2. r \in Run
  BY <1>1, CallTypes DEF Run, Places
<1>3. /\ r.at = "calling"
      /\ r.ctx = run[s].ctx
      /\ r.claimed = run[s].claimed
      /\ r.leaving = run[s].leaving
  BY <1>1 DEF Run
<1>4. Becomes(s, r)
  BY DEF FailsBlocked, FailsWith
<1> HIDE DEF r
<1>5. Alive(s) /\ holder' = holder /\ relabelled' = relabelled /\ fault' = fault /\ labels' = labels
  BY DEF FailsBlocked, FailsWith, Alive, Frame, NoLabels, manager
<1>6. r.leaving => r.at \in {"calling", "putting"}
  BY <1>3 DEF IInv, Goroutines, FailsBlocked, FailsWith
<1>7. /\ run' \in [Sessions -> Run]
      /\ Goroutines'
      /\ LiveIsHeld'
  BY <1>2, <1>3, <1>4, <1>5, <1>6, GoesOn
<1>8. run'[s] = r /\ \A t \in Sessions : t # s => run'[t] = run[t]
  BY <1>1, <1>2, <1>4, OneMoves
<1>9. InProgressIsClaimed' /\ ClaimIsAlone'
  BY <1>3, <1>5, <1>8, ClaimKept DEF Claims
<1>10. TypeOK'
  BY <1>5, <1>7, Happening DEF IInv, TypeOK, Frame, NoLabels, manager, retry, FailsBlocked, FailsWith
<1>11. GivenUp'
  BY RetryLeftAlone DEF IInv, TypeOK, FailsBlocked, FailsWith
<1> QED
  BY <1>7, <1>9, <1>10, <1>11 DEF IInv

LEMMA FailsErrorKeeps ==
  ASSUME IInv, NEW s \in Sessions, FailsError(s)
  PROVE  IInv'
<1> DEFINE r == [run[s] EXCEPT !.at = "calling", !.calls = ErrorCalls]
<1>1. run \in [Sessions -> Run] /\ run[s] \in Run /\ labels \subseteq Labels
  BY DEF IInv, TypeOK
<1>2. r \in Run
  BY <1>1, CallTypes DEF Run, Places
<1>3. /\ r.at = "calling"
      /\ r.ctx = run[s].ctx
      /\ r.claimed = run[s].claimed
      /\ r.leaving = run[s].leaving
  BY <1>1 DEF Run
<1>4. Becomes(s, r)
  BY DEF FailsError, FailsWith
<1> HIDE DEF r
<1>5. Alive(s) /\ holder' = holder /\ relabelled' = relabelled /\ fault' = fault /\ labels' = labels
  BY DEF FailsError, FailsWith, Alive, Frame, NoLabels, manager
<1>6. r.leaving => r.at \in {"calling", "putting"}
  BY <1>3 DEF IInv, Goroutines, FailsError, FailsWith
<1>7. /\ run' \in [Sessions -> Run]
      /\ Goroutines'
      /\ LiveIsHeld'
  BY <1>2, <1>3, <1>4, <1>5, <1>6, GoesOn
<1>8. run'[s] = r /\ \A t \in Sessions : t # s => run'[t] = run[t]
  BY <1>1, <1>2, <1>4, OneMoves
<1>9. InProgressIsClaimed' /\ ClaimIsAlone'
  BY <1>3, <1>5, <1>8, ClaimKept DEF Claims
<1>10. TypeOK'
  BY <1>5, <1>7, Happening DEF IInv, TypeOK, Frame, NoLabels, manager, retry, FailsError, FailsWith
<1>11. GivenUp'
  BY RetryLeftAlone DEF IInv, TypeOK, FailsError, FailsWith
<1> QED
  BY <1>7, <1>9, <1>10, <1>11 DEF IInv

LEMMA FailsMaxTurnsKeeps ==
  ASSUME IInv, NEW s \in Sessions, FailsMaxTurns(s)
  PROVE  IInv'
<1> DEFINE r == [run[s] EXCEPT !.at = "calling", !.calls = MaxTurnsCalls]
<1>1. run \in [Sessions -> Run] /\ run[s] \in Run /\ labels \subseteq Labels
  BY DEF IInv, TypeOK
<1>2. r \in Run
  BY <1>1, CallTypes DEF Run, Places
<1>3. /\ r.at = "calling"
      /\ r.ctx = run[s].ctx
      /\ r.claimed = run[s].claimed
      /\ r.leaving = run[s].leaving
  BY <1>1 DEF Run
<1>4. Becomes(s, r)
  BY DEF FailsMaxTurns, FailsWith
<1> HIDE DEF r
<1>5. Alive(s) /\ holder' = holder /\ relabelled' = relabelled /\ fault' = fault /\ labels' = labels
  BY DEF FailsMaxTurns, FailsWith, Alive, Frame, NoLabels, manager
<1>6. r.leaving => r.at \in {"calling", "putting"}
  BY <1>3 DEF IInv, Goroutines, FailsMaxTurns, FailsWith
<1>7. /\ run' \in [Sessions -> Run]
      /\ Goroutines'
      /\ LiveIsHeld'
  BY <1>2, <1>3, <1>4, <1>5, <1>6, GoesOn
<1>8. run'[s] = r /\ \A t \in Sessions : t # s => run'[t] = run[t]
  BY <1>1, <1>2, <1>4, OneMoves
<1>9. InProgressIsClaimed' /\ ClaimIsAlone'
  BY <1>3, <1>5, <1>8, ClaimKept DEF Claims
<1>10. TypeOK'
  BY <1>5, <1>7, Happening DEF IInv, TypeOK, Frame, NoLabels, manager, retry, FailsMaxTurns, FailsWith
<1>11. GivenUp'
  BY RetryLeftAlone DEF IInv, TypeOK, FailsMaxTurns, FailsWith
<1> QED
  BY <1>7, <1>9, <1>10, <1>11 DEF IInv

(* revertClaim reads the labels. *)
LEMMA ReadsClaimKeeps ==
  ASSUME IInv, NEW s \in Sessions, ReadsClaim(s)
  PROVE  IInv'
<1> DEFINE r == [run[s] EXCEPT !.at = "putting", !.read = labels]
<1>1. run \in [Sessions -> Run] /\ run[s] \in Run /\ labels \subseteq Labels
  BY DEF IInv, TypeOK
<1>2. r \in Run
  BY <1>1, CallTypes DEF Run, Places
<1>3. /\ r.at = "putting"
      /\ r.ctx = run[s].ctx
      /\ r.claimed = run[s].claimed
      /\ r.leaving = run[s].leaving
  BY <1>1 DEF Run
<1>4. Becomes(s, r)
  BY DEF ReadsClaim, Labelled
<1> HIDE DEF r
<1>5. Alive(s) /\ holder' = holder /\ relabelled' = relabelled /\ fault' = fault /\ labels' = labels
  BY DEF ReadsClaim, Labelled, Alive, Frame, NoLabels, manager
<1>6. r.leaving => r.at \in {"calling", "putting"}
  BY <1>3 DEF IInv, Goroutines, ReadsClaim, Labelled
<1>7. /\ run' \in [Sessions -> Run]
      /\ Goroutines'
      /\ LiveIsHeld'
  BY <1>2, <1>3, <1>4, <1>5, <1>6, GoesOn DEF Claims, ReadsClaim
<1>8. run'[s] = r /\ \A t \in Sessions : t # s => run'[t] = run[t]
  BY <1>1, <1>2, <1>4, OneMoves
<1>9. InProgressIsClaimed' /\ ClaimIsAlone'
  BY <1>3, <1>5, <1>8, ClaimKept DEF Claims
<1>10. TypeOK'
  BY <1>5, <1>7, Happening DEF IInv, TypeOK, Frame, NoLabels, manager, retry, ReadsClaim, Labelled
<1>11. GivenUp'
  BY RetryLeftAlone DEF IInv, TypeOK, ReadsClaim, Labelled
<1> QED
  BY <1>7, <1>9, <1>10, <1>11 DEF IInv

(* The claim is written: nobody else can have one or be about to.          *)
LEMMA ClaimsIssueKeeps ==
  ASSUME IInv, NEW s \in Sessions, ClaimsIssue(s)
  PROVE  IInv'
<1> DEFINE r == [run[s] EXCEPT !.at = "idle", !.read = {}, !.claimed = TRUE]
<1>1. run \in [Sessions -> Run] /\ run[s] \in Run
  BY DEF IInv, TypeOK
<1>2. r \in Run
  BY <1>1 DEF Run, Places
<1>3. /\ r.at = "idle"
      /\ r.ctx = run[s].ctx
      /\ r.claimed
      /\ r.leaving = run[s].leaving
  BY <1>1 DEF Run
<1>4. Becomes(s, r)
  BY DEF ClaimsIssue
<1> HIDE DEF r
<1>5. /\ run[s].at = "claiming" /\ ~run[s].leaving /\ Live(s)
      /\ Alive(s) /\ holder' = holder /\ relabelled' = relabelled /\ fault' = fault
  BY DEF IInv, Goroutines, ClaimsIssue, MayCall, Alive, Frame, manager
<1>6. /\ run' \in [Sessions -> Run]
      /\ Goroutines'
      /\ LiveIsHeld'
  BY <1>2, <1>3, <1>4, <1>5, GoesOn
<1>7. run'[s] = r /\ \A t \in Sessions : t # s => run'[t] = run[t]
  BY <1>1, <1>2, <1>4, OneMoves
<1>8. run[s].read \subseteq Labels
  BY <1>1 DEF Run
<1>9. labels' \subseteq Labels /\ Ready \notin labels'
  BY <1>8 DEF ClaimsIssue, Swaps, Labels, Ready, InProgress
<1>10. InProgressIsClaimed'
  BY <1>3, <1>7 DEF InProgressIsClaimed, Claims
<1>11. ASSUME ~fault', ~relabelled', NEW t \in Sessions, t # s
       PROVE  ~Claims(t)' /\ ~(run[t].at = "claiming" /\ Live(t))'
  <2>1. ~Claims(t)
    BY <1>5, <1>11 DEF IInv, ClaimIsAlone
  <2>2. ~(Alive(t) /\ Live(t))
    BY <1>5, <1>11 DEF IInv, LiveIsHeld
  <2> QED
    BY <1>7, <1>11, <2>1, <2>2 DEF Claims, Alive, Live
<1>12. ClaimIsAlone'
  BY <1>9, <1>11 DEF ClaimIsAlone
<1>13. TypeOK'
  BY <1>5, <1>6, <1>9 DEF IInv, TypeOK, Frame, manager, retry, ClaimsIssue
<1>14. GivenUp'
  BY RetryLeftAlone DEF IInv, TypeOK, ClaimsIssue
<1> QED
  BY <1>6, <1>10, <1>12, <1>13, <1>14 DEF IInv

(* The claim is not written, or nobody knows that it is.                   *)
LEMMA ClaimFailsKeeps ==
  ASSUME IInv, NEW s \in Sessions, ClaimFails(s)
  PROVE  IInv'
<1> DEFINE r == [run[s] EXCEPT !.at = "idle", !.read = {}]
<1>1. run \in [Sessions -> Run] /\ run[s] \in Run
  BY DEF IInv, TypeOK
<1>2. r \in Run
  BY <1>1 DEF Run, Places
<1>3. /\ r.at = "idle"
      /\ r.ctx = run[s].ctx
      /\ r.claimed = run[s].claimed
      /\ r.leaving = run[s].leaving
  BY <1>1 DEF Run
<1>4. Becomes(s, r)
  BY DEF ClaimFails
<1> HIDE DEF r
<1>5. ~run[s].leaving /\ Alive(s) /\ holder' = holder /\ relabelled' = relabelled
  BY DEF IInv, Goroutines, ClaimFails, Alive, Frame, manager
<1>6. /\ run' \in [Sessions -> Run]
      /\ Goroutines'
      /\ LiveIsHeld'
  BY <1>2, <1>3, <1>4, <1>5, GoesOn
<1>7. run'[s] = r /\ \A t \in Sessions : t # s => run'[t] = run[t]
  BY <1>1, <1>2, <1>4, OneMoves
<1>8. run[s].read \subseteq Labels
  BY <1>1 DEF Run
<1>9. InProgressIsClaimed' /\ ClaimIsAlone'
  <2>1. CASE labels' = labels /\ fault' = fault
    BY <1>3, <1>5, <1>7, <2>1, ClaimKept DEF Claims
  <2>2. CASE fault' = TRUE
    BY <2>2 DEF InProgressIsClaimed, ClaimIsAlone
  <2> QED
    BY <2>1, <2>2 DEF ClaimFails, NoLabels
<1>10. labels' \subseteq Labels
  BY <1>8 DEF ClaimFails, Swaps, NoLabels, IInv, TypeOK, Labels
<1>11. events' \in 0..MaxEvents /\ fault' \in BOOLEAN /\ lost' \in BOOLEAN
  BY Happening DEF IInv, TypeOK, ClaimFails, NoLabels
<1>12. TypeOK'
  BY <1>5, <1>6, <1>10, <1>11 DEF IInv, TypeOK, Frame, manager, retry, ClaimFails
<1>13. GivenUp'
  BY RetryLeftAlone DEF IInv, TypeOK, ClaimFails
<1> QED
  BY <1>6, <1>9, <1>12, <1>13 DEF IInv

(* A session whose context is done is on its way out.                      *)
LEMMA LeavesKeeps ==
  ASSUME IInv, NEW s \in Sessions, Leaves(s)
  PROVE  IInv'
<1> DEFINE c == IF run[s].ctx = "deadline" THEN ErrorCalls ELSE <<>>
<1>1. c \in Seq(Calls)
  BY CallTypes
<1>2. Becomes(s, [run[s] EXCEPT !.at = "calling", !.leaving = TRUE, !.calls = c])
  BY DEF Leaves
<1> HIDE DEF c
<1> DEFINE r == [run[s] EXCEPT !.at = "calling", !.leaving = TRUE, !.calls = c]
<1>3. run \in [Sessions -> Run] /\ run[s] \in Run
  BY DEF IInv, TypeOK
<1>4. r \in Run
  BY <1>1, <1>3 DEF Run, Places
<1>5. /\ r.at = "calling"
      /\ r.ctx = run[s].ctx
      /\ r.claimed = run[s].claimed
  BY <1>3 DEF Run
<1> HIDE DEF r
<1>6. Becomes(s, r)
  BY <1>2 DEF r
<1>7. Alive(s) /\ holder' = holder /\ relabelled' = relabelled /\ fault' = fault /\ labels' = labels
  BY DEF Leaves, Alive, Frame, NoLabels, manager
<1>8. /\ run' \in [Sessions -> Run]
      /\ Goroutines'
      /\ LiveIsHeld'
  BY <1>4, <1>5, <1>6, <1>7, GoesOn
<1>9. run'[s] = r /\ \A t \in Sessions : t # s => run'[t] = run[t]
  BY <1>3, <1>4, <1>6, OneMoves
<1>10. InProgressIsClaimed' /\ ClaimIsAlone'
  BY <1>5, <1>7, <1>9, ClaimKept DEF Claims
<1>11. TypeOK'
  BY <1>7, <1>8 DEF IInv, TypeOK, Frame, NoLabels, manager, retry, Leaves
<1>12. GivenUp'
  BY RetryLeftAlone DEF IInv, TypeOK, Leaves
<1> QED
  BY <1>8, <1>10, <1>11, <1>12 DEF IInv

(* A label call after a failed turn.                                       *)
LEMMA CallsForgeKeeps ==
  ASSUME IInv, NEW s \in Sessions, CallsForge(s)
  PROVE  IInv'
<1> DEFINE r == [run[s] EXCEPT !.calls = Tail(@)]
<1>1. run \in [Sessions -> Run] /\ run[s] \in Run /\ labels \subseteq Labels
  BY DEF IInv, TypeOK
<1>2. run[s].calls \in Seq(Calls) /\ run[s].calls # <<>>
  BY <1>1 DEF Run, CallsForge
<1>3. Tail(run[s].calls) \in Seq(Calls)
  BY <1>2
<1>4. r \in Run
  BY <1>1, <1>3 DEF Run
<1>5. /\ r.at = run[s].at
      /\ r.ctx = run[s].ctx
      /\ r.claimed = run[s].claimed
      /\ r.leaving = run[s].leaving
  BY <1>1 DEF Run
<1>6. Becomes(s, r)
  BY DEF CallsForge
<1> HIDE DEF r
<1>7. run[s].at = "calling" /\ Alive(s) /\ holder' = holder /\ relabelled' = relabelled /\ fault' = fault
  BY DEF CallsForge, Alive, Frame, manager
<1>8. /\ run' \in [Sessions -> Run]
      /\ Goroutines'
      /\ LiveIsHeld'
  BY <1>4, <1>5, <1>6, <1>7, GoesOn
<1>9. run'[s] = r /\ \A t \in Sessions : t # s => run'[t] = run[t]
  BY <1>1, <1>4, <1>6, OneMoves
<1>10. labels' = labels \/ labels' = Apply(Head(run[s].calls))
  BY DEF CallsForge
<1>11. /\ labels' \subseteq Labels
       /\ InProgress \in labels' => InProgress \in labels
       /\ Ready \in labels' => Ready \in labels
  BY <1>1, <1>2, <1>10, CallKeeps
<1>12. InProgressIsClaimed' /\ ClaimIsAlone'
  BY <1>5, <1>7, <1>9, <1>11, ClaimKept DEF Claims
<1>13. events' \in 0..MaxEvents /\ lost' \in BOOLEAN
  BY Happening DEF IInv, TypeOK, CallsForge
<1>14. TypeOK'
  BY <1>7, <1>8, <1>11, <1>13 DEF IInv, TypeOK, Frame, manager, retry, CallsForge
<1>15. GivenUp'
  BY RetryLeftAlone DEF IInv, TypeOK, CallsForge
<1> QED
  BY <1>8, <1>12, <1>14, <1>15 DEF IInv

(* The end of a failed turn or of the session, with nothing to put back.   *)
LEMMA KeepsNothingKeeps ==
  ASSUME IInv, NEW s \in Sessions, KeepsNothing(s)
  PROVE  IInv'
<1>1. Claims(s) \in BOOLEAN /\ Alive(s) /\ Settles(s, Claims(s))
  BY DEF KeepsNothing, Labelled, Alive, Claims, IInv, TypeOK, Run
<1>2. /\ run' \in [Sessions -> Run]
      /\ Goroutines'
      /\ LiveIsHeld'
      /\ run'[s].at \in {"none", "idle"}
      /\ run'[s].claimed = (Claims(s) /\ ~run[s].leaving)
      /\ \A t \in Sessions : t # s => run'[t] = run[t]
  BY <1>1, Settling
<1>3. labels' = labels /\ fault' = fault /\ relabelled' = relabelled
  BY <1>1 DEF KeepsNothing, NoLabels, Settles, Frame
<1>4. InProgressIsClaimed' /\ ClaimIsAlone'
  BY <1>2, <1>3, ClaimKept DEF KeepsNothing
<1>5. TypeOK'
  BY <1>1, <1>2 DEF IInv, TypeOK, KeepsNothing, Settles, NoLabels, Frame, manager, retry
<1>6. GivenUp'
  BY <1>1, RetryLeftAlone DEF IInv, TypeOK, Settles
<1> QED
  BY <1>2, <1>4, <1>5, <1>6 DEF IInv

(* The claim is put back: it was the only one.                             *)
LEMMA RevertsKeeps ==
  ASSUME IInv, NEW s \in Sessions, Reverts(s)
  PROVE  IInv'
<1>1. Alive(s) /\ Claims(s) /\ Settles(s, FALSE)
  BY DEF Reverts, Alive, IInv, Goroutines
<1>2. /\ run' \in [Sessions -> Run]
      /\ Goroutines'
      /\ LiveIsHeld'
      /\ ~run'[s].claimed
      /\ \A t \in Sessions : t # s => run'[t] = run[t]
  BY <1>1, Settling
<1>3. run[s].read \subseteq Labels
  BY DEF IInv, TypeOK, Run
<1>4. labels' \subseteq Labels /\ InProgress \notin labels'
  BY <1>3 DEF Reverts, PutsBack, Labels, Ready, InProgress
<1>5. fault' = fault /\ relabelled' = relabelled
  BY <1>1 DEF Reverts, Settles, Frame
<1>6. InProgressIsClaimed'
  BY <1>4 DEF InProgressIsClaimed
<1>7. ClaimIsAlone'
  BY <1>1, <1>2, <1>5 DEF IInv, ClaimIsAlone, Claims
<1>8. TypeOK'
  BY <1>1, <1>2, <1>4 DEF IInv, TypeOK, Reverts, Settles, Frame, manager, retry
<1>9. GivenUp'
  BY <1>1, RetryLeftAlone DEF IInv, TypeOK, Settles
<1> QED
  BY <1>2, <1>6, <1>7, <1>8, <1>9 DEF IInv

LEMMA RevertFailsKeeps ==
  ASSUME IInv, NEW s \in Sessions, RevertFails(s)
  PROVE  IInv'
<1>1. Claims(s) \in BOOLEAN /\ Alive(s) /\ Settles(s, Claims(s))
  BY DEF RevertFails, Labelled, Alive, Claims, IInv, TypeOK, Run
<1>2. /\ run' \in [Sessions -> Run]
      /\ Goroutines'
      /\ LiveIsHeld'
  BY <1>1, Settling
<1>3. run[s].read \subseteq Labels
  BY DEF IInv, TypeOK, Run
<1>4. labels' \subseteq Labels
  BY <1>3 DEF RevertFails, PutsBack, Labels, IInv, TypeOK
<1>5. fault' = TRUE /\ lost' = lost /\ events' \in 0..MaxEvents
  BY Happening DEF RevertFails, IInv
<1>6. InProgressIsClaimed' /\ ClaimIsAlone'
  BY <1>5 DEF InProgressIsClaimed, ClaimIsAlone
<1>7. TypeOK'
  BY <1>1, <1>2, <1>4, <1>5 DEF IInv, TypeOK, Settles, Frame, manager, retry
<1>8. GivenUp'
  BY <1>1, RetryLeftAlone DEF IInv, TypeOK, Settles
<1> QED
  BY <1>2, <1>6, <1>7, <1>8 DEF IInv
-----------------------------------------------------------------------------
(* The steps of everybody else.                                            *)

(* A step that moves no goroutine keeps what is said of goroutines ...     *)
LEMMA NobodyMoves ==
  ASSUME IInv, run' = run, holder' = holder
  PROVE  Goroutines' /\ LiveIsHeld'
BY DEF IInv, Goroutines, LiveIsHeld, Alive, Live, Claims

(* ... and of the claim, unless it puts on a label of the claim that a     *)
(* session holds.                                                          *)
LEMMA ClaimUntouched ==
  ASSUME IInv, run' = run, fault' = fault,
         InProgress \in labels' => InProgress \in labels,
         relabelled => relabelled',
         Ready \in labels' => Ready \in labels \/ relabelled' \/ ~WhileClaimed
  PROVE  InProgressIsClaimed' /\ ClaimIsAlone'
BY DEF IInv, InProgressIsClaimed, ClaimIsAlone, WhileClaimed, Claims, Live

LEMMA OutsideKeeps ==
  ASSUME IInv, Outside
  PROVE  IInv'
<1>1. run' = run /\ holder' = holder /\ fault' = fault
  BY DEF Outside, PutsLabel, Comment, PageShifts, manager, ghosts
<1>2. /\ labels' \subseteq Labels
      /\ InProgress \in labels' => InProgress \in labels
  BY IssueClaimAssumption
     DEF IInv, TypeOK, Outside, PutsLabel, Comment, PageShifts, Labels, Ready, InProgress
<1>3. /\ relabelled => relabelled'
      /\ Ready \in labels' => Ready \in labels \/ relabelled' \/ ~WhileClaimed
  <2>1. CASE Comment \/ PageShifts
    BY <2>1 DEF Comment, PageShifts, ghosts
  <2>2. ASSUME NEW l \in PersonLabels, PutsLabel(l)
        PROVE  /\ relabelled => relabelled'
               /\ Ready \in labels' => Ready \in labels \/ relabelled' \/ ~WhileClaimed
    BY <2>2 DEF PutsLabel
  <2> QED
    BY <2>1, <2>2 DEF Outside
<1>4. InProgressIsClaimed' /\ ClaimIsAlone'
  BY <1>1, <1>2, <1>3, ClaimUntouched
<1>5. events' \in 0..MaxEvents /\ bus' \subseteq Kinds /\ relabelled' \in BOOLEAN
  BY Happening DEF IInv, TypeOK, Outside, PutsLabel, Comment, PageShifts, Kinds, manager, ghosts, WhileClaimed
<1>6. TypeOK'
  BY <1>1, <1>2, <1>5
     DEF IInv, TypeOK, Outside, PutsLabel, Comment, PageShifts, manager, retry, ghosts
<1>7. GivenUp'
  BY DEF IInv, GivenUp, Exhausted, Outside, PutsLabel, Comment, PageShifts, retry
<1> QED
  BY <1>1, <1>4, <1>6, <1>7, NobodyMoves DEF IInv

LEMMA SchedulerListsKeeps ==
  ASSUME IInv, SchedulerLists
  PROVE  IInv'
<1>1. Goroutines' /\ LiveIsHeld'
  BY NobodyMoves DEF SchedulerLists, manager
<1>2. InProgressIsClaimed' /\ ClaimIsAlone'
  BY ClaimUntouched DEF SchedulerLists, ghosts
<1>3. \A l \in Labels \ {InProgress} : RemoveIfListed(l) \in Seq(UnblockCalls)
  <2> SUFFICES ASSUME NEW l \in Labels \ {InProgress}
               PROVE  RemoveIfListed(l) \in Seq(UnblockCalls)
    OBVIOUS
  <2>1. Remove(l) \in UnblockCalls
    BY DEF Remove, UnblockCalls
  <2> QED
    BY <2>1 DEF RemoveIfListed
<1>4. Blocked \in Labels \ {InProgress} /\ FailedTurns \in Labels \ {InProgress} /\ Failed \in Labels \ {InProgress}
  BY DEF Labels, FailedLabels, Blocked, FailedTurns, Failed, InProgress
<1>5. Add({Ready}) \in UnblockCalls
  BY DEF Add, UnblockCalls
<1>6. schedulerCalls' \in Seq(UnblockCalls)
  <2> DEFINE a == RemoveIfListed(Blocked)
             b == RemoveIfListed(FailedTurns)
             c == RemoveIfListed(Failed)
             d == IF Ready \in labels THEN <<>> ELSE <<Add({Ready})>>
  <2>1. schedulerCalls' = a \o b \o c \o d
    BY DEF SchedulerLists
  <2>2. d \in Seq(UnblockCalls)
    BY <1>5
  <2>3. a \in Seq(UnblockCalls) /\ b \in Seq(UnblockCalls) /\ c \in Seq(UnblockCalls)
    BY <1>3, <1>4
  <2> HIDE DEF a, b, c, d
  <2> QED
    BY <2>1, <2>2, <2>3
<1>7. events' \in 0..MaxEvents
  BY Happening DEF IInv, SchedulerLists
<1>8. TypeOK' /\ GivenUp'
  BY <1>6, <1>7 DEF IInv, TypeOK, GivenUp, Exhausted, SchedulerLists, manager, retry, ghosts
<1> QED
  BY <1>1, <1>2, <1>8 DEF IInv

LEMMA SchedulerCallsKeeps ==
  ASSUME IInv, SchedulerCalls
  PROVE  IInv'
<1>1. /\ Head(schedulerCalls) \in UnblockCalls
      /\ Tail(schedulerCalls) \in Seq(UnblockCalls)
  BY DEF IInv, TypeOK, SchedulerCalls
<1>2. /\ labels' \subseteq Labels
      /\ InProgress \in labels' => InProgress \in labels
  BY <1>1 DEF IInv, TypeOK, SchedulerCalls, Apply, UnblockCalls, Labels, Ready, InProgress
<1>3. /\ relabelled => relabelled'
      /\ Ready \in labels' => Ready \in labels \/ relabelled' \/ ~WhileClaimed
  <2>1. CASE relabelled' = (relabelled \/ (Ready \in labels' \ labels /\ WhileClaimed))
    BY <2>1
  <2>2. CASE UNCHANGED <<labels, relabelled>>
    BY <2>2
  <2> QED
    BY <2>1, <2>2 DEF SchedulerCalls
<1>4. Goroutines' /\ LiveIsHeld'
  BY NobodyMoves DEF SchedulerCalls, manager
<1>5. InProgressIsClaimed' /\ ClaimIsAlone'
  BY <1>2, <1>3, ClaimUntouched DEF SchedulerCalls
<1>6. events' \in 0..MaxEvents /\ lost' \in BOOLEAN /\ relabelled' \in BOOLEAN
  BY Happening DEF IInv, TypeOK, SchedulerCalls, WhileClaimed
<1>7. TypeOK' /\ GivenUp'
  BY <1>1, <1>2, <1>6 DEF IInv, TypeOK, GivenUp, Exhausted, SchedulerCalls, manager, retry
<1> QED
  BY <1>4, <1>5, <1>7 DEF IInv

LEMMA GreenLightKeeps ==
  ASSUME IInv, GreenLight
  PROVE  IInv'
<1>1. Goroutines' /\ LiveIsHeld'
  BY NobodyMoves DEF GreenLight
<1>2. InProgressIsClaimed' /\ ClaimIsAlone'
  BY ClaimUntouched DEF GreenLight, ghosts
<1>3. TypeOK' /\ GivenUp'
  BY DEF IInv, TypeOK, GivenUp, Exhausted, GreenLight, Kinds, retry, ghosts
<1> QED
  BY <1>1, <1>2, <1>3 DEF IInv

LEMMA RetrierKeeps ==
  ASSUME IInv, Retrier
  PROVE  IInv'
<1> USE DEF Retrier, SeesFailure, GivesUp, TriesAgain, RetrierCalls, Retries, RetrierIsDone
<1>1. run' = run /\ holder' = holder /\ fault' = fault /\ relabelled' = relabelled
  BY DEF RetrierFrame
<1>2. retrierCalls \in Seq(Calls) /\ labels \subseteq Labels
  BY DEF IInv, TypeOK
<1>3. /\ labels' \subseteq Labels
      /\ InProgress \in labels' => InProgress \in labels
      /\ Ready \in labels' => Ready \in labels
      /\ retrierCalls' \in Seq(Calls)
  <2>1. CASE RetrierCalls
    BY <1>2, <2>1, CallKeeps
  <2>2. CASE labels' = labels /\ retrierCalls' \in {retrierCalls, ExhaustedCalls, RetryCalls}
    BY <1>2, <2>2, CallTypes
  <2> QED
    BY <2>1, <2>2
<1>4. InProgressIsClaimed' /\ ClaimIsAlone'
  BY <1>1, <1>3, ClaimUntouched
<1>5. events' \in 0..MaxEvents /\ bus' \subseteq Kinds /\ lost' \in BOOLEAN
  BY Happening DEF IInv, TypeOK, Kinds
<1>6. TypeOK'
  BY <1>1, <1>3, <1>5 DEF IInv, TypeOK, RetrierFrame
<1>7. GivenUp'
  BY DEF IInv, GivenUp, Exhausted, RetrierFrame
<1> QED
  BY <1>1, <1>4, <1>6, <1>7, NobodyMoves DEF IInv

LEMMA ScansKeeps ==
  ASSUME IInv, Scans
  PROVE  IInv'
<1>1. Goroutines' /\ LiveIsHeld'
  BY NobodyMoves DEF Scans
<1>2. InProgressIsClaimed' /\ ClaimIsAlone'
  BY ClaimUntouched DEF Scans, ghosts
<1>3. TypeOK' /\ GivenUp'
  BY DEF IInv, TypeOK, GivenUp, Exhausted, Scans, Kinds, retry, ghosts
<1> QED
  BY <1>1, <1>2, <1>3 DEF IInv

(* handleEvent drops an event, ...                                         *)
LEMMA DropsKeeps ==
  ASSUME IInv, NEW k \in Kinds, Drops(k)
  PROVE  IInv'
<1>1. Goroutines' /\ LiveIsHeld'
  BY NobodyMoves DEF Drops
<1>2. InProgressIsClaimed' /\ ClaimIsAlone'
  BY ClaimUntouched DEF Drops
<1>3. TypeOK' /\ GivenUp'
  BY DEF IInv, TypeOK, GivenUp, Exhausted, Drops, retry
<1> QED
  BY <1>1, <1>2, <1>3 DEF IInv

(* ... queues it for the session there is, ...                             *)
LEMMA QueuesKeeps ==
  ASSUME IInv, NEW k \in Kinds, Queues(k)
  PROVE  IInv'
<1>1. run \in [Sessions -> Run]
  BY DEF IInv, TypeOK
<1>2. \A s \in Sessions :
        /\ run'[s] \in Run
        /\ run'[s].at = run[s].at /\ run'[s].ctx = run[s].ctx
        /\ run'[s].claimed = run[s].claimed /\ run'[s].leaving = run[s].leaving
        /\ run'[s] = run[s] \/ Alive(s)
  <2> SUFFICES ASSUME NEW s \in Sessions
               PROVE  /\ run'[s] \in Run
                      /\ run'[s].at = run[s].at /\ run'[s].ctx = run[s].ctx
                      /\ run'[s].claimed = run[s].claimed /\ run'[s].leaving = run[s].leaving
                      /\ run'[s] = run[s] \/ Alive(s)
    OBVIOUS
  <2>1. CASE s \in holder /\ Alive(s)
    <3>1. run'[s] = [run[s] EXCEPT !.waits = TRUE]
      BY <2>1 DEF Queues
    <3> QED
      BY <1>1, <2>1, <3>1 DEF Run
  <2>2. CASE ~(s \in holder /\ Alive(s))
    BY <1>1, <2>2 DEF Queues
  <2> QED
    BY <2>1, <2>2
<1>3. run' \in [Sessions -> Run]
  BY <1>2 DEF Queues
<1>4. Goroutines' /\ LiveIsHeld'
  BY <1>2 DEF IInv, Goroutines, LiveIsHeld, Alive, Live, Claims, Queues
<1>5. InProgressIsClaimed' /\ ClaimIsAlone'
  BY <1>2 DEF IInv, InProgressIsClaimed, ClaimIsAlone, Claims, Live, Queues, ghosts
<1>6. TypeOK' /\ GivenUp'
  BY <1>3 DEF IInv, TypeOK, GivenUp, Exhausted, Queues, retry, ghosts
<1> QED
  BY <1>4, <1>5, <1>6 DEF IInv

(* ... or opens one, when no goroutine has a live context.                 *)
LEMMA CreatesKeeps ==
  ASSUME IInv, NEW k \in Kinds, NEW s \in Sessions, Creates(k, s)
  PROVE  IInv'
<1>1. run \in [Sessions -> Run] /\ Opened(TRUE) \in Run
  BY RunTypes DEF IInv, TypeOK
<1>2. NoRun \in Run /\ ~NoRun.claimed /\ ~NoRun.leaving
  BY RunTypes DEF NoRun
<1>3. /\ Opened(TRUE).at = "starting"
      /\ ~Opened(TRUE).claimed
      /\ ~Opened(TRUE).leaving
  BY <1>2 DEF Opened, Run
<1>4. /\ run' \in [Sessions -> Run]
      /\ run'[s] = Opened(TRUE)
      /\ \A t \in Sessions : t # s => run'[t] = run[t]
  BY <1>1, OneMoves DEF Creates
<1>5. ~Claims(s)
  BY <1>2 DEF Creates, IInv, Goroutines, Claims
<1>6. Goroutines'
  BY <1>3, <1>4 DEF IInv, Goroutines, Alive, Claims
<1>7. LiveIsHeld'
  BY <1>4 DEF IInv, LiveIsHeld, Alive, Live, Creates
<1>8. labels' = labels /\ fault' = fault /\ relabelled' = relabelled
  BY DEF Creates, ghosts
<1>9. InProgressIsClaimed' /\ ClaimIsAlone'
  BY <1>3, <1>4, <1>5, <1>8, ClaimKept
<1>10. TypeOK' /\ GivenUp'
  BY <1>4 DEF IInv, TypeOK, GivenUp, Exhausted, Creates, retry, ghosts
<1> QED
  BY <1>6, <1>7, <1>9, <1>10 DEF IInv

(* A context that is done stays so, and the record is otherwise the same.  *)
LEMMA ContextEnds ==
  ASSUME IInv, NEW s \in Sessions, NEW c \in {"cancelled", "deadline"},
         run' = [run EXCEPT ![s].ctx = c], Alive(s),
         labels' = labels, fault' = fault, relabelled' = relabelled,
         holder' \subseteq holder, holder \subseteq holder' \cup {s}
  PROVE  /\ run' \in [Sessions -> Run]
         /\ Goroutines'
         /\ LiveIsHeld'
         /\ InProgressIsClaimed'
         /\ ClaimIsAlone'
<1> DEFINE r == [run[s] EXCEPT !.ctx = c]
<1>1. run \in [Sessions -> Run] /\ run[s] \in Run
  BY DEF IInv, TypeOK
<1>2. r \in Run
  BY <1>1 DEF Run
<1>3. /\ r.at = run[s].at
      /\ r.ctx = c
      /\ r.claimed = run[s].claimed
      /\ r.leaving = run[s].leaving
  BY <1>1 DEF Run
<1>4. run' = [run EXCEPT ![s] = r]
  OBVIOUS
<1> HIDE DEF r
<1>5. /\ run' \in [Sessions -> Run]
      /\ run'[s] = r
      /\ \A t \in Sessions : t # s => run'[t] = run[t]
  BY <1>1, <1>2, <1>4
<1>6. Goroutines'
  BY <1>3, <1>5 DEF IInv, Goroutines, Alive, Claims
<1>7. LiveIsHeld'
  BY <1>3, <1>5 DEF IInv, LiveIsHeld, Alive, Live
<1>8. InProgressIsClaimed'
  BY <1>3, <1>5 DEF IInv, InProgressIsClaimed, Claims
<1>9. ClaimIsAlone'
  BY <1>3, <1>5 DEF IInv, ClaimIsAlone, Claims, Live
<1> QED
  BY <1>5, <1>6, <1>7, <1>8, <1>9

LEMMA EvictKeeps ==
  ASSUME IInv, NEW s \in Sessions, Evict(s)
  PROVE  IInv'
<1>1. holder = {s} /\ holder' = {} /\ labels' = labels /\ fault' = fault /\ relabelled' = relabelled
  BY DEF Evict, IInv, LiveIsHeld, TypeOK, ghosts
<1>2. /\ run' \in [Sessions -> Run]
      /\ Goroutines'
      /\ LiveIsHeld'
      /\ InProgressIsClaimed'
      /\ ClaimIsAlone'
  <2>1. CASE Alive(s) /\ Live(s)
    BY <1>1, <2>1, ContextEnds DEF Evict
  <2>2. CASE ~(Alive(s) /\ Live(s))
    <3>1. run' = run
      BY <2>2 DEF Evict
    <3>2. InProgressIsClaimed' /\ ClaimIsAlone'
      BY <1>1, <3>1, ClaimUntouched
    <3>3. Goroutines' /\ LiveIsHeld'
      BY <1>1, <2>2, <3>1 DEF IInv, Goroutines, LiveIsHeld, Alive, Live, Claims
    <3> QED
      BY <3>1, <3>2, <3>3 DEF IInv, TypeOK
  <2> QED
    BY <2>1, <2>2
<1>3. TypeOK' /\ GivenUp'
  BY <1>1, <1>2, Happening DEF IInv, TypeOK, GivenUp, Exhausted, Evict, retry, ghosts
<1> QED
  BY <1>2, <1>3 DEF IInv

LEMMA DeadlineKeeps ==
  ASSUME IInv, NEW s \in Sessions, Deadline(s)
  PROVE  IInv'
<1>1. run' = [run EXCEPT ![s].ctx = "deadline"]
  BY DEF Deadline, Becomes
<1>2. /\ run' \in [Sessions -> Run]
      /\ Goroutines'
      /\ LiveIsHeld'
      /\ InProgressIsClaimed'
      /\ ClaimIsAlone'
  BY <1>1, ContextEnds DEF Deadline, manager, ghosts
<1>3. TypeOK' /\ GivenUp'
  BY <1>2, Happening DEF IInv, TypeOK, GivenUp, Exhausted, Deadline, manager, retry, ghosts
<1> QED
  BY <1>2, <1>3 DEF IInv

(* A crash is a fault: after it the claim is not looked at any more.       *)
LEMMA CrashKeeps ==
  ASSUME IInv, CrashAndRestart
  PROVE  IInv'
<1>1. PICK restored \in {{}} \cup {{s} : s \in Sessions} :
        /\ holder' = restored
        /\ run' = [s \in Sessions |-> IF s \in restored THEN Opened(FALSE) ELSE NoRun]
  BY DEF CrashAndRestart
<1>2. NoRun \in Run /\ NoRun.at = "none" /\ ~NoRun.leaving
  BY RunTypes DEF NoRun
<1>3. Opened(FALSE) \in Run /\ Opened(FALSE).at = "starting" /\ ~Opened(FALSE).leaving
  BY <1>2, RunTypes DEF Opened, Run
<1>4. run' \in [Sessions -> Run]
  BY <1>1, <1>2, <1>3
<1>5. Goroutines' /\ LiveIsHeld'
  BY <1>1, <1>2, <1>3 DEF Goroutines, LiveIsHeld, Alive, Live, Claims
<1>6. InProgressIsClaimed' /\ ClaimIsAlone'
  BY DEF CrashAndRestart, InProgressIsClaimed, ClaimIsAlone
<1>7. TypeOK'
  <2>1. holder' \in SUBSET Sessions
    BY <1>1
  <2>2. retrierCalls' \in Seq(Calls) /\ schedulerCalls' \in Seq(UnblockCalls)
    BY DEF CrashAndRestart
  <2>3. events' \in 0..MaxEvents
    BY Happening DEF IInv, CrashAndRestart
  <2> QED
    BY <1>4, <2>1, <2>2, <2>3 DEF IInv, TypeOK, CrashAndRestart, Kinds
<1>8. GivenUp'
  BY DEF IInv, GivenUp, Exhausted, CrashAndRestart
<1> QED
  BY <1>5, <1>6, <1>7, <1>8 DEF IInv
-----------------------------------------------------------------------------
LEMMA SessionKeeps ==
  ASSUME IInv, NEW s \in Sessions, Session(s)
  PROVE  IInv'
BY FindsReadyKeeps, FindsNotReadyKeeps, ClaimsIssueKeeps, ClaimFailsKeeps, TakesKeeps,
   CompletesKeeps, FailsBlockedKeeps, FailsErrorKeeps, FailsMaxTurnsKeeps, LeavesKeeps,
   CallsForgeKeeps, KeepsNothingKeeps, ReadsClaimKeeps, RevertsKeeps, RevertFailsKeeps
   DEF Session

LEMMA Unchanged ==
  ASSUME IInv, UNCHANGED vars
  PROVE  IInv'
<1>1. Goroutines' /\ LiveIsHeld'
  BY NobodyMoves DEF vars, manager
<1>2. InProgressIsClaimed' /\ ClaimIsAlone'
  BY ClaimUntouched DEF vars, ghosts
<1>3. TypeOK' /\ GivenUp'
  BY DEF IInv, TypeOK, GivenUp, Exhausted, vars, manager, retry, ghosts
<1> QED
  BY <1>1, <1>2, <1>3 DEF IInv

(* The invariant is inductive.                                             *)
THEOREM StepIInv == IInv /\ [Next]_vars => IInv'
<1> SUFFICES ASSUME IInv, [Next]_vars PROVE IInv'
  OBVIOUS
<1>1. CASE Outside
  BY <1>1, OutsideKeeps
<1>2. CASE Retrier
  BY <1>2, RetrierKeeps
<1>3. CASE Scans
  BY <1>3, ScansKeeps
<1>4. CASE CrashAndRestart
  BY <1>4, CrashKeeps
<1>5. ASSUME NEW k \in Kinds, Manager(k) PROVE IInv'
  BY <1>5, DropsKeeps, QueuesKeeps, CreatesKeeps DEF Manager
<1>6. ASSUME NEW s \in Sessions, Session(s) \/ Evict(s) \/ Deadline(s) PROVE IInv'
  BY <1>6, SessionKeeps, EvictKeeps, DeadlineKeeps
<1>7. CASE Scheduler
  BY <1>7, SchedulerListsKeeps, SchedulerCallsKeeps DEF Scheduler
<1>8. CASE GreenLight
  BY <1>8, GreenLightKeeps
<1>9. CASE UNCHANGED vars
  BY <1>9, Unchanged
<1> QED
  BY <1>1, <1>2, <1>3, <1>4, <1>5, <1>6, <1>7, <1>8, <1>9 DEF Next

(* The invariant the others follow from: claims, labels and runAutoRetry,  *)
(* with goroutines as runSession leaves them.                              *)
THEOREM Invariance == Spec => []IInv
BY InitIInv, StepIInv, PTL DEF Spec

(* The labels, records and calls have their types.                         *)
THEOREM TypeCorrect == Spec => []TypeOK
<1>1. IInv => TypeOK
  BY DEF IInv
<1> QED
  BY <1>1, Invariance, PTL

(* An issue in progress is claimed by a session that will give it back     *)
(* (revertClaim), unless a call about the claim failed or the process died.*)
THEOREM InProgressClaimed == Spec => []InProgressIsClaimed
<1>1. IInv => InProgressIsClaimed
  BY DEF IInv
<1> QED
  BY <1>1, Invariance, PTL

(* Any number of sessions of an issue, one after the other or overlapping: *)
(* never two claims (the claim protocol of runSession), unless ready came  *)
(* on from outside while one was held, or after a fault.                   *)
THEOREM Exclusive == Spec => []ClaimExclusive
<1>1. IInv => ClaimExclusive
  BY DEF IInv, ClaimIsAlone, ClaimExclusive
<1> QED
  BY <1>1, Invariance, PTL

(* runAutoRetry gives up for good, across restarts: what tries again later *)
(* has not been able to read the count.                                    *)
THEOREM ForGood == Spec => GivesUpForGood
<1>1. IInv /\ [Next]_vars => [gaveUp /\ retrier = "clearing" /\ retrier' = "idle" => miscounted]_vars
  BY DEF IInv, GivenUp
<1> QED
  BY <1>1, Invariance, PTL DEF Spec, GivesUpForGood
=============================================================================
