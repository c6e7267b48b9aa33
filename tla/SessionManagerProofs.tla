------------------------ MODULE SessionManagerProofs ------------------------
(***************************************************************************)
(* The invariants of SessionManager for every value of its constants.      *)
(* Type correctness comes first, one lemma per group of variables; then    *)
(* one lemma per conjunct of the inductive invariant IInv; the theorems    *)
(* are at the end.                                                         *)
(***************************************************************************)
EXTENDS SessionDelivery, FiniteSetTheorems, TLAPS

USE DEF vars, procVars, threadVars, sessionVars, diskVars

-----------------------------------------------------------------------------
(* What the groups of Next leave alone. *)

LEMMA SessionFrame ==
  ASSUME NEW s \in Sids, Session(s)
  PROVE  /\ Running
         /\ UNCHANGED <<proc, boots, joins, interrupted, pending, bus, lock, tpc, tevt, tsid,
                        sessions, skey, recovery, store, stale, workdir>>
BY DEF Session, Start, Take, Begin, TurnSucceeds, TurnBlocked, TurnFails, EndTurn, Settle,
       Exit, Deadline

LEMMA TickersFrame ==
  ASSUME Tickers
  PROVE  UNCHANGED <<proc, boots, joins, interrupted, pending, bus, lock, tpc, tevt, tsid,
                     spc, skey, queue, cur, recovery>>
BY DEF Tickers, ReapIdle, MarkStuck, RowAges, CleanupOldWorkDir, DeleteRows

LEMMA DispatchFrame ==
  ASSUME NEW t \in Threads, Dispatch(t)
  PROVE  Running /\ UNCHANGED <<proc, boots, joins, interrupted, cp, lc>>
BY DEF Dispatch, Consume, Lookup, FoundOnRecheck, CreateWithRoom, EvictAndCreate, PickVictim,
       Refuse, EvictAndFail, Send, Block, SendTimeout, Obtain, Open, CreateRow, DeleteRows

LEMMA SubscribeFrame ==
  ASSUME Subscribe
  PROVE  UNCHANGED <<proc, boots, joins, interrupted, pending, lock, tevt, tsid, sessions,
                     older, sessionVars, diskVars>>
BY DEF Subscribe

LEMMA PublishFrame ==
  ASSUME NEW e \in Events, Publish(e)
  PROVE  UNCHANGED <<proc, boots, joins, interrupted, lock, tpc, tevt, tsid, sessions,
                     older, sessionVars, diskVars>>
BY DEF Publish

-----------------------------------------------------------------------------
(* Types. *)

LEMMA TouchedType ==
  ASSUME MapTypeOK, NEW k \in Keys PROVE Touched(k) \in SUBSET (Keys \X Keys)
BY DEF Touched, MapTypeOK, Registered

LEMMA WithoutType ==
  ASSUME MapTypeOK, NEW K PROVE Without(K) \in SUBSET (Keys \X Keys)
BY DEF Without, MapTypeOK

LEMMA CancelledType ==
  ASSUME SessionTypeOK, NEW S
  PROVE  Cancelled(S) \in [Sids -> {"live", "cancelled", "deadline"}]
BY DEF Cancelled, SessionTypeOK

LEMMA ProcType == ASSUME TypeOK, [Next]_vars PROVE ProcTypeOK'
<1> USE DEF ProcTypeOK
<1>1. ProcTypeOK
  BY DEF TypeOK
<1>2. CASE UNCHANGED <<proc, boots, joins, interrupted>>
  BY <1>1, <1>2
<1>3. CASE Signal
  BY <1>1, <1>3 DEF Signal
<1>4. ASSUME NEW caller \in {"run", "main"}, ShutdownAll(caller), UNCHANGED proc \/ proc' = "forced"
      PROVE  ProcTypeOK'
  <2>1. {sessions[k] : k \in Registered} \subseteq Sids
    BY DEF TypeOK, MapTypeOK, Registered
  <2>2. UNCHANGED <<boots, interrupted>> /\ joins' = [joins EXCEPT ![caller] = {sessions[k] : k \in Registered}]
    BY <1>4 DEF ShutdownAll
  <2> QED
    BY <1>1, <1>4, <2>1, <2>2
<1>5. CASE RunShutsDown \/ DrainForces
  BY <1>4, <1>5 DEF RunShutsDown, DrainForces
<1>6. CASE RunReturns
  BY <1>1, <1>6 DEF RunReturns
<1>7. CASE DrainReturns \/ Crash
  <2>1. proc' \in {"exited", "crashed"} /\ boots' = boots /\ joins' = [j \in {"run", "main"} |-> {}]
    BY <1>7 DEF DrainReturns, Crash, Die
  <2>2. interrupted' \subseteq Keys
    BY <1>1, <1>7 DEF DrainReturns, Crash, Registered
  <2> QED
    BY <1>1, <2>1, <2>2
<1>8. CASE Restart
  <2>1. proc' = "up" /\ boots' = boots + 1 /\ boots < MaxBoots /\ joins' = joins /\ interrupted' = {}
    BY <1>8 DEF Restart
  <2> QED
    BY <1>1, <2>1, SessionManagerAssumption
<1>9. CASE StayDown
  BY <1>2, <1>9 DEF StayDown
<1> QED
  BY <1>2, <1>3, <1>5, <1>6, <1>7, <1>8, <1>9, SessionFrame, TickersFrame, DispatchFrame,
     SubscribeFrame, PublishFrame DEF Next, Process

LEMMA BusType == ASSUME TypeOK, [Next]_vars PROVE BusTypeOK'
<1> USE DEF BusTypeOK
<1>1. BusTypeOK
  BY DEF TypeOK
<1>2. CASE UNCHANGED <<pending, bus>>
  BY <1>1, <1>2
<1>3. ASSUME pending' = pending, bus' = <<>> PROVE BusTypeOK'
  BY <1>1, <1>3, SessionManagerAssumption
<1>4. CASE Subscribe \/ RunReturns \/ DrainReturns \/ Crash
  BY <1>3, <1>4 DEF Subscribe, RunReturns, DrainReturns, Crash, Die
<1>5. ASSUME NEW e \in Events, Publish(e) PROVE BusTypeOK'
  <2>1. pending' = pending \ {e}
    BY <1>5 DEF Publish
  <2>2. bus' = bus \/ (Len(bus) < BusCap /\ bus' = Append(bus, e))
    BY <1>5 DEF Publish
  <2> QED
    BY <1>1, <2>1, <2>2, SessionManagerAssumption
<1>6. ASSUME NEW t \in Threads, Dispatch(t) PROVE BusTypeOK'
  <2>1. CASE \E e \in Events : Obtain(t, e)
    <3>1. pending' \subseteq pending /\ (bus' = bus \/ (bus # <<>> /\ bus' = Tail(bus)))
      BY <2>1 DEF Obtain
    <3> QED
      BY <1>1, <3>1, SessionManagerAssumption
  <2>2. CASE ~\E e \in Events : Obtain(t, e)
    BY <1>2, <1>6, <2>2 DEF Dispatch, Consume, Lookup, FoundOnRecheck, CreateWithRoom, EvictAndCreate,
       PickVictim, Refuse, EvictAndFail, Send, Block, SendTimeout, Open, CreateRow
  <2> QED
    BY <2>1, <2>2
<1>7. CASE Signal \/ RunShutsDown \/ DrainForces \/ Restart \/ StayDown
  BY <1>2, <1>7 DEF Signal, RunShutsDown, DrainForces, ShutdownAll, Restart, StayDown
<1> QED
  BY <1>2, <1>4, <1>5, <1>6, <1>7, SessionFrame, TickersFrame DEF Next, Process

LEMMA InHand ==
  ASSUME IInv, NEW t \in Threads
  PROVE  /\ tpc[t] \in {"create", "evict", "send", "blocked"} =>
              tevt[t] \in Events /\ EventKey[tevt[t]] \in Keys
         /\ tpc[t] \in {"evict", "send", "blocked"} => tsid[t] \in Sids
         /\ tpc[t] = "evict" => skey[tsid[t]] \in Keys
BY SessionManagerAssumption DEF IInv, DispatchersOK

LEMMA ThreadType == ASSUME IInv, [Next]_vars PROVE ThreadTypeOK'
<1> USE DEF ThreadTypeOK, ThreadPC
<1>1. ThreadTypeOK /\ Run \in Threads
  BY DEF IInv, TypeOK, Threads
<1>2. CASE UNCHANGED <<lock, tpc, tevt, tsid>>
  BY <1>1, <1>2
<1>3. CASE Subscribe
  BY <1>1, <1>3 DEF Subscribe
<1>4. ASSUME NEW t \in Threads, Dispatch(t) PROVE ThreadTypeOK'
  <2>1. ASSUME NEW e \in Events, Lookup(t, e) PROVE ThreadTypeOK'
    <3>1. EventKey[e] \in Keys
      BY SessionManagerAssumption
    <3>2. sessions[EventKey[e]] \in Sids \cup {None}
      BY <3>1 DEF IInv, TypeOK, MapTypeOK
    <3> QED
      BY <1>1, <2>1, <3>2 DEF Lookup
  <2>2. CASE FoundOnRecheck(t)
    <3>1. sessions[EventKey[tevt[t]]] \in Sids \cup {None}
      BY <2>2, InHand DEF FoundOnRecheck, IInv, TypeOK, MapTypeOK
    <3> QED
      BY <1>1, <2>2, <3>1 DEF FoundOnRecheck
  <2>3. ASSUME NEW s \in Sids, CreateWithRoom(t, s) \/ EvictAndCreate(t, s) PROVE ThreadTypeOK'
    BY <1>1, <2>3 DEF CreateWithRoom, EvictAndCreate, Open, CreateRow, Unlock
  <2>4. ASSUME NEW k \in Keys, PickVictim(t, k) PROVE ThreadTypeOK'
    <3>1. sessions[k] \in Sids \cup {None}
      BY DEF IInv, TypeOK, MapTypeOK
    <3> QED
      BY <1>1, <2>4, <3>1 DEF PickVictim
  <2>5. CASE Refuse(t) \/ EvictAndFail(t)
    BY <1>1, <2>5 DEF Refuse, EvictAndFail, Unlock
  <2>6. CASE Send(t) \/ Block(t) \/ SendTimeout(t)
    BY <1>1, <2>6 DEF Send, Block, SendTimeout, Handled
  <2>7. ASSUME NEW e \in Events, Consume(t, e) PROVE ThreadTypeOK'
    BY <1>2, <2>7 DEF Consume
  <2> QED
    BY <1>4, <2>1, <2>2, <2>3, <2>4, <2>5, <2>6, <2>7 DEF Dispatch
<1>5. CASE RunShutsDown \/ RunReturns
  BY <1>1, <1>5 DEF RunShutsDown, RunReturns, ShutdownAll
<1>6. CASE DrainReturns \/ Crash
  BY <1>1, <1>6 DEF DrainReturns, Crash, Die
<1>7. CASE Signal \/ DrainForces \/ Restart \/ StayDown
  BY <1>2, <1>7 DEF Signal, DrainForces, ShutdownAll, Restart, StayDown
<1> QED
  BY <1>2, <1>3, <1>4, <1>5, <1>6, <1>7, SessionFrame, TickersFrame, PublishFrame DEF Next, Process

LEMMA MapType == ASSUME IInv, [Next]_vars PROVE MapTypeOK'
<1>1. MapTypeOK
  BY DEF IInv, TypeOK
<1>2. CASE UNCHANGED <<sessions, older>>
  BY <1>1, <1>2 DEF MapTypeOK
<1>3. ASSUME NEW t \in Threads, Dispatch(t) PROVE MapTypeOK'
  <2>1. ASSUME NEW e \in Events, Lookup(t, e) PROVE MapTypeOK'
    <3>1. Touched(EventKey[e]) \in SUBSET (Keys \X Keys)
      BY <1>1, TouchedType, SessionManagerAssumption
    <3> QED
      BY <1>1, <2>1, <3>1 DEF Lookup, MapTypeOK
  <2>2. CASE FoundOnRecheck(t)
    <3>1. Touched(EventKey[tevt[t]]) \in SUBSET (Keys \X Keys)
      BY <1>1, <2>2, TouchedType, InHand DEF FoundOnRecheck
    <3> QED
      BY <1>1, <2>2, <3>1 DEF FoundOnRecheck, MapTypeOK
  <2>3. ASSUME NEW s \in Sids, NEW K, EventKey[tevt[t]] \in Keys, Open(t, s, K) PROVE MapTypeOK'
    <3>1. Without(K) \cup ((Registered \ K) \X {EventKey[tevt[t]]}) \in SUBSET (Keys \X Keys)
      BY <1>1, <2>3, WithoutType DEF Registered
    <3> QED
      BY <1>1, <2>3, <3>1 DEF Open, CreateRow, MapTypeOK
  <2>4. ASSUME NEW s \in Sids, CreateWithRoom(t, s) \/ EvictAndCreate(t, s) PROVE MapTypeOK'
    BY <2>3, <2>4, InHand DEF CreateWithRoom, EvictAndCreate
  <2>5. CASE EvictAndFail(t)
    BY <1>1, <2>5, WithoutType DEF EvictAndFail, MapTypeOK
  <2> QED
    BY <1>2, <1>3, <2>1, <2>2, <2>4, <2>5
    DEF Dispatch, Consume, PickVictim, Refuse, Send, Block, SendTimeout
<1>4. ASSUME NEW s \in Sids, Session(s) PROVE MapTypeOK'
  <2>1. CASE Settle(s)
    <3>1. skey[s] \in Keys
      BY <2>1 DEF Settle, IInv, MapOK
    <3>2. Touched(skey[s]) \in SUBSET (Keys \X Keys)
      BY <1>1, <3>1, TouchedType
    <3> QED
      BY <1>1, <2>1, <3>2 DEF Settle, MapTypeOK
  <2> QED
    BY <1>2, <1>4, <2>1
    DEF Session, Start, Take, Begin, TurnSucceeds, TurnBlocked, TurnFails, EndTurn, Exit, Deadline
<1>5. CASE Tickers
  <2>1. ASSUME NEW k \in Keys, ReapIdle(k) PROVE MapTypeOK'
    BY <1>1, <2>1, WithoutType DEF ReapIdle, MapTypeOK
  <2> QED
    BY <1>2, <1>5, <2>1 DEF Tickers, MarkStuck, RowAges, CleanupOldWorkDir
<1>6. CASE RunShutsDown \/ DrainForces \/ DrainReturns \/ Crash
  BY <1>6 DEF RunShutsDown, DrainForces, ShutdownAll, DrainReturns, Crash, Die, MapTypeOK
<1>7. CASE Restart
  <2>1. Restorable \subseteq Keys
    BY DEF IInv, TypeOK, DiskTypeOK, Restorable
  <2>2. sessions' \in [Keys -> Sids \cup {None}]
    BY <1>7 DEF Restart
  <2>3. older' \in SUBSET (Keys \X Keys)
    BY <1>7, <2>1 DEF Restart, Orders
  <2> QED
    BY <2>2, <2>3 DEF MapTypeOK
<1>8. CASE Signal \/ RunReturns \/ StayDown
  BY <1>2, <1>8 DEF Signal, RunReturns, StayDown
<1> QED
  BY <1>2, <1>3, <1>4, <1>5, <1>6, <1>7, <1>8, SubscribeFrame, PublishFrame DEF Next, Process

LEMMA SessionType == ASSUME IInv, [Next]_vars PROVE SessionTypeOK'
<1> USE DEF SessionPC
<1>1. SessionTypeOK
  BY DEF IInv, TypeOK
<1>2. CASE UNCHANGED <<spc, skey, cur, ctx, recovery>>
  BY <1>1, <1>2 DEF SessionTypeOK
<1>3. ASSUME NEW S, ctx' = Cancelled(S), UNCHANGED <<spc, skey, cur, recovery>> PROVE SessionTypeOK'
  BY <1>1, <1>3, CancelledType DEF SessionTypeOK
<1>4. ASSUME NEW t \in Threads, Dispatch(t) PROVE SessionTypeOK'
  <2>1. ASSUME NEW s \in Sids, NEW K, EventKey[tevt[t]] \in Keys, Open(t, s, K) PROVE SessionTypeOK'
    <3>1. Cancelled({sessions[j] : j \in K}) \in [Sids -> {"live", "cancelled", "deadline"}]
      BY <1>1, CancelledType
    <3>2. ctx' \in [Sids -> {"live", "cancelled", "deadline"}]
      BY <2>1, <3>1 DEF Open, CreateRow
    <3> QED
      BY <1>1, <2>1, <3>2 DEF Open, CreateRow, SessionTypeOK
  <2>2. ASSUME NEW s \in Sids, CreateWithRoom(t, s) \/ EvictAndCreate(t, s) PROVE SessionTypeOK'
    BY <2>1, <2>2, InHand DEF CreateWithRoom, EvictAndCreate
  <2>3. CASE EvictAndFail(t)
    BY <1>3, <2>3 DEF EvictAndFail
  <2> QED
    BY <1>2, <1>4, <2>2, <2>3 DEF Dispatch, Consume, Lookup, FoundOnRecheck, PickVictim, Refuse,
       Send, Block, SendTimeout
<1>5. ASSUME NEW s \in Sids, Session(s) PROVE SessionTypeOK'
  <2>1. CASE Take(s)
    <3>1. Head(queue[s]) \in Events
      BY <2>1 DEF Take, IInv, TypeOK, QueueTypeOK
    <3> QED
      BY <1>1, <2>1, <3>1 DEF Take, SessionTypeOK
  <2>2. CASE Deadline(s) \/ Exit(s) \/ Settle(s) \/ Start(s) \/ Begin(s)
    BY <1>1, <2>2 DEF Deadline, Exit, Settle, Start, Begin, SessionTypeOK
  <2>3. CASE TurnSucceeds(s) \/ TurnBlocked(s) \/ TurnFails(s)
    BY <1>1, <2>3 DEF TurnSucceeds, TurnBlocked, TurnFails, EndTurn, SessionTypeOK
  <2> QED
    BY <1>5, <2>1, <2>2, <2>3 DEF Session
<1>6. CASE Tickers
  <2>1. ASSUME NEW k \in Keys, ReapIdle(k) PROVE SessionTypeOK'
    BY <1>3, <2>1 DEF ReapIdle
  <2> QED
    BY <1>2, <1>6, <2>1 DEF Tickers, MarkStuck, RowAges, CleanupOldWorkDir
<1>7. CASE RunShutsDown \/ DrainForces
  BY <1>3, <1>7 DEF RunShutsDown, DrainForces, ShutdownAll
<1>8. CASE DrainReturns \/ Crash
  <2>1. /\ spc' = [s \in Sids |-> "unused"] /\ skey' = [s \in Sids |-> None]
        /\ cur' = [s \in Sids |-> None] /\ ctx' = [s \in Sids |-> "live"]
        /\ recovery' = [s \in Sids |-> FALSE]
    BY <1>8 DEF DrainReturns, Crash, Die
  <2> QED
    BY <2>1 DEF SessionTypeOK
<1>9. CASE Restart
  <2>1. PICK f \in [Restorable -> Sids] :
          /\ spc' = [s \in Sids |-> IF \E k \in Restorable : f[k] = s THEN "starting" ELSE "unused"]
          /\ skey' = [s \in Sids |-> IF \E k \in Restorable : f[k] = s
                                     THEN CHOOSE k \in Restorable : f[k] = s ELSE None]
          /\ recovery' = [s \in Sids |-> \E k \in Restorable :
                             f[k] = s /\ cp[k] = "none" /\ lc[k] = "working"]
    BY <1>9 DEF Restart
  <2>2. Restorable \subseteq Keys
    BY DEF IInv, TypeOK, DiskTypeOK, Restorable
  <2>3. skey' \in [Sids -> Keys \cup {None}]
    BY <2>1, <2>2
  <2>4. spc' \in [Sids -> SessionPC] /\ recovery' \in [Sids -> BOOLEAN]
    BY <2>1
  <2> QED
    BY <1>1, <1>9, <2>3, <2>4 DEF Restart, SessionTypeOK
<1>10. CASE Signal \/ RunReturns \/ StayDown
  BY <1>2, <1>10 DEF Signal, RunReturns, StayDown
<1> QED
  BY <1>2, <1>4, <1>5, <1>6, <1>7, <1>8, <1>9, <1>10, SubscribeFrame, PublishFrame DEF Next, Process

LEMMA QueueType == ASSUME IInv, [Next]_vars PROVE QueueTypeOK'
<1>1. QueueTypeOK
  BY DEF IInv, TypeOK
<1>2. CASE UNCHANGED queue
  BY <1>1, <1>2 DEF QueueTypeOK
<1>3. ASSUME NEW t \in Threads, Dispatch(t) PROVE QueueTypeOK'
  <2>1. ASSUME NEW s \in Sids, CreateWithRoom(t, s) \/ EvictAndCreate(t, s) PROVE QueueTypeOK'
    <3>1. queue' = [queue EXCEPT ![s] = <<>>]
      BY <2>1 DEF CreateWithRoom, EvictAndCreate, Open, CreateRow
    <3> QED
      BY <1>1, <3>1, SessionManagerAssumption DEF QueueTypeOK
  <2>2. CASE Send(t)
    <3>1. tsid[t] \in Sids /\ tevt[t] \in Events
      BY <2>2, InHand DEF Send
    <3>2. Len(queue[tsid[t]]) < QueueCap /\ queue' = [queue EXCEPT ![tsid[t]] = Append(@, tevt[t])]
      BY <2>2 DEF Send, HasSpace
    <3> QED
      BY <1>1, <3>1, <3>2, SessionManagerAssumption DEF QueueTypeOK
  <2> QED
    BY <1>2, <1>3, <2>1, <2>2 DEF Dispatch, Consume, Lookup, FoundOnRecheck, PickVictim, Refuse,
       EvictAndFail, Block, SendTimeout
<1>4. ASSUME NEW s \in Sids, Session(s) PROVE QueueTypeOK'
  <2>1. CASE Take(s)
    <3>1. queue[s] # <<>> /\ queue' = [queue EXCEPT ![s] = Tail(@)]
      BY <2>1 DEF Take
    <3> QED
      BY <1>1, <3>1, SessionManagerAssumption DEF QueueTypeOK
  <2> QED
    BY <1>2, <1>4, <2>1 DEF Session, Start, Begin, TurnSucceeds, TurnBlocked, TurnFails, EndTurn,
       Settle, Exit, Deadline
<1>5. CASE DrainReturns \/ Crash
  <2>1. queue' = [s \in Sids |-> <<>>]
    BY <1>5 DEF DrainReturns, Crash, Die
  <2> QED
    BY <2>1, SessionManagerAssumption DEF QueueTypeOK
<1>6. CASE Signal \/ RunShutsDown \/ RunReturns \/ DrainForces \/ Restart \/ StayDown
  BY <1>2, <1>6 DEF Signal, RunShutsDown, RunReturns, DrainForces, ShutdownAll, Restart, StayDown
<1>7. CASE Tickers \/ Subscribe \/ \E e \in Events : Publish(e)
  BY <1>2, <1>7, TickersFrame, SubscribeFrame, PublishFrame
<1> QED
  BY <1>2, <1>3, <1>4, <1>5, <1>6, <1>7 DEF Next, Process

LEMMA DiskType == ASSUME IInv, [Next]_vars PROVE DiskTypeOK'
<1> USE DEF Checkpoint, LifecycleState, DiskTypeOK
<1>1. DiskTypeOK
  BY DEF IInv, TypeOK
<1>2. CASE UNCHANGED <<store, stale, workdir, cp, lc>>
  BY <1>1, <1>2
<1>3. ASSUME NEW t \in Threads, Dispatch(t) PROVE DiskTypeOK'
  <2>1. ASSUME NEW s \in Sids, CreateWithRoom(t, s) \/ EvictAndCreate(t, s) PROVE DiskTypeOK'
    <3>1. EventKey[tevt[t]] \in Keys
      BY <2>1, InHand DEF CreateWithRoom, EvictAndCreate
    <3> QED
      BY <1>1, <2>1, <3>1 DEF CreateWithRoom, EvictAndCreate, Open, CreateRow
  <2>2. CASE EvictAndFail(t)
    BY <1>1, <2>2 DEF EvictAndFail, DeleteRows
  <2> QED
    BY <1>2, <1>3, <2>1, <2>2 DEF Dispatch, Consume, Lookup, FoundOnRecheck, PickVictim, Refuse,
       Send, Block, SendTimeout
<1>4. ASSUME NEW s \in Sids, Session(s) PROVE DiskTypeOK'
  <2>1. CASE Begin(s) \/ TurnSucceeds(s) \/ TurnBlocked(s) \/ TurnFails(s)
    BY <1>1, <2>1 DEF Begin, TurnSucceeds, TurnBlocked, TurnFails, EndTurn
  <2>2. CASE Settle(s) \/ Exit(s)
    BY <1>1, <2>2 DEF Settle, Exit, WriteCheckpoint
  <2> QED
    BY <1>2, <1>4, <2>1, <2>2 DEF Session, Start, Take, Deadline
<1>5. CASE Tickers
  BY <1>1, <1>5 DEF Tickers, ReapIdle, MarkStuck, RowAges, CleanupOldWorkDir, DeleteRows
<1>6. CASE RunShutsDown \/ DrainForces
  BY <1>1, <1>6 DEF RunShutsDown, DrainForces, ShutdownAll, DeleteRows
<1>7. CASE Restart
  BY <1>1, <1>7 DEF Restart, DeleteRows
<1>8. CASE Signal \/ RunReturns \/ DrainReturns \/ Crash \/ StayDown
  BY <1>2, <1>8 DEF Signal, RunReturns, DrainReturns, Crash, Die, StayDown
<1> QED
  BY <1>2, <1>3, <1>4, <1>5, <1>6, <1>7, <1>8, SubscribeFrame, PublishFrame DEF Next, Process

LEMMA TypeStep == ASSUME IInv, [Next]_vars PROVE TypeOK'
BY ProcType, BusType, ThreadType, MapType, SessionType, QueueType, DiskType DEF IInv, TypeOK

-----------------------------------------------------------------------------
(* The inductive invariant. *)

(* What each step does to the fields the control invariants read. *)
LEMMA OpenEffect ==
  ASSUME IInv, NEW t \in Threads, NEW s \in Sids, NEW K, Open(t, s, K)
  PROVE  /\ ~Alive(s)
         /\ \A k \in Keys : sessions[k] # s
         /\ \A u \in Threads : tsid[u] # s
         /\ sessions' = [[k \in Keys |-> IF k \in K THEN None ELSE sessions[k]]
                           EXCEPT ![EventKey[tevt[t]]] = s]
         /\ spc' = [spc EXCEPT ![s] = "starting"]
         /\ skey' = [skey EXCEPT ![s] = EventKey[tevt[t]]]
         /\ \A r \in Sids \ {s} :
              ctx'[r] = "live" => ctx[r] = "live" /\ \A k \in K : sessions[k] # r
         /\ tpc' = [tpc EXCEPT ![t] = "send"]
         /\ tsid' = [tsid EXCEPT ![t] = s]
         /\ tevt' = tevt
         /\ store' = (store \ K) \cup {EventKey[tevt[t]]}
         /\ workdir' = workdir \cup {EventKey[tevt[t]]}
         /\ UNCHANGED <<proc, lc, cp>>
<1>1. ctx \in [Sids -> {"live", "cancelled", "deadline"}]
  BY DEF IInv, TypeOK, SessionTypeOK
<1>2. \A r \in Sids \ {s} : ctx'[r] = "live" => ctx[r] = "live" /\ \A k \in K : sessions[k] # r
  BY <1>1 DEF Open, CreateRow, Cancelled
<1> QED
  BY <1>2 DEF Open, CreateRow, Free

LEMMA DispatchersStep == ASSUME IInv, [Next]_vars PROVE DispatchersOK'
<1> USE DEF DispatchersOK
<1>1. DispatchersOK /\ ThreadTypeOK /\ MapTypeOK /\ SessionTypeOK
  BY DEF IInv, TypeOK
<1>2. CASE UNCHANGED <<lock, tpc, tevt, tsid, skey, sessions>>
  BY <1>1, <1>2
<1>3. CASE Subscribe
  BY <1>1, <1>3 DEF Subscribe, ThreadTypeOK
<1>4. ASSUME NEW t \in Threads, Dispatch(t) PROVE DispatchersOK'
  <2>1. ASSUME NEW e \in Events, Lookup(t, e) PROVE DispatchersOK'
    <3>1. EventKey[e] \in Keys
      BY SessionManagerAssumption
    <3> QED
      BY <1>1, <2>1, <3>1, SessionManagerAssumption DEF Lookup, Obtain, ThreadTypeOK, MapTypeOK
  <2>2. CASE FoundOnRecheck(t)
    <3>1. EventKey[tevt[t]] \in Keys /\ lock = None
      BY <2>2, InHand DEF FoundOnRecheck
    <3>2. sessions[EventKey[tevt[t]]] \in Sids
      BY <1>1, <2>2, <3>1 DEF FoundOnRecheck, MapTypeOK
    <3>3. /\ tpc' = [tpc EXCEPT ![t] = "send"]
          /\ tsid' = [tsid EXCEPT ![t] = sessions[EventKey[tevt[t]]]]
          /\ UNCHANGED <<tevt, lock, skey, sessions>>
      BY <2>2 DEF FoundOnRecheck, sessionVars
    <3>4. tpc[t] = "create"
      BY <2>2 DEF FoundOnRecheck
    <3>5. None \notin Threads
      BY SessionManagerAssumption
    <3> QED BY <1>1, <3>1, <3>2, <3>3, <3>4, <3>5 DEF ThreadTypeOK
  <2>3. ASSUME NEW s \in Sids, CreateWithRoom(t, s) PROVE DispatchersOK'
    <3>1. /\ lock = None /\ lock' = lock /\ tpc[t] = "create"
      BY <2>3 DEF CreateWithRoom
    <3>2. tpc' = [tpc EXCEPT ![t] = "send"] /\ tsid' = [tsid EXCEPT ![t] = s] /\ tevt' = tevt
      BY <2>3, OpenEffect DEF CreateWithRoom
    <3> QED
      BY <1>1, <3>1, <3>2, SessionManagerAssumption DEF ThreadTypeOK
  <2>4. ASSUME NEW s \in Sids, EvictAndCreate(t, s) PROVE DispatchersOK'
    <3>1. tpc[t] = "evict" /\ lock' = None
      BY <2>4 DEF EvictAndCreate, Unlock
    <3>2. tpc' = [tpc EXCEPT ![t] = "send"] /\ tsid' = [tsid EXCEPT ![t] = s] /\ tevt' = tevt
      BY <2>4, OpenEffect DEF EvictAndCreate
    <3> QED
      BY <1>1, <3>1, <3>2, SessionManagerAssumption DEF ThreadTypeOK
  <2>5. ASSUME NEW k \in Keys, PickVictim(t, k) PROVE DispatchersOK'
    <3>1. k \in Registered /\ sessions[k] \in Sids /\ skey[sessions[k]] = k
      BY <1>1, <2>5 DEF PickVictim, Evictable, Registered, MapTypeOK, IInv, MapOK
    <3> QED
      BY <1>1, <2>5, <3>1, SessionManagerAssumption DEF PickVictim, Absent, ThreadTypeOK
  <2>6. CASE Refuse(t) \/ Send(t) \/ Block(t) \/ SendTimeout(t)
    BY <1>1, <2>6 DEF Refuse, Send, Block, SendTimeout, Handled, ThreadTypeOK
  <2>7. CASE EvictAndFail(t)
    BY <1>1, <2>7, SessionManagerAssumption DEF EvictAndFail, Unlock, ThreadTypeOK
  <2>8. ASSUME NEW e \in Events, Consume(t, e) PROVE DispatchersOK'
    BY <1>2, <2>8 DEF Consume
  <2> QED
    BY <1>4, <2>1, <2>2, <2>3, <2>4, <2>5, <2>6, <2>7, <2>8 DEF Dispatch
<1>5. CASE Tickers
  <2>1. ASSUME NEW k \in Keys, ReapIdle(k) PROVE DispatchersOK'
    BY <1>1, <2>1, SessionManagerAssumption DEF ReapIdle, ThreadTypeOK
  <2> QED
    BY <1>2, <1>5, <2>1, TickersFrame DEF Tickers, MarkStuck, RowAges, CleanupOldWorkDir
<1>6. CASE RunShutsDown \/ DrainForces
  BY <1>1, <1>6, SessionManagerAssumption DEF RunShutsDown, DrainForces, ShutdownAll, ThreadTypeOK
<1>7. CASE RunReturns
  BY <1>1, <1>7 DEF RunReturns, ThreadTypeOK
<1>8. CASE DrainReturns \/ Crash
  <2>1. lock' = None /\ tpc' = [t \in Threads |-> IF t = Run THEN "boot" ELSE "loop"]
    BY <1>8 DEF DrainReturns, Crash, Die
  <2> QED
    BY <2>1, SessionManagerAssumption
<1>9. CASE Restart
  BY <1>1, <1>9 DEF Restart, IInv, DownOK, Running
<1>10. CASE Signal \/ StayDown
  BY <1>2, <1>10 DEF Signal, StayDown
<1> QED
  BY <1>2, <1>3, <1>4, <1>5, <1>6, <1>7, <1>8, <1>9, <1>10, SessionFrame, PublishFrame DEF Next, Process

LEMMA MapStep == ASSUME IInv, [Next]_vars PROVE MapOK'
<1> USE DEF MapOK
<1>1. MapOK /\ MapTypeOK /\ SessionTypeOK
  BY DEF IInv, TypeOK
<1>2. CASE UNCHANGED <<sessions, spc, skey>>
  BY <1>1, <1>2
<1>3. ASSUME NEW t \in Threads, Dispatch(t) PROVE MapOK'
  <2>1. ASSUME NEW s \in Sids, NEW K, EventKey[tevt[t]] \in Keys, Open(t, s, K) PROVE MapOK'
    <3> DEFINE k0 == EventKey[tevt[t]]
    <3>0. /\ sessions' = [[k \in Keys |-> IF k \in K THEN None ELSE sessions[k]] EXCEPT ![k0] = s]
          /\ \A k \in Keys : sessions[k] # s
      BY <2>1, OpenEffect
    <3>1. sessions' \in [Keys -> Sids \cup {None}] /\ sessions'[k0] = s
      BY <1>1, <2>1, <3>0 DEF MapTypeOK
    <3>2. \A k \in Keys \ {k0} : sessions'[k] # None => sessions'[k] = sessions[k] /\ sessions[k] # s
      BY <1>1, <2>1, <3>0 DEF MapTypeOK
    <3>3. skey'[s] = k0 /\ \A r \in Sids \ {s} : skey'[r] = skey[r] /\ spc'[r] = spc[r]
      BY <1>1, <2>1, OpenEffect DEF SessionTypeOK
    <3>4. ASSUME NEW k \in Keys, sessions'[k] # None PROVE skey'[sessions'[k]] = k
      BY <1>1, <3>1, <3>2, <3>3, <3>4
    <3>5. ASSUME NEW r \in Sids, spc'[r] # "unused" PROVE skey'[r] \in Keys
      BY <1>1, <2>1, <3>3, <3>5
    <3> QED
      BY <3>4, <3>5
  <2>2. ASSUME NEW s \in Sids, CreateWithRoom(t, s) \/ EvictAndCreate(t, s) PROVE MapOK'
    BY <2>1, <2>2, InHand DEF CreateWithRoom, EvictAndCreate
  <2>3. CASE EvictAndFail(t)
    BY <1>1, <2>3 DEF EvictAndFail, MapTypeOK
  <2> QED
    BY <1>2, <1>3, <2>2, <2>3 DEF Dispatch, Consume, Lookup, FoundOnRecheck, PickVictim, Refuse,
       Send, Block, SendTimeout
<1>4. ASSUME NEW s \in Sids, Session(s) PROVE MapOK'
  <2>1. skey' = skey /\ sessions' = sessions
    BY <1>4, SessionFrame
  <2>2. \A r \in Sids : spc'[r] # "unused" => spc[r] # "unused"
    BY <1>1, <1>4 DEF Session, Start, Take, Begin, TurnSucceeds, TurnBlocked, TurnFails, EndTurn,
       Settle, Exit, Deadline, SessionTypeOK
  <2> QED
    BY <1>1, <2>1, <2>2
<1>5. CASE Tickers
  <2>1. ASSUME NEW k \in Keys, ReapIdle(k) PROVE MapOK'
    BY <1>1, <2>1 DEF ReapIdle, MapTypeOK
  <2> QED
    BY <1>2, <1>5, <2>1, TickersFrame DEF Tickers, MarkStuck, RowAges, CleanupOldWorkDir
<1>6. CASE RunShutsDown \/ DrainForces
  BY <1>1, <1>6 DEF RunShutsDown, DrainForces, ShutdownAll
<1>7. CASE DrainReturns \/ Crash
  BY <1>7 DEF DrainReturns, Crash, Die
<1>8. CASE Restart
  <2>1. PICK f \in [Restorable -> Sids] :
          /\ \A j, k \in Restorable : f[j] = f[k] => j = k
          /\ sessions' = [k \in Keys |-> IF k \in Restorable THEN f[k] ELSE None]
          /\ spc' = [s \in Sids |-> IF \E k \in Restorable : f[k] = s THEN "starting" ELSE "unused"]
          /\ skey' = [s \in Sids |-> IF \E k \in Restorable : f[k] = s
                                     THEN CHOOSE k \in Restorable : f[k] = s ELSE None]
    BY <1>8 DEF Restart
  <2>2. Restorable \subseteq Keys
    BY DEF IInv, TypeOK, DiskTypeOK, Restorable
  <2> QED
    BY <2>1, <2>2
<1>9. CASE Signal \/ RunReturns \/ StayDown
  BY <1>2, <1>9 DEF Signal, RunReturns, StayDown
<1> QED
  BY <1>2, <1>3, <1>4, <1>5, <1>6, <1>7, <1>8, <1>9, SubscribeFrame, PublishFrame DEF Next, Process

(* A dropped session has lost its context. *)
LEMMA OrphanStep == ASSUME IInv, [Next]_vars PROVE NoOrphan'
<1> USE DEF NoOrphan, Alive, Live
<1>1. NoOrphan /\ MapOK /\ MapTypeOK /\ SessionTypeOK
  BY DEF IInv, TypeOK
<1>2. CASE UNCHANGED <<sessions, spc, skey, ctx>>
  BY <1>1, <1>2
<1>3. ASSUME NEW K \in SUBSET Keys, NEW S, \A k \in K : sessions[k] \in S \/ sessions[k] = None,
             ctx' = Cancelled(S), UNCHANGED <<spc, skey>>,
             sessions' = [k \in Keys |-> IF k \in K THEN None ELSE sessions[k]]
      PROVE  NoOrphan'
  <2>1. \A s \in Sids : ctx'[s] = "live" => ctx[s] = "live" /\ s \notin S
    BY <1>1, <1>3 DEF Cancelled, SessionTypeOK
  <2> QED
    BY <1>1, <1>3, <2>1, SessionManagerAssumption DEF MapTypeOK, SessionTypeOK
<1>4. ASSUME NEW t \in Threads, Dispatch(t) PROVE NoOrphan'
  <2>1. ASSUME NEW s \in Sids, NEW K, EventKey[tevt[t]] \in Keys, Open(t, s, K),
               sessions[EventKey[tevt[t]]] = None
        PROVE  NoOrphan'
    <3> DEFINE k0 == EventKey[tevt[t]]
    <3>1. skey'[s] = k0 /\ \A r \in Sids \ {s} : skey'[r] = skey[r] /\ spc'[r] = spc[r]
      BY <1>1, <2>1, OpenEffect DEF SessionTypeOK
    <3>0. sessions' = [[k \in Keys |-> IF k \in K THEN None ELSE sessions[k]] EXCEPT ![k0] = s]
      BY <2>1, OpenEffect
    <3>2. sessions'[k0] = s
          /\ \A k \in Keys \ {k0} : k \notin K => sessions'[k] = sessions[k]
      BY <1>1, <2>1, <3>0 DEF MapTypeOK
    <3>3. ASSUME NEW r \in Sids \ {s}, spc'[r] \notin {"unused", "exited"}, ctx'[r] = "live"
          PROVE  skey'[r] \in Keys /\ sessions'[skey'[r]] = r
      <4>1. ctx[r] = "live" /\ \A k \in K : sessions[k] # r
        BY <2>1, <3>3, OpenEffect
      <4>2. skey[r] \in Keys /\ sessions[skey[r]] = r
        BY <1>1, <3>1, <3>3, <4>1
      <4>3. skey[r] # k0 /\ skey[r] \notin K
        BY <2>1, <4>1, <4>2, SessionManagerAssumption
      <4> QED
        BY <3>1, <3>2, <4>2, <4>3
    <3> QED
      BY <2>1, <3>1, <3>2, <3>3
  <2>2. ASSUME NEW s \in Sids, CreateWithRoom(t, s) PROVE NoOrphan'
    BY <2>1, <2>2, InHand DEF CreateWithRoom, Absent
  <2>3. ASSUME NEW s \in Sids, EvictAndCreate(t, s) PROVE NoOrphan'
    BY <2>1, <2>3, InHand DEF EvictAndCreate, IInv, DispatchersOK
  <2>4. CASE EvictAndFail(t)
    <3> DEFINE v == tsid[t]
    <3>1. v \in Sids /\ skey[v] \in Keys /\ sessions[skey[v]] = v
      BY <2>4, InHand DEF EvictAndFail, IInv, DispatchersOK
    <3>2. /\ sessions' = [sessions EXCEPT ![skey[v]] = None] /\ ctx' = Cancelled({v})
          /\ UNCHANGED <<spc, skey>>
      BY <2>4 DEF EvictAndFail
    <3>3. sessions' = [k \in Keys |-> IF k \in {skey[v]} THEN None ELSE sessions[k]]
      BY <1>1, <3>1, <3>2 DEF MapTypeOK
    <3>4. {skey[v]} \in SUBSET Keys /\ \A k \in {skey[v]} : sessions[k] \in {v}
      BY <3>1
    <3> QED
      BY <1>3, <3>2, <3>3, <3>4
  <2> QED
    BY <1>2, <1>4, <2>2, <2>3, <2>4 DEF Dispatch, Consume, Lookup, FoundOnRecheck, PickVictim,
       Refuse, Send, Block, SendTimeout
<1>5. ASSUME NEW s \in Sids, Session(s) PROVE NoOrphan'
  <2>1. skey' = skey /\ sessions' = sessions
    BY <1>5, SessionFrame
  <2>2. \A r \in Sids : spc'[r] \notin {"unused", "exited"} => spc[r] \notin {"unused", "exited"}
    BY <1>1, <1>5 DEF Session, Start, Take, Begin, TurnSucceeds, TurnBlocked, TurnFails, EndTurn,
       Settle, Exit, Deadline, SessionTypeOK
  <2>3. \A r \in Sids : ctx'[r] = "live" => ctx[r] = "live"
    BY <1>1, <1>5 DEF Session, Start, Take, Begin, TurnSucceeds, TurnBlocked, TurnFails, EndTurn,
       Settle, Exit, Deadline, SessionTypeOK
  <2> QED
    BY <1>1, <2>1, <2>2, <2>3
<1>6. CASE Tickers
  <2>1. ASSUME NEW k \in Keys, ReapIdle(k) PROVE NoOrphan'
    <3>1. sessions' = [j \in Keys |-> IF j \in {k} THEN None ELSE sessions[j]]
      BY <1>1, <2>1 DEF ReapIdle, MapTypeOK
    <3>2. ctx' = Cancelled({sessions[k]}) /\ UNCHANGED <<spc, skey>>
      BY <2>1 DEF ReapIdle
    <3>3. {k} \in SUBSET Keys /\ \A j \in {k} : sessions[j] \in {sessions[k]} \/ sessions[j] = None
      OBVIOUS
    <3> QED
      BY <1>3, <3>1, <3>2, <3>3
  <2> QED
    BY <1>2, <1>6, <2>1, TickersFrame DEF Tickers, MarkStuck, RowAges, CleanupOldWorkDir
<1>7. CASE RunShutsDown \/ DrainForces
  <2>1. /\ ctx' = Cancelled({sessions[k] : k \in Registered}) /\ UNCHANGED <<spc, skey>>
        /\ sessions' = [k \in Keys |-> None]
    BY <1>7 DEF RunShutsDown, DrainForces, ShutdownAll
  <2>2. sessions' = [k \in Keys |-> IF k \in Keys THEN None ELSE sessions[k]]
    BY <2>1
  <2>3. \A k \in Keys : sessions[k] \in {sessions[j] : j \in Registered} \/ sessions[k] = None
    BY DEF Registered
  <2> QED
    BY <1>3, <2>1, <2>2, <2>3
<1>8. CASE DrainReturns \/ Crash
  BY <1>8 DEF DrainReturns, Crash, Die
<1>9. CASE Restart
  <2>1. PICK f \in [Restorable -> Sids] :
          /\ sessions' = [k \in Keys |-> IF k \in Restorable THEN f[k] ELSE None]
          /\ spc' = [s \in Sids |-> IF \E k \in Restorable : f[k] = s THEN "starting" ELSE "unused"]
          /\ skey' = [s \in Sids |-> IF \E k \in Restorable : f[k] = s
                                     THEN CHOOSE k \in Restorable : f[k] = s ELSE None]
    BY <1>9 DEF Restart
  <2>2. Restorable \subseteq Keys
    BY DEF IInv, TypeOK, DiskTypeOK, Restorable
  <2> QED
    BY <2>1, <2>2
<1>10. CASE Signal \/ RunReturns \/ StayDown
  BY <1>2, <1>10 DEF Signal, RunReturns, StayDown
<1> QED
  BY <1>2, <1>4, <1>5, <1>6, <1>7, <1>8, <1>9, <1>10, SubscribeFrame, PublishFrame DEF Next, Process

LEMMA Shrinks ==
  ASSUME IInv, NEW S \in SUBSET Keys, S \subseteq Registered
  PROVE  Cardinality(S) <= MaxSessions
<1>1. IsFiniteSet(Registered)
  BY FS_Subset, SessionManagerAssumption DEF Registered
<1>2. /\ Cardinality(S) <= Cardinality(Registered) /\ Cardinality(S) \in Nat
      /\ Cardinality(Registered) \in Nat
  BY <1>1, FS_Subset, FS_CardinalityType
<1> QED
  BY <1>2, SessionManagerAssumption DEF IInv, SessionCap

LEMMA CapStep == ASSUME IInv, [Next]_vars PROVE SessionCap'
<1>1. MapTypeOK
  BY DEF IInv, TypeOK
<1>2. ASSUME Registered' \subseteq Registered PROVE SessionCap'
  <2>1. Registered' \subseteq Keys
    BY DEF Registered
  <2> QED
    BY <1>2, <2>1, Shrinks DEF SessionCap
<1>3. CASE UNCHANGED sessions
  BY <1>2, <1>3 DEF Registered
<1>4. ASSUME NEW t \in Threads, Dispatch(t) PROVE SessionCap'
  <2>1. ASSUME NEW s \in Sids, NEW K \in SUBSET Keys, EventKey[tevt[t]] \in Keys, Open(t, s, K), HasRoom(K)
        PROVE  SessionCap'
    <3> DEFINE k0 == EventKey[tevt[t]]
    <3>1. sessions' = [[k \in Keys |-> IF k \in K THEN None ELSE sessions[k]] EXCEPT ![k0] = s]
      BY <2>1, OpenEffect
    <3>2. Registered' \subseteq (Registered \ K) \cup {k0}
      BY <1>1, <2>1, <3>1 DEF Registered, MapTypeOK
    <3>3. IsFiniteSet(Registered \ K) /\ Cardinality(Registered \ K) \in Nat
      BY FS_Subset, FS_CardinalityType, SessionManagerAssumption DEF Registered
    <3>4. /\ IsFiniteSet((Registered \ K) \cup {k0})
          /\ Cardinality((Registered \ K) \cup {k0}) <= Cardinality(Registered \ K) + 1
      <4>1. ASSUME NEW S, IsFiniteSet(S), Cardinality(S) \in Nat, NEW x
            PROVE  IsFiniteSet(S \cup {x}) /\ Cardinality(S \cup {x}) <= Cardinality(S) + 1
        <5>1. IsFiniteSet(S \cup {x})
              /\ Cardinality(S \cup {x}) = IF x \in S THEN Cardinality(S) ELSE Cardinality(S) + 1
          BY <4>1, FS_AddElement
        <5> QED
          BY <4>1, <5>1
      <4> QED
        BY <3>3, <4>1
    <3>5. /\ Cardinality(Registered') <= Cardinality((Registered \ K) \cup {k0})
          /\ Cardinality(Registered') \in Nat /\ Cardinality((Registered \ K) \cup {k0}) \in Nat
      BY <3>2, <3>4, FS_Subset, FS_CardinalityType
    <3>6. Cardinality(Registered \ K) < MaxSessions
      BY <2>1 DEF HasRoom
    <3> QED
      BY <3>3, <3>4, <3>5, <3>6, SessionManagerAssumption DEF SessionCap
  <2>2. ASSUME NEW s \in Sids, CreateWithRoom(t, s) PROVE SessionCap'
    BY <2>1, <2>2, InHand DEF CreateWithRoom
  <2>3. ASSUME NEW s \in Sids, EvictAndCreate(t, s) PROVE SessionCap'
    <3>1. {skey[tsid[t]]} \in SUBSET Keys
      BY <2>3, InHand DEF EvictAndCreate
    <3> QED
      BY <2>1, <2>3, <3>1, InHand DEF EvictAndCreate
  <2>4. CASE EvictAndFail(t)
    BY <1>1, <1>2, <2>4 DEF EvictAndFail, MapTypeOK, Registered
  <2> QED
    BY <1>3, <1>4, <2>2, <2>3, <2>4 DEF Dispatch, Consume, Lookup, FoundOnRecheck, PickVictim,
       Refuse, Send, Block, SendTimeout
<1>5. CASE Tickers
  <2>1. ASSUME NEW k \in Keys, ReapIdle(k) PROVE SessionCap'
    BY <1>1, <1>2, <2>1 DEF ReapIdle, MapTypeOK, Registered
  <2> QED
    BY <1>3, <1>5, <2>1, TickersFrame DEF Tickers, MarkStuck, RowAges, CleanupOldWorkDir
<1>6. CASE RunShutsDown \/ DrainForces \/ DrainReturns \/ Crash
  <2>1. sessions' = [k \in Keys |-> None]
    BY <1>6 DEF RunShutsDown, DrainForces, ShutdownAll, DrainReturns, Crash, Die
  <2> QED
    BY <1>2, <2>1 DEF Registered
<1>7. CASE Restart
  <2>1. Registered' \subseteq Restorable
    BY <1>7 DEF Restart, Registered
  <2>2. IsFiniteSet(Restorable) /\ Cardinality(Restorable) \in Nat
    BY FS_Subset, FS_CardinalityType, SessionManagerAssumption
    DEF IInv, TypeOK, DiskTypeOK, Restorable
  <2>3. Cardinality(Restorable) <= MaxSessions
    BY <1>7 DEF Restart, IInv, DownOK, Running
  <2>4. Cardinality(Registered') <= Cardinality(Restorable) /\ Cardinality(Registered') \in Nat
    BY <2>1, <2>2, FS_Subset, FS_CardinalityType
  <2> QED
    BY <2>2, <2>3, <2>4, SessionManagerAssumption DEF SessionCap
<1>8. CASE Signal \/ RunReturns \/ StayDown
  BY <1>3, <1>8 DEF Signal, RunReturns, StayDown
<1> QED
  BY <1>3, <1>4, <1>5, <1>6, <1>7, <1>8, SessionFrame, SubscribeFrame, PublishFrame DEF Next, Process

LEMMA RowsStep == ASSUME IInv, [Next]_vars PROVE RowsOK'
<1> USE DEF RowsOK, Finished
<1>1. RowsOK /\ MapTypeOK /\ DiskTypeOK
  BY DEF IInv, TypeOK
<1>2. ASSUME UNCHANGED <<sessions, store, workdir, lc>>, Running' => Running PROVE RowsOK'
  BY <1>1, <1>2 DEF Registered
<1>3. ASSUME NEW t \in Threads, Dispatch(t) PROVE RowsOK'
  <2>1. ASSUME NEW s \in Sids, NEW K \in SUBSET Keys, EventKey[tevt[t]] \in Keys, Open(t, s, K) PROVE RowsOK'
    <3> DEFINE k0 == EventKey[tevt[t]]
    <3>1. /\ sessions' = [[k \in Keys |-> IF k \in K THEN None ELSE sessions[k]] EXCEPT ![k0] = s]
          /\ store' = (store \ K) \cup {k0}
          /\ workdir' = workdir \cup {k0}
          /\ lc' = lc
      BY <2>1, OpenEffect
    <3>2. Registered' = (Registered \ K) \cup {k0}
      BY <1>1, <2>1, <3>1, SessionManagerAssumption DEF Registered, MapTypeOK
    <3>3. Running
      BY <1>3, DispatchFrame
    <3> QED
      BY <1>1, <3>1, <3>2, <3>3
  <2>2. ASSUME NEW s \in Sids, CreateWithRoom(t, s) PROVE RowsOK'
    BY <2>1, <2>2, InHand DEF CreateWithRoom
  <2>3. ASSUME NEW s \in Sids, EvictAndCreate(t, s) PROVE RowsOK'
    <3>1. {skey[tsid[t]]} \in SUBSET Keys
      BY <2>3, InHand DEF EvictAndCreate
    <3> QED
      BY <2>1, <2>3, <3>1, InHand DEF EvictAndCreate
  <2>4. CASE EvictAndFail(t)
    <3> DEFINE k == skey[tsid[t]]
    <3>1. sessions' = [sessions EXCEPT ![k] = None] /\ store' = store \ {k} /\ UNCHANGED <<workdir, lc>> /\ Running
      BY <2>4 DEF EvictAndFail, DeleteRows
    <3>2. Registered' = Registered \ {k}
      BY <1>1, <3>1 DEF Registered, MapTypeOK
    <3> QED
      BY <1>1, <3>1, <3>2
  <2>5. Running
    BY <1>3, DispatchFrame
  <2> QED
    BY <1>2, <1>3, <2>2, <2>3, <2>4, <2>5 DEF Dispatch, Consume, Lookup, FoundOnRecheck, PickVictim,
       Refuse, Send, Block, SendTimeout
<1>4. ASSUME NEW s \in Sids, Session(s) PROVE RowsOK'
  <2>1. Running /\ UNCHANGED <<sessions, store, workdir>> /\ Registered' = Registered
    BY <1>4, SessionFrame DEF Registered
  <2>2. Alive(s) /\ Live(s) => skey[s] \in Registered
    BY SessionManagerAssumption DEF IInv, NoOrphan, Registered
  <2>3. CASE Begin(s)
    <3>1. Alive(s)
      BY <2>3 DEF Begin, Alive
    <3>2. lc' = lc \/ (Live(s) /\ lc[skey[s]] = "" /\ lc' = [lc EXCEPT ![skey[s]] = "working"])
      BY <2>3 DEF Begin
    <3> QED
      BY <1>1, <2>1, <2>2, <3>1, <3>2 DEF DiskTypeOK
  <2>4. CASE TurnSucceeds(s) \/ TurnBlocked(s) \/ TurnFails(s)
    <3>1. Alive(s)
      BY <2>4 DEF TurnSucceeds, TurnBlocked, TurnFails, EndTurn, Alive
    <3>2. \/ lc' = lc
          \/ Live(s) /\ \E state \in {"completed", "blocked", "failed"} : lc' = [lc EXCEPT ![skey[s]] = state]
      BY <2>4 DEF TurnSucceeds, TurnBlocked, TurnFails, EndTurn
    <3> QED
      BY <1>1, <2>1, <2>2, <3>1, <3>2 DEF DiskTypeOK
  <2>5. CASE Exit(s)
    <3>1. lc' = lc \/ lc' = [lc EXCEPT ![skey[s]] = "failed"]
      BY <2>5 DEF Exit
    <3> QED
      BY <1>1, <2>1, <3>1 DEF DiskTypeOK
  <2>6. CASE Start(s) \/ Take(s) \/ Settle(s) \/ Deadline(s)
    BY <1>2, <2>1, <2>6 DEF Start, Take, Settle, Deadline
  <2> QED
    BY <1>4, <2>3, <2>4, <2>5, <2>6 DEF Session
<1>5. CASE Tickers
  <2> SUFFICES ASSUME NEW k \in Keys, ReapIdle(k) \/ MarkStuck(k) \/ RowAges(k) \/ CleanupOldWorkDir(k),
                      Running
               PROVE  RowsOK'
    BY <1>5, TickersFrame DEF Tickers, Running
  <2>1. CASE ReapIdle(k)
    <3>1. Registered' = Registered \ {k} /\ store' = store \ {k} /\ UNCHANGED <<workdir, lc>>
      BY <1>1, <2>1 DEF ReapIdle, DeleteRows, Registered, MapTypeOK
    <3> QED
      BY <1>1, <3>1
  <2>2. CASE MarkStuck(k)
    <3>1. Registered' = Registered /\ lc' = [lc EXCEPT ![k] = "failed"] /\ UNCHANGED <<store, workdir>>
      BY <2>2 DEF MarkStuck, Registered
    <3> QED
      BY <1>1, <3>1 DEF DiskTypeOK
  <2>3. CASE RowAges(k)
    BY <1>2, <2>3 DEF RowAges
  <2>4. CASE CleanupOldWorkDir(k)
    <3>1. Registered' = Registered /\ workdir' = workdir \ {k} /\ UNCHANGED <<store, lc>> /\ Finished(lc[k])
      BY <2>4 DEF CleanupOldWorkDir, Registered
    <3> QED
      BY <1>1, <3>1
  <2> QED
    BY <2>1, <2>2, <2>3, <2>4
<1>6. CASE RunShutsDown \/ DrainForces
  <2>1. Running
    BY <1>6 DEF RunShutsDown, DrainForces, Running
  <2>2. sessions' = [k \in Keys |-> None] /\ store' = store \ Registered /\ lc' = lc
    BY <1>6 DEF RunShutsDown, DrainForces, ShutdownAll, DeleteRows
  <2>3. Registered' = {}
    BY <2>2 DEF Registered
  <2> QED
    BY <1>1, <2>1, <2>2, <2>3
<1>7. CASE DrainReturns \/ Crash
  BY <1>7 DEF DrainReturns, Crash, Die, Running
<1>8. CASE Restart
  <2>1. PICK f \in [Restorable -> Sids] : sessions' = [k \in Keys |-> IF k \in Restorable THEN f[k] ELSE None]
    BY <1>8 DEF Restart
  <2>2. Registered' = Restorable
    <3>1. Restorable \subseteq Keys
      BY <1>1 DEF Restorable, DiskTypeOK
    <3> QED
      BY <2>1, <3>1, SessionManagerAssumption DEF Registered
  <2>3. store' = store \ Discarded /\ lc' = lc /\ workdir' = workdir
    BY <1>8 DEF Restart, DeleteRows
  <2> QED
    BY <1>1, <2>2, <2>3 DEF Restorable, Discarded
<1>9. CASE Signal \/ RunReturns \/ StayDown
  BY <1>2, <1>9 DEF Signal, RunReturns, StayDown, Running
<1>10. CASE UNCHANGED vars
  BY <1>2, <1>10 DEF Running
<1>11. CASE Subscribe \/ \E e \in Events : Publish(e)
  BY <1>2, <1>11, SubscribeFrame, PublishFrame DEF Running
<1> QED
  BY <1>3, <1>4, <1>5, <1>6, <1>7, <1>8, <1>9, <1>10, <1>11 DEF Next, Process

LEMMA DownStep == ASSUME IInv, [Next]_vars PROVE DownOK'
<1> USE DEF DownOK, Running
<1>1. DownOK
  BY DEF IInv
<1>2. ASSUME UNCHANGED <<proc, interrupted>>, Running PROVE DownOK'
  BY <1>1, <1>2
<1>3. CASE UNCHANGED vars
  BY <1>1, <1>3 DEF Restorable, Discarded
<1>4. CASE Subscribe \/ (\E e \in Events : Publish(e)) \/ Signal \/ RunShutsDown \/ RunReturns \/ DrainForces
  BY <1>1, <1>4 DEF Subscribe, Publish, Signal, RunShutsDown, RunReturns, DrainForces, ShutdownAll
<1>5. CASE Tickers
  <2>1. ASSUME NEW k \in Keys, RowAges(k) PROVE DownOK'
    <3>1. UNCHANGED <<proc, lock, tpc, interrupted, store, workdir, cp, lc>>
      BY <2>1 DEF RowAges
    <3> QED
      BY <1>1, <3>1 DEF Restorable, Discarded
  <2> QED
    BY <1>2, <1>5, <2>1 DEF Tickers, ReapIdle, MarkStuck, CleanupOldWorkDir
<1>6. CASE DrainReturns \/ Crash
  <2>1. Running /\ RowsOK /\ DiskTypeOK
    BY <1>6 DEF DrainReturns, Crash, IInv, TypeOK
  <2>2. Restorable \subseteq Registered /\ Restorable \subseteq Keys
    BY <2>1 DEF RowsOK, Restorable, DiskTypeOK
  <2>3. Cardinality(Restorable) <= MaxSessions
    BY <2>2, Shrinks
  <2>4. UNCHANGED <<store, workdir, cp, lc>> /\ lock' = None
        /\ tpc' = [t \in Threads |-> IF t = Run THEN "boot" ELSE "loop"]
        /\ proc' \in {"exited", "crashed"}
    BY <1>6 DEF DrainReturns, Crash, Die
  <2>5. Restorable' = Restorable
    BY <2>4 DEF Restorable, Discarded
  <2>6. interrupted' \subseteq Registered
    BY <1>1, <1>6, <2>1 DEF DrainReturns, Crash
  <2> QED
    BY <2>1, <2>3, <2>4, <2>5, <2>6 DEF RowsOK
<1>7. CASE Restart
  BY <1>7 DEF Restart
<1>8. CASE StayDown
  BY <1>3, <1>8 DEF StayDown
<1> QED
  BY <1>2, <1>3, <1>4, <1>5, <1>6, <1>7, <1>8, DispatchFrame, SessionFrame DEF Next, Process

-----------------------------------------------------------------------------
(* The theorems. *)

LEMMA InitIInv == Init => IInv
<1> SUFFICES ASSUME Init PROVE IInv
  OBVIOUS
<1>1. proc = "up" /\ boots = 0 /\ joins = [j \in {"run", "main"} |-> {}] /\ interrupted = {}
      /\ pending = Events /\ bus = <<>>
  BY DEF Init
<1>2. ProcTypeOK /\ BusTypeOK
  BY <1>1, SessionManagerAssumption DEF ProcTypeOK, BusTypeOK
<1>3. /\ lock = None /\ tpc = [t \in Threads |-> IF t = Run THEN "boot" ELSE "loop"]
      /\ tevt = [t \in Threads |-> None] /\ tsid = [t \in Threads |-> None]
      /\ sessions = [k \in Keys |-> None] /\ older = {}
  BY DEF Init
<1>4. ThreadTypeOK /\ MapTypeOK
  BY <1>3 DEF ThreadTypeOK, MapTypeOK, ThreadPC
<1>5. /\ spc = [s \in Sids |-> "unused"] /\ skey = [s \in Sids |-> None]
      /\ cur = [s \in Sids |-> None] /\ ctx = [s \in Sids |-> "live"]
      /\ recovery = [s \in Sids |-> FALSE] /\ queue = [s \in Sids |-> <<>>]
  BY DEF Init
<1>6. SessionTypeOK
  BY <1>5 DEF SessionTypeOK, SessionPC
<1>7. QueueTypeOK
  BY <1>5, SessionManagerAssumption DEF QueueTypeOK
<1>8. DiskTypeOK
  BY DEF Init, DiskTypeOK, Checkpoint, LifecycleState
<1>9. TypeOK
  BY <1>2, <1>4, <1>6, <1>7, <1>8 DEF TypeOK
<1>10. DispatchersOK /\ MapOK /\ NoOrphan
  BY <1>3, <1>5, SessionManagerAssumption DEF DispatchersOK, MapOK, NoOrphan, Alive
<1>11. Registered = {}
  BY <1>3 DEF Registered
<1>12. SessionCap
  BY <1>11, FS_EmptySet, SessionManagerAssumption DEF SessionCap
<1>13. RowsOK /\ DownOK
  BY <1>1, <1>11 DEF Init, RowsOK, DownOK, Running
<1> QED
  BY <1>9, <1>10, <1>12, <1>13 DEF IInv

LEMMA StepIInv == IInv /\ [Next]_vars => IInv'
BY TypeStep, DispatchersStep, MapStep, OrphanStep, CapStep, RowsStep, DownStep DEF IInv

(* The inductive invariant holds in every reachable state. *)
THEOREM Invariance == Spec => []IInv
BY InitIInv, StepIInv, PTL DEF Spec

(* Type correctness, with the capacities of the channels. *)
THEOREM TypeCorrect == Spec => []TypeOK
<1>1. IInv => TypeOK
  BY DEF IInv
<1> QED
  BY <1>1, Invariance, PTL

(* The session map never exceeds max_sessions. *)
THEOREM Capped == Spec => []SessionCap
<1>1. IInv => SessionCap
  BY DEF IInv
<1> QED
  BY <1>1, Invariance, PTL

(* A goroutine with a live context is the one the map holds for its key. *)
THEOREM Reachable == Spec => []NoOrphan
<1>1. IInv => NoOrphan
  BY DEF IInv
<1> QED
  BY <1>1, Invariance, PTL

(* Two goroutines of one key are never both in a turn with a live context. *)
THEOREM Serial == Spec => []SerialPerKey
<1>1. IInv => SerialPerKey
  <2> SUFFICES ASSUME IInv, NEW r \in Sids, NEW s \in Sids,
                      r # s, Busy(r), Busy(s), skey[r] = skey[s], Live(r), Live(s)
               PROVE  FALSE
    BY DEF SerialPerKey
  <2>1. Alive(r) /\ Alive(s)
    BY DEF Busy, Alive
  <2> QED
    BY <2>1 DEF IInv, NoOrphan
<1> QED
  BY <1>1, Invariance, PTL

(* While the process runs every session in the map has a row, and a row a  *)
(* restart would restore belongs to a session in the map.                  *)
THEOREM RowsMatch == Spec => []RowsMatchSessions
<1>1. IInv => RowsMatchSessions
  BY DEF IInv, TypeOK, DiskTypeOK, RowsOK, RowsMatchSessions, Restorable
<1> QED
  BY <1>1, Invariance, PTL

(* A first turn that a crash cut short is resumed in recovery mode. *)
THEOREM FirstTurnIsResumed == Spec => FirstTurnResumes
<1>1. IInv /\ [Next]_vars =>
        [Restarts => \A k \in interrupted :
           lc[k] = "working" /\ cp[k] = "none" =>
             sessions'[k] # None /\ recovery'[sessions'[k]]]_vars
  <2> SUFFICES ASSUME IInv, Next, Restarts, NEW k \in interrupted, lc[k] = "working", cp[k] = "none"
               PROVE  sessions'[k] # None /\ recovery'[sessions'[k]]
    OBVIOUS
  <2>1. ~Running /\ proc' = "up"
    BY DEF Restarts
  <2>2. Restart
    BY <2>1, DispatchFrame, SessionFrame, TickersFrame, SubscribeFrame, PublishFrame
    DEF Next, Process, Running, Signal, RunShutsDown, RunReturns, DrainForces, DrainReturns, Crash, StayDown
  <2>3. k \in store /\ k \in workdir
    BY <2>1 DEF IInv, DownOK
  <2>4. k \in Restorable /\ k \in Keys
    BY <2>3 DEF Restorable, Discarded, Finished, IInv, TypeOK, DiskTypeOK
  <2>5. PICK f \in [Restorable -> Sids] :
          /\ sessions' = [j \in Keys |-> IF j \in Restorable THEN f[j] ELSE None]
          /\ recovery' = [s \in Sids |-> \E j \in Restorable :
                             f[j] = s /\ cp[j] = "none" /\ lc[j] = "working"]
    BY <2>2 DEF Restart
  <2>6. sessions'[k] = f[k] /\ f[k] \in Sids
    BY <2>4, <2>5
  <2>7. recovery'[f[k]]
    BY <2>4, <2>5, <2>6
  <2> QED
    BY <2>6, <2>7, SessionManagerAssumption
<1> QED
  BY <1>1, Invariance, PTL DEF Spec, FirstTurnResumes

-----------------------------------------------------------------------------
(* SessionDelivery implements KeyedMailbox. First, sequences.              *)

LEMMA NothingInEmpty == ASSUME NEW e PROVE ~InSequence(e, <<>>) /\ NoRepeats(<<>>)
BY DEF InSequence, NoRepeats

LEMMA InAppend ==
  ASSUME NEW q \in Seq(Events), NEW e \in Events
  PROVE  /\ \A f : InSequence(f, Append(q, e)) <=> InSequence(f, q) \/ f = e
         /\ NoRepeats(q) /\ ~InSequence(e, q) => NoRepeats(Append(q, e))
<1>1. /\ Len(Append(q, e)) = Len(q) + 1 /\ Len(q) \in Nat
      /\ \A i \in 1..Len(q) : Append(q, e)[i] = q[i]
      /\ Append(q, e)[Len(q) + 1] = e
  OBVIOUS
<1>2. 1..(Len(q) + 1) = 1..Len(q) \cup {Len(q) + 1}
  BY <1>1
<1>3. \A f : InSequence(f, Append(q, e)) <=> InSequence(f, q) \/ f = e
  BY <1>1, <1>2 DEF InSequence
<1>4. ASSUME NoRepeats(q), ~InSequence(e, q) PROVE NoRepeats(Append(q, e))
  BY <1>1, <1>2, <1>4 DEF InSequence, NoRepeats
<1> QED
  BY <1>3, <1>4

LEMMA InTail ==
  ASSUME NEW q \in Seq(Events), q # <<>>, NoRepeats(q)
  PROVE  /\ Head(q) \in Events /\ InSequence(Head(q), q)
         /\ \A f : InSequence(f, Tail(q)) <=> InSequence(f, q) /\ f # Head(q)
         /\ NoRepeats(Tail(q))
<1>1. /\ Len(q) \in Nat /\ Len(q) >= 1 /\ Len(Tail(q)) = Len(q) - 1 /\ Head(q) = q[1]
      /\ \A i \in 1..(Len(q) - 1) : Tail(q)[i] = q[i + 1]
  OBVIOUS
<1>2. Head(q) \in Events /\ InSequence(Head(q), q)
  BY <1>1 DEF InSequence
<1>3. ASSUME NEW f, InSequence(f, Tail(q)) PROVE InSequence(f, q) /\ f # Head(q)
  <2>1. PICK i \in 1..(Len(q) - 1) : Tail(q)[i] = f
    BY <1>1, <1>3 DEF InSequence
  <2>2. i + 1 \in 1..Len(q) /\ q[i + 1] = f /\ 1 \in 1..Len(q) /\ i + 1 # 1
    BY <1>1, <2>1
  <2> QED
    BY <1>1, <2>2 DEF InSequence, NoRepeats
<1>4. ASSUME NEW f, InSequence(f, q), f # Head(q) PROVE InSequence(f, Tail(q))
  <2>1. PICK i \in 1..Len(q) : q[i] = f
    BY <1>4 DEF InSequence
  <2>2. i - 1 \in 1..(Len(q) - 1) /\ (i - 1) + 1 = i
    BY <1>1, <1>4, <2>1
  <2> QED
    BY <1>1, <2>1, <2>2 DEF InSequence
<1>5. NoRepeats(Tail(q))
  <2> SUFFICES ASSUME NEW i \in 1..(Len(q) - 1), NEW j \in 1..(Len(q) - 1), Tail(q)[i] = Tail(q)[j]
               PROVE  i = j
    BY <1>1 DEF NoRepeats
  <2>1. i + 1 \in 1..Len(q) /\ j + 1 \in 1..Len(q) /\ q[i + 1] = q[j + 1]
    BY <1>1
  <2>2. i + 1 = j + 1
    BY <2>1 DEF NoRepeats
  <2> QED
    BY <2>2
<1> QED
  BY <1>2, <1>3, <1>4, <1>5

-----------------------------------------------------------------------------
(* The history variable. *)

(* A turn ends in TurnSucceeds, TurnBlocked or TurnFails only. *)
LEMMA TurnsOfOthers ==
  ASSUME IInv, [Next]_vars, NEW r \in Sids, TurnEnds(r)
  PROVE  /\ TurnSucceeds(r) \/ TurnBlocked(r) \/ TurnFails(r)
         /\ \A s \in Sids : TurnEnds(s) => s = r
<1> USE DEF TurnEnds
<1>1. spc \in [Sids -> SessionPC] /\ spc[r] = "working"
  BY DEF IInv, TypeOK, SessionTypeOK
<1>2. spc' # spc
  BY <1>1
<1>3. PICK s \in Sids : Session(s)
  <2>1. ASSUME NEW t \in Threads, Dispatch(t) PROVE FALSE
    <3>1. PICK s \in Sids : spc' = [spc EXCEPT ![s] = "starting"]
      BY <1>2, <2>1 DEF Dispatch, Consume, Lookup, FoundOnRecheck, CreateWithRoom, EvictAndCreate,
         PickVictim, Refuse, EvictAndFail, Send, Block, SendTimeout, Open
    <3> QED
      BY <1>1, <3>1
  <2>2. CASE Process
    <3>1. CASE Restart
      BY <1>1, <3>1 DEF Restart
    <3>2. CASE DrainReturns \/ Crash
      BY <1>1, <3>2 DEF DrainReturns, Crash, Die
    <3> QED
      BY <1>2, <2>2, <3>1, <3>2 DEF Process, Signal, RunShutsDown, RunReturns, DrainForces,
         ShutdownAll, StayDown
  <2> QED
    BY <1>2, <2>1, <2>2, TickersFrame, SubscribeFrame, PublishFrame DEF Next
<1>4. \A q \in Sids \ {s} : spc'[q] = spc[q]
  BY <1>1, <1>3 DEF Session, Start, Take, Begin, TurnSucceeds, TurnBlocked, TurnFails, EndTurn,
     Settle, Exit, Deadline
<1>5. s = r /\ \A q \in Sids : TurnEnds(q) => q = r
  BY <1>1, <1>4
<1>6. ~(Start(r) \/ Take(r) \/ Begin(r) \/ Settle(r) \/ Exit(r) \/ Deadline(r))
  BY <1>1 DEF Start, Take, Begin, Settle, Exit, Deadline
<1> QED
  BY <1>3, <1>5, <1>6 DEF Session

LEMMA DoneGrows ==
  ASSUME IInv, DeliveryNext
  PROVE  \/ done' = done /\ \A s \in Sids : ~TurnEnds(s)
         \/ \E s \in Sids : TurnEnds(s) /\ done' = done \cup {cur[s]}
<1>1. CASE \A s \in Sids : ~TurnEnds(s)
  BY <1>1 DEF DeliveryNext
<1>2. ASSUME NEW s \in Sids, TurnEnds(s) PROVE done' = done \cup {cur[s]}
  <2>1. {r \in Sids : TurnEnds(r)} = {s}
    BY <1>2, TurnsOfOthers DEF DeliveryNext
  <2>2. {cur[r] : r \in {q \in Sids : TurnEnds(q)}} = {cur[s]}
    BY <2>1
  <2> QED
    BY <2>2 DEF DeliveryNext
<1> QED
  BY <1>1, <1>2

-----------------------------------------------------------------------------
(* DInv is an invariant of DeliverySpec. *)

LEMMA HandsStep == ASSUME IInv, HandsOK, [Next]_vars PROVE HandsOK'
<1> USE DEF HandsOK
<1>1. ThreadTypeOK /\ SessionTypeOK /\ Run \in Threads
  BY DEF IInv, TypeOK, Threads
<1>2. CASE UNCHANGED <<tpc, tevt, spc, cur>>
  BY <1>2
<1>3. CASE Subscribe
  BY <1>1, <1>3 DEF Subscribe, ThreadTypeOK
<1>4. ASSUME NEW t \in Threads, Dispatch(t) PROVE HandsOK'
  <2>1. ASSUME NEW s \in Sids, CreateWithRoom(t, s) \/ EvictAndCreate(t, s) PROVE HandsOK'
    <3>1. tpc' = [tpc EXCEPT ![t] = "send"] /\ tevt' = tevt
          /\ spc' = [spc EXCEPT ![s] = "starting"] /\ cur' = [cur EXCEPT ![s] = None]
          /\ tpc[t] \in {"create", "evict"}
      BY <2>1 DEF CreateWithRoom, EvictAndCreate, Open, CreateRow
    <3> QED
      BY <1>1, <3>1 DEF ThreadTypeOK, SessionTypeOK
  <2>2. ASSUME NEW e \in Events, Lookup(t, e) PROVE HandsOK'
    BY <1>1, <2>2 DEF Lookup, ThreadTypeOK
  <2>3. CASE FoundOnRecheck(t) \/ Refuse(t) \/ EvictAndFail(t)
    BY <1>1, <2>3 DEF FoundOnRecheck, Refuse, EvictAndFail, ThreadTypeOK
  <2>4. ASSUME NEW k \in Keys, PickVictim(t, k) PROVE HandsOK'
    BY <1>1, <2>4 DEF PickVictim, ThreadTypeOK
  <2>5. CASE Send(t) \/ Block(t) \/ SendTimeout(t)
    BY <1>1, <2>5 DEF Send, Block, SendTimeout, Handled, ThreadTypeOK
  <2> QED
    BY <1>2, <1>4, <2>1, <2>2, <2>3, <2>4, <2>5 DEF Dispatch, Consume
<1>5. ASSUME NEW s \in Sids, Session(s) PROVE HandsOK'
  <2>1. CASE Take(s)
    <3>1. Head(queue[s]) \in Events
      BY <2>1 DEF Take, IInv, TypeOK, QueueTypeOK
    <3> QED
      BY <1>1, <2>1, <3>1 DEF Take, SessionTypeOK
  <2>2. CASE Start(s) \/ Begin(s) \/ TurnSucceeds(s) \/ TurnBlocked(s) \/ TurnFails(s) \/ Exit(s)
    BY <1>1, <2>2 DEF Start, Begin, TurnSucceeds, TurnBlocked, TurnFails, EndTurn, Exit, SessionTypeOK
  <2>3. CASE Settle(s)
    BY <1>1, <2>3 DEF Settle, SessionTypeOK
  <2> QED
    BY <1>2, <1>5, <2>1, <2>2, <2>3 DEF Session, Deadline
<1>6. CASE RunShutsDown \/ RunReturns
  BY <1>1, <1>6 DEF RunShutsDown, RunReturns, ShutdownAll, ThreadTypeOK
<1>7. CASE DrainReturns \/ Crash
  BY <1>7 DEF DrainReturns, Crash, Die
<1>8. CASE Restart
  BY <1>8 DEF Restart
<1>9. CASE Signal \/ DrainForces \/ StayDown
  BY <1>2, <1>9 DEF Signal, DrainForces, ShutdownAll, StayDown
<1> QED
  BY <1>2, <1>3, <1>4, <1>5, <1>6, <1>7, <1>8, <1>9, TickersFrame, PublishFrame DEF Next, Process

LEMMA DownEmptyStep == ASSUME IInv, DownEmpty, [Next]_vars PROVE DownEmpty'
<1> USE DEF DownEmpty
<1>1. CASE UNCHANGED <<proc, bus, tevt, queue, spc>>
  BY <1>1 DEF Running
<1>2. CASE Running'
  BY <1>2
<1>3. ASSUME Running, UNCHANGED proc \/ proc' \in {"draining", "forced"} PROVE Running'
  BY <1>3 DEF Running
<1>4. CASE DrainReturns \/ Crash
  BY <1>4 DEF DrainReturns, Crash, Die
<1>5. CASE Restart
  BY <1>2, <1>5 DEF Restart, Running
<1>6. CASE Subscribe \/ (\E e \in Events : Publish(e))
  BY <1>2, <1>3, <1>6 DEF Subscribe, Publish, Running
<1>7. CASE Signal \/ RunShutsDown \/ RunReturns \/ DrainForces
  BY <1>2, <1>3, <1>7 DEF Signal, RunShutsDown, RunReturns, DrainForces, Running
<1>8. CASE StayDown
  BY <1>1, <1>8 DEF StayDown
<1> QED
  BY <1>1, <1>2, <1>3, <1>4, <1>5, <1>6, <1>7, <1>8, SessionFrame, DispatchFrame, TickersFrame
  DEF Next, Process

LEMMA OwnKeyStep == ASSUME IInv, DInv, [Next]_vars PROVE OwnKey'
<1>1. ThreadTypeOK /\ SessionTypeOK /\ QueueTypeOK /\ MapTypeOK /\ MapOK /\ Run \in Threads
  BY DEF IInv, TypeOK, Threads
<1>2. OwnKey /\ EachOnce
  BY DEF DInv
<1> USE DEF OwnKey
<1>3. ASSUME UNCHANGED skey,
             \A t \in Threads : tpc'[t] \in {"send", "blocked"} =>
                tpc[t] \in {"send", "blocked"} /\ tsid'[t] = tsid[t] /\ tevt'[t] = tevt[t],
             \A s \in Sids, e \in Events : InSequence(e, queue'[s]) \/ Holds(s, e)' =>
                InSequence(e, queue[s]) \/ Holds(s, e)
      PROVE  OwnKey'
  BY <1>2, <1>3
<1>4. CASE UNCHANGED <<skey, tpc, tsid, tevt, queue, spc, cur>>
  BY <1>3, <1>4 DEF Holds
<1>5. CASE Subscribe
  BY <1>1, <1>3, <1>5 DEF Subscribe, ThreadTypeOK, Holds
<1>6. ASSUME NEW t \in Threads, Dispatch(t) PROVE OwnKey'
  <2>1. ASSUME NEW e \in Events, Lookup(t, e) PROVE OwnKey'
    <3>1. EventKey[e] \in Keys
      BY SessionManagerAssumption
    <3>2. tpc'[t] = "send" => tsid'[t] = sessions[EventKey[e]] /\ skey[sessions[EventKey[e]]] = EventKey[e]
      BY <1>1, <2>1, <3>1 DEF Lookup, MapOK, ThreadTypeOK
    <3>3. tpc'[t] \in {"send", "create"} /\ tevt'[t] = e /\ UNCHANGED <<skey, queue, spc, cur>>
          /\ \A u \in Threads \ {t} : tpc'[u] = tpc[u] /\ tsid'[u] = tsid[u] /\ tevt'[u] = tevt[u]
      BY <1>1, <2>1 DEF Lookup, ThreadTypeOK
    <3> QED
      BY <1>2, <3>2, <3>3 DEF Holds
  <2>2. CASE FoundOnRecheck(t)
    <3>1. EventKey[tevt[t]] \in Keys
      BY <2>2, InHand DEF FoundOnRecheck
    <3>2. tsid'[t] = sessions[EventKey[tevt[t]]] /\ skey[sessions[EventKey[tevt[t]]]] = EventKey[tevt[t]]
      BY <1>1, <2>2, <3>1 DEF FoundOnRecheck, MapOK, ThreadTypeOK
    <3>3. UNCHANGED <<tevt, skey, queue, spc, cur>>
          /\ \A u \in Threads \ {t} : tpc'[u] = tpc[u] /\ tsid'[u] = tsid[u]
      BY <1>1, <2>2 DEF FoundOnRecheck, ThreadTypeOK
    <3> QED
      BY <1>2, <3>2, <3>3 DEF Holds
  <2>3. ASSUME NEW s \in Sids, NEW K, Open(t, s, K) PROVE OwnKey'
    <3>1. /\ queue' = [queue EXCEPT ![s] = <<>>] /\ cur' = [cur EXCEPT ![s] = None]
          /\ spc' = [spc EXCEPT ![s] = "starting"] /\ skey' = [skey EXCEPT ![s] = EventKey[tevt[t]]]
          /\ tpc' = [tpc EXCEPT ![t] = "send"] /\ tsid' = [tsid EXCEPT ![t] = s] /\ tevt' = tevt
      BY <2>3 DEF Open, CreateRow
    <3>2. \A u \in Threads : tsid[u] # s
      BY <2>3, OpenEffect
    <3>3. \A u \in Threads : tpc'[u] \in {"send", "blocked"} => skey'[tsid'[u]] = EventKey[tevt'[u]]
      <4> SUFFICES ASSUME NEW u \in Threads, tpc'[u] \in {"send", "blocked"}
                   PROVE  skey'[tsid'[u]] = EventKey[tevt'[u]]
        OBVIOUS
      <4>1. CASE u = t
        BY <1>1, <3>1, <4>1 DEF ThreadTypeOK, SessionTypeOK
      <4>2. CASE u # t
        <5>1. tpc[u] \in {"send", "blocked"} /\ tsid'[u] = tsid[u]
          BY <1>1, <3>1, <4>2 DEF ThreadTypeOK
        <5>2. tsid[u] \in Sids \ {s}
          BY <3>2, <5>1, InHand
        <5> QED
          BY <1>1, <1>2, <3>1, <5>1, <5>2 DEF SessionTypeOK
      <4> QED
        BY <4>1, <4>2
    <3>4. ASSUME NEW r \in Sids, NEW e \in Events, InSequence(e, queue'[r]) \/ Holds(r, e)'
          PROVE  skey'[r] = EventKey[e]
      <4>1. r # s
        BY <1>1, <3>1, <3>4, NothingInEmpty DEF Holds, SessionTypeOK, QueueTypeOK
      <4>2. queue'[r] = queue[r] /\ cur'[r] = cur[r] /\ spc'[r] = spc[r] /\ skey'[r] = skey[r]
        BY <1>1, <3>1, <4>1 DEF SessionTypeOK, QueueTypeOK
      <4> QED
        BY <1>2, <3>4, <4>2 DEF Holds
    <3> QED
      BY <3>3, <3>4
  <2>4. ASSUME NEW k \in Keys, PickVictim(t, k) PROVE OwnKey'
    BY <1>1, <1>3, <2>4 DEF PickVictim, ThreadTypeOK, Holds
  <2>5. CASE Refuse(t) \/ EvictAndFail(t)
    BY <1>1, <1>3, <2>5 DEF Refuse, EvictAndFail, ThreadTypeOK, Holds
  <2>6. CASE Block(t) \/ SendTimeout(t)
    BY <1>1, <1>3, <2>6 DEF Block, SendTimeout, Handled, ThreadTypeOK, Holds
  <2>7. CASE Send(t)
    <3>1. tsid[t] \in Sids /\ tevt[t] \in Events /\ skey[tsid[t]] = EventKey[tevt[t]]
      BY <1>2, <2>7, InHand DEF Send
    <3>2. /\ queue' = [queue EXCEPT ![tsid[t]] = Append(queue[tsid[t]], tevt[t])]
          /\ UNCHANGED <<skey, spc, cur>>
          /\ \A u \in Threads : tpc'[u] \in {"send", "blocked"} =>
                tpc[u] \in {"send", "blocked"} /\ tsid'[u] = tsid[u] /\ tevt'[u] = tevt[u]
      BY <1>1, <2>7 DEF Send, Handled, ThreadTypeOK
    <3>3. \A s \in Sids, e \in Events : InSequence(e, queue'[s]) =>
             InSequence(e, queue[s]) \/ (s = tsid[t] /\ e = tevt[t])
      BY <1>1, <3>1, <3>2, InAppend DEF QueueTypeOK
    <3> QED
      BY <1>2, <3>1, <3>2, <3>3 DEF Holds
  <2> QED
    BY <1>4, <1>6, <2>1, <2>2, <2>3, <2>4, <2>5, <2>6, <2>7
    DEF Dispatch, Consume, CreateWithRoom, EvictAndCreate
<1>7. ASSUME NEW s \in Sids, Session(s) PROVE OwnKey'
  <2>1. UNCHANGED <<skey, tpc, tsid, tevt>>
    BY <1>7, SessionFrame
  <2>2. CASE Take(s)
    <3>1. /\ queue' = [queue EXCEPT ![s] = Tail(queue[s])] /\ queue[s] # <<>>
          /\ cur' = [cur EXCEPT ![s] = Head(queue[s])] /\ spc' = [spc EXCEPT ![s] = "taken"]
      BY <2>2 DEF Take
    <3>2. InSequence(Head(queue[s]), queue[s])
          /\ \A e : InSequence(e, Tail(queue[s])) => InSequence(e, queue[s])
      BY <1>1, <1>2, <3>1, InTail DEF QueueTypeOK, EachOnce
    <3>3. \A r \in Sids, e \in Events : InSequence(e, queue'[r]) \/ Holds(r, e)' =>
             InSequence(e, queue[r]) \/ Holds(r, e)
      BY <1>1, <3>1, <3>2 DEF QueueTypeOK, SessionTypeOK, Holds
    <3> QED
      BY <1>3, <2>1, <3>3
  <2>3. CASE Start(s) \/ Begin(s) \/ Settle(s) \/ Exit(s) \/ Deadline(s)
    BY <1>1, <1>3, <2>1, <2>3 DEF Start, Begin, Settle, Exit, Deadline, SessionTypeOK, Holds
  <2>4. CASE TurnSucceeds(s) \/ TurnBlocked(s) \/ TurnFails(s)
    BY <1>1, <1>3, <2>1, <2>4 DEF TurnSucceeds, TurnBlocked, TurnFails, EndTurn, SessionTypeOK, Holds
  <2> QED
    BY <1>7, <2>2, <2>3, <2>4 DEF Session
<1>8. CASE RunShutsDown \/ RunReturns
  BY <1>1, <1>3, <1>8 DEF RunShutsDown, RunReturns, ShutdownAll, ThreadTypeOK, Holds
<1>9. CASE DrainReturns \/ Crash
  <2>1. /\ tpc' = [t \in Threads |-> IF t = Run THEN "boot" ELSE "loop"]
        /\ queue' = [s \in Sids |-> <<>>] /\ spc' = [s \in Sids |-> "unused"]
    BY <1>9 DEF DrainReturns, Crash, Die
  <2> QED
    BY <2>1, NothingInEmpty DEF Holds
<1>10. CASE Restart
  <2>1. ~Running /\ UNCHANGED <<tpc, tsid, tevt, queue>>
        /\ \A s \in Sids : spc'[s] \in {"starting", "unused"}
    BY <1>10 DEF Restart, Running
  <2>2. \A s \in Sids : queue[s] = <<>>
    BY <2>1 DEF DInv, DownEmpty
  <2>3. \A t \in Threads : tpc[t] \in {"boot", "loop"}
    BY <2>1 DEF IInv, DownOK
  <2> QED
    BY <2>1, <2>2, <2>3, NothingInEmpty DEF Holds
<1>11. CASE Signal \/ DrainForces \/ StayDown
  BY <1>4, <1>11 DEF Signal, DrainForces, ShutdownAll, StayDown
<1> QED
  BY <1>4, <1>5, <1>6, <1>7, <1>8, <1>9, <1>10, <1>11, TickersFrame, PublishFrame DEF Next, Process

(* A step after which event e is nowhere it was not before. *)
Fewer(e) ==
  /\ InSequence(e, bus') => InSequence(e, bus)
  /\ \A t \in Threads : tevt'[t] = e => tevt[t] = e
  /\ \A s \in Sids : InSequence(e, queue'[s]) => InSequence(e, queue[s])
  /\ \A s \in Sids : Holds(s, e)' => Holds(s, e)
  /\ e \in pending' => e \in pending
  /\ e \in done' => e \in done

LEMMA FewerKeeps == ASSUME NEW e \in Events, EventOnce(e), Fewer(e) PROVE EventOnce(e)'
<1>1. InMemory(e)' => InMemory(e)
  BY DEF Fewer, InMemory
<1>2. OnePlace(e)'
  BY DEF Fewer, OnePlace, EventOnce
<1> QED
  BY <1>1, <1>2 DEF Fewer, EventOnce

LEMMA EachOnceKept ==
  ASSUME EachOnce, \A e \in Events : Fewer(e),
         bus' = bus \/ bus' = <<>>, \A s \in Sids : queue'[s] = queue[s] \/ queue'[s] = <<>>
  PROVE  EachOnce'
<1>1. \A e \in Events : EventOnce(e)'
  BY FewerKeeps DEF EachOnce
<1>2. NoRepeats(bus') /\ \A s \in Sids : NoRepeats(queue'[s])
  BY NothingInEmpty DEF EachOnce
<1> QED
  BY <1>1, <1>2 DEF EachOnce

LEMMA PublishOnce ==
  ASSUME IInv, EachOnce, NEW e \in Events, Publish(e), done' = done PROVE EachOnce'
<1>1. bus \in Seq(Events)
  BY DEF IInv, TypeOK, BusTypeOK
<1>2. e \in pending /\ pending' = pending \ {e} /\ UNCHANGED <<tevt, queue, spc, cur>>
  BY DEF Publish
<1>3. CASE bus' = bus
  BY <1>2, <1>3, EachOnceKept DEF Fewer, Holds
<1>4. CASE bus' = Append(bus, e)
  <2>1. ~InMemory(e) /\ e \notin done
    BY <1>2 DEF EachOnce, EventOnce
  <2>2. /\ \A f : InSequence(f, bus') <=> InSequence(f, bus) \/ f = e
        /\ NoRepeats(bus')
    BY <1>1, <1>4, <2>1, InAppend DEF EachOnce, InMemory
  <2>3. \A f \in Events \ {e} : EventOnce(f)'
    BY <1>2, <2>2, FewerKeeps DEF Fewer, Holds, EachOnce
  <2>4. EventOnce(e)'
    BY <1>2, <2>1 DEF EventOnce, OnePlace, InMemory, Holds
  <2> QED
    BY <1>2, <2>2, <2>3, <2>4 DEF EachOnce
<1> QED
  BY <1>3, <1>4 DEF Publish

LEMMA LookupOnce ==
  ASSUME IInv, DInv, NEW t \in Threads, NEW e \in Events, Lookup(t, e), done' = done PROVE EachOnce'
<1>1. bus \in Seq(Events) /\ ThreadTypeOK /\ EachOnce
  BY DEF IInv, TypeOK, BusTypeOK, DInv
<1>2. /\ tevt'[t] = e /\ UNCHANGED <<queue, spc, cur>>
      /\ \A u \in Threads \ {t} : tevt'[u] = tevt[u]
  BY <1>1 DEF Lookup, ThreadTypeOK
<1>3. CASE bus # <<>> /\ e = Head(bus) /\ bus' = Tail(bus) /\ pending' = pending
  <2>1. /\ InSequence(e, bus) /\ NoRepeats(bus')
        /\ \A f : InSequence(f, bus') <=> InSequence(f, bus) /\ f # e
    BY <1>1, <1>3, InTail DEF EachOnce
  <2>2. \A f \in Events \ {e} : EventOnce(f)'
    BY <1>1, <1>2, <1>3, <2>1, FewerKeeps DEF Fewer, Holds, EachOnce
  <2>3. EventOnce(e)'
    BY <1>1, <1>2, <1>3, <2>1 DEF EachOnce, EventOnce, OnePlace, InMemory, Holds
  <2> QED
    BY <1>1, <1>2, <2>1, <2>2, <2>3 DEF EachOnce
<1>4. CASE e \in pending /\ pending' = pending \ {e} /\ bus' = bus
  <2>1. ~InMemory(e) /\ e \notin done
    BY <1>1, <1>4 DEF EachOnce, EventOnce
  <2>2. \A f \in Events \ {e} : EventOnce(f)'
    BY <1>1, <1>2, <1>4, FewerKeeps DEF Fewer, Holds, EachOnce
  <2>3. EventOnce(e)'
    BY <1>2, <1>4, <2>1 DEF EventOnce, OnePlace, InMemory, Holds
  <2> QED
    BY <1>1, <1>2, <1>4, <2>2, <2>3 DEF EachOnce
<1> QED
  BY <1>3, <1>4 DEF Lookup, Obtain

LEMMA SendOnce ==
  ASSUME IInv, DInv, NEW t \in Threads, Send(t), done' = done PROVE EachOnce'
<1>1. queue \in [Sids -> Seq(Events)] /\ ThreadTypeOK /\ EachOnce
  BY DEF IInv, TypeOK, QueueTypeOK, DInv
<1>2. PICK s \in Sids, e \in Events : s = tsid[t] /\ e = tevt[t]
  BY InHand DEF Send
<1>3. /\ queue' = [queue EXCEPT ![s] = Append(queue[s], e)] /\ tevt'[t] = None
      /\ UNCHANGED <<pending, bus, spc, cur>>
      /\ \A u \in Threads \ {t} : tevt'[u] = tevt[u]
  BY <1>1, <1>2 DEF Send, Handled, ThreadTypeOK
<1>4. e # None
  BY SessionManagerAssumption
<1>5. ~InSequence(e, queue[s])
  BY <1>1, <1>2 DEF EachOnce, EventOnce, OnePlace
<1>6. /\ \A f : InSequence(f, queue'[s]) <=> InSequence(f, queue[s]) \/ f = e
      /\ NoRepeats(queue'[s])
      /\ \A r \in Sids \ {s} : queue'[r] = queue[r]
  BY <1>1, <1>3, <1>5, InAppend DEF EachOnce
<1>7. \A f \in Events \ {e} : EventOnce(f)'
  <2> SUFFICES ASSUME NEW f \in Events \ {e} PROVE Fewer(f)
    BY <1>1, FewerKeeps DEF EachOnce
  <2>1. f # None
    BY SessionManagerAssumption
  <2> QED
    BY <1>3, <1>6, <2>1 DEF Fewer, Holds
<1>8. EventOnce(e)'
  <2>1. EventOnce(e)
    BY <1>1 DEF EachOnce
  <2>2. \A u \in Threads : tevt'[u] # e
    BY <1>2, <1>3, <1>4, <2>1 DEF EventOnce, OnePlace
  <2>3. InMemory(e) /\ ~InSequence(e, bus) /\ \A r \in Sids : ~InSequence(e, queue[r]) /\ ~Holds(r, e)
    BY <1>2, <2>1 DEF EventOnce, OnePlace, InMemory
  <2>4. OnePlace(e)'
    BY <1>3, <1>6, <2>2, <2>3 DEF OnePlace, Holds
  <2> QED
    BY <1>3, <2>1, <2>3, <2>4 DEF EventOnce
<1> QED
  BY <1>1, <1>3, <1>6, <1>7, <1>8 DEF EachOnce

LEMMA TakeOnce ==
  ASSUME IInv, DInv, NEW s \in Sids, Take(s), done' = done PROVE EachOnce'
<1>1. queue \in [Sids -> Seq(Events)] /\ SessionTypeOK /\ EachOnce
  BY DEF IInv, TypeOK, QueueTypeOK, DInv
<1>2. queue[s] # <<>>
  BY DEF Take
<1>3. PICK e \in Events : e = Head(queue[s])
  BY <1>1, <1>2, InTail DEF EachOnce
<1>4. /\ InSequence(e, queue[s]) /\ NoRepeats(Tail(queue[s]))
      /\ \A f : InSequence(f, Tail(queue[s])) <=> InSequence(f, queue[s]) /\ f # e
  BY <1>1, <1>2, <1>3, InTail DEF EachOnce
<1>5. /\ queue' = [queue EXCEPT ![s] = Tail(queue[s])] /\ spc' = [spc EXCEPT ![s] = "taken"]
      /\ cur' = [cur EXCEPT ![s] = e] /\ UNCHANGED <<pending, bus, tevt>>
  BY <1>3 DEF Take
<1>6. /\ queue'[s] = Tail(queue[s]) /\ \A r \in Sids \ {s} : queue'[r] = queue[r]
      /\ \A f : Holds(s, f)' <=> f = e
      /\ \A r \in Sids \ {s} : \A f : Holds(r, f)' <=> Holds(r, f)
  BY <1>1, <1>5 DEF Holds, SessionTypeOK
<1>7. \A f \in Events \ {e} : EventOnce(f)'
  BY <1>1, <1>4, <1>5, <1>6, FewerKeeps DEF EachOnce, Fewer
<1>8. EventOnce(e)'
  <2>1. EventOnce(e)
    BY <1>1 DEF EachOnce
  <2>2. /\ InMemory(e) /\ ~InSequence(e, bus) /\ \A u \in Threads : tevt[u] # e
        /\ \A r \in Sids : ~Holds(r, e) /\ (InSequence(e, queue[r]) => r = s)
    BY <1>4, <2>1 DEF EventOnce, OnePlace, InMemory
  <2>3. \A r \in Sids : ~InSequence(e, queue'[r])
    BY <1>4, <1>6, <2>2
  <2>4. OnePlace(e)'
    BY <1>5, <1>6, <2>2, <2>3 DEF OnePlace
  <2> QED
    BY <1>5, <2>1, <2>2, <2>4 DEF EventOnce
<1> QED
  BY <1>1, <1>4, <1>5, <1>6, <1>7, <1>8 DEF EachOnce

(* A turn ends, live or not. *)
LEMMA TurnEndOnce ==
  ASSUME IInv, DInv, NEW s \in Sids, TurnSucceeds(s) \/ TurnBlocked(s) \/ TurnFails(s),
         done' = done \/ done' = done \cup {cur[s]}
  PROVE  EachOnce'
<1>1. SessionTypeOK /\ EachOnce
  BY DEF IInv, TypeOK, DInv
<1>2. /\ spc[s] = "working" /\ spc'[s] \notin {"taken", "working"}
      /\ \A r \in Sids \ {s} : spc'[r] = spc[r]
      /\ UNCHANGED <<pending, bus, tevt, queue, cur>>
  BY <1>1 DEF TurnSucceeds, TurnBlocked, TurnFails, EndTurn, SessionTypeOK
<1>3. \A f : ~Holds(s, f)' /\ \A r \in Sids \ {s} : Holds(r, f)' <=> Holds(r, f)
  BY <1>2 DEF Holds
<1>4. CASE done' = done
  BY <1>1, <1>2, <1>3, <1>4, EachOnceKept DEF Fewer
<1>5. CASE done' = done \cup {cur[s]}
  <2>1. PICK e \in Events : e = cur[s] /\ Holds(s, e)
    BY <1>2 DEF DInv, HandsOK, Holds
  <2>2. \A f \in Events \ {e} : EventOnce(f)'
    BY <1>1, <1>2, <1>3, <1>5, <2>1, FewerKeeps DEF EachOnce, Fewer
  <2>3. EventOnce(e)
    BY <1>1 DEF EachOnce
  <2>4. ~InMemory(e)'
    BY <1>2, <1>3, <2>1, <2>3 DEF EventOnce, OnePlace, InMemory
  <2>5. e \notin pending'
    BY <1>2, <2>1, <2>3 DEF EventOnce, InMemory
  <2>6. OnePlace(e)'
    BY <2>4 DEF OnePlace, InMemory
  <2> QED
    BY <1>1, <1>2, <2>2, <2>4, <2>5, <2>6 DEF EachOnce, EventOnce
<1> QED
  BY <1>4, <1>5

LEMMA EachOnceStep == ASSUME IInv, DInv, DeliveryNext PROVE EachOnce'
<1>1. /\ bus \in Seq(Events) /\ queue \in [Sids -> Seq(Events)] /\ ThreadTypeOK /\ SessionTypeOK
      /\ EachOnce /\ Next
  BY DEF IInv, TypeOK, BusTypeOK, QueueTypeOK, DInv, DeliveryNext
<1>2. \A e \in Events : e # None
  BY SessionManagerAssumption
<1>3. CASE \E s \in Sids : TurnSucceeds(s) \/ TurnBlocked(s) \/ TurnFails(s)
  <2>1. PICK s \in Sids : TurnSucceeds(s) \/ TurnBlocked(s) \/ TurnFails(s)
    BY <1>3
  <2>2. \A r \in Sids : TurnEnds(r) => r = s
    <3> SUFFICES ASSUME NEW r \in Sids, TurnEnds(r) PROVE r = s
      OBVIOUS
    <3>1. TurnSucceeds(r) \/ TurnBlocked(r) \/ TurnFails(r)
      BY <1>1, TurnsOfOthers
    <3>2. spc[r] = "working" /\ spc'[r] # "working"
      BY DEF TurnEnds
    <3> QED
      BY <1>1, <2>1, <3>2 DEF TurnSucceeds, TurnBlocked, TurnFails, EndTurn, SessionTypeOK
  <2>3. done' = done \/ done' = done \cup {cur[s]}
    BY <2>2, DoneGrows
  <2> QED
    BY <2>1, <2>3, TurnEndOnce
<1>4. CASE ~\E s \in Sids : TurnSucceeds(s) \/ TurnBlocked(s) \/ TurnFails(s)
  <2>0. done' = done
    BY <1>1, <1>4, DoneGrows, TurnsOfOthers
  <2>1. ASSUME UNCHANGED <<pending, bus, tevt, queue, spc, cur>> PROVE EachOnce'
    BY <1>1, <2>0, <2>1, EachOnceKept DEF Fewer, Holds
  <2>2. ASSUME UNCHANGED <<pending, tevt, queue, spc, cur>>, bus' = <<>> PROVE EachOnce'
    BY <1>1, <2>0, <2>2, EachOnceKept, NothingInEmpty DEF Fewer, Holds
  <2>3. CASE Subscribe \/ RunReturns
    BY <2>2, <2>3 DEF Subscribe, RunReturns
  <2>4. ASSUME NEW e \in Events, Publish(e) PROVE EachOnce'
    BY <1>1, <2>0, <2>4, PublishOnce
  <2>5. ASSUME NEW t \in Threads, Dispatch(t) PROVE EachOnce'
    <3>1. ASSUME NEW e \in Events, Consume(t, e) PROVE EachOnce'
      <4>1. UNCHANGED <<tevt, queue, spc, cur>> /\ pending' \subseteq pending
        BY <3>1 DEF Consume, Obtain
      <4>2. CASE bus' = bus
        BY <1>1, <2>0, <4>1, <4>2, EachOnceKept DEF Fewer, Holds
      <4>3. CASE bus # <<>> /\ bus' = Tail(bus)
        <5>1. NoRepeats(bus') /\ \A f : InSequence(f, bus') => InSequence(f, bus)
          BY <1>1, <4>3, InTail DEF EachOnce
        <5>2. \A f \in Events : EventOnce(f)'
          BY <1>1, <2>0, <4>1, <5>1, FewerKeeps DEF EachOnce, Fewer, Holds
        <5> QED
          BY <1>1, <4>1, <5>1, <5>2 DEF EachOnce
      <4> QED
        BY <3>1, <4>2, <4>3 DEF Consume, Obtain
    <3>2. ASSUME NEW e \in Events, Lookup(t, e) PROVE EachOnce'
      BY <2>0, <3>2, LookupOnce
    <3>3. ASSUME NEW s \in Sids, CreateWithRoom(t, s) \/ EvictAndCreate(t, s) PROVE EachOnce'
      <4>1. /\ UNCHANGED <<pending, bus, tevt>> /\ queue' = [queue EXCEPT ![s] = <<>>]
            /\ spc' = [spc EXCEPT ![s] = "starting"] /\ cur' = [cur EXCEPT ![s] = None]
        BY <3>3 DEF CreateWithRoom, EvictAndCreate, Open, CreateRow
      <4>2. \A r \in Sids : /\ queue'[r] = queue[r] \/ queue'[r] = <<>>
                            /\ \A f : Holds(r, f)' => Holds(r, f)
        BY <1>1, <4>1 DEF Holds, SessionTypeOK
      <4>3. \A f \in Events : Fewer(f)
        BY <2>0, <4>1, <4>2, NothingInEmpty DEF Fewer
      <4> QED
        BY <1>1, <4>1, <4>2, <4>3, EachOnceKept
    <3>4. CASE Refuse(t) \/ EvictAndFail(t) \/ SendTimeout(t)
      <4>1. UNCHANGED <<pending, bus, queue, spc, cur>> /\ tevt' = [tevt EXCEPT ![t] = None]
        BY <3>4 DEF Refuse, EvictAndFail, SendTimeout, Handled
      <4>2. \A f \in Events : Fewer(f)
        BY <1>1, <1>2, <2>0, <4>1 DEF Fewer, Holds, ThreadTypeOK
      <4> QED
        BY <1>1, <4>1, <4>2, EachOnceKept
    <3>5. CASE Send(t)
      BY <2>0, <3>5, SendOnce
    <3>6. CASE FoundOnRecheck(t) \/ Block(t) \/ \E k \in Keys : PickVictim(t, k)
      BY <2>1, <3>6 DEF FoundOnRecheck, Block, PickVictim
    <3> QED
      BY <2>5, <3>1, <3>2, <3>3, <3>4, <3>5, <3>6 DEF Dispatch
  <2>6. ASSUME NEW s \in Sids, Session(s) PROVE EachOnce'
    <3>1. CASE Take(s)
      BY <2>0, <3>1, TakeOnce
    <3>2. CASE Start(s) \/ Begin(s) \/ Settle(s) \/ Exit(s) \/ Deadline(s)
      <4>1. UNCHANGED <<pending, bus, tevt, queue>>
        BY <3>2 DEF Start, Begin, Settle, Exit, Deadline
      <4>2. \A r \in Sids, f \in Events : Holds(r, f)' => Holds(r, f)
        BY <1>1, <3>2 DEF Start, Begin, Settle, Exit, Deadline, Holds, SessionTypeOK
      <4> QED
        BY <1>1, <2>0, <4>1, <4>2, EachOnceKept DEF Fewer
    <3> QED
      BY <1>4, <2>6, <3>1, <3>2 DEF Session
  <2>7. CASE DrainReturns \/ Crash
    <3>1. /\ bus' = <<>> /\ pending' = pending /\ tevt' = [t \in Threads |-> None]
          /\ queue' = [s \in Sids |-> <<>>] /\ spc' = [s \in Sids |-> "unused"]
      BY <2>7 DEF DrainReturns, Crash, Die
    <3>2. \A f \in Events : Fewer(f)
      BY <1>2, <2>0, <3>1, NothingInEmpty DEF Fewer, Holds
    <3> QED
      BY <1>1, <3>1, <3>2, EachOnceKept
  <2>8. CASE Restart
    <3>1. UNCHANGED <<pending, bus, tevt, queue, cur>> /\ \A s \in Sids : spc'[s] \in {"starting", "unused"}
      BY <2>8 DEF Restart
    <3>2. \A f \in Events : Fewer(f)
      BY <2>0, <3>1 DEF Fewer, Holds
    <3> QED
      BY <1>1, <3>1, <3>2, EachOnceKept
  <2>9. CASE Signal \/ RunShutsDown \/ DrainForces \/ StayDown
    BY <2>1, <2>9 DEF Signal, RunShutsDown, DrainForces, ShutdownAll, StayDown
  <2> QED
    BY <1>1, <2>1, <2>3, <2>4, <2>5, <2>6, <2>7, <2>8, <2>9, TickersFrame DEF Next, Process
<1> QED
  BY <1>3, <1>4

LEMMA DInvInit == ASSUME DeliveryInit PROVE DInv
<1>1. /\ bus = <<>> /\ done = {} /\ proc = "up" /\ pending = Events
      /\ tpc = [t \in Threads |-> IF t = Run THEN "boot" ELSE "loop"] /\ tevt = [t \in Threads |-> None]
      /\ queue = [s \in Sids |-> <<>>] /\ spc = [s \in Sids |-> "unused"]
  BY DEF DeliveryInit, Init
<1>2. \A e \in Events : ~InMemory(e)
  BY <1>1, NothingInEmpty, SessionManagerAssumption DEF InMemory, Holds
<1>3. EachOnce
  BY <1>1, <1>2, NothingInEmpty DEF EachOnce, EventOnce, OnePlace, InMemory
<1>4. HandsOK /\ OwnKey /\ DownEmpty
  BY <1>1, NothingInEmpty DEF HandsOK, OwnKey, DownEmpty, Running, Holds
<1> QED
  BY <1>3, <1>4 DEF DInv

LEMMA DInvStep == ASSUME IInv, DInv, [DeliveryNext]_deliveryVars PROVE DInv'
<1>1. CASE DeliveryNext
  BY <1>1, EachOnceStep, HandsStep, OwnKeyStep, DownEmptyStep DEF DInv, DeliveryNext
<1>2. CASE UNCHANGED deliveryVars
  <2>1. EachOnce'
    BY <1>2, EachOnceKept DEF deliveryVars, DInv, Fewer, Holds
  <2> QED
    BY <1>2, <2>1, HandsStep, OwnKeyStep, DownEmptyStep DEF deliveryVars, DInv
<1> QED
  BY <1>1, <1>2

-----------------------------------------------------------------------------
(* The status of an event, read off the place it is in. *)

StatusReads ==
  \A e \in Events :
    /\ e \in pending => EventStatus(e) = "new"
    /\ InTurn(e) => EventStatus(e) = "turn"
    /\ e \in done => EventStatus(e) = "done"
    /\ InTransit(e) => EventStatus(e) = "accepted"
    /\ EventStatus(e) # "lost" => e \in pending \/ InTurn(e) \/ e \in done \/ InTransit(e)
    /\ EventStatus(e) \in {"new", "accepted", "turn", "done", "lost"}

LEMMA StatusRead == DInv => StatusReads
<1> SUFFICES ASSUME DInv, NEW e \in Events
             PROVE  /\ e \in pending => EventStatus(e) = "new"
                    /\ InTurn(e) => EventStatus(e) = "turn"
                    /\ e \in done => EventStatus(e) = "done"
                    /\ InTransit(e) => EventStatus(e) = "accepted"
                    /\ EventStatus(e) # "lost" => e \in pending \/ InTurn(e) \/ e \in done \/ InTransit(e)
                    /\ EventStatus(e) \in {"new", "accepted", "turn", "done", "lost"}
  BY DEF StatusReads
<1>1. EventOnce(e)
  BY DEF DInv, EachOnce
<1>2. InTurn(e) => InMemory(e) /\ \E s \in Sids : Holds(s, e) /\ spc[s] = "working"
  BY DEF InTurn, InMemory, Holds
<1>3. InTransit(e) => InMemory(e)
  BY DEF InTransit, InMemory, Holds
<1>4. ~(InTurn(e) /\ InTransit(e))
  <2> SUFFICES ASSUME NEW s \in Sids, Holds(s, e), spc[s] = "working", InTransit(e) PROVE FALSE
    BY <1>2
  <2>1. PICK r \in Sids : spc[r] = "taken" /\ Holds(r, e)
    BY <1>1 DEF EventOnce, OnePlace, InTransit, Holds
  <2>2. r = s
    BY <1>1, <2>1 DEF EventOnce, OnePlace
  <2> QED
    BY <2>1, <2>2
<1>5. e \in pending => e \notin done /\ ~InTurn(e) /\ ~InTransit(e)
  BY <1>1, <1>2, <1>3 DEF EventOnce
<1>6. e \in done => ~InTurn(e) /\ ~InTransit(e)
  BY <1>1, <1>2, <1>3 DEF EventOnce
<1>7. CASE e \in pending
  BY <1>5, <1>7 DEF EventStatus
<1>8. CASE InTurn(e)
  BY <1>4, <1>5, <1>6, <1>8 DEF EventStatus
<1>9. CASE e \in done
  BY <1>5, <1>6, <1>9 DEF EventStatus
<1>10. CASE InTransit(e)
  BY <1>4, <1>5, <1>6, <1>10 DEF EventStatus
<1>11. CASE ~(e \in pending \/ InTurn(e) \/ e \in done \/ InTransit(e))
  BY <1>11 DEF EventStatus
<1> QED
  BY <1>7, <1>8, <1>9, <1>10, <1>11

LEMMA StatusReadNext == DInv' => StatusReads'
BY StatusRead, PTL

(* A step in which no event gains anything is a loss, or a stutter. *)
LEMMA LossOnly ==
  ASSUME DInv, DInv', done' = done, pending' \subseteq pending,
         \A e \in Events : (InTransit(e)' => InTransit(e)) /\ (InTurn(e)' => InTurn(e))
  PROVE  Mailbox!Next
<1>1. StatusReads /\ StatusReads'
  BY StatusRead, StatusReadNext
<1>2. \A e \in Events : \/ EventStatus(e)' = EventStatus(e)
                        \/ EventStatus(e) \in {"new", "accepted", "turn"} /\ EventStatus(e)' = "lost"
  BY <1>1 DEF StatusReads
<1> DEFINE S == {e \in Events : EventStatus(e)' # EventStatus(e)}
<1>3. \A e \in S : EventStatus(e) \in {"new", "accepted", "turn"}
  BY <1>2
<1>4. [e \in Events |-> EventStatus(e)]' = [e \in Events |-> IF e \in S THEN "lost" ELSE EventStatus(e)]
  BY <1>2
<1>5. Mailbox!Lose(S)
  BY <1>3, <1>4 DEF Mailbox!Lose
<1> QED
  BY <1>5 DEF Mailbox!Next

(* A step in which nothing moves on: hands are emptied, sequences shrink,  *)
(* sessions and contexts end.                                              *)
NoMoves ==
  /\ pending' \subseteq pending
  /\ \A e \in Events : InSequence(e, bus') => InSequence(e, bus)
  /\ \A t \in Threads : tevt'[t] = tevt[t] \/ tevt'[t] = None
  /\ \A s \in Sids : Alive(s)' /\ Live(s)' =>
       /\ (queue'[s] = queue[s] /\ Alive(s) /\ Live(s)) \/ (queue'[s] = <<>> /\ spc'[s] = "starting")
       /\ spc'[s] \in {"taken", "working"} => spc'[s] = spc[s] /\ cur'[s] = cur[s]

LEMMA NoMovesLose == ASSUME DInv, DInv', done' = done, NoMoves PROVE Mailbox!Next
<1> SUFFICES ASSUME NEW e \in Events
             PROVE  (InTransit(e)' => InTransit(e)) /\ (InTurn(e)' => InTurn(e))
  BY LossOnly DEF NoMoves
<1>1. e # None
  BY SessionManagerAssumption
<1>2. InTurn(e)' => InTurn(e)
  <2> SUFFICES ASSUME NEW s \in Sids, spc'[s] = "working", Live(s)', cur'[s] = e
               PROVE  InTurn(e)
    BY DEF InTurn
  <2>1. Alive(s)'
    BY DEF Alive
  <2>2. spc[s] = "working" /\ cur[s] = e /\ Live(s)
    BY <2>1 DEF NoMoves
  <2> QED
    BY <2>2 DEF InTurn
<1>3. InTransit(e)' => InTransit(e)
  <2>1. CASE InSequence(e, bus')
    BY <2>1 DEF NoMoves, InTransit
  <2>2. CASE \E t \in Threads : tevt'[t] = e
    BY <1>1, <2>2 DEF NoMoves, InTransit
  <2>3. ASSUME NEW s \in Sids, Alive(s)', Live(s)',
               InSequence(e, queue'[s]) \/ (spc'[s] = "taken" /\ cur'[s] = e)
        PROVE  InTransit(e)
    <3>1. Alive(s) /\ Live(s) /\ queue'[s] = queue[s]
      BY <2>3, NothingInEmpty DEF NoMoves
    <3> QED
      BY <2>3, <3>1 DEF NoMoves, InTransit
  <2> QED
    BY <2>1, <2>2, <2>3 DEF InTransit
<1> QED
  BY <1>2, <1>3

(* A step that changes the status of one event. *)
Same(e) ==
  /\ e \in pending' <=> e \in pending
  /\ e \in done' <=> e \in done
  /\ InTurn(e)' <=> InTurn(e)
  /\ InTransit(e)' <=> InTransit(e)

LEMMA OneMoves ==
  ASSUME DInv, DInv', NEW e \in Events, \A f \in Events \ {e} : Same(f)
  PROVE  /\ \A f \in Events \ {e} : EventStatus(f)' = EventStatus(f)
         /\ [f \in Events |-> EventStatus(f)]' =
              [[f \in Events |-> EventStatus(f)] EXCEPT ![e] = EventStatus(e)']
<1>1. StatusReads /\ StatusReads'
  BY StatusRead, StatusReadNext
<1>2. \A f \in Events \ {e} : EventStatus(f)' = EventStatus(f)
  BY <1>1 DEF StatusReads, Same
<1> QED
  BY <1>2

LEMMA Accepts ==
  ASSUME DInv, DInv', NEW e \in Events, \A f \in Events \ {e} : Same(f), e \in pending, InTransit(e)'
  PROVE  Mailbox!Next
<1>1. EventStatus(e) = "new" /\ EventStatus(e)' = "accepted"
  BY StatusRead, StatusReadNext DEF StatusReads
<1>2. Mailbox!Accept(e)
  BY <1>1, OneMoves DEF Mailbox!Accept
<1> QED
  BY <1>2 DEF Mailbox!Next

LEMMA PublishImplements ==
  ASSUME IInv, DInv, DInv', NEW e \in Events, Publish(e), done' = done PROVE Mailbox!Next
<1>1. e \in pending /\ pending' = pending \ {e} /\ UNCHANGED <<tevt, queue, spc, cur, ctx>>
      /\ bus \in Seq(Events)
  BY DEF Publish, IInv, TypeOK, BusTypeOK
<1>2. CASE bus' = bus
  BY <1>1, <1>2, NoMovesLose DEF NoMoves, Alive, Live
<1>3. CASE bus' = Append(bus, e)
  <2>1. \A f : InSequence(f, bus') <=> InSequence(f, bus) \/ f = e
    BY <1>1, <1>3, InAppend
  <2>2. InTransit(e)'
    BY <2>1 DEF InTransit
  <2>3. ASSUME NEW f \in Events \ {e} PROVE Same(f)
    <3>1. InTurn(f)' <=> InTurn(f)
      BY <1>1 DEF InTurn, Live
    <3>2. InTransit(f)' <=> InTransit(f)
      BY <1>1, <2>1 DEF InTransit, Alive, Live
    <3> QED
      BY <1>1, <3>1, <3>2 DEF Same
  <2> QED
    BY <1>1, <2>2, <2>3, Accepts
<1> QED
  BY <1>2, <1>3 DEF Publish

LEMMA LookupImplements ==
  ASSUME IInv, DInv, DInv', NEW t \in Threads, NEW e \in Events, Lookup(t, e), done' = done
  PROVE  Mailbox!Next
<1>1. ThreadTypeOK /\ bus \in Seq(Events) /\ NoRepeats(bus)
  BY DEF IInv, TypeOK, BusTypeOK, DInv, EachOnce
<1>2. /\ tpc[t] = "loop" /\ tevt'[t] = e /\ UNCHANGED <<queue, spc, cur, ctx>>
      /\ \A u \in Threads \ {t} : tevt'[u] = tevt[u]
  BY <1>1 DEF Lookup, Obtain, ThreadTypeOK
<1>3. tevt[t] = None /\ \A f \in Events : f # None
  BY <1>2, SessionManagerAssumption DEF DInv, HandsOK
<1>4. \A f \in Events : InTurn(f)' <=> InTurn(f)
  BY <1>2 DEF InTurn, Live
<1>5. CASE bus # <<>> /\ e = Head(bus) /\ bus' = Tail(bus) /\ pending' = pending
  <2>1. InSequence(e, bus) /\ \A f : InSequence(f, bus') => InSequence(f, bus)
    BY <1>1, <1>5, InTail
  <2>2. ASSUME NEW f \in Events, InTransit(f)' PROVE InTransit(f)
    <3>1. CASE \E u \in Threads : tevt'[u] = f
      BY <1>2, <2>1, <3>1 DEF InTransit
    <3>2. CASE ~\E u \in Threads : tevt'[u] = f
      BY <1>2, <2>1, <2>2, <3>2 DEF InTransit, Alive, Live
    <3> QED
      BY <3>1, <3>2
  <2> QED
    BY <1>4, <1>5, <2>2, LossOnly
<1>6. CASE e \in pending /\ pending' = pending \ {e} /\ bus' = bus
  <2>1. InTransit(e)'
    BY <1>2 DEF InTransit
  <2>2. ASSUME NEW f \in Events \ {e} PROVE Same(f)
    <3>1. \A u \in Threads : tevt'[u] = f <=> tevt[u] = f
      BY <1>2, <1>3
    <3>2. InTransit(f)' <=> InTransit(f)
      BY <1>2, <1>6, <3>1 DEF InTransit, Alive, Live
    <3> QED
      BY <1>4, <1>6, <3>2 DEF Same
  <2> QED
    BY <1>6, <2>1, <2>2, Accepts
<1> QED
  BY <1>5, <1>6 DEF Lookup, Obtain

LEMMA SendImplements ==
  ASSUME IInv, DInv, DInv', NEW t \in Threads, Send(t), done' = done PROVE Mailbox!Next
<1>1. queue \in [Sids -> Seq(Events)] /\ ThreadTypeOK
  BY DEF IInv, TypeOK, QueueTypeOK
<1>2. PICK s \in Sids, e \in Events : s = tsid[t] /\ e = tevt[t]
  BY InHand DEF Send
<1>3. /\ queue' = [queue EXCEPT ![s] = Append(queue[s], e)] /\ tevt'[t] = None
      /\ UNCHANGED <<pending, bus, spc, cur, ctx>>
      /\ \A u \in Threads \ {t} : tevt'[u] = tevt[u]
  BY <1>1, <1>2 DEF Send, Handled, ThreadTypeOK
<1>4. /\ \A f : InSequence(f, queue'[s]) <=> InSequence(f, queue[s]) \/ f = e
      /\ \A r \in Sids \ {s} : queue'[r] = queue[r]
  BY <1>1, <1>3, InAppend
<1>5. InTransit(e)
  BY <1>2 DEF InTransit
<1>6. ASSUME NEW f \in Events, InTransit(f)' PROVE InTransit(f)
  <2>1. f # None
    BY SessionManagerAssumption
  <2>2. CASE f = e
    BY <1>5, <2>2
  <2>3. CASE f # e
    BY <1>3, <1>4, <1>6, <2>1, <2>3 DEF InTransit, Alive, Live
  <2> QED
    BY <2>2, <2>3
<1>7. \A f \in Events : InTurn(f)' => InTurn(f)
  BY <1>3 DEF InTurn, Live
<1> QED
  BY <1>3, <1>6, <1>7, LossOnly

LEMMA TakeImplements ==
  ASSUME IInv, DInv, DInv', NEW s \in Sids, Take(s), done' = done PROVE Mailbox!Next
<1>1. queue \in [Sids -> Seq(Events)] /\ SessionTypeOK /\ queue[s] # <<>> /\ NoRepeats(queue[s])
  BY DEF IInv, TypeOK, QueueTypeOK, DInv, EachOnce, Take
<1>2. PICK e \in Events : e = Head(queue[s])
  BY <1>1, InTail
<1>3. /\ InSequence(e, queue[s])
      /\ \A f : InSequence(f, Tail(queue[s])) => InSequence(f, queue[s])
  BY <1>1, <1>2, InTail
<1>4. /\ queue' = [queue EXCEPT ![s] = Tail(queue[s])] /\ spc' = [spc EXCEPT ![s] = "taken"]
      /\ cur' = [cur EXCEPT ![s] = e] /\ spc[s] = "idle" /\ UNCHANGED <<pending, bus, tevt, ctx>>
  BY <1>2 DEF Take
<1>5. \A r \in Sids : /\ Alive(r)' => Alive(r)
                      /\ \A f : InSequence(f, queue'[r]) => InSequence(f, queue[r])
                      /\ spc'[r] = "working" => spc[r] = "working" /\ cur'[r] = cur[r]
                      /\ spc'[r] = "taken" => InSequence(cur'[r], queue[r])
                                              \/ (spc[r] = "taken" /\ cur'[r] = cur[r])
  BY <1>1, <1>3, <1>4 DEF Alive, SessionTypeOK
<1>6. \A f \in Events : InTurn(f)' => InTurn(f)
  BY <1>4, <1>5 DEF InTurn, Live
<1>7. \A f \in Events : InTransit(f)' => InTransit(f)
  BY <1>4, <1>5 DEF InTransit, Live
<1> QED
  BY <1>4, <1>6, <1>7, LossOnly

(* The one place where keys matter: NoOrphan leaves no second session of   *)
(* the key that could be in a turn with a live context.                    *)
LEMMA BeginImplements ==
  ASSUME IInv, DInv, DInv', NEW s \in Sids, Begin(s), done' = done PROVE Mailbox!Next
<1>1. SessionTypeOK /\ NoOrphan /\ OwnKey
  BY DEF IInv, TypeOK, DInv
<1>2. /\ spc[s] = "taken" /\ spc' = [spc EXCEPT ![s] = "working"]
      /\ UNCHANGED <<pending, bus, tevt, queue, cur, ctx>>
  BY DEF Begin
<1>3. \A r \in Sids \ {s} : spc'[r] = spc[r]
  BY <1>2
<1>4. spc'[s] = "working"
  BY <1>1, <1>2 DEF SessionTypeOK
<1>5. CASE ~Live(s)
  BY <1>2, <1>3, <1>4, <1>5, NoMovesLose DEF NoMoves, Alive, Live
<1>6. CASE Live(s)
  <2>1. PICK e \in Events : e = cur[s] /\ Holds(s, e)
    BY <1>2 DEF DInv, HandsOK, Holds
  <2>2. InTransit(e) /\ InTurn(e)'
    BY <1>2, <1>4, <1>6, <2>1 DEF InTransit, InTurn, Alive, Live
  <2>3. EventStatus(e) = "accepted" /\ EventStatus(e)' = "turn"
    BY <2>2, StatusRead, StatusReadNext DEF StatusReads
  <2>4. ASSUME NEW f \in Events \ {e} PROVE Same(f)
    <3>1. cur[s] # f
      BY <2>1
    <3>2. InTurn(f)' <=> InTurn(f)
      BY <1>2, <1>3, <3>1 DEF InTurn, Live
    <3>3. \A r \in Sids : /\ Alive(r)' <=> Alive(r)
                          /\ spc'[r] = "taken" /\ cur'[r] = f <=> spc[r] = "taken" /\ cur[r] = f
      BY <1>2, <1>3, <1>4, <3>1 DEF Alive
    <3>4. InTransit(f)' <=> InTransit(f)
      BY <1>2, <3>3 DEF InTransit, Live
    <3> QED
      BY <1>2, <3>2, <3>4 DEF Same
  <2>5. ASSUME NEW f \in Events, EventKey[f] = EventKey[e], InTurn(f) PROVE FALSE
    <3>1. PICK r \in Sids : spc[r] = "working" /\ Live(r) /\ cur[r] = f
      BY <2>5 DEF InTurn
    <3>2. skey[r] = EventKey[f] /\ skey[s] = EventKey[e]
      BY <1>1, <2>1, <3>1 DEF OwnKey, Holds
    <3>3. Alive(r) /\ Alive(s)
      BY <1>2, <3>1 DEF Alive
    <3>4. r = s
      BY <1>1, <1>6, <2>5, <3>1, <3>2, <3>3 DEF NoOrphan
    <3> QED
      BY <1>2, <3>1, <3>4
  <2>6. \A f \in Events : EventKey[f] = EventKey[e] => EventStatus(f) # "turn"
    <3> SUFFICES ASSUME NEW f \in Events, EventKey[f] = EventKey[e], EventStatus(f) = "turn" PROVE FALSE
      OBVIOUS
    <3> QED
      BY <2>5, StatusRead DEF StatusReads
  <2>7. Mailbox!BeginTurn(e)
    BY <2>3, <2>4, <2>6, OneMoves DEF Mailbox!BeginTurn
  <2> QED
    BY <2>7 DEF Mailbox!Next
<1> QED
  BY <1>5, <1>6

LEMMA TurnEndImplements ==
  ASSUME IInv, DInv, DInv', DeliveryNext, NEW s \in Sids, TurnSucceeds(s) \/ TurnBlocked(s) \/ TurnFails(s)
  PROVE  Mailbox!Next
<1>1. SessionTypeOK
  BY DEF IInv, TypeOK
<1>2. /\ spc[s] = "working" /\ spc'[s] \in {"completing", "blocking", "failing"}
      /\ \A r \in Sids \ {s} : spc'[r] = spc[r]
      /\ UNCHANGED <<pending, bus, tevt, queue, cur, ctx>>
  BY <1>1 DEF TurnSucceeds, TurnBlocked, TurnFails, EndTurn, SessionTypeOK
<1>3. \A r \in Sids : TurnEnds(r) <=> (r = s /\ Live(s))
  BY <1>2 DEF TurnEnds, Live
<1>4. CASE ~Live(s)
  <2>1. done' = done
    BY <1>3, <1>4, DoneGrows
  <2> QED
    BY <1>2, <1>4, <2>1, NoMovesLose DEF NoMoves, Alive, Live
<1>5. CASE Live(s)
  <2>1. done' = done \cup {cur[s]}
    BY <1>3, <1>5, DoneGrows
  <2>2. PICK e \in Events : e = cur[s]
    BY <1>2 DEF DInv, HandsOK
  <2>3. InTurn(e) /\ e \in done'
    BY <1>2, <1>5, <2>1, <2>2 DEF InTurn
  <2>4. EventStatus(e) = "turn" /\ EventStatus(e)' = "done"
    BY <2>3, StatusRead, StatusReadNext DEF StatusReads
  <2>5. ASSUME NEW f \in Events \ {e} PROVE Same(f)
    <3>1. cur[s] # f
      BY <2>2
    <3>2. InTurn(f)' <=> InTurn(f)
      BY <1>2, <3>1 DEF InTurn, Live
    <3>3. \A r \in Sids : /\ Alive(r)' <=> Alive(r)
                          /\ spc'[r] = "taken" <=> spc[r] = "taken"
      BY <1>2 DEF Alive
    <3>4. InTransit(f)' <=> InTransit(f)
      BY <1>2, <3>3 DEF InTransit, Live
    <3> QED
      BY <1>2, <2>1, <2>2, <3>2, <3>4 DEF Same
  <2>6. Mailbox!EndTurn(e)
    BY <2>4, <2>5, OneMoves DEF Mailbox!EndTurn
  <2> QED
    BY <2>6 DEF Mailbox!Next
<1> QED
  BY <1>4, <1>5

LEMMA CancelledLive == ASSUME SessionTypeOK, NEW S, NEW s \in Sids, Cancelled(S)[s] = "live" PROVE Live(s)
BY DEF Cancelled, Live, SessionTypeOK

LEMMA StepImplements ==
  ASSUME IInv, DInv, DInv', DeliveryNext PROVE Mailbox!Next \/ UNCHANGED [e \in Events |-> EventStatus(e)]
<1>1. bus \in Seq(Events) /\ SessionTypeOK /\ ThreadTypeOK /\ Next /\ NoRepeats(bus)
  BY DEF IInv, TypeOK, BusTypeOK, DInv, EachOnce, DeliveryNext
<1>2. CASE \E s \in Sids : TurnSucceeds(s) \/ TurnBlocked(s) \/ TurnFails(s)
  BY <1>2, TurnEndImplements
<1>3. CASE ~\E s \in Sids : TurnSucceeds(s) \/ TurnBlocked(s) \/ TurnFails(s)
  <2>0. done' = done
    BY <1>1, <1>3, DoneGrows, TurnsOfOthers
  <2>1. ASSUME pending' = pending, bus' = bus \/ bus' = <<>>, UNCHANGED <<tevt, queue, spc, cur, ctx>>
        PROVE  Mailbox!Next
    BY <2>0, <2>1, NoMovesLose, NothingInEmpty DEF NoMoves, Alive, Live
  <2>2. ASSUME NEW S, pending' = pending, bus' = bus, UNCHANGED <<queue, spc, cur>>, ctx' = Cancelled(S),
               \A t \in Threads : tevt'[t] = tevt[t] \/ tevt'[t] = None
        PROVE  Mailbox!Next
    <3>1. \A s \in Sids : Live(s)' => Live(s)
      BY <1>1, <2>2, CancelledLive DEF Live
    <3> QED
      BY <2>0, <2>2, <3>1, NoMovesLose DEF NoMoves, Alive
  <2>3. CASE Subscribe \/ RunReturns \/ Signal \/ StayDown
    BY <2>1, <2>3 DEF Subscribe, RunReturns, Signal, StayDown
  <2>4. ASSUME NEW e \in Events, Publish(e) PROVE Mailbox!Next
    BY <2>0, <2>4, PublishImplements
  <2>5. ASSUME NEW t \in Threads, Dispatch(t) PROVE Mailbox!Next
    <3>1. ASSUME NEW e \in Events, Consume(t, e) PROVE Mailbox!Next
      <4>1. UNCHANGED <<tevt, queue, spc, cur, ctx>> /\ pending' \subseteq pending
            /\ (bus' = bus \/ (bus # <<>> /\ bus' = Tail(bus)))
        BY <3>1 DEF Consume, Obtain
      <4>2. \A f \in Events : InSequence(f, bus') => InSequence(f, bus)
        BY <1>1, <4>1, InTail
      <4> QED
        BY <2>0, <4>1, <4>2, NoMovesLose DEF NoMoves, Alive, Live
    <3>2. ASSUME NEW e \in Events, Lookup(t, e) PROVE Mailbox!Next
      BY <2>0, <3>2, LookupImplements
    <3>3. ASSUME NEW s \in Sids, NEW K, Open(t, s, K) PROVE Mailbox!Next
      <4>1. /\ UNCHANGED <<pending, bus, tevt>> /\ queue' = [queue EXCEPT ![s] = <<>>]
            /\ spc' = [spc EXCEPT ![s] = "starting"] /\ cur' = [cur EXCEPT ![s] = None]
        BY <3>3 DEF Open, CreateRow
      <4>2. spc'[s] = "starting" /\ queue'[s] = <<>>
        BY <1>1, <4>1 DEF SessionTypeOK, IInv, TypeOK, QueueTypeOK
      <4>3. \A r \in Sids \ {s} : queue'[r] = queue[r] /\ spc'[r] = spc[r] /\ cur'[r] = cur[r]
        BY <1>1, <4>1 DEF SessionTypeOK, IInv, TypeOK, QueueTypeOK
      <4>4. \A r \in Sids \ {s} : Live(r)' => Live(r)
        BY <3>3, OpenEffect DEF Live
      <4> QED
        BY <2>0, <4>1, <4>2, <4>3, <4>4, NoMovesLose DEF NoMoves, Alive
    <3>4. CASE EvictAndFail(t)
      <4>1. /\ pending' = pending /\ bus' = bus /\ UNCHANGED <<queue, spc, cur>>
            /\ ctx' = Cancelled({tsid[t]}) /\ tevt' = [tevt EXCEPT ![t] = None]
        BY <3>4 DEF EvictAndFail
      <4> QED
        BY <1>1, <2>2, <4>1 DEF ThreadTypeOK
    <3>5. CASE Refuse(t) \/ SendTimeout(t)
      <4>1. UNCHANGED <<pending, bus, queue, spc, cur, ctx>> /\ tevt' = [tevt EXCEPT ![t] = None]
        BY <3>5 DEF Refuse, SendTimeout, Handled
      <4> QED
        BY <1>1, <2>0, <4>1, NoMovesLose DEF NoMoves, Alive, Live, ThreadTypeOK
    <3>6. CASE Send(t)
      BY <2>0, <3>6, SendImplements
    <3>7. CASE FoundOnRecheck(t) \/ Block(t) \/ \E k \in Keys : PickVictim(t, k)
      BY <2>1, <3>7 DEF FoundOnRecheck, Block, PickVictim
    <3> QED
      BY <2>5, <3>1, <3>2, <3>3, <3>4, <3>5, <3>6, <3>7 DEF Dispatch, CreateWithRoom, EvictAndCreate
  <2>6. ASSUME NEW s \in Sids, Session(s) PROVE Mailbox!Next
    <3>1. CASE Take(s)
      BY <2>0, <3>1, TakeImplements
    <3>2. CASE Begin(s)
      BY <2>0, <3>2, BeginImplements
    <3>3. CASE Start(s) \/ Settle(s) \/ Exit(s) \/ Deadline(s)
      <4>1. UNCHANGED <<pending, bus, tevt, queue>>
        BY <3>3 DEF Start, Settle, Exit, Deadline
      <4>2. \A r \in Sids : Alive(r)' /\ Live(r)' =>
              /\ Alive(r) /\ Live(r)
              /\ spc'[r] \in {"taken", "working"} => spc'[r] = spc[r] /\ cur'[r] = cur[r]
        BY <1>1, <3>3 DEF Start, Settle, Exit, Deadline, Alive, Live, SessionTypeOK
      <4> QED
        BY <2>0, <4>1, <4>2, NoMovesLose DEF NoMoves
    <3> QED
      BY <1>3, <2>6, <3>1, <3>2, <3>3 DEF Session
  <2>7. CASE Tickers
    <3>1. ASSUME NEW k \in Keys, ReapIdle(k) PROVE Mailbox!Next
      BY <2>2, <3>1 DEF ReapIdle
    <3> QED
      BY <2>1, <2>7, <3>1 DEF Tickers, MarkStuck, RowAges, CleanupOldWorkDir
  <2>8. CASE RunShutsDown \/ DrainForces
    BY <2>2, <2>8 DEF RunShutsDown, DrainForces, ShutdownAll
  <2>9. CASE DrainReturns \/ Crash
    <3>1. /\ bus' = <<>> /\ pending' = pending /\ tevt' = [t \in Threads |-> None]
          /\ spc' = [s \in Sids |-> "unused"]
      BY <2>9 DEF DrainReturns, Crash, Die
    <3> QED
      BY <2>0, <3>1, NoMovesLose, NothingInEmpty DEF NoMoves, Alive
  <2>10. CASE Restart
    <3>1. UNCHANGED <<pending, bus, tevt, queue>> /\ ~Running
          /\ \A s \in Sids : spc'[s] \in {"starting", "unused"}
      BY <2>10 DEF Restart, Running
    <3>2. \A s \in Sids : queue[s] = <<>>
      BY <3>1 DEF DInv, DownEmpty
    <3> QED
      BY <2>0, <3>1, <3>2, NoMovesLose DEF NoMoves, Alive
  <2> QED
    BY <1>1, <2>3, <2>4, <2>5, <2>6, <2>7, <2>8, <2>9, <2>10 DEF Next, Process
<1> QED
  BY <1>2, <1>3

(* The session manager delivers as the mailbox does: an event is worked on *)
(* at most once, two events of one key are never in a turn together, and   *)
(* an event that is finished or lost stays so, whatever is evicted, reaped,*)
(* cancelled, shut down, killed or restarted on the way.                   *)
THEOREM ImplementsMailbox == DeliverySpec => DeliversAsMailbox
<1>1. DeliveryInit => IInv /\ DInv
  BY InitIInv, DInvInit DEF DeliveryInit
<1>2. IInv /\ DInv /\ [DeliveryNext]_deliveryVars => IInv' /\ DInv'
  BY StepIInv, DInvStep DEF DeliveryNext, deliveryVars
<1>3. DeliveryInit => Mailbox!Init
  <2> SUFFICES ASSUME DeliveryInit, NEW e \in Events PROVE EventStatus(e) = "new"
    BY DEF Mailbox!Init
  <2>1. e \in pending
    BY DEF DeliveryInit, Init
  <2> QED
    BY <2>1, DInvInit, StatusRead DEF StatusReads
<1>4. IInv /\ DInv /\ DInv' /\ [DeliveryNext]_deliveryVars =>
        [Mailbox!Next]_[e \in Events |-> EventStatus(e)]
  <2>1. CASE DeliveryNext
    BY <2>1, StepImplements
  <2>2. CASE UNCHANGED deliveryVars
    BY <2>2 DEF deliveryVars, EventStatus, InTurn, InTransit, Alive, Live
  <2> QED
    BY <2>1, <2>2
<1> QED
  BY <1>1, <1>2, <1>3, <1>4, PTL DEF DeliverySpec, DeliversAsMailbox, Mailbox!Spec
=============================================================================
