--------------------------- MODULE SessionManager ---------------------------
(***************************************************************************)
(* The session manager (internal/session/manager.go): the in-memory event  *)
(* bus, the dispatchers that run handleEvent, the map of sessions, one     *)
(* goroutine per session (runSession), and what survives the process: the  *)
(* session rows (store.go), the shutdown.json checkpoint of each work      *)
(* directory and the latest lifecycle state of each session key.           *)
(*                                                                         *)
(* A session object is a member of Sids; a key is served by several of     *)
(* them in turn, and an object the map has dropped may still be running.   *)
(* The labels, the role gates and the agent's turn itself are abstracted:  *)
(* a turn is one step with a nondeterministic outcome, and a gate that     *)
(* swallows an event before getOrCreate is the action Consume.             *)
(***************************************************************************)
EXTENDS Naturals, Sequences, FiniteSets

CONSTANTS
  Keys,        (* session keys, e.g. org/repo/issues/42                      *)
  Events,      (* the events of a behaviour, each one submitted at most once *)
  EventKey,    (* EventKey[e] is the session key of event e                  *)
  Sids,        (* session objects; bounds how many are alive at a time       *)
  Run,         (* the Manager.Run loop                                       *)
  Aux,         (* goroutines that call handleEvent themselves: the retry of
                  runAutoRetry, the requeue after a merge                    *)
  None,
  MaxSessions, (* agent.max_sessions                                         *)
  QueueCap,    (* capacity of Session.events (64 in the code)                *)
  BusCap,      (* capacity of a bus subscription (256 in the code)           *)
  MaxBoots     (* bound: how often a behaviour starts the process            *)

Threads == {Run} \cup Aux

ASSUME SessionManagerAssumption ==
  /\ EventKey \in [Events -> Keys]
  /\ None \notin Keys \cup Events \cup Sids \cup Threads
  /\ Run \notin Aux
  /\ IsFiniteSet(Keys)
  /\ MaxSessions \in Nat \ {0}
  /\ QueueCap \in Nat \ {0}
  /\ BusCap \in Nat \ {0}
  /\ MaxBoots \in Nat

VARIABLES
  proc,        (* "up" | "draining" | "forced" | "exited" | "crashed"        *)
  boots,       (* how often the process was started again                    *)
  pending,     (* events nobody has submitted yet                            *)
  bus,         (* the Run loop's subscription channel                        *)
  lock,        (* the thread that holds m.mu across steps, or None           *)
  tpc, tevt, tsid,  (* per thread: where it is in handleEvent, the event in
                       hand, the session it sends to or is about to evict    *)
  joins,       (* per caller of shutdownAll: the goroutines it waits for     *)
  sessions,    (* m.sessions                                                 *)
  older,       (* <<j, k>>: session j was last active before session k       *)
  spc,         (* per session object: where runSession is                    *)
  skey, queue, cur, ctx, (* its key, events channel, event in hand, context  *)
  recovery,    (* Session.IsCrashRecovery                                    *)
  store,       (* keys with a row in sessions.db                             *)
  stale,       (* rows whose last_active is more than seven days old         *)
  workdir,     (* keys whose work directory exists                           *)
  cp,          (* state field of shutdown.json, "none" when there is no file *)
  lc,          (* lifecycle.GetState of each key                             *)
  interrupted  (* history: keys whose turn the last crash cut short          *)

threadVars  == <<tpc, tevt, tsid>>
sessionVars == <<spc, skey, queue, cur, ctx, recovery>>
diskVars    == <<store, stale, workdir, cp, lc>>
procVars    == <<proc, boots, joins>>
vars == <<procVars, pending, bus, lock, threadVars, sessions, older,
          sessionVars, diskVars, interrupted>>

ThreadPC  == {"boot", "loop", "create", "evict", "send", "blocked", "joining", "stopped"}
SessionPC == {"unused", "starting", "idle", "taken", "working",
              "completing", "blocking", "failing", "exited"}
LifecycleState == {"", "working", "completed", "blocked", "failed"}
Checkpoint == {"none", "completed", "cancelled", "failed"}

Running    == proc \in {"up", "draining", "forced"}
Registered == {k \in Keys : sessions[k] # None}
Alive(s)   == spc[s] \notin {"unused", "exited"}
Live(s)    == ctx[s] = "live"
Busy(s)    == spc[s] \in {"working", "completing", "blocking", "failing"}
Finished(state) == state \in {"completed", "failed"}

(* A session object nobody refers to any more can be allocated again. *)
Free(s) ==
  /\ ~Alive(s)
  /\ \A k \in Keys : sessions[k] # s
  /\ \A t \in Threads : tsid[t] # s
  /\ \A j \in {"run", "main"} : s \notin joins[j]

(* LastActive := time.Now() for key k, and what is left of the order when
   the sessions of the keys K leave the map. *)
Touched(k) == {p \in older : p[1] # k /\ p[2] # k} \cup ((Registered \ {k}) \X {k})
Without(K) == {p \in older : p[1] \notin K /\ p[2] \notin K}

(* The contexts once the sessions S are cancelled. *)
CancelledNever(S) == ctx
Cancelled(S) == [s \in Sids |-> IF s \in S /\ ctx[s] = "live" THEN "cancelled" ELSE ctx[s]]

(* store.Delete of the keys K. *)
RowsKept(K) == UNCHANGED <<store, stale>>
DeleteRows(K) ==
  /\ store' = store \ K
  /\ stale' = stale \ K

(* Room for one more session once the keys K have left the map. *)
RoomForTwo(K) == Cardinality(Registered \ K) <= MaxSessions
HasRoom(K) == Cardinality(Registered \ K) < MaxSessions

(* The second lookup misses as well. *)
AbsentUnchecked(t) == TRUE
Absent(t) == sessions[EventKey[tevt[t]]] = None

(* m.mu is released. *)
Forgotten == UNCHANGED lock
Unlock == lock' = None

Init ==
  /\ proc = "up"
  /\ boots = 0
  /\ joins = [j \in {"run", "main"} |-> {}]
  /\ pending = Events
  /\ bus = <<>>
  /\ lock = None
  /\ tpc = [t \in Threads |-> IF t = Run THEN "boot" ELSE "loop"]
  /\ tevt = [t \in Threads |-> None]
  /\ tsid = [t \in Threads |-> None]
  /\ sessions = [k \in Keys |-> None]
  /\ older = {}
  /\ spc = [s \in Sids |-> "unused"]
  /\ skey = [s \in Sids |-> None]
  /\ queue = [s \in Sids |-> <<>>]
  /\ cur = [s \in Sids |-> None]
  /\ ctx = [s \in Sids |-> "live"]
  /\ recovery = [s \in Sids |-> FALSE]
  /\ store = {}
  /\ stale = {}
  /\ workdir = {}
  /\ cp = [k \in Keys |-> "none"]
  /\ lc = [k \in Keys |-> ""]
  /\ interrupted = {}
-----------------------------------------------------------------------------
(* The bus. A publish never blocks: with no subscriber, or with the        *)
(* subscription full, the event is gone.                                   *)

Subscribe ==
  /\ Running
  /\ tpc[Run] = "boot"
  /\ tpc' = [tpc EXCEPT ![Run] = "loop"]
  /\ bus' = <<>>
  /\ UNCHANGED <<procVars, pending, lock, tevt, tsid, sessions, older,
                 sessionVars, diskVars, interrupted>>

Publish(e) ==
  /\ proc \in {"up", "draining"}
  /\ e \in pending
  /\ pending' = pending \ {e}
  /\ bus' = IF tpc[Run] \notin {"boot", "stopped"} /\ Len(bus) < BusCap
            THEN Append(bus, e) ELSE bus
  /\ UNCHANGED <<procVars, lock, threadVars, sessions, older,
                 sessionVars, diskVars, interrupted>>

-----------------------------------------------------------------------------
(* handleEvent and getOrCreate, run by the Run loop on the events of the   *)
(* bus and by an auxiliary goroutine on an event of its own.               *)

Obtain(t, e) ==
  /\ Running
  /\ tpc[t] = "loop"
  /\ \/ /\ t = Run
        /\ bus # <<>>
        /\ e = Head(bus)
        /\ bus' = Tail(bus)
        /\ pending' = pending
     \/ /\ t # Run
        /\ e \in pending
        /\ pending' = pending \ {e}
        /\ bus' = bus

(* A gate of handleEvent returns before getOrCreate is reached. *)
Consume(t, e) ==
  /\ Obtain(t, e)
  /\ UNCHANGED <<procVars, lock, threadVars, sessions, older,
                 sessionVars, diskVars, interrupted>>

(* The lookup under the read lock; a hit refreshes LastActive. *)
Lookup(t, e) ==
  /\ Obtain(t, e)
  /\ lock = None
  /\ tevt' = [tevt EXCEPT ![t] = e]
  /\ LET k == EventKey[e] IN
       IF sessions[k] # None
       THEN /\ tpc' = [tpc EXCEPT ![t] = "send"]
            /\ tsid' = [tsid EXCEPT ![t] = sessions[k]]
            /\ older' = Touched(k)
       ELSE /\ tpc' = [tpc EXCEPT ![t] = "create"]
            /\ UNCHANGED <<tsid, older>>
  /\ UNCHANGED <<procVars, lock, sessions, sessionVars, diskVars, interrupted>>

(* The second lookup, under the write lock. *)
FoundOnRecheck(t) ==
  /\ Running
  /\ tpc[t] = "create"
  /\ lock = None
  /\ LET k == EventKey[tevt[t]] IN
       /\ sessions[k] # None
       /\ tsid' = [tsid EXCEPT ![t] = sessions[k]]
       /\ older' = Touched(k)
  /\ tpc' = [tpc EXCEPT ![t] = "send"]
  /\ UNCHANGED <<procVars, pending, bus, lock, tevt, sessions,
                 sessionVars, diskVars, interrupted>>

(* store.Create is an INSERT: it leaves a row that exists as it is.        *)
CreateRow(k, K) ==
  /\ store' = (store \ K) \cup {k}
  /\ stale' = stale \ K

(* A new session for t's event enters the map that the keys K have just    *)
(* left.                                                                   *)
Open(t, s, K) ==
  LET k == EventKey[tevt[t]]
      gone == {sessions[j] : j \in K}
  IN /\ Free(s)
     /\ sessions' = [[j \in Keys |-> IF j \in K THEN None ELSE sessions[j]] EXCEPT ![k] = s]
     /\ older' = Without(K) \cup ((Registered \ K) \X {k})
     /\ spc' = [spc EXCEPT ![s] = "starting"]
     /\ skey' = [skey EXCEPT ![s] = k]
     /\ queue' = [queue EXCEPT ![s] = <<>>]
     /\ cur' = [cur EXCEPT ![s] = None]
     /\ ctx' = [Cancelled(gone) EXCEPT ![s] = "live"]
     /\ recovery' = [recovery EXCEPT ![s] = FALSE]
     /\ CreateRow(k, K)
     /\ workdir' = workdir \cup {k}
     /\ tpc' = [tpc EXCEPT ![t] = "send"]
     /\ tsid' = [tsid EXCEPT ![t] = s]
     /\ UNCHANGED <<procVars, pending, bus, tevt, cp, lc, interrupted>>

CreateWithRoom(t, s) ==
  /\ Running
  /\ tpc[t] = "create"
  /\ lock = None
  /\ Absent(t)
  /\ HasRoom({})
  /\ Open(t, s, {})
  /\ lock' = lock

(* evictOldest looks for the least recently active session that is not     *)
(* busy. It reads each busy flag under that session's own mutex and then   *)
(* lets go of it: only m.mu is held until the victim is cancelled.         *)
Evictable == {k \in Registered : ~Busy(sessions[k])}

PickVictim(t, k) ==
  /\ Running
  /\ tpc[t] = "create"
  /\ lock = None
  /\ Absent(t)
  /\ ~HasRoom({})
  /\ k \in Evictable
  /\ \A j \in Evictable : <<j, k>> \notin older
  /\ lock' = t
  /\ tpc' = [tpc EXCEPT ![t] = "evict"]
  /\ tsid' = [tsid EXCEPT ![t] = sessions[k]]
  /\ UNCHANGED <<procVars, pending, bus, tevt, sessions, older,
                 sessionVars, diskVars, interrupted>>

EvictAndCreate(t, s) ==
  /\ Running
  /\ tpc[t] = "evict"
  /\ LET victim == {skey[tsid[t]]} IN
       /\ HasRoom(victim)
       /\ Open(t, s, victim)
  /\ Unlock

(* getOrCreate returns an error, which handleEvent logs: every session is  *)
(* busy, or there is room but the work directory cannot be made.           *)
Refuse(t) ==
  /\ Running
  /\ tpc[t] = "create"
  /\ lock = None
  /\ Absent(t)
  /\ \/ ~HasRoom({}) /\ Evictable = {}
     \/ HasRoom({}) /\ EventKey[tevt[t]] \notin workdir
  /\ tpc' = [tpc EXCEPT ![t] = "loop"]
  /\ tevt' = [tevt EXCEPT ![t] = None]
  /\ UNCHANGED <<procVars, pending, bus, lock, tsid, sessions, older,
                 sessionVars, diskVars, interrupted>>

(* The work directory cannot be made: an error after the eviction.         *)
EvictAndFail(t) ==
  /\ Running
  /\ tpc[t] = "evict"
  /\ EventKey[tevt[t]] \notin workdir
  /\ LET v == tsid[t]
         k == skey[v]
     IN /\ sessions' = [sessions EXCEPT ![k] = None]
        /\ older' = Without({k})
        /\ ctx' = Cancelled({v})
        /\ DeleteRows({k})
  /\ Unlock
  /\ tpc' = [tpc EXCEPT ![t] = "loop"]
  /\ tevt' = [tevt EXCEPT ![t] = None]
  /\ tsid' = [tsid EXCEPT ![t] = None]
  /\ UNCHANGED <<procVars, pending, bus, spc, skey, queue, cur, recovery,
                 workdir, cp, lc, interrupted>>

(* The send to the session's channel, outside every lock. A full channel   *)
(* blocks the sender for at most five seconds.                             *)
HandledTwice(t) == tpc' = [tpc EXCEPT ![t] = "send"] /\ UNCHANGED <<tevt, tsid>>
Handled(t) ==
  /\ tpc' = [tpc EXCEPT ![t] = "loop"]
  /\ tevt' = [tevt EXCEPT ![t] = None]
  /\ tsid' = [tsid EXCEPT ![t] = None]

HasSpace(s) == Len(queue[s]) < QueueCap

Send(t) ==
  /\ Running
  /\ tpc[t] \in {"send", "blocked"}
  /\ HasSpace(tsid[t])
  /\ queue' = [queue EXCEPT ![tsid[t]] = Append(@, tevt[t])]
  /\ Handled(t)
  /\ UNCHANGED <<procVars, pending, bus, lock, sessions, older,
                 spc, skey, cur, ctx, recovery, diskVars, interrupted>>

Block(t) ==
  /\ Running
  /\ tpc[t] = "send"
  /\ ~HasSpace(tsid[t])
  /\ tpc' = [tpc EXCEPT ![t] = "blocked"]
  /\ UNCHANGED <<procVars, pending, bus, lock, tevt, tsid, sessions, older,
                 sessionVars, diskVars, interrupted>>

SendTimeout(t) ==
  /\ Running
  /\ tpc[t] = "blocked"
  /\ Handled(t)
  /\ UNCHANGED <<procVars, pending, bus, lock, sessions, older,
                 sessionVars, diskVars, interrupted>>

-----------------------------------------------------------------------------
(* runSession, one goroutine per session object.                           *)

(* Role detection and the claim of the issue, before the event loop. A     *)
(* claim that fails is logged and no more.                                 *)
StartUnlessRefused(s) ==
  /\ Running
  /\ spc[s] = "starting"
  /\ \E phase \in {"idle", "exited"} : spc' = [spc EXCEPT ![s] = phase]
  /\ UNCHANGED <<procVars, pending, bus, lock, threadVars, sessions, older,
                 skey, queue, cur, ctx, recovery, diskVars, interrupted>>

Start(s) ==
  /\ Running
  /\ spc[s] = "starting"
  /\ spc' = [spc EXCEPT ![s] = "idle"]
  /\ UNCHANGED <<procVars, pending, bus, lock, threadVars, sessions, older,
                 skey, queue, cur, ctx, recovery, diskVars, interrupted>>

(* The select takes an event even when the context is done as well: Go     *)
(* picks any ready case.                                                   *)
Take(s) ==
  /\ Running
  /\ spc[s] = "idle"
  /\ queue[s] # <<>>
  /\ cur' = [cur EXCEPT ![s] = Head(queue[s])]
  /\ queue' = [queue EXCEPT ![s] = Tail(@)]
  /\ spc' = [spc EXCEPT ![s] = "taken"]
  /\ UNCHANGED <<procVars, pending, bus, lock, threadVars, sessions, older,
                 skey, ctx, recovery, diskVars, interrupted>>

(* busy := true; OnSessionStart when the key has no lifecycle state yet.   *)
(* Under a context that is done the database calls fail.                   *)
Begin(s) ==
  /\ Running
  /\ spc[s] = "taken"
  /\ spc' = [spc EXCEPT ![s] = "working"]
  /\ lc' = IF Live(s) /\ lc[skey[s]] = "" THEN [lc EXCEPT ![skey[s]] = "working"] ELSE lc
  /\ UNCHANGED <<procVars, pending, bus, lock, threadVars, sessions, older,
                 skey, queue, cur, ctx, recovery, store, stale, workdir, cp, interrupted>>

(* ProcessEvent returns and the outcome is recorded in the lifecycle       *)
(* table, with the session's own context.                                  *)
EndTurn(s, phase, state) ==
  /\ Running
  /\ spc[s] = "working"
  /\ spc' = [spc EXCEPT ![s] = phase]
  /\ lc' = IF Live(s) THEN [lc EXCEPT ![skey[s]] = state] ELSE lc
  /\ UNCHANGED <<procVars, pending, bus, lock, threadVars, sessions, older, skey, queue,
                 cur, ctx, recovery, store, stale, workdir, cp, interrupted>>

TurnSucceeds(s) == EndTurn(s, "completing", "completed")
TurnBlocked(s)  == EndTurn(s, "blocking", "blocked")
TurnFails(s)    == EndTurn(s, "failing", "failed")

(* The checkpoint that goes with the outcome (none for a failed turn),     *)
(* then busy := false and LastActive := now.                               *)
WriteCheckpoint(k, state) == cp' = IF k \in workdir THEN [cp EXCEPT ![k] = state] ELSE cp

Settle(s) ==
  /\ Running
  /\ \/ spc[s] = "completing" /\ WriteCheckpoint(skey[s], "completed")
     \/ spc[s] = "blocking" /\ WriteCheckpoint(skey[s], "failed")
     \/ spc[s] = "failing" /\ cp' = cp
  /\ spc' = [spc EXCEPT ![s] = "idle"]
  /\ cur' = [cur EXCEPT ![s] = None]
  /\ older' = IF sessions[skey[s]] = s THEN Touched(skey[s]) ELSE older
  /\ UNCHANGED <<procVars, pending, bus, lock, threadVars, sessions,
                 skey, queue, ctx, recovery, store, stale, workdir, lc, interrupted>>

(* The select sees the context done. The goroutine returns; the session    *)
(* stays in the map and its row in the database.                           *)
Exit(s) ==
  /\ Running
  /\ spc[s] = "idle"
  /\ ~Live(s)
  /\ spc' = [spc EXCEPT ![s] = "exited"]
  /\ IF ctx[s] = "deadline"
     THEN /\ lc' = [lc EXCEPT ![skey[s]] = "failed"]
          /\ WriteCheckpoint(skey[s], "failed")
     ELSE /\ lc' = lc
          /\ WriteCheckpoint(skey[s], "cancelled")
  /\ UNCHANGED <<procVars, pending, bus, lock, threadVars, sessions, older, skey, queue,
                 cur, ctx, recovery, store, stale, workdir, interrupted>>

(* agent.session_timeout, counted from the creation of the session. The    *)
(* configuration has to set one.                                           *)
Deadline(s) ==
  /\ Running
  /\ Alive(s)
  /\ Live(s)
  /\ ctx' = [ctx EXCEPT ![s] = "deadline"]
  /\ UNCHANGED <<procVars, pending, bus, lock, threadVars, sessions, older,
                 spc, skey, queue, cur, recovery, diskVars, interrupted>>

-----------------------------------------------------------------------------
(* The tickers of the Run loop.                                            *)

(* idle_timeout has passed since LastActive. Every step but the agent's    *)
(* turn is short beside it, so by then a goroutine that still runs has     *)
(* emptied its channel and nobody is about to send to it.                  *)
IdleForTimeout(s) ==
  /\ \/ spc[s] \in {"starting", "idle"} /\ queue[s] = <<>>
     \/ spc[s] = "exited"
  /\ \A t \in Threads : tsid[t] # s

ReapIdle(k) ==
  /\ Running
  /\ tpc[Run] = "loop"
  /\ lock = None
  /\ k \in Registered
  /\ ~Busy(sessions[k])
  /\ IdleForTimeout(sessions[k])
  /\ ctx' = Cancelled({sessions[k]})
  /\ sessions' = [sessions EXCEPT ![k] = None]
  /\ older' = Without({k})
  /\ DeleteRows({k})
  /\ UNCHANGED <<procVars, pending, bus, lock, threadVars, spc, skey, queue, cur,
                 recovery, workdir, cp, lc, interrupted>>

(* detectStuckSessions: the label state of the issue is "blocked" and      *)
(* LastActive is six hours old, in a turn or out of one.                   *)
MarkStuck(k) ==
  /\ Running
  /\ tpc[Run] = "loop"
  /\ lock = None
  /\ k \in Registered
  /\ Busy(sessions[k]) \/ IdleForTimeout(sessions[k])
  /\ lc' = [lc EXCEPT ![k] = "failed"]
  /\ UNCHANGED <<procVars, pending, bus, lock, threadVars, sessions, older, sessionVars,
                 store, stale, workdir, cp, interrupted>>

(* Seven days go by with a row whose key has no session. The row keeps the *)
(* last_active it was inserted with.                                       *)
RowAges(k) ==
  /\ k \in store \ stale
  /\ k \notin Registered
  /\ stale' = stale \cup {k}
  /\ UNCHANGED <<procVars, pending, bus, lock, threadVars, sessions, older, sessionVars,
                 store, workdir, cp, lc, interrupted>>

(* cleanupOldWorkDirs looks at the rows and the lifecycle table only.      *)
CleanupOldWorkDir(k) ==
  /\ Running
  /\ tpc[Run] = "loop"
  /\ k \in stale \cap workdir
  /\ Finished(lc[k])
  /\ workdir' = workdir \ {k}
  /\ cp' = [cp EXCEPT ![k] = "none"]
  /\ UNCHANGED <<procVars, pending, bus, lock, threadVars, sessions, older, sessionVars,
                 store, stale, lc, interrupted>>

-----------------------------------------------------------------------------
(* Shutdown. The signal cancels one context that both the Run loop and     *)
(* main wait for: Run calls shutdownAll, main calls Drain.                 *)

Signal ==
  /\ proc = "up"
  /\ proc' = "draining"
  /\ UNCHANGED <<boots, joins, pending, bus, lock, threadVars, sessions, older,
                 sessionVars, diskVars, interrupted>>

ShutdownAll(caller) ==
  LET gone == {sessions[k] : k \in Registered}
  IN /\ cp' = [k \in Keys |-> IF k \in Registered \cap workdir THEN "cancelled" ELSE cp[k]]
     /\ ctx' = Cancelled(gone)
     /\ DeleteRows(Registered)
     /\ sessions' = [k \in Keys |-> None]
     /\ older' = {}
     /\ joins' = [joins EXCEPT ![caller] = gone]
     /\ UNCHANGED <<boots, pending, lock, tevt, tsid, spc, skey, queue, cur, recovery,
                    workdir, lc, interrupted>>

RunShutsDown ==
  /\ proc \in {"draining", "forced"}
  /\ tpc[Run] = "loop"
  /\ lock = None
  /\ ShutdownAll("run")
  /\ tpc' = [tpc EXCEPT ![Run] = "joining"]
  /\ UNCHANGED <<proc, bus>>

(* wg.Wait of every session, then Run returns and unsubscribes. *)
RunReturns ==
  /\ Running
  /\ tpc[Run] = "joining"
  /\ \A s \in joins["run"] : spc[s] = "exited"
  /\ tpc' = [tpc EXCEPT ![Run] = "stopped"]
  /\ joins' = [joins EXCEPT !["run"] = {}]
  /\ bus' = <<>>
  /\ UNCHANGED <<proc, boots, pending, lock, tevt, tsid, sessions, older,
                 sessionVars, diskVars, interrupted>>

(* The drain deadline passes with a session busy. *)
DrainForces ==
  /\ proc = "draining"
  /\ lock = None
  /\ \E k \in Registered : Busy(sessions[k])
  /\ ShutdownAll("main")
  /\ proc' = "forced"
  /\ UNCHANGED <<tpc, bus>>

(* The process ends: what it held in memory is gone. *)
Die(how) ==
  /\ proc' = how
  /\ joins' = [j \in {"run", "main"} |-> {}]
  /\ bus' = <<>>
  /\ lock' = None
  /\ tpc' = [t \in Threads |-> IF t = Run THEN "boot" ELSE "loop"]
  /\ tevt' = [t \in Threads |-> None]
  /\ tsid' = [t \in Threads |-> None]
  /\ sessions' = [k \in Keys |-> None]
  /\ older' = {}
  /\ spc' = [s \in Sids |-> "unused"]
  /\ skey' = [s \in Sids |-> None]
  /\ queue' = [s \in Sids |-> <<>>]
  /\ cur' = [s \in Sids |-> None]
  /\ ctx' = [s \in Sids |-> "live"]
  /\ recovery' = [s \in Sids |-> FALSE]
  /\ UNCHANGED <<boots, pending, diskVars>>

(* Drain returns, because no session in the map is busy or because its own *)
(* shutdownAll has waited for them, and main with it.                      *)
DrainReturns ==
  /\ \/ proc = "draining" /\ lock = None /\ \A k \in Registered : ~Busy(sessions[k])
     \/ proc = "forced" /\ \A s \in joins["main"] : spc[s] = "exited"
  /\ Die("exited")
  /\ UNCHANGED interrupted

(* The process is killed. *)
Crash ==
  /\ Running
  /\ boots < MaxBoots
  /\ Die("crashed")
  /\ interrupted' = {k \in Registered : spc[sessions[k]] = "working" /\ Live(sessions[k])}

-----------------------------------------------------------------------------
(* NewManager: restoreSessions goes through the rows before Run starts.    *)

DiscardedUnlessFailed == {k \in store : k \notin workdir \/ cp[k] # "failed"}
Discarded  == {k \in store : k \notin workdir \/ cp[k] \in {"completed", "cancelled"}}
Restorable == {k \in store \ Discarded : ~Finished(lc[k])}

(* The strict total orders on the keys K. *)
Orders(K) ==
  {r \in SUBSET (K \X K) : /\ \A j, k \in K : (j = k) <=> (<<j, k>> \notin r /\ <<k, j>> \notin r)
                           /\ \A i, j, k \in K : <<i, j>> \in r /\ <<j, k>> \in r => <<i, k>> \in r}

Restart ==
  /\ proc \in {"exited", "crashed"}
  /\ boots < MaxBoots
  /\ boots' = boots + 1
  /\ proc' = "up"
  /\ \E f \in [Restorable -> Sids] :
       /\ \A j, k \in Restorable : f[j] = f[k] => j = k
       /\ sessions' = [k \in Keys |-> IF k \in Restorable THEN f[k] ELSE None]
       /\ spc' = [s \in Sids |-> IF \E k \in Restorable : f[k] = s THEN "starting" ELSE "unused"]
       /\ skey' = [s \in Sids |-> IF \E k \in Restorable : f[k] = s
                                  THEN CHOOSE k \in Restorable : f[k] = s ELSE None]
       /\ recovery' = [s \in Sids |-> \E k \in Restorable :
                          f[k] = s /\ cp[k] = "none" /\ lc[k] = "working"]
  /\ older' \in Orders(Restorable)
  /\ DeleteRows(Discarded)
  /\ cp' = [k \in Keys |-> IF k \in store THEN "none" ELSE cp[k]]
  /\ interrupted' = {}
  /\ UNCHANGED <<joins, pending, bus, lock, threadVars, queue, cur, ctx,
                 workdir, lc>>

(* The bound on starts is reached: the process stays down. *)
StayDown ==
  /\ ~Running
  /\ boots = MaxBoots
  /\ UNCHANGED vars

-----------------------------------------------------------------------------
Dispatch(t) ==
  \/ \E e \in Events : Consume(t, e) \/ Lookup(t, e)
  \/ FoundOnRecheck(t)
  \/ \E s \in Sids : CreateWithRoom(t, s) \/ EvictAndCreate(t, s)
  \/ \E k \in Keys : PickVictim(t, k)
  \/ Refuse(t)
  \/ EvictAndFail(t)
  \/ Send(t)
  \/ Block(t)
  \/ SendTimeout(t)

Session(s) ==
  \/ Start(s) \/ Take(s) \/ Begin(s)
  \/ TurnSucceeds(s) \/ TurnBlocked(s) \/ TurnFails(s)
  \/ Settle(s) \/ Exit(s) \/ Deadline(s)

Tickers == \E k \in Keys : ReapIdle(k) \/ MarkStuck(k) \/ RowAges(k) \/ CleanupOldWorkDir(k)

Process == Signal \/ RunShutsDown \/ RunReturns \/ DrainForces \/ DrainReturns \/ Crash \/ Restart \/ StayDown

Next ==
  \/ Subscribe
  \/ \E e \in Events : Publish(e)
  \/ \E t \in Threads : Dispatch(t)
  \/ \E s \in Sids : Session(s)
  \/ Tickers
  \/ Process

Spec == Init /\ [][Next]_vars

(***************************************************************************)
(* Fairness. Every goroutine that can move does, the agent's turn ends     *)
(* (max_turns, provider retries and the session deadline bound it), the    *)
(* five-second timer of a blocked send fires, and a signalled process      *)
(* drains. Nothing is assumed of the environment: webhooks, signals,       *)
(* crashes, deadlines and tickers.                                         *)
(***************************************************************************)
Fairness ==
  /\ WF_vars(Subscribe)
  /\ \A t \in Threads : WF_vars(Dispatch(t))
  /\ \A s \in Sids : WF_vars(Start(s) \/ Take(s) \/ Begin(s) \/ Settle(s) \/ Exit(s)
                             \/ TurnSucceeds(s) \/ TurnBlocked(s) \/ TurnFails(s))
  /\ WF_vars(RunShutsDown) /\ WF_vars(RunReturns) /\ WF_vars(DrainForces) /\ WF_vars(DrainReturns)

FairSpec == Spec /\ Fairness

-----------------------------------------------------------------------------
ProcTypeOK ==
  /\ proc \in {"up", "draining", "forced", "exited", "crashed"}
  /\ boots \in 0..MaxBoots
  /\ joins \in [{"run", "main"} -> SUBSET Sids]
  /\ interrupted \in SUBSET Keys

BusTypeOK ==
  /\ pending \in SUBSET Events
  /\ bus \in Seq(Events)
  /\ Len(bus) <= BusCap

ThreadTypeOK ==
  /\ lock \in Threads \cup {None}
  /\ tpc \in [Threads -> ThreadPC]
  /\ tevt \in [Threads -> Events \cup {None}]
  /\ tsid \in [Threads -> Sids \cup {None}]

MapTypeOK ==
  /\ sessions \in [Keys -> Sids \cup {None}]
  /\ older \in SUBSET (Keys \X Keys)

SessionTypeOK ==
  /\ spc \in [Sids -> SessionPC]
  /\ skey \in [Sids -> Keys \cup {None}]
  /\ cur \in [Sids -> Events \cup {None}]
  /\ ctx \in [Sids -> {"live", "cancelled", "deadline"}]
  /\ recovery \in [Sids -> BOOLEAN]

QueueTypeOK ==
  /\ queue \in [Sids -> Seq(Events)]
  /\ \A s \in Sids : Len(queue[s]) <= QueueCap

DiskTypeOK ==
  /\ store \in SUBSET Keys
  /\ stale \in SUBSET store
  /\ workdir \in SUBSET Keys
  /\ cp \in [Keys -> Checkpoint]
  /\ lc \in [Keys -> LifecycleState]

(* Types, and the capacities of the bus subscription and of the session    *)
(* channels (Publish and the send of handleEvent).                         *)
TypeOK == /\ ProcTypeOK /\ BusTypeOK /\ ThreadTypeOK /\ MapTypeOK
          /\ SessionTypeOK /\ QueueTypeOK /\ DiskTypeOK

(* The map never holds more than max_sessions sessions: not when several   *)
(* dispatchers race for the last slot, not when an eviction is followed by *)
(* an error, and not after restoreSessions, which does not look at the     *)
(* limit.                                                                  *)
SessionCap == Cardinality(Registered) <= MaxSessions

(* A goroutine whose context is live is the one the map holds for its key. *)
(* Whatever removes a session from the map has cancelled it, so nothing    *)
(* runs that shutdownAll and the reaper cannot reach.                      *)
NoOrphan == \A s \in Sids : Alive(s) /\ Live(s) => skey[s] \in Keys /\ sessions[skey[s]] = s

(* Two goroutines of one key, the one the map dropped and its successor,   *)
(* are never both inside a turn under a live context.                      *)
SerialPerKey ==
  \A r, s \in Sids :
    r # s /\ Busy(r) /\ Busy(s) /\ skey[r] = skey[s] => ~(Live(r) /\ Live(s))

(* The rows describe the map: each session in the map has a row, and a row *)
(* that a restart would restore belongs to a session in the map.           *)
RowsMatchSessions ==
  Running => /\ Registered \subseteq store
             /\ Restorable \subseteq Registered

Restarts == ~Running /\ proc' = "up"

(* Crash recovery (restoreSessions): a turn the crash cut short is resumed *)
(* by a session that knows it recovers from a crash, if it was the key's   *)
(* first turn: no checkpoint in the work directory, lifecycle "working".   *)
FirstTurnResumes ==
  [][Restarts => \A k \in interrupted :
       lc[k] = "working" /\ cp[k] = "none" =>
         sessions'[k] # None /\ recovery'[sessions'[k]]]_vars

(* An event in the channel of a session in the map is eventually taken by  *)
(* the session's goroutine, unless the session leaves the map or its       *)
(* context is done.                                                        *)
QueuedEventServed ==
  LET Waiting(s) == (\E k \in Keys : sessions[k] = s) /\ queue[s] # <<>> /\ Live(s)
  IN \A s \in Sids : Waiting(s) ~> ~Waiting(s)

(* A signalled process ends: no goroutine, dispatcher or lock keeps        *)
(* shutdownAll and Drain waiting for ever.                                 *)
ShutdownEnds == proc = "draining" ~> ~Running

-----------------------------------------------------------------------------
(* The inductive strengthening of the invariants.                          *)

(* A dispatcher holds the event, the session and the lock its place in     *)
(* handleEvent calls for, and nobody touches its victim while it holds     *)
(* the lock.                                                               *)
DispatchersOK ==
  \A t \in Threads :
    /\ tpc[t] \in {"create", "evict", "send", "blocked"} => tevt[t] \in Events
    /\ tpc[t] \in {"evict", "send", "blocked"} => tsid[t] \in Sids
    /\ lock = t <=> tpc[t] = "evict"
    /\ tpc[t] = "evict" => /\ skey[tsid[t]] \in Keys
                           /\ sessions[skey[tsid[t]]] = tsid[t]
                           /\ sessions[EventKey[tevt[t]]] = None

(* The map and the session objects agree on who serves which key. *)
MapOK ==
  /\ \A k \in Keys : sessions[k] # None => skey[sessions[k]] = k
  /\ \A s \in Sids : spc[s] # "unused" => skey[s] \in Keys

(* A row without a session is one a restart left alone because its key is  *)
(* finished; a key that never finished a turn keeps its work directory.    *)
RowsOK ==
  Running => /\ Registered \subseteq store
             /\ \A k \in store \ Registered : Finished(lc[k])
             /\ \A k \in Registered : lc[k] \in {"", "working"} => k \in workdir

(* What the end of the process leaves behind. *)
DownOK ==
  /\ Running => interrupted = {}
  /\ ~Running => /\ lock = None
                 /\ \A t \in Threads : tpc[t] \in {"boot", "loop"}
                 /\ Cardinality(Restorable) <= MaxSessions
                 /\ \A k \in interrupted : k \in store /\ (lc[k] = "working" => k \in workdir)

IInv == TypeOK /\ DispatchersOK /\ MapOK /\ NoOrphan /\ SessionCap /\ RowsOK /\ DownOK

=============================================================================
