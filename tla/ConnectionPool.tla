--------------------------- MODULE ConnectionPool ---------------------------
(***************************************************************************)
(* app/core/protocol/connection_pool.py: the pool of remote MCP sessions,     *)
(* with MCPClientWrapper.connect and disconnect as the pool uses them.        *)
(*                                                                         *)
(* A step is the code between two awaits, except that a task also stops at a     *)
(* free _registry_lock, which only adds interleavings.  asyncio.Lock is         *)
(* external: first come first served, and a released lock is not locked until    *)
(* the first waiter resumes -- which is what `lock.locked()' reports in that      *)
(* window.  All callers share the application's one event loop, so the checks of   *)
(* the entry's loop never fire.  The MCP SDK is installed.                        *)
(***************************************************************************)
EXTENDS Naturals, Sequences, SequencesExt, FiniteSets, FiniteSetsExt

CONSTANTS Task,      \* concurrent callers of call_tool and list_tools
          Key,       \* (endpoint_url, transport) pairs
          MaxSize,   \* settings.remote_pool_max_size
          MaxCalls,  \* bound: the calls each task makes
          MaxSweeps, \* bound: the rounds of the health monitor's loop
          Monitor,   \* the task of the health monitor, caller of evict_idle
          None

ASSUME TaskAssumption == /\ IsFiniteSet(Task) /\ IsFiniteSet(Key)
                         /\ None \notin Task /\ Monitor \notin Task
                         /\ None # Monitor
ASSUME SizeAssumption == /\ MaxSize \in Nat \ {0}
                         /\ MaxCalls \in Nat /\ MaxSweeps \in Nat

Actor == Task \cup {Monitor}

\* Identities of _Entry objects; one that nothing refers to is used again.
Entry == 1 .. Cardinality(Key) + 2 * Cardinality(Task) + 1

VARIABLES
  pool,       \* _entries: the entry of each key, 0 if it has none
  connected,  \* _Entry.connected
  session,    \* the session of its wrapper: none, ok, or lost with its transport;
              \* met (history): lost, and a call has run into that
  holder,     \* the task that holds _Entry.lock, or None
  queue,      \* the tasks waiting for that lock; the first is resumed next
  lru,        \* the pooled entries by last_used, oldest first
  reg,        \* the tasks at _registry_lock; the first holds it or takes it next
  pc,         \* the await of each task
  cur,        \* the entry that await is about, 0 if none
  key,        \* the endpoint of the task's call
  attempt,    \* 1, or 2 after the transparent reconnect
  calls,      \* calls made so far
  idle,       \* the stale entries evict_idle has still to close
  sweeps,     \* the sweeps made so far
  suspect,    \* history: the entry whose session failed attempt 1, until replaced
  peak,       \* history: the most calls there have been under way together
  closed      \* aclose_all has run

entryVars == <<pool, connected, session, holder, queue, lru>>
vars == <<pool, connected, session, holder, queue, lru, reg, pc, cur, key,
          attempt, calls, idle, sweeps, suspect, peak, closed>>
countVars == <<idle, sweeps, peak>>

\* registry: waiting for _registry_lock; evicting: holding it, in the victim's
\* disconnect; lock and breakLock: waiting for an entry's lock, to call or to
\* close a broken session; connecting, calling, breaking: holding that lock.
UnderLock == {"connecting", "calling", "breaking"}
Waiting == {"lock", "breakLock"}
Pc == UnderLock \cup Waiting \cup {"idle", "registry", "evicting"}

Pooled == {pool[k] : k \in Key} \ {0}

\* disconnect suspends: there is a session to close.
Live(e) == connected[e] /\ session[e] # "none"

TypeOK ==
  /\ pool \in [Key -> Entry \cup {0}]
  /\ connected \in [Entry -> BOOLEAN]
  /\ session \in [Entry -> {"none", "ok", "lost", "met"}]
  /\ holder \in [Entry -> Task \cup {None}]
  /\ queue \in [Entry -> Seq(Task)]
  /\ lru \in Seq(Entry) /\ ToSet(lru) = Pooled
  /\ reg \in Seq(Actor)
  /\ pc \in [Actor -> Pc]
  /\ cur \in [Actor -> Entry \cup {0}]
  /\ key \in [Task -> Key \cup {None}]
  /\ attempt \in [Task -> {1, 2}]
  /\ calls \in [Task -> 0 .. MaxCalls]
  /\ idle \in SUBSET Entry
  /\ sweeps \in 0 .. MaxSweeps
  /\ suspect \in [Task -> Entry \cup {0}]
  /\ peak \in Nat
  /\ closed \in BOOLEAN

Init ==
  /\ pool = [k \in Key |-> 0]
  /\ connected = [e \in Entry |-> FALSE]
  /\ session = [e \in Entry |-> "none"]
  /\ holder = [e \in Entry |-> None]
  /\ queue = [e \in Entry |-> <<>>]
  /\ lru = <<>>
  /\ reg = <<>>
  /\ pc = [t \in Actor |-> "idle"]
  /\ cur = [t \in Actor |-> 0]
  /\ key = [t \in Task |-> None]
  /\ attempt = [t \in Task |-> 1]
  /\ calls = [t \in Task |-> 0]
  /\ idle = {}
  /\ sweeps = 0
  /\ suspect = [t \in Task |-> 0]
  /\ peak = 0
  /\ closed = FALSE

-----------------------------------------------------------------------------
(***************************************************************************)
(* Locks and tasks.                                                           *)
(***************************************************************************)
Free(e) == holder[e] = None /\ queue[e] = <<>>
Turn(t, e) == holder[e] = None /\ queue[e] # <<>> /\ Head(queue[e]) = t

Goto(t, p, e) == /\ pc' = [pc EXCEPT ![t] = p]
                 /\ cur' = [cur EXCEPT ![t] = e]

\* The callers whose call is under way.
InFlight == {t \in Task : pc[t] # "idle"}

\* The tasks inside an operation on the wrapper of e.
Drivers(e) == {t \in Actor : cur[t] = e /\ pc[t] \in UnderLock \cup {"evicting"}}

\* The call is over: its result or its error goes back to the router.
Done(t) == /\ Goto(t, "idle", 0)
           /\ key' = [key EXCEPT ![t] = None]
           /\ attempt' = [attempt EXCEPT ![t] = 1]
           /\ suspect' = [suspect EXCEPT ![t] = 0]

\* A step towards _get_entry: the task queues for _registry_lock.
ToRegistry(t) == Goto(t, "registry", 0) /\ reg' = Append(reg, t)

\* last_used is set when a wrapper is handed to its caller.
Touch(e) == lru' = IF Contains(lru, e) THEN Append(RemoveFirst(lru, e), e) ELSE lru

\* e has a new session: nobody suspects it.
Forget(e) == [t \in Task |-> IF suspect[t] = e THEN 0 ELSE suspect[t]]

-----------------------------------------------------------------------------
(***************************************************************************)
(* _get_entry.                                                                *)
(***************************************************************************)
Call(t, k) ==
  /\ pc[t] = "idle" /\ calls[t] < MaxCalls /\ ~closed
  /\ peak' = Max({peak, Cardinality(InFlight \cup {t})})
  /\ calls' = [calls EXCEPT ![t] = @ + 1]
  /\ key' = [key EXCEPT ![t] = k]
  /\ ToRegistry(t)
  /\ UNCHANGED <<entryVars, attempt, suspect, closed, idle, sweeps>>

AtRegistry(t) == pc[t] = "registry" /\ Head(reg) = t

\* The entry exists: the registry lock is released and the task goes on to the
\* entry's lock without another await.  Inside it connects if it must.
Lookup(t) ==
  /\ AtRegistry(t) /\ pool[key[t]] # 0
  /\ reg' = Tail(reg)
  /\ LET e == pool[key[t]] IN
       \/ /\ Free(e)
          /\ holder' = [holder EXCEPT ![e] = t]
          /\ Goto(t, IF connected[e] THEN "calling" ELSE "connecting", e)
          /\ IF connected[e] THEN Touch(e) ELSE UNCHANGED lru
          /\ UNCHANGED queue
       \/ /\ ~Free(e)
          /\ queue' = [queue EXCEPT ![e] = Append(@, t)]
          /\ Goto(t, "lock", e)
          /\ UNCHANGED <<holder, lru>>
  /\ UNCHANGED <<pool, connected, session, key, attempt, calls, suspect, closed, countVars>>

Unreferenced == {e \in Entry : /\ e \notin Pooled /\ Free(e)
                               /\ \A t \in Actor : cur[t] # e
                               /\ \A t \in Task : suspect[t] # e}

\* A new entry for t's key replaces the closed entry v in the pool (0: nobody).
\* Its lock is free and it is not connected.
Create(t, v) ==
  LET e == Min(Unreferenced) IN
    /\ pool' = [k \in Key |-> IF k = key[t] THEN e
                              ELSE IF pool[k] = v THEN 0 ELSE pool[k]]
    /\ lru' = Append(RemoveFirst(lru, v), e)
    /\ connected' = [x \in Entry |-> connected[x] /\ x \notin {e, v}]
    /\ session' = [x \in Entry |-> IF x \in {e, v} THEN "none" ELSE session[x]]
    /\ holder' = [holder EXCEPT ![e] = t]
    /\ reg' = Tail(reg)
    /\ Goto(t, "connecting", e)
    /\ UNCHANGED <<queue, key, attempt, calls, suspect, closed, countVars>>

Unlocked == {e \in Pooled : holder[e] = None}

\* The least recently used entry whose lock is not locked.
Victim == lru[Min({n \in DOMAIN lru : lru[n] \in Unlocked})]

\* Mutant: an entry is added whatever the size of the pool.
MustEvict_Never == FALSE

\* The pool is full and has a candidate; when every entry is locked the pool
\* grows instead.
MustEvict == Cardinality(Pooled) >= MaxSize /\ Unlocked # {}

MustDisconnect == MustEvict /\ Live(Victim)

CreateEntry(t) ==
  /\ AtRegistry(t) /\ pool[key[t]] = 0
  /\ ~MustDisconnect
  /\ Create(t, IF MustEvict THEN Victim ELSE 0)

\* The victim is connected: _hard_close awaits its disconnect, with the registry
\* lock held and without the victim's lock.
EvictStart(t) ==
  /\ AtRegistry(t) /\ pool[key[t]] = 0
  /\ MustDisconnect
  /\ Goto(t, "evicting", Victim)
  /\ UNCHANGED <<entryVars, reg, key, attempt, calls, suspect, closed, countVars>>

EvictDone(t) == pc[t] = "evicting" /\ Create(t, cur[t])

-----------------------------------------------------------------------------
(***************************************************************************)
(* acquire and the round trip.                                                *)
(***************************************************************************)
TakeLock(t) ==
  /\ pc[t] = "lock" /\ Turn(t, cur[t])
  /\ LET e == cur[t] IN
       /\ holder' = [holder EXCEPT ![e] = t]
       /\ queue' = [queue EXCEPT ![e] = Tail(@)]
       /\ Goto(t, IF connected[e] THEN "calling" ELSE "connecting", e)
       /\ IF connected[e] THEN Touch(e) ELSE UNCHANGED lru
  /\ UNCHANGED <<pool, connected, session, reg, key, attempt, calls, suspect, closed, countVars>>

Connect(t) ==
  /\ pc[t] = "connecting"
  /\ LET e == cur[t] IN
       /\ connected' = [connected EXCEPT ![e] = TRUE]
       /\ session' = [session EXCEPT ![e] = "ok"]
       /\ suspect' = Forget(e)
       /\ Touch(e)
       /\ Goto(t, "calling", e)
  /\ UNCHANGED <<pool, holder, queue, reg, key, attempt, calls, closed, countVars>>

\* The transport of an unused session dies (the server restarts, a proxy cuts the
\* stream).  A loss during a call is one of the call's own outcomes.
SessionLost(e) ==
  /\ session[e] = "ok" /\ Drivers(e) = {}
  /\ session' = [session EXCEPT ![e] = "lost"]
  /\ UNCHANGED <<pool, connected, holder, queue, lru, reg, pc, cur, key, attempt,
                 calls, suspect, closed, countVars>>

\* A result, or an error that is not reconnectable.  MCPClientWrapper swallows an
\* error of the session and answers over plain HTTP: the entry stays connected.
CallEnds(t) ==
  /\ pc[t] = "calling"
  /\ holder' = [holder EXCEPT ![cur[t]] = None]
  /\ session' = [session EXCEPT ![cur[t]] = IF @ = "lost" THEN "met" ELSE @]
  /\ Done(t)
  /\ UNCHANGED <<pool, connected, queue, lru, reg, calls, closed, countVars>>

\* Mutant: _mark_broken closes the session without taking its lock.
MarkBroken_NoLock(t) ==
  LET e == pool[key[t]]
      live == e # 0 /\ Live(e)
  IN /\ holder' = [holder EXCEPT ![cur[t]] = None]
     /\ IF live THEN Goto(t, "breaking", e) /\ UNCHANGED reg ELSE ToRegistry(t)
     /\ UNCHANGED <<queue, connected>>

\* The entry _mark_broken finds may not be the one that failed, and another task
\* may hold its lock.  If its wrapper has no session there is nothing to await.
MarkBroken(t) ==
  LET e == pool[key[t]]
      released == [holder EXCEPT ![cur[t]] = None]
      locked == e # 0 /\ (released[e] # None \/ queue[e] # <<>>)
      live == e # 0 /\ Live(e)
  IN \/ /\ locked
        /\ holder' = released
        /\ queue' = [queue EXCEPT ![e] = Append(@, t)]
        /\ Goto(t, "breakLock", e)
        /\ UNCHANGED <<reg, connected>>
     \/ /\ ~locked /\ live
        /\ holder' = [released EXCEPT ![e] = t]
        /\ Goto(t, "breaking", e)
        /\ UNCHANGED <<queue, reg, connected>>
     \/ /\ ~locked /\ ~live
        /\ holder' = released
        /\ connected' = [x \in Entry |-> connected[x] /\ x # e]
        /\ ToRegistry(t)
        /\ UNCHANGED queue

\* Mutant: the reconnect is made in a loop of three attempts.
Reconnects_Twice(t) == attempt[t] \in {1, 2}

\* The except around the first attempt: the second one has none.
Reconnects(t) == attempt[t] = 1

\* Mutant: _mark_broken inside `async with acquire', with the lock still held.
Fails_LockHeld(t) ==
  /\ pc[t] \in {"connecting", "calling"}
  /\ \/ /\ Reconnects(t)
        /\ attempt' = [attempt EXCEPT ![t] = @ + 1]
        /\ queue' = [queue EXCEPT ![cur[t]] = Append(@, t)]
        /\ Goto(t, "breakLock", cur[t])
        /\ UNCHANGED <<connected, key, holder, suspect, reg>>
     \/ /\ ~Reconnects(t)
        /\ holder' = [holder EXCEPT ![cur[t]] = None]
        /\ Done(t)
        /\ UNCHANGED <<queue, reg, connected>>
  /\ UNCHANGED <<pool, session, lru, calls, closed, countVars>>

\* A reconnectable error of connect or of the call: once it is handled, the
\* second time it is raised.
Fails(t) ==
  /\ pc[t] \in {"connecting", "calling"}
  /\ \/ /\ Reconnects(t)
        /\ attempt' = [attempt EXCEPT ![t] = @ + 1]
        /\ suspect' = [suspect EXCEPT ![t] = IF session[cur[t]] # "none"
                                             THEN cur[t] ELSE 0]
        /\ MarkBroken(t)
        /\ UNCHANGED key
     \/ /\ ~Reconnects(t)
        /\ holder' = [holder EXCEPT ![cur[t]] = None]
        /\ Done(t)
        /\ UNCHANGED <<queue, reg, connected>>
  /\ UNCHANGED <<pool, session, lru, calls, closed, countVars>>

TakeBreakLock(t) ==
  /\ pc[t] = "breakLock" /\ Turn(t, cur[t])
  /\ LET e == cur[t] IN
       /\ queue' = [queue EXCEPT ![e] = Tail(@)]
       /\ \/ /\ Live(e)
             /\ holder' = [holder EXCEPT ![e] = t]
             /\ Goto(t, "breaking", e)
             /\ UNCHANGED <<reg, connected>>
          \/ /\ ~Live(e)
             /\ connected' = [connected EXCEPT ![e] = FALSE]
             /\ ToRegistry(t)
             /\ UNCHANGED holder
  /\ UNCHANGED <<pool, session, lru, key, attempt, calls, suspect, closed, countVars>>

\* Mutant: the broken session is left in place.
Broken_NotClosed(t) ==
  /\ pc[t] = "breaking"
  /\ holder' = [holder EXCEPT ![cur[t]] = None]
  /\ ToRegistry(t)
  /\ UNCHANGED <<pool, connected, session, queue, lru, key, attempt, calls, suspect,
                 closed, countVars>>

\* The disconnect of a broken session returns.
Broken(t) ==
  /\ pc[t] = "breaking"
  /\ LET e == cur[t] IN
       /\ connected' = [connected EXCEPT ![e] = FALSE]
       /\ session' = [session EXCEPT ![e] = "none"]
       /\ holder' = [holder EXCEPT ![e] = None]
  /\ ToRegistry(t)
  /\ UNCHANGED <<pool, queue, lru, key, attempt, calls, suspect, closed, countVars>>

\* Mutant: the lock is taken and released by hand, without `async with'.
Timeout_KeepsLock(t) ==
  /\ pc[t] # "idle"
  /\ LET e == cur[t] IN
       /\ queue' = IF pc[t] \in Waiting THEN [queue EXCEPT ![e] = RemoveFirst(@, t)]
                                        ELSE queue
       /\ session' = IF pc[t] \in {"evicting", "breaking"}
                     THEN [session EXCEPT ![e] = "none"] ELSE session
  /\ reg' = RemoveFirst(reg, t)
  /\ Done(t)
  /\ UNCHANGED <<pool, connected, holder, lru, calls, closed, countVars>>

\* The router's wait_for cancels the call at its await.  Every lock is released;
\* an interrupted disconnect has dropped the session and left `connected' set.
Timeout(t) ==
  /\ pc[t] # "idle"
  /\ LET e == cur[t] IN
       /\ holder' = IF pc[t] \in UnderLock THEN [holder EXCEPT ![e] = None]
                                           ELSE holder
       /\ queue' = IF pc[t] \in Waiting THEN [queue EXCEPT ![e] = RemoveFirst(@, t)]
                                        ELSE queue
       /\ session' = IF pc[t] \in {"evicting", "breaking"}
                     THEN [session EXCEPT ![e] = "none"] ELSE session
  /\ reg' = RemoveFirst(reg, t)
  /\ Done(t)
  /\ UNCHANGED <<pool, connected, lru, calls, closed, countVars>>

-----------------------------------------------------------------------------
(***************************************************************************)
(* evict_idle, called by the health monitor between two rounds of checks, and  *)
(* aclose_all.                                                                *)
(***************************************************************************)
Sweep ==
  /\ pc[Monitor] = "idle" /\ sweeps < MaxSweeps /\ ~closed
  /\ sweeps' = sweeps + 1
  /\ ToRegistry(Monitor)
  /\ UNCHANGED <<entryVars, idle, peak, key, attempt, calls, suspect, closed>>

\* Which unlocked entries have been idle for too long is decided once, under
\* _registry_lock; they are then closed one after the other.
SweepStart ==
  /\ AtRegistry(Monitor)
  /\ \E stale \in SUBSET Unlocked :
       IF stale = {}
       THEN Goto(Monitor, "idle", 0) /\ reg' = Tail(reg) /\ UNCHANGED idle
       ELSE \E e \in stale : /\ Goto(Monitor, "evicting", e)
                             /\ idle' = stale \ {e}
                             /\ UNCHANGED reg
  /\ UNCHANGED <<entryVars, sweeps, peak, key, attempt, calls, suspect, closed>>

\* The entry v is closed and taken out of the dictionary.
Drop(v) ==
  /\ connected' = [connected EXCEPT ![v] = FALSE]
  /\ session' = [session EXCEPT ![v] = "none"]
  /\ pool' = [k \in Key |-> IF pool[k] = v THEN 0 ELSE pool[k]]
  /\ lru' = RemoveFirst(lru, v)

\* One stale entry is dropped, whatever has happened to it since; the last one ends
\* the sweep.
SweepNext ==
  /\ pc[Monitor] = "evicting"
  /\ Drop(cur[Monitor])
  /\ IF idle = {}
     THEN Goto(Monitor, "idle", 0) /\ reg' = Tail(reg) /\ UNCHANGED idle
     ELSE \E e \in idle : /\ Goto(Monitor, "evicting", e)
                          /\ idle' = idle \ {e}
                          /\ UNCHANGED reg
  /\ UNCHANGED <<holder, queue, sweeps, peak, key, attempt, calls, suspect, closed>>

\* Lifespan shutdown, after the monitor is stopped and every caller is drained.
AcloseAll ==
  /\ ~closed /\ \A t \in Actor : pc[t] = "idle"
  /\ pool' = [k \in Key |-> 0]
  /\ lru' = <<>>
  /\ connected' = [e \in Entry |-> connected[e] /\ e \notin Pooled]
  /\ session' = [e \in Entry |-> IF e \in Pooled /\ connected[e] THEN "none"
                                 ELSE session[e]]
  /\ closed' = TRUE
  /\ UNCHANGED <<holder, queue, reg, pc, cur, key, attempt, calls, suspect, countVars>>

Stopped == closed /\ UNCHANGED vars

-----------------------------------------------------------------------------
Step(t) ==
  \/ Lookup(t) \/ CreateEntry(t) \/ EvictStart(t) \/ EvictDone(t)
  \/ TakeLock(t) \/ Connect(t) \/ CallEnds(t) \/ Fails(t)
  \/ TakeBreakLock(t) \/ Broken(t)

MonitorStep == SweepStart \/ SweepNext

Next == \/ \E t \in Task : Step(t) \/ Timeout(t) \/ \E k \in Key : Call(t, k)
        \/ \E e \in Entry : SessionLost(e)
        \/ Sweep \/ MonitorStep
        \/ AcloseAll \/ Stopped

Spec == Init /\ [][Next]_vars

\* The loop resumes every ready task; connect, call and disconnect come back.
\* No timeout is needed for progress.
FairSpec == /\ Spec
            /\ \A t \in Task : WF_vars(Step(t))
            /\ WF_vars(MonitorStep)

-----------------------------------------------------------------------------
(***************************************************************************)
(* Properties.                                                                *)
(***************************************************************************)

\* Whatever happens to an entry while callers wait for it -- eviction, a broken
\* session, a timeout -- connect, call and the closing of a broken session never
\* overlap on one wrapper.  (An eviction may: see SessionNotShared.)
CallersSerialized ==
  \A e \in Entry : Cardinality({t \in Drivers(e) : pc[t] \in UnderLock}) <= 1

\* As long as no more calls overlap than the pool is configured to hold, it holds no
\* more entries than that, which is the case test_capacity_evicts_lru tries.  When more
\* overlap, and every entry is locked, the pool outgrows its size, against config.py
\* ("holds at most remote_pool_max_size distinct endpoints") -- and keeps the entries
\* when the calls are over -- but never by more than the calls that overlapped.
PoolBounded == Cardinality(Pooled) <= Max({MaxSize, peak})

\* The transparent reconnect is one: the second attempt never goes out on the very
\* session that failed the first.
RetryOnFreshSession ==
  \A t \in Task : attempt[t] = 2 /\ pc[t] = "calling" /\ session[cur[t]] # "none"
                    => suspect[t] # cur[t]

\* Every exit of acquire and _mark_broken -- result, error, timeout at any await --
\* gives its lock back and leaves its queue: a lock is held exactly by the task
\* that works under it, and a queue holds exactly the tasks that wait in it.
LocksReleased ==
  /\ \A e \in Entry, t \in Task :
       holder[e] = t <=> (cur[t] = e /\ pc[t] \in UnderLock)
  /\ \A e \in Entry : \A n \in DOMAIN queue[e] :
       cur[queue[e][n]] = e /\ pc[queue[e][n]] \in Waiting

\* No order of the two levels of locks, the reconnect and the evictions leaves the
\* callers waiting for each other: every call ends, without the help of a timeout.
EveryCallEnds == \A t \in Task : []<>(pc[t] = "idle")

\* connection_pool.py: "the session is reused across invocations but never used
\* concurrently".
SessionNotShared ==
  \A e \in Entry : session[e] # "none" => Cardinality(Drivers(e)) <= 1

\* connection_pool.py, _RECONNECTABLE: a session found broken is replaced by a
\* reconnect, so no later call is sent over it.
BrokenSessionReplaced == \A t \in Task : pc[t] = "calling" => session[cur[t]] # "met"

=============================================================================
