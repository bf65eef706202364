-------------------------- MODULE ExecutionService --------------------------
(***************************************************************************)
(* Invocation orchestration: app/services/execution_service.py with the    *)
(* cancellation registry (app/core/runtime/cancellation.py), the status     *)
(* column of mcp_invocations and the final events of the event bus.         *)
(*                                                                         *)
(* Everything runs on one asyncio loop, so a step of the model is the code   *)
(* between two awaits and `pc' names the await a task is parked at.          *)
(* Between two steps of one invocation every other invocation, the DELETE    *)
(* handler and the lifespan shutdown may run.  What is awaited may fail: a   *)
(* database write raises, a publish is lost (EventBus.publish swallows the   *)
(* error), a tool times out or raises.                                       *)
(***************************************************************************)
EXTENDS Integers, Sequences, FiniteSets

CONSTANTS Inv,            \* invocation ids
          MaxConcurrent,  \* settings.max_concurrent_invocations
          MaxRetries      \* MAX_RETRIES

ASSUME InvAssumption == IsFiniteSet(Inv)
ASSUME MaxConcurrentAssumption == MaxConcurrent \in Nat \ {0}
ASSUME MaxRetriesAssumption == MaxRetries \in Nat

VARIABLES
  pc,         \* the await each invocation's task is parked at
  mode,       \* "sync": invoke in a request; "async": a tracked background task
  attempt,    \* the loop variable of _run
  lastError,  \* the class of last_error
  cancelEv,   \* CancellationRegistry._events: no entry, event clear, event set
  status,     \* mcp_invocations.status, "absent" before the row is inserted
  finals,     \* final events that reached the invocation's channel
  value,      \* the free slots of the semaphore
  waiters,    \* the tasks waiting for a slot, in order of arrival
  phase,      \* the process: serving, draining in shutdown(), gone
  interrupt,  \* asyncio.Task.cancel of the background task
  \* History, read by no guard:
  runs,       \* attempts that reached execution_router.route
  returned,   \* some attempt's tool returned a result
  ackedAt,    \* runs when DELETE answered 204, -1 before
  dbFailed    \* some database call of the invocation raised after its insert

taskVars == <<pc, mode, attempt, lastError>>
semVars == <<value, waiters>>
histVars == <<runs, returned, ackedAt, dbFailed>>
vars == <<pc, mode, attempt, lastError, cancelEv, status, finals, value,
          waiters, phase, interrupt, runs, returned, ackedAt, dbFailed>>

-----------------------------------------------------------------------------
(***************************************************************************)
(* The awaits.  queued: the semaphore; starting: a slot is held, the        *)
(* RUNNING update is under way; announcing: the first log; retrying: the     *)
(* log of a retry; calling: route; completing, publishing, auditing: what    *)
(* follows a result; backoff: the error log and the sleep; failing,           *)
(* reporting: after the loop; cancelling: _mark_cancelled at the top of the   *)
(* loop; aborting: _mark_cancelled in the CancelledError handler; closing:    *)
(* the exit of the background task's database session.                        *)
(***************************************************************************)
Attempting == {"retrying", "calling", "completing", "publishing", "auditing"}
Holding == Attempting \cup {"starting", "announcing", "backoff", "failing",
                            "reporting", "cancelling", "aborting"}
Alive == Holding \cup {"queued", "closing"}
Pc == Alive \cup {"absent", "scheduled", "ended"}

Terminal == {"done", "failed", "cancelled"}
Status == Terminal \cup {"absent", "pending", "running"}

ErrorClass == {"transient", "fatal"}

Holders == {i \in Inv : pc[i] \in Holding}

TypeOK ==
  /\ pc \in [Inv -> Pc]
  /\ mode \in [Inv -> {"sync", "async"}]
  /\ attempt \in [Inv -> 0 .. MaxRetries]
  /\ lastError \in [Inv -> ErrorClass \cup {"none"}]
  /\ cancelEv \in [Inv -> {"none", "clear", "set"}]
  /\ status \in [Inv -> Status]
  /\ finals \in [Inv -> SUBSET {"result", "error"}]
  /\ value \in 0 .. MaxConcurrent
  /\ waiters \in Seq(Inv)
  /\ phase \in {"up", "draining", "down"}
  /\ interrupt \in [Inv -> {"none", "requested", "delivered"}]
  /\ runs \in [Inv -> 0 .. MaxRetries + 1]
  /\ returned \in [Inv -> BOOLEAN]
  /\ ackedAt \in [Inv -> -1 .. MaxRetries + 1]
  /\ dbFailed \in [Inv -> BOOLEAN]

Init ==
  /\ pc = [i \in Inv |-> "absent"]
  /\ mode = [i \in Inv |-> "sync"]
  /\ attempt = [i \in Inv |-> 0]
  /\ lastError = [i \in Inv |-> "none"]
  /\ cancelEv = [i \in Inv |-> "none"]
  /\ status = [i \in Inv |-> "absent"]
  /\ finals = [i \in Inv |-> {}]
  /\ value = MaxConcurrent
  /\ waiters = <<>>
  /\ phase = "up"
  /\ interrupt = [i \in Inv |-> "none"]
  /\ runs = [i \in Inv |-> 0]
  /\ returned = [i \in Inv |-> FALSE]
  /\ ackedAt = [i \in Inv |-> -1]
  /\ dbFailed = [i \in Inv |-> FALSE]

-----------------------------------------------------------------------------
(***************************************************************************)
(* asyncio.Semaphore as `async with self._get_semaphore()' uses it: first    *)
(* come first served, and a released slot goes straight to the first waiter. *)
(***************************************************************************)

\* i arrives at the semaphore: it takes a free slot or waits its turn.
EnterSemaphore(i) ==
  IF value > 0 /\ waiters = <<>>
  THEN /\ pc' = [pc EXCEPT ![i] = "starting"]
       /\ value' = value - 1
       /\ UNCHANGED waiters
  ELSE /\ pc' = [pc EXCEPT ![i] = "queued"]
       /\ waiters' = Append(waiters, i)
       /\ UNCHANGED value

\* Where the task goes when _run returns or raises: a background task closes
\* its database session first, a request unregisters at once and answers.
AfterRun(i) == IF mode[i] = "async" THEN "closing" ELSE "ended"

\* Mutant: invoke without its finally.
UnregisterSync_Skipped(i) == UNCHANGED cancelEv

\* CancellationRegistry.unregister in the finally of invoke; the background
\* task does the same after the session is closed.
UnregisterSync(i) ==
  cancelEv' = [cancelEv EXCEPT ![i] = IF mode[i] = "sync" THEN "none" ELSE @]

\* Mutant: the slot is given back and nobody is woken.
LeaveRun_NoWake(i) ==
  /\ pc' = [pc EXCEPT ![i] = AfterRun(i)]
  /\ value' = value + 1
  /\ UNCHANGED waiters
  /\ UnregisterSync(i)
  /\ attempt' = [attempt EXCEPT ![i] = 0]
  /\ lastError' = [lastError EXCEPT ![i] = "none"]

\* i leaves `async with' and _run (return or exception): its slot goes to the
\* first waiter, its local variables are gone.
LeaveRun(i) ==
  /\ IF waiters = <<>>
     THEN /\ pc' = [pc EXCEPT ![i] = AfterRun(i)]
          /\ value' = value + 1
          /\ UNCHANGED waiters
     ELSE /\ pc' = [pc EXCEPT ![i] = AfterRun(i), ![Head(waiters)] = "starting"]
          /\ waiters' = Tail(waiters)
          /\ UNCHANGED value
  /\ UnregisterSync(i)
  /\ attempt' = [attempt EXCEPT ![i] = 0]
  /\ lastError' = [lastError EXCEPT ![i] = "none"]

-----------------------------------------------------------------------------
(***************************************************************************)
(* Requests.  invoke registers at once and enters _run; invoke_async only     *)
(* schedules the task, which registers when the loop first runs it.           *)
(***************************************************************************)
Fresh(i) == phase = "up" /\ pc[i] = "absent"

InvokeSync(i) ==
  /\ Fresh(i)
  /\ status' = [status EXCEPT ![i] = "pending"]
  /\ cancelEv' = [cancelEv EXCEPT ![i] = "clear"]
  /\ EnterSemaphore(i)
  /\ UNCHANGED <<mode, attempt, lastError, finals, phase, interrupt, histVars>>

InvokeAsync(i) ==
  /\ Fresh(i)
  /\ status' = [status EXCEPT ![i] = "pending"]
  /\ mode' = [mode EXCEPT ![i] = "async"]
  /\ pc' = [pc EXCEPT ![i] = "scheduled"]
  /\ UNCHANGED <<attempt, lastError, cancelEv, finals, semVars, phase,
                 interrupt, histVars>>

\* The row is committed and the refresh after it raises: the request ends before
\* anything is registered or scheduled.
CreateRaises(i) ==
  /\ Fresh(i)
  /\ status' = [status EXCEPT ![i] = "pending"]
  /\ pc' = [pc EXCEPT ![i] = "ended"]
  /\ dbFailed' = [dbFailed EXCEPT ![i] = TRUE]
  /\ UNCHANGED <<mode, attempt, lastError, cancelEv, finals, semVars, phase,
                 interrupt, runs, returned, ackedAt>>

\* A step of i's task that is not the delivery of a CancelledError.
At(i, p) == pc[i] = p /\ interrupt[i] # "requested"

RunBackground(i) ==
  /\ At(i, "scheduled")
  /\ cancelEv' = [cancelEv EXCEPT ![i] = "clear"]
  /\ EnterSemaphore(i)
  /\ UNCHANGED <<mode, attempt, lastError, status, finals, phase, interrupt,
                 histVars>>

-----------------------------------------------------------------------------
(***************************************************************************)
(* _run, between two awaits at a time.                                        *)
(***************************************************************************)

\* A status write that commits, and one that raises.
Write(i, s) ==
  status' = [status EXCEPT ![i] = s] /\ UNCHANGED dbFailed
WriteRaises(i) ==
  dbFailed' = [dbFailed EXCEPT ![i] = TRUE] /\ UNCHANGED status

\* EventBus.publish: the event reaches the channel or is lost.
Publish(i, kind) ==
  \E sent \in {{}, {kind}} : finals' = [finals EXCEPT ![i] = @ \cup sent]

MarkRunning(i) ==
  /\ At(i, "starting")
  /\ Write(i, "running")
  /\ pc' = [pc EXCEPT ![i] = "announcing"]
  /\ UNCHANGED <<mode, attempt, lastError, cancelEv, finals, semVars, phase,
                 interrupt, runs, returned, ackedAt>>

\* Mutant: the error of the RUNNING update is logged and the tool runs anyway.
MarkRunningRaises_Swallowed(i) ==
  /\ At(i, "starting")
  /\ WriteRaises(i)
  /\ pc' = [pc EXCEPT ![i] = "announcing"]
  /\ UNCHANGED <<mode, attempt, lastError, cancelEv, finals, semVars, phase,
                 interrupt, runs, returned, ackedAt>>

\* The RUNNING update is outside the try: its error leaves _run.
MarkRunningRaises(i) ==
  /\ At(i, "starting")
  /\ WriteRaises(i)
  /\ LeaveRun(i)
  /\ UNCHANGED <<mode, finals, phase, interrupt, runs,
                 returned, ackedAt>>

CallTool(i) ==
  /\ pc' = [pc EXCEPT ![i] = "calling"]
  /\ runs' = [runs EXCEPT ![i] = @ + 1]

\* Mutant: the cancelled branch returns without _mark_cancelled.
FirstAttempt_NoMark(i) ==
  /\ At(i, "announcing")
  /\ IF cancelEv[i] = "set"
     THEN LeaveRun(i) /\ UNCHANGED runs
     ELSE CallTool(i) /\ UNCHANGED <<attempt, lastError, cancelEv, semVars>>
  /\ UNCHANGED <<mode, status, finals, phase, interrupt, returned, ackedAt,
                 dbFailed>>

\* The top of the loop for the first attempt: the event is read, then route
\* is awaited without another await in between.
FirstAttempt(i) ==
  /\ At(i, "announcing")
  /\ IF cancelEv[i] = "set"
     THEN pc' = [pc EXCEPT ![i] = "cancelling"] /\ UNCHANGED runs
     ELSE CallTool(i)
  /\ UNCHANGED <<mode, attempt, lastError, cancelEv, status, finals, semVars,
                 phase, interrupt, returned, ackedAt, dbFailed>>

\* Mutant: the event is read before the first attempt only.
NextAttempt_NoCheck(i) ==
  /\ At(i, "backoff")
  /\ attempt' = [attempt EXCEPT ![i] = @ + 1]
  /\ pc' = [pc EXCEPT ![i] = "retrying"]
  /\ UNCHANGED <<mode, lastError, cancelEv, status, finals, semVars, phase,
                 interrupt, histVars>>

\* The sleep is over: the next attempt reads the event, then publishes its log.
NextAttempt(i) ==
  /\ At(i, "backoff")
  /\ attempt' = [attempt EXCEPT ![i] = @ + 1]
  /\ pc' = [pc EXCEPT ![i] = IF cancelEv[i] = "set" THEN "cancelling"
                                                     ELSE "retrying"]
  /\ UNCHANGED <<mode, lastError, cancelEv, status, finals, semVars, phase,
                 interrupt, histVars>>

\* The retry log is out; the event is not read again before route.
RetryTool(i) ==
  /\ At(i, "retrying")
  /\ CallTool(i)
  /\ UNCHANGED <<mode, attempt, lastError, cancelEv, status, finals, semVars,
                 phase, interrupt, returned, ackedAt, dbFailed>>

\* Mutant: the result is published before it is committed.
ToolReturns_PublishFirst(i) ==
  /\ At(i, "calling")
  /\ returned' = [returned EXCEPT ![i] = TRUE]
  /\ Publish(i, "result")
  /\ pc' = [pc EXCEPT ![i] = "completing"]
  /\ UNCHANGED <<mode, attempt, lastError, cancelEv, status, semVars, phase,
                 interrupt, runs, ackedAt, dbFailed>>

ToolReturns(i) ==
  /\ At(i, "calling")
  /\ returned' = [returned EXCEPT ![i] = TRUE]
  /\ pc' = [pc EXCEPT ![i] = "completing"]
  /\ UNCHANGED <<mode, attempt, lastError, cancelEv, status, finals, semVars,
                 phase, interrupt, runs, ackedAt, dbFailed>>

\* Mutants: one retry too many; every error is retried.
MayRetry_OneMore(i, e) == attempt[i] <= MaxRetries /\ e = "transient"
MayRetry_AnyError(i, e) == attempt[i] < MaxRetries

\* attempt < MAX_RETRIES and a transient error: sleep and try again.
MayRetry(i, e) == attempt[i] < MaxRetries /\ e = "transient"

\* The two except clauses: TimeoutError is transient, any other error is
\* classified by _is_transient.
Except(i, e) ==
  /\ lastError' = [lastError EXCEPT ![i] = e]
  /\ pc' = [pc EXCEPT ![i] = IF MayRetry(i, e) THEN "backoff" ELSE "failing"]

ToolRaises(i) ==
  /\ At(i, "calling")
  /\ \E e \in ErrorClass : Except(i, e)
  /\ UNCHANGED <<mode, attempt, cancelEv, status, finals, semVars, phase,
                 interrupt, histVars>>

MarkDone(i) ==
  /\ At(i, "completing")
  /\ Write(i, "done")
  /\ pc' = [pc EXCEPT ![i] = "publishing"]
  /\ UNCHANGED <<mode, attempt, lastError, cancelEv, finals, semVars, phase,
                 interrupt, runs, returned, ackedAt>>

\* _mark_done is inside the try: its error is handled like the tool's own.
MarkDoneRaises(i) ==
  /\ At(i, "completing")
  /\ WriteRaises(i)
  /\ \E e \in ErrorClass : Except(i, e)
  /\ UNCHANGED <<mode, attempt, cancelEv, finals, semVars, phase, interrupt,
                 runs, returned, ackedAt>>

\* Mutant: publish lets a Redis error out, and the except clause handles it.
PublishResult_Raises(i) ==
  /\ At(i, "publishing")
  /\ \/ Publish(i, "result") /\ pc' = [pc EXCEPT ![i] = "auditing"]
                             /\ UNCHANGED lastError
     \/ Except(i, "fatal") /\ UNCHANGED finals
  /\ UNCHANGED <<mode, attempt, cancelEv, status, semVars, phase, interrupt,
                 histVars>>

PublishResult(i) ==
  /\ At(i, "publishing")
  /\ Publish(i, "result")
  /\ pc' = [pc EXCEPT ![i] = "auditing"]
  /\ UNCHANGED <<mode, attempt, lastError, cancelEv, status, semVars, phase,
                 interrupt, histVars>>

\* The audit log is a plain log event; then _run returns the result.
Audit(i) ==
  /\ At(i, "auditing")
  /\ LeaveRun(i)
  /\ UNCHANGED <<mode, status, finals, phase, interrupt,
                 histVars>>

MarkFailed(i) ==
  /\ At(i, "failing")
  /\ Write(i, "failed")
  /\ pc' = [pc EXCEPT ![i] = "reporting"]
  /\ UNCHANGED <<mode, attempt, lastError, cancelEv, finals, semVars, phase,
                 interrupt, runs, returned, ackedAt>>

PublishError(i) ==
  /\ At(i, "reporting")
  /\ Publish(i, "error")
  /\ LeaveRun(i)
  /\ UNCHANGED <<mode, status, phase, interrupt, histVars>>

\* _mark_cancelled, from the top of the loop or from the CancelledError
\* handler; no final event follows.
MarkCancelled(i) ==
  /\ At(i, "cancelling") \/ At(i, "aborting")
  /\ Write(i, "cancelled")
  /\ LeaveRun(i)
  /\ UNCHANGED <<mode, finals, phase, interrupt, runs, returned,
                 ackedAt>>

\* Neither _mark_failed nor _mark_cancelled is inside a try.
MarkRaises(i) ==
  /\ At(i, "failing") \/ At(i, "cancelling") \/ At(i, "aborting")
  /\ WriteRaises(i)
  /\ LeaveRun(i)
  /\ UNCHANGED <<mode, finals, phase, interrupt, runs, returned,
                 ackedAt>>

\* The end of _run_background: session closed, unregister, done callback.
CloseSession(i) ==
  /\ At(i, "closing")
  /\ pc' = [pc EXCEPT ![i] = "ended"]
  /\ cancelEv' = [cancelEv EXCEPT ![i] = "none"]
  /\ UNCHANGED <<mode, attempt, lastError, status, finals, semVars, phase,
                 interrupt, histVars>>

-----------------------------------------------------------------------------
(***************************************************************************)
(* DELETE /execute/{id}: the row exists and the registry has a clear event.   *)
(* Otherwise the answer is 404 or 409 and nothing changes.                    *)
(***************************************************************************)
Cancel(i) ==
  /\ phase = "up"
  /\ status[i] # "absent"
  /\ cancelEv[i] = "clear"
  /\ cancelEv' = [cancelEv EXCEPT ![i] = "set"]
  /\ ackedAt' = [ackedAt EXCEPT ![i] = runs[i]]
  /\ UNCHANGED <<taskVars, status, finals, semVars, phase, interrupt, runs,
                 returned, dbFailed>>

-----------------------------------------------------------------------------
(***************************************************************************)
(* Shutdown.  The server has answered its requests before the lifespan's      *)
(* second half runs; shutdown() cancels every tracked task and waits for all  *)
(* of them.  A cancelled task's next step raises CancelledError at its await; *)
(* what it awaited may already have taken effect.                             *)
(***************************************************************************)
Tracked(i) == mode[i] = "async" /\ pc[i] \notin {"absent", "ended"}

Shutdown ==
  /\ phase = "up"
  /\ \A i \in Inv : mode[i] = "sync" => pc[i] \in {"absent", "ended"}
  /\ phase' = "draining"
  /\ interrupt' = [i \in Inv |-> IF Tracked(i) THEN "requested"
                                               ELSE interrupt[i]]
  /\ UNCHANGED <<taskVars, cancelEv, status, finals, semVars, histVars>>

Interrupted(i, p) ==
  /\ pc[i] = p /\ interrupt[i] = "requested"
  /\ interrupt' = [interrupt EXCEPT ![i] = "delivered"]

\* The task had not started: its coroutine never runs.
InterruptScheduled(i) ==
  /\ Interrupted(i, "scheduled")
  /\ pc' = [pc EXCEPT ![i] = "ended"]
  /\ UNCHANGED <<mode, attempt, lastError, cancelEv, status, finals, semVars,
                 phase, histVars>>

RemoveWaiter(q, k) == SubSeq(q, 1, k - 1) \o SubSeq(q, k + 1, Len(q))

\* Mutant: the slot is released although it was never acquired.
InterruptQueued_Releases(i) ==
  /\ Interrupted(i, "queued")
  /\ \E k \in 1 .. Len(waiters) : /\ waiters[k] = i
                                  /\ waiters' = RemoveWaiter(waiters, k)
  /\ value' = value + 1
  /\ pc' = [pc EXCEPT ![i] = AfterRun(i)]
  /\ UNCHANGED <<mode, attempt, lastError, cancelEv, status, finals, phase,
                 histVars>>

\* Waiting for a slot: the waiter leaves the queue and the error leaves _run.
InterruptQueued(i) ==
  /\ Interrupted(i, "queued")
  /\ \E k \in 1 .. Len(waiters) : /\ waiters[k] = i
                                  /\ waiters' = RemoveWaiter(waiters, k)
  /\ pc' = [pc EXCEPT ![i] = AfterRun(i)]
  /\ UNCHANGED <<mode, attempt, lastError, cancelEv, status, finals, value,
                 phase, histVars>>

\* Inside the try: the handler starts _mark_cancelled, whatever the row says.
InterruptAttempt(i) ==
  /\ \E p \in Attempting : Interrupted(i, p)
  /\ pc' = [pc EXCEPT ![i] = "aborting"]
  /\ \/ UNCHANGED <<status, finals>>
     \/ /\ pc[i] = "completing"
        /\ status' = [status EXCEPT ![i] = "done"]
        /\ UNCHANGED finals
     \/ /\ pc[i] = "publishing"
        /\ Publish(i, "result")
        /\ UNCHANGED status
  /\ UNCHANGED <<mode, attempt, lastError, cancelEv, semVars, phase, histVars>>

\* The status that an await outside the try was writing.
PendingWrite == [starting |-> "running", failing |-> "failed",
                 cancelling |-> "cancelled"]

\* Outside the try, an except clause included: the error leaves _run and the
\* row keeps what it has.
InterruptOutside(i) ==
  /\ \E p \in Holding \ (Attempting \cup {"aborting"}) : Interrupted(i, p)
  /\ \/ UNCHANGED <<status, finals>>
     \/ /\ pc[i] \in DOMAIN PendingWrite
        /\ status' = [status EXCEPT ![i] = PendingWrite[pc[i]]]
        /\ UNCHANGED finals
     \/ /\ pc[i] = "reporting"
        /\ Publish(i, "error")
        /\ UNCHANGED status
  /\ LeaveRun(i)
  /\ UNCHANGED <<mode, phase, histVars>>

\* The close of the session is shielded; the finally still unregisters.
InterruptClosing(i) ==
  /\ Interrupted(i, "closing")
  /\ pc' = [pc EXCEPT ![i] = "ended"]
  /\ cancelEv' = [cancelEv EXCEPT ![i] = "none"]
  /\ UNCHANGED <<mode, attempt, lastError, status, finals, semVars, phase,
                 histVars>>

\* Mutant: shutdown() does not wait for the tasks it cancels.
ShutdownReturns_NoGather ==
  /\ phase = "draining"
  /\ phase' = "down"
  /\ UNCHANGED <<taskVars, cancelEv, status, finals, semVars, interrupt,
                 histVars>>

\* gather returns when every cancelled task is done; the process then exits.
ShutdownReturns ==
  /\ phase = "draining"
  /\ \A i \in Inv : ~Tracked(i)
  /\ phase' = "down"
  /\ UNCHANGED <<taskVars, cancelEv, status, finals, semVars, interrupt,
                 histVars>>

Stopped == phase = "down" /\ UNCHANGED vars

-----------------------------------------------------------------------------
Deliver(i) == \/ InterruptScheduled(i) \/ InterruptQueued(i)
              \/ InterruptAttempt(i) \/ InterruptOutside(i)
              \/ InterruptClosing(i)

TaskStep(i) ==
  \/ RunBackground(i) \/ MarkRunning(i) \/ MarkRunningRaises(i)
  \/ FirstAttempt(i) \/ NextAttempt(i) \/ RetryTool(i)
  \/ ToolReturns(i) \/ ToolRaises(i)
  \/ MarkDone(i) \/ MarkDoneRaises(i) \/ PublishResult(i) \/ Audit(i)
  \/ MarkFailed(i) \/ PublishError(i) \/ MarkCancelled(i) \/ MarkRaises(i)
  \/ CloseSession(i)
  \/ Deliver(i)

Request(i) ==
  InvokeSync(i) \/ InvokeAsync(i) \/ CreateRaises(i) \/ Cancel(i)

Next == \/ \E i \in Inv : Request(i) \/ TaskStep(i)
        \/ Shutdown \/ ShutdownReturns \/ Stopped

Spec == Init /\ [][Next]_vars

\* The loop runs every ready task, every tool call ends (route is awaited under
\* wait_for), every database and Redis call returns or raises.  Requests and
\* the shutdown are the environment's.
Fairness == /\ \A i \in Inv : WF_vars(TaskStep(i))
            /\ WF_vars(ShutdownReturns)

FairSpec == Spec /\ Fairness

-----------------------------------------------------------------------------
(***************************************************************************)
(* Properties.                                                                *)
(***************************************************************************)

\* On no path out of _run -- return, error, CancelledError while waiting,
\* working or sleeping -- is a slot lost or handed out twice: the free slots
\* and the tasks inside `async with' always add up, and no slot stays free
\* while a task waits for one.
SlotConservation ==
  /\ value + Cardinality(Holders) = MaxConcurrent
  /\ value > 0 => waiters = <<>>

\* What a poller of GET /execute/{id} may conclude from the row.
\* pending: the tool has not run; running: the task holds a slot, or it is gone
\* because shutdown interrupted it or a status write raised; done: the tool
\* returned; failed: it ran and never returned, unless the write of its result
\* raised; cancelled: a DELETE was answered 204 or the shutdown interrupted the
\* task.
RowTellsTruth ==
  \A i \in Inv :
    /\ status[i] = "pending" => runs[i] = 0
    /\ status[i] = "running" =>
         pc[i] \in Holding \/ interrupt[i] = "delivered" \/ dbFailed[i]
    /\ status[i] = "done" => returned[i]
    /\ status[i] = "failed" => runs[i] > 0 /\ (returned[i] => dbFailed[i])
    /\ status[i] = "cancelled" => ackedAt[i] >= 0 \/ interrupt[i] = "delivered"

\* A task that is over has left a terminal row, unless the shutdown interrupted
\* it or one of its database calls raised (a status write, or the refresh after
\* the insert): those two are the only ways to strand a row.
OnlyExcusedRowsStranded ==
  \A i \in Inv :
    pc[i] \in {"closing", "ended"} =>
      \/ status[i] \in Terminal
      \/ interrupt[i] = "delivered"
      \/ dbFailed[i]

\* The registry holds an entry exactly while the invocation's task is between
\* register and unregister: no exit path leaks one, none is dropped early.
RegistryMatchesTasks ==
  \A i \in Inv : cancelEv[i] # "none" <=> pc[i] \in Alive

\* A subscriber that sees the final event can trust the row: at most one kind
\* of final event is published, never before its row is committed.  A result
\* event may be followed by a cancelled row only when the shutdown interrupts
\* the task between the commit of DONE and the end of the audit log.
FinalEventTruthful ==
  \A i \in Inv :
    /\ finals[i] # {"result", "error"}
    /\ "error" \in finals[i] => status[i] = "failed"
    /\ "result" \in finals[i] =>
         status[i] = "done" \/ (interrupt[i] = "delivered"
                                 /\ status[i] = "cancelled")

\* What a 204 is worth: a cancel accepted before the tool first ran prevents it
\* from running, a later one lets at most one more attempt start (the event is
\* read before the retry log is awaited, not after).
CancelStopsAttempts ==
  \A i \in Inv : ackedAt[i] >= 0 =>
    /\ runs[i] <= ackedAt[i] + 1
    /\ ackedAt[i] = 0 => runs[i] = 0

\* When shutdown() has returned nothing is left behind: no background task, no
\* held slot, no registry entry.
ShutdownDrains ==
  phase = "down" =>
    /\ \A i \in Inv : pc[i] \in {"absent", "ended"} /\ cancelEv[i] = "none"
    /\ value = MaxConcurrent

\* Transient-only retries: a tool that ran is run again only if the attempt
\* before raised a transient error.
RetriesOnlyTransient ==
  [][\A i \in Inv : runs[i] > 0 /\ runs'[i] # runs[i] =>
       lastError[i] = "transient" /\ runs'[i] <= MaxRetries + 1]_vars

\* A terminal row is final, except that the CancelledError handler overwrites
\* DONE when the shutdown interrupts the publication of the result.
TerminalRowsStay ==
  [][\A i \in Inv : status[i] \in Terminal /\ status'[i] # status[i] =>
       /\ status[i] = "done" /\ status'[i] = "cancelled"
       /\ interrupt[i] = "delivered"]_vars

\* Every accepted invocation's task comes to an end, however many wait for a
\* slot and however many of them fail, retry or are cancelled.
EveryTaskEnds == \A i \in Inv : status[i] # "absent" ~> pc[i] = "ended"

\* README: "non-idempotent tools aren't re-run".  Once the tool has returned a
\* result, no later attempt runs it again.
SucceededToolRunsOnce == \A i \in Inv : returned[i] => pc[i] # "calling"

-----------------------------------------------------------------------------
(***************************************************************************)
(* Seen from outside, each invocation follows InvocationLifecycle: no step of *)
(* the service skips a state of the row, closes it twice, or publishes a       *)
(* final event that the row does not back.                                     *)
(***************************************************************************)
Lifecycle == INSTANCE InvocationLifecycle WITH
               Inv <- Inv, status <- status, finals <- finals

ImplementsLifecycle == Lifecycle!Spec

=============================================================================
