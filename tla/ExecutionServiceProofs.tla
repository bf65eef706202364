----------------------- MODULE ExecutionServiceProofs -----------------------
(***************************************************************************)
(* Machine-checked proofs about ExecutionService: for every set of             *)
(* invocations, every concurrency cap and every number of retries.             *)
(***************************************************************************)
EXTENDS ExecutionService, FiniteSetTheorems, SequenceTheorems, TLAPS

-----------------------------------------------------------------------------
(***************************************************************************)
(* The inductive invariant.  The properties are about a row, a registry entry *)
(* or a slot; none is inductive by itself, because the program counter carries *)
(* what the code has established on the way.                                   *)
(***************************************************************************)

\* The queue of the semaphore holds distinct tasks, all waiting.
QueueOK ==
  /\ \A k \in 1 .. Len(waiters) : pc[waiters[k]] = "queued"
  /\ \A k, l \in 1 .. Len(waiters) : waiters[k] = waiters[l] => k = l

\* Free slots and holders add up; no slot is free while a task waits.
SemOK == /\ value \in 0 .. MaxConcurrent
         /\ waiters \in Seq(Inv)
         /\ QueueOK
         /\ SlotConservation

\* The retry loop: how many attempts have run at each await.
AttemptOK(i) ==
  /\ pc[i] \in {"absent", "scheduled", "queued", "starting", "announcing"} =>
       attempt[i] = 0 /\ runs[i] = 0
  /\ pc[i] \in {"calling", "completing", "publishing", "auditing"} =>
       runs[i] = attempt[i] + 1
  /\ pc[i] = "retrying" =>
       runs[i] = attempt[i] /\ runs[i] > 0 /\ lastError[i] = "transient"
  /\ pc[i] = "backoff" =>
       /\ runs[i] = attempt[i] + 1 /\ attempt[i] < MaxRetries
       /\ lastError[i] = "transient"
  /\ pc[i] \in {"failing", "reporting"} => runs[i] > 0
  /\ pc[i] = "cancelling" => runs[i] <= MaxRetries

\* The row at each await.
RowOK(i) ==
  /\ pc[i] = "absent" <=> status[i] = "absent"
  /\ pc[i] \in {"scheduled", "queued", "starting"} => status[i] = "pending"
  /\ pc[i] \in {"announcing", "retrying", "calling", "completing", "backoff",
                "failing", "cancelling"} => status[i] = "running"
  /\ pc[i] \in {"publishing", "auditing"} => status[i] = "done" /\ returned[i]
  /\ pc[i] = "completing" => returned[i]
  /\ returned[i] /\ ~dbFailed[i] =>
       pc[i] \in {"completing", "publishing", "auditing", "aborting", "closing",
                  "ended"}
  /\ pc[i] = "reporting" => status[i] = "failed"
  /\ pc[i] = "aborting" =>
       status[i] \in {"running", "done"} /\ interrupt[i] = "delivered"
  /\ pc[i] \in {"closing", "ended"} =>
       status[i] \in Terminal \/ interrupt[i] = "delivered" \/ dbFailed[i]

\* The final events at each await.
EventOK(i) ==
  /\ pc[i] \notin {"auditing", "aborting", "closing", "ended"} => finals[i] = {}
  /\ pc[i] \in {"auditing", "aborting"} => "error" \notin finals[i]
  /\ pc[i] = "aborting" /\ finals[i] # {} => status[i] = "done"

\* What the row, the registry and the history say about each other.
TruthOK(i) ==
  /\ status[i] = "pending" => runs[i] = 0
  /\ status[i] = "done" => returned[i]
  /\ status[i] = "failed" => runs[i] > 0 /\ (returned[i] => dbFailed[i])
  /\ status[i] = "cancelled" => ackedAt[i] >= 0 \/ interrupt[i] = "delivered"
  /\ finals[i] # {"result", "error"}
  /\ "error" \in finals[i] => status[i] = "failed"
  /\ "result" \in finals[i] =>
       status[i] = "done" \/ (interrupt[i] = "delivered"
                              /\ status[i] = "cancelled")

\* The cancellation event at each await: while it is set, at most the attempt
\* that had passed the check may still start.
CancelOK(i) ==
  /\ cancelEv[i] # "none" <=> pc[i] \in Alive
  /\ cancelEv[i] = "clear" => ackedAt[i] = -1
  /\ cancelEv[i] = "set" => ackedAt[i] >= 0
  /\ pc[i] \in {"absent", "scheduled"} => ackedAt[i] = -1
  /\ pc[i] = "cancelling" => ackedAt[i] >= 0
  /\ ackedAt[i] >= 0 => /\ runs[i] <= ackedAt[i] + 1
                        /\ ackedAt[i] = 0 => runs[i] = 0
                        /\ pc[i] = "retrying" => runs[i] = ackedAt[i]

\* The shutdown: a cancelled task is a background task that is still there.
PhaseOK(i) ==
  /\ phase = "up" => interrupt[i] = "none"
  /\ interrupt[i] = "requested" => mode[i] = "async" /\ pc[i] \notin {"absent", "ended"}
  /\ phase # "up" /\ mode[i] = "sync" => pc[i] \in {"absent", "ended"}
  /\ phase = "down" => pc[i] \in {"absent", "ended"}

LocalOK(i) == /\ AttemptOK(i) /\ RowOK(i) /\ EventOK(i)
              /\ TruthOK(i) /\ CancelOK(i) /\ PhaseOK(i)

IndInv == TypeOK /\ SemOK /\ \A i \in Inv : LocalOK(i)

-----------------------------------------------------------------------------
(***************************************************************************)
(* The semaphore.                                                             *)
(***************************************************************************)

\* Finitely many tasks are inside `async with self._get_semaphore()'.
LEMMA HoldersFinite == IsFiniteSet(Holders)
  BY FS_Subset, InvAssumption DEF Holders

\* A step that keeps its task on the same side of `async with' leaves the
\* accounting of the semaphore alone.
LEMMA SemStay ==
  ASSUME SemOK, pc \in [Inv -> Pc], NEW i \in Inv, NEW p,
         pc[i] # "queued", pc[i] \in Holding <=> p \in Holding,
         pc' = [pc EXCEPT ![i] = p], UNCHANGED <<value, waiters>>
  PROVE  SemOK'
<1>1. Holders' = Holders
  BY DEF Holders
<1>2. QueueOK'
  BY DEF SemOK, QueueOK
<1>. QED  BY <1>1, <1>2 DEF SemOK, SlotConservation

\* Entering the semaphore (line 329 of execution_service.py) takes a free slot
\* or joins the queue.
LEMMA SemEnter ==
  ASSUME SemOK, pc \in [Inv -> Pc], NEW i \in Inv,
         pc[i] \notin Holding, pc[i] # "queued", EnterSemaphore(i)
  PROVE  SemOK'
<1>1. CASE value > 0 /\ waiters = <<>>
  <2>1. /\ pc' = [pc EXCEPT ![i] = "starting"]
        /\ value' = value - 1 /\ waiters' = waiters
    BY <1>1 DEF EnterSemaphore
  <2>2. Holders' = Holders \cup {i}
    BY <2>1 DEF Holders, Holding, Attempting
  <2>3. Cardinality(Holders') = Cardinality(Holders) + 1
    BY <2>2, HoldersFinite, FS_AddElement DEF Holders
  <2>4. QueueOK'
    BY <2>1, <1>1 DEF QueueOK
  <2>5. Cardinality(Holders) \in Nat
    BY HoldersFinite, FS_CardinalityType
  <2>. QED  BY <2>1, <2>3, <2>4, <2>5, <1>1, MaxConcurrentAssumption
            DEF SemOK, SlotConservation
<1>2. CASE ~(value > 0 /\ waiters = <<>>)
  <2>1. /\ pc' = [pc EXCEPT ![i] = "queued"]
        /\ value' = value /\ waiters' = Append(waiters, i)
    BY <1>2 DEF EnterSemaphore
  <2>2. Holders' = Holders
    BY <2>1 DEF Holders, Holding, Attempting
  <2>3. value = 0
    BY <1>2 DEF SemOK, SlotConservation
  <2>4. /\ waiters' \in Seq(Inv) /\ Len(waiters') = Len(waiters) + 1
        /\ \A k \in 1 .. Len(waiters) : waiters'[k] = waiters[k]
        /\ waiters'[Len(waiters) + 1] = i
    BY <2>1 DEF SemOK
  <2>5. QueueOK'
    <3>1. \A k \in 1 .. Len(waiters') :
            k \in 1 .. Len(waiters) \/ k = Len(waiters) + 1
      BY <2>4 DEF SemOK
    <3>2. \A k \in 1 .. Len(waiters) : waiters[k] \in Inv /\ waiters[k] # i
      BY DEF SemOK, QueueOK
    <3>3. \A k \in 1 .. Len(waiters') : pc'[waiters'[k]] = "queued"
      BY <2>1, <2>4, <3>1, <3>2 DEF SemOK, QueueOK
    <3>4. \A k, l \in 1 .. Len(waiters') : waiters'[k] = waiters'[l] => k = l
      BY <2>4, <3>1, <3>2 DEF SemOK, QueueOK
    <3>. QED  BY <3>3, <3>4 DEF QueueOK
  <2>. QED  BY <2>1, <2>2, <2>3, <2>4, <2>5 DEF SemOK, SlotConservation
<1>. QED  BY <1>1, <1>2

\* Leaving it returns the slot or hands it to the first waiter, who is waiting.
LEMMA SemLeave ==
  ASSUME SemOK, pc \in [Inv -> Pc], NEW i \in Inv,
         pc[i] \in Holding, LeaveRun(i)
  PROVE  /\ SemOK'
         /\ waiters # <<>> => /\ Head(waiters) \in Inv /\ Head(waiters) # i
                             /\ pc[Head(waiters)] = "queued"
<1>. USE DEF Holding, Attempting
<1>1. AfterRun(i) \notin Holding /\ AfterRun(i) # "queued"
  BY DEF AfterRun
<1>2. Cardinality(Holders) \in Nat
  BY HoldersFinite, FS_CardinalityType
<1>3. CASE waiters = <<>>
  <2>1. /\ pc' = [pc EXCEPT ![i] = AfterRun(i)]
        /\ value' = value + 1 /\ waiters' = waiters
    BY <1>3 DEF LeaveRun
  <2>2. Holders' = Holders \ {i}
    BY <2>1, <1>1 DEF Holders
  <2>3. i \in Holders
    BY DEF Holders
  <2>4. Cardinality(Holders') = Cardinality(Holders) - 1
    BY <2>2, <2>3, HoldersFinite, FS_RemoveElement
  <2>5. Cardinality(Holders') \in Nat
    <3>1. IsFiniteSet(Holders')
      BY <2>2, HoldersFinite, FS_RemoveElement
    <3>. QED  BY <3>1, FS_CardinalityType
  <2>6. QueueOK'
    BY <2>1, <1>3 DEF QueueOK
  <2>. QED  BY <2>1, <2>4, <2>5, <2>6, <1>2, <1>3, MaxConcurrentAssumption
            DEF SemOK, SlotConservation
<1>4. CASE waiters # <<>>
  <2>. DEFINE h == Head(waiters)
  <2>1. /\ pc' = [pc EXCEPT ![i] = AfterRun(i), ![h] = "starting"]
        /\ value' = value /\ waiters' = Tail(waiters)
    BY <1>4 DEF LeaveRun
  <2>2. /\ Len(waiters) \in Nat \ {0} /\ h = waiters[1] /\ h \in Inv
        /\ waiters' \in Seq(Inv) /\ Len(waiters') = Len(waiters) - 1
        /\ \A k \in 1 .. Len(waiters') : waiters'[k] = waiters[k + 1]
    BY <1>4, <2>1 DEF SemOK
  <2>3. pc[h] = "queued"
    BY <2>2 DEF SemOK, QueueOK
  <2>4. h # i
    BY <2>3
  <2>5. Holders' = (Holders \ {i}) \cup {h}
    BY <2>1, <2>2, <2>4, <1>1 DEF Holders
  <2>6. Cardinality(Holders') = Cardinality(Holders)
    <3>1. i \in Holders /\ h \notin Holders \ {i}
      BY <2>3 DEF Holders
    <3>2. /\ IsFiniteSet(Holders \ {i})
          /\ Cardinality(Holders \ {i}) = Cardinality(Holders) - 1
      BY <3>1, HoldersFinite, FS_RemoveElement
    <3>3. Cardinality((Holders \ {i}) \cup {h}) = Cardinality(Holders \ {i}) + 1
      BY <3>1, <3>2, FS_AddElement
    <3>. QED  BY <2>5, <3>2, <3>3, <1>2
  <2>7. QueueOK'
    <3>1. \A k \in 1 .. Len(waiters') :
            /\ k + 1 \in 1 .. Len(waiters) /\ k + 1 # 1
            /\ waiters'[k] = waiters[k + 1]
      BY <2>2
    <3>2. \A k \in 1 .. Len(waiters') :
            /\ waiters'[k] \in Inv /\ waiters'[k] # h /\ waiters'[k] # i
            /\ pc[waiters'[k]] = "queued"
      BY <2>2, <3>1 DEF SemOK, QueueOK
    <3>3. \A k \in 1 .. Len(waiters') : pc'[waiters'[k]] = "queued"
      BY <2>1, <3>2
    <3>4. \A k, l \in 1 .. Len(waiters') : waiters'[k] = waiters'[l] => k = l
      BY <2>2, <3>1 DEF SemOK, QueueOK
    <3>. QED  BY <3>3, <3>4 DEF QueueOK
  <2>8. value = 0
    BY <1>4 DEF SemOK, SlotConservation
  <2>. QED  BY <2>1, <2>2, <2>3, <2>4, <2>6, <2>7, <2>8, <1>2
            DEF SemOK, SlotConservation
<1>. QED  BY <1>3, <1>4

\* A waiter that is interrupted leaves the queue; the others keep their order.
LEMMA SemRemove ==
  ASSUME SemOK, pc \in [Inv -> Pc], NEW i \in Inv, NEW k \in 1 .. Len(waiters),
         pc[i] = "queued", waiters[k] = i, waiters' = RemoveWaiter(waiters, k),
         pc' = [pc EXCEPT ![i] = AfterRun(i)], value' = value
  PROVE  SemOK'
<1>1. Holders' = Holders
  BY DEF Holders, Holding, Attempting, AfterRun
<1>2. /\ waiters' \in Seq(Inv) /\ Len(waiters') = Len(waiters) - 1
      /\ \A l \in 1 .. Len(waiters') :
           waiters'[l] = IF l < k THEN waiters[l] ELSE waiters[l + 1]
  <2>. DEFINE a == SubSeq(waiters, 1, k - 1)
              b == SubSeq(waiters, k + 1, Len(waiters))
  <2>1. /\ Len(waiters) \in Nat /\ k \in Int
        /\ \A l \in 1 .. Len(waiters) : waiters[l] \in Inv
    BY DEF SemOK
  <2>2. /\ a \in Seq(Inv) /\ Len(a) = k - 1
        /\ \A l \in 1 .. k - 1 : a[l] = waiters[l]
    BY <2>1, SubSeqProperties
  <2>3. /\ b \in Seq(Inv) /\ Len(b) = Len(waiters) - k
        /\ \A l \in 1 .. Len(waiters) - k : b[l] = waiters[k + l]
    <3>1. \A l \in k + 1 .. Len(waiters) : waiters[l] \in Inv
      BY <2>1
    <3>2. /\ b \in Seq(Inv)
          /\ Len(b) = IF k + 1 <= Len(waiters) THEN Len(waiters) - (k + 1) + 1 ELSE 0
          /\ \A l \in 1 .. Len(waiters) - (k + 1) + 1 : b[l] = waiters[(k + 1) + l - 1]
      BY <2>1, <3>1, SubSeqProperties
    <3>. QED  BY <2>1, <3>2
  <2>4. waiters' = a \o b
    BY DEF RemoveWaiter
  <2>. HIDE DEF a, b
  <2>5. /\ a \o b \in Seq(Inv) /\ Len(a \o b) = Len(a) + Len(b)
        /\ \A l \in 1 .. Len(a) + Len(b) :
             (a \o b)[l] = IF l <= Len(a) THEN a[l] ELSE b[l - Len(a)]
    BY <2>2, <2>3, ConcatProperties
  <2>. QED  BY <2>1, <2>2, <2>3, <2>4, <2>5
<1>3. \A l \in 1 .. Len(waiters') :
        \E m \in 1 .. Len(waiters) : m # k /\ waiters'[l] = waiters[m]
  BY <1>2 DEF SemOK
<1>4. \A l \in 1 .. Len(waiters') :
        waiters'[l] \in Inv /\ waiters'[l] # i /\ pc[waiters'[l]] = "queued"
  <2>1. \A m \in 1 .. Len(waiters) : m # k =>
          waiters[m] \in Inv /\ waiters[m] # i /\ pc[waiters[m]] = "queued"
    BY DEF SemOK, QueueOK
  <2>. QED  BY <1>3, <2>1
<1>5. \A l, m \in 1 .. Len(waiters') : waiters'[l] = waiters'[m] => l = m
  BY <1>2 DEF SemOK, QueueOK
<1>6. QueueOK'
  BY <1>4, <1>5 DEF QueueOK
<1>7. value = 0
  BY DEF SemOK, SlotConservation
<1>. QED  BY <1>1, <1>2, <1>6, <1>7 DEF SemOK, SlotConservation

-----------------------------------------------------------------------------
(***************************************************************************)
(* Steps.  A step of one invocation touches no other, except that a slot it       *)
(* gives back may turn the first waiter's await into "starting".              *)
(***************************************************************************)
Same(j) ==
  /\ mode'[j] = mode[j] /\ attempt'[j] = attempt[j]
  /\ lastError'[j] = lastError[j] /\ cancelEv'[j] = cancelEv[j]
  /\ status'[j] = status[j] /\ finals'[j] = finals[j]
  /\ interrupt'[j] = interrupt[j] /\ runs'[j] = runs[j]
  /\ returned'[j] = returned[j] /\ ackedAt'[j] = ackedAt[j]
  /\ dbFailed'[j] = dbFailed[j]

Others(i) ==
  \A j \in Inv \ {i} :
    /\ Same(j)
    /\ pc'[j] = pc[j] \/ (pc[j] = "queued" /\ pc'[j] = "starting")

\* An invocation that another one's step leaves alone, or hands a slot to,
\* keeps its part of the invariant.
LEMMA Frame ==
  ASSUME NEW j \in Inv, LocalOK(j), Same(j), phase' = phase,
         pc'[j] = pc[j] \/ (pc[j] = "queued" /\ pc'[j] = "starting")
  PROVE  LocalOK(j)'
<1>. USE DEF Same, Holding, Attempting, Alive, Terminal
<1>1. AttemptOK(j)'  BY DEF LocalOK, AttemptOK
<1>2. RowOK(j)'  BY DEF LocalOK, RowOK
<1>3. EventOK(j)'  BY DEF LocalOK, EventOK
<1>4. TruthOK(j)'  BY DEF LocalOK, TruthOK
<1>5. CancelOK(j)'  BY DEF LocalOK, CancelOK
<1>6. PhaseOK(j)'  BY DEF LocalOK, PhaseOK
<1>. QED  BY <1>1, <1>2, <1>3, <1>4, <1>5, <1>6 DEF LocalOK

\* So a step of i only has to be checked for i, the types and the semaphore.
LEMMA StepOf ==
  ASSUME IndInv, NEW i \in Inv, TypeOK', SemOK', LocalOK(i)', Others(i),
         phase' = phase
  PROVE  IndInv'
BY Frame DEF IndInv, Others

\* What LeaveRun does to the tasks, whoever gets the slot.
Left(i) ==
  /\ pc' \in [Inv -> Pc] /\ cancelEv' \in [Inv -> {"none", "clear", "set"}]
  /\ attempt' \in [Inv -> 0 .. MaxRetries]
  /\ lastError' \in [Inv -> ErrorClass \cup {"none"}]
  /\ pc'[i] = IF mode[i] = "async" THEN "closing" ELSE "ended"
  /\ cancelEv'[i] = IF mode[i] = "sync" THEN "none" ELSE cancelEv[i]
  /\ attempt'[i] = 0 /\ lastError'[i] = "none"
  /\ \A j \in Inv \ {i} :
       /\ cancelEv'[j] = cancelEv[j] /\ attempt'[j] = attempt[j]
       /\ lastError'[j] = lastError[j]
       /\ pc'[j] = pc[j] \/ (pc[j] = "queued" /\ pc'[j] = "starting")

\* The effect of leaving _run, on any path.
LEMMA LeaveEffect ==
  ASSUME TypeOK, SemOK, NEW i \in Inv, pc[i] \in Holding, LeaveRun(i)
  PROVE  SemOK' /\ Left(i)
<1>. USE DEF Holding, Attempting, Alive, Pc
<1>1. /\ SemOK'
      /\ waiters # <<>> => /\ Head(waiters) \in Inv /\ Head(waiters) # i
                          /\ pc[Head(waiters)] = "queued"
  BY SemLeave DEF TypeOK
<1>2. /\ pc' \in [Inv -> Pc]
      /\ pc'[i] = IF mode[i] = "async" THEN "closing" ELSE "ended"
      /\ \A j \in Inv \ {i} :
           pc'[j] = pc[j] \/ (pc[j] = "queued" /\ pc'[j] = "starting")
  <2>1. CASE waiters = <<>>
    BY <2>1 DEF LeaveRun, AfterRun, TypeOK
  <2>2. CASE waiters # <<>>
    BY <1>1, <2>2 DEF LeaveRun, AfterRun, TypeOK
  <2>. QED  BY <2>1, <2>2
<1>3. /\ cancelEv' = [cancelEv EXCEPT ![i] = IF mode[i] = "sync" THEN "none" ELSE @]
      /\ attempt' = [attempt EXCEPT ![i] = 0]
      /\ lastError' = [lastError EXCEPT ![i] = "none"]
  BY DEF LeaveRun, UnregisterSync
<1>. QED  BY <1>1, <1>2, <1>3, MaxRetriesAssumption DEF Left, TypeOK

\* EventBus.publish keeps the type of the events on the channel.
LEMMA PublishType ==
  ASSUME TypeOK, NEW i \in Inv, NEW kind \in {"result", "error"}, Publish(i, kind)
  PROVE  finals' \in [Inv -> SUBSET {"result", "error"}]
<1>1. PICK sent \in {{}, {kind}} : finals' = [finals EXCEPT ![i] = @ \cup sent]
  BY DEF Publish
<1>2. finals \in [Inv -> SUBSET {"result", "error"}]
  BY DEF TypeOK
<1>3. finals[i] \cup sent \in SUBSET {"result", "error"}
  BY <1>2
<1>. QED  BY <1>1, <1>2, <1>3

\* InvokeSync enters the semaphore and preserves the invariant.
LEMMA InvokeSyncStep ==
  ASSUME IndInv, NEW i \in Inv, InvokeSync(i)
  PROVE  IndInv'
<1>. USE DEF Holding, Attempting, Alive, Pc, Terminal, Status, histVars, semVars, taskVars
<1>1. TypeOK /\ SemOK /\ LocalOK(i)
  BY DEF IndInv
<1>2. SemOK'
  BY <1>1, SemEnter DEF TypeOK, InvokeSync, Fresh
<1>3. TypeOK'
  BY <1>1, <1>2, MaxRetriesAssumption DEF TypeOK, SemOK, LocalOK, AttemptOK, ErrorClass,
     InvokeSync, Fresh, EnterSemaphore
<1>4. LocalOK(i)'
  <2>1. AttemptOK(i)'
    BY <1>1, MaxRetriesAssumption DEF TypeOK, LocalOK, AttemptOK, InvokeSync, Fresh,
       EnterSemaphore
  <2>2. RowOK(i)'
    BY <1>1 DEF TypeOK, LocalOK, AttemptOK, RowOK, PhaseOK, InvokeSync, Fresh,
       EnterSemaphore
  <2>3. EventOK(i)'
    BY <1>1 DEF TypeOK, LocalOK, RowOK, EventOK, InvokeSync, Fresh, EnterSemaphore
  <2>4. TruthOK(i)'
    BY <1>1 DEF TypeOK, LocalOK, AttemptOK, RowOK, EventOK, TruthOK, CancelOK, PhaseOK,
       InvokeSync, Fresh, EnterSemaphore
  <2>5. CancelOK(i)'
    BY <1>1 DEF TypeOK, LocalOK, AttemptOK, RowOK, CancelOK, PhaseOK, InvokeSync, Fresh,
       EnterSemaphore
  <2>6. PhaseOK(i)'
    BY <1>1 DEF TypeOK, LocalOK, PhaseOK, CancelOK, RowOK, InvokeSync, Fresh, EnterSemaphore
  <2>. QED  BY <2>1, <2>2, <2>3, <2>4, <2>5, <2>6 DEF LocalOK
<1>5. Others(i) /\ phase' = phase
  BY <1>1 DEF Others, Same, TypeOK, InvokeSync, Fresh, EnterSemaphore
<1>. QED  BY <1>2, <1>3, <1>4, <1>5, StepOf

\* InvokeAsync stays on its side of the semaphore and preserves the invariant.
LEMMA InvokeAsyncStep ==
  ASSUME IndInv, NEW i \in Inv, InvokeAsync(i)
  PROVE  IndInv'
<1>. USE DEF Holding, Attempting, Alive, Pc, Terminal, Status, histVars, semVars, taskVars
<1>1. TypeOK /\ SemOK /\ LocalOK(i)
  BY DEF IndInv
<1>2. SemOK'
  BY <1>1, SemStay DEF TypeOK, InvokeAsync, Fresh
<1>3. TypeOK'
  BY <1>1, <1>2, MaxRetriesAssumption DEF TypeOK, SemOK, LocalOK, AttemptOK, ErrorClass,
     InvokeAsync, Fresh
<1>4. LocalOK(i)'
  <2>1. AttemptOK(i)'
    BY <1>1, MaxRetriesAssumption DEF TypeOK, LocalOK, AttemptOK, InvokeAsync, Fresh
  <2>2. RowOK(i)'
    BY <1>1 DEF TypeOK, LocalOK, AttemptOK, RowOK, PhaseOK, InvokeAsync, Fresh
  <2>3. EventOK(i)'
    BY <1>1 DEF TypeOK, LocalOK, RowOK, EventOK, InvokeAsync, Fresh
  <2>4. TruthOK(i)'
    BY <1>1 DEF TypeOK, LocalOK, AttemptOK, RowOK, EventOK, TruthOK, CancelOK, PhaseOK,
       InvokeAsync, Fresh
  <2>5. CancelOK(i)'
    BY <1>1 DEF TypeOK, LocalOK, AttemptOK, RowOK, CancelOK, PhaseOK, InvokeAsync, Fresh
  <2>6. PhaseOK(i)'
    BY <1>1 DEF TypeOK, LocalOK, PhaseOK, CancelOK, RowOK, InvokeAsync, Fresh
  <2>. QED  BY <2>1, <2>2, <2>3, <2>4, <2>5, <2>6 DEF LocalOK
<1>5. Others(i) /\ phase' = phase
  BY <1>1 DEF Others, Same, TypeOK, InvokeAsync, Fresh
<1>. QED  BY <1>2, <1>3, <1>4, <1>5, StepOf

\* CreateRaises stays on its side of the semaphore and preserves the invariant.
LEMMA CreateRaisesStep ==
  ASSUME IndInv, NEW i \in Inv, CreateRaises(i)
  PROVE  IndInv'
<1>. USE DEF Holding, Attempting, Alive, Pc, Terminal, Status, histVars, semVars, taskVars
<1>1. TypeOK /\ SemOK /\ LocalOK(i)
  BY DEF IndInv
<1>2. SemOK'
  BY <1>1, SemStay DEF TypeOK, CreateRaises, Fresh
<1>3. TypeOK'
  BY <1>1, <1>2, MaxRetriesAssumption DEF TypeOK, SemOK, LocalOK, AttemptOK, ErrorClass,
     CreateRaises, Fresh
<1>4. LocalOK(i)'
  <2>1. AttemptOK(i)'
    BY <1>1, MaxRetriesAssumption DEF TypeOK, LocalOK, AttemptOK, CreateRaises, Fresh
  <2>2. RowOK(i)'
    BY <1>1 DEF TypeOK, LocalOK, AttemptOK, RowOK, PhaseOK, CreateRaises, Fresh
  <2>3. EventOK(i)'
    BY <1>1 DEF TypeOK, LocalOK, RowOK, EventOK, CreateRaises, Fresh
  <2>4. TruthOK(i)'
    BY <1>1 DEF TypeOK, LocalOK, AttemptOK, RowOK, EventOK, TruthOK, CancelOK, PhaseOK,
       CreateRaises, Fresh
  <2>5. CancelOK(i)'
    BY <1>1 DEF TypeOK, LocalOK, AttemptOK, RowOK, CancelOK, PhaseOK, CreateRaises, Fresh
  <2>6. PhaseOK(i)'
    BY <1>1 DEF TypeOK, LocalOK, PhaseOK, CancelOK, RowOK, CreateRaises, Fresh
  <2>. QED  BY <2>1, <2>2, <2>3, <2>4, <2>5, <2>6 DEF LocalOK
<1>5. Others(i) /\ phase' = phase
  BY <1>1 DEF Others, Same, TypeOK, CreateRaises, Fresh
<1>. QED  BY <1>2, <1>3, <1>4, <1>5, StepOf

\* RunBackground enters the semaphore and preserves the invariant.
LEMMA RunBackgroundStep ==
  ASSUME IndInv, NEW i \in Inv, RunBackground(i)
  PROVE  IndInv'
<1>. USE DEF Holding, Attempting, Alive, Pc, Terminal, Status, histVars, semVars, taskVars
<1>1. TypeOK /\ SemOK /\ LocalOK(i)
  BY DEF IndInv
<1>2. SemOK'
  BY <1>1, SemEnter DEF TypeOK, RunBackground, At
<1>3. TypeOK'
  BY <1>1, <1>2, MaxRetriesAssumption DEF TypeOK, SemOK, LocalOK, AttemptOK, ErrorClass,
     RunBackground, At, EnterSemaphore
<1>4. LocalOK(i)'
  <2>1. AttemptOK(i)'
    BY <1>1, MaxRetriesAssumption DEF TypeOK, LocalOK, AttemptOK, RunBackground, At,
       EnterSemaphore
  <2>2. RowOK(i)'
    BY <1>1 DEF TypeOK, LocalOK, AttemptOK, RowOK, PhaseOK, RunBackground, At,
       EnterSemaphore
  <2>3. EventOK(i)'
    BY <1>1 DEF TypeOK, LocalOK, RowOK, EventOK, RunBackground, At, EnterSemaphore
  <2>4. TruthOK(i)'
    BY <1>1 DEF TypeOK, LocalOK, AttemptOK, RowOK, EventOK, TruthOK, CancelOK, PhaseOK,
       RunBackground, At, EnterSemaphore
  <2>5. CancelOK(i)'
    BY <1>1 DEF TypeOK, LocalOK, AttemptOK, RowOK, CancelOK, PhaseOK, RunBackground, At,
       EnterSemaphore
  <2>6. PhaseOK(i)'
    BY <1>1 DEF TypeOK, LocalOK, PhaseOK, CancelOK, RowOK, RunBackground, At, EnterSemaphore
  <2>. QED  BY <2>1, <2>2, <2>3, <2>4, <2>5, <2>6 DEF LocalOK
<1>5. Others(i) /\ phase' = phase
  BY <1>1 DEF Others, Same, TypeOK, RunBackground, At, EnterSemaphore
<1>. QED  BY <1>2, <1>3, <1>4, <1>5, StepOf

\* MarkRunning stays on its side of the semaphore and preserves the invariant.
LEMMA MarkRunningStep ==
  ASSUME IndInv, NEW i \in Inv, MarkRunning(i)
  PROVE  IndInv'
<1>. USE DEF Holding, Attempting, Alive, Pc, Terminal, Status, histVars, semVars, taskVars
<1>1. TypeOK /\ SemOK /\ LocalOK(i)
  BY DEF IndInv
<1>2. SemOK'
  BY <1>1, SemStay DEF TypeOK, MarkRunning, At, Write
<1>3. TypeOK'
  BY <1>1, <1>2, MaxRetriesAssumption DEF TypeOK, SemOK, LocalOK, AttemptOK, ErrorClass,
     MarkRunning, At, Write
<1>4. LocalOK(i)'
  <2>1. AttemptOK(i)'
    BY <1>1, MaxRetriesAssumption DEF TypeOK, LocalOK, AttemptOK, MarkRunning, At, Write
  <2>2. RowOK(i)'
    BY <1>1 DEF TypeOK, LocalOK, AttemptOK, RowOK, PhaseOK, MarkRunning, At, Write
  <2>3. EventOK(i)'
    BY <1>1 DEF TypeOK, LocalOK, RowOK, EventOK, MarkRunning, At, Write
  <2>4. TruthOK(i)'
    BY <1>1 DEF TypeOK, LocalOK, AttemptOK, RowOK, EventOK, TruthOK, CancelOK, PhaseOK,
       MarkRunning, At, Write
  <2>5. CancelOK(i)'
    BY <1>1 DEF TypeOK, LocalOK, AttemptOK, RowOK, CancelOK, PhaseOK, MarkRunning, At, Write
  <2>6. PhaseOK(i)'
    BY <1>1 DEF TypeOK, LocalOK, PhaseOK, CancelOK, RowOK, MarkRunning, At, Write
  <2>. QED  BY <2>1, <2>2, <2>3, <2>4, <2>5, <2>6 DEF LocalOK
<1>5. Others(i) /\ phase' = phase
  BY <1>1 DEF Others, Same, TypeOK, MarkRunning, At, Write
<1>. QED  BY <1>2, <1>3, <1>4, <1>5, StepOf

\* MarkRunningRaises gives its slot back and preserves the invariant.
LEMMA MarkRunningRaisesStep ==
  ASSUME IndInv, NEW i \in Inv, MarkRunningRaises(i)
  PROVE  IndInv'
<1>. USE DEF Holding, Attempting, Alive, Pc, Terminal, Status, histVars, semVars, taskVars
<1>1. TypeOK /\ SemOK /\ LocalOK(i)
  BY DEF IndInv
<1>2. SemOK' /\ Left(i)
  BY <1>1, LeaveEffect DEF TypeOK, LocalOK, RowOK, MarkRunningRaises, At, WriteRaises
<1>3. TypeOK'
  BY <1>1, <1>2, MaxRetriesAssumption DEF TypeOK, SemOK, LocalOK, AttemptOK, ErrorClass,
     MarkRunningRaises, At, WriteRaises, Left
<1>4. LocalOK(i)'
  <2>1. AttemptOK(i)'
    BY <1>1, <1>2, MaxRetriesAssumption DEF TypeOK, LocalOK, AttemptOK, MarkRunningRaises,
       At, WriteRaises, Left
  <2>2. RowOK(i)'
    BY <1>1, <1>2 DEF TypeOK, LocalOK, AttemptOK, RowOK, PhaseOK, MarkRunningRaises, At,
       WriteRaises, Left
  <2>3. EventOK(i)'
    BY <1>1, <1>2 DEF TypeOK, LocalOK, RowOK, EventOK, MarkRunningRaises, At, WriteRaises,
       Left
  <2>4. TruthOK(i)'
    BY <1>1, <1>2 DEF TypeOK, LocalOK, AttemptOK, RowOK, EventOK, TruthOK, CancelOK,
       PhaseOK, MarkRunningRaises, At, WriteRaises, Left
  <2>5. CancelOK(i)'
    BY <1>1, <1>2 DEF TypeOK, LocalOK, AttemptOK, RowOK, CancelOK, PhaseOK,
       MarkRunningRaises, At, WriteRaises, Left
  <2>6. PhaseOK(i)'
    BY <1>1, <1>2 DEF TypeOK, LocalOK, PhaseOK, CancelOK, RowOK, MarkRunningRaises, At,
       WriteRaises, Left
  <2>. QED  BY <2>1, <2>2, <2>3, <2>4, <2>5, <2>6 DEF LocalOK
<1>5. Others(i) /\ phase' = phase
  BY <1>1, <1>2 DEF Others, Same, TypeOK, MarkRunningRaises, At, WriteRaises, Left
<1>. QED  BY <1>2, <1>3, <1>4, <1>5, StepOf

\* FirstAttempt stays on its side of the semaphore and preserves the invariant.
LEMMA FirstAttemptStep ==
  ASSUME IndInv, NEW i \in Inv, FirstAttempt(i)
  PROVE  IndInv'
<1>. USE DEF Holding, Attempting, Alive, Pc, Terminal, Status, histVars, semVars, taskVars
<1>1. TypeOK /\ SemOK /\ LocalOK(i)
  BY DEF IndInv
<1>2. SemOK'
  BY <1>1, SemStay DEF TypeOK, FirstAttempt, At, CallTool
<1>3. TypeOK'
  <2>0. runs[i] = 0
    BY <1>1 DEF LocalOK, AttemptOK, FirstAttempt, At
  <2>1. CASE cancelEv[i] = "set"
    BY <1>1, <1>2, <2>1 DEF TypeOK, SemOK, FirstAttempt, At
  <2>2. CASE cancelEv[i] # "set"
    <3>1. pc' = [pc EXCEPT ![i] = "calling"] /\ runs' = [runs EXCEPT ![i] = 1]
      BY <2>0, <2>2 DEF FirstAttempt, CallTool
    <3>2. 1 \in 0 .. MaxRetries + 1
      BY MaxRetriesAssumption
    <3>3. runs' \in [Inv -> 0 .. MaxRetries + 1]
      BY <1>1, <3>1, <3>2 DEF TypeOK
    <3>4. pc' \in [Inv -> Pc]
      BY <1>1, <3>1 DEF TypeOK
    <3>. QED  BY <1>1, <1>2, <3>3, <3>4 DEF TypeOK, SemOK, FirstAttempt
  <2>. QED  BY <2>1, <2>2
<1>4. LocalOK(i)'
  <2>1. AttemptOK(i)'
    BY <1>1, MaxRetriesAssumption DEF TypeOK, LocalOK, AttemptOK, FirstAttempt, At, CallTool
  <2>2. RowOK(i)'
    BY <1>1 DEF TypeOK, LocalOK, AttemptOK, RowOK, PhaseOK, FirstAttempt, At, CallTool
  <2>3. EventOK(i)'
    BY <1>1 DEF TypeOK, LocalOK, RowOK, EventOK, FirstAttempt, At, CallTool
  <2>4. TruthOK(i)'
    BY <1>1 DEF TypeOK, LocalOK, AttemptOK, RowOK, EventOK, TruthOK, CancelOK, PhaseOK,
       FirstAttempt, At, CallTool
  <2>5. CancelOK(i)'
    BY <1>1 DEF TypeOK, LocalOK, AttemptOK, RowOK, CancelOK, PhaseOK, FirstAttempt, At,
       CallTool
  <2>6. PhaseOK(i)'
    BY <1>1 DEF TypeOK, LocalOK, PhaseOK, CancelOK, RowOK, FirstAttempt, At, CallTool
  <2>. QED  BY <2>1, <2>2, <2>3, <2>4, <2>5, <2>6 DEF LocalOK
<1>5. Others(i) /\ phase' = phase
  BY <1>1 DEF Others, Same, TypeOK, FirstAttempt, At, CallTool
<1>. QED  BY <1>2, <1>3, <1>4, <1>5, StepOf

\* NextAttempt stays on its side of the semaphore and preserves the invariant.
LEMMA NextAttemptStep ==
  ASSUME IndInv, NEW i \in Inv, NextAttempt(i)
  PROVE  IndInv'
<1>. USE DEF Holding, Attempting, Alive, Pc, Terminal, Status, histVars, semVars, taskVars
<1>1. TypeOK /\ SemOK /\ LocalOK(i)
  BY DEF IndInv
<1>2. SemOK'
  BY <1>1, SemStay DEF TypeOK, NextAttempt, At
<1>3. TypeOK'
  BY <1>1, <1>2, MaxRetriesAssumption DEF TypeOK, SemOK, LocalOK, AttemptOK, ErrorClass,
     NextAttempt, At
<1>4. LocalOK(i)'
  <2>1. AttemptOK(i)'
    BY <1>1, MaxRetriesAssumption DEF TypeOK, LocalOK, AttemptOK, NextAttempt, At
  <2>2. RowOK(i)'
    BY <1>1 DEF TypeOK, LocalOK, AttemptOK, RowOK, PhaseOK, NextAttempt, At
  <2>3. EventOK(i)'
    BY <1>1 DEF TypeOK, LocalOK, RowOK, EventOK, NextAttempt, At
  <2>4. TruthOK(i)'
    BY <1>1 DEF TypeOK, LocalOK, AttemptOK, RowOK, EventOK, TruthOK, CancelOK, PhaseOK,
       NextAttempt, At
  <2>5. CancelOK(i)'
    BY <1>1 DEF TypeOK, LocalOK, AttemptOK, RowOK, CancelOK, PhaseOK, NextAttempt, At
  <2>6. PhaseOK(i)'
    BY <1>1 DEF TypeOK, LocalOK, PhaseOK, CancelOK, RowOK, NextAttempt, At
  <2>. QED  BY <2>1, <2>2, <2>3, <2>4, <2>5, <2>6 DEF LocalOK
<1>5. Others(i) /\ phase' = phase
  BY <1>1 DEF Others, Same, TypeOK, NextAttempt, At
<1>. QED  BY <1>2, <1>3, <1>4, <1>5, StepOf

\* RetryTool stays on its side of the semaphore and preserves the invariant.
LEMMA RetryToolStep ==
  ASSUME IndInv, NEW i \in Inv, RetryTool(i)
  PROVE  IndInv'
<1>. USE DEF Holding, Attempting, Alive, Pc, Terminal, Status, histVars, semVars, taskVars
<1>1. TypeOK /\ SemOK /\ LocalOK(i)
  BY DEF IndInv
<1>2. SemOK'
  BY <1>1, SemStay DEF TypeOK, RetryTool, At, CallTool
<1>3. TypeOK'
  BY <1>1, <1>2, MaxRetriesAssumption DEF TypeOK, SemOK, LocalOK, AttemptOK, ErrorClass,
     RetryTool, At, CallTool
<1>4. LocalOK(i)'
  <2>1. AttemptOK(i)'
    BY <1>1, MaxRetriesAssumption DEF TypeOK, LocalOK, AttemptOK, RetryTool, At, CallTool
  <2>2. RowOK(i)'
    BY <1>1 DEF TypeOK, LocalOK, AttemptOK, RowOK, PhaseOK, RetryTool, At, CallTool
  <2>3. EventOK(i)'
    BY <1>1 DEF TypeOK, LocalOK, RowOK, EventOK, RetryTool, At, CallTool
  <2>4. TruthOK(i)'
    BY <1>1 DEF TypeOK, LocalOK, AttemptOK, RowOK, EventOK, TruthOK, CancelOK, PhaseOK,
       RetryTool, At, CallTool
  <2>5. CancelOK(i)'
    BY <1>1 DEF TypeOK, LocalOK, AttemptOK, RowOK, CancelOK, PhaseOK, RetryTool, At,
       CallTool
  <2>6. PhaseOK(i)'
    BY <1>1 DEF TypeOK, LocalOK, PhaseOK, CancelOK, RowOK, RetryTool, At, CallTool
  <2>. QED  BY <2>1, <2>2, <2>3, <2>4, <2>5, <2>6 DEF LocalOK
<1>5. Others(i) /\ phase' = phase
  BY <1>1 DEF Others, Same, TypeOK, RetryTool, At, CallTool
<1>. QED  BY <1>2, <1>3, <1>4, <1>5, StepOf

\* ToolReturns stays on its side of the semaphore and preserves the invariant.
LEMMA ToolReturnsStep ==
  ASSUME IndInv, NEW i \in Inv, ToolReturns(i)
  PROVE  IndInv'
<1>. USE DEF Holding, Attempting, Alive, Pc, Terminal, Status, histVars, semVars, taskVars
<1>1. TypeOK /\ SemOK /\ LocalOK(i)
  BY DEF IndInv
<1>2. SemOK'
  BY <1>1, SemStay DEF TypeOK, ToolReturns, At
<1>3. TypeOK'
  BY <1>1, <1>2, MaxRetriesAssumption DEF TypeOK, SemOK, LocalOK, AttemptOK, ErrorClass,
     ToolReturns, At
<1>4. LocalOK(i)'
  <2>1. AttemptOK(i)'
    BY <1>1, MaxRetriesAssumption DEF TypeOK, LocalOK, AttemptOK, ToolReturns, At
  <2>2. RowOK(i)'
    BY <1>1 DEF TypeOK, LocalOK, AttemptOK, RowOK, PhaseOK, ToolReturns, At
  <2>3. EventOK(i)'
    BY <1>1 DEF TypeOK, LocalOK, RowOK, EventOK, ToolReturns, At
  <2>4. TruthOK(i)'
    BY <1>1 DEF TypeOK, LocalOK, AttemptOK, RowOK, EventOK, TruthOK, CancelOK, PhaseOK,
       ToolReturns, At
  <2>5. CancelOK(i)'
    BY <1>1 DEF TypeOK, LocalOK, AttemptOK, RowOK, CancelOK, PhaseOK, ToolReturns, At
  <2>6. PhaseOK(i)'
    BY <1>1 DEF TypeOK, LocalOK, PhaseOK, CancelOK, RowOK, ToolReturns, At
  <2>. QED  BY <2>1, <2>2, <2>3, <2>4, <2>5, <2>6 DEF LocalOK
<1>5. Others(i) /\ phase' = phase
  BY <1>1 DEF Others, Same, TypeOK, ToolReturns, At
<1>. QED  BY <1>2, <1>3, <1>4, <1>5, StepOf

\* ToolRaises stays on its side of the semaphore and preserves the invariant.
LEMMA ToolRaisesStep ==
  ASSUME IndInv, NEW i \in Inv, ToolRaises(i)
  PROVE  IndInv'
<1>. USE DEF Holding, Attempting, Alive, Pc, Terminal, Status, histVars, semVars, taskVars
<1>1. TypeOK /\ SemOK /\ LocalOK(i)
  BY DEF IndInv
<1>2. SemOK'
  BY <1>1, SemStay DEF TypeOK, ToolRaises, At, Except, MayRetry, ErrorClass
<1>3. TypeOK'
  BY <1>1, <1>2, MaxRetriesAssumption DEF TypeOK, SemOK, LocalOK, AttemptOK, ToolRaises, At,
     Except, MayRetry, ErrorClass
<1>4. LocalOK(i)'
  <2>1. AttemptOK(i)'
    BY <1>1, MaxRetriesAssumption DEF TypeOK, LocalOK, AttemptOK, ToolRaises, At, Except,
       MayRetry, ErrorClass
  <2>2. RowOK(i)'
    BY <1>1 DEF TypeOK, LocalOK, AttemptOK, RowOK, PhaseOK, ToolRaises, At, Except,
       MayRetry, ErrorClass
  <2>3. EventOK(i)'
    BY <1>1 DEF TypeOK, LocalOK, RowOK, EventOK, ToolRaises, At, Except, MayRetry,
       ErrorClass
  <2>4. TruthOK(i)'
    BY <1>1 DEF TypeOK, LocalOK, AttemptOK, RowOK, EventOK, TruthOK, CancelOK, PhaseOK,
       ToolRaises, At, Except, MayRetry, ErrorClass
  <2>5. CancelOK(i)'
    BY <1>1 DEF TypeOK, LocalOK, AttemptOK, RowOK, CancelOK, PhaseOK, ToolRaises, At,
       Except, MayRetry, ErrorClass
  <2>6. PhaseOK(i)'
    BY <1>1 DEF TypeOK, LocalOK, PhaseOK, CancelOK, RowOK, ToolRaises, At, Except, MayRetry,
       ErrorClass
  <2>. QED  BY <2>1, <2>2, <2>3, <2>4, <2>5, <2>6 DEF LocalOK
<1>5. Others(i) /\ phase' = phase
  BY <1>1 DEF Others, Same, TypeOK, ToolRaises, At, Except, MayRetry, ErrorClass
<1>. QED  BY <1>2, <1>3, <1>4, <1>5, StepOf

\* MarkDone stays on its side of the semaphore and preserves the invariant.
LEMMA MarkDoneStep ==
  ASSUME IndInv, NEW i \in Inv, MarkDone(i)
  PROVE  IndInv'
<1>. USE DEF Holding, Attempting, Alive, Pc, Terminal, Status, histVars, semVars, taskVars
<1>1. TypeOK /\ SemOK /\ LocalOK(i)
  BY DEF IndInv
<1>2. SemOK'
  BY <1>1, SemStay DEF TypeOK, MarkDone, At, Write
<1>3. TypeOK'
  BY <1>1, <1>2, MaxRetriesAssumption DEF TypeOK, SemOK, LocalOK, AttemptOK, ErrorClass,
     MarkDone, At, Write
<1>4. LocalOK(i)'
  <2>1. AttemptOK(i)'
    BY <1>1, MaxRetriesAssumption DEF TypeOK, LocalOK, AttemptOK, MarkDone, At, Write
  <2>2. RowOK(i)'
    BY <1>1 DEF TypeOK, LocalOK, AttemptOK, RowOK, PhaseOK, MarkDone, At, Write
  <2>3. EventOK(i)'
    BY <1>1 DEF TypeOK, LocalOK, RowOK, EventOK, MarkDone, At, Write
  <2>4. TruthOK(i)'
    BY <1>1 DEF TypeOK, LocalOK, AttemptOK, RowOK, EventOK, TruthOK, CancelOK, PhaseOK,
       MarkDone, At, Write
  <2>5. CancelOK(i)'
    BY <1>1 DEF TypeOK, LocalOK, AttemptOK, RowOK, CancelOK, PhaseOK, MarkDone, At, Write
  <2>6. PhaseOK(i)'
    BY <1>1 DEF TypeOK, LocalOK, PhaseOK, CancelOK, RowOK, MarkDone, At, Write
  <2>. QED  BY <2>1, <2>2, <2>3, <2>4, <2>5, <2>6 DEF LocalOK
<1>5. Others(i) /\ phase' = phase
  BY <1>1 DEF Others, Same, TypeOK, MarkDone, At, Write
<1>. QED  BY <1>2, <1>3, <1>4, <1>5, StepOf

\* MarkDoneRaises stays on its side of the semaphore and preserves the invariant.
LEMMA MarkDoneRaisesStep ==
  ASSUME IndInv, NEW i \in Inv, MarkDoneRaises(i)
  PROVE  IndInv'
<1>. USE DEF Holding, Attempting, Alive, Pc, Terminal, Status, histVars, semVars, taskVars
<1>1. TypeOK /\ SemOK /\ LocalOK(i)
  BY DEF IndInv
<1>2. SemOK'
  BY <1>1, SemStay DEF TypeOK, MarkDoneRaises, At, WriteRaises, Except, MayRetry, ErrorClass
<1>3. TypeOK'
  BY <1>1, <1>2, MaxRetriesAssumption DEF TypeOK, SemOK, LocalOK, AttemptOK, MarkDoneRaises,
     At, WriteRaises, Except, MayRetry, ErrorClass
<1>4. LocalOK(i)'
  <2>1. AttemptOK(i)'
    BY <1>1, MaxRetriesAssumption DEF TypeOK, LocalOK, AttemptOK, MarkDoneRaises, At,
       WriteRaises, Except, MayRetry, ErrorClass
  <2>2. RowOK(i)'
    BY <1>1 DEF TypeOK, LocalOK, AttemptOK, RowOK, PhaseOK, MarkDoneRaises, At, WriteRaises,
       Except, MayRetry, ErrorClass
  <2>3. EventOK(i)'
    BY <1>1 DEF TypeOK, LocalOK, RowOK, EventOK, MarkDoneRaises, At, WriteRaises, Except,
       MayRetry, ErrorClass
  <2>4. TruthOK(i)'
    BY <1>1 DEF TypeOK, LocalOK, AttemptOK, RowOK, EventOK, TruthOK, CancelOK, PhaseOK,
       MarkDoneRaises, At, WriteRaises, Except, MayRetry, ErrorClass
  <2>5. CancelOK(i)'
    BY <1>1 DEF TypeOK, LocalOK, AttemptOK, RowOK, CancelOK, PhaseOK, MarkDoneRaises, At,
       WriteRaises, Except, MayRetry, ErrorClass
  <2>6. PhaseOK(i)'
    BY <1>1 DEF TypeOK, LocalOK, PhaseOK, CancelOK, RowOK, MarkDoneRaises, At, WriteRaises,
       Except, MayRetry, ErrorClass
  <2>. QED  BY <2>1, <2>2, <2>3, <2>4, <2>5, <2>6 DEF LocalOK
<1>5. Others(i) /\ phase' = phase
  BY <1>1 DEF Others, Same, TypeOK, MarkDoneRaises, At, WriteRaises, Except, MayRetry,
     ErrorClass
<1>. QED  BY <1>2, <1>3, <1>4, <1>5, StepOf

\* PublishResult stays on its side of the semaphore and preserves the invariant.
LEMMA PublishResultStep ==
  ASSUME IndInv, NEW i \in Inv, PublishResult(i)
  PROVE  IndInv'
<1>. USE DEF Holding, Attempting, Alive, Pc, Terminal, Status, histVars, semVars, taskVars
<1>1. TypeOK /\ SemOK /\ LocalOK(i)
  BY DEF IndInv
<1>2. SemOK'
  BY <1>1, SemStay DEF TypeOK, PublishResult, At, Publish
<1>3. TypeOK'
  <2>1. finals' \in [Inv -> SUBSET {"result", "error"}]
    BY <1>1, PublishType DEF PublishResult
  <2>. QED  BY <1>1, <1>2, <2>1 DEF TypeOK, SemOK, PublishResult, At
<1>4. LocalOK(i)'
  <2>1. AttemptOK(i)'
    BY <1>1, MaxRetriesAssumption DEF TypeOK, LocalOK, AttemptOK, PublishResult, At, Publish
  <2>2. RowOK(i)'
    BY <1>1 DEF TypeOK, LocalOK, AttemptOK, RowOK, PhaseOK, PublishResult, At, Publish
  <2>3. EventOK(i)'
    BY <1>1 DEF TypeOK, LocalOK, RowOK, EventOK, PublishResult, At, Publish
  <2>4. TruthOK(i)'
    BY <1>1 DEF TypeOK, LocalOK, AttemptOK, RowOK, EventOK, TruthOK, CancelOK, PhaseOK,
       PublishResult, At, Publish
  <2>5. CancelOK(i)'
    BY <1>1 DEF TypeOK, LocalOK, AttemptOK, RowOK, CancelOK, PhaseOK, PublishResult, At,
       Publish
  <2>6. PhaseOK(i)'
    BY <1>1 DEF TypeOK, LocalOK, PhaseOK, CancelOK, RowOK, PublishResult, At, Publish
  <2>. QED  BY <2>1, <2>2, <2>3, <2>4, <2>5, <2>6 DEF LocalOK
<1>5. Others(i) /\ phase' = phase
  BY <1>1 DEF Others, Same, TypeOK, PublishResult, At, Publish
<1>. QED  BY <1>2, <1>3, <1>4, <1>5, StepOf

\* Audit gives its slot back and preserves the invariant.
LEMMA AuditStep ==
  ASSUME IndInv, NEW i \in Inv, Audit(i)
  PROVE  IndInv'
<1>. USE DEF Holding, Attempting, Alive, Pc, Terminal, Status, histVars, semVars, taskVars
<1>1. TypeOK /\ SemOK /\ LocalOK(i)
  BY DEF IndInv
<1>2. SemOK' /\ Left(i)
  BY <1>1, LeaveEffect DEF TypeOK, LocalOK, RowOK, Audit, At
<1>3. TypeOK'
  BY <1>1, <1>2, MaxRetriesAssumption DEF TypeOK, SemOK, LocalOK, AttemptOK, ErrorClass,
     Audit, At, Left
<1>4. LocalOK(i)'
  <2>1. AttemptOK(i)'
    BY <1>1, <1>2, MaxRetriesAssumption DEF TypeOK, LocalOK, AttemptOK, Audit, At, Left
  <2>2. RowOK(i)'
    BY <1>1, <1>2 DEF TypeOK, LocalOK, AttemptOK, RowOK, PhaseOK, Audit, At, Left
  <2>3. EventOK(i)'
    BY <1>1, <1>2 DEF TypeOK, LocalOK, RowOK, EventOK, Audit, At, Left
  <2>4. TruthOK(i)'
    BY <1>1, <1>2 DEF TypeOK, LocalOK, AttemptOK, RowOK, EventOK, TruthOK, CancelOK,
       PhaseOK, Audit, At, Left
  <2>5. CancelOK(i)'
    BY <1>1, <1>2 DEF TypeOK, LocalOK, AttemptOK, RowOK, CancelOK, PhaseOK, Audit, At, Left
  <2>6. PhaseOK(i)'
    BY <1>1, <1>2 DEF TypeOK, LocalOK, PhaseOK, CancelOK, RowOK, Audit, At, Left
  <2>. QED  BY <2>1, <2>2, <2>3, <2>4, <2>5, <2>6 DEF LocalOK
<1>5. Others(i) /\ phase' = phase
  BY <1>1, <1>2 DEF Others, Same, TypeOK, Audit, At, Left
<1>. QED  BY <1>2, <1>3, <1>4, <1>5, StepOf

\* MarkFailed stays on its side of the semaphore and preserves the invariant.
LEMMA MarkFailedStep ==
  ASSUME IndInv, NEW i \in Inv, MarkFailed(i)
  PROVE  IndInv'
<1>. USE DEF Holding, Attempting, Alive, Pc, Terminal, Status, histVars, semVars, taskVars
<1>1. TypeOK /\ SemOK /\ LocalOK(i)
  BY DEF IndInv
<1>2. SemOK'
  BY <1>1, SemStay DEF TypeOK, MarkFailed, At, Write
<1>3. TypeOK'
  BY <1>1, <1>2, MaxRetriesAssumption DEF TypeOK, SemOK, LocalOK, AttemptOK, ErrorClass,
     MarkFailed, At, Write
<1>4. LocalOK(i)'
  <2>1. AttemptOK(i)'
    BY <1>1, MaxRetriesAssumption DEF TypeOK, LocalOK, AttemptOK, MarkFailed, At, Write
  <2>2. RowOK(i)'
    BY <1>1 DEF TypeOK, LocalOK, AttemptOK, RowOK, PhaseOK, MarkFailed, At, Write
  <2>3. EventOK(i)'
    BY <1>1 DEF TypeOK, LocalOK, RowOK, EventOK, MarkFailed, At, Write
  <2>4. TruthOK(i)'
    BY <1>1 DEF TypeOK, LocalOK, AttemptOK, RowOK, EventOK, TruthOK, CancelOK, PhaseOK,
       MarkFailed, At, Write
  <2>5. CancelOK(i)'
    BY <1>1 DEF TypeOK, LocalOK, AttemptOK, RowOK, CancelOK, PhaseOK, MarkFailed, At, Write
  <2>6. PhaseOK(i)'
    BY <1>1 DEF TypeOK, LocalOK, PhaseOK, CancelOK, RowOK, MarkFailed, At, Write
  <2>. QED  BY <2>1, <2>2, <2>3, <2>4, <2>5, <2>6 DEF LocalOK
<1>5. Others(i) /\ phase' = phase
  BY <1>1 DEF Others, Same, TypeOK, MarkFailed, At, Write
<1>. QED  BY <1>2, <1>3, <1>4, <1>5, StepOf

\* PublishError gives its slot back and preserves the invariant.
LEMMA PublishErrorStep ==
  ASSUME IndInv, NEW i \in Inv, PublishError(i)
  PROVE  IndInv'
<1>. USE DEF Holding, Attempting, Alive, Pc, Terminal, Status, histVars, semVars, taskVars
<1>1. TypeOK /\ SemOK /\ LocalOK(i)
  BY DEF IndInv
<1>2. SemOK' /\ Left(i)
  BY <1>1, LeaveEffect DEF TypeOK, LocalOK, RowOK, PublishError, At, Publish
<1>3. TypeOK'
  <2>1. finals' \in [Inv -> SUBSET {"result", "error"}]
    BY <1>1, PublishType DEF PublishError
  <2>2. status' \in [Inv -> Status]
    BY <1>1 DEF TypeOK, PublishError, At, Publish
  <2>. QED  BY <1>1, <1>2, <2>1, <2>2 DEF TypeOK, SemOK, PublishError, At, Left
<1>4. LocalOK(i)'
  <2>1. AttemptOK(i)'
    BY <1>1, <1>2, MaxRetriesAssumption DEF TypeOK, LocalOK, AttemptOK, PublishError, At,
       Publish, Left
  <2>2. RowOK(i)'
    BY <1>1, <1>2 DEF TypeOK, LocalOK, AttemptOK, RowOK, PhaseOK, PublishError, At, Publish,
       Left
  <2>3. EventOK(i)'
    BY <1>1, <1>2 DEF TypeOK, LocalOK, RowOK, EventOK, PublishError, At, Publish, Left
  <2>4. TruthOK(i)'
    BY <1>1, <1>2 DEF TypeOK, LocalOK, AttemptOK, RowOK, EventOK, TruthOK, CancelOK,
       PhaseOK, PublishError, At, Publish, Left
  <2>5. CancelOK(i)'
    BY <1>1, <1>2 DEF TypeOK, LocalOK, AttemptOK, RowOK, CancelOK, PhaseOK, PublishError,
       At, Publish, Left
  <2>6. PhaseOK(i)'
    BY <1>1, <1>2 DEF TypeOK, LocalOK, PhaseOK, CancelOK, RowOK, PublishError, At, Publish,
       Left
  <2>. QED  BY <2>1, <2>2, <2>3, <2>4, <2>5, <2>6 DEF LocalOK
<1>5. Others(i) /\ phase' = phase
  BY <1>1, <1>2 DEF Others, Same, TypeOK, PublishError, At, Publish, Left
<1>. QED  BY <1>2, <1>3, <1>4, <1>5, StepOf

\* MarkCancelled gives its slot back and preserves the invariant.
LEMMA MarkCancelledStep ==
  ASSUME IndInv, NEW i \in Inv, MarkCancelled(i)
  PROVE  IndInv'
<1>. USE DEF Holding, Attempting, Alive, Pc, Terminal, Status, histVars, semVars, taskVars
<1>1. TypeOK /\ SemOK /\ LocalOK(i)
  BY DEF IndInv
<1>2. SemOK' /\ Left(i)
  BY <1>1, LeaveEffect DEF TypeOK, LocalOK, RowOK, MarkCancelled, At, Write
<1>3. TypeOK'
  BY <1>1, <1>2, MaxRetriesAssumption DEF TypeOK, SemOK, LocalOK, AttemptOK, ErrorClass,
     MarkCancelled, At, Write, Left
<1>4. LocalOK(i)'
  <2>1. AttemptOK(i)'
    BY <1>1, <1>2, MaxRetriesAssumption DEF TypeOK, LocalOK, AttemptOK, MarkCancelled, At,
       Write, Left
  <2>2. RowOK(i)'
    BY <1>1, <1>2 DEF TypeOK, LocalOK, AttemptOK, RowOK, PhaseOK, MarkCancelled, At, Write,
       Left
  <2>3. EventOK(i)'
    BY <1>1, <1>2 DEF TypeOK, LocalOK, RowOK, EventOK, MarkCancelled, At, Write, Left
  <2>4. TruthOK(i)'
    BY <1>1, <1>2 DEF TypeOK, LocalOK, AttemptOK, RowOK, EventOK, TruthOK, CancelOK,
       PhaseOK, MarkCancelled, At, Write, Left
  <2>5. CancelOK(i)'
    BY <1>1, <1>2 DEF TypeOK, LocalOK, AttemptOK, RowOK, CancelOK, PhaseOK, MarkCancelled,
       At, Write, Left
  <2>6. PhaseOK(i)'
    BY <1>1, <1>2 DEF TypeOK, LocalOK, PhaseOK, CancelOK, RowOK, MarkCancelled, At, Write,
       Left
  <2>. QED  BY <2>1, <2>2, <2>3, <2>4, <2>5, <2>6 DEF LocalOK
<1>5. Others(i) /\ phase' = phase
  BY <1>1, <1>2 DEF Others, Same, TypeOK, MarkCancelled, At, Write, Left
<1>. QED  BY <1>2, <1>3, <1>4, <1>5, StepOf

\* MarkRaises gives its slot back and preserves the invariant.
LEMMA MarkRaisesStep ==
  ASSUME IndInv, NEW i \in Inv, MarkRaises(i)
  PROVE  IndInv'
<1>. USE DEF Holding, Attempting, Alive, Pc, Terminal, Status, histVars, semVars, taskVars
<1>1. TypeOK /\ SemOK /\ LocalOK(i)
  BY DEF IndInv
<1>2. SemOK' /\ Left(i)
  BY <1>1, LeaveEffect DEF TypeOK, LocalOK, RowOK, MarkRaises, At, WriteRaises
<1>3. TypeOK'
  BY <1>1, <1>2, MaxRetriesAssumption DEF TypeOK, SemOK, LocalOK, AttemptOK, ErrorClass,
     MarkRaises, At, WriteRaises, Left
<1>4. LocalOK(i)'
  <2>1. AttemptOK(i)'
    BY <1>1, <1>2, MaxRetriesAssumption DEF TypeOK, LocalOK, AttemptOK, MarkRaises, At,
       WriteRaises, Left
  <2>2. RowOK(i)'
    BY <1>1, <1>2 DEF TypeOK, LocalOK, AttemptOK, RowOK, PhaseOK, MarkRaises, At,
       WriteRaises, Left
  <2>3. EventOK(i)'
    BY <1>1, <1>2 DEF TypeOK, LocalOK, RowOK, EventOK, MarkRaises, At, WriteRaises, Left
  <2>4. TruthOK(i)'
    BY <1>1, <1>2 DEF TypeOK, LocalOK, AttemptOK, RowOK, EventOK, TruthOK, CancelOK,
       PhaseOK, MarkRaises, At, WriteRaises, Left
  <2>5. CancelOK(i)'
    BY <1>1, <1>2 DEF TypeOK, LocalOK, AttemptOK, RowOK, CancelOK, PhaseOK, MarkRaises, At,
       WriteRaises, Left
  <2>6. PhaseOK(i)'
    BY <1>1, <1>2 DEF TypeOK, LocalOK, PhaseOK, CancelOK, RowOK, MarkRaises, At,
       WriteRaises, Left
  <2>. QED  BY <2>1, <2>2, <2>3, <2>4, <2>5, <2>6 DEF LocalOK
<1>5. Others(i) /\ phase' = phase
  BY <1>1, <1>2 DEF Others, Same, TypeOK, MarkRaises, At, WriteRaises, Left
<1>. QED  BY <1>2, <1>3, <1>4, <1>5, StepOf

\* CloseSession stays on its side of the semaphore and preserves the invariant.
LEMMA CloseSessionStep ==
  ASSUME IndInv, NEW i \in Inv, CloseSession(i)
  PROVE  IndInv'
<1>. USE DEF Holding, Attempting, Alive, Pc, Terminal, Status, histVars, semVars, taskVars
<1>1. TypeOK /\ SemOK /\ LocalOK(i)
  BY DEF IndInv
<1>2. SemOK'
  BY <1>1, SemStay DEF TypeOK, CloseSession, At
<1>3. TypeOK'
  BY <1>1, <1>2, MaxRetriesAssumption DEF TypeOK, SemOK, LocalOK, AttemptOK, ErrorClass,
     CloseSession, At
<1>4. LocalOK(i)'
  <2>1. AttemptOK(i)'
    BY <1>1, MaxRetriesAssumption DEF TypeOK, LocalOK, AttemptOK, CloseSession, At
  <2>2. RowOK(i)'
    BY <1>1 DEF TypeOK, LocalOK, AttemptOK, RowOK, PhaseOK, CloseSession, At
  <2>3. EventOK(i)'
    BY <1>1 DEF TypeOK, LocalOK, RowOK, EventOK, CloseSession, At
  <2>4. TruthOK(i)'
    BY <1>1 DEF TypeOK, LocalOK, AttemptOK, RowOK, EventOK, TruthOK, CancelOK, PhaseOK,
       CloseSession, At
  <2>5. CancelOK(i)'
    BY <1>1 DEF TypeOK, LocalOK, AttemptOK, RowOK, CancelOK, PhaseOK, CloseSession, At
  <2>6. PhaseOK(i)'
    BY <1>1 DEF TypeOK, LocalOK, PhaseOK, CancelOK, RowOK, CloseSession, At
  <2>. QED  BY <2>1, <2>2, <2>3, <2>4, <2>5, <2>6 DEF LocalOK
<1>5. Others(i) /\ phase' = phase
  BY <1>1 DEF Others, Same, TypeOK, CloseSession, At
<1>. QED  BY <1>2, <1>3, <1>4, <1>5, StepOf

\* Cancel touches no task and preserves the invariant.
LEMMA CancelStep ==
  ASSUME IndInv, NEW i \in Inv, Cancel(i)
  PROVE  IndInv'
<1>. USE DEF Holding, Attempting, Alive, Pc, Terminal, Status, histVars, semVars, taskVars
<1>1. TypeOK /\ SemOK /\ LocalOK(i)
  BY DEF IndInv
<1>2. SemOK'
  BY <1>1 DEF SemOK, QueueOK, SlotConservation, Holders, Cancel
<1>3. TypeOK'
  BY <1>1, <1>2, MaxRetriesAssumption DEF TypeOK, SemOK, LocalOK, AttemptOK, ErrorClass,
     Cancel
<1>4. LocalOK(i)'
  <2>1. AttemptOK(i)'
    BY <1>1, MaxRetriesAssumption DEF TypeOK, LocalOK, AttemptOK, Cancel
  <2>2. RowOK(i)'
    BY <1>1 DEF TypeOK, LocalOK, AttemptOK, RowOK, PhaseOK, Cancel
  <2>3. EventOK(i)'
    BY <1>1 DEF TypeOK, LocalOK, RowOK, EventOK, Cancel
  <2>4. TruthOK(i)'
    BY <1>1 DEF TypeOK, LocalOK, AttemptOK, RowOK, EventOK, TruthOK, CancelOK, PhaseOK,
       Cancel
  <2>5. CancelOK(i)'
    BY <1>1 DEF TypeOK, LocalOK, AttemptOK, RowOK, CancelOK, PhaseOK, Cancel
  <2>6. PhaseOK(i)'
    BY <1>1 DEF TypeOK, LocalOK, PhaseOK, CancelOK, RowOK, Cancel
  <2>. QED  BY <2>1, <2>2, <2>3, <2>4, <2>5, <2>6 DEF LocalOK
<1>5. Others(i) /\ phase' = phase
  BY <1>1 DEF Others, Same, TypeOK, Cancel
<1>. QED  BY <1>2, <1>3, <1>4, <1>5, StepOf

\* InterruptScheduled stays on its side of the semaphore and preserves the invariant.
LEMMA InterruptScheduledStep ==
  ASSUME IndInv, NEW i \in Inv, InterruptScheduled(i)
  PROVE  IndInv'
<1>. USE DEF Holding, Attempting, Alive, Pc, Terminal, Status, histVars, semVars, taskVars
<1>1. TypeOK /\ SemOK /\ LocalOK(i)
  BY DEF IndInv
<1>2. SemOK'
  BY <1>1, SemStay DEF TypeOK, InterruptScheduled, Interrupted
<1>3. TypeOK'
  BY <1>1, <1>2, MaxRetriesAssumption DEF TypeOK, SemOK, LocalOK, AttemptOK, ErrorClass,
     InterruptScheduled, Interrupted
<1>4. LocalOK(i)'
  <2>1. AttemptOK(i)'
    BY <1>1, MaxRetriesAssumption DEF TypeOK, LocalOK, AttemptOK, InterruptScheduled,
       Interrupted
  <2>2. RowOK(i)'
    BY <1>1 DEF TypeOK, LocalOK, AttemptOK, RowOK, PhaseOK, InterruptScheduled, Interrupted
  <2>3. EventOK(i)'
    BY <1>1 DEF TypeOK, LocalOK, RowOK, EventOK, InterruptScheduled, Interrupted
  <2>4. TruthOK(i)'
    BY <1>1 DEF TypeOK, LocalOK, AttemptOK, RowOK, EventOK, TruthOK, CancelOK, PhaseOK,
       InterruptScheduled, Interrupted
  <2>5. CancelOK(i)'
    BY <1>1 DEF TypeOK, LocalOK, AttemptOK, RowOK, CancelOK, PhaseOK, InterruptScheduled,
       Interrupted
  <2>6. PhaseOK(i)'
    BY <1>1 DEF TypeOK, LocalOK, PhaseOK, CancelOK, RowOK, InterruptScheduled, Interrupted
  <2>. QED  BY <2>1, <2>2, <2>3, <2>4, <2>5, <2>6 DEF LocalOK
<1>5. Others(i) /\ phase' = phase
  BY <1>1 DEF Others, Same, TypeOK, InterruptScheduled, Interrupted
<1>. QED  BY <1>2, <1>3, <1>4, <1>5, StepOf

\* InterruptQueued leaves the queue and preserves the invariant.
LEMMA InterruptQueuedStep ==
  ASSUME IndInv, NEW i \in Inv, InterruptQueued(i)
  PROVE  IndInv'
<1>. USE DEF Holding, Attempting, Alive, Pc, Terminal, Status, histVars, semVars, taskVars
<1>1. TypeOK /\ SemOK /\ LocalOK(i)
  BY DEF IndInv
<1>2. SemOK'
  BY <1>1, SemRemove DEF TypeOK, InterruptQueued, Interrupted
<1>3. TypeOK'
  BY <1>1, <1>2, MaxRetriesAssumption DEF TypeOK, SemOK, LocalOK, AttemptOK, ErrorClass,
     InterruptQueued, Interrupted, AfterRun
<1>4. LocalOK(i)'
  <2>1. AttemptOK(i)'
    BY <1>1, MaxRetriesAssumption DEF TypeOK, LocalOK, AttemptOK, InterruptQueued,
       Interrupted, AfterRun
  <2>2. RowOK(i)'
    BY <1>1 DEF TypeOK, LocalOK, AttemptOK, RowOK, PhaseOK, InterruptQueued, Interrupted,
       AfterRun
  <2>3. EventOK(i)'
    BY <1>1 DEF TypeOK, LocalOK, RowOK, EventOK, InterruptQueued, Interrupted, AfterRun
  <2>4. TruthOK(i)'
    BY <1>1 DEF TypeOK, LocalOK, AttemptOK, RowOK, EventOK, TruthOK, CancelOK, PhaseOK,
       InterruptQueued, Interrupted, AfterRun
  <2>5. CancelOK(i)'
    BY <1>1 DEF TypeOK, LocalOK, AttemptOK, RowOK, CancelOK, PhaseOK, InterruptQueued,
       Interrupted, AfterRun
  <2>6. PhaseOK(i)'
    BY <1>1 DEF TypeOK, LocalOK, PhaseOK, CancelOK, RowOK, InterruptQueued, Interrupted,
       AfterRun
  <2>. QED  BY <2>1, <2>2, <2>3, <2>4, <2>5, <2>6 DEF LocalOK
<1>5. Others(i) /\ phase' = phase
  BY <1>1 DEF Others, Same, TypeOK, InterruptQueued, Interrupted, AfterRun
<1>. QED  BY <1>2, <1>3, <1>4, <1>5, StepOf

\* InterruptAttempt stays on its side of the semaphore and preserves the invariant.
LEMMA InterruptAttemptStep ==
  ASSUME IndInv, NEW i \in Inv, InterruptAttempt(i)
  PROVE  IndInv'
<1>. USE DEF Holding, Attempting, Alive, Pc, Terminal, Status, histVars, semVars, taskVars
<1>1. TypeOK /\ SemOK /\ LocalOK(i)
  BY DEF IndInv
<1>2. SemOK'
  BY <1>1, SemStay DEF TypeOK, InterruptAttempt, Interrupted, Publish
<1>3. TypeOK'
  <2>1. finals' \in [Inv -> SUBSET {"result", "error"}]
    <3>1. finals' = finals \/ Publish(i, "result")
      BY DEF InterruptAttempt
    <3>2. CASE Publish(i, "result")
      BY <1>1, <3>2, PublishType
    <3>. QED  BY <1>1, <3>1, <3>2 DEF TypeOK
  <2>2. status' \in [Inv -> Status]
    BY <1>1 DEF TypeOK, InterruptAttempt, Interrupted, Publish
  <2>. QED  BY <1>1, <1>2, <2>1, <2>2 DEF TypeOK, SemOK, InterruptAttempt, Interrupted
<1>4. LocalOK(i)'
  <2>1. AttemptOK(i)'
    BY <1>1, MaxRetriesAssumption DEF TypeOK, LocalOK, AttemptOK, InterruptAttempt,
       Interrupted, Publish
  <2>2. RowOK(i)'
    BY <1>1 DEF TypeOK, LocalOK, AttemptOK, RowOK, PhaseOK, InterruptAttempt, Interrupted,
       Publish
  <2>3. EventOK(i)'
    BY <1>1 DEF TypeOK, LocalOK, RowOK, EventOK, InterruptAttempt, Interrupted, Publish
  <2>4. TruthOK(i)'
    BY <1>1 DEF TypeOK, LocalOK, AttemptOK, RowOK, EventOK, TruthOK, CancelOK, PhaseOK,
       InterruptAttempt, Interrupted, Publish
  <2>5. CancelOK(i)'
    BY <1>1 DEF TypeOK, LocalOK, AttemptOK, RowOK, CancelOK, PhaseOK, InterruptAttempt,
       Interrupted, Publish
  <2>6. PhaseOK(i)'
    BY <1>1 DEF TypeOK, LocalOK, PhaseOK, CancelOK, RowOK, InterruptAttempt, Interrupted,
       Publish
  <2>. QED  BY <2>1, <2>2, <2>3, <2>4, <2>5, <2>6 DEF LocalOK
<1>5. Others(i) /\ phase' = phase
  BY <1>1 DEF Others, Same, TypeOK, InterruptAttempt, Interrupted, Publish
<1>. QED  BY <1>2, <1>3, <1>4, <1>5, StepOf

\* InterruptOutside gives its slot back and preserves the invariant.
LEMMA InterruptOutsideStep ==
  ASSUME IndInv, NEW i \in Inv, InterruptOutside(i)
  PROVE  IndInv'
<1>. USE DEF Holding, Attempting, Alive, Pc, Terminal, Status, histVars, semVars, taskVars
<1>1. TypeOK /\ SemOK /\ LocalOK(i)
  BY DEF IndInv
<1>2. SemOK' /\ Left(i)
  BY <1>1, LeaveEffect DEF TypeOK, LocalOK, RowOK, InterruptOutside, Interrupted, Publish,
     PendingWrite
<1>3. TypeOK'
  <2>1. finals' \in [Inv -> SUBSET {"result", "error"}]
    <3>1. finals' = finals \/ Publish(i, "error")
      BY DEF InterruptOutside
    <3>2. CASE Publish(i, "error")
      BY <1>1, <3>2, PublishType
    <3>. QED  BY <1>1, <3>1, <3>2 DEF TypeOK
  <2>2. status' \in [Inv -> Status]
    BY <1>1 DEF TypeOK, InterruptOutside, Interrupted, Publish, PendingWrite
  <2>. QED  BY <1>1, <1>2, <2>1, <2>2 DEF TypeOK, SemOK, InterruptOutside, Interrupted, Left
<1>4. LocalOK(i)'
  <2>1. AttemptOK(i)'
    BY <1>1, <1>2, MaxRetriesAssumption DEF TypeOK, LocalOK, AttemptOK, InterruptOutside,
       Interrupted, Publish, PendingWrite, Left
  <2>2. RowOK(i)'
    BY <1>1, <1>2 DEF TypeOK, LocalOK, AttemptOK, RowOK, PhaseOK, InterruptOutside,
       Interrupted, Publish, PendingWrite, Left
  <2>3. EventOK(i)'
    BY <1>1, <1>2 DEF TypeOK, LocalOK, RowOK, EventOK, InterruptOutside, Interrupted,
       Publish, PendingWrite, Left
  <2>4. TruthOK(i)'
    BY <1>1, <1>2 DEF TypeOK, LocalOK, AttemptOK, RowOK, EventOK, TruthOK, CancelOK,
       PhaseOK, InterruptOutside, Interrupted, Publish, PendingWrite, Left
  <2>5. CancelOK(i)'
    BY <1>1, <1>2 DEF TypeOK, LocalOK, AttemptOK, RowOK, CancelOK, PhaseOK,
       InterruptOutside, Interrupted, Publish, PendingWrite, Left
  <2>6. PhaseOK(i)'
    BY <1>1, <1>2 DEF TypeOK, LocalOK, PhaseOK, CancelOK, RowOK, InterruptOutside,
       Interrupted, Publish, PendingWrite, Left
  <2>. QED  BY <2>1, <2>2, <2>3, <2>4, <2>5, <2>6 DEF LocalOK
<1>5. Others(i) /\ phase' = phase
  BY <1>1, <1>2 DEF Others, Same, TypeOK, InterruptOutside, Interrupted, Publish,
     PendingWrite, Left
<1>. QED  BY <1>2, <1>3, <1>4, <1>5, StepOf

\* InterruptClosing stays on its side of the semaphore and preserves the invariant.
LEMMA InterruptClosingStep ==
  ASSUME IndInv, NEW i \in Inv, InterruptClosing(i)
  PROVE  IndInv'
<1>. USE DEF Holding, Attempting, Alive, Pc, Terminal, Status, histVars, semVars, taskVars
<1>1. TypeOK /\ SemOK /\ LocalOK(i)
  BY DEF IndInv
<1>2. SemOK'
  BY <1>1, SemStay DEF TypeOK, InterruptClosing, Interrupted
<1>3. TypeOK'
  BY <1>1, <1>2, MaxRetriesAssumption DEF TypeOK, SemOK, LocalOK, AttemptOK, ErrorClass,
     InterruptClosing, Interrupted
<1>4. LocalOK(i)'
  <2>1. AttemptOK(i)'
    BY <1>1, MaxRetriesAssumption DEF TypeOK, LocalOK, AttemptOK, InterruptClosing,
       Interrupted
  <2>2. RowOK(i)'
    BY <1>1 DEF TypeOK, LocalOK, AttemptOK, RowOK, PhaseOK, InterruptClosing, Interrupted
  <2>3. EventOK(i)'
    BY <1>1 DEF TypeOK, LocalOK, RowOK, EventOK, InterruptClosing, Interrupted
  <2>4. TruthOK(i)'
    BY <1>1 DEF TypeOK, LocalOK, AttemptOK, RowOK, EventOK, TruthOK, CancelOK, PhaseOK,
       InterruptClosing, Interrupted
  <2>5. CancelOK(i)'
    BY <1>1 DEF TypeOK, LocalOK, AttemptOK, RowOK, CancelOK, PhaseOK, InterruptClosing,
       Interrupted
  <2>6. PhaseOK(i)'
    BY <1>1 DEF TypeOK, LocalOK, PhaseOK, CancelOK, RowOK, InterruptClosing, Interrupted
  <2>. QED  BY <2>1, <2>2, <2>3, <2>4, <2>5, <2>6 DEF LocalOK
<1>5. Others(i) /\ phase' = phase
  BY <1>1 DEF Others, Same, TypeOK, InterruptClosing, Interrupted
<1>. QED  BY <1>2, <1>3, <1>4, <1>5, StepOf

-----------------------------------------------------------------------------
(***************************************************************************)
(* The invariant holds initially and every step preserves it.                  *)
(***************************************************************************)

\* Before the first request: no row, no task, every slot free.
LEMMA InitOK == Init => IndInv
<1>. SUFFICES ASSUME Init PROVE IndInv
  OBVIOUS
<1>1. TypeOK
  BY MaxConcurrentAssumption, MaxRetriesAssumption
  DEF Init, TypeOK, Pc, Status, ErrorClass
<1>2. SemOK
  <2>1. Holders = {}
    BY DEF Init, Holders, Holding, Attempting
  <2>2. Cardinality(Holders) = 0
    BY <2>1, FS_EmptySet
  <2>. QED  BY <1>1, <2>2, MaxConcurrentAssumption
            DEF Init, SemOK, QueueOK, SlotConservation, TypeOK
<1>3. ASSUME NEW i \in Inv PROVE LocalOK(i)
  BY DEF Init, LocalOK, AttemptOK, RowOK, EventOK, TruthOK, CancelOK, PhaseOK,
         Alive, Holding, Attempting, Terminal
<1>. QED  BY <1>1, <1>2, <1>3 DEF IndInv

\* shutdown() requests the cancellation of the tracked tasks and no more.
LEMMA ShutdownStep == IndInv /\ Shutdown => IndInv'
<1>. SUFFICES ASSUME IndInv, Shutdown PROVE IndInv'
  OBVIOUS
<1>. USE DEF Shutdown, taskVars, semVars, histVars
<1>1. TypeOK'
  BY DEF IndInv, TypeOK
<1>2. SemOK'
  BY DEF IndInv, SemOK, QueueOK, SlotConservation, Holders
<1>3. ASSUME NEW i \in Inv PROVE LocalOK(i)'
  <2>1. LocalOK(i) /\ TypeOK
    BY DEF IndInv
  <2>2. PhaseOK(i)'
    BY <2>1 DEF LocalOK, PhaseOK, Tracked, TypeOK
  <2>3. interrupt[i] = "none"
    BY <2>1 DEF LocalOK, PhaseOK
  <2>. QED  BY <2>1, <2>2, <2>3
            DEF LocalOK, AttemptOK, RowOK, EventOK, TruthOK, CancelOK
<1>. QED  BY <1>1, <1>2, <1>3 DEF IndInv

\* shutdown() returns once no tracked task is left.
LEMMA ShutdownReturnsStep == IndInv /\ ShutdownReturns => IndInv'
<1>. SUFFICES ASSUME IndInv, ShutdownReturns PROVE IndInv'
  OBVIOUS
<1>. USE DEF ShutdownReturns, taskVars, semVars, histVars
<1>1. TypeOK'
  BY DEF IndInv, TypeOK
<1>2. SemOK'
  BY DEF IndInv, SemOK, QueueOK, SlotConservation, Holders
<1>3. ASSUME NEW i \in Inv PROVE LocalOK(i)'
  <2>1. LocalOK(i) /\ TypeOK
    BY DEF IndInv
  <2>2. PhaseOK(i)'
    BY <2>1 DEF LocalOK, PhaseOK, Tracked, TypeOK
  <2>. QED  BY <2>1, <2>2
            DEF LocalOK, AttemptOK, RowOK, EventOK, TruthOK, CancelOK
<1>. QED  BY <1>1, <1>2, <1>3 DEF IndInv

\* A step that changes nothing.
LEMMA StutterStep == IndInv /\ UNCHANGED vars => IndInv'
BY DEF IndInv, TypeOK, SemOK, QueueOK, SlotConservation, Holders, LocalOK,
       AttemptOK, RowOK, EventOK, TruthOK, CancelOK, PhaseOK, vars

\* One step of any task, request or shutdown.
LEMMA NextStep == IndInv /\ [Next]_vars => IndInv'
<1>. SUFFICES ASSUME IndInv, [Next]_vars PROVE IndInv'
  OBVIOUS
<1>1. ASSUME NEW i \in Inv, Request(i) \/ TaskStep(i) PROVE IndInv'
  BY <1>1,
         InvokeSyncStep, InvokeAsyncStep, CreateRaisesStep, RunBackgroundStep,
         MarkRunningStep, MarkRunningRaisesStep, FirstAttemptStep,
         NextAttemptStep, RetryToolStep, ToolReturnsStep, ToolRaisesStep,
         MarkDoneStep, MarkDoneRaisesStep, PublishResultStep, AuditStep,
         MarkFailedStep, PublishErrorStep, MarkCancelledStep,
         MarkRaisesStep, CloseSessionStep, CancelStep,
         InterruptScheduledStep, InterruptQueuedStep, InterruptAttemptStep,
         InterruptOutsideStep, InterruptClosingStep
  DEF Request, TaskStep, Deliver
<1>2. CASE Shutdown
  BY <1>2, ShutdownStep
<1>3. CASE ShutdownReturns
  BY <1>3, ShutdownReturnsStep
<1>4. CASE Stopped \/ UNCHANGED vars
  BY <1>4, StutterStep DEF Stopped
<1>. QED  BY <1>1, <1>2, <1>3, <1>4 DEF Next

\* Every reachable state of the service satisfies the inductive invariant.
THEOREM Invariance == Spec => []IndInv
<1>1. Init => IndInv
  BY InitOK
<1>2. IndInv /\ [Next]_vars => IndInv'
  BY NextStep
<1>. QED  BY <1>1, <1>2, PTL DEF Spec

-----------------------------------------------------------------------------
(***************************************************************************)
(* The properties.                                                            *)
(***************************************************************************)

\* Types: every variable keeps its range; in particular the retry loop never
\* exceeds MaxRetries and the semaphore's counter stays within its cap.
THEOREM TypeCorrect == Spec => []TypeOK
<1>1. IndInv => TypeOK
  BY DEF IndInv
<1>. QED  BY <1>1, Invariance, PTL

\* Slots are conserved on every path out of _run, for every cap.
THEOREM SlotsConserved == Spec => []SlotConservation
<1>1. IndInv => SlotConservation
  BY DEF IndInv, SemOK
<1>. QED  BY <1>1, Invariance, PTL

\* A poller can trust the status column.
THEOREM RowTruth == Spec => []RowTellsTruth
<1>1. IndInv => RowTellsTruth
  <2>. SUFFICES ASSUME IndInv, NEW i \in Inv,
                       status[i] = "running",
                       interrupt[i] # "delivered", ~dbFailed[i]
                PROVE  pc[i] \in Holding
    BY DEF IndInv, LocalOK, TruthOK, RowTellsTruth
  <2>1. LocalOK(i) /\ pc[i] \in Pc
    BY DEF IndInv, TypeOK
  <2>. QED  BY <2>1 DEF LocalOK, RowOK, Pc, Alive, Terminal
<1>. QED  BY <1>1, Invariance, PTL

\* Only the shutdown and a failed status write strand a row.
THEOREM StrandedRowsExcused == Spec => []OnlyExcusedRowsStranded
<1>1. IndInv => OnlyExcusedRowsStranded
  BY DEF IndInv, LocalOK, RowOK, OnlyExcusedRowsStranded
<1>. QED  BY <1>1, Invariance, PTL

\* The cancellation registry leaks no entry and drops none early.
THEOREM RegistryExact == Spec => []RegistryMatchesTasks
<1>1. IndInv => RegistryMatchesTasks
  BY DEF IndInv, LocalOK, CancelOK, RegistryMatchesTasks
<1>. QED  BY <1>1, Invariance, PTL

\* A final event is unique and backed by the committed row.
THEOREM FinalEventsTruthful == Spec => []FinalEventTruthful
<1>1. IndInv => FinalEventTruthful
  BY DEF IndInv, LocalOK, TruthOK, FinalEventTruthful
<1>. QED  BY <1>1, Invariance, PTL

\* An accepted cancel lets at most one more attempt start.
THEOREM CancelBounds == Spec => []CancelStopsAttempts
<1>1. IndInv => CancelStopsAttempts
  BY DEF IndInv, LocalOK, CancelOK, CancelStopsAttempts
<1>. QED  BY <1>1, Invariance, PTL

\* After shutdown() no task, slot or registry entry is left.
THEOREM ShutdownComplete == Spec => []ShutdownDrains
<1>1. IndInv => ShutdownDrains
  <2>. SUFFICES ASSUME IndInv, phase = "down"
                PROVE  /\ \A i \in Inv : /\ pc[i] \in {"absent", "ended"}
                                       /\ cancelEv[i] = "none"
                       /\ value = MaxConcurrent
    BY DEF ShutdownDrains
  <2>1. \A i \in Inv : pc[i] \in {"absent", "ended"}
    BY DEF IndInv, LocalOK, PhaseOK
  <2>2. \A i \in Inv : cancelEv[i] = "none"
    BY <2>1 DEF IndInv, LocalOK, CancelOK, Alive, Holding, Attempting
  <2>3. Holders = {}
    BY <2>1 DEF Holders, Holding, Attempting
  <2>4. Cardinality(Holders) = 0
    BY <2>3, FS_EmptySet
  <2>5. value = MaxConcurrent
    BY <2>4, MaxConcurrentAssumption DEF IndInv, SemOK, SlotConservation
  <2>. QED  BY <2>1, <2>2, <2>5
<1>. QED  BY <1>1, Invariance, PTL

-----------------------------------------------------------------------------
(***************************************************************************)
(* Action properties.                                                         *)
(***************************************************************************)

\* Only two steps start an attempt: the first one, and a retry.
LEMMA AttemptStarts ==
  ASSUME TypeOK, [Next]_vars, NEW j \in Inv, runs'[j] # runs[j]
  PROVE  pc[j] \in {"announcing", "retrying"}
<1>. USE DEF histVars, taskVars
<1>1. CASE \E i \in Inv : FirstAttempt(i) \/ RetryTool(i)
  BY <1>1 DEF FirstAttempt, RetryTool, CallTool, At, TypeOK
<1>2. CASE \E i \in Inv : Request(i)
  BY <1>2 DEF Request, InvokeSync, InvokeAsync, CreateRaises, Cancel
<1>3. CASE \E i \in Inv : \/ RunBackground(i) \/ MarkRunning(i)
                          \/ MarkRunningRaises(i) \/ NextAttempt(i)
                          \/ ToolReturns(i) \/ ToolRaises(i)
  BY <1>3 DEF RunBackground, MarkRunning, MarkRunningRaises, NextAttempt,
              ToolReturns, ToolRaises
<1>4. CASE \E i \in Inv : \/ MarkDone(i) \/ MarkDoneRaises(i) \/ PublishResult(i)
                          \/ Audit(i) \/ MarkFailed(i) \/ PublishError(i)
                          \/ MarkCancelled(i) \/ MarkRaises(i) \/ CloseSession(i)
  BY <1>4 DEF MarkDone, MarkDoneRaises, PublishResult, Audit, MarkFailed,
              PublishError, MarkCancelled, MarkRaises, CloseSession
<1>5. CASE \E i \in Inv : Deliver(i)
  BY <1>5 DEF Deliver, InterruptScheduled, InterruptQueued, InterruptAttempt,
              InterruptOutside, InterruptClosing
<1>6. CASE Shutdown \/ ShutdownReturns \/ Stopped \/ UNCHANGED vars
  BY <1>6 DEF Shutdown, ShutdownReturns, Stopped, vars
<1>. QED  BY <1>1, <1>2, <1>3, <1>4, <1>5, <1>6 DEF Next, TaskStep

\* A tool that ran is run again only after a transient error, and never more
\* than MaxRetries times.
THEOREM TransientRetries == Spec => RetriesOnlyTransient
<1>. DEFINE A == \A i \in Inv : runs[i] > 0 /\ runs'[i] # runs[i] =>
                    lastError[i] = "transient" /\ runs'[i] <= MaxRetries + 1
<1>1. IndInv /\ IndInv' /\ [Next]_vars => A
  <2>. SUFFICES ASSUME IndInv, IndInv', [Next]_vars, NEW i \in Inv,
                       runs[i] > 0, runs'[i] # runs[i]
                PROVE  lastError[i] = "transient" /\ runs'[i] <= MaxRetries + 1
    OBVIOUS
  <2>1. TypeOK /\ TypeOK' /\ LocalOK(i)
    BY DEF IndInv
  <2>2. pc[i] = "retrying"
    BY <2>1, AttemptStarts DEF LocalOK, AttemptOK
  <2>3. runs'[i] \in 0 .. MaxRetries + 1
    BY <2>1 DEF TypeOK
  <2>. QED  BY <2>1, <2>2, <2>3, MaxRetriesAssumption DEF LocalOK, AttemptOK
<1>2. IndInv /\ IndInv' /\ [Next]_vars => [A]_vars
  BY <1>1
<1>. QED  BY <1>2, Invariance, PTL DEF Spec, RetriesOnlyTransient

-----------------------------------------------------------------------------
(***************************************************************************)
(* The service implements InvocationLifecycle.                                *)
(***************************************************************************)

\* The steps that touch neither a row nor a final event.
LEMMA SilentSteps ==
  ASSUME NEW i \in Inv,
         \/ Cancel(i) \/ RunBackground(i) \/ MarkRunningRaises(i)
         \/ FirstAttempt(i) \/ NextAttempt(i) \/ RetryTool(i) \/ ToolReturns(i)
         \/ ToolRaises(i) \/ MarkDoneRaises(i) \/ Audit(i) \/ MarkRaises(i)
         \/ CloseSession(i) \/ InterruptScheduled(i) \/ InterruptQueued(i)
         \/ InterruptClosing(i)
  PROVE  UNCHANGED <<status, finals>>
BY DEF Cancel, RunBackground, MarkRunningRaises, FirstAttempt, NextAttempt,
       RetryTool, ToolReturns, ToolRaises, MarkDoneRaises, WriteRaises, Audit,
       MarkRaises, CloseSession, InterruptScheduled, InterruptQueued,
       InterruptClosing

\* A publication either announces the outcome the row holds or is lost.
LEMMA PublishRefines ==
  ASSUME TypeOK, NEW i \in Inv, NEW kind \in {"result", "error"},
         finals[i] = {}, Publish(i, kind), UNCHANGED status,
         kind = "result" => status[i] = "done",
         kind = "error" => status[i] = "failed"
  PROVE  [Lifecycle!Next]_<<status, finals>>
<1>1. PICK sent \in {{}, {kind}} : finals' = [finals EXCEPT ![i] = @ \cup sent]
  BY DEF Publish
<1>2. CASE sent = {}
  <2>1. finals' = finals
    BY <1>1, <1>2 DEF TypeOK
  <2>. QED  BY <2>1
<1>3. CASE sent = {kind}
  <2>1. finals' = [finals EXCEPT ![i] = {kind}]
    BY <1>1, <1>3
  <2>2. Lifecycle!Announce(i)
    BY <2>1 DEF Lifecycle!Announce
  <2>. QED  BY <2>2 DEF Lifecycle!Next
<1>. QED  BY <1>1, <1>2, <1>3

\* Every step of the service is a step of the lifecycle or leaves it alone.
LEMMA StepRefines == IndInv /\ [Next]_vars => [Lifecycle!Next]_<<status, finals>>
<1>. SUFFICES ASSUME IndInv, [Next]_vars
              PROVE  [Lifecycle!Next]_<<status, finals>>
  OBVIOUS
<1>1. CASE Shutdown \/ ShutdownReturns \/ Stopped \/ UNCHANGED vars
  BY <1>1 DEF Shutdown, ShutdownReturns, Stopped, vars
<1>2. ASSUME NEW i \in Inv, Request(i) \/ TaskStep(i)
      PROVE  [Lifecycle!Next]_<<status, finals>>
  <2>. USE DEF Holding, Attempting
  <2>1. TypeOK /\ LocalOK(i)
    BY DEF IndInv
  <2>2. CASE InvokeSync(i) \/ InvokeAsync(i) \/ CreateRaises(i)
    <3>1. Lifecycle!Accept(i)
      BY <2>1, <2>2 DEF InvokeSync, InvokeAsync, CreateRaises, Fresh, Lifecycle!Accept,
         LocalOK, RowOK
    <3>. QED  BY <3>1 DEF Lifecycle!Next
  <2>3. CASE MarkRunning(i)
    <3>1. Lifecycle!Start(i)
      BY <2>1, <2>3 DEF MarkRunning, At, Write, Lifecycle!Start, LocalOK, RowOK
    <3>. QED  BY <3>1 DEF Lifecycle!Next
  <2>4. CASE MarkDone(i) \/ MarkFailed(i)
    <3>1. Lifecycle!Close(i)
      BY <2>1, <2>4 DEF MarkDone, MarkFailed, At, Write, Lifecycle!Close,
                        Lifecycle!Closed, LocalOK, RowOK
    <3>. QED  BY <3>1 DEF Lifecycle!Next
  <2>5. CASE MarkCancelled(i)
    <3>1. Lifecycle!Close(i) \/ Lifecycle!Revoke(i)
      BY <2>1, <2>5 DEF MarkCancelled, At, Write, Lifecycle!Close,
                        Lifecycle!Closed, Lifecycle!Revoke, LocalOK, RowOK
    <3>. QED  BY <3>1 DEF Lifecycle!Next
  <2>6. CASE PublishResult(i)
    BY <2>1, <2>6, PublishRefines DEF PublishResult, At, LocalOK, RowOK, EventOK
  <2>7. CASE PublishError(i)
    BY <2>1, <2>7, PublishRefines DEF PublishError, At, LocalOK, RowOK, EventOK, histVars
  <2>8. CASE InterruptAttempt(i)
    <3>1. CASE UNCHANGED <<status, finals>>
      BY <3>1
    <3>2. CASE /\ pc[i] = "completing" /\ status' = [status EXCEPT ![i] = "done"]
               /\ UNCHANGED finals
      <4>1. Lifecycle!Close(i)
        BY <2>1, <3>2 DEF Lifecycle!Close, Lifecycle!Closed, LocalOK, RowOK
      <4>. QED  BY <4>1 DEF Lifecycle!Next
    <3>3. CASE pc[i] = "publishing" /\ Publish(i, "result") /\ UNCHANGED status
      BY <2>1, <3>3, PublishRefines DEF LocalOK, RowOK, EventOK
    <3>. QED  BY <2>8, <3>1, <3>2, <3>3 DEF InterruptAttempt
  <2>9. CASE InterruptOutside(i)
    <3>1. CASE UNCHANGED <<status, finals>>
      BY <3>1
    <3>2. CASE /\ pc[i] \in DOMAIN PendingWrite
               /\ status' = [status EXCEPT ![i] = PendingWrite[pc[i]]]
               /\ UNCHANGED finals
      <4>1. CASE pc[i] = "starting"
        <5>1. Lifecycle!Start(i)
          BY <2>1, <3>2, <4>1 DEF PendingWrite, Lifecycle!Start, LocalOK, RowOK
        <5>. QED  BY <5>1 DEF Lifecycle!Next
      <4>2. CASE pc[i] = "failing" \/ pc[i] = "cancelling"
        <5>1. status[i] = "running" /\ PendingWrite[pc[i]] \in {"failed", "cancelled"}
          BY <2>1, <4>2 DEF PendingWrite, LocalOK, RowOK
        <5>2. Lifecycle!Close(i)
          BY <3>2, <5>1 DEF Lifecycle!Close, Lifecycle!Closed
        <5>. QED  BY <5>2 DEF Lifecycle!Next
      <4>3. pc[i] \in {"starting", "failing", "cancelling"}
        BY <3>2 DEF PendingWrite
      <4>. QED  BY <4>1, <4>2, <4>3
    <3>3. CASE pc[i] = "reporting" /\ Publish(i, "error") /\ UNCHANGED status
      BY <2>1, <3>3, PublishRefines DEF LocalOK, RowOK, EventOK
    <3>. QED  BY <2>9, <3>1, <3>2, <3>3 DEF InterruptOutside
  <2>. QED  BY <1>2, <2>2, <2>3, <2>4, <2>5, <2>6, <2>7, <2>8, <2>9, SilentSteps
            DEF Request, TaskStep, Deliver
<1>. QED  BY <1>1, <1>2 DEF Next

\* Seen from outside the service behaves as InvocationLifecycle, for every set of
\* invocations, cap and number of retries.
THEOREM Refinement == Spec => ImplementsLifecycle
<1>1. Init => Lifecycle!Init
  BY DEF Init, Lifecycle!Init
<1>2. IndInv /\ [Next]_vars => [Lifecycle!Next]_<<status, finals>>
  BY StepRefines
<1>. QED  BY <1>1, <1>2, Invariance, PTL
          DEF Spec, ImplementsLifecycle, Lifecycle!Spec, Lifecycle!vars

\* A terminal row changes only from DONE to CANCELLED, on a shutdown.
THEOREM TerminalStays == Spec => TerminalRowsStay
<1>. DEFINE A == \A i \in Inv : status[i] \in Terminal /\ status'[i] # status[i] =>
                    /\ status[i] = "done" /\ status'[i] = "cancelled"
                    /\ interrupt[i] = "delivered"
<1>1. IndInv /\ [Next]_vars => A
  <2>. SUFFICES ASSUME IndInv, [Next]_vars, NEW j \in Inv,
                       status[j] \in Terminal, status'[j] # status[j]
                PROVE  /\ status[j] = "done" /\ status'[j] = "cancelled"
                       /\ interrupt[j] = "delivered"
    OBVIOUS
  <2>. USE DEF Terminal, Holding, Attempting
  <2>1. TypeOK /\ LocalOK(j)
    BY DEF IndInv
  <2>2. CASE Shutdown \/ ShutdownReturns \/ Stopped \/ UNCHANGED vars
    BY <2>2 DEF Shutdown, ShutdownReturns, Stopped, vars
  <2>3. ASSUME NEW i \in Inv, Request(i) \/ TaskStep(i), i # j
        PROVE  status'[j] = status[j]
    <3>1. \/ UNCHANGED status
          \/ \E st \in Status : status' = [status EXCEPT ![i] = st]
      BY <2>3, SilentSteps
      DEF Request, TaskStep, Deliver, InvokeSync, InvokeAsync, CreateRaises, MarkRunning,
          MarkDone, MarkFailed, MarkCancelled, Write, PublishResult,
          PublishError, InterruptAttempt, InterruptOutside, PendingWrite, Status
    <3>. QED  BY <2>1, <2>3, <3>1 DEF TypeOK
  <2>4. CASE Request(j) \/ TaskStep(j)
    <3>1. CASE MarkCancelled(j)
      BY <2>1, <3>1 DEF MarkCancelled, At, Write, LocalOK, RowOK, TypeOK
    <3>2. CASE InvokeSync(j) \/ InvokeAsync(j) \/ CreateRaises(j)
      BY <2>1, <3>2 DEF InvokeSync, InvokeAsync, CreateRaises, Fresh, LocalOK, RowOK
    <3>3. CASE MarkRunning(j) \/ MarkDone(j) \/ MarkFailed(j)
      BY <2>1, <3>3 DEF MarkRunning, MarkDone, MarkFailed, At, LocalOK, RowOK
    <3>4. CASE PublishResult(j) \/ PublishError(j)
      BY <3>4 DEF PublishResult, PublishError
    <3>5. CASE InterruptAttempt(j)
      BY <2>1, <3>5 DEF InterruptAttempt, LocalOK, RowOK
    <3>6. CASE InterruptOutside(j)
      BY <2>1, <3>6 DEF InterruptOutside, PendingWrite, LocalOK, RowOK
    <3>. QED  BY <2>4, <3>1, <3>2, <3>3, <3>4, <3>5, <3>6, SilentSteps
              DEF Request, TaskStep, Deliver
  <2>. QED  BY <2>2, <2>3, <2>4 DEF Next
<1>2. IndInv /\ [Next]_vars => [A]_vars
  BY <1>1
<1>. QED  BY <1>2, Invariance, PTL DEF Spec, TerminalRowsStay

=============================================================================
