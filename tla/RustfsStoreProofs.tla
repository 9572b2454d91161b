-------------------------- MODULE RustfsStoreProofs --------------------------
(***************************************************************************)
(* Proofs about RustfsStore for every finite set of put_bytes calls, every *)
(* set of closers and every positive max_concurrent_uploads.               *)
(***************************************************************************)
EXTENDS RustfsStore, SequenceLemmas, TLAPS

-----------------------------------------------------------------------------
(* Typing *)

\* Handing over the close lock keeps the types of what it assigns.
LEMMA UnlockType ==
    ASSUME TypeOK,
           NEW s \in [Closers -> CloserState],
           Unlock(s)
    PROVE  /\ closer' \in [Closers -> CloserState]
           /\ closeLocked' \in BOOLEAN
           /\ closeWaiters' \in Seq(Closers)
  <1>1. CASE closeWaiters = <<>>
    BY <1>1 DEF Unlock, TypeOK
  <1>2. CASE closeWaiters # <<>>
    <2>1. Head(closeWaiters) \in Closers /\ Tail(closeWaiters) \in Seq(Closers)
      BY <1>2 DEF TypeOK
    <2>2. "lockGranted" \in CloserState
      BY DEF CloserState, Suspended
    <2>3. QED
      BY <1>2, <2>1, <2>2 DEF Unlock
  <1>3. QED
    BY <1>1, <1>2

\* Handing over a semaphore slot keeps the types of what it assigns.
LEMMA ReleaseSlotType ==
    ASSUME TypeOK,
           NEW w \in [Puts -> WorkerState],
           ReleaseSlot(w)
    PROVE  /\ worker' \in [Puts -> WorkerState]
           /\ slots' \in Nat
           /\ waiters' \in Seq(Puts)
  <1>1. CASE waiters = <<>>
    BY <1>1 DEF ReleaseSlot, TypeOK
  <1>2. CASE waiters # <<>>
    <2>1. Head(waiters) \in Puts /\ Tail(waiters) \in Seq(Puts)
      BY <1>2 DEF TypeOK
    <2>2. "granted" \in WorkerState
      BY DEF WorkerState, Unfinished
    <2>3. QED
      BY <1>2, <2>1, <2>2 DEF ReleaseSlot, TypeOK
  <1>3. QED
    BY <1>1, <1>2

\* The body of aclose under the lock keeps the types of what it assigns.
LEMMA CloseBodyType ==
    ASSUME TypeOK, NEW c \in Closers, CloseBody(c)
    PROVE  /\ closer' \in [Closers -> CloserState]
           /\ closeLocked' \in BOOLEAN
           /\ closeWaiters' \in Seq(Closers)
           /\ closing' \in BOOLEAN
           /\ closed' \in BOOLEAN
  <1>1. [closer EXCEPT ![c] = "done"] \in [Closers -> CloserState]
    BY DEF TypeOK, CloserState
  <1>2. CASE closed /\ Unlock([closer EXCEPT ![c] = "done"]) /\ UNCHANGED <<closing, closed>>
    BY <1>1, <1>2, UnlockType DEF TypeOK
  <1>3. CASE /\ closing' = TRUE
             /\ closer' = [closer EXCEPT ![c] = "drainWait"]
             /\ closeLocked' = TRUE
             /\ UNCHANGED <<closed, closeWaiters>>
    BY <1>3 DEF TypeOK, CloserState, Suspended, InCloseLock
  <1>4. CASE /\ closing' = TRUE
             /\ closer' = [closer EXCEPT ![c] = "closing"]
             /\ closeLocked' = TRUE
             /\ UNCHANGED <<closed, closeWaiters>>
    BY <1>4 DEF TypeOK, CloserState, Suspended, InCloseLock
  <1>5. CASE /\ closing' = TRUE
             /\ closed' = TRUE
             /\ Unlock([closer EXCEPT ![c] = "done"])
    BY <1>1, <1>5, UnlockType DEF TypeOK
  <1>6. QED
    BY <1>2, <1>3, <1>4, <1>5 DEF CloseBody

LEMMA InitTypeOK == Init => TypeOK
  <1> SUFFICES ASSUME Init
               PROVE  TypeOK
    OBVIOUS
  <1>1. waiters \in Seq(Puts) /\ closeWaiters \in Seq(Closers)
    BY DEF Init
  <1>2. slots \in Nat
    BY MaxConcurrentPositive DEF Init
  <1>3. /\ caller \in [Puts -> CallerState]
        /\ worker \in [Puts -> WorkerState]
        /\ closer \in [Closers -> CloserState]
    BY DEF Init, CallerState, WorkerState, CloserState
  <1>4. QED
    BY <1>1, <1>2, <1>3 DEF Init, TypeOK

\* Counting an upload out keeps the types of what it assigns besides the count.
LEMMA UncountType ==
    ASSUME TypeOK, Uncount
    PROVE  /\ drained' \in BOOLEAN
           /\ closer' \in [Closers -> CloserState]
           /\ UNCHANGED <<closing, closed, closeLocked, closeWaiters>>
  BY DEF Uncount, TypeOK, CloserState, Suspended, InCloseLock

\* Every step of a put_bytes call or of its worker keeps the types.
LEMMA PutStepTypeOK ==
    ASSUME TypeOK, activeUploads' \in Nat, NEW p \in Puts, PutStep(p)
    PROVE  TypeOK'
  <1>1. CASE RejectInput(p)
    BY <1>1 DEF RejectInput, TypeOK, CallerState, gateVars, lockVars, poolVars
  <1>2. CASE PutBytes(p)
    BY <1>2 DEF PutBytes, TypeOK, CallerState, WorkerState, gateVars, lockVars, poolVars
  <1>3. CASE PutReturns(p)
    BY <1>3 DEF PutReturns, TypeOK, CallerState, gateVars, lockVars, poolVars
  <1>4. CASE CancelPut(p)
    BY <1>4 DEF CancelPut, TypeOK, CallerState, gateVars, lockVars, poolVars
  <1>5. CASE RefuseUpload(p)
    BY <1>5 DEF RefuseUpload, TypeOK, WorkerState, Finished, gateVars, lockVars, poolVars
  <1>6. CASE AdmitUpload(p)
    <2>1. worker' \in [Puts -> WorkerState]
      BY <1>6 DEF AdmitUpload, TypeOK, WorkerState, Unfinished
    <2>2. slots' \in Nat
      BY <1>6 DEF AdmitUpload, SlotAvailable, TypeOK
    <2>3. waiters' \in Seq(Puts)
      <3>1. waiters \in Seq(Puts) /\ Append(waiters, p) \in Seq(Puts)
        BY DEF TypeOK
      <3>2. QED
        BY <1>6, <3>1 DEF AdmitUpload
    <2>4. QED
      BY <1>6, <2>1, <2>2, <2>3 DEF AdmitUpload, ClearDrained, TypeOK, lockVars, poolVars
  <1>7. CASE TakeSlot(p)
    <2> DEFINE started == [worker EXCEPT ![p] = "thread"]
    <2>1. started \in [Puts -> WorkerState]
      BY DEF TypeOK, WorkerState, Unfinished
    <2>2. CASE slots > 0 /\ waiters # <<>>
      <3>1. Head(waiters) \in Puts /\ Tail(waiters) \in Seq(Puts)
        BY <2>2 DEF TypeOK
      <3>2. worker' = [started EXCEPT ![Head(waiters)] = "granted"] /\ waiters' = Tail(waiters)
            /\ slots' = slots - 1
        BY <1>7, <2>2 DEF TakeSlot
      <3>3. worker' \in [Puts -> WorkerState] /\ slots' \in Nat /\ waiters' \in Seq(Puts)
        <4> HIDE DEF started
        <4> QED
          BY <2>1, <2>2, <3>1, <3>2 DEF TypeOK, WorkerState, Unfinished
      <3>4. QED
        BY <1>7, <3>3 DEF TakeSlot, TypeOK, gateVars, lockVars, poolVars
    <2>3. CASE ~(slots > 0 /\ waiters # <<>>)
      BY <1>7, <2>1, <2>3 DEF TakeSlot, TypeOK, gateVars, lockVars, poolVars
    <2>4. QED
      BY <2>2, <2>3
  <1>8. CASE PutObject(p)
    BY <1>8 DEF PutObject, TypeOK, WorkerState, Unfinished, gateVars, lockVars, poolVars
  <1>9. CASE FinishUpload(p)
    <2> DEFINE w == [worker EXCEPT ![p] = IF @ = "answeredOk" THEN "stored" ELSE "failed"]
    <2>1. w \in [Puts -> WorkerState]
      BY DEF TypeOK, WorkerState, Finished
    <2>2. ReleaseSlot(w)
      BY <1>9 DEF FinishUpload
    <2>3. worker' \in [Puts -> WorkerState] /\ slots' \in Nat /\ waiters' \in Seq(Puts)
      <3> HIDE DEF w
      <3> QED
        BY <2>1, <2>2, ReleaseSlotType
    <2>4. QED
      BY <1>9, <2>3, UncountType DEF FinishUpload, TypeOK, poolVars
  <1>10. CASE DropWorker(p)
    BY <1>10 DEF DropWorker, TypeOK, WorkerState, Finished, gateVars, lockVars, poolVars
  <1>11. CASE CancelWorker(p)
    <2> DEFINE w == [worker EXCEPT ![p] = "cancelled"]
    <2>1. w \in [Puts -> WorkerState]
      BY DEF TypeOK, WorkerState, Finished
    <2>2. worker' \in [Puts -> WorkerState] /\ slots' \in Nat /\ waiters' \in Seq(Puts)
      <3>1. CASE worker[p] = "queued"
        <4>1. LeaveQueue(p, w)
          BY <1>11, <3>1 DEF CancelWorker
        <4>2. waiters' \in Seq(Puts)
          BY <4>1, RemoveAtElements DEF LeaveQueue, TypeOK
        <4>3. QED
          BY <2>1, <4>1, <4>2 DEF LeaveQueue, TypeOK
      <3>2. CASE worker[p] # "queued"
        <4>1. ReleaseSlot(w)
          BY <1>11, <3>2 DEF CancelWorker
        <4> HIDE DEF w
        <4>2. QED
          BY <2>1, <4>1, ReleaseSlotType
      <3>3. QED
        BY <3>1, <3>2
    <2>3. orphans' \subseteq Puts
      BY <1>11 DEF CancelWorker, TypeOK
    <2>4. QED
      BY <1>11, <2>2, <2>3, UncountType DEF CancelWorker, TypeOK
  <1>12. CASE OrphanEnds(p)
    BY <1>12 DEF OrphanEnds, TypeOK, putVars, gateVars, lockVars
  <1>13. QED
    BY <1>1, <1>2, <1>3, <1>4, <1>5, <1>6, <1>7, <1>8, <1>9, <1>10, <1>11, <1>12 DEF PutStep

\* Every step of a user of the session or of aclose keeps the types.
LEMMA CloseStepTypeOK ==
    ASSUME TypeOK, NEW c \in Closers, CloseStep(c)
    PROVE  TypeOK'
  <1>1. CASE Enter(c)
    BY <1>1 DEF Enter, TypeOK, CloserState, putVars, gateVars, poolVars
  <1>2. CASE AClose(c)
    <2>1. CASE LockFree /\ CloseBody(c)
      BY <1>2, <2>1, CloseBodyType DEF AClose, TypeOK, putVars, poolVars
    <2>2. CASE ~LockFree
      <3>1. Append(closeWaiters, c) \in Seq(Closers)
        BY DEF TypeOK
      <3>2. QED
        BY <1>2, <2>2, <3>1 DEF AClose, TypeOK, CloserState, Suspended, putVars, poolVars
    <2>3. QED
      BY <1>2, <2>1, <2>2 DEF AClose
  <1>3. CASE TakeLock(c)
    BY <1>3, CloseBodyType DEF TakeLock, TypeOK, putVars, poolVars
  <1>4. CASE DrainReturns(c)
    <2>1. CASE closable
      BY <1>4, <2>1 DEF DrainReturns, TypeOK, CloserState, Suspended, InCloseLock,
         putVars, poolVars
    <2>2. CASE ~closable
      <3>1. [closer EXCEPT ![c] = "done"] \in [Closers -> CloserState]
        BY DEF TypeOK, CloserState
      <3>2. QED
        BY <1>4, <2>2, <3>1, UnlockType DEF DrainReturns, TypeOK, putVars, poolVars
    <2>3. QED
      BY <2>1, <2>2
  <1>5. CASE CloseClient(c)
    BY <1>5 DEF CloseClient, TypeOK, CloserState, Suspended, InCloseLock, putVars, gateVars
  <1>6. CASE StrayClose(c)
    BY <1>6 DEF StrayClose, TypeOK, putVars, gateVars, lockVars
  <1>7. CASE CloseReturns(c)
    <2> DEFINE s == [closer EXCEPT ![c] = IF @ = "closeOk" THEN "done" ELSE "failed"]
    <2>1. s \in [Closers -> CloserState]
      BY DEF TypeOK, CloserState
    <2>2. Unlock(s)
      BY <1>7 DEF CloseReturns
    <2>3. /\ closer' \in [Closers -> CloserState]
          /\ closeLocked' \in BOOLEAN
          /\ closeWaiters' \in Seq(Closers)
      <3> HIDE DEF s
      <3> QED
        BY <2>1, <2>2, UnlockType
    <2>4. QED
      BY <1>7, <2>3 DEF CloseReturns, CloseSucceeded, TypeOK, putVars, poolVars
  <1>8. CASE CancelAClose(c)
    <2> DEFINE s == [closer EXCEPT ![c] = "cancelled"]
    <2>1. s \in [Closers -> CloserState]
      BY DEF TypeOK, CloserState
    <2>2. /\ closer' \in [Closers -> CloserState]
          /\ closeLocked' \in BOOLEAN
          /\ closeWaiters' \in Seq(Closers)
      <3>1. CASE closer[c] = "lockWait"
        <4>1. closer' = s /\ UNCHANGED closeLocked
          BY <1>8, <3>1 DEF CancelAClose
        <4>2. PICK i \in 1 .. Len(closeWaiters) : closeWaiters' = RemoveAt(closeWaiters, i)
          BY <1>8, <3>1 DEF CancelAClose
        <4>3. closeWaiters' \in Seq(Closers)
          BY <4>2, RemoveAtElements DEF TypeOK
        <4>4. QED
          BY <2>1, <4>1, <4>3 DEF TypeOK
      <3>2. CASE closer[c] # "lockWait"
        <4>1. Unlock(s)
          BY <1>8, <3>2 DEF CancelAClose
        <4> HIDE DEF s
        <4>2. QED
          BY <2>1, <4>1, UnlockType
      <3>3. QED
        BY <3>1, <3>2
    <2>3. strays' \subseteq Closers
      BY <1>8 DEF CancelAClose, TypeOK
    <2>4. QED
      BY <1>8, <2>2, <2>3 DEF CancelAClose, TypeOK, putVars, gateVars
  <1>9. QED
    BY <1>1, <1>2, <1>3, <1>4, <1>5, <1>6, <1>7, <1>8 DEF CloseStep

-----------------------------------------------------------------------------
(* The semaphore's queue *)

\* The workers that queue for the semaphore are in its queue, each of them once,
\* and nobody else is.
Queued == {q \in Puts : worker[q] = "queued"}
QueueInv == QueueOf(waiters, Queued)

\* What a step that hands a slot on does: the worker p, which did not queue, is
\* at e, the head of the queue is granted, and the rest of the queue waits on.
LEMMA HandOn ==
    ASSUME TypeOK, QueueInv, NEW p \in Puts, NEW e, e # "queued",
           worker[p] # "queued", waiters # <<>>,
           worker' = [[worker EXCEPT ![p] = e] EXCEPT ![Head(waiters)] = "granted"],
           waiters' = Tail(waiters)
    PROVE  /\ QueueInv'
           /\ Head(waiters) \in Puts \ {p}
           /\ worker[Head(waiters)] = "queued"
           /\ worker'[p] = e
           /\ worker'[Head(waiters)] = "granted"
           /\ \A q \in Puts \ {p, Head(waiters)} : worker'[q] = worker[q]
  <1>1. Head(waiters) \in Puts \ {p} /\ worker[Head(waiters)] = "queued"
    <2>1. waiters \in Seq(Puts) /\ QueueOf(waiters, Queued)
      BY DEF TypeOK, QueueInv
    <2>2. Head(waiters) \in Queued
      BY <2>1, QueueTail
    <2>3. QED
      BY <2>2 DEF Queued
  <1>2. /\ worker'[p] = e
        /\ worker'[Head(waiters)] = "granted"
        /\ \A q \in Puts \ {p, Head(waiters)} : worker'[q] = worker[q]
    BY <1>1 DEF TypeOK
  <1>3. QueueInv'
    <2>1. Queued' = Queued \ {Head(waiters)}
      BY <1>1, <1>2 DEF Queued
    <2>2. QED
      BY <2>1, QueueTail DEF QueueInv, TypeOK
  <1>4. QED
    BY <1>1, <1>2, <1>3

\* A step that changes only the state of a worker outside the queue, and leaves
\* the queue alone, keeps the queue's invariant.
LEMMA QueueKept ==
    ASSUME TypeOK, QueueInv, NEW p \in Puts, NEW e, worker[p] # "queued", e # "queued",
           worker' = [worker EXCEPT ![p] = e], UNCHANGED waiters
    PROVE  QueueInv'
  <1>1. Queued' = Queued
    BY DEF Queued, TypeOK
  <1>2. QED
    BY <1>1 DEF QueueInv

\* A worker outside the queue gives its slot up and ends at e: the slot is free
\* again, or the head of the queue has it.
LEMMA ReleaseEffect ==
    ASSUME TypeOK, QueueInv, NEW p \in Puts, NEW e, e # "queued",
           worker[p] # "queued", ReleaseSlot([worker EXCEPT ![p] = e])
    PROVE  /\ QueueInv'
           /\ worker'[p] = e
           /\ \/ /\ waiters = <<>> /\ waiters' = <<>>
                 /\ slots' = slots + 1
                 /\ \A q \in Puts \ {p} : worker'[q] = worker[q]
              \/ /\ waiters # <<>>
                 /\ UNCHANGED slots
                 /\ Head(waiters) \in Puts \ {p}
                 /\ worker[Head(waiters)] = "queued"
                 /\ worker'[Head(waiters)] = "granted"
                 /\ \A q \in Puts \ {p, Head(waiters)} : worker'[q] = worker[q]
  <1>1. CASE waiters = <<>>
    <2>1. worker' = [worker EXCEPT ![p] = e] /\ UNCHANGED waiters /\ slots' = slots + 1
      BY <1>1 DEF ReleaseSlot
    <2>2. QueueInv'
      BY <2>1, QueueKept
    <2>3. QED
      BY <1>1, <2>1, <2>2 DEF TypeOK
  <1>2. CASE waiters # <<>>
    <2>1. /\ worker' = [[worker EXCEPT ![p] = e] EXCEPT ![Head(waiters)] = "granted"]
          /\ waiters' = Tail(waiters)
          /\ UNCHANGED slots
      BY <1>2 DEF ReleaseSlot
    <2>2. QED
      BY <1>2, <2>1, HandOn
  <1>3. QED
    BY <1>1, <1>2

\* A worker that queues leaves the queue and ends at e; no slot changes hands.
LEMMA LeaveEffect ==
    ASSUME TypeOK, QueueInv, NEW p \in Puts, NEW e, e # "queued",
           worker[p] = "queued", LeaveQueue(p, [worker EXCEPT ![p] = e])
    PROVE  /\ QueueInv'
           /\ worker'[p] = e
           /\ waiters # <<>>
           /\ UNCHANGED slots
           /\ \A q \in Puts \ {p} : worker'[q] = worker[q]
  <1>1. worker'[p] = e /\ UNCHANGED slots /\ \A q \in Puts \ {p} : worker'[q] = worker[q]
    BY DEF LeaveQueue, TypeOK
  <1>2. PICK i \in 1 .. Len(waiters) : waiters[i] = p /\ waiters' = RemoveAt(waiters, i)
    BY DEF LeaveQueue
  <1>3. QueueInv'
    <2>1. Queued' = Queued \ {waiters[i]}
      BY <1>1, <1>2 DEF Queued
    <2>2. QED
      BY <1>2, <2>1, QueueWithout DEF QueueInv, TypeOK
  <1>4. waiters # <<>>
    BY <1>2
  <1>5. QED
    BY <1>1, <1>3, <1>4

-----------------------------------------------------------------------------
(* What a step of a put does to the admitted uploads *)

\* An upload is admitted: the gate was open.
Admits(p) ==
    /\ worker[p] = "created"
    /\ ~closing /\ ~closed
    /\ Admitted' = Admitted \cup {p}
    /\ activeUploads' = activeUploads + 1
    /\ drained' = FALSE
    /\ UNCHANGED closer

\* An admitted upload ends, and the last one wakes whoever waits for that.
Ends(p) ==
    /\ worker[p] \in Unfinished
    /\ worker'[p] \in {"stored", "failed", "cancelled"}
    /\ Admitted' = Admitted \ {p}
    /\ activeUploads' = activeUploads - 1
    /\ IF activeUploads' = 0
       THEN /\ drained' = TRUE
            /\ closer' = [c \in Closers |->
                            IF closer[c] = "drainWait" THEN "drainWoken" ELSE closer[c]]
       ELSE UNCHANGED <<drained, closer>>

\* The admitted uploads stay what they are.
StaysAdmitted ==
    /\ Admitted' = Admitted
    /\ UNCHANGED <<activeUploads, drained, closer>>

\* A put that was not called has no worker.
IdleInv == \A p \in Puts : caller[p] = "idle" => worker[p] = "none"

\* The workers other than p are changed, if at all, from admitted to admitted.
OthersAdmitted(p) ==
    \A q \in Puts \ {p} :
        worker'[q] = worker[q] \/ (worker[q] \in Unfinished /\ worker'[q] \in Unfinished)

\* Giving a slot up leaves the other workers admitted or not, as they were.
LEMMA ReleaseOthers ==
    ASSUME TypeOK, QueueInv, NEW p \in Puts, NEW e \in {"stored", "failed", "cancelled"},
           worker[p] # "queued", ReleaseSlot([worker EXCEPT ![p] = e])
    PROVE  QueueInv' /\ worker'[p] = e /\ OthersAdmitted(p)
  <1>1. /\ QueueInv' /\ worker'[p] = e
        /\ \A q \in Puts \ {p} :
              worker'[q] = worker[q] \/ (worker[q] = "queued" /\ worker'[q] = "granted")
    <2>1. e # "queued"
      OBVIOUS
    <2>2. /\ QueueInv' /\ worker'[p] = e
          /\ \/ \A q \in Puts \ {p} : worker'[q] = worker[q]
             \/ /\ Head(waiters) \in Puts \ {p}
                /\ worker[Head(waiters)] = "queued"
                /\ worker'[Head(waiters)] = "granted"
                /\ \A q \in Puts \ {p, Head(waiters)} : worker'[q] = worker[q]
      BY <2>1, ReleaseEffect
    <2>3. QED
      BY <2>2
  <1>2. QED
    BY <1>1 DEF OthersAdmitted, Unfinished

\* A worker that ends and is counted out is an upload that ends.
LEMMA UncountEnds ==
    ASSUME IdleInv, NEW p \in Puts, worker[p] \in Unfinished,
           worker'[p] \in {"stored", "failed", "cancelled"},
           OthersAdmitted(p), Uncount, UNCHANGED caller
    PROVE  /\ IdleInv' /\ Ends(p)
           /\ UNCHANGED <<closing, closed, closeLocked, closeWaiters>>
  <1>1. Admitted' = Admitted \ {p}
    BY DEF Admitted, OthersAdmitted, Unfinished
  <1>2. IdleInv'
    BY DEF IdleInv, OthersAdmitted, Unfinished
  <1>3. QED
    BY <1>1, <1>2 DEF Ends, Uncount, DrainedAt

\* A step of a put admits it, ends it, or leaves the admitted uploads alone, and
\* touches nothing of the closing side except to wake it.
LEMMA PutStepEffect ==
    ASSUME TypeOK, QueueInv, IdleInv, NEW p \in Puts, PutStep(p)
    PROVE  /\ QueueInv' /\ IdleInv'
           /\ Admits(p) \/ Ends(p) \/ StaysAdmitted
           /\ UNCHANGED <<closing, closed, closeLocked, closeWaiters, closable, strays, pool,
                         closeCalls>>
  <1>1. CASE RejectInput(p) \/ PutReturns(p) \/ CancelPut(p) \/ OrphanEnds(p)
    <2>1. /\ UNCHANGED <<worker, waiters, gateVars, lockVars, closable, strays, pool, closeCalls>>
          /\ \A q \in Puts : caller'[q] = "idle" => caller[q] = "idle"
      BY <1>1 DEF RejectInput, PutReturns, CancelPut, OrphanEnds, TypeOK, putVars, poolVars
    <2>2. QED
      BY <2>1 DEF QueueInv, Queued, IdleInv, StaysAdmitted, Admitted, gateVars, lockVars
  <1>2. CASE PutBytes(p) \/ RefuseUpload(p) \/ PutObject(p) \/ DropWorker(p)
    <2>1. PICK e \in {"created", "refused", "answeredOk", "answeredErr", "dropped"} :
             /\ worker' = [worker EXCEPT ![p] = e]
             /\ e \in Unfinished <=> worker[p] \in Unfinished
             /\ UNCHANGED <<waiters, gateVars, lockVars, poolVars>>
             /\ worker[p] # "queued"
             /\ \/ caller' = caller /\ worker[p] # "none"
                \/ caller' = [caller EXCEPT ![p] = "waiting"]
      <3>1. CASE RefuseUpload(p)
        BY <3>1 DEF RefuseUpload, Unfinished
      <3>2. CASE PutObject(p)
        BY <3>2 DEF PutObject, Unfinished
      <3>3. CASE PutBytes(p)
        BY <3>3 DEF PutBytes, Unfinished, IdleInv
      <3>4. CASE DropWorker(p)
        BY <3>4 DEF DropWorker, Unfinished
      <3>5. QED
        BY <1>2, <3>1, <3>2, <3>3, <3>4
    <2>2. QueueInv'
      BY <2>1, QueueKept
    <2>3. IdleInv'
      BY <2>1 DEF IdleInv, TypeOK
    <2>4. Admitted' = Admitted
      BY <2>1 DEF Admitted, TypeOK
    <2>5. QED
      BY <2>1, <2>2, <2>3, <2>4 DEF StaysAdmitted, gateVars, lockVars, poolVars
  <1>3. CASE AdmitUpload(p)
    <2>1. /\ worker[p] = "created" /\ ~closing /\ ~closed
          /\ activeUploads' = activeUploads + 1 /\ drained' = FALSE
          /\ UNCHANGED <<caller, closing, closed, lockVars, poolVars>>
      BY <1>3 DEF AdmitUpload, ClearDrained, StoreIsShut
    <2>2. PICK e \in {"thread", "queued"} : worker' = [worker EXCEPT ![p] = e]
      BY <1>3 DEF AdmitUpload
    <2>3. QueueInv'
      <3>1. CASE worker' = [worker EXCEPT ![p] = "thread"] /\ UNCHANGED waiters
        BY <2>1, <3>1, QueueKept
      <3>2. CASE worker' = [worker EXCEPT ![p] = "queued"] /\ waiters' = Append(waiters, p)
        <4>1. Queued' = Queued \cup {p} /\ p \notin Queued
          BY <2>1, <3>2 DEF Queued, TypeOK
        <4>2. QED
          BY <3>2, <4>1, QueueAppend DEF QueueInv, TypeOK
      <3>3. QED
        BY <1>3, <3>1, <3>2 DEF AdmitUpload
    <2>4. IdleInv'
      BY <2>1, <2>2 DEF IdleInv, TypeOK
    <2>5. Admitted' = Admitted \cup {p}
      BY <2>2 DEF Admitted, Unfinished, TypeOK
    <2>6. QED
      BY <2>1, <2>3, <2>4, <2>5 DEF Admits, lockVars, poolVars
  <1>4. CASE TakeSlot(p)
    <2>1. /\ worker[p] = "granted"
          /\ UNCHANGED <<caller, gateVars, lockVars, poolVars>>
      BY <1>4 DEF TakeSlot
    <2>2. CASE slots > 0 /\ waiters # <<>>
      <3>1. /\ worker' = [[worker EXCEPT ![p] = "thread"] EXCEPT ![Head(waiters)] = "granted"]
            /\ waiters' = Tail(waiters)
        BY <1>4, <2>2 DEF TakeSlot
      <3>2. /\ QueueInv'
            /\ worker'[p] = "thread"
            /\ Head(waiters) \in Puts /\ worker[Head(waiters)] = "queued"
            /\ worker'[Head(waiters)] = "granted"
            /\ \A q \in Puts \ {p, Head(waiters)} : worker'[q] = worker[q]
        BY <2>1, <2>2, <3>1, HandOn
      <3>3. IdleInv'
        BY <2>1, <3>2 DEF IdleInv
      <3>4. Admitted' = Admitted
        BY <2>1, <3>2 DEF Admitted, Unfinished
      <3>5. QED
        BY <2>1, <3>2, <3>3, <3>4 DEF StaysAdmitted, gateVars, lockVars, poolVars
    <2>3. CASE ~(slots > 0 /\ waiters # <<>>)
      <3>1. worker' = [worker EXCEPT ![p] = "thread"] /\ UNCHANGED waiters
        BY <1>4, <2>3 DEF TakeSlot
      <3>2. QueueInv'
        BY <2>1, <3>1, QueueKept
      <3>3. IdleInv'
        BY <2>1, <3>1 DEF IdleInv, TypeOK
      <3>4. Admitted' = Admitted
        BY <2>1, <3>1 DEF Admitted, Unfinished, TypeOK
      <3>5. QED
        BY <2>1, <3>2, <3>3, <3>4 DEF StaysAdmitted, gateVars, lockVars, poolVars
    <2>4. QED
      BY <2>2, <2>3
  <1>5. CASE FinishUpload(p)
    <2>1. worker[p] \in {"answeredOk", "answeredErr"} /\ Uncount /\ UNCHANGED <<caller, poolVars>>
      BY <1>5 DEF FinishUpload
    <2>2. PICK e \in {"stored", "failed"} : ReleaseSlot([worker EXCEPT ![p] = e])
      BY <1>5 DEF FinishUpload, TypeOK
    <2>3. worker[p] \in Unfinished /\ worker[p] # "queued"
      BY <2>1 DEF Unfinished
    <2>4. QueueInv' /\ worker'[p] = e /\ OthersAdmitted(p)
      BY <2>2, <2>3, ReleaseOthers
    <2>5. QED
      BY <2>1, <2>3, <2>4, UncountEnds DEF poolVars
  <1>6. CASE CancelWorker(p)
    <2>1. worker[p] \in Unfinished /\ Uncount /\ UNCHANGED <<caller, closable, strays, pool, closeCalls>>
      BY <1>6 DEF CancelWorker
    <2>2. QueueInv' /\ worker'[p] = "cancelled" /\ OthersAdmitted(p)
      <3>1. CASE worker[p] = "queued"
        <4>1. LeaveQueue(p, [worker EXCEPT ![p] = "cancelled"])
          BY <1>6, <3>1 DEF CancelWorker
        <4>2. QueueInv' /\ worker'[p] = "cancelled"
              /\ \A q \in Puts \ {p} : worker'[q] = worker[q]
          BY <3>1, <4>1, LeaveEffect
        <4>3. QED
          BY <4>2 DEF OthersAdmitted
      <3>2. CASE worker[p] # "queued"
        <4>1. ReleaseSlot([worker EXCEPT ![p] = "cancelled"])
          BY <1>6, <3>2 DEF CancelWorker
        <4>2. QED
          BY <3>2, <4>1, ReleaseOthers
      <3>3. QED
        BY <3>1, <3>2
    <2>3. QED
      BY <2>1, <2>2, UncountEnds
  <1>7. QED
    BY <1>1, <1>2, <1>3, <1>4, <1>5, <1>6 DEF PutStep

-----------------------------------------------------------------------------
(* The slots of the semaphore *)

\* The workers that hold a slot or have been granted one.
Taken == HoldingSlot \cup Granted

\* No slot is lost or given twice, and a slot that is free while workers queue is
\* on its way to them: somebody granted has yet to run, and wakes the next.
SlotsInv ==
    /\ slots + Cardinality(Taken) = MaxConcurrent
    /\ waiters # <<>> /\ slots > 0 => Granted # {}

\* Finitely many slots are taken, so that counting them adds up.
LEMMA TakenCount ==
    /\ IsFiniteSet(Taken)
    /\ Cardinality(Taken) \in Nat
    /\ \A p \in Puts :
          /\ p \notin Taken => Cardinality(Taken \cup {p}) = Cardinality(Taken) + 1
          /\ p \in Taken => Cardinality(Taken \ {p}) = Cardinality(Taken) - 1
          /\ \A q \in Puts : p \in Taken /\ q \notin Taken =>
                Cardinality((Taken \ {p}) \cup {q}) = Cardinality(Taken)
  <1>1. IsFiniteSet(Taken)
    BY PutsFinite, FS_Subset DEF Taken, HoldingSlot, Granted
  <1>2. /\ Cardinality(Taken) \in Nat
        /\ \A p \in Puts :
              /\ p \notin Taken => Cardinality(Taken \cup {p}) = Cardinality(Taken) + 1
              /\ p \in Taken => Cardinality(Taken \ {p}) = Cardinality(Taken) - 1
    BY <1>1, FS_CardinalityType, FS_AddElement, FS_RemoveElement
  <1>3. ASSUME NEW p \in Puts, NEW q \in Puts, p \in Taken, q \notin Taken
        PROVE  Cardinality((Taken \ {p}) \cup {q}) = Cardinality(Taken)
    <2>1. IsFiniteSet(Taken \ {p}) /\ q \notin Taken \ {p}
      BY <1>1, <1>3, FS_RemoveElement
    <2>2. Cardinality((Taken \ {p}) \cup {q}) = Cardinality(Taken \ {p}) + 1
      BY <2>1, FS_AddElement
    <2>3. QED
      BY <1>2, <1>3, <2>2
  <1>4. QED
    BY <1>1, <1>2, <1>3

\* A worker that gives its slot up frees it or hands it on, and it is counted once.
LEMMA ReleaseSlots ==
    ASSUME TypeOK, QueueInv, SlotsInv, NEW p \in Taken,
           NEW e \in {"stored", "failed", "cancelled"},
           ReleaseSlot([worker EXCEPT ![p] = e])
    PROVE  SlotsInv'
  <1>1. /\ p \in Puts /\ e \notin {"queued", "granted", "thread", "answeredOk", "answeredErr"}
        /\ worker[p] # "queued"
    BY DEF Taken, HoldingSlot, Granted
  <1>2. /\ worker'[p] = e
        /\ \/ /\ waiters' = <<>>
              /\ slots' = slots + 1
              /\ \A q \in Puts \ {p} : worker'[q] = worker[q]
           \/ /\ UNCHANGED slots
              /\ Head(waiters) \in Puts \ {p}
              /\ worker[Head(waiters)] = "queued"
              /\ worker'[Head(waiters)] = "granted"
              /\ \A q \in Puts \ {p, Head(waiters)} : worker'[q] = worker[q]
    BY <1>1, ReleaseEffect
  <1>3. CASE /\ waiters' = <<>>
             /\ slots' = slots + 1
             /\ \A q \in Puts \ {p} : worker'[q] = worker[q]
    <2>1. Taken' = Taken \ {p}
      BY <1>1, <1>2, <1>3 DEF Taken, HoldingSlot, Granted
    <2>2. Cardinality(Taken') = Cardinality(Taken) - 1 /\ Cardinality(Taken) \in Nat
      BY <1>1, <2>1, TakenCount
    <2>3. QED
      BY <1>3, <2>2 DEF SlotsInv, TypeOK
  <1>4. CASE /\ UNCHANGED slots
             /\ Head(waiters) \in Puts \ {p}
             /\ worker[Head(waiters)] = "queued"
             /\ worker'[Head(waiters)] = "granted"
             /\ \A q \in Puts \ {p, Head(waiters)} : worker'[q] = worker[q]
    <2>1. Taken' = (Taken \ {p}) \cup {Head(waiters)} /\ Head(waiters) \notin Taken
      BY <1>1, <1>2, <1>4 DEF Taken, HoldingSlot, Granted
    <2>2. Cardinality(Taken') = Cardinality(Taken)
      BY <1>1, <1>4, <2>1, TakenCount
    <2>3. Granted' # {}
      BY <1>4 DEF Granted
    <2>4. QED
      BY <1>4, <2>2, <2>3 DEF SlotsInv
  <1>5. QED
    BY <1>2, <1>3, <1>4

\* Every step of a put keeps the account of the slots.
LEMMA PutStepSlots ==
    ASSUME TypeOK, QueueInv, IdleInv, SlotsInv, NEW p \in Puts, PutStep(p)
    PROVE  SlotsInv'
  <1>1. ASSUME UNCHANGED <<slots, waiters>>, Taken' = Taken, Granted' = Granted
        PROVE  SlotsInv'
    BY <1>1 DEF SlotsInv
  <1>2. CASE RejectInput(p) \/ PutReturns(p) \/ CancelPut(p) \/ OrphanEnds(p)
    <2>1. UNCHANGED <<worker, slots, waiters>>
      BY <1>2 DEF RejectInput, PutReturns, CancelPut, OrphanEnds, putVars
    <2>2. QED
      BY <1>1, <2>1 DEF Taken, HoldingSlot, Granted
  <1>3. CASE PutBytes(p) \/ RefuseUpload(p) \/ PutObject(p) \/ DropWorker(p)
    <2>1. UNCHANGED <<slots, waiters>>
      BY <1>3 DEF PutBytes, RefuseUpload, PutObject, DropWorker
    <2>2. PICK e \in {"created", "refused", "answeredOk", "answeredErr", "dropped"} :
             /\ worker' = [worker EXCEPT ![p] = e]
             /\ \/ /\ worker[p] \in {"none", "created"}
                   /\ e \in {"created", "refused", "dropped"}
                \/ worker[p] = "thread" /\ e \in {"answeredOk", "answeredErr"}
      BY <1>3 DEF PutBytes, RefuseUpload, PutObject, DropWorker, IdleInv
    <2>3. Taken' = Taken /\ Granted' = Granted
      BY <2>2 DEF Taken, HoldingSlot, Granted, TypeOK
    <2>4. QED
      BY <1>1, <2>1, <2>3
  <1>4. CASE AdmitUpload(p)
    <2>1. worker[p] = "created" /\ p \notin Taken
      BY <1>4 DEF AdmitUpload, Taken, HoldingSlot, Granted
    <2>2. CASE SlotAvailable /\ slots' = slots - 1 /\ worker' = [worker EXCEPT ![p] = "thread"]
               /\ UNCHANGED waiters
      <3>1. Taken' = Taken \cup {p}
        BY <2>1, <2>2 DEF Taken, HoldingSlot, Granted, TypeOK
      <3>2. Cardinality(Taken') = Cardinality(Taken) + 1 /\ Cardinality(Taken) \in Nat
        BY <2>1, <3>1, TakenCount
      <3>3. QED
        BY <2>2, <3>2 DEF SlotsInv, SlotAvailable, TypeOK
    <2>3. CASE ~SlotAvailable /\ worker' = [worker EXCEPT ![p] = "queued"] /\ UNCHANGED slots
      <3>1. Taken' = Taken /\ Granted' = Granted
        BY <2>1, <2>3 DEF Taken, HoldingSlot, Granted, TypeOK
      <3>2. slots > 0 => Granted # {}
        BY <2>3 DEF SlotAvailable, SlotsInv
      <3>3. QED
        BY <2>3, <3>1, <3>2 DEF SlotsInv
    <2>4. QED
      BY <1>4, <2>2, <2>3 DEF AdmitUpload
  <1>5. CASE TakeSlot(p)
    <2>1. worker[p] = "granted" /\ p \in Taken
      BY <1>5 DEF TakeSlot, Taken, Granted
    <2>2. CASE slots > 0 /\ waiters # <<>>
      <3>1. /\ worker' = [[worker EXCEPT ![p] = "thread"] EXCEPT ![Head(waiters)] = "granted"]
            /\ waiters' = Tail(waiters)
            /\ slots' = slots - 1
        BY <1>5, <2>2 DEF TakeSlot
      <3>2. /\ worker'[p] = "thread"
            /\ Head(waiters) \in Puts \ {p} /\ worker[Head(waiters)] = "queued"
            /\ worker'[Head(waiters)] = "granted"
            /\ \A q \in Puts \ {p, Head(waiters)} : worker'[q] = worker[q]
        BY <2>1, <2>2, <3>1, HandOn
      <3>3. Taken' = Taken \cup {Head(waiters)} /\ Head(waiters) \notin Taken
        BY <2>1, <3>2 DEF Taken, HoldingSlot, Granted
      <3>4. Cardinality(Taken') = Cardinality(Taken) + 1 /\ Cardinality(Taken) \in Nat
        BY <3>2, <3>3, TakenCount
      <3>5. Granted' # {}
        BY <3>2 DEF Granted
      <3>6. slots' + Cardinality(Taken') = MaxConcurrent
        <4>1. slots \in Nat /\ slots + Cardinality(Taken) = MaxConcurrent
          BY DEF SlotsInv, TypeOK
        <4>2. QED
          BY <3>1, <3>4, <4>1
      <3>7. QED
        BY <3>5, <3>6 DEF SlotsInv
    <2>3. CASE ~(slots > 0 /\ waiters # <<>>)
      <3>1. worker' = [worker EXCEPT ![p] = "thread"] /\ UNCHANGED <<slots, waiters>>
        BY <1>5, <2>3 DEF TakeSlot
      <3>2. Taken' = Taken
        BY <2>1, <3>1 DEF Taken, HoldingSlot, Granted, TypeOK
      <3>3. QED
        BY <2>3, <3>1, <3>2 DEF SlotsInv
    <2>4. QED
      BY <2>2, <2>3
  <1>6. CASE FinishUpload(p)
    <2>1. p \in Taken
      BY <1>6 DEF FinishUpload, Taken, HoldingSlot
    <2>2. PICK e \in {"stored", "failed"} : ReleaseSlot([worker EXCEPT ![p] = e])
      BY <1>6 DEF FinishUpload, TypeOK
    <2>3. QED
      BY <2>1, <2>2, ReleaseSlots
  <1>7. CASE CancelWorker(p)
    <2>1. CASE worker[p] = "queued"
      <3>1. LeaveQueue(p, [worker EXCEPT ![p] = "cancelled"])
        BY <1>7, <2>1 DEF CancelWorker
      <3>2. /\ worker'[p] = "cancelled" /\ waiters # <<>> /\ UNCHANGED slots
            /\ \A q \in Puts \ {p} : worker'[q] = worker[q]
        BY <2>1, <3>1, LeaveEffect
      <3>3. Taken' = Taken /\ Granted' = Granted
        BY <2>1, <3>2 DEF Taken, HoldingSlot, Granted
      <3>4. QED
        BY <3>2, <3>3 DEF SlotsInv
    <2>2. CASE worker[p] # "queued"
      <3>1. p \in Taken
        BY <1>7, <2>2 DEF CancelWorker, Unfinished, Taken, HoldingSlot, Granted
      <3>2. ReleaseSlot([worker EXCEPT ![p] = "cancelled"])
        BY <1>7, <2>2 DEF CancelWorker
      <3>3. QED
        BY <3>1, <3>2, ReleaseSlots
    <2>3. QED
      BY <2>1, <2>2
  <1>8. QED
    BY <1>2, <1>3, <1>4, <1>5, <1>6, <1>7 DEF PutStep

\* The queue and the account together are the account of the slots.
LEMMA SlotsFollow == TypeOK /\ QueueInv /\ SlotsInv => SlotsAccounted
  <1> SUFFICES ASSUME TypeOK, QueueInv, SlotsInv
               PROVE  SlotsAccounted
    OBVIOUS
  <1>1. DOMAIN waiters = 1 .. Len(waiters) /\ \A i \in 1 .. Len(waiters) : waiters[i] \in Puts
    BY DEF TypeOK
  <1>2. {waiters[i] : i \in DOMAIN waiters} = {p \in Puts : worker[p] = "queued"}
    BY <1>1 DEF QueueInv, QueueOf, Queued
  <1>3. QED
    BY <1>2 DEF SlotsInv, SlotsAccounted, Taken

-----------------------------------------------------------------------------
(* The gate: the count, the drained event and who may have passed it *)

\* An aclose that was let past drained.wait() and has not returned.
PassedDrain == {"drainWoken", "closing", "closeOk", "closeErr"}

\* Whoever passed the drained event, and whatever came of it, did so with the
\* gate shut and nothing admitted; nobody waits for the event with it open.
GateInv ==
    /\ ActiveUploadsExact
    /\ (\/ \E c \in Closers : closer[c] \in PassedDrain
        \/ strays # {}
        \/ pool = "closed"
        \/ closed) => closing /\ Admitted = {}
    /\ (\E c \in Closers : closer[c] = "drainWait") => closing

\* What an aclose that closed the pool, or returned, leaves behind.
OutcomeInv ==
    /\ \A c \in Closers : closer[c] = "closeOk" => pool = "closed"
    /\ \A c \in Closers : closer[c] = "done" => closed
    /\ closed /\ closable => pool = "closed"

\* The admitted uploads are finitely many, so that counting them adds up.
LEMMA AdmittedCount ==
    /\ IsFiniteSet(Admitted)
    /\ Cardinality(Admitted) \in Nat
    /\ Cardinality(Admitted) = 0 <=> Admitted = {}
    /\ \A p \in Puts :
          /\ p \notin Admitted => Cardinality(Admitted \cup {p}) = Cardinality(Admitted) + 1
          /\ p \in Admitted => Cardinality(Admitted \ {p}) = Cardinality(Admitted) - 1
  <1>1. IsFiniteSet(Admitted)
    BY PutsFinite, FS_Subset DEF Admitted
  <1>2. QED
    BY <1>1, FS_CardinalityType, FS_EmptySet, FS_AddElement, FS_RemoveElement

\* A step of a put keeps the count exact, and so never leaves it negative.
LEMMA PutStepCount ==
    ASSUME ActiveUploadsExact, NEW p \in Puts, Admits(p) \/ Ends(p) \/ StaysAdmitted
    PROVE  activeUploads' \in Nat /\ ActiveUploadsExact'
  <1>1. CASE Admits(p)
    <2>1. p \notin Admitted
      BY <1>1 DEF Admits, Admitted, Unfinished
    <2>2. QED
      BY <1>1, <2>1, AdmittedCount DEF Admits, ActiveUploadsExact
  <1>2. CASE Ends(p)
    <2>1. p \in Admitted
      BY <1>2 DEF Ends, Admitted, Unfinished
    <2>2. Cardinality(Admitted) - 1 \in Nat
      <3>1. Cardinality(Admitted) # 0
        BY <2>1, AdmittedCount
      <3>2. QED
        BY <3>1, AdmittedCount
    <2>3. activeUploads' = Cardinality(Admitted') /\ activeUploads' \in Nat
      BY <1>2, <2>1, <2>2, AdmittedCount DEF Ends, ActiveUploadsExact
    <2>4. drained' <=> activeUploads' = 0
      <3>1. drained <=> activeUploads = 0
        BY DEF ActiveUploadsExact
      <3>2. activeUploads # 0
        BY <2>1, AdmittedCount DEF ActiveUploadsExact
      <3>3. QED
        BY <1>2, <3>1, <3>2 DEF Ends
    <2>5. QED
      BY <2>3, <2>4 DEF ActiveUploadsExact
  <1>3. CASE StaysAdmitted
    BY <1>3, AdmittedCount DEF StaysAdmitted, ActiveUploadsExact
  <1>4. QED
    BY <1>1, <1>2, <1>3

\* A put neither opens the gate nor moves an aclose past it with uploads left.
LEMMA PutStepGate ==
    ASSUME TypeOK, QueueInv, IdleInv, GateInv, OutcomeInv, NEW p \in Puts, PutStep(p)
    PROVE  GateInv' /\ OutcomeInv'
  <1>1. /\ Admits(p) \/ Ends(p) \/ StaysAdmitted
        /\ UNCHANGED <<closing, closed, closeLocked, closeWaiters, closable, strays, pool,
                         closeCalls>>
    BY PutStepEffect
  <1>2. activeUploads' \in Nat /\ ActiveUploadsExact'
    BY <1>1, PutStepCount DEF GateInv
  <1>3. CASE Admits(p)
    BY <1>1, <1>2, <1>3 DEF Admits, GateInv, OutcomeInv, PassedDrain
  <1>4. CASE StaysAdmitted
    BY <1>1, <1>2, <1>4 DEF StaysAdmitted, GateInv, OutcomeInv, PassedDrain
  <1>5. CASE Ends(p)
    <2>1. p \in Admitted
      BY <1>5 DEF Ends, Admitted, Unfinished
    <2>2. /\ \A c \in Closers : closer[c] \notin PassedDrain
          /\ strays = {} /\ pool # "closed" /\ ~closed
      BY <2>1 DEF GateInv
    <2>3. ASSUME NEW c \in Closers
          PROVE  /\ closer'[c] \in PassedDrain => closing /\ Admitted' = {}
                 /\ closer'[c] = "drainWait" => closing
                 /\ closer'[c] \notin {"closeOk", "done"}
      <3>1. closer[c] \notin {"closeOk", "done"}
        BY <2>2 DEF PassedDrain, OutcomeInv
      <3>2. CASE activeUploads' = 0
        <4>1. Admitted' = {}
          <5>1. Cardinality(Admitted') = 0
            BY <1>2, <3>2 DEF ActiveUploadsExact
          <5>2. IsFiniteSet(Admitted')
            BY <1>5, AdmittedCount, FS_Subset DEF Ends
          <5>3. QED
            BY <5>1, <5>2, FS_EmptySet
        <4>2. closer'[c] = IF closer[c] = "drainWait" THEN "drainWoken" ELSE closer[c]
          BY <1>5, <3>2 DEF Ends
        <4>3. QED
          BY <2>2, <3>1, <4>1, <4>2 DEF GateInv
      <3>3. CASE activeUploads' # 0
        BY <1>5, <2>2, <3>1, <3>3 DEF Ends, GateInv
      <3>4. QED
        BY <3>2, <3>3
    <2>4. GateInv'
      BY <1>1, <1>2, <2>2, <2>3 DEF GateInv
    <2>5. OutcomeInv'
      BY <1>1, <2>2, <2>3 DEF OutcomeInv
    <2>6. QED
      BY <2>4, <2>5
  <1>6. QED
    BY <1>1, <1>3, <1>4, <1>5

\* Handing over the close lock changes the state of the heir alone.
LEMMA UnlockEffect ==
    ASSUME TypeOK, NEW s \in [Closers -> CloserState], Unlock(s)
    PROVE  \A d \in Closers : closer'[d] = s[d] \/ closer'[d] = "lockGranted"
  <1>1. CASE closeWaiters = <<>>
    BY <1>1 DEF Unlock
  <1>2. CASE closeWaiters # <<>>
    BY <1>2 DEF Unlock
  <1>3. QED
    BY <1>1, <1>2

\* A closer passes the gate only when nothing is admitted, and an aclose returns
\* only when the store is closed.
LEMMA CloseStepGate ==
    ASSUME TypeOK, GateInv, OutcomeInv, NEW c \in Closers, CloseStep(c)
    PROVE  /\ GateInv' /\ OutcomeInv'
           /\ Admitted' = Admitted
           /\ closing => closing'
  <1> USE DEF PassedDrain
  <1>1. UNCHANGED <<putVars, activeUploads, drained>>
    BY DEF CloseStep, Enter, AClose, TakeLock, DrainReturns, CloseClient, StrayClose,
       CloseReturns, CancelAClose, gateVars
  <1>2. Admitted' = Admitted /\ ActiveUploadsExact'
    BY <1>1 DEF Admitted, putVars, GateInv, ActiveUploadsExact
  <1>3. drained => Admitted = {}
    BY AdmittedCount DEF GateInv, ActiveUploadsExact
  <1>4. CASE Enter(c)
    <2>1. /\ \A d \in Closers : closer'[d] = closer[d] \/ closer'[d] \in {"refused", "entered"}
          /\ UNCHANGED <<closing, closed, poolVars>>
      BY <1>4 DEF Enter, gateVars, TypeOK
    <2>2. QED
      BY <1>2, <2>1 DEF GateInv, OutcomeInv, poolVars
  <1>5. ASSUME CloseBody(c), UNCHANGED poolVars
        PROVE  GateInv' /\ OutcomeInv' /\ (closing => closing')
    <2> DEFINE s == [closer EXCEPT ![c] = "done"]
    <2>1. s \in [Closers -> CloserState]
      BY DEF TypeOK, CloserState
    <2>2. CASE closed /\ Unlock(s) /\ UNCHANGED <<closing, closed>>
      <3>1. \A d \in Closers : closer'[d] = s[d] \/ closer'[d] = "lockGranted"
        <4> HIDE DEF s
        <4> QED
          BY <2>1, <2>2, UnlockEffect
      <3>2. \A d \in Closers : closer'[d] = closer[d] \/ closer'[d] \in {"done", "lockGranted"}
        BY <3>1 DEF TypeOK
      <3>3. QED
        BY <1>2, <1>5, <2>2, <3>2 DEF GateInv, OutcomeInv, poolVars
    <2>3. CASE /\ ~closed
               /\ closing' = TRUE
               /\ closer' = [closer EXCEPT ![c] = "drainWait"]
               /\ UNCHANGED closed
      <3>1. \A d \in Closers : closer'[d] = closer[d] \/ closer'[d] = "drainWait"
        BY <2>3 DEF TypeOK
      <3>2. QED
        BY <1>2, <1>5, <2>3, <3>1 DEF GateInv, OutcomeInv, poolVars
    <2>4. CASE /\ drained
               /\ closing' = TRUE
               /\ closer' = [closer EXCEPT ![c] = "closing"]
               /\ UNCHANGED closed
      <3>1. \A d \in Closers : closer'[d] = closer[d] \/ closer'[d] = "closing"
        BY <2>4 DEF TypeOK
      <3>2. QED
        BY <1>2, <1>3, <1>5, <2>4, <3>1 DEF GateInv, OutcomeInv, poolVars
    <2>5. CASE /\ drained
               /\ ~closable
               /\ closing' = TRUE
               /\ closed' = TRUE
               /\ Unlock(s)
      <3>1. \A d \in Closers : closer'[d] = s[d] \/ closer'[d] = "lockGranted"
        <4> HIDE DEF s
        <4> QED
          BY <2>1, <2>5, UnlockEffect
      <3>2. \A d \in Closers : closer'[d] = closer[d] \/ closer'[d] \in {"done", "lockGranted"}
        BY <3>1 DEF TypeOK
      <3>3. QED
        BY <1>2, <1>3, <1>5, <2>5, <3>2 DEF GateInv, OutcomeInv, poolVars
    <2>6. QED
      BY <1>5, <2>2, <2>3, <2>4, <2>5 DEF CloseBody, NoNeedToWait
  <1>6. CASE AClose(c)
    <2>1. CASE CloseBody(c)
      BY <1>2, <1>5, <1>6, <2>1 DEF AClose
    <2>2. CASE /\ closer' = [closer EXCEPT ![c] = "lockWait"]
               /\ UNCHANGED <<closing, closed>>
      <3>1. \A d \in Closers : closer'[d] = closer[d] \/ closer'[d] = "lockWait"
        BY <2>2 DEF TypeOK
      <3>2. QED
        BY <1>2, <1>6, <2>2, <3>1 DEF AClose, GateInv, OutcomeInv, poolVars
    <2>3. QED
      BY <1>6, <2>1, <2>2 DEF AClose
  <1>7. CASE TakeLock(c)
    BY <1>2, <1>5, <1>7 DEF TakeLock
  <1>8. CASE DrainReturns(c)
    <2>1. closing /\ Admitted = {} /\ UNCHANGED <<closing, poolVars>>
      BY <1>8 DEF DrainReturns, GateInv
    <2>2. CASE closer' = [closer EXCEPT ![c] = "closing"] /\ UNCHANGED closed
      <3>1. \A d \in Closers : closer'[d] = closer[d] \/ closer'[d] = "closing"
        BY <2>2 DEF TypeOK
      <3>2. QED
        BY <1>2, <2>1, <2>2, <3>1 DEF GateInv, OutcomeInv, poolVars
    <2>3. CASE ~closable /\ closed' = TRUE /\ Unlock([closer EXCEPT ![c] = "done"])
      <3> DEFINE s == [closer EXCEPT ![c] = "done"]
      <3>1. s \in [Closers -> CloserState]
        BY DEF TypeOK, CloserState
      <3>2. \A d \in Closers : closer'[d] = s[d] \/ closer'[d] = "lockGranted"
        <4>1. Unlock(s)
          BY <2>3
        <4> HIDE DEF s
        <4> QED
          BY <3>1, <4>1, UnlockEffect
      <3>3. \A d \in Closers : closer'[d] = closer[d] \/ closer'[d] \in {"done", "lockGranted"}
        BY <3>2 DEF TypeOK
      <3>4. QED
        BY <1>2, <2>1, <2>3, <3>3 DEF GateInv, OutcomeInv, poolVars
    <2>4. QED
      BY <1>8, <2>2, <2>3 DEF DrainReturns
  <1>9. CASE CloseClient(c)
    <2>1. closing /\ Admitted = {}
      BY <1>9 DEF CloseClient, GateInv
    <2>2. /\ UNCHANGED <<closing, closed, closable, strays>>
          /\ pool' \in {pool, "closed"}
          /\ \A d \in Closers : \/ closer'[d] = closer[d]
                                \/ closer'[d] = "closeErr"
                                \/ closer'[d] = "closeOk" /\ pool' = "closed"
      BY <1>9 DEF CloseClient, gateVars, TypeOK
    <2>3. QED
      BY <1>2, <2>1, <2>2 DEF GateInv, OutcomeInv
  <1>10. CASE StrayClose(c)
    <2>1. closing /\ Admitted = {}
      BY <1>10 DEF StrayClose, GateInv
    <2>2. UNCHANGED <<closing, closed, closer, closable>> /\ pool' \in {pool, "closed"}
      BY <1>10 DEF StrayClose, gateVars, lockVars
    <2>3. QED
      BY <1>2, <2>1, <2>2 DEF GateInv, OutcomeInv
  <1>11. CASE CloseReturns(c)
    <2>1. closing /\ Admitted = {} /\ UNCHANGED <<closing, poolVars>>
      BY <1>11 DEF CloseReturns, GateInv
    <2> DEFINE s == [closer EXCEPT ![c] = IF @ = "closeOk" THEN "done" ELSE "failed"]
    <2>2. s \in [Closers -> CloserState]
      BY DEF TypeOK, CloserState
    <2>3. \A d \in Closers : closer'[d] = s[d] \/ closer'[d] = "lockGranted"
      <3>1. Unlock(s)
        BY <1>11 DEF CloseReturns
      <3> HIDE DEF s
      <3> QED
        BY <2>2, <3>1, UnlockEffect
    <2>4. \A d \in Closers : \/ closer'[d] = closer[d]
                             \/ closer'[d] \in {"failed", "lockGranted"}
                             \/ closer'[d] = "done" /\ closer[c] = "closeOk"
      BY <2>3 DEF TypeOK
    <2>5. closed' = (closed \/ closer[c] = "closeOk")
      BY <1>11 DEF CloseReturns, CloseSucceeded
    <2>6. GateInv'
      BY <1>2, <2>1, <2>4, <2>5 DEF GateInv, poolVars
    <2>7. OutcomeInv'
      BY <2>1, <2>4, <2>5 DEF OutcomeInv, poolVars
    <2>8. QED
      BY <1>2, <2>1, <2>6, <2>7
  <1>12. CASE CancelAClose(c)
    <2> DEFINE s == [closer EXCEPT ![c] = "cancelled"]
    <2>1. s \in [Closers -> CloserState]
      BY DEF TypeOK, CloserState
    <2>2. \A d \in Closers : closer'[d] = s[d] \/ closer'[d] = "lockGranted"
      <3>1. closer' = s \/ Unlock(s)
        BY <1>12 DEF CancelAClose
      <3> HIDE DEF s
      <3> QED
        BY <2>1, <3>1, UnlockEffect
    <2>3. \A d \in Closers : closer'[d] = closer[d] \/ closer'[d] \in {"cancelled", "lockGranted"}
      BY <2>2 DEF TypeOK
    <2>4. UNCHANGED <<closing, closed, closable, pool>>
      BY <1>12 DEF CancelAClose, gateVars
    <2>5. strays' # {} => strays # {} \/ closer[c] = "closing"
      BY <1>12 DEF CancelAClose
    <2>6. QED
      BY <1>2, <2>3, <2>4, <2>5 DEF GateInv, OutcomeInv
  <1>13. QED
    BY <1>2, <1>4, <1>6, <1>7, <1>8, <1>9, <1>10, <1>11, <1>12 DEF CloseStep

-----------------------------------------------------------------------------
(* The close lock *)

\* The acloses that hold the close lock or were handed it, and those in its queue.
Holding == {c \in Closers : closer[c] \in InCloseLock \cup {"lockGranted"}}
Awaiting == {c \in Closers : closer[c] = "lockWait"}

\* The lock has one holder or heir at most, and while anybody queues it has one.
LockInv ==
    /\ QueueOf(closeWaiters, Awaiting)
    /\ \A c, d \in Holding : c = d
    /\ closeLocked <=> \E c \in Closers : closer[c] \in InCloseLock
    /\ Awaiting # {} => Holding # {}

\* Whoever keeps or takes the lock when nobody else has a claim to it.
LEMMA HoldKeeps ==
    ASSUME TypeOK, QueueOf(closeWaiters, Awaiting), NEW c \in Closers,
           Holding \subseteq {c}, closer[c] # "lockWait", NEW e \in InCloseLock,
           closer' = [closer EXCEPT ![c] = e], closeLocked' = TRUE, UNCHANGED closeWaiters
    PROVE  LockInv'
  <1>1. closer'[c] = e /\ \A d \in Closers \ {c} : closer'[d] = closer[d]
    BY DEF TypeOK
  <1>2. Holding' = {c}
    BY <1>1 DEF Holding
  <1>3. Awaiting' = Awaiting
    BY <1>1 DEF Awaiting, InCloseLock
  <1>4. closer'[c] \in InCloseLock
    BY <1>1
  <1>5. QED
    BY <1>2, <1>3, <1>4 DEF LockInv

\* Whoever gives the lock up: it is free, or the head of the queue is its heir.
LEMMA UnlockKeeps ==
    ASSUME TypeOK, QueueOf(closeWaiters, Awaiting), NEW c \in Closers,
           Holding \subseteq {c}, closer[c] # "lockWait",
           NEW e \in {"done", "failed", "cancelled"}, Unlock([closer EXCEPT ![c] = e])
    PROVE  LockInv'
  <1>1. e \notin InCloseLock \cup {"lockGranted", "lockWait"}
    BY DEF InCloseLock
  <1>2. CASE closeWaiters = <<>>
    <2>1. closer' = [closer EXCEPT ![c] = e] /\ ~closeLocked' /\ UNCHANGED closeWaiters
      BY <1>2 DEF Unlock
    <2>2. closer'[c] = e /\ \A d \in Closers \ {c} : closer'[d] = closer[d]
      BY <2>1 DEF TypeOK
    <2>3. Holding' = {} /\ \A d \in Closers : closer'[d] \notin InCloseLock
      BY <1>1, <2>2 DEF Holding
    <2>4. Awaiting' = Awaiting
      BY <1>1, <2>2 DEF Awaiting
    <2>5. Awaiting = {}
      BY <1>2 DEF QueueOf
    <2>6. QED
      BY <2>1, <2>3, <2>4, <2>5 DEF LockInv
  <1>3. CASE closeWaiters # <<>>
    <2> DEFINE h == Head(closeWaiters)
    <2>1. /\ closer' = [[closer EXCEPT ![c] = e] EXCEPT ![h] = "lockGranted"]
          /\ ~closeLocked'
          /\ closeWaiters' = Tail(closeWaiters)
      BY <1>3 DEF Unlock
    <2>2. h \in Awaiting /\ QueueOf(Tail(closeWaiters), Awaiting \ {h})
      BY <1>3, QueueTail DEF TypeOK
    <2> HIDE DEF h
    <2>3. h \in Closers /\ h # c /\ closer[h] = "lockWait"
      BY <2>2 DEF Awaiting
    <2>4. /\ closer'[c] = e
          /\ closer'[h] = "lockGranted"
          /\ \A d \in Closers \ {c, h} : closer'[d] = closer[d]
      BY <2>1, <2>3 DEF TypeOK
    <2>5. Holding' = {h}
      BY <1>1, <2>3, <2>4 DEF Holding
    <2>6. \A d \in Closers : closer'[d] \notin InCloseLock
      <3>1. \A d \in Closers \ {c} : closer[d] \notin InCloseLock
        BY DEF Holding
      <3>2. "lockGranted" \notin InCloseLock
        BY DEF InCloseLock
      <3>3. QED
        BY <1>1, <2>3, <2>4, <3>1, <3>2
    <2>7. Awaiting' = Awaiting \ {h}
      BY <1>1, <2>3, <2>4 DEF Awaiting
    <2>8. QED
      BY <2>1, <2>2, <2>5, <2>6, <2>7 DEF LockInv
  <1>4. QED
    BY <1>2, <1>3

\* The body of aclose, run by whom the lock belongs to.
LEMMA CloseBodyLock ==
    ASSUME TypeOK, QueueOf(closeWaiters, Awaiting), NEW c \in Closers,
           Holding \subseteq {c}, closer[c] # "lockWait", CloseBody(c)
    PROVE  LockInv'
  <1>1. CASE Unlock([closer EXCEPT ![c] = "done"])
    BY <1>1, UnlockKeeps
  <1>2. CASE /\ closer' = [closer EXCEPT ![c] = "drainWait"]
             /\ closeLocked' = TRUE /\ UNCHANGED closeWaiters
    <2>1. "drainWait" \in InCloseLock
      BY DEF InCloseLock
    <2>2. QED
      BY <1>2, <2>1, HoldKeeps
  <1>3. CASE /\ closer' = [closer EXCEPT ![c] = "closing"]
             /\ closeLocked' = TRUE /\ UNCHANGED closeWaiters
    <2>1. "closing" \in InCloseLock
      BY DEF InCloseLock
    <2>2. QED
      BY <1>3, <2>1, HoldKeeps
  <1>4. QED
    BY <1>1, <1>2, <1>3 DEF CloseBody

\* Every step of a user of the session or of aclose hands the lock over properly.
LEMMA CloseStepLock ==
    ASSUME TypeOK, LockInv, NEW c \in Closers, CloseStep(c)
    PROVE  LockInv'
  <1>1. QueueOf(closeWaiters, Awaiting)
    BY DEF LockInv
  <1>2. ASSUME closer[c] \in InCloseLock \cup {"lockGranted"}
        PROVE  Holding \subseteq {c} /\ closer[c] # "lockWait"
    BY <1>2 DEF LockInv, Holding, InCloseLock
  <1>3. ASSUME closer[c] \in InCloseLock
        PROVE  closeLocked = TRUE
    BY <1>3 DEF LockInv, TypeOK
  <1>4. ASSUME Holding' = Holding, Awaiting' = Awaiting, UNCHANGED <<closeLocked, closeWaiters>>,
               \A d \in Closers : closer'[d] \in InCloseLock <=> closer[d] \in InCloseLock
        PROVE  LockInv'
    BY <1>4 DEF LockInv
  <1>5. CASE Enter(c)
    <2>1. /\ closer[c] = "idle" /\ closer'[c] \in {"refused", "entered"}
          /\ \A d \in Closers \ {c} : closer'[d] = closer[d]
          /\ UNCHANGED <<closeLocked, closeWaiters>>
      BY <1>5 DEF Enter, TypeOK
    <2>2. QED
      BY <1>4, <2>1 DEF Holding, Awaiting, InCloseLock
  <1>6. CASE AClose(c)
    <2>1. closer[c] \notin InCloseLock \cup {"lockGranted", "lockWait"}
      BY <1>6 DEF AClose, InCloseLock
    <2>2. CASE LockFree /\ CloseBody(c)
      <3>1. Holding = {}
        BY <2>2 DEF LockFree, LockInv, Holding
      <3>2. QED
        BY <1>1, <2>1, <2>2, <3>1, CloseBodyLock
    <2>3. CASE /\ ~LockFree
               /\ closer' = [closer EXCEPT ![c] = "lockWait"]
               /\ closeWaiters' = Append(closeWaiters, c)
               /\ UNCHANGED closeLocked
      <3>1. closer'[c] = "lockWait" /\ \A d \in Closers \ {c} : closer'[d] = closer[d]
        BY <2>3 DEF TypeOK
      <3>2. "lockWait" \notin InCloseLock \cup {"lockGranted"}
        BY DEF InCloseLock
      <3>3. /\ Holding' = Holding
            /\ \A d \in Closers : closer'[d] \in InCloseLock <=> closer[d] \in InCloseLock
        BY <2>1, <3>1, <3>2 DEF Holding
      <3>4. Awaiting' = Awaiting \cup {c} /\ c \notin Awaiting
        BY <2>1, <3>1 DEF Awaiting
      <3>5. QueueOf(closeWaiters', Awaiting')
        BY <1>1, <2>3, <3>4, QueueAppend DEF TypeOK
      <3>6. Holding # {}
        <4>1. CASE closeLocked
          BY <4>1 DEF LockInv, Holding
        <4>2. CASE closeWaiters # <<>>
          <5>1. Head(closeWaiters) \in Awaiting
            BY <1>1, <4>2, QueueTail DEF TypeOK
          <5>2. QED
            BY <5>1 DEF LockInv
        <4>3. CASE \E d \in Closers : closer[d] = "lockGranted"
          BY <4>3 DEF Holding
        <4>4. QED
          BY <2>3, <4>1, <4>2, <4>3 DEF LockFree
      <3>7. QED
        BY <2>3, <3>3, <3>5, <3>6 DEF LockInv
    <2>4. QED
      BY <1>6, <2>2, <2>3 DEF AClose
  <1>7. CASE TakeLock(c)
    <2>1. closer[c] = "lockGranted" /\ CloseBody(c)
      BY <1>7 DEF TakeLock
    <2>2. QED
      BY <1>1, <1>2, <2>1, CloseBodyLock
  <1>8. CASE DrainReturns(c)
    <2>1. closer[c] \in InCloseLock
      BY <1>8 DEF DrainReturns, InCloseLock
    <2>2. CASE closer' = [closer EXCEPT ![c] = "closing"] /\ UNCHANGED <<closeLocked, closeWaiters>>
      <3>1. "closing" \in InCloseLock
        BY DEF InCloseLock
      <3>2. QED
        BY <1>1, <1>2, <1>3, <2>1, <2>2, <3>1, HoldKeeps
    <2>3. CASE Unlock([closer EXCEPT ![c] = "done"])
      BY <1>1, <1>2, <2>1, <2>3, UnlockKeeps
    <2>4. QED
      BY <1>8, <2>2, <2>3 DEF DrainReturns
  <1>9. CASE CloseClient(c)
    <2>1. closer[c] \in InCloseLock /\ UNCHANGED <<closeLocked, closeWaiters>>
      BY <1>9 DEF CloseClient, InCloseLock
    <2>2. PICK e \in {"closeOk", "closeErr"} : closer' = [closer EXCEPT ![c] = e]
      BY <1>9 DEF CloseClient
    <2>3. e \in InCloseLock
      BY DEF InCloseLock
    <2>4. QED
      BY <1>1, <1>2, <1>3, <2>1, <2>2, <2>3, HoldKeeps
  <1>10. CASE StrayClose(c)
    BY <1>4, <1>10 DEF StrayClose, lockVars, Holding, Awaiting
  <1>11. CASE CloseReturns(c)
    <2>1. closer[c] \in InCloseLock
      BY <1>11 DEF CloseReturns, InCloseLock
    <2>2. PICK e \in {"done", "failed"} : Unlock([closer EXCEPT ![c] = e])
      BY <1>11 DEF CloseReturns, TypeOK
    <2>3. QED
      BY <1>1, <1>2, <2>1, <2>2, UnlockKeeps
  <1>12. CASE CancelAClose(c)
    <2>1. CASE closer[c] = "lockWait"
      <3>1. closer' = [closer EXCEPT ![c] = "cancelled"] /\ UNCHANGED closeLocked
        BY <1>12, <2>1 DEF CancelAClose
      <3>2. PICK i \in 1 .. Len(closeWaiters) :
               closeWaiters[i] = c /\ closeWaiters' = RemoveAt(closeWaiters, i)
        BY <1>12, <2>1 DEF CancelAClose
      <3>3. closer'[c] = "cancelled" /\ \A d \in Closers \ {c} : closer'[d] = closer[d]
        BY <3>1 DEF TypeOK
      <3>4. Awaiting' = Awaiting \ {c}
        BY <3>3 DEF Awaiting
      <3>5. /\ Holding' = Holding
            /\ \A d \in Closers : closer'[d] \in InCloseLock <=> closer[d] \in InCloseLock
        BY <2>1, <3>3 DEF Holding, InCloseLock
      <3>6. QueueOf(closeWaiters', Awaiting')
        BY <1>1, <3>2, <3>4, QueueWithout DEF TypeOK
      <3>7. QED
        BY <3>1, <3>4, <3>5, <3>6 DEF LockInv
    <2>2. CASE closer[c] # "lockWait"
      <3>1. closer[c] \in InCloseLock \cup {"lockGranted"}
        BY <1>12, <2>2 DEF CancelAClose, Suspended
      <3>2. Unlock([closer EXCEPT ![c] = "cancelled"])
        BY <1>12, <2>2 DEF CancelAClose
      <3>3. QED
        BY <1>1, <1>2, <3>1, <3>2, UnlockKeeps
    <2>3. QED
      BY <2>1, <2>2
  <1>13. QED
    BY <1>5, <1>6, <1>7, <1>8, <1>9, <1>10, <1>11, <1>12 DEF CloseStep

\* A step of a put, which at most wakes the holder, leaves the lock alone.
LEMMA PutStepLock ==
    ASSUME LockInv, NEW p \in Puts, Admits(p) \/ Ends(p) \/ StaysAdmitted,
           UNCHANGED <<closeLocked, closeWaiters>>
    PROVE  LockInv'
  <1>1. \A c \in Closers : \/ closer'[c] = closer[c]
                           \/ closer[c] = "drainWait" /\ closer'[c] = "drainWoken"
    BY DEF Admits, Ends, StaysAdmitted
  <1>2. /\ Holding' = Holding /\ Awaiting' = Awaiting
        /\ \A c \in Closers : closer'[c] \in InCloseLock <=> closer[c] \in InCloseLock
    BY <1>1 DEF Holding, Awaiting, InCloseLock
  <1>3. QED
    BY <1>2 DEF LockInv

-----------------------------------------------------------------------------
(* The inductive invariant and what follows from it *)

\* The uploads of the store, its slots, its gate and its lock, strengthened until every step keeps it.
IInv ==
    /\ TypeOK
    /\ QueueInv /\ IdleInv /\ SlotsInv
    /\ GateInv /\ OutcomeInv /\ LockInv

LEMMA InitIInv == Init => IInv
  <1> SUFFICES ASSUME Init
               PROVE  IInv
    OBVIOUS
  <1>1. TypeOK
    BY InitTypeOK
  <1>2. QueueInv /\ IdleInv
    BY DEF Init, QueueInv, QueueOf, Queued, IdleInv
  <1>3. Admitted = {}
    BY DEF Init, Admitted, Unfinished
  <1>4. GateInv /\ OutcomeInv
    BY <1>3, AdmittedCount DEF Init, GateInv, OutcomeInv, PassedDrain, ActiveUploadsExact
  <1>5. SlotsInv
    <2>1. Taken = {}
      BY DEF Init, Taken, HoldingSlot, Granted
    <2>2. QED
      BY <2>1, FS_EmptySet, MaxConcurrentPositive DEF Init, SlotsInv
  <1>6. LockInv
    BY DEF Init, LockInv, QueueOf, Awaiting, Holding, InCloseLock
  <1>7. QED
    BY <1>1, <1>2, <1>4, <1>5, <1>6 DEF IInv

\* Every step of the store keeps the invariant, and none admits an upload or
\* opens the gate again while the store is closing.
LEMMA StepIInv ==
    ASSUME IInv, [Next]_vars
    PROVE  /\ IInv'
           /\ closing => closing' /\ Admitted' \subseteq Admitted
  <1>1. ASSUME NEW p \in Puts, PutStep(p)
        PROVE  IInv' /\ (closing => closing' /\ Admitted' \subseteq Admitted)
    <2>1. /\ QueueInv' /\ IdleInv' /\ UNCHANGED <<closing, closeLocked, closeWaiters>>
          /\ Admits(p) \/ Ends(p) \/ StaysAdmitted
      BY <1>1, PutStepEffect DEF IInv
    <2>2. activeUploads' \in Nat
      BY <2>1, PutStepCount DEF IInv, GateInv
    <2>3. TypeOK' /\ SlotsInv' /\ GateInv' /\ OutcomeInv' /\ LockInv'
      BY <1>1, <2>1, <2>2, PutStepTypeOK, PutStepSlots, PutStepGate, PutStepLock DEF IInv
    <2>4. closing => Admitted' \subseteq Admitted
      BY <2>1 DEF Admits, Ends, StaysAdmitted
    <2>5. QED
      BY <2>1, <2>3, <2>4 DEF IInv
  <1>2. ASSUME NEW c \in Closers, CloseStep(c)
        PROVE  IInv' /\ (closing => closing' /\ Admitted' \subseteq Admitted)
    <2>1. /\ TypeOK' /\ GateInv' /\ OutcomeInv' /\ LockInv'
          /\ Admitted' = Admitted /\ (closing => closing')
      BY <1>2, CloseStepTypeOK, CloseStepGate, CloseStepLock DEF IInv
    <2>2. UNCHANGED putVars
      BY <1>2 DEF CloseStep, Enter, AClose, TakeLock, DrainReturns, CloseClient, StrayClose,
         CloseReturns, CancelAClose
    <2>3. QueueInv' /\ IdleInv' /\ SlotsInv'
      BY <2>2 DEF IInv, QueueInv, Queued, IdleInv, SlotsInv, Taken, HoldingSlot, Granted, putVars
    <2>4. QED
      BY <2>1, <2>3 DEF IInv
  <1>3. CASE UNCHANGED vars
    <2>1. UNCHANGED <<putVars, gateVars, lockVars, poolVars>>
      BY <1>3 DEF vars
    <2>2. TypeOK' /\ QueueInv' /\ IdleInv'
      BY <2>1 DEF IInv, TypeOK, QueueInv, Queued, IdleInv, putVars, gateVars, lockVars, poolVars
    <2>3. Admitted' = Admitted /\ UNCHANGED closing
      BY <2>1 DEF Admitted, putVars, gateVars
    <2>4. GateInv' /\ OutcomeInv'
      BY <2>1, <2>3 DEF IInv, GateInv, OutcomeInv, ActiveUploadsExact, PassedDrain,
         gateVars, lockVars, poolVars
    <2>5. SlotsInv' /\ LockInv'
      BY <2>1 DEF IInv, SlotsInv, Taken, HoldingSlot, Granted, LockInv, Awaiting, Holding,
         putVars, lockVars
    <2>6. QED
      BY <2>2, <2>3, <2>4, <2>5 DEF IInv
  <1>4. QED
    BY <1>1, <1>2, <1>3 DEF Next

\* What was strengthened until every step preserves it holds of every behaviour.
THEOREM Invariance == Spec => []IInv
  <1>1. IInv /\ [Next]_vars => IInv'
    BY StepIInv
  <1>2. QED
    BY InitIInv, <1>1, PTL DEF Spec

\* The types are right in every reachable state.
THEOREM TypeCorrect == Spec => []TypeOK
  BY Invariance, PTL DEF IInv

\* close() of the S3 client never runs while an admitted upload is unfinished,
\* whoever is cancelled and whatever fails.
THEOREM UploadsDrained == Spec => []UploadsDrainedBeforeClose
  <1>1. IInv => UploadsDrainedBeforeClose
    BY DEF IInv, GateInv, PassedDrain, UploadsDrainedBeforeClose
  <1>2. QED
    BY <1>1, Invariance, PTL

\* _active_uploads and the drained event never drift from the uploads themselves.
THEOREM ActiveExact == Spec => []ActiveUploadsExact
  BY Invariance, PTL DEF IInv, GateInv

\* No slot of the semaphore is lost or given twice, and no worker queues for a
\* slot that nobody is about to pass on, whoever is cancelled.
THEOREM SlotsExact == Spec => []SlotsAccounted
  <1>1. IInv => SlotsAccounted
    BY SlotsFollow DEF IInv
  <1>2. QED
    BY <1>1, Invariance, PTL

\* The close lock has one holder or heir, and no aclose waits for a lock that
\* nobody will give up, whoever is cancelled.
THEOREM LockHandedOver == Spec => []CloseLockHandedOver
  <1>1. IInv => CloseLockHandedOver
    BY DEF IInv, LockInv, Holding, Awaiting, CloseLockHandedOver
  <1>2. QED
    BY <1>1, Invariance, PTL

\* An aclose that returned left a closed store.
THEOREM ReturnedClosed == Spec => []AcloseReturnsClosed
  <1>1. IInv => AcloseReturnsClosed
    BY DEF IInv, GateInv, OutcomeInv, AcloseReturnsClosed
  <1>2. QED
    BY <1>1, Invariance, PTL

\* Once aclose has begun, no upload is ever admitted.
THEOREM AdmissionStopped == Spec => AdmissionStops
  <1>1. IInv /\ [Next]_vars => [closing => closing' /\ Admitted' \subseteq Admitted]_vars
    BY StepIInv
  <1>2. QED
    BY <1>1, Invariance, PTL DEF Spec, AdmissionStops

-----------------------------------------------------------------------------
(* Refinement: the store implements the safety part of UploadLifecycle *)

\* A step of the put p leaves every other worker that is not admitted as it is,
\* and moves p itself, when it is not admitted, only to its start, out before it
\* ran, to a refusal by a store that is shut, or in; what is finished stays so.
LEMMA PutStepOutside ==
    ASSUME TypeOK, QueueInv, IdleInv, NEW p \in Puts, PutStep(p)
    PROVE  /\ \A q \in Puts \ {p} : worker[q] \notin Unfinished => worker'[q] = worker[q]
           /\ \/ worker'[p] = worker[p]
              \/ worker[p] = "none" /\ worker'[p] = "created"
              \/ worker[p] = "created" /\ worker'[p] = "dropped"
              \/ worker[p] = "created" /\ worker'[p] = "refused" /\ (closing \/ closed)
              \/ worker[p] = "created" /\ worker'[p] \in Unfinished
              \/ worker[p] \in Unfinished
  <1>1. CASE RejectInput(p) \/ PutReturns(p) \/ CancelPut(p) \/ OrphanEnds(p)
    BY <1>1 DEF RejectInput, PutReturns, CancelPut, OrphanEnds, putVars
  <1>2. CASE PutBytes(p)
    BY <1>2 DEF PutBytes, IdleInv, TypeOK
  <1>3. CASE RefuseUpload(p)
    BY <1>3 DEF RefuseUpload, StoreIsShut, TypeOK
  <1>4. CASE AdmitUpload(p)
    BY <1>4 DEF AdmitUpload, Unfinished, TypeOK
  <1>5. CASE PutObject(p)
    BY <1>5 DEF PutObject, Unfinished, TypeOK
  <1>6. CASE TakeSlot(p)
    <2>1. worker[p] = "granted"
      BY <1>6 DEF TakeSlot
    <2>2. CASE worker' = [worker EXCEPT ![p] = "thread"]
      BY <2>1, <2>2 DEF Unfinished, TypeOK
    <2>3. CASE /\ waiters # <<>>
               /\ worker' = [[worker EXCEPT ![p] = "thread"] EXCEPT ![Head(waiters)] = "granted"]
               /\ waiters' = Tail(waiters)
      BY <2>1, <2>3, HandOn DEF Unfinished
    <2>4. QED
      BY <1>6, <2>2, <2>3 DEF TakeSlot
  <1>7. CASE FinishUpload(p)
    <2>1. worker[p] \in Unfinished /\ worker[p] # "queued"
      BY <1>7 DEF FinishUpload, Unfinished
    <2>2. PICK e \in {"stored", "failed"} : ReleaseSlot([worker EXCEPT ![p] = e])
      BY <1>7 DEF FinishUpload, TypeOK
    <2>3. OthersAdmitted(p)
      BY <2>1, <2>2, ReleaseOthers
    <2>4. QED
      BY <2>1, <2>3 DEF OthersAdmitted
  <1>8. CASE DropWorker(p)
    BY <1>8 DEF DropWorker, TypeOK
  <1>9. CASE CancelWorker(p)
    <2>1. worker[p] \in Unfinished
      BY <1>9 DEF CancelWorker
    <2>2. OthersAdmitted(p)
      <3>1. CASE worker[p] = "queued"
        BY <1>9, <3>1 DEF CancelWorker, LeaveQueue, OthersAdmitted, TypeOK
      <3>2. CASE worker[p] # "queued"
        BY <1>9, <3>2, ReleaseOthers DEF CancelWorker
      <3>3. QED
        BY <3>1, <3>2
    <2>3. QED
      BY <2>1, <2>2 DEF OthersAdmitted
  <1>10. QED
    BY <1>1, <1>2, <1>3, <1>4, <1>5, <1>6, <1>7, <1>8, <1>9 DEF PutStep

\* The abstract status of one upload.
LEMMA StatusOf ==
    ASSUME TypeOK, NEW q \in Puts
    PROVE  /\ lifecycleStatus[q] = "inflight" <=> worker[q] \in Unfinished
           /\ lifecycleStatus[q] = "new" <=> worker[q] \in {"none", "created", "dropped"}
           /\ lifecycleStatus[q] = "refused" <=> worker[q] = "refused"
           /\ lifecycleStatus[q] = "ended" <=> worker[q] \in {"stored", "failed", "cancelled"}
           /\ lifecycleStatus[q] \in {"new", "refused", "inflight", "ended"}
  BY DEF lifecycleStatus, TypeOK, WorkerState, Unfinished, Finished

\* Nothing changes in the abstract status of an upload that stays in its class.
LEMMA SameStatus ==
    ASSUME TypeOK, TypeOK', NEW q \in Puts,
           \/ worker'[q] = worker[q]
           \/ worker[q] \in Unfinished /\ worker'[q] \in Unfinished
           \/ worker[q] \in {"none", "created"} /\ worker'[q] \in {"created", "dropped"}
    PROVE  lifecycleStatus'[q] = lifecycleStatus[q]
  BY DEF lifecycleStatus, TypeOK, WorkerState, Unfinished, Finished

\* Every step of a put is a step of the lifecycle of that upload, or none.
LEMMA PutStepRefines ==
    ASSUME IInv, IInv', NEW p \in Puts, PutStep(p)
    PROVE  Lifecycle!Next \/ UNCHANGED Lifecycle!vars
  <1>1. /\ Admits(p) \/ Ends(p) \/ StaysAdmitted
        /\ UNCHANGED <<closing, closed, pool>>
    BY PutStepEffect DEF IInv
  <1>2. UNCHANGED lifecyclePhase
    BY <1>1 DEF lifecyclePhase
  <1>3. /\ \A q \in Puts \ {p} : worker[q] \notin Unfinished => worker'[q] = worker[q]
        /\ \/ worker'[p] = worker[p]
           \/ worker[p] = "none" /\ worker'[p] = "created"
           \/ worker[p] = "created" /\ worker'[p] = "dropped"
           \/ worker[p] = "created" /\ worker'[p] = "refused" /\ (closing \/ closed)
           \/ worker[p] = "created" /\ worker'[p] \in Unfinished
           \/ worker[p] \in Unfinished
    BY PutStepOutside DEF IInv
  <1>4. ASSUME NEW q \in Puts \ {p}
        PROVE  lifecycleStatus'[q] = lifecycleStatus[q]
    <2>1. worker[q] \in Unfinished => worker'[q] \in Unfinished
      BY <1>1 DEF Admits, Ends, StaysAdmitted, Admitted
    <2>2. QED
      BY <1>3, <2>1, SameStatus DEF IInv
  <1>5. /\ lifecycleStatus = [q \in Puts |-> lifecycleStatus[q]]
        /\ lifecycleStatus' = [q \in Puts |-> lifecycleStatus'[q]]
    BY DEF lifecycleStatus
  <1>6. lifecycleStatus' = [lifecycleStatus EXCEPT ![p] = lifecycleStatus'[p]]
    <2> HIDE DEF lifecycleStatus
    <2> QED
      BY <1>4, <1>5
  <1>7. CASE lifecycleStatus'[p] = lifecycleStatus[p]
    <2>1. lifecycleStatus' = lifecycleStatus
      <3> HIDE DEF lifecycleStatus
      <3> QED
        BY <1>4, <1>5, <1>7
    <2>2. QED
      BY <1>2, <2>1 DEF Lifecycle!vars
  <1>8. CASE Admits(p)
    <2>1. worker[p] = "created" /\ worker'[p] \in Unfinished
      BY <1>8 DEF Admits, Admitted
    <2>2. lifecycleStatus[p] = "new" /\ lifecycleStatus'[p] = "inflight"
      BY <2>1 DEF lifecycleStatus, Unfinished
    <2>3. lifecyclePhase = "open"
      BY <1>8 DEF Admits, IInv, GateInv, lifecyclePhase
    <2>4. Lifecycle!Admit(p)
      BY <1>2, <1>6, <2>2, <2>3 DEF Lifecycle!Admit
    <2>5. QED
      BY <2>4 DEF Lifecycle!Next
  <1>9. CASE Ends(p)
    <2>1. worker[p] \in Unfinished /\ worker'[p] \in {"stored", "failed", "cancelled"}
      BY <1>9 DEF Ends
    <2>2. lifecycleStatus[p] = "inflight" /\ lifecycleStatus'[p] = "ended"
      BY <2>1 DEF lifecycleStatus, Unfinished
    <2>3. Lifecycle!End(p)
      BY <1>2, <1>6, <2>2 DEF Lifecycle!End
    <2>4. QED
      BY <2>3 DEF Lifecycle!Next
  <1>10. CASE worker[p] = "created" /\ worker'[p] = "refused"
    <2>1. lifecycleStatus[p] = "new" /\ lifecycleStatus'[p] = "refused"
      BY <1>10 DEF lifecycleStatus
    <2>2. closing
      BY <1>3, <1>10 DEF Unfinished, IInv, GateInv
    <2>3. lifecyclePhase # "open"
      BY <2>2 DEF lifecyclePhase
    <2>4. Lifecycle!Refuse(p)
      BY <1>2, <1>6, <2>1, <2>3 DEF Lifecycle!Refuse
    <2>5. QED
      BY <2>4 DEF Lifecycle!Next
  <1>11. CASE StaysAdmitted
    <2>1. worker[p] \in Unfinished <=> worker'[p] \in Unfinished
      BY <1>11 DEF StaysAdmitted, Admitted
    <2>2. CASE worker[p] = "created" /\ worker'[p] = "refused"
      BY <1>10, <2>2
    <2>3. CASE ~(worker[p] = "created" /\ worker'[p] = "refused")
      <3>1. \/ worker'[p] = worker[p]
            \/ worker[p] \in Unfinished /\ worker'[p] \in Unfinished
            \/ worker[p] \in {"none", "created"} /\ worker'[p] \in {"created", "dropped"}
        BY <1>3, <2>1, <2>3 DEF Unfinished
      <3>2. lifecycleStatus'[p] = lifecycleStatus[p]
        BY <3>1, SameStatus DEF IInv
      <3>3. QED
        BY <1>7, <3>2
    <2>4. QED
      BY <2>2, <2>3
  <1>12. QED
    BY <1>1, <1>8, <1>9, <1>11

\* Every step of a closer begins the closing, closes the pool of a drained
\* store, or is none of the lifecycle's business.
LEMMA CloseStepRefines ==
    ASSUME IInv, IInv', NEW c \in Closers, CloseStep(c)
    PROVE  Lifecycle!Next \/ UNCHANGED Lifecycle!vars
  <1>1. Admitted' = Admitted /\ (closing => closing')
    BY CloseStepGate DEF IInv
  <1>2. UNCHANGED worker
    BY DEF CloseStep, Enter, AClose, TakeLock, DrainReturns, CloseClient, StrayClose,
       CloseReturns, CancelAClose, putVars
  <1>3. UNCHANGED lifecycleStatus
    BY <1>2 DEF lifecycleStatus
  <1>4. CASE UNCHANGED pool
    <2>1. CASE ~closing /\ closing'
      <3>1. pool # "closed"
        BY <2>1 DEF IInv, GateInv
      <3>2. lifecyclePhase = "open" /\ lifecyclePhase' = "draining"
        BY <1>4, <2>1, <3>1 DEF lifecyclePhase
      <3>3. Lifecycle!BeginClose
        BY <1>3, <3>2 DEF Lifecycle!BeginClose
      <3>4. QED
        BY <3>3 DEF Lifecycle!Next
    <2>2. CASE closing' = closing
      BY <1>3, <1>4, <2>2 DEF lifecyclePhase, Lifecycle!vars
    <2>3. QED
      BY <1>1, <2>1, <2>2 DEF IInv, TypeOK
  <1>5. CASE CloseClient(c) \/ StrayClose(c)
    <2>1. closing /\ Admitted = {}
      BY <1>5 DEF CloseClient, StrayClose, IInv, GateInv, PassedDrain
    <2>2. UNCHANGED closing /\ pool' \in {pool, "closed"}
      BY <1>5 DEF CloseClient, StrayClose, gateVars
    <2>3. CASE pool # "closed" /\ pool' = "closed"
      <3>1. lifecyclePhase = "draining" /\ lifecyclePhase' = "closed"
        BY <2>1, <2>2, <2>3 DEF lifecyclePhase
      <3>2. \A q \in Puts : lifecycleStatus[q] # "inflight"
        BY <2>1, StatusOf DEF IInv, Admitted
      <3>3. Lifecycle!ClosePool
        BY <1>3, <3>1, <3>2 DEF Lifecycle!ClosePool
      <3>4. QED
        BY <3>3 DEF Lifecycle!Next
    <2>4. QED
      BY <1>4, <2>2, <2>3
  <1>6. UNCHANGED pool \/ CloseClient(c) \/ StrayClose(c)
    BY DEF CloseStep, Enter, AClose, TakeLock, DrainReturns, CloseReturns, CancelAClose, poolVars
  <1>7. QED
    BY <1>4, <1>5, <1>6

\* The store implements the abstract lifecycle, liveness apart: it refuses,
\* admits, ends, drains and closes as UploadLifecycle allows and in no other way.
THEOREM Refinement == Spec => Lifecycle!SafetySpec
  <1>1. Init => Lifecycle!Init
    BY DEF Init, Lifecycle!Init, lifecyclePhase, lifecycleStatus
  <1>2. IInv /\ IInv' /\ [Next]_vars => [Lifecycle!Next]_(Lifecycle!vars)
    <2>1. ASSUME IInv, IInv', UNCHANGED vars
          PROVE  UNCHANGED Lifecycle!vars
      BY <2>1 DEF vars, putVars, gateVars, poolVars, Lifecycle!vars, lifecyclePhase,
         lifecycleStatus
    <2>2. QED
      BY <2>1, PutStepRefines, CloseStepRefines DEF Next
  <1>3. QED
    BY <1>1, <1>2, Invariance, PTL DEF Spec, Lifecycle!SafetySpec
=============================================================================
