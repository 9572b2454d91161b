----------------------------- MODULE RustfsStore -----------------------------
(***************************************************************************)
(* RustfsObjectStore (src/kric/storage.py): put_bytes, aclose and the      *)
(* async-with session, run by any number of asyncio tasks on one event     *)
(* loop, over a blocking S3 client that is called from threads.            *)
(*                                                                         *)
(* A task runs alone from one suspension point to the next, so one action  *)
(* is one such stretch. _state_lock is never held over a suspension and is *)
(* therefore never contended: what it guards is part of the action that    *)
(* runs it. A thread (to_thread) runs between any two actions.             *)
(*                                                                         *)
(* A cancellation request and its delivery to the suspended task are one   *)
(* action. Cancelling put_bytes reaches only the caller: asyncio.shield    *)
(* keeps the worker task going. Nothing in the library cancels a worker,   *)
(* but tearing down the event loop, which cancels every task, does.        *)
(***************************************************************************)
EXTENDS Naturals, Sequences, SequencesExt, FiniteSets

CONSTANTS
    Puts,            \* calls of put_bytes
    Closers,         \* users that call aclose once, directly or by leaving
                     \* an async-with session
    MaxConcurrent    \* max_concurrent_uploads

ASSUME PutsFinite == IsFiniteSet(Puts)
ASSUME MaxConcurrentPositive == MaxConcurrent \in Nat \ {0}

VARIABLES
    caller,          \* the task awaiting put_bytes
    worker,          \* its _run_admitted_upload task
    slots,           \* _uploads: value of the semaphore
    waiters,         \* _uploads: FIFO of workers not yet granted a slot
    activeUploads,   \* _active_uploads
    drained,         \* _uploads_drained is set
    closing,         \* _closing
    closed,          \* _closed
    closer,          \* the task running aclose
    closeLocked,     \* _close_lock is held
    closeWaiters,    \* _close_lock: FIFO of tasks not yet handed the lock
    closable,        \* the S3 client has a callable close
    strays,          \* close() threads whose awaiting aclose was cancelled
    orphans,         \* put_object threads whose awaiting worker was cancelled
    pool,            \* the S3 client's HTTP connection pool
    closeCalls       \* how often close() of the S3 client has run

putVars  == <<caller, worker, slots, waiters>>
gateVars == <<activeUploads, drained, closing, closed>>
lockVars == <<closer, closeLocked, closeWaiters>>
poolVars == <<closable, strays, orphans, pool, closeCalls>>
vars == <<putVars, gateVars, lockVars, poolVars>>

-----------------------------------------------------------------------------
\* A worker has been admitted and its finally block has not run.
Unfinished == {"queued", "granted", "thread", "answeredOk", "answeredErr"}
Finished == {"stored", "failed", "refused", "dropped", "cancelled"}

CallerState == {"idle", "waiting", "returned", "failed", "cancelled"}
WorkerState == {"none", "created"} \cup Unfinished \cup Finished

\* aclose suspended while it holds _close_lock: waiting for the drained event,
\* woken by it, awaiting the close() thread, or with its answer ready.
InCloseLock == {"drainWait", "drainWoken", "closing", "closeOk", "closeErr"}
Suspended == InCloseLock \cup {"lockWait", "lockGranted"}
CloserState ==
    {"idle", "entered", "refused", "done", "failed", "cancelled"} \cup Suspended

Admitted == {p \in Puts : worker[p] \in Unfinished}
OnPool == {p \in Puts : worker[p] = "thread"}
Granted == {p \in Puts : worker[p] = "granted"}
HoldingSlot == {p \in Puts : worker[p] \in {"thread", "answeredOk", "answeredErr"}}

TypeOK ==
    /\ caller \in [Puts -> CallerState]
    /\ worker \in [Puts -> WorkerState]
    /\ slots \in Nat
    /\ waiters \in Seq(Puts)
    /\ activeUploads \in Nat
    /\ drained \in BOOLEAN
    /\ closing \in BOOLEAN
    /\ closed \in BOOLEAN
    /\ closer \in [Closers -> CloserState]
    /\ closeLocked \in BOOLEAN
    /\ closeWaiters \in Seq(Closers)
    /\ closable \in BOOLEAN
    /\ strays \subseteq Closers
    /\ orphans \subseteq Puts
    /\ pool \in {"open", "closed"}
    /\ closeCalls \in Nat

Init ==
    /\ caller = [p \in Puts |-> "idle"]
    /\ worker = [p \in Puts |-> "none"]
    /\ slots = MaxConcurrent
    /\ waiters = <<>>
    /\ activeUploads = 0
    /\ drained = TRUE
    /\ closing = FALSE
    /\ closed = FALSE
    /\ closer = [c \in Closers |-> "idle"]
    /\ closeLocked = FALSE
    /\ closeWaiters = <<>>
    /\ closable \in BOOLEAN
    /\ strays = {}
    /\ orphans = {}
    /\ pool = "open"
    /\ closeCalls = 0

-----------------------------------------------------------------------------
(* put_bytes, as its caller sees it *)

\* A key or body put_bytes refuses: it raises before it creates a task.
RejectInput(p) ==
    /\ caller[p] = "idle"
    /\ caller' = [caller EXCEPT ![p] = "failed"]
    /\ UNCHANGED <<worker, slots, waiters, gateVars, lockVars, poolVars>>

\* create_task(_run_admitted_upload) and await shield(worker).
PutBytes(p) ==
    /\ caller[p] = "idle"
    /\ caller' = [caller EXCEPT ![p] = "waiting"]
    /\ worker' = [worker EXCEPT ![p] = "created"]
    /\ UNCHANGED <<slots, waiters, gateVars, lockVars, poolVars>>

\* The worker is done: put_bytes returns its StoredObject or raises, also the
\* CancelledError of a worker that was cancelled.
PutReturns(p) ==
    /\ caller[p] = "waiting"
    /\ worker[p] \in Finished
    /\ caller' = [caller EXCEPT ![p] =
                    CASE worker[p] = "stored" -> "returned"
                      [] worker[p] \in {"dropped", "cancelled"} -> "cancelled"
                      [] OTHER -> "failed"]
    /\ UNCHANGED <<worker, slots, waiters, gateVars, lockVars, poolVars>>

\* The caller is cancelled; its worker, done or not, is left alone.
CancelPut(p) ==
    /\ caller[p] = "waiting"
    /\ caller' = [caller EXCEPT ![p] = "cancelled"]
    /\ UNCHANGED <<worker, slots, waiters, gateVars, lockVars, poolVars>>

-----------------------------------------------------------------------------
(* the worker task *)

Slip_ShutOnlyWhenClosed == closed
StoreIsShut == closing \/ closed

\* _begin_upload raises; nothing was admitted, so the finally block does nothing.
RefuseUpload(p) ==
    /\ worker[p] = "created"
    /\ StoreIsShut
    /\ worker' = [worker EXCEPT ![p] = "refused"]
    /\ UNCHANGED <<caller, slots, waiters, gateVars, lockVars, poolVars>>

\* Semaphore.locked(): nobody overtakes a worker that was granted a slot but
\* has not run since, even when the semaphore has another slot to give.
Slip_SlotAlways == waiters = <<>> /\ Granted = {}
SlotAvailable == slots > 0 /\ waiters = <<>> /\ Granted = {}

Slip_DrainedStaysSet == UNCHANGED drained
ClearDrained == drained' = FALSE

\* _begin_upload admits the upload, and the worker goes on to the semaphore in
\* the same stretch: put_object is handed to a thread, or the worker queues.
AdmitUpload(p) ==
    /\ worker[p] = "created"
    /\ ~StoreIsShut
    /\ activeUploads' = activeUploads + 1
    /\ ClearDrained
    /\ \/ /\ SlotAvailable
          /\ slots' = slots - 1
          /\ worker' = [worker EXCEPT ![p] = "thread"]
          /\ UNCHANGED waiters
       \/ /\ ~SlotAvailable
          /\ worker' = [worker EXCEPT ![p] = "queued"]
          /\ waiters' = Append(waiters, p)
          /\ UNCHANGED slots
    /\ UNCHANGED <<caller, closing, closed, lockVars, poolVars>>

\* A granted worker resumes and starts its thread. Semaphore.acquire then wakes
\* the next worker if one had to queue behind it although a slot was left.
TakeSlot(p) ==
    LET started == [worker EXCEPT ![p] = "thread"]
    IN  /\ worker[p] = "granted"
        /\ IF slots > 0 /\ waiters # <<>>
           THEN /\ slots' = slots - 1
                /\ worker' = [started EXCEPT ![Head(waiters)] = "granted"]
                /\ waiters' = Tail(waiters)
           ELSE /\ worker' = started
                /\ UNCHANGED <<slots, waiters>>
        /\ UNCHANGED <<caller, gateVars, lockVars, poolVars>>

\* The thread's put_object returns, or raises a boto3 error or a timeout.
PutObject(p) ==
    /\ worker[p] = "thread"
    /\ \E answer \in {"answeredOk", "answeredErr"} :
          worker' = [worker EXCEPT ![p] = answer]
    /\ UNCHANGED <<caller, slots, waiters, gateVars, lockVars, poolVars>>

\* Semaphore.release by a worker that leaves the other workers as in w.
Slip_ReleaseWakesNobody(w) == slots' = slots + 1 /\ worker' = w /\ UNCHANGED waiters
ReleaseSlot(w) ==
    IF waiters = <<>>
    THEN slots' = slots + 1 /\ worker' = w /\ UNCHANGED waiters
    ELSE /\ worker' = [w EXCEPT ![Head(waiters)] = "granted"]
         /\ waiters' = Tail(waiters)
         /\ UNCHANGED slots

Slip_DrainedAtOne(active) == active <= 1
Slip_DrainedBeforeCounting(active) == active + 1 = 0
DrainedAt(active) == active = 0

\* _finish_upload: it wakes the closer that waits for the drained event.
Uncount ==
    /\ activeUploads' = activeUploads - 1
    /\ IF DrainedAt(activeUploads')
       THEN /\ drained' = TRUE
            /\ closer' = [c \in Closers |->
                            IF closer[c] = "drainWait" THEN "drainWoken" ELSE closer[c]]
       ELSE UNCHANGED <<drained, closer>>
    /\ UNCHANGED <<closing, closed, closeLocked, closeWaiters>>

\* The worker leaves the semaphore, and its finally block counts it out.
FinishUpload(p) ==
    /\ worker[p] \in {"answeredOk", "answeredErr"}
    /\ ReleaseSlot([worker EXCEPT ![p] =
                      IF @ = "answeredOk" THEN "stored" ELSE "failed"])
    /\ Uncount
    /\ UNCHANGED <<caller, poolVars>>

-----------------------------------------------------------------------------
(* the worker task when the event loop is torn down *)

\* The worker is cancelled before it runs: no line of it is ever executed.
DropWorker(p) ==
    /\ worker[p] = "created"
    /\ worker' = [worker EXCEPT ![p] = "dropped"]
    /\ UNCHANGED <<caller, slots, waiters, gateVars, lockVars, poolVars>>

\* Semaphore.acquire by a worker that is cancelled in the queue.
Slip_StaysInQueue(p, w) == worker' = w /\ UNCHANGED <<slots, waiters>>
LeaveQueue(p, w) ==
    /\ worker' = w
    /\ \E i \in 1 .. Len(waiters) :
          /\ waiters[i] = p
          /\ waiters' = RemoveAt(waiters, i)
    /\ UNCHANGED slots

\* The worker is cancelled wherever else it is suspended. It leaves the queue,
\* or passes on the slot it holds or was granted, and its finally block counts
\* it out. A put_object thread that has not started is dropped; one that runs
\* goes on, with neither a slot nor a place in the count.
CancelWorker(p) ==
    LET cancelled == [worker EXCEPT ![p] = "cancelled"]
    IN  /\ worker[p] \in Unfinished
        /\ IF worker[p] = "queued" THEN LeaveQueue(p, cancelled) ELSE ReleaseSlot(cancelled)
        /\ Uncount
        /\ IF worker[p] = "thread"
           THEN orphans' \in {orphans, orphans \cup {p}}
           ELSE UNCHANGED orphans
        /\ UNCHANGED <<caller, closable, strays, pool, closeCalls>>

\* put_object of a thread nobody awaits any more returns or raises.
OrphanEnds(p) ==
    /\ p \in orphans
    /\ orphans' = orphans \ {p}
    /\ UNCHANGED <<putVars, gateVars, lockVars, closable, strays, pool, closeCalls>>

-----------------------------------------------------------------------------
(* the session and aclose *)

\* __aenter__ returns the store, or raises once it is closing.
Enter(c) ==
    /\ closer[c] = "idle"
    /\ closer' = [closer EXCEPT ![c] = IF StoreIsShut THEN "refused" ELSE "entered"]
    /\ UNCHANGED <<putVars, gateVars, closeLocked, closeWaiters, poolVars>>

\* Lock.release by a closer that leaves the other closers as in s: the lock is
\* free, and the first waiter will take it when it runs.
Slip_UnlockWakesNobody(s) == closeLocked' = FALSE /\ closer' = s /\ UNCHANGED closeWaiters
Unlock(s) ==
    /\ closeLocked' = FALSE
    /\ IF closeWaiters = <<>>
       THEN closer' = s /\ UNCHANGED closeWaiters
       ELSE /\ closer' = [s EXCEPT ![Head(closeWaiters)] = "lockGranted"]
            /\ closeWaiters' = Tail(closeWaiters)

\* Event.wait() returns at once.
Slip_NeverWait == TRUE
NoNeedToWait == drained

\* The body of aclose after it took _close_lock, up to where it suspends:
\* in drained.wait(), in to_thread(close), or not at all.
CloseBody(c) ==
    \/ /\ closed
       /\ Unlock([closer EXCEPT ![c] = "done"])
       /\ UNCHANGED <<closing, closed>>
    \/ /\ ~closed
       /\ closing' = TRUE
       /\ \/ /\ ~NoNeedToWait
             /\ closer' = [closer EXCEPT ![c] = "drainWait"]
             /\ closeLocked' = TRUE
             /\ UNCHANGED <<closed, closeWaiters>>
          \/ /\ NoNeedToWait
             /\ closable
             /\ closer' = [closer EXCEPT ![c] = "closing"]
             /\ closeLocked' = TRUE
             /\ UNCHANGED <<closed, closeWaiters>>
          \/ /\ NoNeedToWait
             /\ ~closable
             /\ closed' = TRUE
             /\ Unlock([closer EXCEPT ![c] = "done"])

\* Lock.acquire() does not wait: the lock is free and promised to nobody.
LockFree ==
    /\ ~closeLocked
    /\ closeWaiters = <<>>
    /\ \A c \in Closers : closer[c] # "lockGranted"

AClose(c) ==
    /\ closer[c] \in {"idle", "entered"}
    /\ \/ LockFree /\ CloseBody(c)
       \/ /\ ~LockFree
          /\ closer' = [closer EXCEPT ![c] = "lockWait"]
          /\ closeWaiters' = Append(closeWaiters, c)
          /\ UNCHANGED <<closing, closed, closeLocked>>
    /\ UNCHANGED <<putVars, activeUploads, drained, poolVars>>

\* The task that was handed _close_lock runs.
TakeLock(c) ==
    /\ closer[c] = "lockGranted"
    /\ CloseBody(c)
    /\ UNCHANGED <<putVars, activeUploads, drained, poolVars>>

\* Woken by the drained event (which is not looked at again): go on to
\* to_thread(close), or, for a client without close, to the end.
DrainReturns(c) ==
    /\ closer[c] = "drainWoken"
    /\ \/ /\ closable
          /\ closer' = [closer EXCEPT ![c] = "closing"]
          /\ UNCHANGED <<closed, closeLocked, closeWaiters>>
       \/ /\ ~closable
          /\ closed' = TRUE
          /\ Unlock([closer EXCEPT ![c] = "done"])
    /\ UNCHANGED <<putVars, activeUploads, drained, closing, poolVars>>

\* The thread runs close() of the S3 client: it closes the pool, or raises
\* with the pool closed or not.
CloseClient(c) ==
    /\ closer[c] = "closing"
    /\ closeCalls' = closeCalls + 1
    /\ \/ pool' = "closed" /\ closer' = [closer EXCEPT ![c] = "closeOk"]
       \/ /\ pool' \in {pool, "closed"}
          /\ closer' = [closer EXCEPT ![c] = "closeErr"]
    /\ UNCHANGED <<putVars, gateVars, closeLocked, closeWaiters, closable, strays, orphans>>

\* The same for a thread nobody awaits any more.
StrayClose(c) ==
    /\ c \in strays
    /\ closeCalls' = closeCalls + 1
    /\ pool' \in {pool, "closed"}
    /\ strays' = strays \ {c}
    /\ UNCHANGED <<putVars, gateVars, lockVars, closable, orphans>>

Slip_ClosedAnyway(c) == TRUE
CloseSucceeded(c) == closer[c] = "closeOk"

\* aclose gets the thread's answer: _closed is set only if close() returned.
CloseReturns(c) ==
    /\ closer[c] \in {"closeOk", "closeErr"}
    /\ closed' = (closed \/ CloseSucceeded(c))
    /\ Unlock([closer EXCEPT ![c] = IF @ = "closeOk" THEN "done" ELSE "failed"])
    /\ UNCHANGED <<putVars, activeUploads, drained, closing, poolVars>>

\* aclose is cancelled wherever it is suspended; _closing stays as it is. A
\* waiter leaves the queue of the lock. A task that holds the lock, or was
\* handed it, passes it on. A close() thread that has not started is dropped;
\* one that runs goes on without its aclose.
CancelAClose(c) ==
    LET cancelled == [closer EXCEPT ![c] = "cancelled"]
    IN  /\ closer[c] \in Suspended
        /\ IF closer[c] = "lockWait"
           THEN /\ closer' = cancelled
                /\ \E i \in 1 .. Len(closeWaiters) :
                      /\ closeWaiters[i] = c
                      /\ closeWaiters' = RemoveAt(closeWaiters, i)
                /\ UNCHANGED closeLocked
           ELSE Unlock(cancelled)
        /\ IF closer[c] = "closing"
           THEN strays' \in {strays, strays \cup {c}}
           ELSE UNCHANGED strays
        /\ UNCHANGED <<putVars, gateVars, closable, orphans, pool, closeCalls>>

-----------------------------------------------------------------------------
PutStep(p) ==
    \/ RejectInput(p) \/ PutBytes(p) \/ PutReturns(p) \/ CancelPut(p)
    \/ RefuseUpload(p) \/ AdmitUpload(p) \/ TakeSlot(p) \/ PutObject(p)
    \/ FinishUpload(p) \/ DropWorker(p) \/ CancelWorker(p) \/ OrphanEnds(p)

CloseStep(c) ==
    \/ Enter(c) \/ AClose(c) \/ TakeLock(c) \/ DrainReturns(c)
    \/ CloseClient(c) \/ StrayClose(c) \/ CloseReturns(c) \/ CancelAClose(c)

Next ==
    \/ \E p \in Puts : PutStep(p)
    \/ \E c \in Closers : CloseStep(c)

Spec == Init /\ [][Next]_vars

\* The event loop runs every task that is ready, and every thread answers: the
\* S3 client is configured with connect and read timeouts and two attempts
\* (from_s3_compatible_settings). Nobody has to call, enter or cancel.
Fairness ==
    /\ \A p \in Puts :
          /\ WF_vars(PutReturns(p))
          /\ WF_vars(RefuseUpload(p) \/ AdmitUpload(p))
          /\ WF_vars(TakeSlot(p))
          /\ WF_vars(PutObject(p))
          /\ WF_vars(FinishUpload(p))
    /\ \A c \in Closers :
          /\ WF_vars(TakeLock(c))
          /\ WF_vars(DrainReturns(c))
          /\ WF_vars(CloseClient(c))
          /\ WF_vars(StrayClose(c))
          /\ WF_vars(CloseReturns(c))

FairSpec == Spec /\ Fairness

-----------------------------------------------------------------------------
(* What must be right about the store *)

\* close() of the S3 client runs, or has run, only when no admitted upload is
\* left: not one that waits for a slot, not one whose thread is on the pool.
\* The comment in put_bytes claims it of uploads whose caller was cancelled. It
\* is not true of the threads whose worker was cancelled: the orphans.
UploadsDrainedBeforeClose ==
    (\/ \E c \in Closers : closer[c] \in {"closing", "closeOk", "closeErr"}
     \/ strays # {}
     \/ pool = "closed"
     \/ closed) => Admitted = {}

\* _active_uploads counts the admitted uploads through refusals, errors and
\* cancelled callers, and the drained event is set exactly when it is zero.
ActiveUploadsExact ==
    /\ activeUploads = Cardinality(Admitted)
    /\ drained <=> (activeUploads = 0)

\* The semaphore loses no slot and grants none twice, whoever is cancelled, so
\* at most max_concurrent_uploads threads are on the pool besides the orphans, and
\* nobody queues for a free slot unless somebody who will pass it on is about to run.
SlotsAccounted ==
    /\ slots + Cardinality(HoldingSlot \cup Granted) = MaxConcurrent
    /\ {waiters[i] : i \in DOMAIN waiters} = {p \in Puts : worker[p] = "queued"}
    /\ waiters # <<>> /\ slots > 0 => Granted # {}

\* One aclose at a time holds _close_lock or was handed it, and no aclose waits
\* for a lock that is neither held nor handed to anybody, whoever is cancelled.
CloseLockHandedOver ==
    /\ \A c, d \in Closers :
          /\ closer[c] \in InCloseLock \cup {"lockGranted"}
          /\ closer[d] \in InCloseLock \cup {"lockGranted"}
          => c = d
    /\ closeLocked <=> \E c \in Closers : closer[c] \in InCloseLock
    /\ (\E c \in Closers : closer[c] = "lockWait")
          => \E c \in Closers : closer[c] \in InCloseLock \cup {"lockGranted"}

\* An aclose that returns, also one that only waited for another task's aclose,
\* leaves a store that is closed: nothing in flight and the pool gone.
AcloseReturnsClosed ==
    (\E c \in Closers : closer[c] = "done") =>
        /\ closed
        /\ Admitted = {}
        /\ closable => pool = "closed"

\* aclose closes the gate for good: once it has begun, no upload is admitted,
\* even if that aclose is cancelled and no other one follows.
AdmissionStops == [][closing => closing' /\ Admitted' \subseteq Admitted]_vars

\* The docstring of aclose: it closes the S3 connection pool once only.
ClosesPoolOnce == closeCalls <= 1

\* Every put_bytes that is awaited comes back, whatever the others do and
\* whether the store is open, draining or closed.
PutsComeBack ==
    \A p \in Puts : caller[p] = "waiting" ~> caller[p] # "waiting"

\* Every aclose comes back, also when it has to wait for uploads whose callers
\* were cancelled, for the lock, or for a close() that raises.
AclosesComeBack ==
    \A c \in Closers : closer[c] \in Suspended ~> closer[c] \notin Suspended

-----------------------------------------------------------------------------
(* The store implements UploadLifecycle. An upload whose worker never ran has *)
(* not asked the store for anything.                                          *)

lifecyclePhase ==
    IF pool = "closed" THEN "closed" ELSE IF closing THEN "draining" ELSE "open"

lifecycleStatus ==
    [p \in Puts |->
        CASE worker[p] \in {"none", "created", "dropped"}      -> "new"
          [] worker[p] = "refused"                            -> "refused"
          [] worker[p] \in {"stored", "failed", "cancelled"}  -> "ended"
          [] OTHER                                            -> "inflight"]

Lifecycle == INSTANCE UploadLifecycle
    WITH Uploads <- Puts, phase <- lifecyclePhase, status <- lifecycleStatus

\* Every behaviour of the store is one of the abstract lifecycle, its promise
\* that an admitted upload ends included.
ImplementsLifecycle == Lifecycle!Spec
=============================================================================
