--------------------------- MODULE KorailRequests ---------------------------
(***************************************************************************)
(* KorailPublicClient._get (src/kric/korail_public.py): every request of   *)
(* one client, from whichever task, goes through one lock that is held     *)
(* while the task sleeps off the rest of the minimum gap and until the     *)
(* response has been read. Nothing is retried. aclose waits for nobody.    *)
(*                                                                         *)
(* Time passes in ticks, and only differences of time.monotonic() matter:  *)
(* "since" is the time since _last_request, as far as the gap. A task may  *)
(* be woken later than it asked for, never earlier.                        *)
(*                                                                         *)
(* KorailCategory is the other half of the client, and KorailProofs is     *)
(* about both: no two of their names are the same.                         *)
(***************************************************************************)
EXTENDS Naturals, Sequences, SequencesExt, FiniteSets

CONSTANTS
    Calls,           \* calls of _get on one client
    Gap,             \* the minimum of one second between requests, in ticks
    Never            \* _last_request is None

ASSUME CallsFinite == IsFiniteSet(Calls)
ASSUME GapPositive == Gap \in Nat \ {0}
ASSUME NeverIsNoTime == Never \notin Nat

VARIABLES
    call,            \* where each call is
    locked,          \* _lock is held
    waiters,         \* _lock: FIFO of the calls not yet handed the lock
    since,           \* time since _last_request, up to Gap; or Never
    sleepLeft,       \* rest of the sleep of the call that sleeps
    open,            \* the httpx client is open
    quiet            \* observed: time since a request went out, like "since"

requestVars == <<call, locked, waiters, since, sleepLeft, open, quiet>>

-----------------------------------------------------------------------------
InLock == {"sleeping", "streaming"}
Suspended == InLock \cup {"lockWait", "lockGranted"}
CallState == {"idle", "returned", "raised", "cancelled"} \cup Suspended

RequestsTypeOK ==
    /\ call \in [Calls -> CallState]
    /\ locked \in BOOLEAN
    /\ waiters \in Seq(Calls)
    /\ since \in 0 .. Gap \cup {Never}
    /\ sleepLeft \in 0 .. Gap
    /\ open \in BOOLEAN
    /\ quiet \in 0 .. Gap \cup {Never}

RequestsInit ==
    /\ call = [c \in Calls |-> "idle"]
    /\ locked = FALSE
    /\ waiters = <<>>
    /\ since = Never
    /\ sleepLeft = 0
    /\ open = TRUE
    /\ quiet = Never

-----------------------------------------------------------------------------
\* Time passes. At the end of the gap there is nothing left to tell apart.
Later(time) == IF time \in 0 .. Gap - 1 THEN time + 1 ELSE time

Tick ==
    /\ since \in 0 .. Gap - 1 \/ quiet \in 0 .. Gap - 1 \/ sleepLeft > 0
    /\ since' = Later(since)
    /\ quiet' = Later(quiet)
    /\ sleepLeft' = IF sleepLeft > 0 THEN sleepLeft - 1 ELSE 0
    /\ UNCHANGED <<call, locked, waiters, open>>

\* Lock.release by a call that leaves the others as in s: the lock is free, and
\* the first waiter takes it when it runs.
Slip_UnlockWakesNobody(s) == locked' = FALSE /\ call' = s /\ UNCHANGED waiters
Unlock(s) ==
    /\ locked' = FALSE
    /\ IF waiters = <<>>
       THEN call' = s /\ UNCHANGED waiters
       ELSE /\ call' = [s EXCEPT ![Head(waiters)] = "lockGranted"]
            /\ waiters' = Tail(waiters)

\* _last_request is set before anything can fail or be cancelled.
Slip_NoStamp == UNCHANGED since
Stamp == since' = 0

\* The request starts: on a client that was closed meanwhile httpx refuses it.
Send(c) ==
    /\ Stamp
    /\ sleepLeft' = 0
    /\ IF open
       THEN /\ quiet' = 0
            /\ locked' = TRUE
            /\ call' = [call EXCEPT ![c] = "streaming"]
            /\ UNCHANGED waiters
       ELSE Unlock([call EXCEPT ![c] = "raised"]) /\ UNCHANGED quiet

Slip_SleepTime == Gap - since + 1
SleepTime == Gap - since

\* With the lock: the first request of the client goes out at once, any other
\* sleeps for what is left of the gap (and yields to the loop if nothing is).
Proceed(c) ==
    \/ since = Never /\ Send(c)
    \/ /\ since # Never
       /\ sleepLeft' = SleepTime
       /\ call' = [call EXCEPT ![c] = "sleeping"]
       /\ locked' = TRUE
       /\ UNCHANGED <<since, quiet, waiters>>

Slip_LockFreeForgetsHeir == ~locked /\ waiters = <<>>
LockFree ==
    /\ ~locked
    /\ waiters = <<>>
    /\ \A c \in Calls : call[c] # "lockGranted"

Get(c) ==
    /\ call[c] = "idle"
    /\ \/ LockFree /\ Proceed(c)
       \/ /\ ~LockFree
          /\ call' = [call EXCEPT ![c] = "lockWait"]
          /\ waiters' = Append(waiters, c)
          /\ UNCHANGED <<locked, since, quiet, sleepLeft>>
    /\ UNCHANGED open

TakeLock(c) ==
    /\ call[c] = "lockGranted"
    /\ Proceed(c)
    /\ UNCHANGED open

WakeUp(c) ==
    /\ call[c] = "sleeping"
    /\ sleepLeft = 0
    /\ Send(c)
    /\ UNCHANGED open

\* The response has been read, or was refused by its status or its size, or the
\* transport failed; what was read is JSON or not. The lock is released first.
Answer(c) ==
    /\ call[c] = "streaming"
    /\ \E outcome \in {"returned", "raised"} : Unlock([call EXCEPT ![c] = outcome])
    /\ UNCHANGED <<since, quiet, sleepLeft, open>>

\* A waiter leaves the queue; the holder, or the heir, passes the lock on. The
\* time of the last request stays what it is.
CancelCall(c) ==
    LET cancelled == [call EXCEPT ![c] = "cancelled"]
    IN  /\ call[c] \in Suspended
        /\ IF call[c] = "lockWait"
           THEN /\ call' = cancelled
                /\ \E i \in 1 .. Len(waiters) :
                      waiters[i] = c /\ waiters' = RemoveAt(waiters, i)
                /\ UNCHANGED locked
           ELSE Unlock(cancelled)
        /\ sleepLeft' = IF call[c] = "sleeping" THEN 0 ELSE sleepLeft
        /\ UNCHANGED <<since, quiet, open>>

\* aclose closes the httpx client under whoever waits, sleeps or reads.
AClose ==
    /\ open
    /\ open' = FALSE
    /\ UNCHANGED <<call, locked, waiters, since, quiet, sleepLeft>>

-----------------------------------------------------------------------------
CallStep(c) ==
    Get(c) \/ TakeLock(c) \/ WakeUp(c) \/ Answer(c) \/ CancelCall(c)

RequestsNext == Tick \/ AClose \/ \E c \in Calls : CallStep(c)

RequestsSpec == RequestsInit /\ [][RequestsNext]_requestVars

\* Time passes, the event loop runs every task that is ready, and a response
\* ends: httpx bounds the wait for each part of it, and the size is bounded.
Fairness ==
    /\ WF_requestVars(Tick)
    /\ \A c \in Calls : WF_requestVars(TakeLock(c)) /\ WF_requestVars(WakeUp(c)) /\ WF_requestVars(Answer(c))

FairSpec == RequestsSpec /\ Fairness

-----------------------------------------------------------------------------
(* What must be right about the requests *)

\* The class docstring: at least one second between requests. Whatever was
\* cancelled, refused or failed before, a request starts as the first one or a
\* whole gap after the start of the one before.
RequestsSpaced ==
    [][\A c \in Calls :
          call[c] # "streaming" /\ call'[c] = "streaming" => quiet \in {Never, Gap}]_requestVars

\* One call at a time sleeps, reads or has been handed the lock, the lock is held
\* exactly while one sleeps or reads, and nobody waits for a lock nobody has.
OneAtATime ==
    /\ \A c, d \in Calls :
          /\ call[c] \in InLock \cup {"lockGranted"}
          /\ call[d] \in InLock \cup {"lockGranted"}
          => c = d
    /\ locked <=> \E c \in Calls : call[c] \in InLock
    /\ (\E c \in Calls : call[c] = "lockWait")
          => \E c \in Calls : call[c] \in InLock \cup {"lockGranted"}

\* Every call comes back, whoever before it in the queue is cancelled, and also
\* when the client is closed while it waits.
CallsComeBack ==
    \A c \in Calls : call[c] \in Suspended ~> call[c] \notin Suspended
=============================================================================
