---------------------------- MODULE KorailProofs ----------------------------
(***************************************************************************)
(* Proofs about KorailPublicClient: KorailRequests for every finite set of *)
(* calls and every gap, then KorailCategory for every set of stations and  *)
(* names, every page size and every budget of pages, however often the     *)
(* guide changes.                                                          *)
(***************************************************************************)
EXTENDS KorailRequests, KorailCategory, SequenceLemmas, TLAPS

-----------------------------------------------------------------------------
(* Requests: the inductive invariant *)

\* The queue of the lock is who waits for it, each of them once.
Waiting == {c \in Calls : call[c] = "lockWait"}
QueueInv == QueueOf(waiters, Waiting)

\* Who has the lock or has been promised it.
Holding == InLock \cup {"lockGranted"}

\* No request went out since the last stamp, and whoever sleeps, sleeps to the end
\* of the gap after it.
SpacingInv ==
    /\ since = Never => quiet = Never
    /\ quiet # Never => since # Never /\ since <= quiet
    /\ \A c \in Calls : call[c] = "sleeping" => since # Never /\ since + sleepLeft >= Gap

RequestsIInv == RequestsTypeOK /\ QueueInv /\ OneAtATime /\ SpacingInv

LEMMA InitRequests == RequestsInit => RequestsIInv
  <1> SUFFICES ASSUME RequestsInit
               PROVE  RequestsIInv
    OBVIOUS
  <1>1. RequestsTypeOK
    <2>1. call \in [Calls -> CallState]
      BY DEF RequestsInit, CallState
    <2>2. waiters \in Seq(Calls)
      BY DEF RequestsInit
    <2>3. sleepLeft \in 0 .. Gap
      BY GapPositive DEF RequestsInit
    <2>4. QED
      BY <2>1, <2>2, <2>3 DEF RequestsInit, RequestsTypeOK
  <1>2. QueueInv
    BY DEF RequestsInit, QueueInv, QueueOf, Waiting
  <1>3. OneAtATime /\ SpacingInv
    BY DEF RequestsInit, OneAtATime, SpacingInv, InLock
  <1>4. QED
    BY <1>1, <1>2, <1>3 DEF RequestsIInv

-----------------------------------------------------------------------------
(* Handing the lock over *)

\* What a step does to the calls, the lock and its queue, in a form from which the
\* invariant about them follows: the call c moves on to a place outside the queue.
LockKept ==
    /\ call' \in [Calls -> CallState]
    /\ locked' \in BOOLEAN
    /\ waiters' \in Seq(Calls)
    /\ QueueInv'
    /\ OneAtATime'

\* The call c, the only one that can have the lock, gives it up; or, not having
\* waited, it takes the lock and gives it up at once.
LEMMA UnlockKeeps ==
    ASSUME RequestsIInv, NEW c \in Calls, NEW to \in {"returned", "raised", "cancelled"},
           call[c] # "lockWait",
           \A d \in Calls : d # c => call[d] \notin Holding,
           Unlock([call EXCEPT ![c] = to])
    PROVE  /\ LockKept
           /\ \A d \in Calls : call'[d] \notin InLock
  <1> DEFINE s == [call EXCEPT ![c] = to]
  <1>1. /\ call \in [Calls -> CallState]
        /\ waiters \in Seq(Calls)
        /\ QueueOf(waiters, Waiting)
    BY DEF RequestsIInv, RequestsTypeOK, QueueInv
  <1>2. /\ s \in [Calls -> CallState]
        /\ s[c] = to
        /\ \A d \in Calls : d # c => s[d] = call[d]
        /\ \A d \in Calls : s[d] \notin Holding
        /\ \A d \in Calls : s[d] = "lockWait" <=> d \in Waiting
    BY <1>1 DEF CallState, Holding, InLock, Waiting
  <1>3. locked' = FALSE /\ Unlock(s)
    BY DEF Unlock
  <1> HIDE DEF s
  <1>4. CASE waiters = <<>>
    <2>1. call' = s /\ waiters' = waiters
      BY <1>3, <1>4 DEF Unlock
    <2>2. Waiting = {}
      BY <1>1, <1>4 DEF QueueOf
    <2>3. Waiting' = {}
      BY <1>2, <2>1, <2>2 DEF Waiting
    <2>4. QueueInv'
      BY <1>1, <2>1, <2>2, <2>3 DEF QueueInv
    <2>5. OneAtATime'
      BY <1>2, <1>3, <2>1, <2>3 DEF OneAtATime, Holding, Waiting
    <2>6. QED
      BY <1>1, <1>2, <1>3, <2>1, <2>4, <2>5 DEF LockKept, Holding
  <1>5. CASE waiters # <<>>
    <2> DEFINE heir == Head(waiters)
    <2>1. /\ call' = [s EXCEPT ![heir] = "lockGranted"]
          /\ waiters' = Tail(waiters)
      BY <1>3, <1>5 DEF Unlock
    <2>2. heir \in Waiting /\ QueueOf(Tail(waiters), Waiting \ {heir}) /\ Tail(waiters) \in Seq(Calls)
      BY <1>1, <1>5, QueueTail
    <2> HIDE DEF heir
    <2>3. heir \in Calls
      BY <2>2 DEF Waiting
    <2>4. /\ call' \in [Calls -> CallState]
          /\ call'[heir] = "lockGranted"
          /\ \A d \in Calls : d # heir => call'[d] = s[d]
      BY <1>2, <2>1, <2>3 DEF CallState, Suspended
    <2>5. Waiting' = Waiting \ {heir}
      BY <1>2, <2>2, <2>4 DEF Waiting
    <2>6. QueueInv'
      BY <2>1, <2>2, <2>5 DEF QueueInv
    <2>7. \A d \in Calls : call'[d] \in Holding <=> d = heir
      BY <1>2, <2>3, <2>4 DEF Holding
    <2>8. \A d \in Calls : call'[d] \notin InLock
      BY <1>2, <2>4 DEF Holding, InLock
    <2>9. OneAtATime'
      BY <1>3, <2>3, <2>7, <2>8 DEF OneAtATime, Holding
    <2>10. QED
      BY <1>3, <2>1, <2>2, <2>4, <2>6, <2>8, <2>9 DEF LockKept
  <1>6. QED
    BY <1>4, <1>5

\* The call c, which did not wait, and nobody else can have the lock: it takes or
\* keeps it.
LEMMA HoldKeeps ==
    ASSUME RequestsIInv, NEW c \in Calls, NEW to \in InLock,
           call[c] # "lockWait",
           \A d \in Calls : d # c => call[d] \notin Holding,
           call' = [call EXCEPT ![c] = to],
           locked' = TRUE,
           UNCHANGED waiters
    PROVE  /\ LockKept
           /\ \A d \in Calls : d # c => call'[d] \notin InLock
  <1>1. /\ call \in [Calls -> CallState]
        /\ waiters \in Seq(Calls)
        /\ QueueOf(waiters, Waiting)
    BY DEF RequestsIInv, RequestsTypeOK, QueueInv
  <1>2. /\ call' \in [Calls -> CallState]
        /\ call'[c] = to
        /\ \A d \in Calls : d # c => call'[d] = call[d]
    BY <1>1 DEF CallState, Suspended
  <1>3. Waiting' = Waiting
    BY <1>2 DEF Waiting, InLock
  <1>4. QueueInv'
    BY <1>1, <1>3 DEF QueueInv
  <1>5. \A d \in Calls : call'[d] \in Holding <=> d = c
    BY <1>2 DEF Holding
  <1>6. call'[c] \in InLock
    BY <1>2
  <1>7. OneAtATime'
    BY <1>5, <1>6 DEF OneAtATime, Holding
  <1>8. QED
    BY <1>1, <1>2, <1>4, <1>5, <1>7 DEF LockKept, Holding

\* Whoever may take the lock, or has it, is the only one.
LEMMA OnlyOne ==
    ASSUME RequestsIInv, NEW c \in Calls, call[c] \in Holding \/ LockFree
    PROVE  \A d \in Calls : d # c => call[d] \notin Holding
  <1>1. CASE call[c] \in Holding
    BY <1>1 DEF RequestsIInv, OneAtATime, Holding
  <1>2. CASE LockFree
    BY <1>2 DEF RequestsIInv, OneAtATime, Holding, LockFree
  <1>3. QED
    BY <1>1, <1>2

-----------------------------------------------------------------------------
(* Requests: the steps *)

\* A request is stamped, and starts unless the client is closed.
LEMMA SendKeeps ==
    ASSUME RequestsIInv, NEW c \in Calls,
           call[c] # "lockWait",
           \A d \in Calls : d # c => call[d] \notin Holding,
           Send(c), UNCHANGED open
    PROVE  RequestsIInv'
  <1>1. LockKept /\ \A d \in Calls : call'[d] # "sleeping"
    <2>1. CASE open
      <3>1. call' = [call EXCEPT ![c] = "streaming"] /\ locked' = TRUE /\ UNCHANGED waiters
        BY <2>1 DEF Send
      <3>2. "streaming" \in InLock
        BY DEF InLock
      <3>3. LockKept /\ \A d \in Calls : d # c => call'[d] \notin InLock
        BY <3>1, <3>2, HoldKeeps
      <3>4. call'[c] = "streaming"
        BY <3>1 DEF RequestsIInv, RequestsTypeOK
      <3>5. QED
        BY <3>3, <3>4 DEF InLock
    <2>2. CASE ~open
      <3>1. Unlock([call EXCEPT ![c] = "raised"])
        BY <2>2 DEF Send
      <3>2. LockKept /\ \A d \in Calls : call'[d] \notin InLock
        BY <3>1, UnlockKeeps
      <3>3. QED
        BY <3>2 DEF InLock
    <2>3. QED
      BY <2>1, <2>2
  <1>2. /\ since' = 0 /\ sleepLeft' = 0
        /\ quiet' \in 0 .. Gap \cup {Never}
        /\ quiet' # Never => 0 <= quiet'
    BY GapPositive, NeverIsNoTime DEF RequestsIInv, RequestsTypeOK, Send, Stamp
  <1>3. RequestsTypeOK'
    BY <1>1, <1>2, GapPositive DEF LockKept, RequestsIInv, RequestsTypeOK
  <1>4. SpacingInv'
    BY <1>1, <1>2, NeverIsNoTime DEF SpacingInv
  <1>5. QED
    BY <1>1, <1>3, <1>4 DEF LockKept, RequestsIInv

\* With the lock, a call sends at once or sleeps to the end of the gap.
LEMMA ProceedKeeps ==
    ASSUME RequestsIInv, NEW c \in Calls,
           call[c] # "lockWait",
           \A d \in Calls : d # c => call[d] \notin Holding,
           Proceed(c), UNCHANGED open
    PROVE  RequestsIInv'
  <1>1. CASE Send(c)
    BY <1>1, SendKeeps
  <1>2. CASE /\ since # Never
             /\ sleepLeft' = SleepTime
             /\ call' = [call EXCEPT ![c] = "sleeping"]
             /\ locked' = TRUE
             /\ UNCHANGED <<since, quiet, waiters>>
    <2>1. "sleeping" \in InLock
      BY DEF InLock
    <2>2. LockKept /\ \A d \in Calls : d # c => call'[d] \notin InLock
      BY <1>2, <2>1, HoldKeeps
    <2>3. since \in 0 .. Gap /\ sleepLeft' = Gap - since
      BY <1>2 DEF RequestsIInv, RequestsTypeOK, SleepTime
    <2>4. sleepLeft' \in 0 .. Gap /\ since + sleepLeft' >= Gap
      BY <2>3, GapPositive
    <2>5. RequestsTypeOK'
      BY <1>2, <2>2, <2>4 DEF LockKept, RequestsIInv, RequestsTypeOK
    <2>6. SpacingInv'
      BY <1>2, <2>2, <2>4 DEF SpacingInv, RequestsIInv, InLock
    <2>7. QED
      BY <2>2, <2>5, <2>6 DEF LockKept, RequestsIInv
  <1>3. QED
    BY <1>1, <1>2 DEF Proceed

LEMMA TickKeeps == RequestsIInv /\ Tick => RequestsIInv'
  <1> SUFFICES ASSUME RequestsIInv, Tick
               PROVE  RequestsIInv'
    OBVIOUS
  <1>1. /\ since \in 0 .. Gap \cup {Never} /\ quiet \in 0 .. Gap \cup {Never}
        /\ sleepLeft \in 0 .. Gap /\ Gap \in Nat
    BY GapPositive DEF RequestsIInv, RequestsTypeOK
  <1>2. /\ since' = Later(since) /\ quiet' = Later(quiet)
        /\ sleepLeft' = IF sleepLeft > 0 THEN sleepLeft - 1 ELSE 0
        /\ UNCHANGED <<call, locked, waiters, open>>
    BY DEF Tick
  <1>3. ASSUME NEW t \in 0 .. Gap \cup {Never}
        PROVE  /\ Later(t) \in 0 .. Gap \cup {Never}
               /\ t = Never <=> Later(t) = Never
               /\ t # Never => Later(t) = IF t < Gap THEN t + 1 ELSE Gap
    BY <1>1, NeverIsNoTime DEF Later
  <1>4. RequestsTypeOK'
    BY <1>1, <1>2, <1>3 DEF RequestsIInv, RequestsTypeOK
  <1>5. SpacingInv'
    <2>1. since' = Never => quiet' = Never
      BY <1>1, <1>2, <1>3 DEF RequestsIInv, SpacingInv
    <2>2. ASSUME quiet' # Never
          PROVE  since' # Never /\ since' <= quiet'
      <3>1. quiet # Never /\ since # Never /\ since <= quiet
        BY <1>1, <1>2, <1>3, <2>2 DEF RequestsIInv, SpacingInv
      <3>2. since \in 0 .. Gap /\ quiet \in 0 .. Gap
        BY <1>1, <3>1
      <3>3. since' = (IF since < Gap THEN since + 1 ELSE Gap)
            /\ quiet' = (IF quiet < Gap THEN quiet + 1 ELSE Gap)
        BY <1>1, <1>2, <1>3, <3>1
      <3>4. QED
        BY <1>1, <1>2, <1>3, <3>1, <3>2, <3>3
    <2>3. ASSUME NEW c \in Calls, call'[c] = "sleeping"
          PROVE  since' # Never /\ since' + sleepLeft' >= Gap
      <3>1. since # Never /\ since + sleepLeft >= Gap
        BY <1>2, <2>3 DEF RequestsIInv, SpacingInv
      <3>2. since \in 0 .. Gap
        BY <1>1, <3>1
      <3>3. since' = (IF since < Gap THEN since + 1 ELSE Gap)
        BY <1>1, <1>2, <1>3, <3>1
      <3>4. QED
        BY <1>1, <1>2, <1>3, <3>1, <3>2, <3>3
    <2>4. QED
      BY <2>1, <2>2, <2>3 DEF SpacingInv
  <1>6. QueueInv' /\ OneAtATime'
    BY <1>2 DEF RequestsIInv, QueueInv, Waiting, OneAtATime
  <1>7. QED
    BY <1>4, <1>5, <1>6 DEF RequestsIInv

LEMMA CallStepKeeps ==
    ASSUME RequestsIInv, NEW c \in Calls, CallStep(c)
    PROVE  RequestsIInv'
  <1>1. CASE Get(c) /\ LockFree
    <2>1. Proceed(c) /\ UNCHANGED open /\ call[c] # "lockWait"
      BY <1>1 DEF Get
    <2>2. QED
      BY <1>1, <2>1, OnlyOne, ProceedKeeps
  <1>2. CASE Get(c) /\ ~LockFree
    <2>1. /\ call[c] = "idle"
          /\ call' = [call EXCEPT ![c] = "lockWait"]
          /\ waiters' = Append(waiters, c)
          /\ UNCHANGED <<locked, since, quiet, sleepLeft, open>>
      BY <1>2 DEF Get
    <2>2. /\ call \in [Calls -> CallState]
          /\ waiters \in Seq(Calls)
          /\ QueueOf(waiters, Waiting)
          /\ c \notin Waiting
      BY <2>1 DEF RequestsIInv, RequestsTypeOK, QueueInv, Waiting
    <2>3. /\ call' \in [Calls -> CallState]
          /\ call'[c] = "lockWait"
          /\ \A d \in Calls : d # c => call'[d] = call[d]
      BY <2>1, <2>2 DEF CallState, Suspended
    <2>4. Waiting' = Waiting \cup {c}
      BY <2>3 DEF Waiting
    <2>5. QueueInv'
      BY <2>1, <2>2, <2>4, QueueAppend DEF QueueInv
    <2>6. waiters' \in Seq(Calls)
      BY <2>1, <2>2
    <2>7. RequestsTypeOK'
      BY <2>1, <2>3, <2>6 DEF RequestsIInv, RequestsTypeOK
    <2>8. \A d \in Calls : /\ call'[d] \in InLock <=> call[d] \in InLock
                           /\ call'[d] \in Holding <=> call[d] \in Holding
      BY <2>1, <2>3 DEF InLock, Holding
    <2>9. \E d \in Calls : call[d] \in Holding
      <3>1. CASE locked
        BY <3>1 DEF RequestsIInv, OneAtATime, Holding
      <3>2. CASE waiters # <<>>
        <4>1. Head(waiters) \in Waiting
          BY <2>2, <3>2, QueueTail
        <4>2. \E d \in Calls : call[d] = "lockWait"
          BY <4>1 DEF Waiting
        <4>3. QED
          BY <4>2 DEF RequestsIInv, OneAtATime, Holding
      <3>3. CASE \E d \in Calls : call[d] = "lockGranted"
        BY <3>3 DEF Holding
      <3>4. QED
        BY <1>2, <3>1, <3>2, <3>3 DEF LockFree
    <2>10. OneAtATime'
      BY <2>1, <2>8, <2>9 DEF RequestsIInv, OneAtATime, Holding
    <2>11. SpacingInv'
      BY <2>1, <2>3 DEF RequestsIInv, SpacingInv
    <2>12. QED
      BY <2>5, <2>7, <2>10, <2>11 DEF RequestsIInv
  <1>3. CASE TakeLock(c)
    <2>1. /\ call[c] = "lockGranted" /\ call[c] \in Holding
          /\ Proceed(c) /\ UNCHANGED open
      BY <1>3 DEF TakeLock, Holding
    <2>2. QED
      BY <2>1, OnlyOne, ProceedKeeps
  <1>4. CASE WakeUp(c)
    <2>1. /\ call[c] = "sleeping" /\ call[c] \in Holding
          /\ Send(c) /\ UNCHANGED open
      BY <1>4 DEF WakeUp, Holding, InLock
    <2>2. QED
      BY <2>1, OnlyOne, SendKeeps
  <1>5. ASSUME NEW to \in {"returned", "raised", "cancelled"},
               call[c] \in Holding,
               Unlock([call EXCEPT ![c] = to]),
               UNCHANGED <<since, quiet, open>>,
               sleepLeft' \in 0 .. Gap
        PROVE  RequestsIInv'
    <2>1. call[c] # "lockWait" /\ \A d \in Calls : d # c => call[d] \notin Holding
      BY <1>5, OnlyOne DEF Holding, InLock
    <2>2. LockKept /\ \A d \in Calls : call'[d] \notin InLock
      BY <1>5, <2>1, UnlockKeeps
    <2>3. RequestsTypeOK' /\ SpacingInv'
      BY <1>5, <2>2 DEF LockKept, RequestsIInv, RequestsTypeOK, SpacingInv, InLock
    <2>4. QED
      BY <2>2, <2>3 DEF LockKept, RequestsIInv
  <1>6. CASE Answer(c)
    <2>1. call[c] \in Holding /\ sleepLeft' \in 0 .. Gap /\ UNCHANGED <<since, quiet, open>>
      BY <1>6 DEF Answer, Holding, InLock, RequestsIInv, RequestsTypeOK
    <2>2. PICK to \in {"returned", "raised"} : Unlock([call EXCEPT ![c] = to])
      BY <1>6 DEF Answer
    <2>3. QED
      BY <1>5, <2>1, <2>2
  <1>7. CASE CancelCall(c) /\ call[c] # "lockWait"
    <2>1. call[c] \in Holding
      BY <1>7 DEF CancelCall, Suspended, Holding
    <2>2. Unlock([call EXCEPT ![c] = "cancelled"]) /\ UNCHANGED <<since, quiet, open>>
      BY <1>7 DEF CancelCall
    <2>3. sleepLeft' \in 0 .. Gap
      BY <1>7, GapPositive DEF CancelCall, RequestsIInv, RequestsTypeOK
    <2>4. QED
      BY <1>5, <2>1, <2>2, <2>3
  <1>8. CASE CancelCall(c) /\ call[c] = "lockWait"
    <2>1. PICK i \in 1 .. Len(waiters) : waiters[i] = c /\ waiters' = RemoveAt(waiters, i)
      BY <1>8 DEF CancelCall
    <2>2. /\ call' = [call EXCEPT ![c] = "cancelled"]
          /\ UNCHANGED <<locked, since, quiet, sleepLeft, open>>
      BY <1>8 DEF CancelCall
    <2>3. /\ call \in [Calls -> CallState]
          /\ waiters \in Seq(Calls)
          /\ QueueOf(waiters, Waiting)
      BY DEF RequestsIInv, RequestsTypeOK, QueueInv
    <2>4. /\ call' \in [Calls -> CallState]
          /\ call'[c] = "cancelled"
          /\ \A d \in Calls : d # c => call'[d] = call[d]
      BY <2>2, <2>3 DEF CallState
    <2>5. Waiting' = Waiting \ {c}
      BY <2>4 DEF Waiting
    <2>6. QueueInv' /\ waiters' \in Seq(Calls)
      BY <2>1, <2>3, <2>5, QueueWithout, RemoveAtElements DEF QueueInv
    <2>7. RequestsTypeOK'
      BY <2>2, <2>4, <2>6 DEF RequestsIInv, RequestsTypeOK
    <2>8. \A d \in Calls : /\ call'[d] \in InLock <=> call[d] \in InLock
                           /\ call'[d] \in Holding <=> call[d] \in Holding
                           /\ call'[d] = "lockWait" => call[d] = "lockWait"
      BY <1>8, <2>4 DEF InLock, Holding
    <2>9. OneAtATime'
      BY <2>2, <2>8 DEF RequestsIInv, OneAtATime, Holding
    <2>10. SpacingInv'
      BY <2>2, <2>4 DEF RequestsIInv, SpacingInv
    <2>11. QED
      BY <2>6, <2>7, <2>9, <2>10 DEF RequestsIInv
  <1>9. QED
    BY <1>1, <1>2, <1>3, <1>4, <1>6, <1>7, <1>8 DEF CallStep

LEMMA StepRequests == RequestsIInv /\ [RequestsNext]_requestVars => RequestsIInv'
  <1> SUFFICES ASSUME RequestsIInv, [RequestsNext]_requestVars
               PROVE  RequestsIInv'
    OBVIOUS
  <1>1. CASE Tick
    BY <1>1, TickKeeps
  <1>2. CASE AClose
    BY <1>2 DEF AClose, RequestsIInv, RequestsTypeOK, QueueInv, Waiting, OneAtATime, SpacingInv
  <1>3. CASE \E c \in Calls : CallStep(c)
    BY <1>3, CallStepKeeps
  <1>4. CASE UNCHANGED requestVars
    BY <1>4 DEF requestVars, RequestsIInv, RequestsTypeOK, QueueInv, Waiting, OneAtATime, SpacingInv
  <1>5. QED
    BY <1>1, <1>2, <1>3, <1>4 DEF RequestsNext

-----------------------------------------------------------------------------
(* Requests: the theorems *)

\* What was strengthened until every step preserves it holds of every behaviour.
THEOREM RequestsInvariance == RequestsSpec => []RequestsIInv
  BY InitRequests, StepRequests, PTL DEF RequestsSpec

\* Every variable keeps its type; in particular nobody sleeps longer than a gap.
THEOREM RequestsTypeCorrect == RequestsSpec => []RequestsTypeOK
  <1>1. RequestsIInv => RequestsTypeOK
    BY DEF RequestsIInv
  <1>2. QED
    BY RequestsInvariance, <1>1, PTL

\* The lock has one holder or heir, is held by who sleeps or reads, and is lost by
\* no cancellation: whoever waits, waits for somebody.
THEOREM LockHandedOver == RequestsSpec => []OneAtATime
  <1>1. RequestsIInv => OneAtATime
    BY DEF RequestsIInv
  <1>2. QED
    BY RequestsInvariance, <1>1, PTL

\* A request starts a whole gap after the one before, whatever failed or was
\* cancelled in between.
THEOREM Spaced == RequestsSpec => RequestsSpaced
  <1>1. ASSUME RequestsIInv, [RequestsNext]_requestVars
        PROVE  [\A c \in Calls :
                   call[c] # "streaming" /\ call'[c] = "streaming" => quiet \in {Never, Gap}]_requestVars
    <2> SUFFICES ASSUME RequestsNext, NEW c \in Calls, call[c] # "streaming", call'[c] = "streaming"
                 PROVE  quiet \in {Never, Gap}
      BY <1>1
    <2>1. PICK d \in Calls : CallStep(d)
      BY DEF RequestsNext, Tick, AClose
    <2>2. CASE (Get(d) \/ TakeLock(d)) /\ since = Never
      BY <1>1, <2>2 DEF RequestsIInv, SpacingInv
    <2>3. CASE (Get(d) \/ TakeLock(d)) /\ since # Never
      <3>1. call' = [call EXCEPT ![d] = "sleeping"] \/ call' = [call EXCEPT ![d] = "lockWait"]
        BY <2>3 DEF Get, TakeLock, Proceed
      <3>2. QED
        BY <1>1, <3>1 DEF RequestsIInv, RequestsTypeOK
    <2>4. CASE WakeUp(d)
      <3>1. since # Never /\ since + 0 >= Gap
        BY <1>1, <2>4 DEF WakeUp, RequestsIInv, SpacingInv
      <3>2. since \in 0 .. Gap /\ quiet \in 0 .. Gap \cup {Never} /\ (quiet # Never => since <= quiet)
        BY <1>1, <3>1 DEF RequestsIInv, RequestsTypeOK, SpacingInv
      <3>3. QED
        BY <3>1, <3>2, GapPositive
    <2>5. CASE Answer(d) \/ CancelCall(d)
      <3>1. CASE call[d] # "lockWait"
        <4>1. PICK to \in {"returned", "raised", "cancelled"} : Unlock([call EXCEPT ![d] = to])
          BY <2>5, <3>1 DEF Answer, CancelCall
        <4>2. \/ call' = [call EXCEPT ![d] = to]
              \/ call' = [[call EXCEPT ![d] = to] EXCEPT ![Head(waiters)] = "lockGranted"]
          BY <4>1 DEF Unlock
        <4>3. QED
          BY <1>1, <4>2 DEF RequestsIInv, RequestsTypeOK
      <3>2. CASE call[d] = "lockWait"
        <4>1. call' = [call EXCEPT ![d] = "cancelled"]
          BY <2>5, <3>2 DEF Answer, CancelCall
        <4>2. QED
          BY <1>1, <4>1 DEF RequestsIInv, RequestsTypeOK
      <3>3. QED
        BY <3>1, <3>2
    <2>6. QED
      BY <2>1, <2>2, <2>3, <2>4, <2>5 DEF CallStep
  <1>2. QED
    BY RequestsInvariance, <1>1, PTL DEF RequestsSpec, RequestsSpaced

-----------------------------------------------------------------------------
(* A category: pages of the guide *)

\* Page n as the lemmas on pages have it.
LEMMA GuidePage ==
    ASSUME guide \in Seq(Stations), NEW n \in 1 .. MaxPages
    PROVE  /\ PageOf(n) = PageIn(guide, PageSize, n)
           /\ n \in Nat \ {0} /\ PageSize \in Nat \ {0}
           /\ guide \in Seq(Everyone)
           /\ PageOf(n) \in Seq(Stations)
           /\ ToSet(PageOf(n)) \subseteq ToSet(guide)
  <1>1. n \in Nat \ {0} /\ PageSize \in Nat \ {0}
    BY PageSizePositive, MaxPagesRange
  <1>2. PageOf(n) = PageIn(guide, PageSize, n)
    BY DEF PageOf, PageIn, Reach
  <1>3. guide \in Seq(Everyone)
    BY DEF Everyone
  <1>4. QED
    BY <1>1, <1>2, <1>3, Paged

\* Where KORAIL sends something else, it is rows of the guide, or an outsider is among
\* them.
LEMMA WrongPage ==
    ASSUME guide \in Seq(Stations), NEW n \in 1 .. MaxPages, NEW rows \in WrongPages(n)
    PROVE  /\ rows \in Seq(Everyone)
           /\ \/ ToSet(rows) \subseteq ToSet(guide)
              \/ \E i \in DOMAIN rows : rows[i] \in Outsiders
  <1> DEFINE page == PageOf(n)
  <1>1. /\ page \in Seq(Stations) /\ page \in Seq(Everyone)
        /\ ToSet(page) \subseteq ToSet(guide)
    BY GuidePage DEF Everyone
  <1>2. CASE rows \in {SubSeq(page, 1, k) : k \in 0 .. Len(page) - 1}
    <2>1. PICK k \in 0 .. Len(page) - 1 : rows = SubSeq(page, 1, k)
      BY <1>2
    <2>2. k \in Int /\ k <= Len(page) /\ 1 \in Nat \ {0}
      BY <1>1, <2>1
    <2> HIDE DEF page
    <2>3. rows \in Seq(Everyone) /\ ToSet(rows) \subseteq ToSet(page)
      BY <1>1, <2>1, <2>2, PieceOf
    <2>4. QED
      BY <1>1, <2>3
  <1>3. CASE rows \in {PageOf(m) : m \in 1 .. MaxPages \ {n}}
    <2>1. PICK m \in 1 .. MaxPages : rows = PageOf(m)
      BY <1>3
    <2>2. QED
      BY <2>1, GuidePage DEF Everyone
  <1>4. CASE rows \in {[page EXCEPT ![i] = o] : i \in DOMAIN page, o \in Outsiders}
    <2>1. PICK i \in DOMAIN page, o \in Outsiders : rows = [page EXCEPT ![i] = o]
      BY <1>4
    <2> HIDE DEF page
    <2>2. rows \in Seq(Everyone)
      BY <1>1, <2>1 DEF Everyone
    <2>3. i \in DOMAIN rows /\ rows[i] = o
      BY <1>1, <2>1
    <2>4. QED
      BY <2>1, <2>2, <2>3
  <1>5. QED
    BY <1>2, <1>3, <1>4 DEF WrongPages

-----------------------------------------------------------------------------
(* A category: the inductive invariant *)

\* No row is accepted twice; as long as no station came or went, all are of the guide;
\* a list that was completed has the length of the guide, which is edited no more.
ListInv ==
    /\ IsInjective(stations)
    /\ ~churned => ToSet(stations) \subseteq ToSet(guide)
    /\ state \in {"locating", "returned"} => Len(stations) = Len(guide)

Accepted(n) == SubSeq(guide, 1, (n - 1) * PageSize)
ThisHeader == [total |-> Len(guide), categories |-> categories]

\* From one guide, answered in full, the rows accepted are its first pages, and there
\* are more to come.
CalmInv ==
    calm =>
        /\ state \in {"new", "paging"} => stations = Accepted(pageNo)
        /\ pageNo = 1 /\ state \in {"new", "paging"} => first = Nowhere
        /\ pageNo > 1 /\ state \in {"new", "paging"} =>
              first = ThisHeader /\ pageNo * PageSize - PageSize < Len(guide)
        /\ state \in {"locating", "returned"} => stations = guide
        /\ state = "raised" =>
              \/ Len(guide) > MaxPages * PageSize
              \/ categories = "unlisted"

\* The coordinates are those the join gives, for the catalogue there was.
JoinInv ==
    Joined => places = [i \in DOMAIN stations |-> PlaceOf(catalogue, i)]

IInv == TypeOK /\ ListInv /\ CalmInv /\ JoinInv

LEMMA InitIInv == Init => IInv
  <1> SUFFICES ASSUME Init
               PROVE  IInv
    OBVIOUS
  <1>1. guide \in Seq(Stations) /\ IsInjective(guide)
    <2>1. IsInjective(guide)
      BY DEF Init, Guides
    <2>2. PICK m \in 0 .. Cardinality(Stations) : guide \in [1 .. m -> Stations]
      BY DEF Init, Guides, SeqOf
    <2>3. m \in Nat
      OBVIOUS
    <2>4. QED
      BY <2>1, <2>2, <2>3
  <1>2. TypeOK
    <2>1. 0 \in 0 .. MaxEdits /\ 1 \in 1 .. MaxPages
      BY MaxPagesRange, MaxEditsNat
    <2>2. QED
      BY <1>1, <2>1, NoElements DEF Init, TypeOK
  <1>3. ListInv
    BY NoElements DEF Init, ListInv
  <1>4. CalmInv
    <2>1. (1 - 1) * PageSize = 0
      BY PageSizePositive
    <2>2. Accepted(1) = <<>>
      BY <1>1, <2>1 DEF Accepted
    <2>3. QED
      BY <2>2 DEF Init, CalmInv
  <1>5. JoinInv
    BY DEF Init, JoinInv, Joined
  <1>6. QED
    BY <1>2, <1>3, <1>4, <1>5 DEF IInv

LEMMA EditKeeps == IInv /\ Edit => IInv'
  <1> SUFFICES ASSUME IInv, Edit
               PROVE  IInv'
    OBVIOUS
  <1>1. guide \in Seq(Stations) /\ IsInjective(guide)
    BY DEF IInv, TypeOK
  <1>2. guide' \in Seq(Stations) /\ IsInjective(guide')
    <2>1. CASE UNCHANGED guide
      BY <1>1, <2>1
    <2>2. CASE ~UNCHANGED guide
      BY <1>1, <2>2, Edited DEF Edit
    <2>3. QED
      BY <2>1, <2>2
  <1>3. edits' \in 0 .. MaxEdits
    BY MaxEditsNat DEF IInv, TypeOK, Edit
  <1>4. /\ categories' \in CategoryLists /\ churned' \in BOOLEAN /\ calm' = FALSE
        /\ ~churned' => ~churned /\ ToSet(guide') = ToSet(guide)
        /\ state = "paging"
        /\ UNCHANGED <<located, state, pageNo, first, stations, catalogue, places>>
    BY DEF IInv, TypeOK, Edit
  <1>5. TypeOK'
    BY <1>2, <1>3, <1>4 DEF IInv, TypeOK
  <1>6. ListInv'
    BY <1>4 DEF IInv, ListInv
  <1>7. CalmInv'
    BY <1>4 DEF CalmInv
  <1>8. JoinInv'
    BY <1>4 DEF JoinInv, Joined
  <1>9. QED
    BY <1>5, <1>6, <1>7, <1>8 DEF IInv

\* An answer is refused, or accepted with its rows; it is the guide's length that
\* decides then whether the list is complete.
LEMMA ReceiveEffect ==
    ASSUME TypeOK, NEW rows \in Seq(Everyone), Receive(rows)
    PROVE  LET all == stations \o rows
           IN  \/ /\ state' = "raised"
                  /\ UNCHANGED <<pageNo, first, stations>>
                  /\ \/ PageImplausible(rows, Len(guide))
                     \/ CategoryMissing(ThisHeader)
                     \/ HeaderChanged(ThisHeader)
                     \/ RowsInvalid(all, (IF first = Nowhere THEN ThisHeader ELSE first).total)
               \/ /\ first' = ThisHeader /\ stations' = all
                  /\ IsInjective(all)
                  /\ \A i \in DOMAIN all : all[i] \notin Outsiders
                  /\ GoOn(Len(guide), all)
  <1> DEFINE all == stations \o rows
             reference == IF first = Nowhere THEN ThisHeader ELSE first
  <1>1. ThisHeader.total = Len(guide)
    BY DEF ThisHeader
  <1>2. CASE \/ PageImplausible(rows, Len(guide))
             \/ CategoryMissing(ThisHeader)
             \/ HeaderChanged(ThisHeader)
             \/ RowsInvalid(all, reference.total)
    BY <1>1, <1>2 DEF Receive, ThisHeader, Raise
  <1>3. CASE ~(\/ PageImplausible(rows, Len(guide))
               \/ CategoryMissing(ThisHeader)
               \/ HeaderChanged(ThisHeader)
               \/ RowsInvalid(all, reference.total))
    <2>1. first' = reference /\ stations' = all /\ GoOn(reference.total, all)
      BY <1>1, <1>3 DEF Receive, ThisHeader
    <2>2. reference = ThisHeader
      BY <1>3 DEF HeaderChanged
    <2>3. QED
      BY <1>1, <1>3, <2>1, <2>2 DEF RowsInvalid
  <1>4. QED
    BY <1>2, <1>3

\* What both kinds of answer keep, whatever rows were sent.
LEMMA ReceiveKeeps ==
    ASSUME IInv, state = "paging", NEW rows \in Seq(Everyone), Receive(rows),
           UNCHANGED <<provider, located, catalogue, places>>, calm' \in BOOLEAN,
           \/ ToSet(rows) \subseteq ToSet(guide)
           \/ \E i \in DOMAIN rows : rows[i] \in Outsiders
    PROVE  TypeOK' /\ ListInv' /\ JoinInv'
  <1> DEFINE all == stations \o rows
  <1>1. TypeOK /\ ListInv /\ stations \in Seq(Everyone)
    BY DEF IInv, TypeOK
  <1>2. all \in Seq(Everyone) /\ ToSet(all) = ToSet(stations) \cup ToSet(rows)
    BY <1>1, Concatenated
  <1>3. ThisHeader \in Header
    <2>1. Len(guide) \in Nat
      BY <1>1 DEF TypeOK
    <2>2. QED
      BY <1>1, <2>1 DEF TypeOK, ThisHeader, Header
  <1>4. JoinInv'
    <2>1. GoOn(Len(guide), all) => state' # "returned" \/ ~located
      BY DEF GoOn, Raise
    <2>2. state' # "returned" \/ ~located
      BY <1>1, <2>1, ReceiveEffect
    <2>3. QED
      BY <2>2 DEF JoinInv, Joined
  <1>5. CASE state' = "raised" /\ UNCHANGED <<pageNo, first, stations>>
    BY <1>1, <1>4, <1>5 DEF provider, TypeOK, ListInv
  <1>6. CASE /\ first' = ThisHeader /\ stations' = all /\ IsInjective(all)
             /\ \A i \in DOMAIN all : all[i] \notin Outsiders
             /\ GoOn(Len(guide), all)
    <2>1. ToSet(rows) \subseteq ToSet(guide)
      <3>1. ASSUME NEW i \in DOMAIN rows
            PROVE  rows[i] \notin Outsiders
        <4>1. rows[i] \in ToSet(all)
          BY <1>2 DEF ToSet
        <4>2. QED
          BY <1>6, <4>1 DEF ToSet
      <3>2. QED
        BY <3>1
    <2>2. pageNo' \in 1 .. MaxPages
      BY <1>1, <1>6, MaxPagesRange DEF GoOn, Raise, TypeOK
    <2>3. state' \in {"paging", "locating", "returned", "raised"}
      BY <1>6 DEF GoOn, Raise
    <2>4. TypeOK'
      BY <1>1, <1>2, <1>3, <1>6, <2>2, <2>3 DEF TypeOK, provider
    <2>5. state' \in {"locating", "returned"} => Len(all) = Len(guide)
      BY <1>6 DEF GoOn, Raise
    <2>6. ~churned => ToSet(all) \subseteq ToSet(guide)
      BY <1>1, <1>2, <2>1 DEF ListInv
    <2>7. ListInv'
      BY <1>6, <2>5, <2>6 DEF ListInv, provider
    <2>8. QED
      BY <1>4, <2>4, <2>7
  <1>7. QED
    BY <1>1, <1>5, <1>6, ReceiveEffect

\* A page of a guide that does not change is never refused, unless the category is not
\* there, and with the pages before it makes up the beginning of the guide.
LEMMA CalmPage ==
    ASSUME IInv, calm, GetPage
    PROVE  CalmInv'
  <1> DEFINE rows == PageOf(pageNo)
             all == stations \o rows
             upto == Reach(guide, PageSize, pageNo)
             before == (pageNo - 1) * PageSize
             asked == pageNo * PageSize
  <1>1. /\ state = "paging" /\ guide \in Seq(Stations) /\ IsInjective(guide)
        /\ pageNo \in 1 .. MaxPages
        /\ UNCHANGED <<guide, categories, calm>>
    BY DEF GetPage, IInv, TypeOK, provider
  <1>2. /\ stations = SubSeq(guide, 1, before)
        /\ pageNo = 1 => first = Nowhere
        /\ pageNo > 1 => first = ThisHeader /\ asked - PageSize < Len(guide)
    BY <1>1 DEF IInv, CalmInv, Accepted
  <1>3. /\ rows = PageIn(guide, PageSize, pageNo)
        /\ rows \in Seq(Stations) /\ rows \in Seq(Everyone)
    BY <1>1, GuidePage DEF Everyone
  <1>4. pageNo \in Nat \ {0} /\ PageSize \in Nat \ {0} /\ Len(guide) \in Nat
    BY <1>1, GuidePage
  <1>5. asked \in Nat
    <2>1. \A a, b \in Nat : a * b \in Nat
      OBVIOUS
    <2>2. QED
      BY <1>4, <2>1
  <1>6. before = asked - PageSize
    BY <1>4
  <1>7. pageNo = 1 => asked = PageSize
    BY <1>4
  <1>8. pageNo' = pageNo + 1 => (pageNo' - 1) * PageSize = asked
    <2>1. pageNo' = pageNo + 1 => pageNo' - 1 = pageNo
      BY <1>4
    <2>2. QED
      BY <2>1
  <1>9. pageNo' = pageNo + 1 => pageNo' * PageSize - PageSize = asked
    BY <1>4
  <1>10. pageNo = MaxPages => MaxPages * PageSize = asked
    OBVIOUS
  <1>11. rows = <<>> => asked - PageSize >= Len(guide)
    BY <1>1, <1>3, <1>4, Paged
  <1>12. /\ before <= Len(guide) =>
               /\ SubSeq(guide, 1, before) \o rows = SubSeq(guide, 1, upto)
               /\ Len(rows) <= Len(guide)
         /\ upto \in 0 .. Len(guide)
         /\ upto # Len(guide) => upto = asked /\ asked < Len(guide)
    BY <1>1, <1>3, <1>4, Paged
  <1> HIDE DEF rows, upto, before, asked
  <1>13. before <= Len(guide)
    BY <1>2, <1>4, <1>5, <1>6, <1>7
  <1>14. all = SubSeq(guide, 1, upto) /\ Len(rows) <= Len(guide)
    BY <1>2, <1>12, <1>13
  <1> HIDE DEF all
  <1>15. /\ all \in Seq(Stations) /\ Len(all) = upto /\ IsInjective(all)
         /\ upto = Len(guide) => all = guide
    BY <1>1, <1>12, <1>14, Beginning
  <1>16. ~PageImplausible(rows, Len(guide))
    <2>1. rows = <<>> => Len(guide) = 0
      BY <1>2, <1>4, <1>5, <1>7, <1>11
    <2>2. rows \in Seq(Stations) /\ Len(rows) \in Nat
      BY <1>3
    <2>3. QED
      BY <1>4, <1>14, <2>1, <2>2 DEF PageImplausible
  <1>17. first = Nowhere \/ first = ThisHeader
    BY <1>2, <1>4
  <1>18. ~HeaderChanged(ThisHeader)
    BY <1>17 DEF HeaderChanged
  <1>19. ~RowsInvalid(all, (IF first = Nowhere THEN ThisHeader ELSE first).total)
    <2>1. (IF first = Nowhere THEN ThisHeader ELSE first).total = Len(guide)
      BY <1>17 DEF ThisHeader
    <2>2. ~(Len(all) > Len(guide))
      BY <1>4, <1>12, <1>15
    <2>3. \A i \in DOMAIN all : all[i] \notin Outsiders
      BY <1>15, NoStationOutside
    <2>4. QED
      BY <1>15, <2>1, <2>2, <2>3 DEF RowsInvalid
  <1>20. CategoryMissing(ThisHeader) => categories = "unlisted"
    BY DEF CategoryMissing, ThisHeader
  <1>21. CASE state' = "raised" /\ UNCHANGED <<pageNo, first, stations>> /\ categories = "unlisted"
    BY <1>1, <1>21 DEF CalmInv
  <1>22. CASE first' = ThisHeader /\ stations' = all /\ GoOn(Len(guide), all)
    <2>1. ThisHeader' = ThisHeader
      BY <1>1 DEF ThisHeader
    <2>2. CASE Len(all) = Len(guide) /\ state' \in {"locating", "returned"}
      BY <1>1, <1>15, <1>22, <2>2 DEF CalmInv
    <2>3. CASE Len(all) # Len(guide) /\ pageNo' = pageNo + 1 /\ UNCHANGED state
      <3>1. upto = asked /\ asked < Len(guide)
        BY <1>12, <1>15, <2>3
      <3>2. stations' = Accepted(pageNo)'
        BY <1>1, <1>8, <1>14, <1>22, <2>3, <3>1 DEF Accepted
      <3>3. pageNo' # 1
        BY <1>4, <2>3
      <3>4. QED
        BY <1>1, <1>9, <1>22, <2>1, <2>3, <3>1, <3>2, <3>3 DEF CalmInv
    <2>4. CASE Len(all) # Len(guide) /\ pageNo = MaxPages /\ Raise
      <3>1. Len(guide) > MaxPages * PageSize
        BY <1>4, <1>5, <1>10, <1>12, <1>15, <2>4
      <3>2. QED
        BY <1>1, <2>4, <3>1 DEF CalmInv, Raise
    <2>5. QED
      BY <1>22, <2>2, <2>3, <2>4 DEF GoOn
  <1>23. QED
    <2>1. Receive(rows) /\ TypeOK
      BY DEF GetPage, IInv, rows
    <2>2. stations \o rows = all
      BY DEF all
    <2>3. QED
      BY <1>3, <1>16, <1>18, <1>19, <1>20, <1>21, <1>22, <2>1, <2>2, ReceiveEffect

LEMMA GetPageKeeps == IInv /\ GetPage => IInv'
  <1> SUFFICES ASSUME IInv, GetPage
               PROVE  IInv'
    OBVIOUS
  <1>1. /\ state = "paging" /\ Receive(PageOf(pageNo))
        /\ UNCHANGED <<provider, located, catalogue, places>>
        /\ calm' = calm /\ calm \in BOOLEAN
        /\ guide \in Seq(Stations) /\ pageNo \in 1 .. MaxPages
    BY DEF GetPage, IInv, TypeOK
  <1>2. /\ PageOf(pageNo) \in Seq(Everyone)
        /\ ToSet(PageOf(pageNo)) \subseteq ToSet(guide)
    BY <1>1, GuidePage DEF Everyone
  <1>3. TypeOK' /\ ListInv' /\ JoinInv'
    BY <1>1, <1>2, ReceiveKeeps
  <1>4. CalmInv'
    <2>1. CASE calm
      BY <2>1, CalmPage
    <2>2. CASE ~calm
      BY <1>1, <2>2 DEF CalmInv
    <2>3. QED
      BY <2>1, <2>2
  <1>5. QED
    BY <1>3, <1>4 DEF IInv

LEMMA GetWrongPageKeeps == IInv /\ GetWrongPage => IInv'
  <1> SUFFICES ASSUME IInv, GetWrongPage
               PROVE  IInv'
    OBVIOUS
  <1>1. PICK rows \in WrongPages(pageNo) : Receive(rows)
    BY DEF GetWrongPage
  <1>2. /\ state = "paging" /\ calm' = FALSE
        /\ UNCHANGED <<provider, located, catalogue, places>>
        /\ guide \in Seq(Stations) /\ pageNo \in 1 .. MaxPages
    BY DEF GetWrongPage, IInv, TypeOK
  <1>3. TypeOK' /\ ListInv' /\ JoinInv'
    BY <1>1, <1>2, WrongPage, ReceiveKeeps
  <1>4. QED
    BY <1>2, <1>3 DEF IInv, CalmInv

LEMMA GetStationsKeeps == IInv /\ GetStations => IInv'
  <1> SUFFICES ASSUME IInv, GetStations
               PROVE  IInv'
    OBVIOUS
  <1>1. PICK stns \in Catalogues :
            /\ catalogue' = stns
            /\ places' = [i \in DOMAIN stations |-> PlaceOf(stns, i)]
    BY DEF GetStations
  <1>2. /\ stns \subseteq Everyone
        /\ state = "locating" /\ state' = "returned"
        /\ UNCHANGED <<provider, calm, located, pageNo, first, stations>>
        /\ stations \in Seq(Everyone) /\ Len(stations) \in Nat
        /\ DOMAIN stations = 1 .. Len(stations)
    BY DEF GetStations, Catalogues, IInv, TypeOK
  <1>3. \A i \in DOMAIN stations : PlaceOf(stns, i) \in Everyone \cup {Nowhere}
    <2> TAKE i \in DOMAIN stations
    <2> DEFINE name == NameOf[stations[i]]
    <2>1. CASE Cardinality(Candidates(stns, name)) = 1
      <3>1. IsFiniteSet(Candidates(stns, name))
        BY <1>2, StationsFinite, FS_Subset DEF Candidates
      <3>2. PICK s : Candidates(stns, name) = {s}
        BY <2>1, <3>1, FS_Singleton
      <3>3. \E t \in stns : NameOf[t] = name
        BY <3>2 DEF Candidates
      <3>4. (CHOOSE t \in stns : NameOf[t] = name) \in stns
        BY <3>3
      <3>5. QED
        BY <1>2, <3>4 DEF PlaceOf
    <2>2. CASE Cardinality(Candidates(stns, name)) # 1
      BY <2>2 DEF PlaceOf
    <2>3. QED
      BY <2>1, <2>2
  <1>4. places' \in Seq(Everyone \cup {Nowhere})
    BY <1>1, <1>2, <1>3
  <1>5. TypeOK'
    BY <1>1, <1>2, <1>4 DEF IInv, TypeOK, provider
  <1>6. ListInv' /\ CalmInv'
    BY <1>2 DEF IInv, ListInv, CalmInv, provider
  <1>7. JoinInv'
    <2>1. \A i \in DOMAIN stations : PlaceOf(stns, i)' = PlaceOf(stns, i)
      BY <1>2 DEF PlaceOf, RowsNamed, Candidates
    <2>2. QED
      BY <1>1, <1>2 DEF JoinInv, PlaceOf, RowsNamed, Candidates
  <1>8. QED
    BY <1>5, <1>6, <1>7 DEF IInv

LEMMA StepIInv == IInv /\ [Next]_vars => IInv'
  <1> SUFFICES ASSUME IInv, [Next]_vars
               PROVE  IInv'
    OBVIOUS
  <1>1. CASE Edit
    BY <1>1, EditKeeps
  <1>2. CASE Start
    <2>1. TypeOK' /\ ListInv'
      BY <1>2 DEF Start, provider, IInv, TypeOK, ListInv
    <2>2. CalmInv'
      BY <1>2 DEF Start, provider, IInv, CalmInv, Accepted, ThisHeader
    <2>3. JoinInv'
      BY <1>2 DEF Start, JoinInv, Joined
    <2>4. QED
      BY <2>1, <2>2, <2>3 DEF IInv
  <1>3. CASE GetPage
    BY <1>3, GetPageKeeps
  <1>4. CASE GetWrongPage
    BY <1>4, GetWrongPageKeeps
  <1>5. CASE GetRaises
    BY <1>5 DEF GetRaises, Raise, provider, IInv, TypeOK, ListInv, CalmInv, JoinInv, Joined
  <1>6. CASE GetStations
    BY <1>6, GetStationsKeeps
  <1>7. CASE Cancel
    BY <1>7 DEF Cancel, provider, IInv, TypeOK, ListInv, CalmInv, JoinInv, Joined
  <1>8. CASE UNCHANGED vars
    <2>1. TypeOK' /\ ListInv'
      BY <1>8 DEF vars, provider, IInv, TypeOK, ListInv
    <2>2. CalmInv'
      BY <1>8 DEF vars, provider, IInv, CalmInv, Accepted, ThisHeader
    <2>3. JoinInv'
      BY <1>8 DEF vars, IInv, JoinInv, Joined, PlaceOf, RowsNamed
    <2>4. QED
      BY <2>1, <2>2, <2>3 DEF IInv
  <1>9. QED
    BY <1>1, <1>2, <1>3, <1>4, <1>5, <1>6, <1>7, <1>8 DEF Next

-----------------------------------------------------------------------------
(* A category: the join *)

\* What Candidates and RowsNamed count is finite, so that a count of one means one.
LEMMA OneOfAName ==
    ASSUME IInv, NEW name
    PROVE  /\ Cardinality(Candidates(catalogue, name)) = 1
                 <=> \E s : Candidates(catalogue, name) = {s}
           /\ Cardinality(RowsNamed(name)) = 1 <=> \E i : RowsNamed(name) = {i}
  <1>1. IsFiniteSet(Candidates(catalogue, name))
    BY StationsFinite, FS_Subset DEF Candidates, IInv, TypeOK
  <1>2. IsFiniteSet(RowsNamed(name))
    <2>1. Len(stations) \in Nat /\ DOMAIN stations = 1 .. Len(stations)
      BY DEF IInv, TypeOK
    <2>2. IsFiniteSet(1 .. Len(stations))
      BY <2>1, FS_Interval
    <2>3. QED
      BY <2>1, <2>2, FS_Subset DEF RowsNamed
  <1>3. QED
    BY <1>1, <1>2, FS_Singleton

\* A row that got coordinates is the only one of its name, and got those of the only
\* station of that name in the catalogue.
LEMMA PlaceFound ==
    ASSUME IInv, NEW i \in DOMAIN stations, PlaceOf(catalogue, i) # Nowhere
    PROVE  LET name == NameOf[stations[i]]
           IN  /\ Candidates(catalogue, name) = {PlaceOf(catalogue, i)}
               /\ RowsNamed(name) = {i}
  <1> DEFINE name == NameOf[stations[i]]
  <1>1. /\ Cardinality(Candidates(catalogue, name)) = 1
        /\ Cardinality(RowsNamed(name)) = 1
        /\ PlaceOf(catalogue, i) = CHOOSE s \in catalogue : NameOf[s] = name
    BY DEF PlaceOf
  <1>2. PICK s : Candidates(catalogue, name) = {s}
    BY <1>1, OneOfAName
  <1>3. PICK j : RowsNamed(name) = {j}
    BY <1>1, OneOfAName
  <1>4. i = j
    BY <1>3 DEF RowsNamed
  <1>5. \E t \in catalogue : NameOf[t] = name
    BY <1>2 DEF Candidates
  <1>6. PlaceOf(catalogue, i) \in Candidates(catalogue, name)
    BY <1>1, <1>5 DEF Candidates
  <1>7. QED
    BY <1>2, <1>3, <1>4, <1>6

\* Only one station of a name on both sides is found.
LEMMA PlaceKnown ==
    ASSUME IInv, NEW i \in DOMAIN stations, stations[i] \in catalogue,
           \A s \in (catalogue \cup ToSet(stations)) \ {stations[i]} :
               NameOf[s] # NameOf[stations[i]]
    PROVE  PlaceOf(catalogue, i) = stations[i]
  <1> DEFINE name == NameOf[stations[i]]
  <1>1. Candidates(catalogue, name) = {stations[i]}
    BY DEF Candidates
  <1>2. RowsNamed(name) = {i}
    <2>1. ASSUME NEW j \in DOMAIN stations, NameOf[stations[j]] = name
          PROVE  j = i
      <3>1. stations[j] = stations[i]
        BY <2>1 DEF ToSet
      <3>2. QED
        BY <3>1 DEF IInv, ListInv, IsInjective
    <2>2. QED
      BY <2>1 DEF RowsNamed
  <1>3. /\ Cardinality(Candidates(catalogue, name)) = 1
        /\ Cardinality(RowsNamed(name)) = 1
    BY <1>1, <1>2, OneOfAName
  <1>4. PlaceOf(catalogue, i) = CHOOSE s \in catalogue : NameOf[s] = name
    BY <1>3 DEF PlaceOf
  <1>5. \E s \in catalogue : NameOf[s] = name
    OBVIOUS
  <1>6. PlaceOf(catalogue, i) \in Candidates(catalogue, name)
    BY <1>4, <1>5 DEF Candidates
  <1>7. QED
    BY <1>1, <1>6

-----------------------------------------------------------------------------
(* A category: the theorems *)

\* What was strengthened until every step preserves it holds of every behaviour.
THEOREM Invariance == Spec => []IInv
  BY InitIInv, StepIInv, PTL DEF Spec

\* Every variable keeps its type; in particular no page is asked for beyond max_pages.
THEOREM TypeCorrect == Spec => []TypeOK
  <1>1. IInv => TypeOK
    BY DEF IInv
  <1>2. QED
    BY Invariance, <1>1, PTL

\* A list that was completed has no station twice and is as long as the guide,
\* whatever came or went between the pages.
THEOREM CompletedAsLong == Spec => []AsLongAsTheGuide
  <1>1. IInv => AsLongAsTheGuide
    BY DEF IInv, ListInv, AsLongAsTheGuide
  <1>2. QED
    BY Invariance, <1>1, PTL

\* It is the whole category, if no station came or went.
THEOREM CompletedWhole == Spec => []WholeIfNoneCameOrWent
  <1>1. IInv => WholeIfNoneCameOrWent
    <2> SUFFICES ASSUME IInv, state = "returned", ~churned
                 PROVE  ToSet(stations) = ToSet(guide)
      BY DEF WholeIfNoneCameOrWent
    <2>1. /\ stations \in Seq(Everyone) /\ guide \in Seq(Everyone)
          /\ IsInjective(stations) /\ IsInjective(guide)
          /\ ToSet(stations) \subseteq ToSet(guide)
          /\ Len(stations) = Len(guide)
      BY DEF IInv, TypeOK, ListInv, Everyone
    <2>2. QED
      BY <2>1, SameLengthSameSet
  <1>2. QED
    BY Invariance, <1>1, PTL

\* A guide that does not change and is answered in full is returned in its order, and
\* only refused if it is too long or the category is not there.
THEOREM CalmCompleted == Spec => []CalmKorailSuffices
  <1>1. IInv => CalmKorailSuffices
    BY DEF IInv, CalmInv, CalmKorailSuffices
  <1>2. QED
    BY Invariance, <1>1, PTL

\* No station has another's coordinates, if the catalogue knows it, none has those of
\* one among several namesakes, and no two have the same.
THEOREM JoinedRight == Spec => []RightCoordinates
  <1>1. IInv => RightCoordinates
    <2> SUFFICES ASSUME IInv, Joined
                 PROVE  /\ Len(places) = Len(stations)
                        /\ \A i \in DOMAIN places :
                              /\ stations[i] \in catalogue => places[i] \in {stations[i], Nowhere}
                              /\ places[i] # Nowhere =>
                                    {s \in catalogue : NameOf[s] = NameOf[stations[i]]} = {places[i]}
                        /\ \A i, j \in DOMAIN places :
                              i # j /\ places[i] # Nowhere => places[i] # places[j]
      BY DEF RightCoordinates
    <2>1. /\ DOMAIN stations = 1 .. Len(stations) /\ Len(stations) \in Nat
          /\ DOMAIN places = DOMAIN stations
          /\ \A i \in DOMAIN stations : places[i] = PlaceOf(catalogue, i)
      BY DEF IInv, TypeOK, JoinInv
    <2>2. Len(places) = Len(stations)
      BY <2>1 DEF IInv, TypeOK
    <2>3. ASSUME NEW i \in DOMAIN places, stations[i] \in catalogue, places[i] # Nowhere
          PROVE  places[i] = stations[i]
      <3>1. Candidates(catalogue, NameOf[stations[i]]) = {places[i]}
        BY <2>1, <2>3, PlaceFound
      <3>2. stations[i] \in Candidates(catalogue, NameOf[stations[i]])
        BY <2>3 DEF Candidates
      <3>3. QED
        BY <3>1, <3>2
    <2>4. ASSUME NEW i \in DOMAIN places, NEW j \in DOMAIN places,
                 places[i] # Nowhere, places[i] = places[j]
          PROVE  i = j
      <3>1. /\ Candidates(catalogue, NameOf[stations[i]]) = {places[i]}
            /\ RowsNamed(NameOf[stations[i]]) = {i}
        BY <2>1, <2>4, PlaceFound
      <3>2. /\ Candidates(catalogue, NameOf[stations[j]]) = {places[j]}
            /\ RowsNamed(NameOf[stations[j]]) = {j}
        BY <2>1, <2>4, PlaceFound
      <3>3. NameOf[stations[i]] = NameOf[stations[j]]
        BY <2>4, <3>1, <3>2 DEF Candidates
      <3>4. QED
        BY <3>1, <3>2, <3>3
    <2>5. ASSUME NEW i \in DOMAIN places, places[i] # Nowhere
          PROVE  {s \in catalogue : NameOf[s] = NameOf[stations[i]]} = {places[i]}
      BY <2>1, <2>5, PlaceFound DEF Candidates
    <2>6. QED
      BY <2>2, <2>3, <2>4, <2>5
  <1>2. QED
    BY Invariance, <1>1, PTL

\* None is missing without a reason.
THEOREM JoinedUnlessAmbiguous == Spec => []LocatedUnlessAmbiguous
  <1>1. IInv => LocatedUnlessAmbiguous
    <2> SUFFICES ASSUME IInv, Joined, NEW i \in DOMAIN places, stations[i] \in catalogue,
                        \A s \in (catalogue \cup ToSet(stations)) \ {stations[i]} :
                            NameOf[s] # NameOf[stations[i]]
                 PROVE  places[i] = stations[i]
      BY DEF LocatedUnlessAmbiguous
    <2>1. i \in DOMAIN stations /\ places[i] = PlaceOf(catalogue, i)
      BY DEF IInv, JoinInv
    <2>2. QED
      BY <2>1, PlaceKnown
  <1>2. QED
    BY Invariance, <1>1, PTL
=============================================================================
