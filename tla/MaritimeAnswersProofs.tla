------------------------ MODULE MaritimeAnswersProofs ------------------------
(***************************************************************************)
(* Proofs about MaritimeAnswers for every set of rows, lists of rows of    *)
(* every length and every total.                                           *)
(***************************************************************************)
EXTENDS MaritimeAnswers, TLAPS

-----------------------------------------------------------------------------
(* What comes of a payload *)

LEMMA ErrorsOf == \A code \in Refusals : ErrorOf[code] \in ErrorKinds
  BY DEF ErrorOf, Refusals, ErrorKinds

LEMMA EnvelopeErrors ==
    ASSUME NEW p \in Payloads
    PROVE  EnvelopeError(p) \in ErrorKinds \cup {None}
  BY ErrorsOf DEF EnvelopeError, ErrorKinds

\* No error is overlooked: the header that is read refuses nothing, and port calls
\* that are not NOT FOUND DATA come with an explicit 200.
LEMMA NoEnvelopeError ==
    ASSUME NEW p \in Payloads, EnvelopeError(p) = None
    PROVE  /\ FirstHeader(p) \notin Refusals
           /\ operation = "portCalls" /\ FirstHeader(p) # NotFound => p.header = "200"
  <1>1. None # "server" /\ \A code \in Refusals : ErrorOf[code] # None
    BY ErrorsOf, NoneIsNoError DEF ErrorKinds
  <1>2. ~(operation = "portCalls" /\ StatusUnsaid(p))
    BY <1>1 DEF EnvelopeError
  <1>3. FirstHeader(p) \notin Refusals
    BY <1>1, <1>2 DEF EnvelopeError
  <1>4. QED
    BY <1>1, <1>2, <1>3 DEF EnvelopeError

\* Items that are valid are rows, all of them complete, or they are none and a count
\* says so.
LEMMA ValidItems ==
    ASSUME NEW body \in Bodies, ItemsValid(body)
    PROVE  /\ RowsOf(body) \in Seq(Rows)
           /\ RowsOf(body) = <<>> => EmptyIsValid(body)
  <1>1. CASE body.items = Empty
    BY <1>1 DEF ItemsValid, RowsOf
  <1>2. CASE body.items # Empty
    <2>1. body.items # Bad /\ Complete(body.items)
      BY <1>2 DEF ItemsValid
    <2>2. body.items \in Seq(Rows \cup {"incomplete"}) /\ body.items # <<>>
      BY <1>2, <2>1, ListsOfRows DEF Bodies
    <2>3. \A i \in 1 .. Len(body.items) : body.items[i] # "incomplete"
      BY <2>1 DEF Complete, Contains
    <2>4. body.items \in Seq(Rows)
      BY <2>2, <2>3
    <2>5. QED
      BY <1>2, <2>2, <2>4 DEF RowsOf
  <1>3. QED
    BY <1>1, <1>2

LEMMA TotalIsNumber == \A p : TotalOf(p) \in Nat \cup {None}
  BY DEF TotalOf

\* What comes of a payload depends on the operation and on nothing else.
LEMMA SameResult ==
    ASSUME UNCHANGED operation, NEW p
    PROVE  Result(p)' = Result(p)
  <1>1. EnvelopeError(p)' = EnvelopeError(p)
    BY DEF EnvelopeError
  <1>2. ItemsValid(p.body)' = ItemsValid(p.body)
    <2>1. EmptyIsValid(p.body)' = EmptyIsValid(p.body)
      BY DEF EmptyIsValid
    <2>2. QED
      BY <2>1 DEF ItemsValid
  <1>3. TotalValid(p)' = TotalValid(p) /\ TotalOf(p)' = TotalOf(p)
    BY DEF TotalValid, TotalOf, Unpaged
  <1>4. Incomplete(p)' = Incomplete(p) /\ NothingFound' = NothingFound
    BY DEF Incomplete, NothingFound
  <1>5. QED
    BY <1>1, <1>2, <1>3, <1>4 DEF Result

\* The result is an error, an empty list for NOT FOUND DATA, or rows.
LEMMA ResultIs ==
    ASSUME NEW p \in Payloads
    PROVE  \/ \E kind \in ErrorKinds : Result(p) = Error(kind)
           \/ /\ EnvelopeError(p) = None
              /\ \/ FirstHeader(p) = NotFound /\ Result(p) = NothingFound
                 \/ /\ FirstHeader(p) # NotFound
                    /\ p.body \in Bodies
                    /\ ItemsValid(p.body) /\ TotalValid(p) /\ ~Incomplete(p)
                    /\ Result(p) = Success(RowsOf(p.body), TotalOf(p))
  <1>1. CASE EnvelopeError(p) # None
    <2>1. EnvelopeError(p) \in ErrorKinds
      BY <1>1, EnvelopeErrors
    <2>2. QED
      BY <1>1, <2>1 DEF Result
  <1>2. CASE EnvelopeError(p) = None /\ FirstHeader(p) = NotFound
    BY <1>2 DEF Result
  <1>3. CASE EnvelopeError(p) = None /\ FirstHeader(p) # NotFound
    <2>1. "server" \in ErrorKinds
      BY DEF ErrorKinds
    <2>2. CASE p.body = Bad \/ ~ItemsValid(p.body) \/ ~TotalValid(p) \/ Incomplete(p)
      BY <1>3, <2>1, <2>2 DEF Result
    <2>3. CASE ~(p.body = Bad \/ ~ItemsValid(p.body) \/ ~TotalValid(p) \/ Incomplete(p))
      BY <1>3, <2>3 DEF Result, Payloads
    <2>4. QED
      BY <2>2, <2>3
  <1>4. QED
    BY <1>1, <1>2, <1>3

-----------------------------------------------------------------------------
(* The inductive invariant: an outcome is an error or what comes of the payload. *)

IInv ==
    /\ operation \in Operations
    /\ payload \in Payloads \cup {None}
    /\ \/ outcome = None
       \/ \E kind \in ErrorKinds : outcome = Error(kind)
       \/ payload \in Payloads /\ outcome = Result(payload)

\* What was strengthened until every step preserves it holds of every behaviour.
THEOREM Invariance == Spec => []IInv
  <1>1. Init => IInv
    BY DEF Init, IInv
  <1>2. IInv /\ [Next]_vars => IInv'
    <2> SUFFICES ASSUME IInv, [Next]_vars
                 PROVE  IInv'
      OBVIOUS
    <2>1. CASE RequestFails
      BY <2>1 DEF RequestFails, IInv, ErrorKinds
    <2>2. CASE Answer
      <3>1. PICK p \in Payloads :
               payload' = p /\ outcome' = Result(payload') /\ UNCHANGED operation
        BY <2>2 DEF Answer
      <3>2. outcome' = Result(p)
        BY <3>1
      <3>3. Result(payload)' = Result(p)
        BY <3>1, SameResult
      <3>4. QED
        BY <3>1, <3>2, <3>3 DEF IInv
    <2>3. CASE UNCHANGED vars
      <3>1. Result(payload)' = Result(payload)
        BY <2>3, SameResult DEF vars
      <3>2. QED
        BY <2>3, <3>1 DEF vars, IInv
    <2>4. QED
      BY <2>1, <2>2, <2>3 DEF Next
  <1>3. QED
    BY <1>1, <1>2, PTL DEF Spec

\* What is returned is the list of a payload without an error.
LEMMA WhatIsReturned ==
    ASSUME IInv, Returned
    PROVE  /\ payload \in Payloads /\ EnvelopeError(payload) = None
           /\ \/ FirstHeader(payload) = NotFound /\ outcome = NothingFound
              \/ /\ FirstHeader(payload) # NotFound
                 /\ payload.body \in Bodies
                 /\ ItemsValid(payload.body) /\ TotalValid(payload) /\ ~Incomplete(payload)
                 /\ outcome = Success(RowsOf(payload.body), TotalOf(payload))
  <1>1. \A kind \in ErrorKinds : outcome # Error(kind)
    BY NoneIsNoError DEF Returned, Error, ErrorKinds
  <1>2. payload \in Payloads /\ outcome = Result(payload)
    BY <1>1 DEF IInv, Returned
  <1>3. QED
    BY <1>1, <1>2, ResultIs

-----------------------------------------------------------------------------
(* The theorems *)

\* The outcome is nothing yet, an error of one of the kinds, or complete rows with a
\* total that is a number or absent.
THEOREM TypeCorrect == Spec => []TypeOK
  <1>1. ASSUME IInv, outcome # None
        PROVE  /\ outcome.error \in ErrorKinds \cup {None}
               /\ outcome.rows \in Seq(Rows)
               /\ outcome.total \in Nat \cup {None}
    <2>1. CASE \E kind \in ErrorKinds : outcome = Error(kind)
      BY <2>1 DEF Error
    <2>2. CASE ~\E kind \in ErrorKinds : outcome = Error(kind)
      <3>1. payload \in Payloads /\ outcome = Result(payload)
        BY <1>1, <2>2 DEF IInv
      <3>2. CASE outcome = NothingFound
        BY <3>2 DEF NothingFound, Success
      <3>3. CASE /\ payload.body \in Bodies /\ ItemsValid(payload.body)
                 /\ outcome = Success(RowsOf(payload.body), TotalOf(payload))
        BY <3>3, ValidItems, TotalIsNumber DEF Success
      <3>4. QED
        BY <2>2, <3>1, <3>2, <3>3, ResultIs
    <2>3. QED
      BY <2>1, <2>2
  <1>2. IInv => TypeOK
    BY <1>1 DEF IInv, TypeOK
  <1>3. QED
    BY <1>2, Invariance, PTL

\* An empty list that is returned was said to be empty, by NOT FOUND DATA or by a
\* count that allows it, and no header that is read reported an error.
THEOREM EmptyWasSaid == Spec => []EmptyIsExplicit
  <1>1. ASSUME IInv, Said, outcome.rows = <<>>
        PROVE  /\ payload.body.total \in Int
               /\ CASE operation = "query" -> payload.body.total <= 0
                    [] operation = "portCalls" -> payload.body.total = 0
                    [] OTHER -> payload.body.total >= 0
               /\ FirstHeader(payload) \notin Refusals
    <2>1. /\ payload \in Payloads /\ EnvelopeError(payload) = None
          /\ payload.body \in Bodies /\ ItemsValid(payload.body)
          /\ TotalValid(payload) /\ ~Incomplete(payload)
          /\ outcome = Success(RowsOf(payload.body), TotalOf(payload))
      BY <1>1, WhatIsReturned DEF Said
    <2>2. RowsOf(payload.body) = <<>>
      BY <1>1, <2>1 DEF Success
    <2>3. EmptyIsValid(payload.body)
      BY <2>1, <2>2, ValidItems
    <2>4. payload.body.total \in Int /\ (operation = "query" => payload.body.total <= 0)
      BY <2>3 DEF EmptyIsValid
    <2>5. operation = "portCalls" => payload.body.total = 0
      BY <2>1, <2>2 DEF Incomplete
    <2>6. operation \notin {"query", "portCalls"} => payload.body.total >= 0
      <3>1. payload.body.total # None
        BY <2>4, NoneIsNoNumber
      <3>2. QED
        BY <2>1, <2>4, <3>1 DEF TotalValid, Unpaged
    <2>7. FirstHeader(payload) \notin Refusals
      BY <2>1, NoEnvelopeError
    <2>8. QED
      BY <2>4, <2>5, <2>6, <2>7
  <1>2. IInv => EmptyIsExplicit
    BY <1>1 DEF EmptyIsExplicit
  <1>3. QED
    BY <1>2, Invariance, PTL

\* Port calls are returned with an explicit 200 and as many rows as were counted.
THEOREM PortCallsComplete == Spec => []PortCallsExact
  <1>1. ASSUME IInv, Said, operation = "portCalls"
        PROVE  payload.header = "200" /\ payload.body.total = Len(outcome.rows)
    <2>1. /\ payload \in Payloads /\ EnvelopeError(payload) = None
          /\ FirstHeader(payload) # NotFound /\ ~Incomplete(payload)
          /\ outcome = Success(RowsOf(payload.body), TotalOf(payload))
      BY <1>1, WhatIsReturned DEF Said
    <2>2. payload.header = "200"
      BY <1>1, <2>1, NoEnvelopeError
    <2>3. outcome.rows = RowsOf(payload.body)
      BY <2>1 DEF Success
    <2>4. QED
      BY <1>1, <2>1, <2>2, <2>3 DEF Incomplete
  <1>2. IInv => PortCallsExact
    BY <1>1 DEF PortCallsExact
  <1>3. QED
    BY <1>2, Invariance, PTL
=============================================================================
