-------------------------- MODULE KricAnswersProofs --------------------------
(***************************************************************************)
(* Proofs about KricAnswers for every set of rows, routes and sequence     *)
(* numbers, for arrays of every length and for every item.                 *)
(***************************************************************************)
EXTENDS KricAnswers, SequenceLemmas

-----------------------------------------------------------------------------
(* The order of a route *)

LEMMA FirstIs ==
    ASSUME NEW places \in SUBSET Nat, places # {}
    PROVE  FirstOf(places) \in places /\ \A m \in places : FirstOf(places) <= m
  BY Least DEF FirstOf

\* Every stop has a first one on its route; different routes have different ones.
LEMMA FirstStops ==
    ASSUME NEW rows \in Seq(Rows), NEW i \in DOMAIN rows
    PROVE  /\ FirstStop(rows, RouteOf[rows[i]]) \in DOMAIN rows
           /\ RouteOf[rows[FirstStop(rows, RouteOf[rows[i]])]] = RouteOf[rows[i]]
  <1> DEFINE stops == {k \in DOMAIN rows : RouteOf[rows[k]] = RouteOf[rows[i]]}
  <1>1. stops \in SUBSET Nat /\ stops # {}
    OBVIOUS
  <1>2. FirstOf(stops) \in stops
    BY <1>1, FirstIs
  <1>3. FirstStop(rows, RouteOf[rows[i]]) = FirstOf(stops)
    BY DEF FirstStop
  <1>4. QED
    BY <1>2, <1>3

\* Before is a strict order of the stops: of two, one is before the other.
LEMMA BeforeOrders ==
    ASSUME NEW rows \in Seq(Rows)
    PROVE  /\ \A i \in DOMAIN rows : ~Before(rows, i, i)
           /\ \A i, j, k \in DOMAIN rows :
                 Before(rows, i, j) /\ Before(rows, j, k) => Before(rows, i, k)
           /\ \A i, j \in DOMAIN rows : i # j => Before(rows, i, j) \/ Before(rows, j, i)
  <1> DEFINE first(i) == FirstStop(rows, RouteOf[rows[i]])
             number(i) == SequenceOf[rows[i]]
  <1>1. \A i \in DOMAIN rows : i \in Nat /\ first(i) \in Nat /\ number(i) \in Int
    <2>1. TAKE i \in DOMAIN rows
    <2>2. i \in Nat /\ rows[i] \in Rows /\ DOMAIN rows \subseteq Nat
      OBVIOUS
    <2>3. first(i) \in DOMAIN rows
      BY FirstStops
    <2>4. number(i) \in Int
      BY <2>2, RoutesAndSequences
    <2>5. QED
      BY <2>2, <2>3, <2>4
  <1>2. \A i, j : Before(rows, i, j) <=>
           \/ first(i) < first(j)
           \/ first(i) = first(j) /\ number(i) < number(j)
           \/ first(i) = first(j) /\ number(i) = number(j) /\ i < j
    BY DEF Before
  <1> HIDE DEF first, number
  <1>3. QED
    BY <1>1, <1>2

\* The rows of a route have an order, and it is the one RouteOrder gives them.
LEMMA RouteOrdered ==
    ASSUME NEW rows \in Seq(Rows)
    PROVE  \E from \in [DOMAIN rows -> DOMAIN rows] :
              /\ IsInjective(from)
              /\ RouteOrder(rows) = [k \in DOMAIN rows |-> rows[from[k]]]
              /\ \A i, j \in DOMAIN rows : i < j => Before(rows, from[i], from[j])
  <1> DEFINE n == Len(rows)
             R == {pair \in (1 .. n) \X (1 .. n) : Before(rows, pair[1], pair[2])}
             sorts(f) == \A i, j \in 1 .. n : i < j => Before(rows, f[i], f[j])
             order == CHOOSE f \in [1 .. n -> 1 .. n] : sorts(f)
  <1>1. n \in Nat /\ DOMAIN rows = 1 .. n
    OBVIOUS
  <1>2. \A i, j \in 1 .. n : <<i, j>> \in R <=> Before(rows, i, j)
    OBVIOUS
  <1> HIDE DEF n, R
  <1>3. /\ \A i \in 1 .. n : <<i, i>> \notin R
        /\ \A i, j, k \in 1 .. n : <<i, j>> \in R /\ <<j, k>> \in R => <<i, k>> \in R
        /\ \A i, j \in 1 .. n : i # j => <<i, j>> \in R \/ <<j, i>> \in R
    BY <1>1, <1>2, BeforeOrders
  <1>4. PICK f \in [1 .. n -> 1 .. n] : \A i, j \in 1 .. n : i < j => <<f[i], f[j]>> \in R
    BY <1>1, <1>3, Sorting
  <1>5. sorts(f)
    BY <1>2, <1>4
  <1>6. order \in [1 .. n -> 1 .. n] /\ sorts(order)
    BY <1>5
  <1>7. RouteOrder(rows) = [k \in DOMAIN rows |-> rows[order[k]]]
    BY <1>1 DEF RouteOrder
  <1> HIDE DEF order
  <1>8. IsInjective(order)
    <2>1. ASSUME NEW i \in 1 .. n, NEW j \in 1 .. n, order[i] = order[j]
          PROVE  ~(i < j)
      <3>1. order[i] \in DOMAIN rows /\ ~Before(rows, order[i], order[i])
        BY <1>1, <1>6, BeforeOrders
      <3>2. QED
        BY <1>6, <2>1, <3>1
    <2>2. DOMAIN order = 1 .. n
      BY <1>6
    <2>3. \A i, j \in 1 .. n : order[i] = order[j] => i = j
      BY <1>1, <2>1
    <2>4. QED
      BY <2>2, <2>3 DEF IsInjective
  <1>9. QED
    BY <1>1, <1>6, <1>7, <1>8

\* A route is the rows as they came, in another order.
LEMMA RouteKeepsRows ==
    ASSUME NEW rows \in Seq(Rows)
    PROVE  RouteOrder(rows) \in Seq(Rows) /\ ToBag(RouteOrder(rows)) = ToBag(rows)
  BY RouteOrdered, Rearranged

\* In that order the routes are in one piece and as they came, and so are the stops
\* of a route if their sequence numbers do not say otherwise.
LEMMA RouteInOrder ==
    ASSUME NEW rows \in Seq(Rows), NEW from \in [DOMAIN rows -> DOMAIN rows],
           \A i, j \in DOMAIN rows : i < j => Before(rows, from[i], from[j]),
           NEW i \in DOMAIN rows, NEW j \in DOMAIN rows, i < j
    PROVE  LET route(k) == RouteOf[rows[from[k]]]
               number(k) == SequenceOf[rows[from[k]]]
           IN  IF route(i) = route(j)
               THEN /\ \A k \in i .. j : route(k) = route(i)
                    /\ number(i) <= number(j)
                    /\ number(i) = number(j) => from[i] < from[j]
               ELSE FirstStop(rows, route(i)) < FirstStop(rows, route(j))
  <1> DEFINE route(k) == RouteOf[rows[from[k]]]
             number(k) == SequenceOf[rows[from[k]]]
             first(k) == FirstStop(rows, route(k))
  <1>1. DOMAIN rows = 1 .. Len(rows) /\ Len(rows) \in Nat
    OBVIOUS
  <1>2. \A k \in DOMAIN rows : from[k] \in DOMAIN rows /\ from[k] \in Nat /\ number(k) \in Int
    <2>1. TAKE k \in DOMAIN rows
    <2>2. from[k] \in DOMAIN rows
      OBVIOUS
    <2>3. rows[from[k]] \in Rows /\ from[k] \in Nat
      BY <2>2
    <2>4. QED
      BY <2>2, <2>3, RoutesAndSequences
  <1>3. \A k \in DOMAIN rows : first(k) \in Nat /\ RouteOf[rows[first(k)]] = route(k)
    <2>1. TAKE k \in DOMAIN rows
    <2>2. first(k) \in DOMAIN rows /\ RouteOf[rows[first(k)]] = route(k)
      BY <1>2, FirstStops
    <2>3. QED
      BY <1>1, <2>2
  <1>4. \A k, l \in DOMAIN rows : k < l =>
           \/ first(k) < first(l)
           \/ first(k) = first(l) /\ number(k) < number(l)
           \/ first(k) = first(l) /\ number(k) = number(l) /\ from[k] < from[l]
    BY DEF Before
  <1>5. \A k, l \in DOMAIN rows : first(k) = first(l) => route(k) = route(l)
    BY <1>3
  <1>6. \A k, l \in DOMAIN rows : route(k) = route(l) => first(k) = first(l)
    OBVIOUS
  <1> HIDE DEF first, route, number
  <1>7. CASE route(i) = route(j)
    <2>1. first(i) = first(j)
      BY <1>6, <1>7
    <2>2. number(i) <= number(j) /\ (number(i) = number(j) => from[i] < from[j])
      BY <1>2, <1>3, <1>4, <2>1
    <2>3. ASSUME NEW k \in i .. j
          PROVE  route(k) = route(i)
      <3>1. k \in DOMAIN rows /\ k \in Int /\ i <= k /\ k <= j
        BY <1>1
      <3>2. first(i) <= first(k) /\ first(k) <= first(j)
        BY <1>1, <1>3, <1>4, <3>1
      <3>3. first(k) = first(i)
        BY <1>3, <2>1, <3>1, <3>2
      <3>4. QED
        BY <1>5, <3>1, <3>3
    <2>4. QED
      BY <1>7, <2>2, <2>3 DEF route, number
  <1>8. CASE route(i) # route(j)
    <2>1. first(i) # first(j)
      BY <1>5, <1>8
    <2>2. first(i) < first(j)
      BY <1>4, <2>1
    <2>3. QED
      BY <1>8, <2>2 DEF first, route
  <1>9. QED
    BY <1>7, <1>8

-----------------------------------------------------------------------------
(* What comes of a payload *)

LEMMA EnvelopeErrors ==
    ASSUME NEW p \in Payloads
    PROVE  /\ EnvelopeError(p) \in ErrorKinds \cup {None}
           /\ p.kind = "array" /\ EnvelopeError(p) = None => p.header.code = "success"
  <1>1. p.header \in {None, Bad} \/ p.header.code \in Codes
    <2>1. p.header \in Headers \/ p.header \in {None, Bad} \cup [code : Codes, count : {None}]
      BY DEF Payloads, ArrayPayloads, ItemPayloads
    <2>2. QED
      BY <2>1 DEF Headers
  <1>2. \A code \in DOMAIN ErrorOf : ErrorOf[code] \in ErrorKinds
    BY DEF ErrorOf, ErrorKinds
  <1>3. EnvelopeError(p) \in ErrorKinds \cup {None}
    BY <1>2 DEF EnvelopeError, ErrorKinds
  <1>4. ASSUME p.kind = "array", EnvelopeError(p) = None
        PROVE  p.header.code = "success"
    <2>1. p.header # Bad /\ HasCode(p.header)
      <3>1. "server" # None
        BY NoneIsNoError
      <3>2. p.header # Bad
        BY <1>4, <3>1 DEF EnvelopeError, HasCode
      <3>3. ~HasCode(p.header) => EnvelopeError(p) = "server"
        BY <1>4, <3>2 DEF EnvelopeError
      <3>4. QED
        BY <1>4, <3>1, <3>2, <3>3
    <2>2. p.header.code \notin DOMAIN ErrorOf
      <3>1. p.header.code \in DOMAIN ErrorOf => ErrorOf[p.header.code] # None
        BY <1>2, NoneIsNoError DEF ErrorKinds
      <3>2. QED
        BY <1>4, <2>1, <3>1 DEF EnvelopeError
    <2>3. p.header.code \in Codes \ ({None, Bad} \cup Errors)
      BY <1>1, <2>1, <2>2 DEF HasCode, ErrorOf
    <2>4. QED
      BY <2>3 DEF Codes, Errors
  <1>5. QED
    BY <1>3, <1>4

\* Rows come out of an answer as one whole list that KRIC sent, or not at all.
LEMMA ParsedRows ==
    ASSUME NEW p \in Payloads, ParseMany(p) # Bad
    PROVE  /\ ParseMany(p) \in ListsIn(p) \ {Bad}
           /\ ParseMany(p) \in Seq(Rows)
           /\ p.kind = "array" => p.header.count \notin {Bad, "wrong"}
  <1> DEFINE list == ParseMany(p)
  <1>1. list = ExtractItems(p) /\ list # Bad /\ ~Contains(list, "incomplete")
    BY DEF ParseMany
  <1> HIDE DEF list
  <1>2. CASE p \in ArrayPayloads
    <2>1. p.kind = "array" /\ p.body \in Arrays
      BY <1>2 DEF ArrayPayloads
    <2>2. /\ list = p.body /\ ~Contains(list, "noObject")
          /\ p.header.count \notin {Bad, "wrong"}
      BY <1>1, <2>1 DEF ExtractItems
    <2>3. list \in Seq(Rows \cup {"incomplete", "noObject"})
      BY <2>1, <2>2, ArraysOfRows
    <2>4. list \in Seq(Rows)
      BY <1>1, <2>2, <2>3 DEF Contains
    <2>5. list \in ListsIn(p)
      BY <2>1, <2>2 DEF ListsIn
    <2>6. QED
      BY <1>1, <2>2, <2>4, <2>5 DEF list
  <1>3. CASE p \in ItemPayloads
    <2>1. p.kind = "items"
      BY <1>3 DEF ItemPayloads
    <2>2. PICK at \in SUBSET DOMAIN Places : p.item \in [at -> Items]
      BY <1>3 DEF ItemPayloads
    <2>3. at \subseteq Nat
      <3>1. DOMAIN Places = 1 .. 8
        BY DEF Places
      <3>2. QED
        BY <2>2, <3>1
    <2>4. UsableItems(p) # {} /\ list = p.item[FirstOf(UsableItems(p))]
      BY <1>1, <2>1 DEF ExtractItems
    <2>5. UsableItems(p) \in SUBSET at
      BY <2>2 DEF UsableItems
    <2>6. FirstOf(UsableItems(p)) \in UsableItems(p)
      BY <2>3, <2>4, <2>5, FirstIs
    <2>7. list \in Items \ {Bad} /\ list \in ListsIn(p)
      BY <1>1, <2>1, <2>2, <2>4, <2>5, <2>6 DEF ListsIn, UsableItems
    <2>8. list \in Seq(Rows \cup {"incomplete"})
      BY <2>7, ItemsOfRows
    <2>9. list \in Seq(Rows)
      BY <1>1, <2>8 DEF Contains
    <2>10. QED
      BY <2>1, <2>7, <2>9 DEF list
  <1>4. QED
    BY <1>2, <1>3 DEF Payloads

\* The result is an error, or these rows.
LEMMA ResultRows ==
    ASSUME NEW p \in Payloads, operation \in {"route", "other"}
    PROVE  \/ \E kind \in ErrorKinds : Result(p) = Error(kind)
           \/ /\ EnvelopeError(p) = None /\ ParseMany(p) # Bad
              /\ operation = "route" => Result(p) = Success(RouteOrder(ParseMany(p)))
              /\ operation = "other" => Result(p) = Success(ParseMany(p))
  <1>1. CASE EnvelopeError(p) # None
    <2>1. EnvelopeError(p) \in ErrorKinds
      BY <1>1, EnvelopeErrors
    <2>2. QED
      BY <1>1, <2>1 DEF Result
  <1>2. CASE EnvelopeError(p) = None /\ ParseMany(p) = Bad
    BY <1>2 DEF Result, ErrorKinds
  <1>3. CASE EnvelopeError(p) = None /\ ParseMany(p) # Bad
    BY <1>3 DEF Result
  <1>4. QED
    BY <1>1, <1>2, <1>3

-----------------------------------------------------------------------------
(* The inductive invariant: an outcome is an error or what comes of the payload. *)

IInv ==
    /\ operation \in {"route", "other"}
    /\ payload \in Payloads \cup {None}
    /\ \/ outcome = None
       \/ \E kind \in ErrorKinds : outcome = Error(kind)
       \/ payload \in Payloads /\ outcome = Result(payload)

LEMMA Invariance == Spec => []IInv
  <1>1. Init => IInv
    BY DEF Init, IInv
  <1>2. IInv /\ [Next]_vars => IInv'
    <2> SUFFICES ASSUME IInv, [Next]_vars
                 PROVE  IInv'
      OBVIOUS
    <2>1. CASE RequestFails
      BY <2>1 DEF RequestFails, IInv
    <2>2. ASSUME NEW p \in Payloads, payload' = p, outcome' = Result(p), UNCHANGED operation
          PROVE  IInv'
      <3>1. Result(payload)' = Result(p)
        BY <2>2 DEF Result
      <3>2. QED
        BY <2>2, <3>1 DEF IInv
    <2>3. CASE Answer \/ AnswerWithItems
      BY <2>2, <2>3 DEF Answer, AnswerWithItems, Payloads
    <2>4. CASE UNCHANGED vars
      <3>1. Result(payload)' = Result(payload)
        BY <2>4 DEF vars, Result
      <3>2. QED
        BY <2>4, <3>1 DEF vars, IInv
    <2>5. QED
      BY <2>1, <2>3, <2>4 DEF Next
  <1>3. QED
    BY <1>1, <1>2, PTL DEF Spec

\* What is returned is a list that was sent, in order for a route.
LEMMA WhatIsReturned ==
    ASSUME IInv, Returned
    PROVE  LET list == ParseMany(payload)
           IN  /\ payload \in Payloads /\ EnvelopeError(payload) = None /\ list # Bad
               /\ operation = "route" => outcome = Success(RouteOrder(list))
               /\ operation = "other" => outcome = Success(list)
  <1>1. \A kind \in ErrorKinds : outcome # Error(kind)
    BY NoneIsNoError DEF Returned, Error, ErrorKinds
  <1>2. payload \in Payloads /\ outcome = Result(payload)
    BY <1>1 DEF IInv, Returned
  <1>3. QED
    BY <1>1, <1>2, ResultRows DEF IInv

-----------------------------------------------------------------------------
(* The properties *)

\* The outcome is nothing yet, an error of one of the kinds, or complete rows.
THEOREM TypeCorrect == Spec => []TypeOK
  <1>1. ASSUME IInv, outcome # None
        PROVE  outcome.error \in ErrorKinds \cup {None} /\ outcome.rows \in Seq(Rows)
    <2>1. CASE \E kind \in ErrorKinds : outcome = Error(kind)
      BY <2>1 DEF Error
    <2>2. CASE payload \in Payloads /\ outcome = Result(payload)
      <3>1. CASE \E kind \in ErrorKinds : Result(payload) = Error(kind)
        BY <2>2, <3>1, <2>1
      <3>2. CASE /\ EnvelopeError(payload) = None /\ ParseMany(payload) # Bad
                 /\ operation = "route" =>
                       Result(payload) = Success(RouteOrder(ParseMany(payload)))
                 /\ operation = "other" => Result(payload) = Success(ParseMany(payload))
        <4>1. ParseMany(payload) \in Seq(Rows)
          BY <2>2, <3>2, ParsedRows
        <4>2. RouteOrder(ParseMany(payload)) \in Seq(Rows)
          BY <4>1, RouteKeepsRows
        <4>3. operation = "route" \/ operation = "other"
          BY <1>1 DEF IInv
        <4>4. QED
          BY <2>2, <3>2, <4>1, <4>2, <4>3 DEF Success
      <3>3. QED
        BY <1>1, <2>2, <3>1, <3>2, ResultRows DEF IInv
    <2>3. QED
      BY <1>1, <2>1, <2>2 DEF IInv
  <1>2. IInv => TypeOK
    BY <1>1 DEF IInv, TypeOK
  <1>3. QED
    BY <1>2, Invariance, PTL

\* What is returned is all of one list KRIC sent, as often as it sent each row, out of
\* an answer that announced it and did not report an error.
THEOREM ReturnedAsSent == Spec => []RowsAsSent
  <1>1. ASSUME IInv, Returned
        PROVE  /\ \E list \in ListsIn(payload) \ {Bad} :
                     IF operation = "route"
                     THEN ToBag(outcome.rows) = ToBag(list) ELSE outcome.rows = list
               /\ payload.kind = "array" =>
                     payload.header.code = "success" /\ payload.header.count \in {None, "right"}
    <2> DEFINE list == ParseMany(payload)
    <2>1. /\ payload \in Payloads /\ EnvelopeError(payload) = None /\ list # Bad
          /\ operation = "route" => outcome = Success(RouteOrder(list))
          /\ operation = "other" => outcome = Success(list)
          /\ operation \in {"route", "other"}
      BY <1>1, WhatIsReturned DEF IInv
    <2>2. /\ list \in ListsIn(payload) \ {Bad} /\ list \in Seq(Rows)
          /\ payload.kind = "array" => payload.header.count \notin {Bad, "wrong"}
      BY <2>1, ParsedRows
    <2>3. ASSUME payload.kind = "array"
          PROVE  payload.header.code = "success" /\ payload.header.count \in {None, "right"}
      <3>1. payload.header.code = "success"
        BY <2>1, <2>3, EnvelopeErrors
      <3>2. payload \in ArrayPayloads
        BY <2>1, <2>3 DEF Payloads, ItemPayloads
      <3>3. payload.header # Bad /\ payload.header # None
        BY <2>1, <2>3, NoneIsNoError DEF EnvelopeError, HasCode
      <3>4. payload.header.count \in Counts
        BY <3>2, <3>3 DEF ArrayPayloads, Headers
      <3>5. QED
        BY <2>2, <2>3, <3>1, <3>4 DEF Counts
    <2> HIDE DEF list
    <2>4. IF operation = "route" THEN ToBag(outcome.rows) = ToBag(list) ELSE outcome.rows = list
      <3>1. ToBag(RouteOrder(list)) = ToBag(list)
        BY <2>2, RouteKeepsRows
      <3>2. QED
        BY <2>1, <3>1 DEF Success
    <2>5. QED
      BY <2>2, <2>3, <2>4
  <1>2. IInv => RowsAsSent
    BY <1>1 DEF RowsAsSent
  <1>3. QED
    BY <1>2, Invariance, PTL

\* No stop of a route is lost; its routes are in one piece and in the order in which
\* they came, its stops by their sequence, and as they came where that is the same.
THEOREM RoutesOrdered == Spec => []RoutesInOrder
  <1>1. ASSUME IInv, Returned, operation = "route"
        PROVE  \E sent \in ListsIn(payload) \ {Bad} :
                  \E from \in {f \in [DOMAIN sent -> DOMAIN sent] : IsInjective(f)} :
                     /\ outcome.rows = [k \in DOMAIN sent |-> sent[from[k]]]
                     /\ \A i, j \in DOMAIN sent : i < j =>
                           LET route(k) == RouteOf[outcome.rows[k]]
                               number(k) == SequenceOf[outcome.rows[k]]
                           IN  IF route(i) = route(j)
                               THEN /\ \A k \in i .. j : route(k) = route(i)
                                    /\ number(i) <= number(j)
                                    /\ number(i) = number(j) => from[i] < from[j]
                               ELSE FirstStop(sent, route(i)) < FirstStop(sent, route(j))
    <2> DEFINE sent == ParseMany(payload)
    <2>1. payload \in Payloads /\ sent # Bad /\ outcome = Success(RouteOrder(sent))
      BY <1>1, WhatIsReturned
    <2>2. sent \in ListsIn(payload) \ {Bad} /\ sent \in Seq(Rows)
      BY <2>1, ParsedRows
    <2> HIDE DEF sent
    <2>3. PICK from \in [DOMAIN sent -> DOMAIN sent] :
              /\ IsInjective(from)
              /\ RouteOrder(sent) = [k \in DOMAIN sent |-> sent[from[k]]]
              /\ \A i, j \in DOMAIN sent : i < j => Before(sent, from[i], from[j])
      BY <2>2, RouteOrdered
    <2>4. outcome.rows = [k \in DOMAIN sent |-> sent[from[k]]]
      BY <2>1, <2>3 DEF Success
    <2>5. \A k \in DOMAIN sent : outcome.rows[k] = sent[from[k]]
      BY <2>4
    <2>6. DOMAIN sent = 1 .. Len(sent) /\ Len(sent) \in Nat
      BY <2>2
    <2>7. ASSUME NEW i \in DOMAIN sent, NEW j \in DOMAIN sent, i < j
          PROVE  LET route(k) == RouteOf[outcome.rows[k]]
                     number(k) == SequenceOf[outcome.rows[k]]
                 IN  IF route(i) = route(j)
                     THEN /\ \A k \in i .. j : route(k) = route(i)
                          /\ number(i) <= number(j)
                          /\ number(i) = number(j) => from[i] < from[j]
                     ELSE FirstStop(sent, route(i)) < FirstStop(sent, route(j))
      <3>1. LET route(k) == RouteOf[sent[from[k]]]
                number(k) == SequenceOf[sent[from[k]]]
            IN  IF route(i) = route(j)
                THEN /\ \A k \in i .. j : route(k) = route(i)
                     /\ number(i) <= number(j)
                     /\ number(i) = number(j) => from[i] < from[j]
                ELSE FirstStop(sent, route(i)) < FirstStop(sent, route(j))
        BY <2>2, <2>3, <2>7, RouteInOrder
      <3>2. i .. j \subseteq DOMAIN sent
        BY <2>6
      <3>3. \A k \in i .. j : outcome.rows[k] = sent[from[k]]
        BY <2>5, <3>2
      <3>4. outcome.rows[i] = sent[from[i]] /\ outcome.rows[j] = sent[from[j]]
        BY <2>5
      <3>5. QED
        BY <3>1, <3>3, <3>4
    <2>8. QED
      BY <2>2, <2>3, <2>4, <2>7
  <1>2. IInv => RoutesInOrder
    BY <1>1 DEF RoutesInOrder
  <1>3. QED
    BY <1>2, Invariance, PTL
=============================================================================
