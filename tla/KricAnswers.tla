----------------------------- MODULE KricAnswers -----------------------------
(***************************************************************************)
(* One query of KricClient (src/kric/client.py, src/kric/parse.py): the    *)
(* request, what the client makes of the answer's status and envelope, and *)
(* the order in which get_subway_route_info returns the stops.             *)
(*                                                                         *)
(* A JSON answer is abstracted to what the client looks at: the header of  *)
(* the payload, the header in its "response" (at which the client does not *)
(* look), and where there are rows: an array under "body", or an "item" in *)
(* any of the objects that may be nested as response, body and items.      *)
(***************************************************************************)
EXTENDS Integers, FiniteSets, Sequences, SequencesExt

CONSTANTS
    Rows,                  \* rows with every required field
    RouteOf, SequenceOf,   \* their routCd and stinConsOrdr
    Arrays,                \* arrays KRIC may send under "body"
    Items,                 \* values it may send as "item", lists of rows or Bad
    Bad,                   \* a value of a shape or content that is refused
    None                   \* no such field; or nothing yet

ASSUME RoutesAndSequences == SequenceOf \in [Rows -> Int] /\ DOMAIN RouteOf = Rows
ASSUME ArraysOfRows == Arrays \subseteq Seq(Rows \cup {"incomplete", "noObject"})
ASSUME ItemsOfRows == \A s \in Items \ {Bad} : s \in Seq(Rows \cup {"incomplete"})
ASSUME NoneIsNoError == None \notin {"auth", "rate", "server", "network"}

VARIABLES
    operation,             \* a query for a route, or one of the others
    payload,               \* the JSON object that came, if one did
    outcome                \* what the caller gets: rows or an error

vars == <<operation, payload, outcome>>

-----------------------------------------------------------------------------
(* Payloads *)

Codes == {None, Bad, "success", "denied", "limited", "failed"}
Errors == {"denied", "limited", "failed"}

\* resultCnt, as far as it agrees with the length of the array.
Counts == {None, Bad, "right", "wrong"}

Headers == {None, Bad} \cup [code : Codes, count : Counts]

\* The objects that may hold an item, in the order they are searched: each of
\* the three keys is followed from every object found before.
Places == <<"payload", "response", "body", "response.body",
            "items", "response.items", "body.items", "response.body.items">>
WithinResponse == {2, 4, 6, 8}

\* Newer answers have an array under "body". The others hold items in some of the
\* places, here at most two.
ArrayPayloads == [kind : {"array"}, header : Headers, body : Arrays]
ItemPayloads ==
    [kind : {"items"},
     header : {None, Bad} \cup [code : Codes, count : {None}],
     inner : {None, "success"} \cup Errors,
     item : UNION {[at -> Items] : at \in {s \in SUBSET DOMAIN Places : Cardinality(s) <= 2}}]
Payloads == ArrayPayloads \cup ItemPayloads

ErrorKinds == {"auth", "rate", "server", "network"}
Error(kind) == [error |-> kind, rows |-> <<>>]
Success(rows) == [error |-> None, rows |-> rows]

Returned == outcome # None /\ outcome.error = None

TypeOK ==
    /\ operation \in {"route", "other"}
    /\ payload \in Payloads \cup {None}
    /\ outcome # None =>
          outcome.error \in ErrorKinds \cup {None} /\ outcome.rows \in Seq(Rows)

Init ==
    /\ operation \in {"route", "other"}
    /\ payload = None
    /\ outcome = None

-----------------------------------------------------------------------------
(* What the client makes of a payload *)

HasCode(header) == header \notin {None, Bad} /\ header.code # None

\* resultMsg tells a refused key and a spent quota from other failures.
ErrorOf ==
    [code \in Errors \cup {Bad} |->
        IF code = "denied" THEN "auth" ELSE IF code = "limited" THEN "rate" ELSE "server"]

\* _raise_for_error_envelope: the error the header of the payload stands for.
EnvelopeError(p) ==
    CASE p.header = Bad -> "server"
      [] p.kind = "array" /\ ~HasCode(p.header) -> "server"
      [] HasCode(p.header) /\ p.header.code \in DOMAIN ErrorOf -> ErrorOf[p.header.code]
      [] OTHER -> None

\* The first of the places whose item is an object or a list of objects.
UsableItems(p) == {n \in DOMAIN p.item : p.item[n] # Bad}
FirstOf(places) == CHOOSE n \in places : \A m \in places : n <= m

\* extract_items: the rows of an answer, or Bad.
Slip_CountUnchecked(p) ==
    IF p.kind = "array"
    THEN IF Contains(p.body, "noObject") THEN Bad ELSE p.body
    ELSE IF UsableItems(p) = {} THEN Bad ELSE p.item[FirstOf(UsableItems(p))]
ExtractItems(p) ==
    IF p.kind = "array"
    THEN IF Contains(p.body, "noObject") \/ p.header.count \in {Bad, "wrong"}
         THEN Bad
         ELSE p.body
    ELSE IF UsableItems(p) = {} THEN Bad ELSE p.item[FirstOf(UsableItems(p))]

\* parse_many: every row must be complete, or there is no result.
Slip_NoRequiredFields(p) == ExtractItems(p)
ParseMany(p) ==
    IF ExtractItems(p) = Bad \/ Contains(ExtractItems(p), "incomplete")
    THEN Bad
    ELSE ExtractItems(p)

-----------------------------------------------------------------------------
(* The order of a route *)

\* Routes in the order in which they first occur, stops of a route by their
\* sequence, and as they came where that is the same.
FirstStop(rows, route) ==
    FirstOf({i \in DOMAIN rows : RouteOf[rows[i]] = route})

Slip_BySequenceOnly(rows, i, j) ==
    \/ SequenceOf[rows[i]] < SequenceOf[rows[j]]
    \/ SequenceOf[rows[i]] = SequenceOf[rows[j]] /\ i < j
Before(rows, i, j) ==
    LET a == FirstStop(rows, RouteOf[rows[i]])
        b == FirstStop(rows, RouteOf[rows[j]])
    IN  \/ a < b
        \/ a = b /\ SequenceOf[rows[i]] < SequenceOf[rows[j]]
        \/ a = b /\ SequenceOf[rows[i]] = SequenceOf[rows[j]] /\ i < j

RouteOrder(rows) ==
    LET order == CHOOSE f \in [DOMAIN rows -> DOMAIN rows] :
                    \A i, j \in DOMAIN rows : i < j => Before(rows, f[i], f[j])
    IN  [k \in DOMAIN rows |-> rows[order[k]]]

-----------------------------------------------------------------------------
\* The result for the caller: the envelope comes before the rows.
Result(p) ==
    IF EnvelopeError(p) # None
    THEN Error(EnvelopeError(p))
    ELSE IF ParseMany(p) = Bad
    THEN Error("server")
    ELSE Success(IF operation = "route" THEN RouteOrder(ParseMany(p)) ELSE ParseMany(p))

\* No answer, one refused by its HTTP status, or one that is no JSON object.
RequestFails ==
    /\ outcome = None
    /\ \E kind \in ErrorKinds : outcome' = Error(kind)
    /\ UNCHANGED <<operation, payload>>

Answer ==
    /\ outcome = None
    /\ \E p \in ArrayPayloads : payload' = p /\ outcome' = Result(p)
    /\ UNCHANGED operation

AnswerWithItems ==
    /\ outcome = None
    /\ \E p \in ItemPayloads : payload' = p /\ outcome' = Result(p)
    /\ UNCHANGED operation

Next == RequestFails \/ Answer \/ AnswerWithItems

Spec == Init /\ [][Next]_vars

-----------------------------------------------------------------------------
(* What must be right about a query *)

\* The lists of rows an answer holds.
ListsIn(p) == IF p.kind = "array" THEN {p.body} ELSE {p.item[n] : n \in DOMAIN p.item}

\* README: what is malformed is never turned into an empty result; nor is part of
\* an answer turned into a result. What is returned is all of one list KRIC sent,
\* and nothing else; an array was marked as a success and has the announced length.
RowsAsSent ==
    Returned =>
        /\ \E list \in ListsIn(payload) \ {Bad} :
              IF operation = "route" THEN ToBag(outcome.rows) = ToBag(list) ELSE outcome.rows = list
        /\ payload.kind = "array" =>
              payload.header.code = "success" /\ payload.header.count \in {None, "right"}

\* The docstring of get_subway_route_info: no stop is lost; the order of the routes is
\* KRIC's, each in one piece, and the order within a route that of the sequence; and
\* where KRIC gives one sequence number twice, KRIC's again.
RoutesInOrder ==
    Returned /\ operation = "route" =>
        \E sent \in ListsIn(payload) \ {Bad} :
            \E from \in {f \in [DOMAIN sent -> DOMAIN sent] : IsInjective(f)} :
                /\ outcome.rows = [k \in DOMAIN sent |-> sent[from[k]]]
                /\ \A i, j \in DOMAIN sent : i < j =>
                      LET route(k) == RouteOf[outcome.rows[k]]
                          number(k) == SequenceOf[outcome.rows[k]]
                      IN  IF route(i) = route(j)
                          THEN /\ \A k \in i .. j : route(k) = route(i)
                               /\ number(i) <= number(j)
                               /\ number(i) = number(j) => from[i] < from[j]
                          ELSE FirstStop(sent, route(i)) < FirstStop(sent, route(j))

\* README: errors are not turned into empty results. Rows out of a "response" that
\* reports an error in its own header are no result.
ErrorIsNoResult ==
    Returned /\ payload.kind = "items" =>
        (FirstOf(UsableItems(payload)) \in WithinResponse => payload.inner \notin Errors)
=============================================================================
