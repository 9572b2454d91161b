--------------------------- MODULE MaritimeAnswers ---------------------------
(***************************************************************************)
(* One request of DataGoKrMaritimeClient (src/kric/maritime.py) and what   *)
(* the client makes of the status, the envelope and the count of the       *)
(* answer:                                                                 *)
(*   "query"      search_ports, get_domestic_ship_operations,              *)
(*                get_ferry_terminals, get_ferry_ship_types and            *)
(*                get_coastal_ferry_schedules: one page, no total          *)
(*   "portCalls"  get_port_calls: all there is, with an explicit success   *)
(*   "page"       _get_ports_page: a page of a list with its total         *)
(*   "reference"  _get_terminals_page, _get_ship_types_page: the same, or  *)
(*                the whole list without a total                           *)
(* MaritimePages takes its pages from the last two.                        *)
(***************************************************************************)
EXTENDS Integers, FiniteSets, Sequences, SequencesExt

CONSTANTS
    Rows,            \* rows with every required field
    RowLists,        \* non-empty lists of rows that may be sent
    Totals,          \* integers that may be sent as totalCount
    Bad,             \* a value of a shape that is refused
    Empty,           \* null, "" or []: no items, or no item in items
    Null,            \* an explicit null
    None             \* no such field; or nothing yet

ASSUME ListsOfRows == RowLists \subseteq Seq(Rows \cup {"incomplete"}) \ {<<>>}
ASSUME TotalsAreIntegers == Totals \subseteq Int
ASSUME NoneIsNoNumber == None \notin Int
ASSUME NoneIsNoError == None \notin {"auth", "rate", "parameter", "server", "network"}

VARIABLES
    operation,       \* which of the operations it is
    payload,         \* the JSON object that came, if one did
    outcome          \* what the operation returns or raises

vars == <<operation, payload, outcome>>

-----------------------------------------------------------------------------
(* Payloads *)

\* What resultCode says. "falsy" and "odd" are neither text nor a number, and only
\* the first is false in Python.
Unsaid == {"blank", "falsy"}
Successes == {"success", "200"}
Refusals == {"auth", "rate", "parameter", "server", "odd"}
NotFound == "153"
Codes == Unsaid \cup Successes \cup Refusals \cup {NotFound}

\* Header and body are at the top or in a "response", which makes the envelope
\* nested; another header may be at the top then. A header without a code is as
\* good as one that leaves it blank. totalCount and what is left of the paging
\* fields are in the body.
Headers == {None} \cup Codes
Bodies == [items : {Empty, Bad} \cup RowLists, total : {None, Null, Bad} \cup Totals,
           paged : BOOLEAN]
Payloads ==
    {p \in [nested : BOOLEAN, top : Headers, header : Headers, body : Bodies \cup {Bad}] :
        ~p.nested => p.top = None}

\* The header the error check reads: the first there is.
FirstHeader(p) == IF p.top # None THEN p.top ELSE p.header

Operations == {"query", "portCalls", "page", "reference"}
ErrorKinds == {"auth", "rate", "parameter", "server", "network"}
Error(kind) == [error |-> kind, rows |-> <<>>, total |-> None]
Success(rows, total) == [error |-> None, rows |-> rows, total |-> total]

Returned == outcome # None /\ outcome.error = None

TypeOK ==
    /\ operation \in Operations
    /\ payload \in Payloads \cup {None}
    /\ outcome # None =>
          /\ outcome.error \in ErrorKinds \cup {None}
          /\ outcome.rows \in Seq(Rows)
          /\ outcome.total \in Nat \cup {None}

Init ==
    /\ operation \in Operations
    /\ payload = None
    /\ outcome = None

-----------------------------------------------------------------------------
(* What the client makes of a payload *)

ErrorOf == [code \in Refusals |-> IF code = "odd" THEN "server" ELSE code]

\* get_port_calls asks for a code of its own envelope that is text or a number.
StatusUnsaid(p) == p.header = None \/ p.header \in Unsaid \cup {"odd"}

\* _get, then _raise_for_error_envelope: the error an answer stands for.
EnvelopeError(p) ==
    CASE operation = "portCalls" /\ StatusUnsaid(p) -> "server"
      [] FirstHeader(p) \in Refusals -> ErrorOf[FirstHeader(p)]
      [] operation = "portCalls" /\ FirstHeader(p) # NotFound /\ p.header # "200" -> "server"
      [] OTHER -> None

\* _empty_or_invalid: without rows there must be a count, and unless another page
\* may have them, one that is not positive.
Slip_EmptyIsEmpty(body) == TRUE
EmptyIsValid(body) ==
    /\ body.total \in Int
    /\ operation \in {"query", "portCalls"} => body.total <= 0

\* The parsers of the rows: each row must have what it needs.
Slip_SomeComplete(rows) == rows[1] # "incomplete"
Complete(rows) == ~Contains(rows, "incomplete")

\* _extract_items_or_empty: rows, or an empty list that is valid.
ItemsValid(body) ==
    CASE body.items = Empty -> EmptyIsValid(body)
      [] body.items = Bad -> FALSE
      [] OTHER -> Complete(body.items)

RowsOf(body) == IF body.items = Empty THEN <<>> ELSE body.items

\* _total_count with allow_unpaged: there is no total, and it is no accident.
Slip_NullIsUnpaged(p) ==
    /\ operation = "reference"
    /\ p.body.total \in {None, Null}
    /\ ~p.body.paged
    /\ p.header \in Successes
Unpaged(p) ==
    /\ operation = "reference"
    /\ p.body.total = None
    /\ ~p.body.paged
    /\ p.header \in Successes

\* _total_count of an operation that needs one.
TotalValid(p) ==
    \/ operation = "query"
    \/ p.body.total \in Nat
    \/ Unpaged(p)
TotalOf(p) == IF operation \in {"page", "reference"} /\ p.body.total \in Nat THEN p.body.total ELSE None

Slip_PartWillDo(p) == FALSE
Incomplete(p) == operation = "portCalls" /\ p.body.total # Len(RowsOf(p.body))

\* NOT FOUND DATA is an empty list of no pages.
NothingFound == Success(<<>>, IF operation \in {"page", "reference"} THEN 0 ELSE None)

Result(p) ==
    IF EnvelopeError(p) # None
    THEN Error(EnvelopeError(p))
    ELSE IF FirstHeader(p) = NotFound
    THEN NothingFound
    ELSE IF p.body = Bad
    THEN Error("server")
    ELSE IF ~ItemsValid(p.body) \/ ~TotalValid(p) \/ Incomplete(p)
    THEN Error("server")
    ELSE Success(RowsOf(p.body), TotalOf(p))

\* No answer, one refused by its HTTP status, redirects included, or one that is
\* no JSON object.
RequestFails ==
    /\ outcome = None
    /\ \E kind \in {"auth", "rate", "server", "network"} : outcome' = Error(kind)
    /\ UNCHANGED <<operation, payload>>

Answer ==
    /\ outcome = None
    /\ payload' \in Payloads
    /\ outcome' = Result(payload')
    /\ UNCHANGED operation

Next == RequestFails \/ Answer

Spec == Init /\ [][Next]_vars

-----------------------------------------------------------------------------
(* What must be right about a request *)

Said == Returned /\ FirstHeader(payload) # NotFound

\* README and docs/implementation-plan.md: an empty result was said to be empty, by
\* NOT FOUND DATA or by a count. It is never inferred from rows that are missing. The
\* count is 0 where rows and count must agree, and no number of rows where one page is
\* part of a list.
EmptyIsExplicit ==
    Said /\ outcome.rows = <<>> =>
        /\ payload.body.total \in Int
        /\ CASE operation = "query" -> payload.body.total <= 0
             [] operation = "portCalls" -> payload.body.total = 0
             [] OTHER -> payload.body.total >= 0
        /\ FirstHeader(payload) \notin Refusals

\* docs/implementation-plan.md: a search for port calls that was cut off is never
\* taken for the only results, nor an answer without an explicit 200 for empty.
PortCallsExact ==
    Said /\ operation = "portCalls" =>
        /\ payload.header = "200"
        /\ payload.body.total = Len(outcome.rows)
=============================================================================
