---------------------------- MODULE MaritimePages ----------------------------
(***************************************************************************)
(* The bounded iterators of DataGoKrMaritimeClient (src/kric/maritime.py): *)
(* iter_ports, iter_ferry_terminals, iter_ferry_ship_types, all of them    *)
(* _iterate_pages over a page fetcher. One consumer pulls rows out of one  *)
(* iterator while the provider's table goes on changing between requests.  *)
(*                                                                         *)
(* A row is its identity. The iterator hands a row on as soon as it has    *)
(* checked it, before it knows whether the list will turn out complete.    *)
(*                                                                         *)
(* What _get and the parsers make of an answer is MaritimeAnswers: a page  *)
(* is one Request of it, and the iterator sees only what that returns.     *)
(*                                                                         *)
(* seen_identities is the set of the rows handed on, and yielded, which is *)
(* read between pages only, is their number: both are read off "got".      *)
(***************************************************************************)
EXTENDS Integers, FiniteSets, Sequences, SequencesExt

CONSTANTS
    Rows,            \* identities a reference list can hold
    PageSize,        \* page_size
    MaxPages,        \* max_pages, the call budget
    MaxEdits,        \* bound on the provider's changes during one iteration
    NoTotal,         \* None: no such field in the answer, no total of the page
    Empty,           \* the answer has no items
    Null             \* an explicit null

ASSUME PageSizePositive == PageSize \in Nat \ {0}
ASSUME MaxPagesPositive == MaxPages \in Nat \ {0}
ASSUME MaxEditsNat == MaxEdits \in Nat
ASSUME NoTotalIsNoNumber == NoTotal \notin Int
ASSUME NullIsNoNumber == Null \notin Int
ASSUME NoTotalIsNoError == NoTotal \notin {"auth", "rate", "parameter", "server", "network"}
ASSUME NeitherIsAList ==
    Null \notin Seq(Rows) /\ Empty \notin Seq(Rows) /\ Null # Empty
ASSUME NullIsNoBody ==
    Null \notin [items : Seq(Rows) \cup {Empty}, total : Nat \cup {NoTotal}, paged : BOOLEAN]
ASSUME RowsAreComplete == "incomplete" \notin Rows

VARIABLES
    table,           \* the provider's list, in the order it pages through it
    edits,           \* how often it changed since the iteration began
    allowUnpaged,    \* the operation may come without totalCount
    state,           \* of the iterator
    pageNo,          \* page_no
    expectedTotal,   \* expected_total
    page,            \* rows of the page in hand that the consumer has not had
    unpaged,         \* the page in hand is the whole list, without a count
    got,             \* the rows the consumer has had, in order
    stayed,          \* rows that were in the table ever since it began
    churned,         \* a row came or went since
    calm             \* the provider answered in full, alike, from one table

provider == <<table, edits, stayed, churned>>
iterator == <<state, pageNo, expectedTotal, page, unpaged, got>>
vars == <<provider, allowUnpaged, iterator, calm>>

-----------------------------------------------------------------------------
\* Lists without repetition over Rows.
Lists == {s \in SeqOf(Rows, Cardinality(Rows)) : IsInjective(s)}

IteratorState == {"new", "fetching", "yielded", "done", "failed", "abandoned"}

TypeOK ==
    /\ table \in Seq(Rows) /\ IsInjective(table)
    /\ edits \in 0 .. MaxEdits
    /\ allowUnpaged \in BOOLEAN
    /\ state \in IteratorState
    /\ pageNo \in 1 .. MaxPages
    /\ expectedTotal \in Nat \cup {NoTotal}
    /\ page \in Seq(Rows)
    /\ unpaged \in BOOLEAN
    /\ got \in Seq(Rows)
    /\ stayed \subseteq Rows
    /\ churned \in BOOLEAN
    /\ calm \in BOOLEAN

Init ==
    /\ table \in Lists
    /\ edits = 0
    /\ allowUnpaged \in BOOLEAN
    /\ state = "new"
    /\ pageNo = 1
    /\ expectedTotal = NoTotal
    /\ page = <<>>
    /\ unpaged = FALSE
    /\ got = <<>>
    /\ stayed = ToSet(table)
    /\ churned = FALSE
    /\ calm = TRUE

-----------------------------------------------------------------------------
(* The provider *)

\* While an iteration is on, rows come, go, and change places.
Edit ==
    /\ state \in {"fetching", "yielded"}
    /\ edits < MaxEdits
    /\ edits' = edits + 1
    /\ \/ \E r \in Rows \ ToSet(table), i \in 1 .. Len(table) + 1 :
             table' = InsertAt(table, i, r)
       \/ \E i \in 1 .. Len(table) : table' = RemoveAt(table, i)
       \/ \E i, j \in 1 .. Len(table) :
             i < j /\ table' = [table EXCEPT ![i] = table[j], ![j] = table[i]]
    /\ stayed' = stayed \cap ToSet(table')
    /\ churned' = (churned \/ ToSet(table') # ToSet(table))
    /\ calm' = FALSE
    /\ UNCHANGED <<allowUnpaged, iterator>>

\* Page n of the table, cut by position.
Cut(n) == SubSeq(table, (n - 1) * PageSize + 1,
                 IF n * PageSize < Len(table) THEN n * PageSize ELSE Len(table))

-----------------------------------------------------------------------------
(* The iterator *)

\* The consumer asks for the first row: the arguments are in order, the first
\* page is requested.
Start ==
    /\ state = "new"
    /\ state' = "fetching"
    /\ UNCHANGED <<provider, allowUnpaged, pageNo, expectedTotal, page, unpaged, got, calm>>

Fail == state' = "failed" /\ UNCHANGED <<pageNo, page, got>>

Slip_NeverSeen(row) == FALSE
AlreadySeen(row) == row \in ToSet(got)

Complete(total) == Len(got) = total

Slip_NoBudget == FALSE
Slip_BudgetSpent == pageNo + 1 >= MaxPages
BudgetSpent == pageNo = MaxPages

\* What happens when the rows of a page are used up. An empty page that does not
\* complete the list, and a budget that is used up, are errors.
Slip_OnlyEmptyPageEnds(total, wasEmpty, isWhole) ==
    IF isWhole \/ (Complete(total) /\ wasEmpty)
    THEN state' = "done" /\ UNCHANGED <<pageNo, page, got>>
    ELSE IF BudgetSpent
         THEN Fail
         ELSE state' = "fetching" /\ pageNo' = pageNo + 1 /\ UNCHANGED <<page, got>>
PageEnds(total, wasEmpty, isWhole) ==
    \/ /\ isWhole \/ Complete(total)
       /\ state' = "done"
       /\ UNCHANGED <<pageNo, page, got>>
    \/ /\ ~isWhole /\ ~Complete(total)
       /\ wasEmpty \/ BudgetSpent
       /\ Fail
    \/ /\ ~isWhole /\ ~Complete(total)
       /\ ~wasEmpty /\ ~BudgetSpent
       /\ state' = "fetching"
       /\ pageNo' = pageNo + 1
       /\ UNCHANGED <<page, got>>

\* The next of the rows in hand, the first of a non-empty sequence, is checked
\* and handed on.
HandOn(rows) ==
    IF AlreadySeen(Head(rows))
    THEN Fail
    ELSE /\ state' = "yielded"
         /\ got' = Append(got, Head(rows))
         /\ page' = Tail(rows)
         /\ UNCHANGED pageNo

Slip_CountMayGo == FALSE
CountDropped == pageNo # 1

\* Rows without a totalCount: the whole list, if it is the first page.
ReceiveUnpaged(rows) ==
    /\ UNCHANGED expectedTotal
    /\ unpaged' = TRUE
    /\ IF CountDropped THEN Fail ELSE HandOn(rows)

TotalChanged(total) == expectedTotal # NoTotal /\ total # expectedTotal

TooMany(rows, total) == Len(got) + Len(rows) > total

\* Rows with a totalCount: one page of the list.
Receive(rows, total) ==
    /\ unpaged' = FALSE
    /\ expectedTotal' = IF expectedTotal = NoTotal THEN total ELSE expectedTotal
    /\ IF TotalChanged(total) \/ TooMany(rows, total)
       THEN Fail
       ELSE IF rows # <<>> THEN HandOn(rows) ELSE PageEnds(total, TRUE, FALSE)

\* One request of the page fetcher: two of the three operations may be answered
\* with the whole list, without a count.
Request == INSTANCE MaritimeAnswers
    WITH operation <- IF allowUnpaged THEN "reference" ELSE "page",
         payload <- NoTotal, outcome <- NoTotal,
         RowLists <- Seq(Rows) \ {<<>>}, Totals <- Nat,
         Bad <- Null, None <- NoTotal

\* An answer, its header and body at the top.
Payload(header, items, total, paged) ==
    [nested |-> FALSE, top |-> NoTotal, header |-> header,
     body |-> [items |-> items, total |-> total, paged |-> paged]]

\* A list of rows as the answer holds it.
Items(rows) == IF rows = <<>> THEN Empty ELSE rows

\* The rows an answer may hold: of any page, or only the first few of it, or all.
Parts ==
    {table} \cup UNION {{SubSeq(Cut(n), 1, k) : k \in 0 .. Len(Cut(n))} : n \in 1 .. MaxPages}

\* The one thing the client has to believe: where a list may come without a count, a
\* first answer that is a success without count and page is the whole list.
Credible(answer) ==
    allowUnpaged /\ pageNo = 1
        /\ answer.header = "success" /\ answer.body.total = NoTotal /\ ~answer.body.paged
    => answer.body.items = Items(table)

\* What the provider may answer. It may be wrong about the rows and the envelope, and
\* leave count and page out or not, now or in the middle of the pages. But a count it
\* sends is the true one.
PageAnswers ==
    {answer \in {Payload(header, Items(rows), total, paged) :
                    header \in {"success", "blank", "server"}, rows \in Parts,
                    total \in {Len(table), Null, NoTotal}, paged \in BOOLEAN} :
        Credible(answer)}

\* It finds no data only where there is none.
NoDataAnswers ==
    IF Cut(pageNo) = <<>> THEN {Payload(Request!NotFound, Empty, NoTotal, FALSE)} ELSE {}

Answers == PageAnswers \cup NoDataAnswers

\* The page in full, as a paging provider answers (an empty list answers 0), or
\* the whole list at once, where that is accepted and there is one.
ProperAnswers ==
    {Payload("success", Items(Cut(pageNo)), Len(table), TRUE)}
    \cup (IF allowUnpaged /\ pageNo = 1 /\ table # <<>>
          THEN {Payload("success", table, NoTotal, FALSE)}
          ELSE {})

\* A page is answered, and _get and the parsers take it for rows with a total, for
\* the whole list without one, or for an error, which the iterator passes on.
Fetch ==
    /\ state = "fetching"
    /\ \E answer \in Answers :
          LET result == Request!Result(answer)
          IN  /\ \/ /\ result.error # NoTotal
                    /\ Fail
                    /\ UNCHANGED <<expectedTotal, unpaged>>
                 \/ /\ result.error = NoTotal
                    /\ result.total = NoTotal
                    /\ ReceiveUnpaged(result.rows)
                 \/ /\ result.error = NoTotal
                    /\ result.total # NoTotal
                    /\ Receive(result.rows, result.total)
              /\ calm' = (calm /\ answer \in ProperAnswers)
    /\ UNCHANGED <<provider, allowUnpaged>>

\* No answer, or one _get refuses by its status.
FetchRaises ==
    /\ state = "fetching"
    /\ Fail
    /\ calm' = FALSE
    /\ UNCHANGED <<provider, allowUnpaged, expectedTotal, unpaged>>

\* The consumer asks for another row: the next of this page, or, at its end,
\* the next page or the end of the list.
NextRow ==
    /\ state = "yielded"
    /\ IF page # <<>> THEN HandOn(page) ELSE PageEnds(expectedTotal, FALSE, unpaged)
    /\ UNCHANGED <<provider, allowUnpaged, expectedTotal, unpaged, calm>>

\* The consumer breaks out of its loop, or is cancelled while it waits.
Abandon ==
    /\ state \in {"fetching", "yielded"}
    /\ state' = "abandoned"
    /\ UNCHANGED <<provider, allowUnpaged, pageNo, expectedTotal, page, unpaged, got, calm>>

-----------------------------------------------------------------------------
Next ==
    \/ Edit \/ Start
    \/ Fetch \/ FetchRaises \/ NextRow \/ Abandon

Spec == Init /\ [][Next]_vars

-----------------------------------------------------------------------------
(* What must be right about the iterators *)

\* README: the iterator ends when the provider's totalCount and the number of
\* rows agree, and raises rather than pass an incomplete list off as a success.
\* So a list that ended normally has the announced length and no row twice. One that
\* was never announced a length came in a single answer, where that is accepted: a
\* count that is dropped on the way does not make an end.
EndsOnlyComplete ==
    state = "done" =>
        /\ IsInjective(got)
        /\ IF expectedTotal = NoTotal
           THEN allowUnpaged /\ pageNo = 1
           ELSE Len(got) = expectedTotal

\* The iterator is as good as the rows are stable: if no row came or went, a list
\* that ended normally has every row, whatever was reordered, truncated or
\* answered out of turn on the way.
WholeIfNoneCameOrWent ==
    state = "done" /\ ~churned => ToSet(got) = ToSet(table)

\* It raises for a reason: against a provider that answers every request from
\* one unchanged table, only a call budget that cannot hold the list fails, and
\* the list comes in the provider's order. The one exception is documented: the
\* count of an empty list must not be missing.
CalmProviderSuffices ==
    calm =>
        /\ state = "failed" => Len(table) > MaxPages * PageSize
        /\ state = "done" => got = table
        /\ IsPrefix(got, table)

\* No request is wasted: a finished list whose length is an exact multiple of
\* the page size is not followed by a request for an empty page.
NoWastedRequest ==
    calm /\ state = "done" =>
        pageNo = 1 \/ (~unpaged /\ (pageNo - 1) * PageSize < Len(table))

\* docs/implementation-plan.md: the reference lists are synchronised through the
\* iterators without omission. Every row the table had all along is handed on.
NoOmission == state = "done" => stayed \subseteq ToSet(got)
=============================================================================
