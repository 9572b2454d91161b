------------------------- MODULE MaritimePagesProofs -------------------------
(***************************************************************************)
(* Proofs about MaritimePages for every set of rows, every page size and   *)
(* every call budget, however often the provider's table changes.          *)
(***************************************************************************)
EXTENDS MaritimePages, SequenceLemmas, TLAPS

-----------------------------------------------------------------------------
(* Handing on *)

\* Handing on the next row: what was handed on and what is in hand stay the same
\* rows together, and nothing is handed on twice.
LEMMA HandingOn ==
    ASSUME NEW S, NEW s \in Seq(S), NEW t \in Seq(S), t # <<>>
    PROVE  /\ Append(s, Head(t)) \in Seq(S)
           /\ Tail(t) \in Seq(S)
           /\ ToSet(Append(s, Head(t))) \cup ToSet(Tail(t)) = ToSet(s) \cup ToSet(t)
           /\ IsInjective(s) /\ Head(t) \notin ToSet(s) => IsInjective(Append(s, Head(t)))
  <1> DEFINE a == Append(s, Head(t))
             b == Tail(t)
  <1>1. /\ Len(s) \in Nat /\ DOMAIN s = 1 .. Len(s)
        /\ Len(t) \in Nat /\ DOMAIN t = 1 .. Len(t) /\ Len(t) >= 1
    OBVIOUS
  <1>2. /\ a \in Seq(S) /\ DOMAIN a = 1 .. Len(s) + 1
        /\ a[Len(s) + 1] = t[1]
        /\ \A i \in 1 .. Len(s) : a[i] = s[i]
    BY <1>1
  <1>3. /\ b \in Seq(S) /\ DOMAIN b = 1 .. Len(t) - 1
        /\ \A i \in 1 .. Len(t) - 1 : b[i] = t[i + 1]
    BY <1>1
  <1>4. Head(t) = t[1]
    OBVIOUS
  <1> HIDE DEF a, b
  <1>5. ToSet(a) = ToSet(s) \cup {t[1]}
    <2>1. \A i \in 1 .. Len(s) + 1 : i \in 1 .. Len(s) \/ i = Len(s) + 1
      BY <1>1
    <2>2. Len(s) + 1 \in 1 .. Len(s) + 1 /\ 1 .. Len(s) \subseteq 1 .. Len(s) + 1
      BY <1>1
    <2>3. QED
      BY <1>1, <1>2, <2>1, <2>2 DEF ToSet
  <1>6. ToSet(t) = {t[1]} \cup ToSet(b)
    <2>1. ASSUME NEW i \in 1 .. Len(t)
          PROVE  t[i] \in {t[1]} \cup ToSet(b)
      <3>1. CASE i = 1
        BY <3>1
      <3>2. CASE i # 1
        <4>1. i - 1 \in 1 .. Len(t) - 1 /\ (i - 1) + 1 = i
          BY <1>1, <3>2
        <4>2. b[i - 1] = t[i]
          BY <1>3, <4>1
        <4>3. QED
          BY <1>3, <4>1, <4>2 DEF ToSet
      <3>3. QED
        BY <3>1, <3>2
    <2>2. ASSUME NEW i \in 1 .. Len(t) - 1
          PROVE  b[i] \in ToSet(t)
      <3>1. i + 1 \in 1 .. Len(t) /\ b[i] = t[i + 1]
        BY <1>1, <1>3
      <3>2. QED
        BY <1>1, <3>1 DEF ToSet
    <2>3. t[1] \in ToSet(t)
      BY <1>1 DEF ToSet
    <2>4. QED
      BY <1>1, <1>3, <2>1, <2>2, <2>3 DEF ToSet
  <1>7. ASSUME IsInjective(s), t[1] \notin ToSet(s)
        PROVE  IsInjective(a)
    <2>1. ASSUME NEW i \in 1 .. Len(s) + 1, NEW j \in 1 .. Len(s) + 1, a[i] = a[j]
          PROVE  i = j
      <3>1. \A k \in 1 .. Len(s) : s[k] # t[1]
        BY <1>1, <1>7 DEF ToSet
      <3>2. (i \in 1 .. Len(s) \/ i = Len(s) + 1) /\ (j \in 1 .. Len(s) \/ j = Len(s) + 1)
        BY <1>1
      <3>3. QED
        BY <1>1, <1>2, <1>7, <2>1, <3>1, <3>2 DEF IsInjective
    <2>2. QED
      BY <1>2, <2>1 DEF IsInjective
  <1>8. QED
    BY <1>2, <1>3, <1>4, <1>5, <1>6, <1>7 DEF a, b

-----------------------------------------------------------------------------
(* What a request returns *)

\* A page is a piece of the table, as the lemmas on pages have it, and only an empty
\* table has an empty first page.
LEMMA CutOfTable ==
    ASSUME table \in Seq(Rows), NEW n \in 1 .. MaxPages
    PROVE  /\ Cut(n) = PageIn(table, PageSize, n)
           /\ n \in Nat \ {0} /\ PageSize \in Nat \ {0}
           /\ Cut(n) \in Seq(Rows)
           /\ ToSet(Cut(n)) \subseteq ToSet(table)
           /\ n = 1 /\ Cut(n) = <<>> => Len(table) = 0
  <1>1. n \in Nat \ {0} /\ PageSize \in Nat \ {0}
    BY PageSizePositive, MaxPagesPositive
  <1>2. Cut(n) = PageIn(table, PageSize, n)
    BY DEF Cut, PageIn, Reach
  <1>3. /\ Cut(n) \in Seq(Rows) /\ ToSet(Cut(n)) \subseteq ToSet(table)
        /\ Cut(n) = <<>> => n * PageSize - PageSize >= Len(table)
    BY <1>1, <1>2, Paged
  <1>4. n = 1 => n * PageSize - PageSize = 0 /\ Len(table) \in Nat
    BY <1>1
  <1>5. n = 1 /\ Cut(n) = <<>> => Len(table) = 0
    <2>1. SUFFICES ASSUME n = 1, Cut(n) = <<>>
                   PROVE  Len(table) = 0
      OBVIOUS
    <2>2. 0 >= Len(table) /\ Len(table) \in Nat
      BY <1>3, <1>4, <2>1
    <2>3. QED
      BY <2>2
  <1>6. QED
    BY <1>1, <1>2, <1>3, <1>5

\* A page, and any part of it, has rows of the table only.
LEMMA PartsOfTable ==
    ASSUME table \in Seq(Rows), NEW rows \in Parts
    PROVE  rows \in Seq(Rows) /\ ToSet(rows) \subseteq ToSet(table)
  <1>1. CASE rows = table
    BY <1>1
  <1>2. CASE rows # table
    <2>0. PICK n \in 1 .. MaxPages : \E k \in 0 .. Len(Cut(n)) : rows = SubSeq(Cut(n), 1, k)
      BY <1>2 DEF Parts
    <2>1. PICK k \in 0 .. Len(Cut(n)) : rows = SubSeq(Cut(n), 1, k)
      BY <2>0
    <2>2. Cut(n) \in Seq(Rows) /\ ToSet(Cut(n)) \subseteq ToSet(table)
      BY CutOfTable
    <2>3. k \in Int /\ k <= Len(Cut(n)) /\ 1 \in Nat \ {0}
      BY <2>2
    <2>4. SubSeq(Cut(n), 1, k) \in Seq(Rows) /\ ToSet(SubSeq(Cut(n), 1, k)) \subseteq ToSet(Cut(n))
      BY <2>2, <2>3, PieceOf
    <2>5. QED
      BY <2>1, <2>2, <2>4
  <1>3. QED
    BY <1>1, <1>2

\* A result that is no error has rows of the table, and with them the length of the
\* table, or no total, and then on the first page all of the table, or it says there is
\* nothing, which is so of the page asked for.
LEMMA ResultOfAnswer ==
    ASSUME table \in Seq(Rows), NEW answer \in Answers, Request!Result(answer).error = NoTotal
    PROVE  LET result == Request!Result(answer)
           IN  /\ result.rows \in Seq(Rows)
               /\ ToSet(result.rows) \subseteq ToSet(table)
               /\ \/ result.total = Len(table)
                  \/ result.total = 0 /\ result.rows = <<>> /\ Cut(pageNo) = <<>>
                  \/ /\ result.total = NoTotal /\ allowUnpaged /\ result.rows # <<>>
                     /\ pageNo = 1 => result.rows = table
  <1> DEFINE result == Request!Result(answer)
             operation == IF allowUnpaged THEN "reference" ELSE "page"
  <1>1. ASSUME NEW kind \in {"auth", "rate", "parameter", "server", "network"}
        PROVE  Request!Error(kind).error # NoTotal
    BY NoTotalIsNoError DEF Request!Error
  <1>2. operation # "portCalls" /\ operation # "query" /\ operation \in {"page", "reference"}
    OBVIOUS
  <1>3. CASE answer \in NoDataAnswers
    <2>0. answer = Payload(Request!NotFound, Empty, NoTotal, FALSE) /\ Cut(pageNo) = <<>>
      BY <1>3 DEF NoDataAnswers
    <2>1. Request!FirstHeader(answer) = "153"
      BY <2>0 DEF Payload, Request!FirstHeader, Request!NotFound
    <2>2. Request!EnvelopeError(answer) = NoTotal
      BY <2>1 DEF Request!EnvelopeError, Request!Refusals
    <2>3. result = Request!NothingFound
      BY <2>1, <2>2 DEF Request!Result, Request!NotFound
    <2>4. result.rows = <<>> /\ result.total = 0
      BY <2>3 DEF Request!NothingFound, Request!Success
    <2>5. QED
      BY <2>0, <2>4, NoElements
  <1>4. CASE answer \in PageAnswers
    <2>1. PICK header \in {"success", "blank", "server"}, rows \in Parts,
               total \in {Len(table), Null, NoTotal}, paged \in BOOLEAN :
             answer = Payload(header, Items(rows), total, paged) /\ Credible(answer)
      BY <1>4 DEF PageAnswers
    <2>2. /\ answer.header = header /\ answer.body.items = Items(rows)
          /\ answer.body.total = total /\ answer.body.paged = paged
          /\ Request!FirstHeader(answer) = header
      BY <2>1 DEF Payload, Request!FirstHeader
    <2>3. header # "server"
      <3>1. SUFFICES ASSUME header = "server"
                     PROVE  result.error # NoTotal
        OBVIOUS
      <3>2. Request!EnvelopeError(answer) = "server"
        BY <2>2, <3>1 DEF Request!EnvelopeError, Request!Refusals, Request!ErrorOf
      <3>3. result = Request!Error("server")
        BY <3>2, NoTotalIsNoError DEF Request!Result
      <3>4. QED
        BY <1>1, <3>3
    <2>4. Request!EnvelopeError(answer) = NoTotal /\ Request!FirstHeader(answer) # Request!NotFound
      BY <2>2, <2>3 DEF Request!EnvelopeError, Request!Refusals, Request!NotFound
    <2>5. /\ Request!ItemsValid(answer.body) /\ Request!TotalValid(answer)
          /\ result = Request!Success(Request!RowsOf(answer.body), Request!TotalOf(answer))
      BY <1>1, <2>4 DEF Request!Result
    <2>6. /\ result.rows = Request!RowsOf(answer.body)
          /\ result.total = Request!TotalOf(answer)
      BY <2>5 DEF Request!Success
    <2>7. result.rows = <<>> \/ result.rows = rows
      BY <2>2, <2>6 DEF Request!RowsOf, Items
    <2>8. rows \in Seq(Rows) /\ ToSet(rows) \subseteq ToSet(table)
      BY <2>1, PartsOfTable
    <2>9. result.rows \in Seq(Rows) /\ ToSet(result.rows) \subseteq ToSet(table)
      BY <2>7, <2>8, NoElements
    <2>10. CASE total \in Nat
      <3>1. total = Len(table)
        BY <2>10, NullIsNoNumber, NoTotalIsNoNumber
      <3>2. result.total = total
        BY <2>2, <2>6, <2>10 DEF Request!TotalOf
      <3>3. QED
        BY <2>9, <3>1, <3>2
    <2>11. CASE total \notin Nat
      <3>1. result.total = NoTotal
        BY <2>2, <2>6, <2>11 DEF Request!TotalOf
      <3>2. Request!Unpaged(answer)
        BY <2>2, <2>5, <2>11 DEF Request!TotalValid
      <3>3. header = "success" /\ total = NoTotal /\ ~paged /\ allowUnpaged
        BY <2>2, <2>3, <3>2 DEF Request!Unpaged, Request!Successes
      <3>4. Items(rows) # Empty
        BY <2>2, <2>5, <3>3, NoTotalIsNoNumber DEF Request!ItemsValid, Request!EmptyIsValid
      <3>5. result.rows = rows /\ rows # <<>>
        BY <2>2, <2>6, <3>4 DEF Request!RowsOf, Items
      <3>6. pageNo = 1 => Items(rows) = Items(table)
        BY <2>1, <2>2, <3>3 DEF Credible
      <3>7. pageNo = 1 => rows = table
        BY <3>4, <3>6 DEF Items
      <3>8. QED
        BY <2>9, <3>1, <3>3, <3>5, <3>7
    <2>12. QED
      BY <2>10, <2>11
  <1>5. QED
    BY <1>3, <1>4 DEF Answers

-----------------------------------------------------------------------------
(* The inductive invariant *)

\* The list came in one answer, where that is accepted.
Uncounted == expectedTotal = NoTotal /\ allowUnpaged /\ pageNo = 1

\* After the first page there is a total, before it none, and without one the page in
\* hand is the whole list; what ended normally has the length of the total, or was whole.
CountInv ==
    /\ IsInjective(got)
    /\ pageNo > 1 => expectedTotal # NoTotal
    /\ state = "yielded" => unpaged \/ expectedTotal # NoTotal
    /\ state = "done" => unpaged \/ Len(got) = expectedTotal
    /\ unpaged /\ state \in {"yielded", "done"} => Uncounted
    /\ state \in {"new", "fetching"} =>
          page = <<>> /\ (pageNo = 1 => expectedTotal = NoTotal)

\* As long as no row came or went, the rows handed on and in hand are rows of the
\* table, all of them if it came whole, and the total is the length of the table.
TableInv ==
    ~churned =>
        /\ ToSet(got) \cup ToSet(page) \subseteq ToSet(table)
        /\ expectedTotal # NoTotal => expectedTotal = Len(table)
        /\ unpaged /\ state = "yielded" => ToSet(got) \cup ToSet(page) = ToSet(table)
        /\ unpaged /\ state = "done" => ToSet(got) = ToSet(table)

IInv == TypeOK /\ CountInv /\ TableInv

\* What each way of going on from an answer, or from the end of a page, presupposes.
Judged ==
    /\ UNCHANGED <<provider, allowUnpaged>>
    /\ expectedTotal' \in Nat \cup {NoTotal}
    /\ unpaged' \in BOOLEAN
    /\ calm' \in BOOLEAN
    /\ pageNo > 1 => expectedTotal' # NoTotal
    /\ ~churned /\ expectedTotal' # NoTotal => expectedTotal' = Len(table)

LEMMA InitIInv == Init => IInv
  <1> SUFFICES ASSUME Init
               PROVE  IInv
    OBVIOUS
  <1>1. table \in Seq(Rows) /\ IsInjective(table)
    <2>1. IsInjective(table)
      BY DEF Init, Lists
    <2>2. PICK m \in 0 .. Cardinality(Rows) : table \in [1 .. m -> Rows]
      BY DEF Init, Lists, SeqOf
    <2>3. m \in Nat
      OBVIOUS
    <2>4. QED
      BY <2>1, <2>2, <2>3
  <1>2. ToSet(table) \subseteq Rows
    BY <1>1 DEF ToSet
  <1>3. IsInjective(got)
    BY DEF Init, IsInjective
  <1>4. TypeOK
    <2>1. 0 \in 0 .. MaxEdits /\ 1 \in 1 .. MaxPages
      BY MaxPagesPositive, MaxEditsNat
    <2>2. QED
      BY <1>1, <1>2, <2>1, NoElements DEF Init, TypeOK, IteratorState
  <1>5. TableInv
    BY NoElements DEF Init, TableInv
  <1>6. QED
    BY <1>3, <1>4, <1>5 DEF Init, IInv, CountInv

LEMMA FailKeeps ==
    ASSUME IInv, Judged, Fail
    PROVE  IInv'
  <1>1. TypeOK'
    BY DEF IInv, TypeOK, Judged, Fail, provider, IteratorState
  <1>2. CountInv' /\ TableInv'
    BY DEF IInv, CountInv, TableInv, Judged, Fail, provider
  <1>3. QED
    BY <1>1, <1>2 DEF IInv

LEMMA HandOnKeeps ==
    ASSUME IInv, Judged, NEW rows \in Seq(Rows), rows # <<>>, HandOn(rows),
           unpaged' \/ expectedTotal' # NoTotal,
           unpaged' => expectedTotal' = NoTotal /\ allowUnpaged /\ pageNo = 1,
           ~churned => ToSet(got) \cup ToSet(rows) \subseteq ToSet(table),
           ~churned /\ unpaged' => ToSet(got) \cup ToSet(rows) = ToSet(table)
    PROVE  IInv'
  <1>1. CASE AlreadySeen(Head(rows))
    BY <1>1, FailKeeps DEF HandOn
  <1>2. CASE ~AlreadySeen(Head(rows))
    <2>1. /\ state' = "yielded" /\ pageNo' = pageNo
          /\ got' = Append(got, Head(rows)) /\ page' = Tail(rows)
      BY <1>2 DEF HandOn
    <2>2. got \in Seq(Rows) /\ IsInjective(got) /\ Head(rows) \notin ToSet(got)
      BY <1>2 DEF IInv, TypeOK, CountInv, AlreadySeen
    <2>3. /\ got' \in Seq(Rows) /\ page' \in Seq(Rows) /\ IsInjective(got')
          /\ ToSet(got') \cup ToSet(page') = ToSet(got) \cup ToSet(rows)
      BY <2>1, <2>2, HandingOn
    <2>4. TypeOK'
      BY <2>1, <2>3 DEF IInv, TypeOK, Judged, provider, IteratorState
    <2>5. CountInv'
      BY <2>1, <2>3 DEF CountInv, Uncounted, Judged
    <2>6. TableInv'
      BY <2>1, <2>3 DEF TableInv, Judged, provider
    <2>7. QED
      BY <2>4, <2>5, <2>6 DEF IInv
  <1>3. QED
    BY <1>1, <1>2

LEMMA PageEndsKeeps ==
    ASSUME IInv, Judged, NEW wasEmpty \in BOOLEAN, NEW isWhole \in BOOLEAN,
           PageEnds(expectedTotal', wasEmpty, isWhole),
           page = <<>>,
           unpaged' = isWhole,
           isWhole \/ expectedTotal' # NoTotal,
           isWhole => expectedTotal' = NoTotal /\ allowUnpaged /\ pageNo = 1,
           ~churned /\ isWhole => ToSet(got) = ToSet(table)
    PROVE  IInv'
  <1>1. CASE Fail
    BY <1>1, FailKeeps
  <1>2. CASE /\ isWhole \/ Complete(expectedTotal')
             /\ state' = "done"
             /\ UNCHANGED <<pageNo, page, got>>
    <2>1. TypeOK'
      BY <1>2 DEF IInv, TypeOK, Judged, provider, IteratorState
    <2>2. CountInv'
      BY <1>2 DEF IInv, CountInv, Uncounted, Judged, Complete
    <2>3. TableInv'
      BY <1>2 DEF IInv, TableInv, Judged, provider
    <2>4. QED
      BY <2>1, <2>2, <2>3 DEF IInv
  <1>3. CASE /\ ~isWhole /\ ~BudgetSpent
             /\ state' = "fetching"
             /\ pageNo' = pageNo + 1
             /\ UNCHANGED <<page, got>>
    <2>1. pageNo' \in 1 .. MaxPages
      BY <1>3, MaxPagesPositive DEF IInv, TypeOK, BudgetSpent
    <2>2. TypeOK'
      BY <1>3, <2>1 DEF IInv, TypeOK, Judged, provider, IteratorState
    <2>3. CountInv'
      BY <1>3, <2>1 DEF IInv, TypeOK, CountInv, Uncounted, Judged
    <2>4. TableInv'
      BY <1>3 DEF IInv, TableInv, Judged, provider
    <2>5. QED
      BY <2>2, <2>3, <2>4 DEF IInv
  <1>4. QED
    BY <1>1, <1>2, <1>3 DEF PageEnds

LEMMA EditKeeps == IInv /\ Edit => IInv'
  <1> SUFFICES ASSUME IInv, Edit
               PROVE  IInv'
    OBVIOUS
  <1>1. table \in Seq(Rows) /\ IsInjective(table)
    BY DEF IInv, TypeOK
  <1>2. table' \in Seq(Rows) /\ IsInjective(table')
    BY <1>1, Edited DEF Edit
  <1>3. ~churned' => ~churned /\ ToSet(table') = ToSet(table) /\ Len(table') = Len(table)
    BY <1>1, <1>2, InjectiveCardinality DEF Edit
  <1>4. /\ edits' \in 0 .. MaxEdits /\ stayed' \subseteq Rows
        /\ churned' \in BOOLEAN /\ calm' \in BOOLEAN
        /\ UNCHANGED <<allowUnpaged, state, pageNo, expectedTotal, page, unpaged, got>>
    <2>1. edits' \in 0 .. MaxEdits
      BY MaxEditsNat DEF IInv, TypeOK, Edit
    <2>2. stayed' \subseteq Rows
      BY DEF IInv, TypeOK, Edit
    <2>3. churned' \in BOOLEAN /\ calm' \in BOOLEAN
      BY DEF IInv, TypeOK, Edit
    <2>4. UNCHANGED <<allowUnpaged, state, pageNo, expectedTotal, page, unpaged, got>>
      BY DEF Edit, iterator
    <2>5. QED
      BY <2>1, <2>2, <2>3, <2>4
  <1>5. TypeOK'
    BY <1>2, <1>4 DEF IInv, TypeOK
  <1>6. CountInv' /\ TableInv'
    BY <1>3, <1>4 DEF IInv, CountInv, Uncounted, TableInv
  <1>7. QED
    BY <1>5, <1>6 DEF IInv

LEMMA FetchKeeps == IInv /\ Fetch => IInv'
  <1> SUFFICES ASSUME IInv, Fetch
               PROVE  IInv'
    OBVIOUS
  <1>1. /\ state = "fetching" /\ page = <<>>
        /\ table \in Seq(Rows) /\ pageNo \in 1 .. MaxPages
        /\ expectedTotal \in Nat \cup {NoTotal}
        /\ pageNo > 1 => expectedTotal # NoTotal
        /\ pageNo = 1 => expectedTotal = NoTotal
        /\ ~churned => /\ ToSet(got) \subseteq ToSet(table)
                       /\ expectedTotal # NoTotal => expectedTotal = Len(table)
        /\ UNCHANGED <<provider, allowUnpaged>>
        /\ calm' \in BOOLEAN
    BY DEF Fetch, IInv, TypeOK, CountInv, TableInv
  <1>2. PICK answer \in Answers :
            \/ /\ Request!Result(answer).error # NoTotal
               /\ Fail
               /\ UNCHANGED <<expectedTotal, unpaged>>
            \/ /\ Request!Result(answer).error = NoTotal
               /\ Request!Result(answer).total = NoTotal
               /\ ReceiveUnpaged(Request!Result(answer).rows)
            \/ /\ Request!Result(answer).error = NoTotal
               /\ Request!Result(answer).total # NoTotal
               /\ Receive(Request!Result(answer).rows, Request!Result(answer).total)
    BY DEF Fetch
  <1> DEFINE rows == Request!Result(answer).rows
             total == Request!Result(answer).total
  <1>3. CASE Fail /\ UNCHANGED <<expectedTotal, unpaged>>
    <2>1. Judged
      BY <1>1, <1>3 DEF Judged, IInv, TypeOK
    <2>2. QED
      BY <1>3, <2>1, FailKeeps
  <1>4. CASE Request!Result(answer).error = NoTotal
    <2>1. /\ rows \in Seq(Rows)
          /\ ToSet(rows) \subseteq ToSet(table)
          /\ \/ total = Len(table)
             \/ total = 0 /\ rows = <<>> /\ Cut(pageNo) = <<>>
             \/ /\ total = NoTotal /\ allowUnpaged /\ rows # <<>>
                /\ pageNo = 1 => rows = table
      BY <1>1, <1>4, ResultOfAnswer
    <2>2. Len(table) \in Nat /\ Len(table) # NoTotal /\ 0 # NoTotal
      BY <1>1, NoTotalIsNoNumber
    <2> HIDE DEF rows, total
    <2>3. CASE total = NoTotal /\ ReceiveUnpaged(rows)
      <3>1. UNCHANGED expectedTotal /\ unpaged' = TRUE
        BY <2>3 DEF ReceiveUnpaged
      <3>2. Judged
        BY <1>1, <3>1 DEF Judged
      <3>3. CASE Fail
        BY <3>2, <3>3, FailKeeps
      <3>4. CASE ~CountDropped /\ HandOn(rows)
        <4>0. pageNo = 1
          BY <3>4 DEF CountDropped
        <4>1. /\ rows # <<>> /\ rows = table /\ allowUnpaged
              /\ expectedTotal' = NoTotal
          BY <1>1, <2>1, <2>2, <2>3, <3>1, <4>0
        <4>2. ~churned => ToSet(got) \cup ToSet(rows) = ToSet(table)
          BY <1>1, <4>1
        <4>3. QED
          BY <2>1, <3>1, <3>2, <3>4, <4>0, <4>1, <4>2, HandOnKeeps
      <3>5. QED
        BY <2>3, <3>3, <3>4 DEF ReceiveUnpaged
    <2>4. CASE total # NoTotal /\ Receive(rows, total)
      <3>1. /\ unpaged' = FALSE
            /\ expectedTotal' = IF expectedTotal = NoTotal THEN total ELSE expectedTotal
        BY <2>4 DEF Receive
      <3>2. total \in Nat /\ expectedTotal' \in Nat /\ expectedTotal' # NoTotal
        BY <1>1, <2>1, <2>2, <2>4, <3>1, NoTotalIsNoNumber
      <3>3. ~churned => expectedTotal' = Len(table)
        <4>1. CASE expectedTotal # NoTotal
          BY <1>1, <3>1, <4>1
        <4>2. CASE expectedTotal = NoTotal /\ total = Len(table)
          BY <3>1, <4>2
        <4>3. CASE expectedTotal = NoTotal /\ total = 0 /\ Cut(pageNo) = <<>>
          <5>1. pageNo = 1
            BY <1>1, <4>3
          <5>2. Len(table) = 0
            BY <1>1, <4>3, <5>1, CutOfTable
          <5>3. QED
            BY <3>1, <4>3, <5>2
        <4>4. QED
          BY <2>1, <2>4, <4>1, <4>2, <4>3
      <3>4. Judged
        BY <1>1, <3>1, <3>2, <3>3 DEF Judged
      <3>5. CASE Fail
        BY <3>4, <3>5, FailKeeps
      <3>6. CASE rows # <<>> /\ HandOn(rows)
        <4>1. ~churned => ToSet(got) \cup ToSet(rows) \subseteq ToSet(table)
          BY <1>1, <2>1
        <4>2. QED
          BY <2>1, <3>1, <3>2, <3>4, <3>6, <4>1, HandOnKeeps
      <3>7. CASE ~TotalChanged(total) /\ PageEnds(total, TRUE, FALSE)
        <4>1. expectedTotal' = total
          BY <3>1, <3>7 DEF TotalChanged
        <4>2. QED
          BY <1>1, <3>1, <3>2, <3>4, <3>7, <4>1, PageEndsKeeps
      <3>8. QED
        BY <2>4, <3>5, <3>6, <3>7 DEF Receive
    <2>5. QED
      BY <1>2, <1>3, <1>4, <2>3, <2>4 DEF rows, total
  <1>5. QED
    BY <1>2, <1>3, <1>4

LEMMA NextRowKeeps == IInv /\ NextRow => IInv'
  <1> SUFFICES ASSUME IInv, NextRow
               PROVE  IInv'
    OBVIOUS
  <1>1. /\ state = "yielded"
        /\ unpaged \in BOOLEAN /\ page \in Seq(Rows)
        /\ unpaged' = unpaged /\ expectedTotal' = expectedTotal
        /\ unpaged \/ expectedTotal # NoTotal
        /\ unpaged => expectedTotal = NoTotal /\ allowUnpaged /\ pageNo = 1
        /\ ~churned => ToSet(got) \cup ToSet(page) \subseteq ToSet(table)
        /\ ~churned /\ unpaged => ToSet(got) \cup ToSet(page) = ToSet(table)
    BY DEF NextRow, IInv, TypeOK, CountInv, Uncounted, TableInv
  <1>2. Judged
    BY DEF NextRow, Judged, IInv, TypeOK, CountInv, TableInv
  <1>3. CASE page # <<>> /\ HandOn(page)
    BY <1>1, <1>2, <1>3, HandOnKeeps
  <1>4. CASE page = <<>> /\ PageEnds(expectedTotal, FALSE, unpaged)
    <2>1. ~churned /\ unpaged => ToSet(got) = ToSet(table)
      BY <1>1, <1>4, NoElements
    <2>2. QED
      BY <1>1, <1>2, <1>4, <2>1, PageEndsKeeps
  <1>5. QED
    BY <1>3, <1>4 DEF NextRow

LEMMA StepIInv == IInv /\ [Next]_vars => IInv'
  <1> SUFFICES ASSUME IInv, [Next]_vars
               PROVE  IInv'
    OBVIOUS
  <1>1. CASE Edit
    BY <1>1, EditKeeps
  <1>2. CASE Start
    BY <1>2 DEF Start, provider, IInv, TypeOK, IteratorState, CountInv, Uncounted, TableInv
  <1>3. CASE Fetch
    BY <1>3, FetchKeeps
  <1>4. CASE FetchRaises
    <2>1. Judged
      BY <1>4 DEF FetchRaises, Judged, IInv, TypeOK, CountInv, TableInv
    <2>2. QED
      BY <1>4, <2>1, FailKeeps DEF FetchRaises
  <1>5. CASE NextRow
    BY <1>5, NextRowKeeps
  <1>6. CASE Abandon
    BY <1>6 DEF Abandon, provider, IInv, TypeOK, IteratorState, CountInv, Uncounted, TableInv
  <1>7. CASE UNCHANGED vars
    BY <1>7 DEF vars, provider, iterator, IInv, TypeOK, CountInv, Uncounted, TableInv
  <1>8. QED
    BY <1>1, <1>2, <1>3, <1>4, <1>5, <1>6, <1>7 DEF Next

-----------------------------------------------------------------------------
(* A provider that makes no mistake *)

\* What such a provider answers is no error: the page with the length of the table, or
\* all of the table, where it is accepted and there is one.
LEMMA ResultOfProperAnswer ==
    ASSUME table \in Seq(Rows), pageNo \in 1 .. MaxPages, NEW answer \in ProperAnswers
    PROVE  LET result == Request!Result(answer)
           IN  /\ result.error = NoTotal
               /\ \/ result.rows = Cut(pageNo) /\ result.total = Len(table)
                  \/ /\ allowUnpaged /\ pageNo = 1 /\ table # <<>>
                     /\ result.rows = table /\ result.total = NoTotal
  <1> DEFINE result == Request!Result(answer)
             operation == IF allowUnpaged THEN "reference" ELSE "page"
  <1>1. operation # "portCalls" /\ operation # "query" /\ operation \in {"page", "reference"}
    OBVIOUS
  <1>2. Cut(pageNo) \in Seq(Rows) /\ Len(table) \in Nat
    BY CutOfTable
  <1>3. ASSUME NEW rows \in Seq(Rows), NEW total \in Nat \cup {NoTotal}, NEW paged \in BOOLEAN,
               answer = Payload("success", Items(rows), total, paged),
               \/ total \in Nat
               \/ allowUnpaged /\ ~paged /\ rows # <<>> /\ total = NoTotal
        PROVE  result.error = NoTotal /\ result.rows = rows /\ result.total = total
    <2>1. /\ answer.header = "success" /\ answer.body.items = Items(rows)
          /\ answer.body.total = total /\ answer.body.paged = paged
          /\ answer.body = [items |-> Items(rows), total |-> total, paged |-> paged]
          /\ Request!FirstHeader(answer) = "success"
      BY <1>3 DEF Payload, Request!FirstHeader
    <2>2. Request!EnvelopeError(answer) = NoTotal /\ Request!FirstHeader(answer) # Request!NotFound
      BY <2>1 DEF Request!EnvelopeError, Request!Refusals, Request!NotFound
    <2>3. Items(rows) \in Seq(Rows) \cup {Empty}
      BY DEF Items
    <2>4. answer.body # Null
      BY <2>1, <2>3, NullIsNoBody
    <2>5. rows # <<>> => Items(rows) = rows /\ rows # Empty /\ rows # Null
      BY NeitherIsAList DEF Items
    <2>6. rows = <<>> => Items(rows) = Empty /\ total \in Nat
      BY <1>3 DEF Items
    <2>7. Request!Complete(rows)
      <3>1. \A i \in 1 .. Len(rows) : rows[i] # "incomplete"
        BY RowsAreComplete
      <3>2. QED
        BY <3>1 DEF Request!Complete, Request!Contains
    <2>8. Request!ItemsValid(answer.body)
      <3>1. CASE rows = <<>>
        <4>1. answer.body.items = Empty /\ answer.body.total \in Int
          BY <2>1, <2>6, <3>1
        <4>2. Request!EmptyIsValid(answer.body)
          BY <1>1, <4>1 DEF Request!EmptyIsValid
        <4>3. QED
          BY <4>1, <4>2, NeitherIsAList DEF Request!ItemsValid
      <3>2. CASE rows # <<>>
        BY <2>1, <2>5, <2>7, <3>2 DEF Request!ItemsValid
      <3>3. QED
        BY <3>1, <3>2
    <2>9. Request!TotalValid(answer)
      BY <1>3, <2>1 DEF Request!TotalValid, Request!Unpaged, Request!Successes
    <2>10. ~Request!Incomplete(answer)
      BY DEF Request!Incomplete
    <2>11. result = Request!Success(Request!RowsOf(answer.body), Request!TotalOf(answer))
      BY <2>2, <2>4, <2>8, <2>9, <2>10 DEF Request!Result
    <2>12. Request!RowsOf(answer.body) = rows
      BY <2>1, <2>5, <2>6 DEF Request!RowsOf
    <2>13. Request!TotalOf(answer) = total
      BY <1>1, <1>3, <2>1, NoTotalIsNoNumber DEF Request!TotalOf
    <2>14. QED
      BY <2>11, <2>12, <2>13 DEF Request!Success
  <1>4. CASE answer = Payload("success", Items(Cut(pageNo)), Len(table), TRUE)
    BY <1>2, <1>3, <1>4
  <1>5. CASE /\ allowUnpaged /\ pageNo = 1 /\ table # <<>>
             /\ answer = Payload("success", table, NoTotal, FALSE)
    <2>1. answer = Payload("success", Items(table), NoTotal, FALSE)
      BY <1>5 DEF Items
    <2>2. QED
      BY <1>3, <1>5, <2>1
  <1>6. QED
    BY <1>4, <1>5 DEF ProperAnswers

\* From one table, answered in full, what was handed on and what is in hand is the
\* beginning of the table: whole pages of it, up to the page in hand, or all of it.
\* A page that was asked for has rows.
CalmInv ==
    calm =>
        /\ \E n \in 0 .. Len(table) : got \o page = SubSeq(table, 1, n)
        /\ unpaged => pageNo = 1 /\ state \notin {"new", "fetching"} /\ got \o page = table
        /\ ~unpaged /\ pageNo > 1 => pageNo * PageSize - PageSize < Len(table)
        /\ state \in {"new", "fetching"} =>
              /\ got = SubSeq(table, 1, (pageNo - 1) * PageSize)
              /\ expectedTotal = IF pageNo = 1 THEN NoTotal ELSE Len(table)
        /\ ~unpaged /\ state = "yielded" =>
              /\ got \o page = SubSeq(table, 1, Reach(table, PageSize, pageNo))
              /\ expectedTotal = Len(table)
        /\ state = "done" => got = table
        /\ state = "failed" => Len(table) > MaxPages * PageSize

\* In a step the provider and its table stay as they are.
Quiet == calm /\ UNCHANGED <<table, calm>>

LEMMA CalmHandOn ==
    ASSUME IInv, CalmInv, Quiet, NEW rows \in Seq(Rows), rows # <<>>, HandOn(rows),
           NEW n \in 0 .. Len(table), got \o rows = SubSeq(table, 1, n),
           unpaged' \in BOOLEAN,
           unpaged' => pageNo = 1 /\ n = Len(table),
           ~unpaged' => /\ n = Reach(table, PageSize, pageNo)
                        /\ expectedTotal' = Len(table)
                        /\ pageNo > 1 => pageNo * PageSize - PageSize < Len(table)
    PROVE  CalmInv'
  <1>1. /\ got \in Seq(Rows) /\ table \in Seq(Rows) /\ IsInjective(table)
        /\ UNCHANGED <<table, calm>>
    BY DEF IInv, TypeOK, Quiet
  <1>2. IsInjective(got \o rows) /\ (n = Len(table) => got \o rows = table)
    BY <1>1, Beginning
  <1>3. /\ Append(got, Head(rows)) \o Tail(rows) = got \o rows
        /\ Head(rows) \notin ToSet(got)
    BY <1>1, <1>2, InOrder
  <1>4. /\ state' = "yielded" /\ pageNo' = pageNo
        /\ got' = Append(got, Head(rows)) /\ page' = Tail(rows)
    BY <1>3 DEF HandOn, AlreadySeen
  <1>5. got' \o page' = SubSeq(table, 1, n)
    BY <1>3, <1>4
  <1>6. QED
    BY <1>1, <1>2, <1>3, <1>4, <1>5 DEF CalmInv

\* At the end of a page the list is complete, or there is another page, or the budget
\* does not hold the table.
LEMMA CalmPageEnds ==
    ASSUME IInv, CalmInv, Quiet, page = <<>>, NEW wasEmpty \in BOOLEAN,
           PageEnds(expectedTotal', wasEmpty, unpaged'),
           unpaged' \in BOOLEAN,
           unpaged' => pageNo = 1 /\ got = table,
           ~unpaged' => /\ got = SubSeq(table, 1, Reach(table, PageSize, pageNo))
                        /\ expectedTotal' = Len(table)
                        /\ pageNo > 1 => pageNo * PageSize - PageSize < Len(table),
           wasEmpty => unpaged' \/ got = table
    PROVE  CalmInv'
  <1> DEFINE upto == Reach(table, PageSize, pageNo)
             asked == pageNo * PageSize
  <1>1. /\ got \in Seq(Rows) /\ table \in Seq(Rows) /\ Len(table) \in Nat
        /\ UNCHANGED <<table, calm>>
        /\ pageNo \in 1 .. MaxPages
    BY DEF IInv, TypeOK, Quiet
  <1>2. pageNo \in Nat \ {0} /\ PageSize \in Nat \ {0}
    BY <1>1, CutOfTable
  <1>3. asked \in Nat
    <2>1. \A a, b \in Nat : a * b \in Nat
      OBVIOUS
    <2>2. QED
      BY <1>2, <2>1
  <1>4. pageNo' = pageNo + 1 => (pageNo' - 1) * PageSize = asked
    <2>1. pageNo' = pageNo + 1 => pageNo' - 1 = pageNo
      BY <1>2
    <2>2. QED
      BY <2>1
  <1>5. pageNo' = pageNo + 1 => pageNo' * PageSize - PageSize = asked /\ pageNo' # 1
    BY <1>2
  <1>6. pageNo = MaxPages => MaxPages * PageSize = asked
    OBVIOUS
  <1>7. /\ upto \in 0 .. Len(table)
        /\ upto # Len(table) => upto = asked /\ asked < Len(table)
    BY <1>1, <1>2, Paged
  <1>8. got \o page = got
    BY <1>1, ConcatEmptySeq
  <1>9. \E n \in 0 .. Len(table) : got \o page = SubSeq(table, 1, n)
    BY <1>1 DEF CalmInv, Quiet
  <1> HIDE DEF upto, asked
  <1>10. ~unpaged' => Len(got) = upto /\ (upto = Len(table) => got = table)
    BY <1>1, <1>7, Beginning DEF upto
  <1>11. CASE /\ unpaged' \/ Complete(expectedTotal')
              /\ state' = "done"
              /\ UNCHANGED <<pageNo, page, got>>
    <2>1. got = table
      BY <1>10, <1>11 DEF Complete
    <2>2. QED
      BY <1>1, <1>8, <1>9, <1>11, <2>1 DEF CalmInv
  <1>12. CASE /\ ~unpaged' /\ ~Complete(expectedTotal')
              /\ wasEmpty \/ BudgetSpent
              /\ Fail
    <2>1. upto # Len(table)
      BY <1>10, <1>12 DEF Complete
    <2>2. ~wasEmpty
      BY <1>10, <1>12, <2>1 DEF Complete
    <2>3. Len(table) > MaxPages * PageSize
      BY <1>1, <1>3, <1>6, <1>7, <1>12, <2>1, <2>2 DEF BudgetSpent
    <2>4. QED
      BY <1>1, <1>9, <1>12, <2>3 DEF CalmInv, Fail
  <1>13. CASE /\ ~unpaged' /\ ~Complete(expectedTotal')
              /\ state' = "fetching"
              /\ pageNo' = pageNo + 1
              /\ UNCHANGED <<page, got>>
    <2>1. upto = asked /\ asked < Len(table)
      BY <1>7, <1>10, <1>13 DEF Complete
    <2>2. got' = SubSeq(table', 1, (pageNo' - 1) * PageSize)
      BY <1>1, <1>4, <1>13, <2>1 DEF upto
    <2>3. QED
      BY <1>1, <1>5, <1>9, <1>13, <2>1, <2>2 DEF CalmInv
  <1>14. QED
    BY <1>11, <1>12, <1>13 DEF PageEnds

LEMMA CalmFetch == IInv /\ CalmInv /\ Fetch /\ calm' => CalmInv'
  <1> SUFFICES ASSUME IInv, CalmInv, Fetch, calm'
               PROVE  CalmInv'
    OBVIOUS
  <1>1. PICK answer \in Answers :
            /\ \/ /\ Request!Result(answer).error # NoTotal
                  /\ Fail
                  /\ UNCHANGED <<expectedTotal, unpaged>>
               \/ /\ Request!Result(answer).error = NoTotal
                  /\ Request!Result(answer).total = NoTotal
                  /\ ReceiveUnpaged(Request!Result(answer).rows)
               \/ /\ Request!Result(answer).error = NoTotal
                  /\ Request!Result(answer).total # NoTotal
                  /\ Receive(Request!Result(answer).rows, Request!Result(answer).total)
            /\ calm' = (calm /\ answer \in ProperAnswers)
    BY DEF Fetch
  <1>2. /\ state = "fetching" /\ page = <<>> /\ Quiet /\ answer \in ProperAnswers
        /\ table \in Seq(Rows) /\ Len(table) \in Nat /\ pageNo \in 1 .. MaxPages
        /\ got \in Seq(Rows)
    <2>1. calm /\ answer \in ProperAnswers
      BY <1>1
    <2>2. calm' = TRUE /\ calm = TRUE
      BY <1>1, <2>1 DEF IInv, TypeOK
    <2>3. state = "fetching" /\ UNCHANGED table
      BY DEF Fetch, provider
    <2>4. /\ table \in Seq(Rows) /\ Len(table) \in Nat /\ pageNo \in 1 .. MaxPages
          /\ got \in Seq(Rows) /\ page = <<>>
      BY <2>3 DEF IInv, TypeOK, CountInv
    <2>5. QED
      BY <2>1, <2>2, <2>3, <2>4 DEF Quiet
  <1> DEFINE before == (pageNo - 1) * PageSize
             upto == Reach(table, PageSize, pageNo)
             asked == pageNo * PageSize
             rows == Cut(pageNo)
  <1>3. /\ got = SubSeq(table, 1, before)
        /\ expectedTotal = IF pageNo = 1 THEN NoTotal ELSE Len(table)
        /\ ~unpaged
        /\ pageNo > 1 => asked - PageSize < Len(table)
    BY <1>2 DEF CalmInv, Quiet, IInv, TypeOK
  <1>4. /\ pageNo \in Nat \ {0} /\ PageSize \in Nat \ {0}
        /\ rows = PageIn(table, PageSize, pageNo) /\ rows \in Seq(Rows)
    BY <1>2, CutOfTable
  <1>5. /\ rows = <<>> => asked - PageSize >= Len(table)
        /\ before <= Len(table) => SubSeq(table, 1, before) \o rows = SubSeq(table, 1, upto)
        /\ before = asked - PageSize
        /\ upto \in 0 .. Len(table)
    BY <1>2, <1>4, Paged
  <1>6. pageNo = 1 => asked = PageSize
    BY <1>4
  <1>7. asked \in Nat
    <2>1. \A a, b \in Nat : a * b \in Nat
      OBVIOUS
    <2>2. QED
      BY <1>4, <2>1
  <1> HIDE DEF before, upto, asked, rows
  <1>8. before <= Len(table) /\ (pageNo = 1 => before = 0)
    BY <1>2, <1>3, <1>4, <1>5, <1>6, <1>7
  <1>9. got \o rows = SubSeq(table, 1, upto) /\ Len(got) + Len(rows) = upto
    <2>1. got \o rows = SubSeq(table, 1, upto)
      BY <1>3, <1>5, <1>8
    <2>2. Len(got \o rows) = Len(got) + Len(rows)
      BY <1>2, <1>4, ConcatProperties
    <2>3. Len(SubSeq(table, 1, upto)) = upto
      BY <1>2, <1>5, Beginning
    <2>4. QED
      BY <2>1, <2>2, <2>3
  <1>10. pageNo = 1 => got = <<>>
    BY <1>2, <1>3, <1>8
  <1>11. CASE allowUnpaged /\ pageNo = 1 /\ table # <<>> /\ ReceiveUnpaged(table)
    <2>1. unpaged' = TRUE /\ HandOn(table)
      BY <1>11 DEF ReceiveUnpaged, CountDropped
    <2>2. got \o table = table
      BY <1>2, <1>10, <1>11, ConcatEmptySeq
    <2>3. Len(table) \in 0 .. Len(table) /\ SubSeq(table, 1, Len(table)) = table
      BY <1>2, Beginning
    <2>4. QED
      BY <1>2, <1>11, <2>1, <2>2, <2>3, CalmHandOn
  <1>12. CASE Receive(rows, Len(table))
    <2>1. unpaged' = FALSE /\ expectedTotal' = Len(table)
      BY <1>3, <1>12 DEF Receive
    <2>2. ~TotalChanged(Len(table)) /\ ~TooMany(rows, Len(table))
      BY <1>2, <1>3, <1>5, <1>9 DEF TotalChanged, TooMany
    <2>3. CASE rows # <<>>
      <3>1. HandOn(rows)
        BY <1>12, <2>2, <2>3 DEF Receive
      <3>2. pageNo > 1 => pageNo * PageSize - PageSize < Len(table)
        BY <1>3 DEF asked
      <3>3. QED
        BY <1>2, <1>4, <1>5, <1>9, <2>1, <2>3, <3>1, <3>2, CalmHandOn DEF upto
    <2>4. CASE rows = <<>>
      <3>1. PageEnds(expectedTotal', TRUE, unpaged')
        BY <1>12, <2>1, <2>2, <2>4 DEF Receive
      <3>2. pageNo = 1 /\ Len(table) = 0
        BY <1>2, <1>3, <1>4, <1>5, <1>6, <1>7, <2>4
      <3>3. got = table
        BY <1>2, <1>10, <3>2
      <3>4. got = SubSeq(table, 1, upto)
        BY <1>2, <1>9, <2>4, ConcatEmptySeq
      <3>5. got = SubSeq(table, 1, Reach(table, PageSize, pageNo))
        BY <3>4 DEF upto
      <3>6. ~(pageNo > 1)
        BY <3>2
      <3>7. TRUE \in BOOLEAN /\ unpaged' \in BOOLEAN /\ ~unpaged'
        BY <2>1
      <3>8. QED
        BY <1>2, <2>1, <3>1, <3>3, <3>5, <3>6, <3>7, CalmPageEnds
    <2>5. QED
      BY <2>3, <2>4
  <1>13. /\ Request!Result(answer).error = NoTotal
         /\ \/ /\ Request!Result(answer).rows = rows
               /\ Request!Result(answer).total = Len(table)
            \/ /\ allowUnpaged /\ pageNo = 1 /\ table # <<>>
               /\ Request!Result(answer).rows = table
               /\ Request!Result(answer).total = NoTotal
    BY <1>2, ResultOfProperAnswer DEF rows
  <1>14. Len(table) # NoTotal
    BY <1>2, NoTotalIsNoNumber
  <1>15. QED
    BY <1>1, <1>11, <1>12, <1>13, <1>14

LEMMA CalmNextRow == IInv /\ CalmInv /\ NextRow /\ calm => CalmInv'
  <1> SUFFICES ASSUME IInv, CalmInv, NextRow, calm
               PROVE  CalmInv'
    OBVIOUS
  <1>1. /\ state = "yielded" /\ Quiet
        /\ UNCHANGED <<expectedTotal, unpaged>> /\ unpaged \in BOOLEAN
        /\ table \in Seq(Rows) /\ Len(table) \in Nat
        /\ got \in Seq(Rows) /\ page \in Seq(Rows) /\ pageNo \in 1 .. MaxPages
    BY DEF NextRow, IInv, TypeOK, Quiet, provider
  <1>2. /\ unpaged => pageNo = 1 /\ got \o page = table
        /\ ~unpaged => /\ got \o page = SubSeq(table, 1, Reach(table, PageSize, pageNo))
                       /\ expectedTotal = Len(table)
                       /\ pageNo > 1 => pageNo * PageSize - PageSize < Len(table)
    BY <1>1 DEF CalmInv
  <1>3. Len(table) \in 0 .. Len(table) /\ SubSeq(table, 1, Len(table)) = table
    BY <1>1, Beginning
  <1>4. Reach(table, PageSize, pageNo) \in 0 .. Len(table)
    BY <1>1, CutOfTable, Paged
  <1>5. CASE page # <<>> /\ HandOn(page)
    <2>1. CASE unpaged
      BY <1>1, <1>2, <1>3, <1>5, <2>1, CalmHandOn
    <2>2. CASE ~unpaged
      BY <1>1, <1>2, <1>4, <1>5, <2>2, CalmHandOn
    <2>3. QED
      BY <2>1, <2>2
  <1>6. CASE page = <<>> /\ PageEnds(expectedTotal, FALSE, unpaged)
    <2>1. got \o page = got
      BY <1>1, <1>6, ConcatEmptySeq
    <2>2. PageEnds(expectedTotal', FALSE, unpaged')
      BY <1>1, <1>6
    <2>3. QED
      BY <1>1, <1>2, <1>6, <2>1, <2>2, CalmPageEnds
  <1>7. QED
    BY <1>5, <1>6 DEF NextRow

LEMMA InitCalmInv == Init => CalmInv
  <1> SUFFICES ASSUME Init
               PROVE  CalmInv
    OBVIOUS
  <1>1. table \in Seq(Rows) /\ Len(table) \in Nat
    BY InitIInv DEF IInv, TypeOK
  <1>2. SubSeq(table, 1, 0) = <<>> /\ 0 \in 0 .. Len(table)
    BY <1>1
  <1>3. (1 - 1) * PageSize = 0
    BY PageSizePositive
  <1>4. <<>> \o <<>> = <<>>
    BY <1>1, NoElements, ConcatEmptySeq
  <1>5. \E n \in 0 .. Len(table) : <<>> \o <<>> = SubSeq(table, 1, n)
    BY <1>2, <1>4
  <1>6. QED
    BY <1>2, <1>3, <1>5 DEF Init, CalmInv

LEMMA StepCalmInv == IInv /\ CalmInv /\ [Next]_vars => CalmInv'
  <1> SUFFICES ASSUME IInv, CalmInv, [Next]_vars, calm'
               PROVE  CalmInv'
    BY DEF CalmInv
  <1>1. CASE Edit
    BY <1>1 DEF Edit
  <1>2. CASE Start
    BY <1>2 DEF Start, provider, CalmInv
  <1>3. CASE Fetch
    BY <1>3, CalmFetch
  <1>4. CASE FetchRaises
    BY <1>4 DEF FetchRaises
  <1>5. CASE NextRow
    BY <1>5, CalmNextRow DEF NextRow
  <1>6. CASE Abandon
    BY <1>6 DEF Abandon, provider, CalmInv
  <1>7. CASE UNCHANGED vars
    BY <1>7 DEF vars, provider, iterator, CalmInv
  <1>8. QED
    BY <1>1, <1>2, <1>3, <1>4, <1>5, <1>6, <1>7 DEF Next

-----------------------------------------------------------------------------
(* The theorems *)

\* What was strengthened until every step preserves it holds of every behaviour.
THEOREM Invariance == Spec => []IInv
  BY InitIInv, StepIInv, PTL DEF Spec

\* Every variable keeps its type; in particular no page is asked for beyond the
\* call budget.
THEOREM TypeCorrect == Spec => []TypeOK
  <1>1. IInv => TypeOK
    BY DEF IInv
  <1>2. QED
    BY Invariance, <1>1, PTL

\* A list that ends normally has the announced length and no row twice, whatever
\* the provider answers.
THEOREM EndsComplete == Spec => []EndsOnlyComplete
  <1>1. IInv => EndsOnlyComplete
    <2> SUFFICES ASSUME IInv, state = "done"
                 PROVE  /\ IsInjective(got)
                        /\ IF expectedTotal = NoTotal
                           THEN allowUnpaged /\ pageNo = 1
                           ELSE Len(got) = expectedTotal
      BY DEF EndsOnlyComplete
    <2>1. Len(got) # NoTotal
      BY NoTotalIsNoNumber DEF IInv, TypeOK
    <2>2. QED
      BY <2>1 DEF IInv, CountInv, Uncounted
  <1>2. QED
    BY Invariance, <1>1, PTL

\* A list that ends normally is the provider's, if no row came or went.
THEOREM EndsWhole == Spec => []WholeIfNoneCameOrWent
  <1>1. IInv => WholeIfNoneCameOrWent
    <2> SUFFICES ASSUME IInv, state = "done", ~churned
                 PROVE  ToSet(got) = ToSet(table)
      BY DEF WholeIfNoneCameOrWent
    <2>1. CASE unpaged
      BY <2>1 DEF IInv, TableInv
    <2>2. CASE ~unpaged
      <3>1. /\ got \in Seq(Rows) /\ IsInjective(got)
            /\ table \in Seq(Rows) /\ IsInjective(table)
        BY DEF IInv, TypeOK, CountInv
      <3>2. Len(got) = expectedTotal /\ Len(got) \in Nat
        BY <2>2, <3>1 DEF IInv, CountInv
      <3>3. Len(got) = Len(table) /\ ToSet(got) \subseteq ToSet(table)
        BY <3>2, NoTotalIsNoNumber DEF IInv, TableInv
      <3>4. QED
        BY <3>1, <3>3, SameLengthSameSet
    <2>3. QED
      BY <2>1, <2>2 DEF IInv, TypeOK
  <1>2. QED
    BY Invariance, <1>1, PTL

LEMMA CalmInvariance == Spec => [](IInv /\ CalmInv)
  BY InitIInv, StepIInv, InitCalmInv, StepCalmInv, PTL DEF Spec

\* A provider that answers in full from one table makes an iterator fail only if the
\* budget does not hold the table, and its rows come in the order of the table.
THEOREM CalmSuffices == Spec => []CalmProviderSuffices
  <1>1. IInv /\ CalmInv => CalmProviderSuffices
    <2> SUFFICES ASSUME IInv, CalmInv, calm
                 PROVE  IsPrefix(got, table)
      BY DEF CalmInv, CalmProviderSuffices
    <2>1. PICK n \in 0 .. Len(table) : got \o page = SubSeq(table, 1, n)
      BY DEF CalmInv
    <2>2. QED
      BY <2>1, FirstPart DEF IInv, TypeOK
  <1>2. QED
    BY CalmInvariance, <1>1, PTL

\* And the last page it was asked for had rows, unless the table has none.
THEOREM NoneWasted == Spec => []NoWastedRequest
  <1>1. IInv /\ CalmInv => NoWastedRequest
    <2> SUFFICES ASSUME IInv, CalmInv, calm, state = "done", pageNo # 1
                 PROVE  ~unpaged /\ (pageNo - 1) * PageSize < Len(table)
      BY DEF NoWastedRequest
    <2>1. pageNo \in Nat \ {0} /\ PageSize \in Nat \ {0} /\ pageNo > 1 /\ unpaged \in BOOLEAN
      BY PageSizePositive, MaxPagesPositive DEF IInv, TypeOK
    <2>2. ~unpaged /\ pageNo * PageSize - PageSize < Len(table)
      BY <2>1 DEF CalmInv
    <2>3. (pageNo - 1) * PageSize = pageNo * PageSize - PageSize
      BY <2>1
    <2>4. QED
      BY <2>2, <2>3
  <1>2. QED
    BY CalmInvariance, <1>1, PTL

-----------------------------------------------------------------------------
(* Composition with MaritimeAnswers *)

\* What MaritimeAnswers assumes of its constants (ListsOfRows, TotalsAreIntegers,
\* NoneIsNoNumber, NoneIsNoError) holds of those it is given for a page.
LEMMA RequestMayBeMade ==
    /\ Seq(Rows) \ {<<>>} \subseteq Seq(Rows \cup {"incomplete"}) \ {<<>>}
    /\ Nat \subseteq Int
    /\ NoTotal \notin Int
    /\ NoTotal \notin {"auth", "rate", "parameter", "server", "network"}
  <1>1. Seq(Rows) \subseteq Seq(Rows \cup {"incomplete"})
    OBVIOUS
  <1>2. QED
    BY <1>1, NoTotalIsNoNumber, NoTotalIsNoError
=============================================================================
