-------------------------- MODULE FileTablesProofs --------------------------
(***************************************************************************)
(* Proofs about FileTables for every set of headers and rows, every limit, *)
(* all sizes a workbook may declare and every table of rows known to be    *)
(* exchanged.                                                              *)
(***************************************************************************)
EXTENDS FileTables, SequenceLemmas, TLAPS

-----------------------------------------------------------------------------
(* Files *)

\* The cells a file may have, and a row as a parser keeps it.
Cells == (UNION {ToSet(row) : row \in Lines}) \cup {Blank}
Kept == [ToSet(headers) -> Cells]

LEMMA MinOfTwo ==
    ASSUME NEW a \in Int, NEW b \in Int
    PROVE  Min({a, b}) = IF a <= b THEN a ELSE b
  <1>1. CASE a <= b
    <2>1. \A x \in {a, b} : (\A y \in {a, b} : x <= y) <=> x = a
      BY <1>1
    <2>2. Min({a, b}) = a
      BY <2>1 DEF Min
    <2>3. QED
      BY <1>1, <2>2
  <1>2. CASE ~(a <= b)
    <2>1. \A x \in {a, b} : (\A y \in {a, b} : x <= y) <=> x = b
      BY <1>2
    <2>2. Min({a, b}) = b
      BY <2>1 DEF Min
    <2>3. QED
      BY <1>2, <2>2
  <1>3. QED
    BY <1>1, <1>2

\* What a file consists of.
LEMMA FileParts ==
    ASSUME NEW f \in Files
    PROVE  /\ f.header \in Seq(Columns \cup {Blank})
           /\ f.rows \in Seq(Lines)
           /\ \A i \in 1 .. Len(f.rows) : f.rows[i] \in Seq(Cells)
           /\ f.size # Undeclared => f.size.rows \in Nat \ {0} /\ f.size.columns \in Nat \ {0}
  <1> DEFINE rows == f.rows
             size == f.size
  <1>1. f.header \in Headers /\ rows \in BoundedSeq(Lines, MaxLength) /\ size \in Sizes
    BY DEF Files
  <1>2. rows \in Seq(Lines)
    <2>1. PICK n \in 0 .. MaxLength : rows \in [1 .. n -> Lines]
      BY <1>1 DEF BoundedSeq, SeqOf
    <2>2. n \in Nat
      BY LimitsPositive
    <2>3. QED
      BY <2>1, <2>2
  <1>3. ASSUME NEW i \in 1 .. Len(rows)
        PROVE  rows[i] \in Seq(Cells)
    <2>1. rows[i] \in Lines
      BY <1>2
    <2>2. rows[i] \in Seq(ToSet(rows[i])) /\ ToSet(rows[i]) \subseteq Cells
      BY <2>1, LinesOfCells DEF Cells
    <2>3. QED
      BY <2>2
  <1>4. size # Undeclared => size.rows \in Nat \ {0} /\ size.columns \in Nat \ {0}
    BY <1>1, DeclaredPositive DEF Sizes
  <1>5. QED
    BY <1>1, <1>2, <1>3, <1>4, HeadersOfColumns

-----------------------------------------------------------------------------
(* Places *)

\* The numbers of a set that come before k.
Under(S, k) == {j \in S : j < k}

\* They are finitely many, one more after a number of the set, and each number of the
\* set has its place among them.
LEMMA Places ==
    ASSUME NEW m \in Nat, NEW S, S \subseteq 1 .. m
    PROVE  /\ \A k \in Nat : IsFiniteSet(Under(S, k)) /\ Cardinality(Under(S, k)) \in Nat
           /\ Cardinality(Under(S, 1)) = 0
           /\ Under(S, m + 1) = S
           /\ \A k \in Nat : Cardinality(Under(S, k + 1)) =
                 IF k \in S THEN Cardinality(Under(S, k)) + 1 ELSE Cardinality(Under(S, k))
           /\ \A i \in S : \A k \in Nat : i < k =>
                 Cardinality(Under(S, i + 1)) \in 1 .. Cardinality(Under(S, k))
  <1>1. \A i \in S : i \in Nat /\ 1 <= i /\ i <= m
    OBVIOUS
  <1>2. IsFiniteSet(S)
    <2>1. IsFiniteSet(1 .. m)
      BY FS_Interval
    <2>2. QED
      BY <2>1, FS_Subset
  <1>3. ASSUME NEW k \in Nat
        PROVE  IsFiniteSet(Under(S, k)) /\ Cardinality(Under(S, k)) \in Nat
    <2>1. Under(S, k) \subseteq S
      BY DEF Under
    <2>2. QED
      BY <1>2, <2>1, FS_Subset, FS_CardinalityType
  <1>4. ASSUME NEW k \in Nat
        PROVE  Cardinality(Under(S, k + 1)) =
                 IF k \in S THEN Cardinality(Under(S, k)) + 1 ELSE Cardinality(Under(S, k))
    <2>1. k \notin Under(S, k)
      BY DEF Under
    <2>2. \A j \in S : j < k + 1 <=> j < k \/ j = k
      BY <1>1
    <2>3. CASE k \in S
      <3>1. Under(S, k + 1) = Under(S, k) \cup {k}
        BY <2>2, <2>3 DEF Under
      <3>2. QED
        BY <1>3, <2>1, <2>3, <3>1, FS_AddElement
    <2>4. CASE k \notin S
      <3>1. Under(S, k + 1) = Under(S, k)
        BY <2>2, <2>4 DEF Under
      <3>2. QED
        BY <2>4, <3>1
    <2>5. QED
      BY <2>3, <2>4
  <1>5. ASSUME NEW i \in S, NEW k \in Nat, i < k
        PROVE  Cardinality(Under(S, i + 1)) \in 1 .. Cardinality(Under(S, k))
    <2>1. i \in Nat /\ Cardinality(Under(S, i + 1)) = Cardinality(Under(S, i)) + 1
      BY <1>1, <1>4
    <2>2. \A j \in S : j < i + 1 => j < k
      BY <1>1, <1>5
    <2>3. Under(S, i + 1) \subseteq Under(S, k)
      BY <2>2 DEF Under
    <2>4. Cardinality(Under(S, i + 1)) <= Cardinality(Under(S, k))
      BY <1>3, <2>3, FS_Subset
    <2>5. Cardinality(Under(S, i)) \in Nat /\ Cardinality(Under(S, k)) \in Nat
      BY <1>3, <2>1
    <2>6. QED
      BY <2>1, <2>4, <2>5
  <1>6. Cardinality(Under(S, 1)) = 0
    <2>1. \A j \in S : ~(j < 1)
      BY <1>1
    <2>2. Under(S, 1) = {}
      BY <2>1 DEF Under
    <2>3. QED
      BY <2>2, FS_EmptySet
  <1>7. Under(S, m + 1) = S
    <2>1. \A j \in S : j < m + 1
      BY <1>1
    <2>2. QED
      BY <2>1 DEF Under
  <1>8. QED
    BY <1>3, <1>4, <1>5, <1>6, <1>7

-----------------------------------------------------------------------------
(* The inductive invariant *)

\* A parser keeps no more rows than it has read, and reads no more than max_rows.
TypeInv ==
    /\ operation \in Operations
    /\ file \in Files
    /\ state \in {"new", "reading", "returned", "refused", "escaped"}
    /\ headers \in Seq(Columns \cup {Blank})
    /\ next \in 1 .. Len(file.rows) + 1
    /\ records \in Seq(Kept)
    /\ state = "new" => headers = <<>> /\ records = <<>> /\ next = 1
    /\ IsWorkbook => Len(headers) <= MaxColumns /\ next <= MaxRows
    /\ Len(records) < next

\* The columns of a file that is as declared are those of its header.
Faithful ==
    /\ headers = file.header /\ IsInjective(headers)
    /\ IsWorkbook => Len(headers) = file.size.columns

\* What is returned was acceptable, and read to the end.
ReadInv ==
    state \in {"reading", "returned"} =>
        /\ IsWorkbook => file.size # Undeclared
        /\ AsDeclared => Faithful
        /\ state = "returned" => Acceptable /\ next > RowsShown

IInv == TypeInv /\ ReadInv

\* The rows shown are rows of the file, and all of them if the file is as declared.
LEMMA Shown ==
    ASSUME TypeInv, IsWorkbook => file.size # Undeclared
    PROVE  /\ RowsShown \in Int /\ RowsShown <= Len(file.rows)
           /\ AsDeclared => RowsShown = Len(file.rows)
  <1>1. Len(file.rows) \in Nat
    BY FileParts DEF TypeInv
  <1>2. CASE ~IsWorkbook
    BY <1>1, <1>2 DEF RowsShown
  <1>3. CASE IsWorkbook
    <2>1. file.size.rows \in Nat /\ file.size.rows - 1 \in Int
      BY <1>3, FileParts DEF TypeInv
    <2>2. RowsShown = IF Len(file.rows) <= file.size.rows - 1
                      THEN Len(file.rows) ELSE file.size.rows - 1
      BY <1>1, <1>3, <2>1, MinOfTwo DEF RowsShown
    <2>3. AsDeclared => file.size.rows > Len(file.rows)
      BY <1>3 DEF AsDeclared
    <2>4. QED
      BY <1>1, <2>1, <2>2, <2>3
  <1>4. QED
    BY <1>2, <1>3

LEMMA InitIInv == Init => IInv
  <1> SUFFICES ASSUME Init
               PROVE  IInv
    OBVIOUS
  <1>1. Len(file.rows) \in Nat
    BY FileParts DEF Init
  <1>2. 1 \in 1 .. Len(file.rows) + 1
    BY <1>1
  <1>3. Len(<<>>) = 0 /\ 0 < 1 /\ 0 <= MaxColumns /\ 1 <= MaxRows
    BY LimitsPositive
  <1>4. <<>> \in Seq(Columns \cup {Blank}) /\ <<>> \in Seq(Kept)
    OBVIOUS
  <1>5. QED
    BY <1>2, <1>3, <1>4 DEF Init, IInv, TypeInv, ReadInv

LEMMA BlankIsCell == Blank \in Cells
  BY DEF Cells

\* A record has a cell of the row, or none, under each of the names.
LEMMA RecordKept ==
    ASSUME NEW row \in Seq(Cells), headers \in Seq(Columns \cup {Blank})
    PROVE  /\ Record(row) \in Kept
           /\ IsInjective(headers) =>
                 \A n \in 1 .. Len(headers) : Record(row)[headers[n]] = Cell(row, n)
  <1>1. \A n : Cell(row, n) \in Cells
    <2>1. Blank \in Cells
      BY BlankIsCell
    <2>2. \A n \in DOMAIN row : row[n] \in Cells
      OBVIOUS
    <2>3. QED
      BY <2>1, <2>2 DEF Cell
  <1>2. Record(row) \in Kept
    BY <1>1 DEF Record, Kept
  <1>3. DOMAIN headers = 1 .. Len(headers) /\ Len(headers) \in Nat
    OBVIOUS
  <1>4. ASSUME IsInjective(headers), NEW n \in 1 .. Len(headers)
        PROVE  Record(row)[headers[n]] = Cell(row, n)
    <2>1. {m \in DOMAIN headers : headers[m] = headers[n]} = {n}
      BY <1>3, <1>4 DEF IsInjective
    <2>2. Max({n}) = n
      BY DEF Max
    <2>3. headers[n] \in ToSet(headers)
      BY <1>3 DEF ToSet
    <2>4. QED
      BY <2>1, <2>2, <2>3 DEF Record
  <1>5. QED
    BY <1>2, <1>4

\* Nothing that is read off the file alone changes.
LEMMA SameFile ==
    ASSUME UNCHANGED <<operation, file>>
    PROVE  /\ RowsShown' = RowsShown
           /\ AsDeclared' <=> AsDeclared
           /\ IsWorkbook' <=> IsWorkbook
  BY DEF RowsShown, AsDeclared, IsWorkbook

\* Nor does what was made of it as long as no row is read.
LEMMA SameTable ==
    ASSUME UNCHANGED <<operation, file, headers, next, records>>
    PROVE  /\ Faithful => Faithful'
           /\ Acceptable => Acceptable'
           /\ next > RowsShown => (next > RowsShown)'
  <1>1. Faithful => Faithful'
    BY SameFile DEF Faithful
  <1>2. Required' = Required
    BY DEF Required, Operations
  <1>3. \A record : Invalid(record)' <=> Invalid(record)
    <2>1. TAKE record
    <2>2. Incomplete(record)' <=> Incomplete(record)
      BY <1>2 DEF Incomplete
    <2>3. QED
      BY <2>2 DEF Invalid, Numeric, OutOfRange, Written, Value
  <1>4. Acceptable => Acceptable'
    BY <1>2, <1>3 DEF Acceptable
  <1>5. QED
    BY <1>1, <1>4, SameFile

\* Whoever begins to read has read nothing.
LEMMA Begins ==
    ASSUME IInv, state = "new", UNCHANGED <<operation, file, next, records>>,
           state' = "reading",
           headers' \in Seq(Columns \cup {Blank}),
           IsWorkbook => Len(headers') <= MaxColumns /\ file.size # Undeclared,
           AsDeclared => /\ headers' = file.header /\ IsInjective(headers')
                         /\ IsWorkbook => Len(headers') = file.size.columns
    PROVE  IInv'
  <1>1. TypeInv /\ records = <<>> /\ next = 1
    BY DEF IInv, TypeInv
  <1>2. TypeInv'
    <2>1. records' \in Seq(Kept')
      BY <1>1
    <2>2. IsWorkbook' <=> IsWorkbook
      BY DEF IsWorkbook
    <2>3. QED
      BY <1>1, <2>1, <2>2 DEF TypeInv
  <1>3. AsDeclared => Faithful'
    <2>1. SUFFICES ASSUME AsDeclared
                   PROVE  Faithful'
      OBVIOUS
    <2>2. headers' = file'.header /\ IsInjective(headers')
      BY <2>1
    <2>3. IsWorkbook' => Len(headers') = file'.size.columns
      BY <2>1, SameFile
    <2>4. QED
      BY <2>2, <2>3 DEF Faithful
  <1>4. ReadInv'
    BY <1>3, SameFile DEF ReadInv
  <1>5. QED
    BY <1>2, <1>4 DEF IInv

\* Whoever stops without a result has nothing to answer for.
LEMMA Stops ==
    ASSUME IInv, UNCHANGED <<operation, file, headers, next, records>>,
           state' \in {"refused", "escaped"}
    PROVE  IInv'
  BY DEF IInv, TypeInv, ReadInv, IsWorkbook, Kept

LEMMA OpenWorkbookKeeps == IInv /\ OpenWorkbook => IInv'
  <1> SUFFICES ASSUME IInv, OpenWorkbook
               PROVE  IInv'
    OBVIOUS
  <1> DEFINE columns == file.size.columns
             found == [n \in 1 .. columns |-> Cell(file.header, n)]
  <1>1. state = "new" /\ IsWorkbook /\ TypeInv /\ UNCHANGED <<operation, file>>
    BY DEF OpenWorkbook, IInv
  <1>2. CASE state' \in {"refused", "escaped"} /\ UNCHANGED <<headers, next, records>>
    BY <1>1, <1>2, Stops
  <1>3. CASE /\ file.size # Undeclared
             /\ ~(TooLarge(file.size) \/ Contains(found, Blank) \/ ~IsInjective(found))
             /\ state' = "reading" /\ headers' = found /\ UNCHANGED <<next, records>>
    <2>1. /\ file.header \in Seq(Columns \cup {Blank})
          /\ file.size.rows \in Nat /\ columns \in Nat \ {0}
      BY <1>1, <1>3, FileParts DEF TypeInv
    <2>2. DOMAIN file.header = 1 .. Len(file.header) /\ Len(file.header) \in Nat
      BY <2>1
    <2>3. columns <= MaxColumns
      BY <1>3, <2>1, LimitsPositive DEF TooLarge
    <2> HIDE DEF columns
    <2>4. \A n \in 1 .. columns : Cell(file.header, n) \in Columns \cup {Blank}
      BY <2>1 DEF Cell
    <2>5. found \in Seq(Columns \cup {Blank}) /\ Len(found) = columns
      BY <2>1, <2>4
    <2>6. \A n \in 1 .. columns : found[n] = Cell(file.header, n) /\ found[n] # Blank
      BY <1>3, <2>5 DEF Contains
    <2>7. ASSUME AsDeclared
          PROVE  found = file.header
      <3>1. Len(file.header) <= columns
        BY <1>1, <2>7 DEF AsDeclared, columns
      <3>2. columns \in DOMAIN file.header
        BY <2>1, <2>6 DEF Cell
      <3>3. Len(file.header) = columns
        BY <2>1, <2>2, <3>1, <3>2
      <3>4. \A n \in 1 .. columns : found[n] = file.header[n]
        BY <2>2, <2>6, <3>3 DEF Cell
      <3> HIDE DEF found
      <3>5. QED
        BY <2>1, <2>5, <3>3, <3>4, SeqEqual
    <2> HIDE DEF found
    <2>8. QED
      BY <1>1, <1>3, <2>3, <2>5, <2>7, Begins DEF columns
  <1>4. QED
    BY <1>1, <1>2, <1>3 DEF OpenWorkbook, Refuse

LEMMA OpenCsvKeeps == IInv /\ OpenCsv => IInv'
  <1> SUFFICES ASSUME IInv, OpenCsv
               PROVE  IInv'
    OBVIOUS
  <1>1. state = "new" /\ ~IsWorkbook /\ TypeInv /\ UNCHANGED <<operation, file>>
    BY DEF OpenCsv, IInv
  <1>2. CASE Refuse
    BY <1>1, <1>2, Stops DEF Refuse
  <1>3. CASE state' = "reading" /\ headers' = file.header /\ UNCHANGED <<next, records>>
    <2>1. file.header \in Seq(Columns \cup {Blank})
      BY <1>1, FileParts DEF TypeInv
    <2>2. AsDeclared => IsInjective(file.header)
      BY <1>1 DEF AsDeclared
    <2>3. QED
      BY <1>1, <1>3, <2>1, <2>2, Begins
  <1>4. QED
    BY <1>2, <1>3 DEF OpenCsv

\* A row with something in it is kept behind the others, one without is passed over.
LEMMA ReadRowKeeps == IInv /\ ReadRow => IInv'
  <1> SUFFICES ASSUME IInv, ReadRow
               PROVE  IInv'
    OBVIOUS
  <1> DEFINE record == Record(file.rows[next])
  <1>1. /\ TypeInv /\ ReadInv /\ state = "reading" /\ next <= RowsShown
        /\ UNCHANGED <<operation, file>>
    BY DEF ReadRow, IInv
  <1>2. CASE Refuse
    BY <1>1, <1>2, Stops DEF Refuse
  <1>3. CASE /\ ~(IsWorkbook /\ TooManyRows(next + 1))
             /\ records' = IF IsBlank(record) THEN records ELSE Append(records, record)
             /\ next' = next + 1
             /\ UNCHANGED <<state, headers>>
    <2>1. IsWorkbook => file.size # Undeclared
      BY <1>1 DEF ReadInv
    <2>2. /\ next \in Nat /\ Len(file.rows) \in Nat /\ next \in 1 .. Len(file.rows)
          /\ RowsShown \in Int /\ RowsShown <= Len(file.rows)
      <3>1. RowsShown \in Int /\ RowsShown <= Len(file.rows)
        BY <1>1, <2>1, Shown
      <3>2. Len(file.rows) \in Nat /\ next \in 1 .. Len(file.rows) + 1
        BY <1>1, FileParts DEF TypeInv
      <3>3. QED
        BY <1>1, <3>1, <3>2
    <2>3. record \in Kept
      BY <1>1, <2>2, FileParts, RecordKept DEF TypeInv
    <2> HIDE DEF record
    <2>4. /\ records' \in Seq(Kept) /\ Len(records) \in Nat
          /\ Len(records') = IF IsBlank(record) THEN Len(records) ELSE Len(records) + 1
      BY <1>1, <1>3, <2>3 DEF TypeInv
    <2>5. TypeInv'
      <3>1. records' \in Seq(Kept') /\ (IsWorkbook' <=> IsWorkbook)
        BY <1>1, <1>3, <2>4 DEF Kept, IsWorkbook
      <3>2. next' \in 1 .. Len(file.rows) + 1 /\ Len(records') < next'
        BY <1>1, <1>3, <2>2, <2>4 DEF TypeInv
      <3>3. IsWorkbook => next' <= MaxRows
        BY <1>3, <2>2, LimitsPositive DEF TooManyRows
      <3>4. QED
        BY <1>1, <1>3, <3>1, <3>2, <3>3 DEF TypeInv
    <2>6. AsDeclared => Faithful'
      <3>1. SUFFICES ASSUME AsDeclared
                     PROVE  Faithful'
        OBVIOUS
      <3>2. Faithful
        BY <1>1, <3>1 DEF ReadInv
      <3>3. QED
        BY <1>1, <1>3, <3>2, SameFile DEF Faithful
    <2>7. ReadInv'
      BY <1>1, <1>3, <2>1, <2>6, SameFile DEF ReadInv
    <2>8. QED
      BY <2>5, <2>7 DEF IInv
  <1>4. QED
    BY <1>1, <1>2, <1>3 DEF ReadRow

LEMMA EndOfRowsKeeps == IInv /\ EndOfRows => IInv'
  <1> SUFFICES ASSUME IInv, EndOfRows
               PROVE  IInv'
    OBVIOUS
  <1>1. /\ TypeInv /\ ReadInv /\ state = "reading" /\ next > RowsShown
        /\ UNCHANGED <<operation, file, headers, next, records>>
    BY DEF EndOfRows, IInv
  <1>2. CASE ~Acceptable
    BY <1>1, <1>2, Stops DEF EndOfRows
  <1>3. CASE Acceptable
    <2>1. state' = "returned"
      BY <1>3 DEF EndOfRows
    <2>2. TypeInv'
      BY <1>1, <2>1 DEF TypeInv, IsWorkbook, Kept
    <2>3. Faithful => Faithful'
      BY <1>1, SameTable
    <2>4. Acceptable' /\ (next > RowsShown)'
      BY <1>1, <1>3, SameTable
    <2>5. ReadInv'
      BY <1>1, <2>1, <2>3, <2>4, SameFile DEF ReadInv
    <2>6. QED
      BY <2>2, <2>5 DEF IInv
  <1>4. QED
    BY <1>2, <1>3

LEMMA StepIInv == IInv /\ [Next]_vars => IInv'
  <1> SUFFICES ASSUME IInv, [Next]_vars
               PROVE  IInv'
    OBVIOUS
  <1>1. CASE CannotOpen
    BY <1>1, Stops DEF CannotOpen
  <1>2. CASE OpenWorkbook
    BY <1>2, OpenWorkbookKeeps
  <1>3. CASE OpenCsv
    BY <1>3, OpenCsvKeeps
  <1>4. CASE ReadRow
    BY <1>4, ReadRowKeeps
  <1>5. CASE BreaksOff
    <2>1. state' \in {"refused", "escaped"}
      BY <1>5 DEF BreaksOff
    <2>2. QED
      BY <1>5, <2>1, Stops DEF BreaksOff
  <1>6. CASE EndOfRows
    BY <1>6, EndOfRowsKeeps
  <1>7. CASE UNCHANGED vars
    <2>1. UNCHANGED <<operation, file, state, headers, next, records>>
      BY <1>7 DEF vars
    <2>2. TypeInv'
      BY <2>1 DEF IInv, TypeInv, IsWorkbook, Kept
    <2>3. Faithful => Faithful'
      BY <2>1, SameTable
    <2>4. Acceptable /\ next > RowsShown => Acceptable' /\ (next > RowsShown)'
      BY <2>1, SameTable
    <2>5. ReadInv'
      BY <2>1, <2>3, <2>4, SameFile DEF IInv, ReadInv
    <2>6. QED
      BY <2>2, <2>5 DEF IInv
  <1>8. QED
    BY <1>1, <1>2, <1>3, <1>4, <1>5, <1>6, <1>7 DEF Next

LEMMA Invariance == Spec => []IInv
  BY InitIInv, StepIInv, PTL DEF Spec

-----------------------------------------------------------------------------
(* The properties *)

\* A parser is in a state it can be in, keeps its rows under the names of its
\* columns, and no more of a workbook than max_rows and max_columns.
THEOREM TypeCorrect == Spec => []TypeOK
  <1>1. ASSUME IInv
        PROVE  TypeOK
    <2>1. TypeInv
      BY <1>1 DEF IInv
    <2>2. \A record \in ToSet(records) : DOMAIN record = ToSet(headers)
      <3>1. ToSet(records) \subseteq Kept
        BY <2>1 DEF TypeInv, ToSet
      <3>2. QED
        BY <3>1 DEF Kept
    <2>3. IsWorkbook => Len(records) < MaxRows
      <3>1. Len(records) \in Nat /\ Len(file.rows) \in Nat
        BY <2>1, FileParts DEF TypeInv
      <3>2. QED
        BY <2>1, <3>1, LimitsPositive DEF TypeInv
    <2>4. QED
      BY <2>1, <2>2, <2>3 DEF TypeInv, TypeOK
  <1>2. QED
    BY <1>1, Invariance, PTL

\* A station's coordinates are those of the file or none, exchanged only where this
\* was verified and there not lost, and never impossible.
THEOREM StationsRight == Spec => []StationsWhereTheyAre
  <1>1. ASSUME IInv, state = "returned", operation = "stations",
               NEW record \in ToSet(records)
        PROVE  /\ ~OutOfRange(PlaceOf(record))
               /\ PlaceOf(record) = None => Written(record) = None \/ OutOfRange(Written(record))
               /\ PlaceOf(record) \notin {None, Written(record)} =>
                     /\ record["key"] \in DOMAIN Known
                     /\ <<PlaceOf(record)[2], PlaceOf(record)[1]>> = Known[record["key"]]
               /\ KnownExchanged(record) => PlaceOf(record) # None
    <2>1. CASE KnownExchanged(record)
      <3>1. /\ record["key"] \in DOMAIN Known /\ Written(record) = Known[record["key"]]
            /\ PlaceOf(record) = <<Written(record)[2], Written(record)[1]>>
        BY <2>1 DEF KnownExchanged, PlaceOf, Exchange
      <3>2. PICK lon \in -90 .. 90, lat \in -180 .. 180 : Known[record["key"]] = <<lon, lat>>
        <4>1. \A pair \in (-90 .. 90) \X (-180 .. 180) :
                 pair[1] \in -90 .. 90 /\ pair[2] \in -180 .. 180 /\ pair = <<pair[1], pair[2]>>
          OBVIOUS
        <4>2. QED
          BY <3>1, <4>1, KnownInRange
      <3>3. PlaceOf(record) = <<lat, lon>>
        BY <3>1, <3>2
      <3>4. lat \in -180 .. 180 /\ lon \in -90 .. 90 /\ lat \in Int
        OBVIOUS
      <3>5. ~OutOfRange(PlaceOf(record))
        BY <3>3, <3>4 DEF OutOfRange
      <3>6. PlaceOf(record) # None
        BY <3>3, <3>4, BlankIsNoNumber DEF None
      <3>7. <<PlaceOf(record)[2], PlaceOf(record)[1]>> = Known[record["key"]]
        BY <3>2, <3>3
      <3>8. QED
        BY <3>1, <3>5, <3>6, <3>7
    <2>2. CASE ~KnownExchanged(record)
      <3>1. PlaceOf(record) = IF OutOfRange(Written(record)) THEN None ELSE Written(record)
        BY <2>2 DEF PlaceOf
      <3>2. ~OutOfRange(None)
        BY BlankIsNoNumber DEF OutOfRange, None
      <3>3. QED
        BY <2>2, <3>1, <3>2
    <2>3. QED
      BY <2>1, <2>2
  <1>2. IInv => StationsWhereTheyAre
    BY <1>1 DEF StationsWhereTheyAre
  <1>3. QED
    BY <1>2, Invariance, PTL

\* A list of codes or of locations has something in it, and all of it can be used.
THEOREM HiddenNothing == Spec => []NothingHidden
  <1>1. ASSUME IInv, state = "returned", operation \in {"codes", "guideline"}
        PROVE  /\ records # <<>>
               /\ \A record \in ToSet(records) :
                     /\ Value(record, "key") # Blank
                     /\ operation = "guideline" =>
                           /\ Value(record, "lon") \in -180 .. 180
                           /\ Value(record, "lat") \in -90 .. 90
    <2>1. TypeInv /\ Acceptable
      BY <1>1 DEF IInv, ReadInv
    <2>2. records # <<>> /\ Required[operation] \subseteq ToSet(headers)
      BY <1>1, <2>1 DEF Acceptable
    <2>3. "key" \in Required[operation]
      BY <1>1 DEF Required, Operations
    <2>4. operation = "guideline" => {"lon", "lat"} \subseteq Required[operation]
      BY <1>1 DEF Required, Operations
    <2>5. ASSUME NEW record \in ToSet(records)
          PROVE  /\ Value(record, "key") # Blank
                 /\ operation = "guideline" =>
                       /\ Value(record, "lon") \in -180 .. 180
                       /\ Value(record, "lat") \in -90 .. 90
      <3>1. DOMAIN record = ToSet(headers)
        <4>1. ToSet(records) \subseteq Kept
          BY <2>1 DEF TypeInv, ToSet
        <4>2. QED
          BY <4>1 DEF Kept
      <3>2. ~Invalid(record)
        BY <2>1 DEF Acceptable
      <3>3. \A name \in Required[operation] : Value(record, name) # Blank
        BY <2>2, <3>1, <3>2 DEF Invalid, Incomplete, Value
      <3>4. CASE operation = "guideline"
        <4> DEFINE lon == Value(record, "lon")
                   lat == Value(record, "lat")
        <4>1. lon # Blank /\ lat # Blank
          BY <2>4, <3>3, <3>4
        <4>2. Numeric(<<lon, lat>>) /\ ~OutOfRange(<<lon, lat>>)
          BY <3>2, <3>4 DEF Invalid, Written
        <4> HIDE DEF lon, lat
        <4>3. lon \in Int /\ lat \in Int
          BY <4>1, <4>2 DEF Numeric
        <4>4. lon \in -180 .. 180 /\ lat \in -90 .. 90
          BY <4>2, <4>3 DEF OutOfRange
        <4>5. QED
          BY <2>3, <3>3, <4>4 DEF lon, lat
      <3>5. QED
        BY <2>3, <3>3, <3>4
    <2>6. QED
      BY <2>2, <2>5
  <1>2. IInv => NothingHidden
    BY <1>1 DEF NothingHidden
  <1>3. QED
    BY <1>2, Invariance, PTL

-----------------------------------------------------------------------------
(* The table of any file, whether it is as it says or not *)

\* The names of the columns a parser is shown, the rows with something under these,
\* and their places.
Named ==
    IF IsWorkbook
    THEN [n \in 1 .. file.size.columns |-> Cell(file.header, n)]
    ELSE file.header
Filled == {i \in 1 .. Len(file.rows) : ~IsBlank(Record(file.rows[i]))}
Place(i) == Cardinality(Under(Filled, i + 1))

\* Each row that was read is kept, unless there is nothing in it, and only those shown
\* are read.
Tabulated ==
    /\ headers = Named
    /\ Len(records) = Cardinality(Under(Filled, next))
    /\ \A i \in Filled : i < next => records[Place(i)] = Record(file.rows[i])
Proper ==
    IsWorkbook => ~TooLarge(file.size) /\ IsInjective(headers) /\ ~Contains(headers, Blank)
TableInv ==
    state \in {"reading", "returned"} => Tabulated /\ next <= RowsShown + 1 /\ Proper

\* There may be no row to be shown, but not fewer.
LEMMA ShownFromZero ==
    ASSUME TypeInv, IsWorkbook => file.size # Undeclared
    PROVE  RowsShown \in Nat
  <1>1. Len(file.rows) \in Nat
    BY FileParts DEF TypeInv
  <1>2. IsWorkbook => file.size.rows - 1 \in Nat
    BY FileParts DEF TypeInv
  <1>3. QED
    BY <1>1, <1>2, MinOfTwo DEF RowsShown

LEMMA FilledPlaces ==
    ASSUME TypeInv
    PROVE  /\ Len(file.rows) \in Nat /\ \A i \in Filled : i \in Nat /\ 1 <= i
           /\ Cardinality(Under(Filled, 1)) = 0
           /\ \A k \in Nat : /\ Cardinality(Under(Filled, k)) \in Nat
                             /\ Cardinality(Under(Filled, k + 1)) =
                                   IF k \in Filled THEN Cardinality(Under(Filled, k)) + 1
                                   ELSE Cardinality(Under(Filled, k))
           /\ \A i \in Filled : \A k \in Nat : i < k =>
                 Place(i) \in 1 .. Cardinality(Under(Filled, k))
  <1>1. Len(file.rows) \in Nat
    BY FileParts DEF TypeInv
  <1>2. Filled \subseteq 1 .. Len(file.rows)
    BY DEF Filled
  <1> HIDE DEF Filled
  <1>3. \A i \in Filled : i \in Nat /\ 1 <= i
    BY <1>1, <1>2
  <1>4. QED
    BY <1>1, <1>2, <1>3, Places DEF Place

LEMMA SameNames ==
    ASSUME UNCHANGED <<operation, file>>
    PROVE  Named' = Named /\ RowsShown' = RowsShown /\ (IsWorkbook' <=> IsWorkbook)
  BY DEF Named, RowsShown, IsWorkbook, Cell

LEMMA SamePlaces ==
    ASSUME UNCHANGED <<operation, file, headers>>
    PROVE  /\ Filled' = Filled
           /\ \A k : Under(Filled, k)' = Under(Filled, k)
           /\ \A i : Place(i)' = Place(i) /\ Record(file.rows[i])' = Record(file.rows[i])
  <1>1. \A i : Record(file.rows[i])' = Record(file.rows[i])
    BY DEF Record, Cell
  <1>2. Filled' = Filled
    BY <1>1 DEF Filled, IsBlank
  <1>3. QED
    BY <1>1, <1>2 DEF Place, Under

LEMMA SameTabulated ==
    ASSUME UNCHANGED <<operation, file, headers, next, records>>, Tabulated
    PROVE  Tabulated'
  <1>1. Named' = Named
    BY SameNames
  <1>2. Filled' = Filled /\ Under(Filled, next)' = Under(Filled, next)
    BY SamePlaces DEF Under
  <1>3. \A i \in Filled : i < next' => records'[Place(i)'] = Record(file.rows[i])'
    BY SamePlaces DEF Tabulated
  <1>4. QED
    BY <1>1, <1>2, <1>3 DEF Tabulated

\* Before a row is read the table has none.
LEMMA OpenTabulates ==
    ASSUME TypeInv, state = "new", UNCHANGED <<operation, file, next, records>>,
           headers' = Named, IsWorkbook => file.size # Undeclared
    PROVE  Tabulated' /\ next' <= RowsShown' + 1
  <1>1. next = 1 /\ records = <<>> /\ next' = 1 /\ records' = <<>>
    BY DEF TypeInv
  <1>2. Len(file'.rows) \in Nat
    BY FileParts DEF TypeInv
  <1>3. Filled' \subseteq 1 .. Len(file'.rows)
    BY DEF Filled
  <1> HIDE DEF Filled
  <1>4. Cardinality(Under(Filled', 1)) = 0
    BY <1>2, <1>3, Places
  <1>5. Len(records') = Cardinality(Under(Filled', next'))
    BY <1>1, <1>4
  <1>6. \A i \in Filled' : ~(i < next')
    BY <1>1, <1>2, <1>3
  <1>7. headers' = Named'
    BY SameNames
  <1>8. Tabulated'
    BY <1>5, <1>6, <1>7 DEF Tabulated, Under
  <1>9. next' <= RowsShown' + 1
    BY <1>1, ShownFromZero, SameNames
  <1>10. QED
    BY <1>8, <1>9

LEMMA SameProper ==
    ASSUME UNCHANGED <<operation, file, headers>>, Proper
    PROVE  Proper'
  BY SameNames DEF Proper, TooLarge, TooManyRows

\* A row with something under the names of the columns is kept behind the others.
LEMMA ReadRowTabulates ==
    ASSUME TypeInv, Tabulated, ReadRow, state' = "reading", next \in 1 .. Len(file.rows)
    PROVE  Tabulated' /\ next' = next + 1
  <1> DEFINE record == Record(file.rows[next])
  <1>1. /\ records' = IF IsBlank(record) THEN records ELSE Append(records, record)
        /\ next' = next + 1
        /\ UNCHANGED <<operation, file, headers>>
    BY DEF ReadRow, Refuse
  <1>2. next \in Nat /\ (next \in Filled <=> ~IsBlank(record))
    BY DEF Filled
  <1>3. record \in Kept /\ records \in Seq(Kept) /\ Len(records) \in Nat
    BY FileParts, RecordKept DEF TypeInv
  <1> HIDE DEF record
  <1>4. /\ Filled' = Filled /\ Named' = Named
        /\ \A k : Under(Filled, k)' = Under(Filled, k)
        /\ \A i : Place(i)' = Place(i) /\ Record(file.rows[i])' = Record(file.rows[i])
    BY <1>1, SamePlaces, SameNames
  <1>5. Cardinality(Under(Filled, next + 1)) =
            IF next \in Filled THEN Cardinality(Under(Filled, next)) + 1
            ELSE Cardinality(Under(Filled, next))
    BY <1>2, FilledPlaces
  <1>6. Len(records') = Cardinality(Under(Filled, next + 1))
    BY <1>1, <1>2, <1>3, <1>5 DEF Tabulated
  <1>7. Under(Filled, next)' = Under(Filled, next + 1)
    BY <1>1, <1>4 DEF Under
  <1>8. ASSUME NEW i \in Filled, i < next + 1
        PROVE  records'[Place(i)] = Record(file.rows[i])
    <2>1. i \in Nat
      BY FilledPlaces
    <2>2. CASE i = next
      <3>1. records' = Append(records, record)
        BY <1>1, <1>2, <2>2
      <3>2. Place(i) = Len(records) + 1
        BY <1>5, <2>2 DEF Place, Tabulated
      <3>3. QED
        BY <1>3, <2>2, <3>1, <3>2 DEF record
    <2>3. CASE i < next
      <3>1. Place(i) \in 1 .. Len(records) /\ records[Place(i)] = Record(file.rows[i])
        BY <1>2, <2>3, FilledPlaces DEF Tabulated
      <3>2. records'[Place(i)] = records[Place(i)]
        BY <1>1, <1>3, <3>1
      <3>3. QED
        BY <3>1, <3>2
    <2>4. QED
      BY <1>2, <1>8, <2>1, <2>2, <2>3
  <1>9. \A i \in Filled' : i < next' => records'[Place(i)'] = Record(file.rows[i])'
    BY <1>1, <1>4, <1>8
  <1>10. QED
    BY <1>1, <1>4, <1>6, <1>7, <1>9 DEF Tabulated

LEMMA StepTableInv == IInv /\ TableInv /\ [Next]_vars => TableInv'
  <1> SUFFICES ASSUME IInv, TableInv, [Next]_vars, state' \in {"reading", "returned"}
               PROVE  Tabulated' /\ next' <= RowsShown' + 1 /\ Proper'
    BY DEF TableInv
  <1>1. TypeInv /\ ReadInv
    BY DEF IInv
  <1>2. CASE OpenWorkbook
    <2>1. /\ state = "new" /\ UNCHANGED <<operation, file, next, records>>
          /\ IsWorkbook /\ file.size # Undeclared /\ headers' = Named
          /\ ~TooLarge(file.size) /\ ~Contains(Named, Blank) /\ IsInjective(Named)
      BY <1>2 DEF OpenWorkbook, Refuse, Named
    <2>2. Proper'
      BY <2>1, SameNames DEF Proper, TooLarge, TooManyRows
    <2>3. QED
      BY <1>1, <2>1, <2>2, OpenTabulates
  <1>3. CASE OpenCsv
    <2>1. /\ state = "new" /\ UNCHANGED <<operation, file, next, records>>
          /\ ~IsWorkbook /\ headers' = Named
      BY <1>3 DEF OpenCsv, Refuse, Named
    <2>2. QED
      BY <1>1, <2>1, OpenTabulates, SameNames DEF Proper
  <1>4. CASE ReadRow
    <2>1. /\ state = "reading" /\ state' = "reading" /\ next <= RowsShown
          /\ UNCHANGED <<operation, file, headers>>
      BY <1>4 DEF ReadRow, Refuse
    <2>2. Tabulated /\ Proper /\ (IsWorkbook => file.size # Undeclared)
      BY <1>1, <2>1 DEF TableInv, ReadInv
    <2>3. next \in 1 .. Len(file.rows) /\ RowsShown \in Int
      BY <1>1, <2>1, <2>2, Shown DEF TypeInv
    <2>4. Tabulated' /\ next' = next + 1
      BY <1>1, <1>4, <2>1, <2>2, <2>3, ReadRowTabulates
    <2>5. next' <= RowsShown' + 1
      BY <2>1, <2>3, <2>4, SameNames
    <2>6. QED
      BY <2>1, <2>2, <2>4, <2>5, SameProper
  <1>5. CASE EndOfRows \/ UNCHANGED vars
    <2>1. /\ state \in {"reading", "returned"}
          /\ UNCHANGED <<operation, file, headers, next, records>>
      BY <1>5 DEF EndOfRows, vars
    <2>2. QED
      BY <2>1, SameTabulated, SameNames, SameProper DEF TableInv
  <1>6. ~CannotOpen /\ ~BreaksOff
    BY DEF CannotOpen, BreaksOff
  <1>7. QED
    BY <1>2, <1>3, <1>4, <1>5, <1>6 DEF Next

LEMMA TableInvariance == Spec => [](IInv /\ TableInv)
  <1>1. Init => TableInv
    BY DEF Init, TableInv
  <1>2. QED
    BY <1>1, StepTableInv, InitIInv, StepIInv, PTL DEF Spec

\* Of what is returned every row that was shown was read, and no other.
LEMMA Returned ==
    ASSUME IInv, TableInv, state = "returned"
    PROVE  /\ TypeInv /\ headers = Named /\ Proper /\ Acceptable
           /\ RowsShown \in Int /\ RowsShown <= Len(file.rows)
           /\ AsDeclared => Faithful /\ RowsShown = Len(file.rows)
           /\ Len(records) = Cardinality({i \in Filled : i <= RowsShown})
           /\ \A i \in Filled : i <= RowsShown => records[Place(i)] = Record(file.rows[i])
  <1>1. /\ TypeInv /\ Tabulated /\ Proper /\ Acceptable
        /\ next <= RowsShown + 1 /\ next > RowsShown
        /\ IsWorkbook => file.size # Undeclared
        /\ AsDeclared => Faithful
    BY DEF IInv, ReadInv, TableInv
  <1>2. /\ RowsShown \in Int /\ next \in Int /\ RowsShown <= Len(file.rows)
        /\ AsDeclared => RowsShown = Len(file.rows)
    BY <1>1, Shown, FilledPlaces DEF TypeInv
  <1>3. next = RowsShown + 1
    BY <1>1, <1>2
  <1>4. \A i \in Filled : i < next <=> i <= RowsShown
    <2>1. \A i \in Filled : i \in Nat
      BY <1>1, FilledPlaces
    <2>2. QED
      BY <1>2, <1>3, <2>1
  <1>5. Under(Filled, next) = {i \in Filled : i <= RowsShown}
    BY <1>4 DEF Under
  <1>6. QED
    BY <1>1, <1>2, <1>4, <1>5 DEF Tabulated

\* What is returned depends on nothing but the operation and the file, be the file what
\* it says it is or not: all rows within the declared size that have something under
\* the names of the columns, in order, and nothing from beyond it. It is why FileArchive
\* can take what a parser makes of a file as given (its parameter Readable).
THEOREM TableOfFile ==
    Spec => [](state = "returned" =>
                  /\ headers = Named /\ Proper /\ Acceptable
                  /\ Len(records) = Cardinality({i \in Filled : i <= RowsShown})
                  /\ \A i \in Filled : i <= RowsShown =>
                        records[Place(i)] = Record(file.rows[i]))
  <1> DEFINE Table ==
                  /\ headers = Named /\ Proper /\ Acceptable
                  /\ Len(records) = Cardinality({i \in Filled : i <= RowsShown})
                  /\ \A i \in Filled : i <= RowsShown =>
                        records[Place(i)] = Record(file.rows[i])
  <1>1. IInv /\ TableInv => (state = "returned" => Table)
    BY Returned
  <1>2. QED
    BY <1>1, TableInvariance, PTL

-----------------------------------------------------------------------------
(* Nothing is left out *)

\* Every name stands above one column that counts, the last one of that name, and a
\* row is kept with what is in the columns that count.
LEMMA CountingColumns ==
    ASSUME headers \in Seq(Columns \cup {Blank}), NEW row
    PROVE  /\ \A n \in Counting : Record(row)[headers[n]] = Cell(row, n)
           /\ IsBlank(Record(row)) <=> \A n \in Counting : Cell(row, n) = Blank
  <1>1. DOMAIN headers = 1 .. Len(headers) /\ Len(headers) \in Nat
    OBVIOUS
  <1> DEFINE above(name) == {n \in DOMAIN headers : headers[n] = name}
  <1>2. ASSUME NEW n \in Counting
        PROVE  headers[n] \in ToSet(headers) /\ Record(row)[headers[n]] = Cell(row, n)
    <2>1. /\ n \in above(headers[n]) /\ above(headers[n]) \subseteq Nat
          /\ \A m \in above(headers[n]) : m <= n
      BY <1>1 DEF Counting
    <2>2. headers[n] \in ToSet(headers)
      BY <2>1 DEF ToSet
    <2> HIDE DEF above
    <2>3. \A x \in above(headers[n]) :
             (\A m \in above(headers[n]) : x >= m) <=> x = n
      BY <2>1
    <2>4. Max(above(headers[n])) = n
      BY <2>1, <2>3 DEF Max
    <2>5. QED
      BY <2>2, <2>4 DEF Record, above
  <1>3. ASSUME NEW name \in ToSet(headers)
        PROVE  \E n \in Counting : headers[n] = name
    <2> DEFINE top == Len(headers)
               fromTop == {m \in 0 .. top : top - m \in above(name)}
    <2>1. PICK k \in DOMAIN headers : headers[k] = name
      BY DEF ToSet
    <2>2. top - k \in fromTop
      BY <1>1, <2>1
    <2>3. fromTop \in SUBSET Nat /\ fromTop # {}
      BY <1>1, <2>2
    <2>4. PICK m \in fromTop : \A l \in fromTop : m <= l
      <3> HIDE DEF fromTop
      <3>1. QED
        BY <2>3, Least
    <2>5. m \in Nat /\ top - m \in DOMAIN headers /\ headers[top - m] = name
      BY <1>1
    <2>6. ASSUME NEW n \in DOMAIN headers, headers[n] = name
          PROVE  n <= top - m
      <3>1. n \in Nat /\ top - n \in 0 .. top /\ top - (top - n) = n
        BY <1>1
      <3>2. top - n \in fromTop
        BY <2>6, <3>1
      <3>3. m <= top - n
        BY <2>4, <3>2
      <3>4. QED
        BY <1>1, <2>5, <3>1, <3>3
    <2>7. QED
      BY <2>5, <2>6 DEF Counting
  <1>4. DOMAIN Record(row) = ToSet(headers)
    BY DEF Record
  <1>5. QED
    BY <1>2, <1>3, <1>4 DEF IsBlank

\* The rows that are kept are those that can be seen.
LEMMA KeptIsSeen ==
    ASSUME TypeInv, RowsShown \in Int, RowsShown <= Len(file.rows)
    PROVE  /\ Visible = {i \in Filled : i <= RowsShown}
           /\ \A i \in Visible : Rank(i) = Place(i)
  <1>1. Len(file.rows) \in Nat /\ headers \in Seq(Columns \cup {Blank})
    BY FileParts DEF TypeInv
  <1>2. \A i : ~IsBlank(Record(file.rows[i])) <=> \E n \in Counting : Cell(file.rows[i], n) # Blank
    BY <1>1, CountingColumns
  <1>3. \A i : i \in 1 .. RowsShown <=> i \in 1 .. Len(file.rows) /\ i <= RowsShown
    BY <1>1
  <1>4. Visible = {i \in Filled : i <= RowsShown}
    BY <1>2, <1>3 DEF Visible, Filled
  <1>5. ASSUME NEW i \in Visible
        PROVE  {j \in Visible : j <= i} = Under(Filled, i + 1)
    <2>1. i \in Nat /\ i <= RowsShown /\ \A j \in Filled : j \in Nat
      BY <1>1, <1>4 DEF Filled
    <2>2. \A j \in Filled : j < i + 1 <=> j <= i /\ j <= RowsShown
      BY <2>1
    <2>3. QED
      BY <1>4, <2>2 DEF Under
  <1>6. QED
    BY <1>4, <1>5 DEF Rank, Place

\* Every row that can be seen is returned, in order and with all of its cells, and of a
\* file that is what it says it is every cell with something in it can be seen.
THEOREM NoneLeftOut == Spec => []NothingLeftOut
  <1>1. ASSUME IInv, TableInv, state = "returned"
        PROVE  /\ Len(records) = Cardinality(Visible)
               /\ \A i \in Visible : \A n \in Counting :
                     records[Rank(i)][headers[n]] = Cell(file.rows[i], n)
               /\ AsDeclared =>
                     \A i \in DOMAIN file.rows : \A n \in DOMAIN file.rows[i] :
                        file.rows[i][n] # Blank =>
                           i \in Visible /\ n \in Counting /\ headers[n] = file.header[n]
    <2>1. /\ TypeInv /\ RowsShown \in Int /\ RowsShown <= Len(file.rows)
          /\ AsDeclared => Faithful /\ RowsShown = Len(file.rows)
          /\ Len(records) = Cardinality({i \in Filled : i <= RowsShown})
          /\ \A i \in Filled : i <= RowsShown => records[Place(i)] = Record(file.rows[i])
      BY <1>1, Returned
    <2>2. /\ Visible = {i \in Filled : i <= RowsShown}
          /\ \A i \in Visible : Rank(i) = Place(i)
      BY <2>1, KeptIsSeen
    <2>3. Len(records) = Cardinality(Visible)
      BY <2>1, <2>2
    <2>4. ASSUME NEW i \in Visible, NEW n \in Counting
          PROVE  records[Rank(i)][headers[n]] = Cell(file.rows[i], n)
      <3>1. records[Rank(i)] = Record(file.rows[i])
        BY <2>1, <2>2
      <3>2. QED
        BY <2>1, <3>1, CountingColumns DEF TypeInv
    <2>5. ASSUME AsDeclared, NEW i \in DOMAIN file.rows, NEW n \in DOMAIN file.rows[i],
                 file.rows[i][n] # Blank
          PROVE  i \in Visible /\ n \in Counting /\ headers[n] = file.header[n]
      <3>1. /\ i \in 1 .. Len(file.rows) /\ i \in 1 .. RowsShown
            /\ file.rows[i] \in Seq(Cells) /\ file.rows[i] \in ToSet(file.rows)
            /\ headers \in Seq(Columns \cup {Blank})
        BY <2>1, <2>5, FileParts DEF TypeInv, ToSet
      <3>2. Faithful
        BY <2>1, <2>5
      <3>3. Len(file.rows[i]) <= Len(headers)
        BY <2>5, <3>1, <3>2 DEF AsDeclared, Faithful
      <3>4. n \in DOMAIN headers
        BY <3>1, <3>3
      <3>5. n \in Counting
        BY <3>1, <3>2, <3>4 DEF Counting, Faithful, IsInjective
      <3>6. Cell(file.rows[i], n) # Blank
        BY <2>5 DEF Cell
      <3>7. QED
        BY <3>1, <3>2, <3>5, <3>6 DEF Visible, Faithful
    <2>6. QED
      BY <2>3, <2>4, <2>5
  <1>2. IInv /\ TableInv => NothingLeftOut
    BY <1>1 DEF NothingLeftOut
  <1>3. QED
    BY <1>2, TableInvariance, PTL
=============================================================================
