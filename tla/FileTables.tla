------------------------------ MODULE FileTables ------------------------------
(***************************************************************************)
(* What is made of a downloaded file (src/kric/files.py,                   *)
(* src/kric/port_guidelines.py), read row by row:                          *)
(*   "table"      parse_xlsx_table                                         *)
(*   "stations"   parse_nationwide_station_info_xlsx                       *)
(*   "codes"      parse_station_code_xlsx                                  *)
(*   "guideline"  parse_port_guideline_locations, of a CSV file            *)
(* FileArchive takes what these accept as its parameter Readable.          *)
(*                                                                         *)
(* A cell is the text it shows, a number standing for the text of one.     *)
(* The column "key" stands for all the columns that identify a row, "more" *)
(* for one nobody asks for. A workbook declares the size of its first      *)
(* sheet, and openpyxl believes it in read-only mode, true or not: rows    *)
(* and columns beyond it are not seen, and a sheet may leave it out.       *)
(***************************************************************************)
EXTENDS Integers, FiniteSets, Sequences, SequencesExt, FiniteSetsExt

CONSTANTS
    Headers, Lines,        \* header rows and other rows a file may have
    MaxLength,             \* bound on the number of these other rows
    DeclaredRows,          \* sizes a workbook may declare, whatever it holds
    DeclaredColumns,
    MaxRows, MaxColumns,   \* max_rows, max_columns
    Known,                 \* the rows known to be exchanged: their coordinates
    Blank,                 \* no text in a cell; no value
    Undeclared             \* no size

Columns == {"key", "lon", "lat", "more"}
ASSUME HeadersOfColumns == Headers \subseteq Seq(Columns \cup {Blank})
ASSUME LinesOfCells == \A row \in Lines : row \in Seq(ToSet(row))
ASSUME KnownInRange == \A key \in DOMAIN Known : Known[key] \in (-90 .. 90) \X (-180 .. 180)
ASSUME BlankIsNoNumber == Blank \notin Int
ASSUME LimitsPositive == {MaxLength, MaxRows, MaxColumns} \subseteq Nat \ {0}
ASSUME DeclaredPositive == DeclaredRows \cup DeclaredColumns \subseteq Nat \ {0}

VARIABLES
    operation,             \* which of the parsers
    file,                  \* its header row, other rows and declared size
    state,                 \* of the parser
    headers,               \* the columns it knows
    next,                  \* the row it reads next
    records                \* the rows it has kept

vars == <<operation, file, state, headers, next, records>>

-----------------------------------------------------------------------------
(* Files *)

\* The size a workbook declares need not be that of its sheet.
Sizes == {Undeclared} \cup [rows : DeclaredRows, columns : DeclaredColumns]

Files == [header : Headers, rows : BoundedSeq(Lines, MaxLength), size : Sizes]

IsWorkbook == operation # "guideline"
Operations == {"table", "stations", "codes", "guideline"}

\* No file makes a parser hold more than max_rows and max_columns, its header
\* included, whatever sizes it has and declares. (A CSV file has no such limits.)
TypeOK ==
    /\ operation \in Operations
    /\ file \in Files
    /\ state \in {"new", "reading", "returned", "refused", "escaped"}
    /\ headers \in Seq(Columns \cup {Blank})
    /\ next \in 1 .. Len(file.rows) + 1
    /\ \A record \in ToSet(records) : DOMAIN record = ToSet(headers)
    /\ IsWorkbook => Len(headers) <= MaxColumns /\ Len(records) < MaxRows

Init ==
    /\ operation \in Operations
    /\ file \in {f \in Files : operation = "guideline" => f.size = Undeclared}
    /\ state = "new"
    /\ headers = <<>>
    /\ next = 1
    /\ records = <<>>

Refuse == state' = "refused" /\ UNCHANGED <<headers, next, records>>

-----------------------------------------------------------------------------
(* The header *)

\* A cell of a row; a row may end before the sheet or the header does.
Cell(row, n) == IF n \in DOMAIN row THEN row[n] ELSE Blank

\* The columns the parser of the operation cannot do without.
Required ==
    [o \in Operations |->
        CASE o = "table" -> {} [] o = "guideline" -> {"key", "lon", "lat"} [] OTHER -> {"key"}]

\* max_rows counts the header too.
Slip_TooManyRows(n) == n - 1 > MaxRows
TooManyRows(n) == n > MaxRows

Slip_TooLarge(size) == TooManyRows(size.rows)
TooLarge(size) == TooManyRows(size.rows) \/ size.columns > MaxColumns

\* What is no workbook at all, or too large before or after it is unpacked, is
\* refused, and so is a CSV file in another encoding. An archive without the parts
\* of a workbook, or a CSV line that cannot be split, escapes as another exception.
CannotOpen ==
    /\ state = "new"
    /\ state' \in {"refused", "escaped"}
    /\ UNCHANGED <<operation, file, headers, next, records>>

\* parse_xlsx_table up to the rows: the declared size is compared with the limits
\* (None is no number: TypeError), and the header row must name every column once.
OpenWorkbook ==
    /\ state = "new" /\ IsWorkbook
    /\ IF file.size = Undeclared
       THEN state' = "escaped" /\ UNCHANGED <<headers, next, records>>
       ELSE LET found == [n \in 1 .. file.size.columns |-> Cell(file.header, n)]
            IN  IF TooLarge(file.size) \/ Contains(found, Blank) \/ ~IsInjective(found)
                THEN Refuse
                ELSE state' = "reading" /\ headers' = found /\ UNCHANGED <<next, records>>
    /\ UNCHANGED <<operation, file>>

\* csv.DictReader: columns without a name, or named twice, do not matter.
OpenCsv ==
    /\ state = "new" /\ ~IsWorkbook
    /\ IF Required[operation] \subseteq ToSet(file.header)
       THEN state' = "reading" /\ headers' = file.header /\ UNCHANGED <<next, records>>
       ELSE Refuse
    /\ UNCHANGED <<operation, file>>

-----------------------------------------------------------------------------
(* The rows *)

\* A row under the names of the columns. Of two columns with one name the last counts.
Record(row) ==
    [name \in ToSet(headers) |-> Cell(row, Max({n \in DOMAIN headers : headers[n] = name}))]

Slip_BlankWithoutKey(record) == "key" \in DOMAIN record /\ record["key"] = Blank
IsBlank(record) == \A name \in DOMAIN record : record[name] = Blank

Value(record, name) == IF name \in DOMAIN record THEN record[name] ELSE Blank

\* Longitude and latitude as they stand in the file.
Written(record) == <<Value(record, "lon"), Value(record, "lat")>>
None == <<Blank, Blank>>

Numeric(place) == \A n \in 1 .. 2 : place[n] \in Int \cup {Blank}

OutOfRange(place) ==
    \/ place[1] \in Int /\ place[1] \notin -180 .. 180
    \/ place[2] \in Int /\ place[2] \notin -90 .. 90

Exchange(place) == <<place[2], place[1]>>

KnownExchanged(record) ==
    record["key"] \in DOMAIN Known /\ Written(record) = Known[record["key"]]

\* parse_nationwide_station_info_row: longitude and latitude of a station.
Slip_ExchangeIfItFits(record) ==
    IF OutOfRange(Written(record))
    THEN IF OutOfRange(Exchange(Written(record))) THEN None ELSE Exchange(Written(record))
    ELSE Written(record)
PlaceOf(record) ==
    IF KnownExchanged(record)
    THEN Exchange(Written(record))
    ELSE IF OutOfRange(Written(record)) THEN None ELSE Written(record)

\* require_fields of the parsers of a row: it must have what identifies it.
Incomplete(record) == \E name \in Required[operation] : record[name] = Blank

\* Where coordinates are read they must be numbers; a location must have them, and
\* within their range.
Slip_Invalid(record) ==
    \/ Incomplete(record)
    \/ operation \in {"stations", "guideline"} /\ ~Numeric(Written(record))
Invalid(record) ==
    \/ Incomplete(record)
    \/ operation \in {"stations", "guideline"} /\ ~Numeric(Written(record))
    \/ operation = "guideline" /\ OutOfRange(Written(record))

\* The rows a reader is shown: those within the declared size.
RowsShown == IF IsWorkbook THEN Min({Len(file.rows), file.size.rows - 1}) ELSE Len(file.rows)

\* The next row. A location is parsed at once; the rows of a workbook are kept as
\* they are. The second look at max_rows never finds anything the first did not.
ReadRow ==
    /\ state = "reading"
    /\ next <= RowsShown
    /\ LET record == Record(file.rows[next])
       IN  IF \/ IsWorkbook /\ TooManyRows(next + 1)
              \/ ~IsWorkbook /\ ~IsBlank(record) /\ Invalid(record)
           THEN Refuse
           ELSE /\ records' = IF IsBlank(record) THEN records ELSE Append(records, record)
                /\ next' = next + 1
                /\ UNCHANGED <<state, headers>>
    /\ UNCHANGED <<operation, file>>

\* The sheet turns out to be no XML, or, which escapes, damaged in another way; a
\* CSV line that cannot be split escapes too.
BreaksOff ==
    /\ state = "reading"
    /\ state' \in {"escaped"} \cup (IF IsWorkbook THEN {"refused"} ELSE {})
    /\ UNCHANGED <<operation, file, headers, next, records>>

\* What the operation asks of the table as a whole.
Acceptable ==
    /\ Required[operation] \subseteq ToSet(headers)
    /\ \A record \in ToSet(records) : ~Invalid(record)
    /\ operation \in {"codes", "guideline"} => records # <<>>

EndOfRows ==
    /\ state = "reading"
    /\ next > RowsShown
    /\ state' = IF Acceptable THEN "returned" ELSE "refused"
    /\ UNCHANGED <<operation, file, headers, next, records>>

Next == CannotOpen \/ OpenWorkbook \/ OpenCsv \/ ReadRow \/ BreaksOff \/ EndOfRows

Spec == Init /\ [][Next]_vars

-----------------------------------------------------------------------------
(* What must be right about a table *)

\* The file is what it says it is: a workbook is not larger than it declares, a CSV
\* file has no name twice and no row longer than its header.
AsDeclared ==
    LET columns == IF IsWorkbook THEN file.size.columns ELSE Len(file.header)
    IN  /\ Len(file.header) <= columns
        /\ \A row \in ToSet(file.rows) : Len(row) <= columns
        /\ IF IsWorkbook THEN file.size.rows > Len(file.rows) ELSE IsInjective(file.header)

\* Of columns with one name the last counts. A row can be seen if it is shown and
\* has something in a column that counts, and it is one of those.
Counting ==
    {n \in DOMAIN headers : \A m \in DOMAIN headers : headers[m] = headers[n] => m <= n}
Visible == {i \in 1 .. RowsShown : \E n \in Counting : Cell(file.rows[i], n) # Blank}
Rank(i) == Cardinality({j \in Visible : j <= i})

\* README: the columns of the original are kept, and no station is left out. Every
\* row that can be seen is returned, in order, with all of its cells in the columns
\* that count. And nothing but what the declared size, or a name that is used
\* twice, hides cannot be seen: of a file that is as declared every cell is
\* returned under the name that stands above it.
NothingLeftOut ==
    state = "returned" =>
        /\ Len(records) = Cardinality(Visible)
        /\ \A i \in Visible : \A n \in Counting :
              records[Rank(i)][headers[n]] = Cell(file.rows[i], n)
        /\ AsDeclared =>
              \A i \in DOMAIN file.rows : \A n \in DOMAIN file.rows[i] :
                 file.rows[i][n] # Blank =>
                    i \in Visible /\ n \in Counting /\ headers[n] = file.header[n]

\* README: a station's coordinates are those of the file, or none where these are
\* impossible. They are exchanged in exactly the rows that were verified, and in
\* those they are not lost. Whatever is returned is possible.
StationsWhereTheyAre ==
    state = "returned" /\ operation = "stations" =>
        \A record \in ToSet(records) :
            LET place == PlaceOf(record)
            IN  /\ ~OutOfRange(place)
                /\ place = None => Written(record) = None \/ OutOfRange(Written(record))
                /\ place \notin {None, Written(record)} =>
                      /\ record["key"] \in DOMAIN Known
                      /\ <<place[2], place[1]>> = Known[record["key"]]
                /\ KnownExchanged(record) => place # None

\* The docstring of parse_port_guideline_locations and README: what does not fit is
\* not hidden in an empty result. A list of locations or of codes has something in
\* it, and all of it can be used. (That it is not a shorter one is NothingLeftOut.)
NothingHidden ==
    state = "returned" /\ operation \in {"codes", "guideline"} =>
        /\ records # <<>>
        /\ \A record \in ToSet(records) :
              /\ Value(record, "key") # Blank
              /\ operation = "guideline" =>
                    Value(record, "lon") \in -180 .. 180 /\ Value(record, "lat") \in -90 .. 90
=============================================================================
