# TLA+ models of kric

Specifications, model checking and proofs for the Python library in `src/src/kric`
(asynchronous clients for Korean public transport data and a store for the original
files). The code is the reference: every definition says in `PROJECT.json` ("map")
which lines it stands for.

## The system

Everything runs as asyncio tasks on one event loop; the only threads are those that
`asyncio.to_thread` starts for the blocking S3 client. Nothing is persisted by the
library itself.

| Part | State | Operations | Interacts with |
|---|---|---|---|
| `storage.RustfsObjectStore` | semaphore of upload slots, `_active_uploads`, drained event, `_closing`, `_closed`, close lock | `put_bytes`, `aclose`, `async with` | S3 client, called from threads; used by the file clients |
| `maritime.DataGoKrMaritimeClient` | none but its HTTP client; an iterator has page number, expected total, rows seen | single-page queries, `get_port_calls`, `iter_ports`, `iter_ferry_terminals`, `iter_ferry_ship_types` | data.go.kr, whose tables change between requests |
| `korail_public.KorailPublicClient` | request lock, time of the last request | `get_stations`, `get_guide_page`, `get_category_stations`, `get_located_category_stations`, `aclose` | korail.com |
| `client.KricClient` | none but its HTTP client | single-shot queries, sorting of route stops | KRIC open API, `parse` |
| `parse` | none | extracting rows from envelopes, scalar parsers | all clients |
| `files.KricFileClient` | none but its HTTP client | download with limits, parse workbook, archive the original | data.kric.go.kr, the store |
| `port_guidelines.PortGuidelineClient` | none but its HTTP client | download, parse CSV, archive | data.go.kr, the store |
| `models`, `exceptions`, `__init__` | none | none (data only) | all |

What is hard in it, and where a unit test hardly reaches:

- The store: a `put_bytes` is three actors (caller, worker task, thread) and any of the
  callers, and any `aclose`, can be cancelled at any suspension point; admission,
  counting, slots and closing must stay consistent throughout.
- The iterators: the provider's table changes between the pages of one list, answers may
  be short, out of turn or without count, and rows are handed on before the list is known
  to be complete.
- The KORAIL client: the minimum gap between requests is kept under a lock whose waiters
  and holder can be cancelled, and `aclose` waits for nobody.
- The envelopes: an error must never look like an empty result.
- Downloads: what is checked, and in which order, before an original is archived.
- Tables: a file is believed in what it declares of itself; rows that do not fit must stop
  the parser, rows that are empty must not.

## Modules

| Module | What it is |
|---|---|
| `UploadLifecycle` | abstract specification: a store that admits uploads until it closes, and closes its pool when none is in flight |
| `RustfsStore` | the store as the code runs it; implements `UploadLifecycle` |
| `RustfsStoreProofs` | TLAPS proofs about `RustfsStore` |
| `SequenceLemmas` | lemmas the proofs share: lists without repetition that are edited and paged through, sorting, and the queues of asyncio's `Lock` and `Semaphore` |
| `MaritimePages` | one bounded iterator and the provider's changing table; a page is a request of `MaritimeAnswers` |
| `MaritimePagesProofs` | TLAPS proofs about `MaritimePages` |
| `MaritimeAnswers` | one request of the maritime client: status, envelope, items, count |
| `MaritimeAnswersProofs` | TLAPS proofs about `MaritimeAnswers` |
| `KorailRequests` | the requests of one KORAIL client: lock, gap, cancellation |
| `KorailCategory` | one category of a guide that changes, and its join with the catalogue of stations by name |
| `KorailProofs` | TLAPS proofs about `KorailRequests` and `KorailCategory` |
| `KricAnswers` | one query of `KricClient`: status, envelope, rows, order of a route |
| `KricAnswersProofs` | TLAPS proofs about `KricAnswers` |
| `FileArchive` | downloads that are archived: several calls of the four operations over one store, of which it uses only what `UploadLifecycle` promises |
| `FileArchiveProofs` | TLAPS proofs about `FileArchive` |
| `FileTables` | the parsers of workbooks and of the CSV file, row by row |
| `FileTablesProofs` | TLAPS proofs about `FileTables` |
| `MC*` | instances for TLC |

A definition whose name begins with `Slip_` is not part of a model. It is a plausible
slip in the definition that follows it (a dropped guard, an off-by-one, a missing wake-up),
kept to show that the property named for it in `PROJECT.json` ("mutants") would notice.

### RustfsStore

An action is what a task does between two suspension points; `_state_lock` is never held
across one and so needs no state. `caller`, `worker` and `closer` are program counters of
the caller of `put_bytes`, of its `_run_admitted_upload` task and of a user of `aclose`;
`slots`/`waiters` are `_uploads`, `closeLocked`/`closeWaiters` are `_close_lock` (both FIFO
with hand-over to the first waiter, as asyncio does it, including that nobody overtakes a
waiter that was woken and has not run yet), and `activeUploads`, `drained`, `closing`,
`closed` are the fields of those names. `closable` says whether the client has a `close()`
at all. `strays` are threads in `close()` whose `aclose`
was cancelled: cancelling `await to_thread(...)` drops a thread that has not started and
abandons one that runs. `pool` and `closeCalls` observe the S3 client.

| Code | Actions |
|---|---|
| `put_bytes` | `RejectInput`, `PutBytes`, `PutReturns`, `CancelPut` |
| `_run_admitted_upload`, `_begin_upload`, `_finish_upload` | `RefuseUpload`, `AdmitUpload`, `TakeSlot`, `PutObject`, `FinishUpload` |
| the worker task cancelled, as when the event loop is torn down | `DropWorker` (before its first step), `CancelWorker` (queued, holding a promised slot, or in its thread), `OrphanEnds` (the thread it leaves behind) |
| `__aenter__` | `Enter` |
| `aclose`, `__aexit__` | `AClose`, `TakeLock`, `DrainReturns`, `CloseClient`, `CloseReturns`, `CancelAClose`, `StrayClose` |

`orphans` are the threads of cancelled workers. Such an upload counts as finished and gives
its slot back while its thread may still use the pool; `close()` does not wait for it, and
nothing in the repository promises that it would. All properties hold of the uploads that
are counted, teardown or not.

Fairness: the event loop runs every ready task, and a thread answers, because the S3
client that `from_s3_compatible_settings` builds has connect and read timeouts and two
attempts. (A client handed to the constructor must bring its own.) No fairness on calling,
entering, leaving or cancelling.

### MaritimePages

A row is its identity. The table is a sequence without repetitions; `Edit` inserts, removes and
swaps. `Fetch` is one page fetcher: an answer of the provider goes through `Request!Result`, the
`MaritimeAnswers` instance for the operation, and the iterator sees rows with a total, rows
without one, or an error. `Answers` is what the provider may send: the page asked for or
another, whole or short, with header or blank, count and page left out, null or there, on any
page. Three things are assumed of it: a count it sends is the true one; where a list may come
without a count, a *first* answer that is a success without count and page has the whole list
(`Credible`); and NOT FOUND DATA means there is nothing on that page. In the middle of the pages
the count may be dropped with any rows whatever, and it is the iterator that has to refuse that
(`CountDropped`). `ProperAnswers` are those of a provider that makes no mistake. `FetchRaises` is
what `_get` refuses by its status. The identity guards of `_iterate_pages` (a row without
identity) cannot be reached through the three fetchers, whose parsers already refuse such a row:
an answer with one is an error. `seen_identities` and `yielded` are read off `got`, the rows
handed on.

### KorailRequests

`since` is the time since `_last_request` in ticks, up to the gap, so that time needs no
bound. The call that sleeps holds the lock. Whether a request is answered, refused by
status or size, or breaks off is one nondeterministic `Answer`. What `KorailCategory` calls
by the same name has the prefix `Requests` here (`RequestsSpec`, `RequestsTypeOK`), because
`KorailProofs` extends both.

### MaritimeAnswers and KricAnswers

Both are pure functions of a payload, so each model is one step from every payload of a
small grammar to a result. `Result` has the order of the checks in the code: first the
envelope (`EnvelopeError`), then the items (`ItemsValid`, `ExtractItems`), then the count.
A payload is what the client looks at: for the maritime client a header at the top, one in
`response`, items, `totalCount` and whether paging fields are left; for KRIC a header, an
array under `body` with how `resultCnt` relates to it, or an `item` in up to two of the eight
objects `extract_items` searches (`Places`). Codes are classes of codes: `Unsaid`,
`Successes`, `NotFound` (153) and one for each kind of error. A row that lacks a required
field, or whose numbers do not parse, is `"incomplete"`.

`get_subway_route_info` is `RouteOrder`: the sort of the indices by `Before`.
`RoutesInOrder` is the promise of its docstring, which says nothing about how it sorts: the
stops are those of one list that was sent, in some other order of which it says what it keeps.

What the models show and the code leaves as it is: a negative `totalCount` without items is
refused by the iterators and `get_port_calls`, and an empty result for the single queries;
and of two headers only the outer one counts if it is there.

### KorailCategory

The guide is a sequence of stations. `Edit` lets stations come, go and change places, and the
list of categories change, while the call pages. `WrongPages` are pages with fewer rows, of
another number, or with a row of another category. `Receive` is what happens with one page:
`parse_korail_guide_page`, the comparison with the first page, `validate_rows`, and `GoOn`.
A station of the guide and one of the catalogue share no identifier; only the model knows
that they are one, and that is how it can tell right coordinates from wrong ones. `PlaceOf`
compares names alone. So a station the catalogue lacks is given the coordinates of a namesake it
has; the code cannot know better, and `RightCoordinates` says how far this goes: only if it is
the only namesake on either side. A station that the catalogue knows never has those of another.

### FileArchive

| Code | Actions |
|---|---|
| `download_dataset`, `_download_station_code_file`, `PortGuidelineFileClient._download` | `Request`, `Refused`, `Respond`, `Chunk`, `BodyEnds`, `BreaksOff` |
| the parsers, `_archive_download`, the `*_to_rustfs` methods | `Archive`, `PutReturns` |
| a cancelled caller | `Cancel` |
| the store | `Admit`, `Refuse`, `PutObject`, `EndUpload`, `CloseStore` |

A body is a prefix of a version of a file, measured in chunks. One that is `framed` (a
declared length, or chunked) ends only when it is whole; any other may end anywhere, and the
client cannot tell. What a parser accepts is the parameter `Readable`, a set of prefixes, as
an operation without a parser accepts any but the empty one. Contents are equal if and only
if their checksums are. `PutObject` is the request arriving at the bucket, at any time after
the upload was admitted and as often as retries make it: after a cancelled `put_bytes` too.
`CloseStore` is whoever owns the store.

Two things are outside of what `OnlyVerifiedArchived` and `NeverOverwritten` say. A body that
breaks off unnoticed where the parser still accepts what there is (a CSV file cut between two
rows) is verified as far as the code can tell, and archived; in the model it is a prefix in
`Readable`. And the keys here are those of the archiving operations, derived from the content; a
`put_bytes` whose caller chooses the key replaces what is there.

Fairness: the event loop, the timeouts of httpx, and of the store that an upload that was
asked for is admitted or refused and an admitted one ends, which is
`RustfsStore!PutsComeBack`.

### FileTables

| Code | Actions |
|---|---|
| `parse_xlsx_table` | `CannotOpen`, `OpenWorkbook`, `ReadRow`, `BreaksOff`, `EndOfRows` |
| `parse_nationwide_station_info_xlsx`, `parse_station_code_xlsx` and their row parsers | `EndOfRows` (`Acceptable`, `Invalid`), `PlaceOf` |
| `parse_port_guideline_locations` | `CannotOpen`, `OpenCsv`, `ReadRow` (which parses each row at once), `BreaksOff`, `EndOfRows` |

A cell is the text it shows: blank, a number, or some other text. The columns that identify a row
are one column, `key`. A workbook declares any of a set of sizes (`DeclaredRows`,
`DeclaredColumns`), whatever it holds, or none, and shows a read-only reader (openpyxl) what lies
within it. `max_rows` counts the header; both looks at it are `TooManyRows`. `"escaped"` is an
exception that is no `KricError`: a sheet without a size (`None > max_rows` is a `TypeError`), an
archive without the parts of a workbook, a damaged member, a CSV line `csv` cannot split.
`FileArchive` has the parsers as a parameter and assumes nothing of them. `Known` is
`_MAGLEV_SWAPPED_COORDINATES` (`files.py:60-67`), as the file writes it, latitude first.

What the model shows and the code leaves as it is: a sheet that declares less than it has is
returned short, without an error, and the look at `max_rows` inside the loop
(`files.py:399`) never finds anything, because the reader was already cut off at the declared
size. In a CSV file with two columns of one name the last one counts, and cells beyond the header
are dropped. `NothingLeftOut` says of any file that no more is lost than this: every row that can
be seen (`Visible`) is returned, in its place, with every cell of the columns that count
(`Counting`). Of a file that is as it declares (`AsDeclared`) it says that everything is seen. That
a sheet is *noticed* to declare too little, or a CSV row to be too long, no property can say,
because the code does not notice.

## Runs

| Run | Instance | What it shows |
|---|---|---|
| `store_uploads` | 4 puts, 2 closers, 2 slots | the pool closes only after the last admitted upload; count, event and semaphore exact; an `aclose` that returns leaves a closed store; the close lock handed over; nothing admitted after closing began; callers, workers and closers cancelled anywhere, a client with and without `close`. Four puts are the least with which a put must queue behind a woken worker although a slot is free |
| `store_liveness` | 2 puts, 2 closers, 1 slot, no symmetry | every put and every aclose comes back; the store implements `UploadLifecycle` with its liveness |
| `store_close_once` | 1 put, 2 closers | finding, below |
| `pages_safety` | 5 rows, pages of 2, 2 pages, 2 edits | what ends normally is complete as announced, and was announced unless it came in a single answer; complete indeed if no row came or went; a calm provider fails only on the budget (5 rows do not fit 2 pages); no wasted request |
| `pages_omission` | 4 rows, pages of 2, 2 pages, 2 edits | finding, below |
| `korail_requests` | 4 calls, gap of 3 ticks, no symmetry | one request at a time, a gap apart, the lock never lost, every call comes back |
| `archive` | 2 calls of any operations; two versions of a file: sound (2 chunks), and longer than the limit (3 against 2); no symmetry | what was returned is in the bucket for good; only verified originals get there; nothing is overwritten; every call comes back, also from a store that is closed. Two calls are the least that can meet at a key |
| `category_safety` | 5 stations of which 2 have one name, 1 of another category with the name of a third, pages of 2 rows, 2 pages, 2 edits | a category is as long as the guide, whole if nobody came or went, complete for a calm guide that fits; a station the catalogue knows never has the coordinates of another, one it lacks those of its only namesake at most, and none are missing without a reason |
| `answers_safety` | arrays of up to 4 rows of 2 routes, one with a sequence number twice; items in up to 2 places | rows whole or not at all; order of a route |
| `answers_error` | the same | finding, below |
| `maritime_answers` | lists of up to 2 rows, totals from -1 to 2 | empty results explicit, port calls complete |
| `tables` | up to 3 rows of 12 kinds under 7 headers; sizes of 1 to 4 rows and columns declared of any of them, or none; limits of 3 rows and 3 columns, which the sheets and the declared sizes exceed both; one row known to be exchanged | limits hold whatever is there and whatever is declared; no row or cell that can be seen left out; stations where the file says or nowhere; nothing unusable returned. Three rows are one more than `max_rows` leaves room for |

Deadlock is not checked: in each model everybody may be finished.

### Findings

- `ClosesPoolOnce`: the docstring of `aclose` says the connection pool is closed once. An
  `aclose` cancelled while its `close()` runs, or whose `close()` raises, leaves `_closed`
  unset, and the next one calls `close()` again.
- `NoOmission`: the implementation plan says the iterators synchronise without omission. If
  one row goes and one comes between two pages, the total stays the same and a row that was
  there all along is skipped by a list that ends normally. What the iterator does guarantee
  is `WholeIfNoneCameOrWent`.

- `ErrorIsNoResult`: the README says errors are not turned into empty results. `KricClient`
  reads the header of the payload only, but `extract_items` also takes items out of
  `response`. A `response` that reports a refused key in its own header and has an empty list
  of items is an empty result.

## Proofs

`RustfsStoreProofs` proves, for every finite set of puts, every set of closers, every
positive `MaxConcurrent` and either value of `Closable`:

- `TypeCorrect`, `UploadsDrained`, `ActiveExact`, `SlotsExact`, `LockHandedOver`,
  `ReturnedClosed`, `AdmissionStopped`
- `Refinement`: every behaviour satisfies the safety part of `UploadLifecycle`

The invariant `IInv` adds to the types: `QueueInv` (whoever is in the queue of the semaphore
waits in it, once: otherwise granting its head could admit an upload nobody counted),
`IdleInv` (a put that was not called has no worker), `GateInv` (the count is exact, and
whoever got past the drained event, and all that follows from it, presupposes a shut gate
and no admitted upload) and `OutcomeInv` (a successful `close()` closed the pool; an aclose
that returned found or left the store closed), `SlotsInv` (free slots, slots under way and
uploads in their threads add up to `MaxConcurrent`, and a slot that is free while somebody
queues is one somebody else has been promised) and `LockInv` (one holder or heir of the
close lock, and its queue is who waits for it). The lemmas on `QueueOf` (`SequenceLemmas`) say what
appending to, leaving and serving a queue without repetitions does to the set of who is
in it.
`PutStepEffect` sums up what a step of a put
does to the set of admitted uploads; `CloseStepGate` shows that a step of a closer does not
touch it.

`FileArchiveProofs` proves, for every finite set of calls, every set of files with lengths,
every limit and every set of contents the parsers accept:

- `TypeCorrect`, `ReturnedArchived`, `VerifiedArchived`, `NotOverwritten`

Its `IInv` adds to the types: `BodyInv` (who reads or has read has a body, no longer than the
file, and no upload is asked for before that), `UploadInv` (only what was accepted is
uploaded, what was applied is in the bucket under its key, a success was applied, and who
returned had a success) and `BucketInv` (every object is the content its key names, and was
accepted). Because of the last, nothing is overwritten whatever the calls do.
`ContentType` is the one lemma about data: a body within its file is a member of `Contents`.
That the archiving calls use the store as `UploadLifecycle` promises needs no theorem: the steps
of the store in `FileArchive` are the actions of that module. `Refinement` above says that
`RustfsStore` keeps the promise.

`KorailProofs`, its first half, proves about `KorailRequests`, for every finite set of calls and
every gap:

- `RequestsTypeCorrect`, `LockHandedOver`, `Spaced`

`RequestsIInv` adds to the types and `OneAtATime`: `QueueInv` (the queue of the lock is who waits
for it, each once: otherwise releasing the lock could wake a call that is already over) and
`SpacingInv` (no request went out since the last stamp, and whoever sleeps, sleeps to the end
of the gap after that stamp). `RequestsSpaced` follows from the second: only a call that wakes
up after its sleep, or the first one of the client, starts a request. `UnlockKeeps` and
`HoldKeeps` are the two things a step can do to the lock.

`MaritimePagesProofs` proves, for every set of rows, every page size, call budget and number
of edits:

- `TypeCorrect`, `EndsComplete`, `EndsWhole`, `CalmSuffices`, `NoneWasted`

`ResultOfAnswer` says what the iterator can be given: rows of the table with its length, rows of
the table without a total, which on the first page are all of it, or the word that there is
nothing, where there is nothing. It is proved from the definitions of `MaritimeAnswers`, so that
it also shows that what the checks of one request let through is enough for the iterator. `IInv`
adds to the types `CountInv` (no row twice; before the first page there is no total and after it
there is one; a list without one is in its first and only answer, `Uncounted`) and `TableInv` (as
long as no row came or went, the total is the length of the table, and what was handed on and is
in hand comes from it). That the length and distinctness then give the whole table is
`SameLengthSameSet`.

`CalmSuffices` and `NoneWasted` need a second invariant, `CalmInv`, on top of `IInv`: from one
table, answered in full, what was handed on and is in hand is the beginning of the table, whole
pages of it, and a page that is asked for has rows. `ResultOfProperAnswer` is what such a
provider's answers become; `Paged` (`SequenceLemmas`) says that page after page nothing is left
out, with the product of page number and page size in one place.

What is assumed of the constants is that the sentinels of the model are no values: in the code
they are `None`, an explicit null or a field that is not there, and no list, number, body or
error is any of these (`NullIsNoNumber`, `NoTotalIsNoNumber`, `NoTotalIsNoError`,
`NeitherIsAList`, `NullIsNoBody`, `RowsAreComplete`).

`MaritimeAnswersProofs` proves, for every set of lists of rows, complete or not, and every set
of totals:

- `TypeCorrect`, `EmptyWasSaid`, `PortCallsComplete`

The invariant says that the outcome is an error of one of the kinds or `Result(payload)`; the
rest is what the checks, in their order, leave of a payload: the header that is read is a success
or NOT FOUND DATA (`NoEnvelopeError`), the items are none or a list of complete rows
(`ValidItems`), the total is a number where it is needed (`TotalIsNumber`), and so
`WhatIsReturned`. The assumptions are the model's grammar of payloads (`ListsOfRows`,
`TotalsAreIntegers`) and that `None` is no error and no number (`NoneIsNoError`,
`NoneIsNoNumber`); `RequestMayBeMade` shows that they hold of the constants `MaritimePages` gives
the module, which are all lists of rows and all counts.

`KorailProofs`, its second half, proves about `KorailCategory`, for every finite set of stations
under any names, every page size, every budget up to the 50 pages the client allows, and every
catalogue:

- `TypeCorrect`, `CompletedAsLong`, `CompletedWhole`, `CalmCompleted`, `JoinedRight`,
  `JoinedUnlessAmbiguous`

Its `IInv` adds to the types: `ListInv` (no row is accepted twice; if no station came or went
all are of the guide; a completed list has the length of the guide), `CalmInv` (as for the
iterators) and `JoinInv` (the places are those of `PlaceOf` for the catalogue there was). What
remains is about `PlaceOf` alone: a name that one candidate and one row have leads to that
candidate and no other (`OneOfAName`, `PlaceFound`), and fails to only where there is a namesake
(`PlaceKnown`). `GuidePage` and `WrongPage` say what a page of the guide may be, `ReceiveEffect`
what is made of one.

`FileTablesProofs` proves, for every set of headers and rows of any width, every bound on
their number, every limit and every set of sizes that may be declared:

- `TypeCorrect`, `NoneLeftOut`, `StationsRight`, `HiddenNothing`
- `TableOfFile`: a table that is returned is a function of the operation and the file

Its `IInv` adds to the types that no more rows are kept than were read, and `ReadInv`: the columns
of a file that is as declared are those of its header (`Faithful`), and what is returned was
`Acceptable` and read to the end of what is shown. `KnownInRange` holds of the six rows in the
code, and `BlankIsNoNumber` because a blank coordinate is `None`.

`TableOfFile` and `NoneLeftOut` need a second invariant, `TableInv`, which says of every file,
whether it is as declared or not, that the columns are those shown, and the rows kept so far are,
in order, the records of the rows shown so far that have something under these columns; and that
no workbook is read that is too large or whose header names a column twice or not at all
(`Proper`). `Places` counts the rows with something in them by the cardinality of sets, in place
of a recursion over the file. From there to `NothingLeftOut` it is three steps: `Returned` is the
invariant at the end; `CountingColumns`, that each name has exactly one column that counts, so
that a record has exactly the cells of these and is blank exactly if the row cannot be seen; and
`KeptIsSeen`, that the rows kept are the rows that can be seen. Nothing in the table depends on
how the reading went, which is why `FileArchive` can take what a parser accepts of a file as a
parameter, `Readable`, and is proved for every value of it.

`KricAnswersProofs` proves, for every set of rows, every route code and sequence number, arrays
of every length and every item:

- `TypeCorrect`, `ReturnedAsSent`, `RoutesOrdered`

Nothing happens in this model but one answer, so the invariant says only that the outcome is an
error or `Result(payload)`. The work is in the sort: `Before` is a strict order of the stops of
any list (`BeforeOrders`), what is strictly ordered can be put in order (`Sorting`: the place
of each is the number of those before it), a list put in another order has the same elements as
often (`Rearranged`), and in the order of `Before` a route is in one piece (`RouteInOrder`:
what lies between two stops with one first stop has the same first stop). That the rows are
well formed is assumed of the constants as the model's grammar of payloads (`ArraysOfRows`,
`ItemsOfRows`); `NoneIsNoError` says that no error is `None`.

Checked by TLC only:

- Liveness: `PutsComeBack`, `AclosesComeBack`, the liveness of `UploadLifecycle`, and
  `CallsComeBack` of `KorailRequests` and `FileArchive`. Fairness needs `ENABLED`, which the
  prover does not reason about.
- That the three properties listed under findings are violated.

## Not modelled

See "components" in `PROJECT.json`. Left out on purpose: the checks of arguments, which come
before any state; the text a formatted number shows (`_cell_value`) and other conversions of
one scalar; the facilities of a station; the classification of S3 errors (`_storage_error`),
which decides only which exception a failed `put_bytes` raises; validators of endpoint,
bucket and key; formatting and the wording of errors; the record types of `models`.

## Plan

Every module of the plan is written, and every safety property that a run checks is proved. What
a next step would add is the conversions of scalars and the classification of S3 errors
(`_storage_error`), as operators checked against a reference definition.
