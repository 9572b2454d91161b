--------------------------- MODULE KorailCategory ---------------------------
(***************************************************************************)
(* KorailPublicClient.get_category_stations and                            *)
(* get_located_category_stations (src/kric/korail_public.py): all pages of *)
(* one category of KORAIL's station guide, then KORAIL's catalogue of      *)
(* stations, whose coordinates are attached by name. One task; the guide   *)
(* changes while it is paged through.                                      *)
(*                                                                         *)
(* A station of the guide and one of the catalogue carry identifiers that  *)
(* have nothing in common: only the model knows that they are one station. *)
(* What the client compares are stationSeq, one for each station of the    *)
(* guide, stn_cd, one for each station of the catalogue, and the name.     *)
(***************************************************************************)
EXTENDS Naturals, FiniteSets, Sequences, SequencesExt

CONSTANTS
    Stations,        \* stations of the category, now or at some time
    Outsiders,       \* stations whose rows do not name the category
    Names, NameOf,   \* a name is not always the name of one station
    PageSize,        \* rows KORAIL puts on a page
    MaxPages,        \* max_pages
    MaxEdits,        \* bound on the guide's changes during one call
    Nowhere          \* no coordinates

Everyone == Stations \cup Outsiders

ASSUME StationsFinite == IsFiniteSet(Everyone)
ASSUME NoStationOutside == Stations \cap Outsiders = {}
ASSUME NamesOfStations == NameOf \in [Everyone -> Names]
ASSUME PageSizePositive == PageSize \in Nat \ {0}
ASSUME MaxPagesRange == MaxPages \in 1 .. 50
ASSUME MaxEditsNat == MaxEdits \in Nat
ASSUME NowhereIsNoStation == Nowhere \notin Everyone

VARIABLES
    guide,           \* KORAIL's rows for the category, in paging order
    categories,      \* its list of categories, which has the one asked for
    edits,           \* how often the guide changed since the call began
    churned,         \* a station came or went since
    calm,            \* every answer was the guide's page in full, from one guide
    located,         \* the call is get_located_category_stations
    state,           \* of the call
    pageNo,          \* page_no of the request in flight
    first,           \* total and categories of the first page
    stations,        \* the rows accepted so far
    catalogue,       \* stations of the catalogue it was answered
    places           \* whose coordinates each row got, in the end

provider == <<guide, categories, edits, churned>>
vars == <<provider, calm, located, state, pageNo, first, stations, catalogue, places>>

-----------------------------------------------------------------------------
\* Guides without repetition, and three lists of categories: two with the
\* category and one without.
Guides == {s \in SeqOf(Stations, Cardinality(Stations)) : IsInjective(s)}
CategoryLists == {"listed", "listedAnew", "unlisted"}
Header == [total : Nat, categories : CategoryLists]

TypeOK ==
    /\ guide \in Seq(Stations) /\ IsInjective(guide)
    /\ categories \in CategoryLists
    /\ edits \in 0 .. MaxEdits
    /\ churned \in BOOLEAN /\ calm \in BOOLEAN /\ located \in BOOLEAN
    /\ state \in {"new", "paging", "locating", "returned", "raised", "cancelled"}
    /\ pageNo \in 1 .. MaxPages
    /\ first \in Header \cup {Nowhere}
    /\ stations \in Seq(Everyone)
    /\ catalogue \subseteq Everyone
    /\ places \in Seq(Everyone \cup {Nowhere})

Init ==
    /\ guide \in Guides
    /\ categories \in CategoryLists
    /\ edits = 0
    /\ churned = FALSE
    /\ calm = TRUE
    /\ located \in BOOLEAN
    /\ state = "new"
    /\ pageNo = 1
    /\ first = Nowhere
    /\ stations = <<>>
    /\ catalogue = {}
    /\ places = <<>>

-----------------------------------------------------------------------------
(* KORAIL *)

\* While the client pages, stations come, go and change places, and so do the
\* categories.
Edit ==
    /\ state = "paging"
    /\ edits < MaxEdits
    /\ edits' = edits + 1
    /\ \/ /\ \/ \E s \in Stations \ ToSet(guide), i \in 1 .. Len(guide) + 1 :
                   guide' = InsertAt(guide, i, s)
             \/ \E i \in 1 .. Len(guide) : guide' = RemoveAt(guide, i)
             \/ \E i, j \in 1 .. Len(guide) :
                   i < j /\ guide' = [guide EXCEPT ![i] = guide[j], ![j] = guide[i]]
          /\ UNCHANGED categories
       \/ categories' \in CategoryLists \ {categories} /\ UNCHANGED guide
    /\ churned' = (churned \/ ToSet(guide') # ToSet(guide))
    /\ calm' = FALSE
    /\ UNCHANGED <<located, state, pageNo, first, stations, catalogue, places>>

\* Page n of the guide, cut by position.
PageOf(n) == SubSeq(guide, (n - 1) * PageSize + 1,
                    IF n * PageSize < Len(guide) THEN n * PageSize ELSE Len(guide))

\* Instead of what it should hold a page may hold fewer rows, those of another
\* page, or one of an outsider.
WrongPages(n) ==
    LET page == PageOf(n)
    IN  {SubSeq(page, 1, k) : k \in 0 .. Len(page) - 1}
        \cup {PageOf(m) : m \in 1 .. MaxPages \ {n}}
        \cup {[page EXCEPT ![i] = o] : i \in DOMAIN page, o \in Outsiders}

-----------------------------------------------------------------------------
(* The client *)

\* The arguments are in order and page 1 is requested.
Start ==
    /\ state = "new"
    /\ state' = "paging"
    /\ UNCHANGED <<provider, calm, located, pageNo, first, stations, catalogue, places>>

Raise == state' = "raised" /\ UNCHANGED pageNo

\* parse_korail_guide_page: more rows than the total, or none of some.
PageImplausible(rows, total) == Len(rows) > total \/ (total > 0 /\ rows = <<>>)

Slip_HeaderUnchecked(header) == FALSE
HeaderChanged(header) == first # Nowhere /\ header # first

CategoryMissing(header) == first = Nowhere /\ header.categories = "unlisted"

\* validate_rows: excess and repeated stations, and such of another category.
Slip_OutsidersPass(rows, total) == Len(rows) > total \/ ~IsInjective(rows)
RowsInvalid(rows, total) ==
    \/ Len(rows) > total
    \/ ~IsInjective(rows)
    \/ \E i \in DOMAIN rows : rows[i] \in Outsiders

\* When all is there the call is done, or goes for the coordinates; otherwise
\* there is another page, or the budget is spent and the list incomplete.
Slip_PagesOn(total, rows) ==
    \/ /\ Len(rows) = total /\ pageNo = MaxPages
       /\ state' = (IF located THEN "locating" ELSE "returned")
       /\ UNCHANGED pageNo
    \/ /\ pageNo < MaxPages
       /\ pageNo' = pageNo + 1
       /\ UNCHANGED state
    \/ /\ Len(rows) # total /\ pageNo = MaxPages
       /\ Raise
Slip_NoBudget(total, rows) ==
    \/ /\ Len(rows) = total
       /\ state' = (IF located THEN "locating" ELSE "returned")
       /\ UNCHANGED pageNo
    \/ /\ Len(rows) # total
       /\ pageNo' = pageNo + 1
       /\ UNCHANGED state
GoOn(total, rows) ==
    \/ /\ Len(rows) = total
       /\ state' = (IF located THEN "locating" ELSE "returned")
       /\ UNCHANGED pageNo
    \/ /\ Len(rows) # total /\ pageNo < MaxPages
       /\ pageNo' = pageNo + 1
       /\ UNCHANGED state
    \/ /\ Len(rows) # total /\ pageNo = MaxPages
       /\ Raise

Receive(rows) ==
    LET header == [total |-> Len(guide), categories |-> categories]
        reference == IF first = Nowhere THEN header ELSE first
        all == stations \o rows
    IN  IF \/ PageImplausible(rows, header.total)
           \/ CategoryMissing(header)
           \/ HeaderChanged(header)
           \/ RowsInvalid(all, reference.total)
        THEN Raise /\ UNCHANGED <<first, stations>>
        ELSE /\ first' = reference
             /\ stations' = all
             /\ GoOn(reference.total, all)

GetPage ==
    /\ state = "paging"
    /\ Receive(PageOf(pageNo))
    /\ UNCHANGED <<provider, calm, located, catalogue, places>>

GetWrongPage ==
    /\ state = "paging"
    /\ \E rows \in WrongPages(pageNo) \ {PageOf(pageNo)} : Receive(rows)
    /\ calm' = FALSE
    /\ UNCHANGED <<provider, located, catalogue, places>>

\* No answer, or one that _get or the parsers refuse.
GetRaises ==
    /\ state \in {"paging", "locating"}
    /\ Raise
    /\ calm' = FALSE
    /\ UNCHANGED <<provider, located, first, stations, catalogue, places>>

-----------------------------------------------------------------------------
(* The join *)

\* The stations of a catalogue that have a name, and the rows that do.
Candidates(stns, name) == {s \in stns : NameOf[s] = name}
RowsNamed(name) == {i \in DOMAIN stations : NameOf[stations[i]] = name}

Slip_NamesakesShare(stns, i) ==
    LET name == NameOf[stations[i]]
    IN  IF Cardinality(Candidates(stns, name)) = 1
        THEN CHOOSE s \in stns : NameOf[s] = name
        ELSE Nowhere
Slip_OneNamesakeSpoilsAll(stns, i) ==
    LET name == NameOf[stations[i]]
    IN  IF /\ Cardinality(Candidates(stns, name)) = 1
           /\ \A j \in DOMAIN stations : Cardinality(RowsNamed(NameOf[stations[j]])) = 1
        THEN CHOOSE s \in stns : NameOf[s] = name
        ELSE Nowhere
PlaceOf(stns, i) ==
    LET name == NameOf[stations[i]]
    IN  IF Cardinality(Candidates(stns, name)) = 1 /\ Cardinality(RowsNamed(name)) = 1
        THEN CHOOSE s \in stns : NameOf[s] = name
        ELSE Nowhere

\* parse_korail_public_stations: a catalogue is never empty and has no code twice.
\* It knows whom it knows.
Catalogues == SUBSET Everyone \ {{}}

GetStations ==
    /\ state = "locating"
    /\ \E stns \in Catalogues :
          /\ catalogue' = stns
          /\ places' = [i \in DOMAIN stations |-> PlaceOf(stns, i)]
    /\ state' = "returned"
    /\ UNCHANGED <<provider, calm, located, pageNo, first, stations>>

Cancel ==
    /\ state \in {"paging", "locating"}
    /\ state' = "cancelled"
    /\ UNCHANGED <<provider, calm, located, pageNo, first, stations, catalogue, places>>

-----------------------------------------------------------------------------
Next ==
    \/ Edit \/ Start
    \/ GetPage \/ GetWrongPage \/ GetRaises \/ GetStations
    \/ Cancel

Spec == Init /\ [][Next]_vars

-----------------------------------------------------------------------------
(* What must be right about a category *)

\* docs/korail-public-station-guide.md: all pages are checked, repeated stations
\* and strangers refused. If no station came or went meanwhile, what is returned is
\* the whole category, whatever was reordered, cut short or answered out of turn.
WholeIfNoneCameOrWent ==
    state = "returned" /\ ~churned => ToSet(stations) = ToSet(guide)

\* It raises for a reason: if KORAIL answers alike throughout, only a category
\* that is not there or does not fit max_pages fails, and the rows keep their order.
CalmKorailSuffices ==
    calm =>
        /\ state = "raised" =>
              \/ Len(guide) > MaxPages * PageSize
              \/ categories = "unlisted"
        /\ state \in {"locating", "returned"} => stations = guide

\* docs/korail-public-station-guide.md: what is missing or cut short is no normal
\* result. A list is never longer or shorter than the guide it was completed from,
\* even if stations came and went between the pages.
AsLongAsTheGuide ==
    state \in {"locating", "returned"} =>
        IsInjective(stations) /\ Len(stations) = Len(guide)

Joined == state = "returned" /\ located

\* Never the coordinates of one station for two rows, nor of another station if
\* the catalogue knows the one that is meant: namesakes get none. A station it does
\* not know gets those of its namesake, but only if that is the only one there is.
RightCoordinates ==
    Joined =>
        /\ Len(places) = Len(stations)
        /\ \A i \in DOMAIN places :
              /\ stations[i] \in catalogue => places[i] \in {stations[i], Nowhere}
              /\ places[i] # Nowhere =>
                    {s \in catalogue : NameOf[s] = NameOf[stations[i]]} = {places[i]}
        /\ \A i, j \in DOMAIN places :
              i # j /\ places[i] # Nowhere => places[i] # places[j]

\* A row goes without coordinates for a reason: the catalogue does not know the
\* station, or there is another of the same name on either side.
LocatedUnlessAmbiguous ==
    Joined =>
        \A i \in DOMAIN places :
            \/ places[i] = stations[i]
            \/ stations[i] \notin catalogue
            \/ \E s \in (catalogue \cup ToSet(stations)) \ {stations[i]} :
                  NameOf[s] = NameOf[stations[i]]
=============================================================================
