--------------------------- MODULE CatalogBrowser ---------------------------
(***************************************************************************)
(* "Find a movie": web/app/browse/page.tsx over GET /v1/catalog, which is  *)
(* search_catalog (watchnext/catalog/browse.py) behind two proxies.        *)
(*                                                                         *)
(* The page keeps its filters twice, in its state and in its address, and  *)
(* copies each to the other: a change of the state starts a navigation,    *)
(* and a navigation that commits overwrites the state.  Every change of a  *)
(* filter starts a load of the first page; "Load more" appends the next.   *)
(* No load is ever cancelled: what arrives is applied.  The catalog may be *)
(* replaced by a refresh between two pages.                                *)
(*                                                                         *)
(* Judging a title of the list is TicketClient's subject.                  *)
(***************************************************************************)
EXTENDS Naturals, Sequences, FiniteSets

CONSTANTS
    Catalog,        \* the catalogs the service has, one after the other
    Draft,          \* what may stand in the search field
    Trim(_),        \* a draft without the white space around it
    NoText,         \* the empty text
    Genre, NoGenre, \* genres; every genre
    Era,            \* year ranges to choose from
    YearsOf,        \* eraYears: the first and the last year of a range
    NowYear,
    PageSize,       \* PAGE
    Implied,        \* a parameter the address leaves out
    NoNav,          \* no navigation under way
    Entry,          \* bound: the filters in whose address the page is opened
    MaxActs,        \* bound: what the user does
    MaxPages        \* bound: loads under way

VARIABLES
    filter,     \* q, genre, sort, when
    draft,      \* the search field
    timer,      \* its 250 ms have not passed
    url,        \* the address
    nav,        \* the address of the navigation under way
    list,       \* items, total, offset, loading
    pending,    \* loads under way
    version,    \* the service's catalog is Catalog[version]
    acts,
    wanted, hasty,  \* what the user chose; whether while something was under way
    calm, since     \* whether loads overlapped since the last first page; its catalog

browserVars == <<filter, draft, timer, url, nav, list, pending, version, acts,
          wanted, hasty, calm, since>>

Sort   == {"year", "popular", "title"}
Text   == {Trim(d) : d \in Draft}
Filter == [q : Text, genre : Genre \cup {NoGenre}, sort : Sort, when : Era]
Address == [q : Text, genre : Genre \cup {NoGenre},
            sort : Sort \cup {Implied}, when : Era \cup {Implied}]

ASSUME BrowserAssumption ==
    /\ Catalog # <<>> /\ Catalog \in Seq({Catalog[v] : v \in DOMAIN Catalog})
    /\ \A v \in DOMAIN Catalog : IsFiniteSet(DOMAIN Catalog[v])
    /\ NoText \in Text
    /\ \A d \in Draft : Trim(d) \in Draft /\ Trim(Trim(d)) = Trim(d)
    /\ {"recent", "any"} \subseteq Era
    /\ YearsOf \in [Era -> Nat \X Nat]
    /\ NoGenre \notin Genre
    /\ Implied \notin Sort \cup Era /\ NoNav \notin Address
    /\ Entry \subseteq Filter
    /\ PageSize \in 1..100
    /\ MaxActs \in Nat /\ MaxPages \in Nat

-----------------------------------------------------------------------------
(* search_catalog.                                                         *)

\* 0.9 ** age, in hundredths.
Recency(row) ==
    LET fade[age \in Nat] == IF age = 0 THEN 100 ELSE (fade[age - 1] * 9) \div 10
    IN  IF row.year = 0 THEN 0 ELSE fade[IF row.year > NowYear THEN 0 ELSE NowYear - row.year]

NewestScore(row) == 40 * Recency(row) + 60 * row.pop

\* A row's words are the texts that are found in its title, as it is, compact
\* or canonical.  A search looks at every year; 0 is no limit and no year.
Matches(row, f) ==
    LET years == IF f.q = NoText THEN YearsOf[f.when] ELSE <<0, 0>>
    IN  /\ f.genre = NoGenre \/ f.genre \in row.cats
        /\ f.q = NoText \/ f.q \in row.words
        /\ years[1] > 0 => row.year # 0 /\ row.year >= years[1]
        /\ years[2] > 0 => row.year # 0 /\ row.year <= years[2]

Ahead(a, b, sort) ==
    LET first(x, y) == x > y \/ (x = y /\ a.title < b.title)
    IN  CASE sort = "title"   -> a.title < b.title
          [] sort = "year"    -> first(NewestScore(a), NewestScore(b))
          [] sort = "popular" -> first(a.pop, b.pop)

\* The ids that match, in order; equal rows in the catalog's order.
Result ==
    [v \in DOMAIN Catalog |-> [f \in Filter |->
        LET rows == Catalog[v]
            hits == {k \in DOMAIN rows : Matches(rows[k], f)}
            before(k) == {j \in hits : \/ Ahead(rows[j], rows[k], f.sort)
                                       \/ (~Ahead(rows[k], rows[j], f.sort) /\ j < k)}
        IN  [n \in 1..Cardinality(hits) |->
                rows[CHOOSE k \in hits : Cardinality(before(k)) = n - 1].id]]]

\* One page of n rows after the first o.
Slice(s, o, n) == SubSeq(s, o + 1, IF o + n > Len(s) THEN Len(s) ELSE o + n)
PageOf(v, f, o) == Slice(Result[v][f], o, PageSize)

-----------------------------------------------------------------------------
(* The address.                                                            *)

ImplicitEra(q) == IF q = NoText THEN "recent" ELSE "any"

\* browseQuery.
BrowseQuery(f) ==
    [q |-> f.q, genre |-> f.genre,
     sort |-> IF f.sort = "year" THEN Implied ELSE f.sort,
     when |-> IF f.when = ImplicitEra(f.q) THEN Implied ELSE f.when]

\* Mutant: one default for all.
AlwaysRecent(u) ==
    [q |-> u.q, genre |-> u.genre,
     sort |-> IF u.sort = Implied THEN "year" ELSE u.sort,
     when |-> IF u.when = Implied THEN "recent" ELSE u.when]
\* The reading of the search parameters, parseEra included.
Parsed(u) ==
    [q |-> u.q, genre |-> u.genre,
     sort |-> IF u.sort = Implied THEN "year" ELSE u.sort,
     when |-> IF u.when = Implied THEN ImplicitEra(u.q) ELSE u.when]

-----------------------------------------------------------------------------
EmptyList == [items |-> <<>>, total |-> 0, offset |-> 0, loading |-> TRUE]
FirstPage(f) == [filter |-> f, offset |-> 0, append |-> FALSE, from |-> version, nr |-> 0]

\* Equal loads are told apart by a number.
Begun(load) ==
    pending \cup {[load EXCEPT !.nr = CHOOSE n \in 0..Cardinality(pending) :
                                        [load EXCEPT !.nr = n] \notin pending]}

\* The page is opened at some address.
BrowserInit ==
    /\ version = 1
    /\ url \in {BrowseQuery(f) : f \in Entry}
    /\ filter = Parsed(url)
    /\ draft = filter.q
    /\ timer = FALSE
    /\ nav = NoNav
    /\ list = EmptyList
    /\ pending = {FirstPage(filter)}
    /\ acts = 0
    /\ wanted = filter /\ hasty = FALSE
    /\ calm = TRUE /\ since = version

\* The effect that follows the state: no navigation to where the page is, and
\* a new one takes the place of the one under way.
Navigation(f) == IF BrowseQuery(f) # url THEN BrowseQuery(f) ELSE nav

\* The state's filters become f: load(0, false) and the navigation.
Choose(f) ==
    /\ filter' = f
    /\ IF f = filter THEN UNCHANGED <<nav, list, pending, calm, since>>
       ELSE /\ Cardinality(pending) < MaxPages
            /\ nav' = Navigation(f)
            /\ list' = [EmptyList EXCEPT !.offset = list.offset]
            /\ pending' = Begun(FirstPage(f))
            /\ calm' = (pending = {})
            /\ since' = version

UserActs == acts < MaxActs /\ acts' = acts + 1

Type(d) ==
    /\ UserActs
    /\ d # draft
    /\ draft' = d
    /\ timer' = TRUE
    /\ wanted' = [wanted EXCEPT !.q = Trim(d)]
    /\ hasty' = (hasty \/ nav # NoNav)
    /\ UNCHANGED <<filter, url, nav, list, pending, version, calm, since>>

\* 250 ms after the last change of the field.
Debounce ==
    /\ timer
    /\ timer' = FALSE
    /\ Choose([filter EXCEPT !.q = Trim(draft)])
    /\ UNCHANGED <<draft, url, version, acts, wanted, hasty>>

\* The user submits the field, or picks a genre, an order or a range.
Pick(f, w, early) ==
    /\ UserActs
    /\ Choose(f)
    /\ wanted' = w
    /\ hasty' = (hasty \/ early)
    /\ UNCHANGED <<draft, timer, url, version>>

Submit == Pick([filter EXCEPT !.q = Trim(draft)], wanted, nav # NoNav)
Picks ==
    LET early == nav # NoNav \/ timer IN
    \/ \E x \in Genre \cup {NoGenre} :
            Pick([filter EXCEPT !.genre = x], [wanted EXCEPT !.genre = x], early)
    \/ \E x \in Sort : Pick([filter EXCEPT !.sort = x], [wanted EXCEPT !.sort = x], early)
    \/ \E x \in Era  : Pick([filter EXCEPT !.when = x], [wanted EXCEPT !.when = x], early)

\* The navigation commits: the state follows an address that has changed, and
\* so does the field, with whatever was typed into it.
Commit ==
    LET f == Parsed(nav) IN
    /\ nav # NoNav
    /\ url' = nav
    /\ IF f = Parsed(url) THEN UNCHANGED <<filter, draft, timer, list, pending, calm, since>>
       ELSE /\ filter' = f
            /\ draft' = f.q
            /\ timer' = (timer \/ draft # f.q)
            /\ IF f = filter THEN UNCHANGED <<list, pending, calm, since>>
               ELSE /\ Cardinality(pending) < MaxPages
                    /\ list' = [EmptyList EXCEPT !.offset = list.offset]
                    /\ pending' = Begun(FirstPage(f))
                    /\ calm' = (pending = {})
                    /\ since' = version
    /\ nav' = NoNav
    /\ UNCHANGED <<version, acts, wanted, hasty>>

\* The button shows while there is more, and works while no first page is
\* awaited: a second click asks for the same page again.
LoadMore ==
    /\ Len(list.items) < list.total
    /\ ~list.loading
    /\ Cardinality(pending) < MaxPages
    /\ UserActs
    /\ pending' = Begun([FirstPage(filter) EXCEPT !.offset = list.offset + PageSize, !.append = TRUE])
    /\ calm' = (calm /\ pending = {})
    /\ UNCHANGED <<filter, draft, timer, url, nav, list, version, wanted, hasty, since>>

\* The answer was made from a catalog the service had since the question.
PageArrives(load) ==
    /\ load \in pending
    /\ \E v \in load.from..version :
        LET page == PageOf(v, load.filter, load.offset) IN
        list' = [items   |-> IF load.append THEN list.items \o page ELSE page,
                 total   |-> Len(Result[v][load.filter]),
                 offset  |-> load.offset,
                 loading |-> FALSE]
    /\ pending' = pending \ {load}
    /\ UNCHANGED <<filter, draft, timer, url, nav, version, acts, wanted, hasty, calm, since>>

\* Mutant: the offset moves with the question.
AskedOffset(load) == load.offset
\* A load that fails leaves the offset; the page can be asked for again.
OffsetAfterFailure(load) == list.offset

\* 503: a deadline, no catalog, a proxy that fails.
PageFails(load) ==
    /\ load \in pending
    /\ list' = [list EXCEPT !.loading = FALSE, !.offset = OffsetAfterFailure(load)]
    /\ pending' = pending \ {load}
    /\ UNCHANGED <<filter, draft, timer, url, nav, version, acts, wanted, hasty, calm, since>>

\* A refresh of the service ends.
Refresh ==
    /\ version < Len(Catalog)
    /\ version' = version + 1
    /\ UNCHANGED <<filter, draft, timer, url, nav, list, pending, acts, wanted, hasty, calm, since>>

BrowserNext ==
    \/ \E d \in Draft : Type(d)
    \/ Debounce \/ Submit \/ Picks \/ Commit \/ LoadMore \/ Refresh
    \/ \E load \in pending : PageArrives(load) \/ PageFails(load)

BrowserSpec == BrowserInit /\ [][BrowserNext]_browserVars
-----------------------------------------------------------------------------
(* What must hold.                                                         *)

\* While no two loads are under way at once and the catalog is not replaced,
\* the list is a beginning of what the filters select, each title once and
\* none left out, whatever pages failed and were asked for again; or empty,
\* until the first page has come (page.tsx, load; browse.py, search_catalog).
CalmListIsPrefix ==
    (calm /\ since = version) =>
        \/ list.items = <<>> /\ list.total = 0
        \/ /\ list.items = Slice(Result[version][filter], 0, list.offset + PageSize)
           /\ list.total = Len(Result[version][filter])

\* When nothing is under way the field, the filters and the address agree,
\* however hastily they were changed; and a user who changed nothing while a
\* navigation was under way, and picked nothing while the field's timer ran,
\* has what was chosen: the address carries every filter over, its defaults
\* included (page.tsx, the three effects; browseQuery, parseEra).
RestIsConsistent ==
    (nav = NoNav /\ ~timer) =>
        /\ filter = Parsed(url)
        /\ filter.q = Trim(draft)
        /\ ~hasty => filter = wanted
=============================================================================
