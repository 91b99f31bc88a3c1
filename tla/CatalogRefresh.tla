--------------------------- MODULE CatalogRefresh ---------------------------
(***************************************************************************)
(* The catalog of the ML service and its refresh while the service runs:   *)
(* services/ml_service/app.py (_merge_live_catalog, refresh_catalog) and   *)
(* watchnext/catalog/imdb.py (merge_imdb_into_items).                      *)
(*                                                                         *)
(* Refreshes are threads that share STATE.items, STATE.item_stats and      *)
(* STATE.catalog without a lock.  The first two are changed in place, row  *)
(* by row; the third is replaced by a list computed before.  Iterating a   *)
(* dictionary that another thread grows raises, as does a failed download: *)
(* the refresh ends with a 502 and leaves what it has done so far.         *)
(*                                                                         *)
(* Titles are numbers, in the order of their lower-case form; a year counts*)
(* from 2000; a popularity of 1.0 is Unit.                                 *)
(***************************************************************************)
EXTENDS Integers, Sequences, FiniteSets, FiniteSetsExt

CONSTANTS
    Refresher,  \* calls of POST /internal/catalog/refresh
    Shelf,      \* the MovieLens titles of items.parquet, in order
    ShelfPop,   \* ShelfPop[i]: popularity of a MovieLens title
    Frame,      \* what a download may yield: rows of new titles
    Id,         \* item ids
    Category,   \* genres
    Unit        \* popularity 1.0

ShelfIds == {Shelf[n].id : n \in DOMAIN Shelf}

\* MovieLens ids are numbers, the ids of a frame start with "tt".
ASSUME CatalogAssumption ==
    /\ IsFiniteSet(Id) /\ IsFiniteSet(Category)
    /\ Shelf \in Seq([id : Id, title : Nat, year : Int, cats : SUBSET Category])
    /\ \A j, k \in DOMAIN Shelf : j # k => Shelf[j].id # Shelf[k].id
    /\ ShelfPop \in [ShelfIds -> Nat]
    /\ Unit \in Nat \ {0}
    /\ Frame \subseteq Seq([id : Id \ ShelfIds, title : Nat, year : Int,
                            cats : SUBSET Category, votes : Nat])

VARIABLES
    items,      \* STATE.items: a dictionary, in order of insertion
    pop,        \* STATE.item_stats: popularity by id
    catalog,    \* STATE.catalog
    refresh     \* refresh[t]: what thread t does next and what it holds

catalogVars == <<items, pop, catalog, refresh>>

Active == {t \in Refresher : refresh[t].stage \in {"index", "merge", "build", "assign"}}

-----------------------------------------------------------------------------
(* Data.                                                                   *)

\* The elements of s at the positions K, in order.
Subsequence(s, K) ==
    [p \in 1..Cardinality(K) |-> s[CHOOSE k \in K : Cardinality({j \in K : j < k}) = p - 1]]

\* sort: by key, equal ones in the order they had.
SortedBy(s, Ahead(_, _)) ==
    LET before(k) == {j \in DOMAIN s : Ahead(s[j], s[k]) \/ (~Ahead(s[k], s[j]) /\ j < k)}
    IN  [p \in DOMAIN s |-> s[CHOOSE k \in DOMAIN s : Cardinality(before(k)) = p - 1]]

\* build_catalog: a row for every item, the popular ones first.
BuildCatalog ==
    LET row(n)      == [id |-> items[n].id, title |-> items[n].title, year |-> items[n].year,
                        cats |-> items[n].cats, pop |-> pop[items[n].id]]
        ahead(a, b) == a.pop > b.pop \/ (a.pop = b.pop /\ a.title < b.title)
    IN  SortedBy([n \in DOMAIN items |-> row(n)], ahead)

\* items[iid] = ...: an id keeps its place in the dictionary.
Put(s, meta) ==
    IF \E n \in DOMAIN s : s[n].id = meta.id
    THEN [n \in DOMAIN s |-> IF s[n].id = meta.id THEN meta ELSE s[n]]
    ELSE Append(s, meta)

\* _imdb_stats_row.
RowPop(frame, n) ==
    LET most == Max({1} \cup {frame[k].votes : k \in DOMAIN frame})
    IN  (frame[n].votes * Unit) \div most

\* The last step of the merge: popularities are scaled to at most 1.0.
Scaled ==
    LET most == Max({pop[i] : i \in Id})
    IN  IF most = 0 THEN pop ELSE [i \in Id |-> (pop[i] * Unit) \div most]

-----------------------------------------------------------------------------
Idle == [stage |-> "new", frame |-> <<>>, row |-> 1, known |-> <<>>, named |-> 0,
         rows |-> <<>>, lone |-> FALSE]

\* _load, before the first download.
CatalogInit ==
    /\ items = Shelf
    /\ pop = [i \in Id |-> IF i \in ShelfIds THEN ShelfPop[i] ELSE 0]
    /\ catalog = BuildCatalog
    /\ refresh = [t \in Refresher |-> Idle]

\* A call starts and gets its frame.  lone says that no other call was active
\* since it started, or started after it.
Download(t, frame) ==
    /\ refresh[t].stage = "new"
    /\ refresh' = [q \in Refresher |->
                    IF q = t THEN [Idle EXCEPT !.stage = "index", !.frame = frame,
                                               !.lone = (Active = {})]
                    ELSE [refresh[q] EXCEPT !.lone = FALSE]]
    /\ UNCHANGED <<items, pop, catalog>>

\* index and names, from the items of this moment.
Index(t) ==
    /\ refresh[t].stage = "index"
    /\ refresh' = [refresh EXCEPT ![t] =
                    [@ EXCEPT !.stage = "merge", !.known = items, !.named = Len(items)]]
    /\ UNCHANGED <<items, pop, catalog>>

SameTitle(t, row) == {n \in DOMAIN refresh[t].known : refresh[t].known[n].title = row.title}
\* Mutant: a title is known only with its year.
SameYear(t, row) == {n \in SameTitle(t, row) : refresh[t].known[n].year = row.year}
\* index.get(key) or names.get(title): what this merge added is found only
\* with its year.
Matches(t, row) ==
    LET exact == {n \in SameTitle(t, row) : refresh[t].known[n].year = row.year}
    IN  IF exact # {} THEN exact ELSE SameTitle(t, row) \cap 1..refresh[t].named

RowsLeft(t) == refresh[t].row <= Len(refresh[t].frame)

MetaOf(row) == [id |-> row.id, title |-> row.title, year |-> row.year, cats |-> row.cats]

\* One row: a known title gets the higher popularity, another one is added.
MergeRow(t) ==
    LET row   == refresh[t].frame[refresh[t].row]
        score == RowPop(refresh[t].frame, refresh[t].row)
        found == Matches(t, row)
        same  == refresh[t].known[Max(found)].id
    IN  /\ refresh[t].stage = "merge"
        /\ RowsLeft(t)
        /\ IF found # {}
           THEN /\ pop' = IF score > pop[same] THEN [pop EXCEPT ![same] = score] ELSE pop
                /\ refresh' = [refresh EXCEPT ![t].row = @ + 1]
                /\ UNCHANGED items
           ELSE /\ items' = Put(items, MetaOf(row))
                /\ pop' = [pop EXCEPT ![row.id] = score]
                /\ refresh' = [refresh EXCEPT ![t].row = @ + 1,
                                              ![t].known = Append(@, MetaOf(row))]
        /\ UNCHANGED catalog

Scale(t) ==
    /\ refresh[t].stage = "merge"
    /\ ~RowsLeft(t)
    /\ pop' = Scaled
    /\ refresh' = [refresh EXCEPT ![t].stage = "build"]
    /\ UNCHANGED <<items, catalog>>

\* Mutant: no new list unless this merge added an item.
IfAdded(t) == IF Len(refresh[t].known) > refresh[t].named THEN BuildCatalog ELSE catalog
Rebuilt(t) == BuildCatalog

\* _rebuild_catalog computes the list, then replaces the old one.
Build(t) ==
    /\ refresh[t].stage = "build"
    /\ refresh' = [refresh EXCEPT ![t] = [@ EXCEPT !.stage = "assign", !.rows = Rebuilt(t)]]
    /\ UNCHANGED <<items, pop, catalog>>

Assign(t) ==
    /\ refresh[t].stage = "assign"
    /\ catalog' = refresh[t].rows
    /\ refresh' = [refresh EXCEPT ![t] = [@ EXCEPT !.stage = "ok", !.rows = <<>>]]
    /\ UNCHANGED <<items, pop>>

Fail(t) ==
    /\ t \in Active
    /\ refresh' = [refresh EXCEPT ![t].stage = "failed"]
    /\ UNCHANGED <<items, pop, catalog>>

Refresh(t) ==
    \/ \E frame \in Frame : Download(t, frame)
    \/ Index(t) \/ MergeRow(t) \/ Scale(t) \/ Build(t) \/ Assign(t) \/ Fail(t)

CatalogNext == \E t \in Refresher : Refresh(t)

CatalogSpec == CatalogInit /\ [][CatalogNext]_catalogVars
-----------------------------------------------------------------------------
(* What must hold.                                                         *)

\* A film that MovieLens has keeps its id, to which likes, models and features
\* refer: no refresh adds a second item of that title, in whatever order the
\* rows of concurrent refreshes come and wherever they fail (imdb.py,
\* merge_imdb_into_items).
ShelfKeepsItsIds ==
    \A n, m \in DOMAIN items :
        (items[n].id \in ShelfIds /\ items[m].title = items[n].title)
            => items[m].id \in ShelfIds

RowIds(rows) == {rows[n].id : n \in DOMAIN rows}

\* A refresh that met no other one serves every item, what refreshes that
\* failed half-way left behind included, each once (app.py,
\* _merge_live_catalog).
LoneRefreshServesAll ==
    \A t \in Refresher :
        (refresh[t].stage = "ok" /\ refresh[t].lone) =>
            /\ RowIds(catalog) = RowIds(items)
            /\ Len(catalog) = Cardinality(RowIds(items))
=============================================================================
