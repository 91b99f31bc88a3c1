-------------------------- MODULE CandidateService --------------------------
(***************************************************************************)
(* POST /internal/candidates of the ML service (services/ml_service/app.py)*)
(* while refreshes change the catalog under it: the shortlist of           *)
(* watchnext/candidates (ALS, popularity, merge), the interleaved new      *)
(* titles of watchnext/catalog/live.py and the filling by genre of         *)
(* watchnext/catalog/browse.py.  A request reads STATE.catalog twice.      *)
(***************************************************************************)
EXTENDS CatalogRefresh

CONSTANTS
    Request,
    AlsRank,        \* the user's titles by ALS score, without those trained on
    Popular,        \* ids of popularity.parquet, in order
    NoGenre,        \* no genre in the request
    Excluded,       \* the exclusion sets of the run
    Affinity,       \* the affinities of the run, functions on genres
    K,              \* how many candidates a request asks for
    NowYear         \* the current year

\* An affinity is within -1.0 and 1.0; popularity.parquet has an item once.
ASSUME CandidateAssumption ==
    /\ AlsRank \in Seq(ShelfIds) /\ Popular \in Seq(ShelfIds)
    /\ \A j, k \in DOMAIN Popular : j # k => Popular[j] # Popular[k]
    /\ NoGenre \notin Category
    /\ Excluded \subseteq SUBSET Id
    /\ Affinity \subseteq [Category -> -Unit..Unit]
    /\ K \in Nat \ {0} /\ NowYear \in Nat \ {0}

VARIABLE request

vars == <<catalogVars, request>>

-----------------------------------------------------------------------------
(* The shortlist.                                                          *)

FirstOf(s, n) == SubSeq(s, 1, Min({n, Len(s)}))

FirstOccurrences(s) ==
    Subsequence(s, {k \in DOMAIN s : \A j \in 1..(k - 1) : s[j] # s[k]})

\* ALSModel.recommend and popularity_candidates.
BestOf(ids, excluded) ==
    FirstOf(Subsequence(ids, {k \in DOMAIN ids : ids[k] \notin excluded}), K)

\* retrieve_for_user and merge_candidates: ALS first, then popular titles.
RetrieveForUser(warm, excluded) ==
    IF warm
    THEN FirstOf(FirstOccurrences(BestOf(AlsRank, excluded) \o BestOf(Popular, excluded)), K)
    ELSE BestOf(Popular, excluded)

\* The genres STATE.items has for a candidate.
CatsOf(id) == UNION {items[n].cats : n \in {m \in DOMAIN items : items[m].id = id}}

Described(ids) ==
    [k \in DOMAIN ids |-> [id |-> ids[k], cats |-> CatsOf(ids[k]), source |-> "retrieval"]]

-----------------------------------------------------------------------------
(* blend_live_catalog.                                                     *)

OfGenre(genre, cats) == genre = NoGenre \/ genre \in cats
IdsOf(s) == {s[k].id : k \in DOMAIN s}

\* Candidates that stay, without what is excluded or of another genre.
Classic(q) ==
    Subsequence(q.cands, {k \in DOMAIN q.cands : /\ q.cands[k].id \notin q.excluded
                                                /\ OfGenre(q.genre, q.cands[k].cats)})

\* recency_boost, in units of 1.0.
Recency(year) == Max({0, Min({(5 * Unit) \div 4, (year * Unit) \div NowYear})})

\* The sum of some genres' affinities, the positive ones less the negative.
Total(aff, cats) ==
    Cardinality({u \in cats \X (1..Unit) : u[2] <= aff[u[1]]})
        - Cardinality({u \in cats \X (1..Unit) : u[2] <= -aff[u[1]]})

MeanAffinity(q, cats) == IF cats = {} THEN 0 ELSE Total(q.affinity, cats) \div Cardinality(cats)

\* live_score, in twentieths.
LiveScore(q, row) == 9 * row.pop + 8 * Recency(row.year) + 3 * MeanAffinity(q, row.cats)

LiveFromYear == 1

\* Mutant: excluded titles come back as new ones.
AnyNew(q, row) ==
    /\ row.id \notin IdsOf(Classic(q))
    /\ row.year >= LiveFromYear /\ OfGenre(q.genre, row.cats)
IsNew(q, row) ==
    /\ row.id \notin IdsOf(Classic(q)) \cup q.excluded
    /\ row.year >= LiveFromYear
    /\ OfGenre(q.genre, row.cats)

\* The new titles of the catalog, the best first.
Live(q) ==
    LET ahead(a, b) == LiveScore(q, a) > LiveScore(q, b)
        rows == SortedBy(Subsequence(catalog, {n \in DOMAIN catalog : IsNew(q, catalog[n])}), ahead)
    IN  [k \in DOMAIN rows |-> [id |-> rows[k].id, cats |-> rows[k].cats, source |-> "live"]]

\* Mutant: the new titles first, then the others.
AlwaysNew(turn) == TRUE
NewTurn(turn) == turn % 2 = 1

\* Mutant: the loop ends with the shorter list.
UntilOneIsEmpty(live, classic) == 2 * Min({Len(live), Len(classic)})
Turns(live, classic) == Len(live) + Len(classic)

\* The loop: live and classic take turns, until one of them is empty and the
\* other goes on, or k are found.
Woven(live, classic) ==
    LET taken[n \in 0..Turns(live, classic)] ==      \* new titles in the first n turns
            IF n = 0 THEN 0
            ELSE LET i == taken[n - 1]
                 IN  IF i < Len(live) /\ (NewTurn(n) \/ n - 1 - i = Len(classic)) THEN i + 1 ELSE i
    IN  [n \in 1..Min({K, Turns(live, classic)}) |->
            IF taken[n] > taken[n - 1] THEN live[taken[n]] ELSE classic[n - taken[n]]]

-----------------------------------------------------------------------------
(* fill_by_genre: the rest of the catalog, excluded titles not excepted.   *)

Filled(q) ==
    LET kept == Subsequence(q.cands, {k \in DOMAIN q.cands : q.genre \in q.cands[k].cats})
        rest == {n \in DOMAIN catalog : /\ q.genre \in catalog[n].cats
                                        /\ catalog[n].id \notin IdsOf(kept)}
        rows == Subsequence(catalog, rest)
        more == [k \in DOMAIN rows |-> [id |-> rows[k].id, cats |-> rows[k].cats, source |-> "fill"]]
    IN  FirstOf(kept \o more, K)

-----------------------------------------------------------------------------
(* One request.  rows is the catalog it has read last.                     *)

NewRequest ==
    [stage |-> "new", excluded |-> {}, genre |-> NoGenre,
     affinity |-> [c \in Category |-> 0], cands |-> <<>>, shortlist |-> <<>>, rows |-> <<>>]

Init == CatalogInit /\ request = [r \in Request |-> NewRequest]

\* A warm user is one the ALS model was trained on.
Retrieve(r, warm, excluded, genre, affinity) ==
    LET list == Described(RetrieveForUser(warm, excluded)) IN
    /\ request[r].stage = "new"
    /\ request' = [request EXCEPT ![r] =
            [@ EXCEPT !.stage = "blend", !.excluded = excluded, !.genre = genre,
                      !.affinity = affinity, !.cands = list, !.shortlist = list]]
    /\ UNCHANGED catalogVars

Blend(r) ==
    LET q    == request[r]
        list == Woven(Live(q), Classic(q))
    IN  /\ q.stage = "blend"
        /\ request' = [request EXCEPT ![r] =
                [q EXCEPT !.stage = IF q.genre # NoGenre /\ Len(list) < K THEN "fill" ELSE "done",
                          !.cands = list, !.rows = catalog]]
        /\ UNCHANGED catalogVars

FillByGenre(r) ==
    /\ request[r].stage = "fill"
    /\ request' = [request EXCEPT ![r] =
            [@ EXCEPT !.stage = "done", !.cands = Filled(request[r]), !.rows = catalog]]
    /\ UNCHANGED catalogVars

Next ==
    \/ CatalogNext /\ UNCHANGED request
    \/ \E r \in Request :
        \/ \E warm \in BOOLEAN, excluded \in Excluded, genre \in Category \cup {NoGenre},
              affinity \in Affinity : Retrieve(r, warm, excluded, genre, affinity)
        \/ Blend(r) \/ FillByGenre(r)

Spec == Init /\ [][Next]_vars
-----------------------------------------------------------------------------
(* What must hold.                                                         *)

Done(r) == request[r].stage = "done"

\* Whatever refreshes come in between, an answer has no title twice, no more
\* than asked for and none of another genre; an excluded title comes back only
\* to fill up a genre, behind all that was found for the user (retrieve.py,
\* live.py, browse.py; the two reads of the catalog in candidates).
AnswerIsSound ==
    \A r \in Request :
        LET list == request[r].cands IN
        Done(r) =>
            /\ Len(list) <= K
            /\ \A j, k \in DOMAIN list : j # k => list[j].id # list[k].id
            /\ \A k \in DOMAIN list :
                /\ OfGenre(request[r].genre, list[k].cats)
                /\ list[k].id \in request[r].excluded =>
                    /\ request[r].genre # NoGenre
                    /\ \A j \in k..Len(list) : list[j].source = "fill"

\* An answer that is short leaves nothing out: neither a title of the
\* shortlist nor one of the catalog it read last, old titles excepted when no
\* genre is asked for (live.py, the loop; browse.py, fill_by_genre).
ShortAnswerIsComplete ==
    \A r \in Request :
        LET q == request[r] IN
        (Done(r) /\ Len(q.cands) < K) =>
            /\ IdsOf(Classic([q EXCEPT !.cands = q.shortlist])) \subseteq IdsOf(q.cands)
            /\ \A n \in DOMAIN q.rows :
                (/\ OfGenre(q.genre, q.rows[n].cats)
                 /\ q.genre = NoGenre =>
                        q.rows[n].id \notin q.excluded /\ q.rows[n].year >= LiveFromYear)
                    => q.rows[n].id \in IdsOf(q.cands)

\* How many of the first p candidates come from source.
Share(list, p, source) == Cardinality({k \in 1..p : list[k].source = source})

\* Without a genre, new titles and the shortlist share the answer evenly, from
\* the first place on, until one of them has nothing left to give (live.py:
\* "interleave post-2000 titles so the bill is not stuck in 1999").
NewTitlesTakeTurns ==
    \A r \in Request :
        LET q    == request[r]
            new  == {n \in DOMAIN q.rows : IsNew([q EXCEPT !.cands = q.shortlist], q.rows[n])}
            kept == Classic([q EXCEPT !.cands = q.shortlist])
        IN  (Done(r) /\ q.genre = NoGenre) =>
                \A p \in 1..Len(q.cands) :
                    LET live == Share(q.cands, p, "live")
                        old  == Share(q.cands, p, "retrieval")
                    IN  /\ live < old => live = Cardinality(new)
                        /\ live > old + 1 => old = Len(kept)
=============================================================================
