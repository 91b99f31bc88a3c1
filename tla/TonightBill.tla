---------------------------- MODULE TonightBill ----------------------------
(***************************************************************************)
(* The bill a page makes of a recommendation response and of the popular   *)
(* titles of the catalog: web/lib/bill.ts and its use in loadForYou of     *)
(* web/app/page.tsx.  A pure computation on the responses of Serving.      *)
(***************************************************************************)
EXTENDS Serving

CONSTANTS
    PopularityOf,       \* PopularityOf[i]: of the catalog's statistics, 0 without any
    Notable,            \* NOTABLE_POPULARITY
    SureLikes,          \* likes from which the bill is the model's alone: 3
    EnoughNotables,     \* given so many notable picks: 8
    BillLimit,
    CatalogAnswers,     \* the lists of popular titles the catalog may answer with
    Lobbies             \* the sets of titles the page may show already

ASSUME BillAssumption ==
    /\ PopularityOf \in [Item -> Nat]
    /\ Notable \in Nat \ {0} /\ SureLikes \in Nat \ {0} /\ EnoughNotables \in Nat \ {0}
    /\ BillLimit \in Nat \ {0}
    /\ CatalogAnswers \subseteq Seq(Item)
    /\ Lobbies \subseteq SUBSET Item

\* A row is a title and the popularity its response carried.
Titles(rows) == {rows[k].item : k \in DOMAIN rows}

UniqueById(rows) ==
    Subsequence(rows, {k \in DOMAIN rows : \A j \in 1..(k - 1) : rows[j].item # rows[k].item})

\* Rows without a popularity take the one the pool has for the title.
Hydrated(rows, pool) ==
    [k \in DOMAIN rows |->
        IF rows[k].popularity = 0
        THEN [rows[k] EXCEPT !.popularity =
                Max({0} \cup {pool[j].popularity : j \in {n \in DOMAIN pool : pool[n].item = rows[k].item}})]
        ELSE rows[k]]

NotableRows(rows) ==
    UniqueById(Subsequence(rows, {k \in DOMAIN rows : rows[k].popularity >= Notable}))

-----------------------------------------------------------------------------
(* The loop that mixes two lists.                                          *)

\* Mutant: a title that is on the bill already is pushed again.
PushedAgain(out, row) == Append(out, row)
Pushed(out, row) == IF row.item \in Titles(out) THEN out ELSE Append(out, row)

Turn(pool, guesses) == [out |-> <<>>, pool |-> pool, guesses |-> guesses]

\* Mutant: nothing takes the place of an exhausted list.
NextListStrict(turn) == IF Len(turn.out) % 2 = 0 THEN "pool" ELSE "guesses"
\* The list whose turn it is, or the other one when that is exhausted.
NextList(turn) ==
    IF turn.guesses = <<>> \/ (Len(turn.out) % 2 = 0 /\ turn.pool # <<>>)
    THEN "pool" ELSE "guesses"

Taken(turn) ==
    LET list == turn[NextList(turn)]
    IN  IF Len(turn.out) = BillLimit \/ list = <<>>
        THEN turn
        ELSE [[turn EXCEPT ![NextList(turn)] = Tail(list)] EXCEPT
                !.out = Pushed(turn.out, Head(list))]

\* The loop after n turns; each turn uses up a row of one list.
AllTurns(pool, guesses) ==
    LET after[n \in 0..(Len(pool) + Len(guesses))] ==
            IF n = 0 THEN Turn(pool, guesses) ELSE Taken(after[n - 1])
    IN  after
Mixed(pool, guesses) == AllTurns(pool, guesses)[Len(pool) + Len(guesses)].out

\* mixTonightBill.
MixTonightBill(ranked, popular, likedCount) ==
    LET pool    == UniqueById(popular)
        guesses == NotableRows(Hydrated(ranked, pool))
    IN  IF likedCount = 0 \/ guesses = <<>>
        THEN FirstOf(pool, BillLimit)
        ELSE IF likedCount >= SureLikes /\ Len(guesses) >= Min({EnoughNotables, BillLimit})
        THEN FirstOf(guesses, BillLimit)
        ELSE Mixed(pool, guesses)

-----------------------------------------------------------------------------
(* loadForYou.                                                             *)

\* Mutant: the popular titles are taken as they come.
ShownAnyway(rows, q, banned) == rows
\* Neither on the page already, nor liked or skipped by the features that came
\* with the response.
Shown(rows, q, banned) ==
    Subsequence(rows, {k \in DOMAIN rows :
        rows[k].item \notin banned \cup Judged(q.feats)})

\* The rows of the response, with or without the popularity of its titles.
Picks(q, hydrated) ==
    [k \in DOMAIN q.feed |->
        [item |-> q.feed[k].item,
         popularity |-> IF hydrated THEN PopularityOf[q.feed[k].item] ELSE 0]]

Shelf(items) == [k \in DOMAIN items |-> [item |-> items[k], popularity |-> PopularityOf[items[k]]]]

\* The bill made of response q and the catalog's popular titles.
ForYou(q, hydrated, items, banned) ==
    MixTonightBill(Shown(Picks(q, hydrated), q, banned), Shown(Shelf(items), q, banned),
                   Cardinality(q.feats.liked))

-----------------------------------------------------------------------------
(* What must hold.                                                         *)

\* Whatever lists it is mixed from, a bill repeats no title and has none that
\* the page shows already or that the user had judged, as far as the response
\* knew (bill.ts, push; page.tsx, the two filters).
BillRepeatsNothing ==
    \A r \in Request : Done(r) =>
        \A hydrated \in BOOLEAN, items \in CatalogAnswers, banned \in Lobbies :
            LET bill == ForYou(req[r], hydrated, items, banned) IN
            /\ Len(bill) <= BillLimit
            /\ Cardinality(Titles(bill)) = Len(bill)
            /\ Titles(bill) \cap (banned \cup Judged(req[r].feats)) = {}

\* A bill for a user with few likes gives every other place to a known title
\* and the places between to the model's notable picks, titles that are both
\* counting for either; a place goes to the other list only when a list is
\* used up, and a bill is short only when both are (bill.ts, the loop).
BillSharesItsPlaces ==
    \A r \in Request : Done(r) =>
        \A hydrated \in BOOLEAN, items \in CatalogAnswers, banned \in Lobbies :
            LET q       == req[r]
                bill    == ForYou(q, hydrated, items, banned)
                before(k) == {bill[j].item : j \in 1..(k - 1)}
                known   == {items[k] : k \in DOMAIN items} \ (banned \cup Judged(q.feats))
                guesses == {i \in {q.feed[k].item : k \in DOMAIN q.feed} \ (banned \cup Judged(q.feats)) :
                                /\ hydrated \/ i \in known
                                /\ PopularityOf[i] >= Notable}
            IN  (q.feats.liked # {} /\ Cardinality(q.feats.liked) < SureLikes /\ guesses # {}) =>
                    /\ \A k \in DOMAIN bill :
                        LET turn == IF k % 2 = 1 THEN known ELSE guesses
                        IN  bill[k].item \in turn \/ turn \subseteq before(k)
                    /\ Len(bill) < BillLimit => known \cup guesses = Titles(bill)
=============================================================================
