----------------------- MODULE CandidateService_proof -----------------------
(***************************************************************************)
(* What the catalog and the answers made of it keep to, for any shelf, any *)
(* frames and any number of refreshes and requests.                        *)
(*                                                                         *)
(* ShelfKeepsItsIds: the shelf stays at the head of the dictionary, a      *)
(* thread that merges has the shelf among the names it looks up, and so    *)
(* what it adds has neither an id nor a title of the shelf.                *)
(*                                                                         *)
(* LoneRefreshServesAll: sorting a list by rank is a permutation of its    *)
(* positions, so the list a refresh builds has a row for every item it has *)
(* read; no other refresh changes the items before it is assigned.         *)
(*                                                                         *)
(* AnswerIsSound, ShortAnswerIsComplete, NewTitlesTakeTurns: every catalog *)
(* there ever is has an id once, so a blend and the filling of a genre     *)
(* each find distinct titles that fit; the loop's turns are a recursive    *)
(* function of the two lengths that keeps its shares even, by induction    *)
(* over the turns.                                                         *)
(***************************************************************************)
EXTENDS CandidateService, FiniteSetTheorems, FunctionTheorems, SequenceTheorems,
        NaturalsInduction, TLAPS

Meta == [id : Id, title : Nat, year : Int, cats : SUBSET Category]

\* s starts with the shelf.
HasShelf(s) ==
    /\ s \in Seq(Meta)
    /\ Len(s) >= Len(Shelf)
    /\ \A n \in 1..Len(Shelf) : s[n] = Shelf[n]

\* meta is neither of an id nor of a title of the shelf.
IsOther(meta) ==
    /\ meta.id \notin ShelfIds
    /\ \A k \in DOMAIN Shelf : meta.title # Shelf[k].title

OthersFollow(s) == \A n \in DOMAIN s : n > Len(Shelf) => IsOther(s[n])

\* r has the fields of a thread.
ThreadForm(r) == DOMAIN r = {"stage", "frame", "row", "known", "named", "rows", "lone"}

KnowsShelf(r) == HasShelf(r.known) /\ r.named \in Nat /\ r.named >= Len(Shelf)

ThreadInv(r) ==
    /\ ThreadForm(r)
    /\ r.frame \in Frame \cup {<<>>}
    /\ r.row \in Nat \ {0}
    /\ r.stage = "merge" => KnowsShelf(r)

ShelfInv ==
    /\ HasShelf(items) /\ OthersFollow(items)
    /\ DOMAIN refresh = Refresher
    /\ \A t \in Refresher : ThreadInv(refresh[t])

-----------------------------------------------------------------------------
(* Data.                                                                   *)

LEMMA ShelfType == Shelf \in Seq(Meta)
BY CatalogAssumption DEF Meta

\* A row of a frame has an id of its own and makes an entry of items.
LEMMA RowType ==
    ASSUME NEW r, r.frame \in Frame \cup {<<>>}, r.row \in Nat \ {0}, r.row <= Len(r.frame)
    PROVE  /\ MetaOf(r.frame[r.row]) \in Meta
           /\ MetaOf(r.frame[r.row]).title = r.frame[r.row].title
           /\ MetaOf(r.frame[r.row]).id = r.frame[r.row].id
           /\ r.frame[r.row].id \notin ShelfIds
<1> DEFINE Row == [id : Id \ ShelfIds, title : Nat, year : Int, cats : SUBSET Category, votes : Nat]
<1>1. <<>> \in Seq(Row)
  OBVIOUS
<1>2. Frame \subseteq Seq(Row)
  BY CatalogAssumption
<1> HIDE DEF Row
<1>3. r.frame \in Seq(Row) /\ r.row \in 1..Len(r.frame)
  BY <1>1, <1>2
<1>4. r.frame[r.row] \in Row
  BY <1>3
<1> QED
  BY <1>4 DEF Row, MetaOf, Meta

\* A title without a match is none of the shelf's.
LEMMA NoMatchIsOther ==
    ASSUME NEW t, NEW row, KnowsShelf(refresh[t]), Matches(t, row) = {}
    PROVE  \A k \in DOMAIN Shelf : row.title # Shelf[k].title
<1> SUFFICES ASSUME NEW k \in DOMAIN Shelf, row.title = Shelf[k].title PROVE FALSE
  OBVIOUS
<1>1. k \in 1..Len(Shelf) /\ k \in DOMAIN refresh[t].known
  BY ShelfType DEF KnowsShelf, HasShelf
<1>2. refresh[t].known[k].title = row.title
  BY <1>1 DEF KnowsShelf, HasShelf
<1>3. k \in SameTitle(t, row) \cap 1..refresh[t].named
  BY <1>1, <1>2, ShelfType DEF SameTitle, KnowsShelf
<1> QED
  BY <1>3 DEF Matches

\* Putting another title leaves the shelf at the head.
LEMMA PutKeepsShelf ==
    ASSUME NEW s, NEW meta \in Meta, HasShelf(s), OthersFollow(s), IsOther(meta)
    PROVE  HasShelf(Put(s, meta)) /\ OthersFollow(Put(s, meta))
<1>1. \A n \in 1..Len(Shelf) : s[n].id # meta.id
  <2> SUFFICES ASSUME NEW n \in 1..Len(Shelf) PROVE s[n].id # meta.id
    OBVIOUS
  <2>1. s[n].id \in ShelfIds
    BY ShelfType DEF HasShelf, ShelfIds
  <2> QED
    BY <2>1 DEF IsOther
<1>2. CASE \E n \in DOMAIN s : s[n].id = meta.id
  <2> DEFINE p == [n \in DOMAIN s |-> IF s[n].id = meta.id THEN meta ELSE s[n]]
  <2>1. Put(s, meta) = p
    BY <1>2 DEF Put
  <2>2. p \in Seq(Meta) /\ Len(p) = Len(s) /\ DOMAIN p = DOMAIN s
    BY DEF HasShelf
  <2>3. HasShelf(p)
    BY <1>1, <2>2, ShelfType DEF HasShelf
  <2>4. OthersFollow(p)
    BY <2>2 DEF OthersFollow
  <2> QED
    BY <2>1, <2>3, <2>4
<1>3. CASE ~ \E n \in DOMAIN s : s[n].id = meta.id
  <2>1. Put(s, meta) = Append(s, meta)
    BY <1>3 DEF Put
  <2>2. HasShelf(Append(s, meta))
    BY ShelfType DEF HasShelf
  <2>3. OthersFollow(Append(s, meta))
    BY ShelfType DEF HasShelf, OthersFollow
  <2> QED
    BY <2>1, <2>2, <2>3
<1> QED
  BY <1>2, <1>3

\* So does appending one.
LEMMA AppendKeepsShelf ==
    ASSUME NEW s, NEW meta \in Meta, HasShelf(s)
    PROVE  HasShelf(Append(s, meta))
BY ShelfType DEF HasShelf

-----------------------------------------------------------------------------
(* The invariant.                                                          *)

LEMMA ShelfInvInit == CatalogInit => ShelfInv
<1> SUFFICES ASSUME CatalogInit PROVE ShelfInv
  OBVIOUS
<1>1. HasShelf(items) /\ OthersFollow(items)
  BY ShelfType DEF CatalogInit, HasShelf, OthersFollow
<1>2. DOMAIN refresh = Refresher /\ \A t \in Refresher : refresh[t] = Idle
  BY DEF CatalogInit
<1>3. ThreadInv(Idle)
  BY DEF ThreadInv, ThreadForm, Idle
<1> QED
  BY <1>1, <1>2, <1>3 DEF ShelfInv

\* A step of one thread that adds nothing to items keeps the invariant.
LEMMA OneThreadMoves ==
    ASSUME ShelfInv, NEW t \in Refresher, NEW r, ThreadInv(r),
           refresh' = [refresh EXCEPT ![t] = r], UNCHANGED items
    PROVE  ShelfInv'
BY DEF ShelfInv, HasShelf, OthersFollow, IsOther, ThreadInv, ThreadForm, KnowsShelf

LEMMA ShelfInvNext == ShelfInv /\ [CatalogNext]_catalogVars => ShelfInv'
<1> SUFFICES ASSUME ShelfInv, [CatalogNext]_catalogVars PROVE ShelfInv'
  OBVIOUS
<1>1. CASE UNCHANGED catalogVars
  BY <1>1 DEF catalogVars, ShelfInv, HasShelf, OthersFollow, IsOther, ThreadInv, ThreadForm, KnowsShelf
<1>2. ASSUME NEW t \in Refresher, NEW frame \in Frame, Download(t, frame) PROVE ShelfInv'
  <2> DEFINE fresh == [Idle EXCEPT !.stage = "index", !.frame = frame, !.lone = (Active = {})]
  <2>1. ThreadInv(fresh)
    <3>1. /\ ThreadForm(fresh) /\ fresh.stage = "index"
          /\ fresh.frame = frame /\ fresh.row = 1
      BY DEF Idle, ThreadForm
    <3> HIDE DEF fresh
    <3> QED
      BY <3>1 DEF ThreadInv, ThreadForm
  <2>2. ASSUME NEW q \in Refresher PROVE ThreadInv([refresh[q] EXCEPT !.lone = FALSE])
    <3> DEFINE r == [refresh[q] EXCEPT !.lone = FALSE]
    <3>0. ThreadInv(refresh[q])
      BY DEF ShelfInv
    <3>1. /\ ThreadForm(r) /\ r.stage = refresh[q].stage
          /\ r.frame = refresh[q].frame /\ r.row = refresh[q].row
          /\ r.known = refresh[q].known /\ r.named = refresh[q].named
      BY <3>0 DEF ThreadInv, ThreadForm
    <3> HIDE DEF r
    <3>2. ThreadInv(r)
      BY <3>0, <3>1 DEF ThreadInv, ThreadForm, KnowsShelf
    <3> QED
      BY <3>2 DEF r
  <2>3. \A q \in Refresher : ThreadInv(refresh'[q])
    BY <1>2, <2>1, <2>2 DEF Download
  <2>4. DOMAIN refresh' = Refresher /\ items' = items
    BY <1>2 DEF Download
  <2> QED
    BY <2>3, <2>4 DEF ShelfInv, HasShelf, OthersFollow, IsOther, ThreadInv, ThreadForm, KnowsShelf
<1>3. ASSUME NEW t \in Refresher, Index(t) PROVE ShelfInv'
  <2> DEFINE r == [refresh[t] EXCEPT !.stage = "merge", !.known = items, !.named = Len(items)]
  <2>0. ThreadInv(refresh[t]) /\ HasShelf(items) /\ Len(items) \in Nat
    BY DEF ShelfInv, HasShelf
  <2>1. ThreadInv(r)
    <3>1. /\ ThreadForm(r) /\ r.known = items /\ r.named = Len(items)
          /\ r.frame = refresh[t].frame /\ r.row = refresh[t].row
      BY <2>0 DEF ThreadInv, ThreadForm
    <3>2. KnowsShelf(r)
      BY <2>0, <3>1 DEF KnowsShelf, HasShelf
    <3> HIDE DEF r
    <3> QED
      BY <2>0, <3>1, <3>2 DEF ThreadInv, ThreadForm
  <2>2. refresh' = [refresh EXCEPT ![t] = r] /\ UNCHANGED items
    BY <1>3 DEF Index
  <2> QED
    BY <2>1, <2>2, OneThreadMoves
<1>4. ASSUME NEW t \in Refresher, MergeRow(t) PROVE ShelfInv'
  <2> DEFINE row  == refresh[t].frame[refresh[t].row]
             meta == MetaOf(row)
             next == [refresh[t] EXCEPT !.row = @ + 1]
             more == [refresh[t] EXCEPT !.row = @ + 1, !.known = Append(@, meta)]
  <2>1. ThreadInv(refresh[t]) /\ KnowsShelf(refresh[t]) /\ refresh[t].row <= Len(refresh[t].frame)
    BY <1>4 DEF ShelfInv, ThreadInv, MergeRow, RowsLeft
  <2>2. meta \in Meta /\ meta.title = row.title /\ meta.id = row.id /\ row.id \notin ShelfIds
    BY <2>1, RowType DEF ThreadInv
  <2>3. CASE Matches(t, row) # {}
    <3>1. ThreadInv(next)
      <4>1. /\ ThreadForm(next) /\ next.frame = refresh[t].frame
            /\ next.row = refresh[t].row + 1
            /\ next.known = refresh[t].known /\ next.named = refresh[t].named
        BY <2>1 DEF ThreadInv, ThreadForm
      <4> HIDE DEF next
      <4> QED
        BY <2>1, <4>1 DEF ThreadInv, KnowsShelf
    <3>2. refresh' = [refresh EXCEPT ![t] = next] /\ UNCHANGED items
      BY <1>4, <2>3 DEF MergeRow, ShelfInv
    <3> QED
      BY <3>1, <3>2, OneThreadMoves
  <2>4. CASE Matches(t, row) = {}
    <3>1. IsOther(meta)
      BY <2>1, <2>2, <2>4, NoMatchIsOther DEF IsOther
    <3>2. items' = Put(items, meta)
      BY <1>4, <2>4 DEF MergeRow
    <3>3. refresh' = [refresh EXCEPT ![t] = more]
      <4>1. refresh' = [refresh EXCEPT ![t].row = @ + 1, ![t].known = Append(@, meta)]
        BY <1>4, <2>4 DEF MergeRow
      <4> HIDE DEF meta
      <4> QED
        BY <2>1, <4>1 DEF ThreadInv, ThreadForm, ShelfInv
    <3>4. HasShelf(items') /\ OthersFollow(items')
      BY <2>2, <3>1, <3>2, PutKeepsShelf DEF ShelfInv
    <3>5. HasShelf(Append(refresh[t].known, meta))
      BY <2>1, <2>2, AppendKeepsShelf DEF KnowsShelf
    <3>6. ThreadInv(more)
      <4> DEFINE known == Append(refresh[t].known, meta)
      <4>1. /\ ThreadForm(more) /\ more.frame = refresh[t].frame
            /\ more.row = refresh[t].row + 1
            /\ more.known = known /\ more.named = refresh[t].named
        BY <2>1 DEF ThreadInv, ThreadForm
      <4>2. HasShelf(known)
        BY <3>5
      <4> HIDE DEF more, known
      <4> QED
        BY <2>1, <4>1, <4>2 DEF ThreadInv, ThreadForm, KnowsShelf
    <3>7. DOMAIN refresh' = Refresher /\ \A q \in Refresher : ThreadInv(refresh'[q])
      BY <3>3, <3>6 DEF ShelfInv
    <3> QED
      BY <3>4, <3>7 DEF ShelfInv, HasShelf, OthersFollow, IsOther, ThreadInv, ThreadForm, KnowsShelf
  <2> QED
    BY <2>3, <2>4
<1>5. ASSUME NEW t \in Refresher, Scale(t) PROVE ShelfInv'
  <2>1. ThreadInv([refresh[t] EXCEPT !.stage = "build"])
    BY DEF ShelfInv, ThreadInv, ThreadForm
  <2> QED
    BY <1>5, <2>1, OneThreadMoves DEF Scale, ShelfInv
<1>6. ASSUME NEW t \in Refresher, Build(t) PROVE ShelfInv'
  <2> DEFINE r == [refresh[t] EXCEPT !.stage = "assign", !.rows = Rebuilt(t)]
  <2>0. ThreadInv(refresh[t])
    BY DEF ShelfInv
  <2>1. ThreadInv(r)
    <3>1. /\ ThreadForm(r) /\ r.stage # "merge"
          /\ r.frame = refresh[t].frame /\ r.row = refresh[t].row
      BY <2>0 DEF ThreadInv, ThreadForm
    <3> HIDE DEF r
    <3> QED
      BY <2>0, <3>1 DEF ThreadInv, ThreadForm
  <2>2. refresh' = [refresh EXCEPT ![t] = r] /\ UNCHANGED items
    BY <1>6 DEF Build
  <2> QED
    BY <2>1, <2>2, OneThreadMoves
<1>7. ASSUME NEW t \in Refresher, Assign(t) PROVE ShelfInv'
  <2> DEFINE r == [refresh[t] EXCEPT !.stage = "ok", !.rows = <<>>]
  <2>0. ThreadInv(refresh[t])
    BY DEF ShelfInv
  <2>1. ThreadInv(r)
    <3>1. /\ ThreadForm(r) /\ r.stage # "merge"
          /\ r.frame = refresh[t].frame /\ r.row = refresh[t].row
      BY <2>0 DEF ThreadInv, ThreadForm
    <3> HIDE DEF r
    <3> QED
      BY <2>0, <3>1 DEF ThreadInv, ThreadForm
  <2>2. refresh' = [refresh EXCEPT ![t] = r] /\ UNCHANGED items
    BY <1>7 DEF Assign
  <2> QED
    BY <2>1, <2>2, OneThreadMoves
<1>8. ASSUME NEW t \in Refresher, Fail(t) PROVE ShelfInv'
  <2>1. ThreadInv([refresh[t] EXCEPT !.stage = "failed"])
    BY DEF ShelfInv, ThreadInv, ThreadForm
  <2> QED
    BY <1>8, <2>1, OneThreadMoves DEF Fail, ShelfInv
<1> QED
  BY <1>1, <1>2, <1>3, <1>4, <1>5, <1>6, <1>7, <1>8 DEF CatalogNext, Refresh

LEMMA ShelfInvIsEnough == ShelfInv => ShelfKeepsItsIds
<1> SUFFICES ASSUME ShelfInv, NEW n \in DOMAIN items, NEW m \in DOMAIN items,
                    items[n].id \in ShelfIds, items[m].title = items[n].title
             PROVE  items[m].id \in ShelfIds
  BY DEF ShelfKeepsItsIds
<1>1. n \in 1..Len(Shelf)
  BY DEF ShelfInv, HasShelf, OthersFollow, IsOther
<1>2. items[n] = Shelf[n] /\ n \in DOMAIN Shelf
  BY <1>1, ShelfType DEF ShelfInv, HasShelf
<1>3. m \in 1..Len(Shelf)
  BY <1>2 DEF ShelfInv, HasShelf, OthersFollow, IsOther
<1> QED
  BY <1>3, ShelfType DEF ShelfInv, HasShelf, ShelfIds

\* Whatever is downloaded, and however refreshes overlap and fail, no item
\* beside the shelf has a title of the shelf: the likes, models and features
\* that refer to a MovieLens id keep referring to the only entry of that film
\* (imdb.py, merge_imdb_into_items; app.py, refresh_catalog).
THEOREM ShelfKept == Spec => []ShelfKeepsItsIds
<1>1. Init => ShelfInv
  BY ShelfInvInit DEF Init
<1>2. ShelfInv /\ [Next]_vars => ShelfInv'
  <2>1. [Next]_vars => [CatalogNext]_catalogVars
    BY DEF Next, vars, catalogVars, Retrieve, Blend, FillByGenre
  <2> QED
    BY <2>1, ShelfInvNext
<1> QED
  BY <1>1, <1>2, ShelfInvIsEnough, PTL DEF Spec

-----------------------------------------------------------------------------
(* Places in a list.                                                       *)

\* Where A[k] is what comes before k in a total order of D, the size of A[k] is
\* the place of k: one element for every number below the size of D.
LEMMA Ranking ==
    ASSUME NEW D, IsFiniteSet(D), NEW A \in [D -> SUBSET D],
           \A k \in D : k \notin A[k],
           \A j, k \in D : j # k => j \in A[k] \/ k \in A[j],
           \A j, k \in D : j \in A[k] => A[j] \subseteq A[k]
    PROVE  /\ \A k \in D : Cardinality(A[k]) \in 0..(Cardinality(D) - 1)
           /\ \A j, k \in D : j \in A[k] => Cardinality(A[j]) < Cardinality(A[k])
           /\ \A n \in 0..(Cardinality(D) - 1) : \E k \in D : Cardinality(A[k]) = n
<1> DEFINE N    == Cardinality(D)
           rank == [k \in D |-> Cardinality(A[k])]
<1>1. N \in Nat
  BY FS_CardinalityType
<1>2. \A k \in D : IsFiniteSet(A[k]) /\ Cardinality(A[k]) \in Nat
  BY FS_Subset, FS_CardinalityType
<1>3. \A k \in D : Cardinality(A[k]) \in 0..(N - 1)
  <2> SUFFICES ASSUME NEW k \in D
               PROVE  Cardinality(A[k]) \in 0..(N - 1)
    OBVIOUS
  <2>1. Cardinality(A[k]) <= N /\ (N = Cardinality(A[k]) => D = A[k])
    BY FS_Subset
  <2>2. D # A[k]
    OBVIOUS
  <2> HIDE DEF N
  <2> QED
    BY <1>1, <1>2, <2>1, <2>2
<1>4. \A j, k \in D : j \in A[k] => Cardinality(A[j]) < Cardinality(A[k])
  <2> SUFFICES ASSUME NEW j \in D, NEW k \in D, j \in A[k]
               PROVE  Cardinality(A[j]) < Cardinality(A[k])
    OBVIOUS
  <2>1. A[j] \in SUBSET A[k] /\ A[j] # A[k]
    OBVIOUS
  <2>2. /\ Cardinality(A[j]) <= Cardinality(A[k])
        /\ Cardinality(A[k]) = Cardinality(A[j]) => A[k] = A[j]
    BY <1>2, <2>1, FS_Subset
  <2> QED
    BY <1>2, <2>1, <2>2
<1>5. rank \in Injection(D, 0..(N - 1))
  <2>1. rank \in [D -> 0..(N - 1)]
    BY <1>3
  <2>2. \A j, k \in D : rank[j] = rank[k] => j = k
    BY <1>2, <1>4
  <2> QED
    BY <2>1, <2>2, Fun_IsInj
<1>6. IsFiniteSet(0..(N - 1)) /\ Cardinality(0..(N - 1)) = N
  <2> HIDE DEF N
  <2> QED
    BY <1>1, FS_Interval
<1>7. rank \in Surjection(D, 0..(N - 1))
  BY <1>5, <1>6, FS_Injection
<1>8. \A n \in 0..(N - 1) : \E k \in D : rank[k] = n
  <2> HIDE DEF N, rank
  <2> QED
    BY <1>7 DEF Surjection
<1> QED
  BY <1>3, <1>4, <1>8


\* at lists the elements of D, each after what A says comes before it.
Lists(at, D, A) ==
    /\ Cardinality(D) \in Nat
    /\ at \in [1..Cardinality(D) -> D]
    /\ \A p, q \in 1..Cardinality(D) : p < q => at[p] \in A[at[q]]
    /\ \A p, q \in 1..Cardinality(D) : p # q => at[p] # at[q]
    /\ \A k \in D : \E p \in 1..Cardinality(D) : at[p] = k

\* at has an element of rank p - 1 at p, if there is one.
ByRank(at, D, A) ==
    /\ at = [p \in 1..Cardinality(D) |-> at[p]]
    /\ \A p \in 1..Cardinality(D) :
        (\E k \in D : Cardinality(A[k]) = p - 1) => at[p] \in D /\ Cardinality(A[at[p]]) = p - 1

\* Reading a finite ordered set by rank lists it.
LEMMA PlacesList ==
    ASSUME NEW D, IsFiniteSet(D), NEW A \in [D -> SUBSET D],
           \A k \in D : k \notin A[k],
           \A j, k \in D : j # k => j \in A[k] \/ k \in A[j],
           \A j, k \in D : j \in A[k] => A[j] \subseteq A[k],
           NEW at, ByRank(at, D, A)
    PROVE  Lists(at, D, A)
<1> DEFINE N  == Cardinality(D)
<1>1. N \in Nat
  BY FS_CardinalityType
<1>2. /\ \A k \in D : Cardinality(A[k]) \in 0..(N - 1)
      /\ \A j, k \in D : j \in A[k] => Cardinality(A[j]) < Cardinality(A[k])
      /\ \A n \in 0..(N - 1) : \E k \in D : Cardinality(A[k]) = n
  BY Ranking
<1>3. \A p \in 1..N : at[p] \in D /\ Cardinality(A[at[p]]) = p - 1
  <2> SUFFICES ASSUME NEW p \in 1..N PROVE at[p] \in D /\ Cardinality(A[at[p]]) = p - 1
    OBVIOUS
  <2>1. p - 1 \in 0..(N - 1)
    <3> HIDE DEF N
    <3> QED
      BY <1>1
  <2>2. \E k \in D : Cardinality(A[k]) = p - 1
    BY <1>2, <2>1
  <2> QED
    BY <2>2 DEF ByRank
<1>4. DOMAIN at = 1..N /\ at = [p \in 1..N |-> at[p]]
  BY DEF ByRank
<1> HIDE DEF N
<1>5. at \in [1..N -> D]
  BY <1>3, <1>4
<1>6. \A p, q \in 1..N : p < q => at[p] \in A[at[q]]
  <2> SUFFICES ASSUME NEW p \in 1..N, NEW q \in 1..N, p < q PROVE at[p] \in A[at[q]]
    OBVIOUS
  <2>1. /\ at[p] \in D /\ at[q] \in D
        /\ Cardinality(A[at[p]]) = p - 1 /\ Cardinality(A[at[q]]) = q - 1
    BY <1>3
  <2>2. ~(Cardinality(A[at[q]]) < Cardinality(A[at[p]])) /\ at[p] # at[q]
    BY <2>1
  <2> QED
    BY <1>2, <2>1, <2>2
<1>7. \A p, q \in 1..N : p # q => at[p] # at[q]
  <2> SUFFICES ASSUME NEW p \in 1..N, NEW q \in 1..N, p # q PROVE at[p] # at[q]
    OBVIOUS
  <2>1. Cardinality(A[at[p]]) = p - 1 /\ Cardinality(A[at[q]]) = q - 1
    BY <1>3
  <2> QED
    BY <2>1
<1>8. ASSUME NEW k \in D PROVE \E p \in 1..N : at[p] = k
  <2> DEFINE p == Cardinality(A[k]) + 1
  <2>1. p \in 1..N /\ Cardinality(A[k]) = p - 1
    BY <1>1, <1>2
  <2>2. at[p] \in D /\ Cardinality(A[at[p]]) = Cardinality(A[k])
    BY <1>3, <2>1
  <2>3. Cardinality(A[k]) \in 0..(N - 1)
    BY <1>2
  <2>4. at[p] \notin A[k] /\ k \notin A[at[p]]
    BY <1>2, <2>2, <2>3
  <2> QED
    BY <2>1, <2>2, <2>4
<1> QED
  BY <1>1, <1>5, <1>6, <1>7, <1>8 DEF Lists, N

\* The positions of a list.
LEMMA Positions ==
    ASSUME NEW S, NEW s \in Seq(S)
    PROVE  /\ DOMAIN s = 1..Len(s) /\ Len(s) \in Nat
           /\ IsFiniteSet(DOMAIN s) /\ Cardinality(DOMAIN s) = Len(s)
<1>1. DOMAIN s = 1..Len(s) /\ Len(s) \in Nat
  BY LenProperties
<1>2. /\ IsFiniteSet(1..Len(s))
      /\ Cardinality(1..Len(s)) = IF 1 > Len(s) THEN 0 ELSE Len(s) - 1 + 1
  BY <1>1, FS_Interval
<1> QED
  BY <1>1, <1>2

\* s is cut down to the positions at.
Cut(t, s, P, at) ==
    /\ Cardinality(P) \in Nat
    /\ at \in [1..Cardinality(P) -> P]
    /\ t = [p \in 1..Cardinality(P) |-> s[at[p]]]
    /\ \A p, q \in 1..Cardinality(P) : p < q => at[p] < at[q]
    /\ \A p, q \in 1..Cardinality(P) : p # q => at[p] # at[q]
    /\ \A k \in P : \E p \in 1..Cardinality(P) : at[p] = k

\* A subsequence lists the chosen positions once each and in order.
LEMMA SubsequenceLists ==
    ASSUME NEW S, NEW s \in Seq(S), NEW P \in SUBSET (DOMAIN s)
    PROVE  \E at : Cut(Subsequence(s, P), s, P, at)
<1> DEFINE A == [k \in P |-> {j \in P : j < k}]
<1>1. IsFiniteSet(P) /\ P \subseteq Int
  BY Positions, FS_Subset
<1>2. A \in [P -> SUBSET P] /\ \A j, k \in P : j \in A[k] <=> j < k
  OBVIOUS
<1> DEFINE c(p) == CHOOSE k \in P : Cardinality({j \in P : j < k}) = p - 1
           at == [p \in 1..Cardinality(P) |-> c(p)]
<1>3. ByRank(at, P, A)
  <2>1. \A k \in P : A[k] = {j \in P : j < k}
    OBVIOUS
  <2> HIDE DEF A
  <2>2. ASSUME NEW p \in 1..Cardinality(P), \E k \in P : Cardinality(A[k]) = p - 1
        PROVE  at[p] \in P /\ Cardinality(A[at[p]]) = p - 1
    <3>1. \E k \in P : Cardinality({j \in P : j < k}) = p - 1
      BY <2>1, <2>2
    <3> QED
      BY <2>1, <3>1
  <2>3. at = [p \in 1..Cardinality(P) |-> at[p]]
    <3> HIDE DEF c
    <3> QED
      OBVIOUS
  <2> HIDE DEF at
  <2> QED
    BY <2>2, <2>3 DEF ByRank
<1> HIDE DEF A
<1>4. Lists(at, P, A)
  <2>1. \A k \in P : k \notin A[k]
    BY <1>1, <1>2
  <2>2. \A j, k \in P : j # k => j \in A[k] \/ k \in A[j]
    BY <1>1, <1>2
  <2>3. \A j, k \in P : j \in A[k] => A[j] \subseteq A[k]
    <3> SUFFICES ASSUME NEW j \in P, NEW k \in P, j \in A[k], NEW i \in A[j] PROVE i \in A[k]
      OBVIOUS
    <3> QED
      BY <1>1, <1>2
  <2> HIDE DEF at
  <2> QED
    BY <1>1, <1>2, <1>3, <2>1, <2>2, <2>3, PlacesList
<1>5. Subsequence(s, P) = [p \in 1..Cardinality(P) |-> s[at[p]]]
  BY DEF Subsequence
<1> HIDE DEF at
<1>6. \A p, q \in 1..Cardinality(P) : p < q => at[p] < at[q]
  BY <1>2, <1>4 DEF Lists
<1> QED
  BY <1>4, <1>5, <1>6 DEF Cut, Lists

\* A nonempty finite set of integers has a greatest member.
LEMMA GreatestMember ==
    ASSUME NEW S, IsFiniteSet(S), S # {}, S \subseteq Int
    PROVE  Max(S) \in S /\ \A y \in S : Max(S) >= y
<1> DEFINE Above(x) == {y \in S : y > x}
           F        == {Above(x) : x \in S}
<1>1. IsWellFoundedOn(StrictSubsetOrdering(S), FiniteSubsetsOf(S))
  BY FS_StrictSubsetOrderingWellFounded
<1>2. F \subseteq FiniteSubsetsOf(S) /\ F # {}
  <2>1. F \subseteq SUBSET S /\ F # {}
    OBVIOUS
  <2> HIDE DEF F
  <2> QED
    BY <2>1, FS_Subset DEF FiniteSubsetsOf
<1>3. PICK A \in F : \A B \in F : ~(<<B, A>> \in StrictSubsetOrdering(S))
  <2> HIDE DEF F
  <2> QED
    BY <1>1, <1>2, WFMin
<1>4. PICK x \in S : A = Above(x)
  BY <1>3
<1>5. ASSUME NEW y \in S, y > x PROVE FALSE
  <2>1. Above(y) \subseteq Above(x) /\ y \in Above(x) /\ y \notin Above(y)
    <3>1. x \in Int /\ y \in Int
      OBVIOUS
    <3>2. \A z \in S : z > y => z > x
      <4> SUFFICES ASSUME NEW z \in S, z > y PROVE z > x
        OBVIOUS
      <4>1. z \in Int
        OBVIOUS
      <4> QED
        BY <1>5, <3>1, <4>1
    <3>3. Above(y) \subseteq Above(x)
      BY <3>2
    <3>4. y \in Above(x)
      BY <1>5
    <3>5. y \notin Above(y)
      BY <3>1
    <3> QED
      BY <3>3, <3>4, <3>5
  <2>2. Above(y) \in F /\ A \in SUBSET S /\ Above(y) \in SUBSET S
    BY <1>4
  <2> QED
    BY <1>3, <1>4, <2>1, <2>2 DEF StrictSubsetOrdering
<1>6. \E z \in S : \A y \in S : z >= y
  BY <1>5
<1> QED
  BY <1>6 DEF Max

\* Dividing by a positive number.
LEMMA Quotient ==
    ASSUME NEW a \in Nat, NEW b \in Nat \ {0}
    PROVE  a \div b \in Nat
OBVIOUS

-----------------------------------------------------------------------------
(* The list a refresh builds.                                              *)

DistinctIds(s) == \A j, k \in DOMAIN s : j # k => s[j].id # s[k].id

Row == [id : Id, title : Nat, year : Int, cats : SUBSET Category, pop : Nat]

\* s has a row for each of the items.
IsCatalog(s) == s \in Seq(Row) /\ DistinctIds(s)

Serves(s) == RowIds(s) = RowIds(items) /\ Len(s) = Cardinality(RowIds(items))

\* Sorting the rows loses and repeats none.
LEMMA BuildLists ==
    ASSUME items \in Seq(Meta), DistinctIds(items), pop \in [Id -> Nat]
    PROVE  IsCatalog(BuildCatalog) /\ Serves(BuildCatalog)
<1> DEFINE row(n) == [id |-> items[n].id, title |-> items[n].title, year |-> items[n].year,
                      cats |-> items[n].cats, pop |-> pop[items[n].id]]
           s == [n \in DOMAIN items |-> row(n)]
           D == DOMAIN s
           Ahead(a, b) == a.pop > b.pop \/ (a.pop = b.pop /\ a.title < b.title)
<1>1. D = 1..Len(items) /\ Len(items) \in Nat /\ IsFiniteSet(D) /\ Cardinality(D) = Len(items)
      /\ D = DOMAIN items
  BY Positions
<1>2. \A n \in D : s[n] \in Row /\ s[n].id = items[n].id
  <2> SUFFICES ASSUME NEW n \in DOMAIN items PROVE row(n) \in Row /\ row(n).id = items[n].id
    OBVIOUS
  <2>1. items[n] \in Meta
    OBVIOUS
  <2> QED
    BY <2>1 DEF Meta, Row
<1>3. BuildCatalog = SortedBy(s, Ahead)
  BY DEF BuildCatalog
<1> HIDE DEF row, s
<1> DEFINE before(k) == {j \in D : Ahead(s[j], s[k]) \/ (~Ahead(s[k], s[j]) /\ j < k)}
           c(p)   == CHOOSE k \in D : Cardinality(before(k)) = p - 1
           at     == [p \in D |-> c(p)]
           A      == [k \in D |-> before(k)]
           score  == [k \in D |-> s[k].pop]
           title  == [k \in D |-> s[k].title]
<1>4. BuildCatalog = [p \in D |-> s[at[p]]]
  BY <1>3 DEF SortedBy
<1>5. score \in [D -> Int] /\ title \in [D -> Int]
  BY <1>2 DEF Row
<1>6. A \in [D -> SUBSET D]
  OBVIOUS
<1>7. \A j, k \in D : j \in A[k] <=>
        \/ score[j] > score[k]
        \/ score[j] = score[k] /\ title[j] < title[k]
        \/ ~(score[k] > score[j] \/ (score[k] = score[j] /\ title[k] < title[j])) /\ j < k
  OBVIOUS
<1>8. \A k \in D : A[k] = before(k)
  OBVIOUS
<1>9. at = [p \in D |-> at[p]]
  <2> HIDE DEF c
  <2> QED
    OBVIOUS
<1>10. \A p \in D : (\E k \in D : Cardinality(before(k)) = p - 1)
                    => at[p] \in D /\ Cardinality(before(at[p])) = p - 1
  OBVIOUS
<1> HIDE DEF D, A, at, before, c, score, title
<1>11. ByRank(at, D, A)
  BY <1>1, <1>8, <1>9, <1>10 DEF ByRank
<1>12. Lists(at, D, A)
  <2>0. D \subseteq Int
    BY <1>1
  <2>1. \A k \in D : k \notin A[k]
    BY <1>5, <1>7, <2>0
  <2>2. \A j, k \in D : j # k => j \in A[k] \/ k \in A[j]
    BY <1>5, <1>7, <2>0
  <2>3. \A j, k \in D : j \in A[k] => A[j] \subseteq A[k]
    <3> SUFFICES ASSUME NEW j \in D, NEW k \in D, j \in A[k], NEW i \in A[j] PROVE i \in A[k]
      OBVIOUS
    <3>1. i \in D /\ i \in Int /\ j \in Int /\ k \in Int
      BY <1>6, <2>0
    <3>2. /\ score[i] \in Int /\ score[j] \in Int /\ score[k] \in Int
          /\ title[i] \in Int /\ title[j] \in Int /\ title[k] \in Int
      BY <1>5, <3>1
    <3>3. /\ score[i] > score[j] \/ (score[i] = score[j]
                /\ (title[i] < title[j] \/ (title[i] = title[j] /\ i < j)))
          /\ score[j] > score[k] \/ (score[j] = score[k]
                /\ (title[j] < title[k] \/ (title[j] = title[k] /\ j < k)))
      BY <1>7, <3>1, <3>2
    <3>4. score[i] > score[k] \/ (score[i] = score[k]
                /\ (title[i] < title[k] \/ (title[i] = title[k] /\ i < k)))
      BY <3>1, <3>2, <3>3
    <3> QED
      BY <1>7, <3>1, <3>2, <3>4
  <2> QED
    BY <1>1, <1>6, <1>11, <2>1, <2>2, <2>3, PlacesList
<1>13. /\ at \in [1..Len(items) -> D]
       /\ \A p, q \in 1..Len(items) : p # q => at[p] # at[q]
       /\ \A k \in D : \E p \in 1..Len(items) : at[p] = k
  BY <1>1, <1>12 DEF Lists
<1>14. DOMAIN BuildCatalog = D /\ \A p \in D : BuildCatalog[p] = s[at[p]] /\ BuildCatalog[p].id = items[at[p]].id
  BY <1>1, <1>2, <1>4, <1>13
<1>15. IsCatalog(BuildCatalog)
  <2>1. BuildCatalog \in Seq(Row)
    <3>1. \A p \in 1..Len(items) : s[at[p]] \in Row
      BY <1>2, <1>13
    <3> QED
      BY <1>1, <1>4, <3>1
  <2>2. DistinctIds(BuildCatalog)
    BY <1>1, <1>13, <1>14 DEF DistinctIds
  <2> QED
    BY <2>1, <2>2 DEF IsCatalog
<1>16. RowIds(BuildCatalog) = RowIds(items)
  <2>1. \A p \in D : BuildCatalog[p].id \in RowIds(items)
    BY <1>1, <1>13, <1>14 DEF RowIds
  <2>2. \A n \in D : items[n].id \in RowIds(BuildCatalog)
    <3> SUFFICES ASSUME NEW n \in D PROVE items[n].id \in RowIds(BuildCatalog)
      OBVIOUS
    <3>1. PICK p \in D : at[p] = n
      BY <1>1, <1>13
    <3>2. BuildCatalog[p].id = items[n].id
      BY <1>14, <3>1
    <3> QED
      BY <1>14, <3>1, <3>2 DEF RowIds
  <2> QED
    BY <1>1, <1>14, <2>1, <2>2 DEF RowIds
<1>17. Cardinality(RowIds(items)) = Len(items)
  <2> DEFINE ids == [n \in 1..Len(items) |-> items[n].id]
  <2>1. ids \in Bijection(1..Len(items), RowIds(items))
    <3>1. ids \in [1..Len(items) -> RowIds(items)]
      BY <1>1 DEF RowIds, D
    <3>2. \A m, n \in 1..Len(items) : ids[m] = ids[n] => m = n
      BY <1>1 DEF DistinctIds, D
    <3>3. \A i \in RowIds(items) : \E n \in 1..Len(items) : ids[n] = i
      BY <1>1 DEF RowIds, D
    <3> HIDE DEF ids
    <3> QED
      BY <3>1, <3>2, <3>3, Fun_IsBij
  <2> HIDE DEF ids
  <2>2. Cardinality(1..Len(items)) = Cardinality(RowIds(items))
    BY <1>1, <2>1, FS_Bijection DEF ExistsBijection
  <2> QED
    BY <1>1, <2>2
<1>18. Len(BuildCatalog) = Len(items)
  BY <1>1, <1>4
<1> QED
  BY <1>15, <1>16, <1>17, <1>18 DEF Serves

\* The numbers a finite set of rows shows have a greatest.
LEMMA GreatestValue ==
    ASSUME NEW D, IsFiniteSet(D), D # {}, NEW v \in [D -> Nat]
    PROVE  Max({v[k] : k \in D}) \in Nat /\ \A k \in D : Max({v[j] : j \in D}) >= v[k]
<1> DEFINE T == {v[k] : k \in D}
<1>1. v \in Surjection(D, T)
  <2>1. v \in [D -> T] /\ \A x \in T : \E k \in D : v[k] = x
    OBVIOUS
  <2> HIDE DEF T
  <2> QED
    BY <2>1, Fun_IsSurj
<1>2. IsFiniteSet(T)
  <2> HIDE DEF T
  <2> QED
    BY <1>1, FS_Surjection
<1>3. T # {} /\ T \subseteq Nat /\ \A k \in D : v[k] \in T
  OBVIOUS
<1> HIDE DEF T
<1>4. T \subseteq Int
  BY <1>3
<1>5. Max(T) \in T /\ \A y \in T : Max(T) >= y
  BY <1>2, <1>3, <1>4, GreatestMember
<1>6. Max(T) \in Nat /\ \A k \in D : Max(T) >= v[k]
  BY <1>3, <1>5
<1> QED
  BY <1>6 DEF T

\* Popularities stay natural numbers.
LEMMA ScaledType == pop \in [Id -> Nat] => Scaled \in [Id -> Nat]
<1> SUFFICES ASSUME pop \in [Id -> Nat] PROVE Scaled \in [Id -> Nat]
  OBVIOUS
<1> DEFINE most == Max({pop[i] : i \in Id})
<1>1. CASE Id = {}
  BY <1>1 DEF Scaled
<1>2. CASE Id # {}
  <2>1. most \in Nat
    BY <1>2, CatalogAssumption, GreatestValue
  <2>2. Scaled = IF most = 0 THEN pop ELSE [i \in Id |-> (pop[i] * Unit) \div most]
    BY DEF Scaled
  <2> HIDE DEF most
  <2>3. CASE most # 0
    <3>1. \A i \in Id : pop[i] * Unit \in Nat
      BY CatalogAssumption
    <3>2. \A i \in Id : (pop[i] * Unit) \div most \in Nat
      BY <2>1, <2>3, <3>1, Quotient
    <3> QED
      BY <2>2, <2>3, <3>2
  <2> QED
    BY <2>2, <2>3
<1> QED
  BY <1>1, <1>2

LEMMA RowPopType ==
    ASSUME NEW frame \in Frame, NEW n \in DOMAIN frame
    PROVE  RowPop(frame, n) \in Nat
<1> DEFINE FrameRow == [id : Id \ ShelfIds, title : Nat, year : Int, cats : SUBSET Category, votes : Nat]
           D    == {0} \cup DOMAIN frame
           v    == [k \in D |-> IF k = 0 THEN 1 ELSE frame[k].votes]
           most == Max({1} \cup {frame[k].votes : k \in DOMAIN frame})
<1>1. frame \in Seq(FrameRow)
  BY CatalogAssumption
<1>2. \A k \in DOMAIN frame : frame[k] \in FrameRow
  <2> HIDE DEF FrameRow
  <2> QED
    BY <1>1
<1>3. \A k \in DOMAIN frame : frame[k].votes \in Nat /\ k # 0
  BY <1>1, <1>2
<1>4. IsFiniteSet(D)
  <2>1. IsFiniteSet(DOMAIN frame)
    <3> HIDE DEF FrameRow
    <3> QED
      BY <1>1, Positions
  <2>2. IsFiniteSet({0})
    BY FS_Singleton, Zenon
  <2> QED
    BY <2>1, <2>2, FS_Union
<1>5. v \in [D -> Nat] /\ v[0] = 1 /\ 0 \in D
  BY <1>3
<1>6. {v[k] : k \in D} = {1} \cup {frame[k].votes : k \in DOMAIN frame}
  BY <1>3
<1>7. most \in Nat /\ most >= 1
  <2> HIDE DEF v, D
  <2>1. Max({v[k] : k \in D}) \in Nat /\ Max({v[k] : k \in D}) >= v[0]
    BY <1>4, <1>5, GreatestValue
  <2> QED
    BY <1>5, <1>6, <2>1
<1>8. frame[n].votes * Unit \in Nat
  BY <1>3, CatalogAssumption
<1>9. RowPop(frame, n) = (frame[n].votes * Unit) \div most
  BY DEF RowPop
<1> HIDE DEF most
<1> QED
  BY <1>7, <1>8, <1>9, Quotient
-----------------------------------------------------------------------------
(* What a refresh without company leaves.                                  *)

\* The items and the lists made of them.
ListsInv ==
    /\ DistinctIds(items)
    /\ pop \in [Id -> Nat]
    /\ IsCatalog(catalog)
    /\ \A t \in Refresher : refresh[t].stage = "assign" => IsCatalog(refresh[t].rows)

\* A lone refresh is the only one active; what it has built is of the items
\* there are.
LoneInv ==
    \A t \in Refresher : refresh[t].lone =>
        /\ Active \subseteq {t}
        /\ refresh[t].stage = "assign" => refresh[t].rows = BuildCatalog
        /\ refresh[t].stage = "ok" => catalog = BuildCatalog

\* An id is put in once.
LEMMA PutDistinct ==
    ASSUME NEW s \in Seq(Meta), NEW meta \in Meta, DistinctIds(s)
    PROVE  DistinctIds(Put(s, meta))
<1>1. CASE \E n \in DOMAIN s : s[n].id = meta.id
  <2> DEFINE p == [n \in DOMAIN s |-> IF s[n].id = meta.id THEN meta ELSE s[n]]
  <2>1. Put(s, meta) = p
    BY <1>1 DEF Put
  <2>2. DOMAIN p = DOMAIN s /\ \A n \in DOMAIN s : p[n].id = s[n].id
    OBVIOUS
  <2> HIDE DEF p
  <2> QED
    BY <2>1, <2>2 DEF DistinctIds
<1>2. CASE ~ \E n \in DOMAIN s : s[n].id = meta.id
  <2>1. Put(s, meta) = Append(s, meta)
    BY <1>2 DEF Put
  <2>2. DistinctIds(Append(s, meta))
    <3>1. /\ DOMAIN Append(s, meta) = 1..(Len(s) + 1) /\ DOMAIN s = 1..Len(s) /\ Len(s) \in Nat
          /\ \A n \in 1..Len(s) : Append(s, meta)[n] = s[n]
          /\ Append(s, meta)[Len(s) + 1] = meta
      OBVIOUS
    <3> QED
      BY <1>2, <3>1 DEF DistinctIds
  <2> QED
    BY <2>1, <2>2
<1> QED
  BY <1>1, <1>2

\* The list depends on the items and their popularity alone.
LEMMA BuildSame == UNCHANGED <<items, pop>> => BuildCatalog' = BuildCatalog
BY DEF BuildCatalog, SortedBy

\* What a step of an active refresh does to its own record and to the list.
ThreadStep(t) ==
    /\ t \in Active
    /\ DOMAIN refresh' = Refresher
    /\ \A p \in Refresher \ {t} : refresh'[p] = refresh[p]
    /\ refresh'[t].lone = refresh[t].lone
    /\ refresh'[t].stage = "assign" =>
        refresh'[t].rows = BuildCatalog /\ UNCHANGED <<items, pop>>
    /\ IF refresh'[t].stage = "ok"
       THEN refresh[t].stage = "assign" /\ catalog' = refresh[t].rows /\ UNCHANGED <<items, pop>>
       ELSE UNCHANGED catalog

\* The steps of an active refresh are such steps.
LEMMA ThreadSteps ==
    ASSUME ShelfInv, NEW t \in Refresher,
           Index(t) \/ MergeRow(t) \/ Scale(t) \/ Build(t) \/ Assign(t) \/ Fail(t)
    PROVE  ThreadStep(t)
<1>0. ThreadForm(refresh[t]) /\ DOMAIN refresh = Refresher
  BY DEF ShelfInv, ThreadInv
<1>1. CASE Index(t)
  <2> DEFINE r == [refresh[t] EXCEPT !.stage = "merge", !.known = items, !.named = Len(items)]
  <2>1. r.stage = "merge" /\ r.lone = refresh[t].lone
    BY <1>0 DEF ThreadForm
  <2>2. refresh' = [refresh EXCEPT ![t] = r] /\ UNCHANGED catalog /\ refresh[t].stage = "index"
    BY <1>1 DEF Index
  <2> HIDE DEF r
  <2> QED
    BY <1>0, <2>1, <2>2 DEF ThreadStep, Active
<1>2. CASE MergeRow(t)
  <2> DEFINE meta == MetaOf(refresh[t].frame[refresh[t].row])
             next == [refresh[t] EXCEPT !.row = @ + 1]
             more == [refresh[t] EXCEPT !.row = @ + 1, !.known = Append(@, meta)]
  <2>1. /\ next.stage = refresh[t].stage /\ next.lone = refresh[t].lone
        /\ more.stage = refresh[t].stage /\ more.lone = refresh[t].lone
    BY <1>0 DEF ThreadForm
  <2>2. refresh' = [refresh EXCEPT ![t] = next] \/ refresh' = [refresh EXCEPT ![t] = more]
    <3>1. \/ refresh' = [refresh EXCEPT ![t].row = @ + 1]
          \/ refresh' = [refresh EXCEPT ![t].row = @ + 1, ![t].known = Append(@, meta)]
      BY <1>2 DEF MergeRow
    <3> HIDE DEF meta
    <3> QED
      BY <1>0, <3>1 DEF ThreadForm
  <2>3. UNCHANGED catalog /\ refresh[t].stage = "merge"
    BY <1>2 DEF MergeRow
  <2> HIDE DEF next, more
  <2> QED
    BY <1>0, <2>1, <2>2, <2>3 DEF ThreadStep, Active
<1>3. CASE Scale(t)
  <2> DEFINE r == [refresh[t] EXCEPT !.stage = "build"]
  <2>1. r.stage = "build" /\ r.lone = refresh[t].lone
    BY <1>0 DEF ThreadForm
  <2>2. refresh' = [refresh EXCEPT ![t] = r] /\ UNCHANGED catalog /\ refresh[t].stage = "merge"
    BY <1>0, <1>3 DEF Scale
  <2> HIDE DEF r
  <2> QED
    BY <1>0, <2>1, <2>2 DEF ThreadStep, Active
<1>4. CASE Build(t)
  <2> DEFINE r == [refresh[t] EXCEPT !.stage = "assign", !.rows = BuildCatalog]
  <2>1. r.stage = "assign" /\ r.lone = refresh[t].lone /\ r.rows = BuildCatalog
    BY <1>0 DEF ThreadForm
  <2>2. refresh' = [refresh EXCEPT ![t] = r] /\ UNCHANGED <<items, pop, catalog>> /\ refresh[t].stage = "build"
    BY <1>4 DEF Build, Rebuilt
  <2> HIDE DEF r
  <2> QED
    BY <1>0, <2>1, <2>2 DEF ThreadStep, Active
<1>5. CASE Assign(t)
  <2> DEFINE r == [refresh[t] EXCEPT !.stage = "ok", !.rows = <<>>]
  <2>1. r.stage = "ok" /\ r.lone = refresh[t].lone
    BY <1>0 DEF ThreadForm
  <2>2. /\ refresh' = [refresh EXCEPT ![t] = r] /\ UNCHANGED <<items, pop>> /\ refresh[t].stage = "assign"
        /\ catalog' = refresh[t].rows
    BY <1>5 DEF Assign
  <2> HIDE DEF r
  <2> QED
    BY <1>0, <2>1, <2>2 DEF ThreadStep, Active
<1>6. CASE Fail(t)
  <2> DEFINE r == [refresh[t] EXCEPT !.stage = "failed"]
  <2>1. r.stage = "failed" /\ r.lone = refresh[t].lone
    BY <1>0 DEF ThreadForm
  <2>2. refresh' = [refresh EXCEPT ![t] = r] /\ UNCHANGED catalog /\ t \in Active
    BY <1>0, <1>6 DEF Fail
  <2> HIDE DEF r
  <2> QED
    BY <1>0, <2>1, <2>2 DEF ThreadStep
<1> QED
  BY <1>1, <1>2, <1>3, <1>4, <1>5, <1>6

\* A call that starts is alone or makes nobody lone.
LEMMA DownloadStep ==
    ASSUME ShelfInv, NEW t \in Refresher, NEW frame \in Frame, Download(t, frame)
    PROVE  /\ UNCHANGED <<items, pop, catalog>>
           /\ refresh'[t].stage = "index"
           /\ refresh'[t].lone => Active = {}
           /\ \A p \in Refresher \ {t} : refresh'[p].stage = refresh[p].stage
                                        /\ refresh'[p].rows = refresh[p].rows
                                        /\ ~refresh'[p].lone
<1>1. UNCHANGED <<items, pop, catalog>>
  BY DEF Download
<1>2. refresh'[t] = [Idle EXCEPT !.stage = "index", !.frame = frame, !.lone = (Active = {})]
  BY DEF Download
<1>3. refresh'[t].stage = "index" /\ (refresh'[t].lone => Active = {})
  BY <1>2 DEF Idle
<1>4. ASSUME NEW p \in Refresher \ {t}
      PROVE  /\ refresh'[p].stage = refresh[p].stage
             /\ refresh'[p].rows = refresh[p].rows
             /\ ~refresh'[p].lone
  <2>1. refresh'[p] = [refresh[p] EXCEPT !.lone = FALSE]
    BY DEF Download
  <2>2. ThreadForm(refresh[p])
    BY DEF ShelfInv, ThreadInv
  <2> QED
    BY <2>1, <2>2 DEF ThreadForm
<1> QED
  BY <1>1, <1>3, <1>4

\* The items stay distinct and every popularity a number.
LEMMA ItemsStep ==
    ASSUME ShelfInv, ListsInv, [CatalogNext]_catalogVars
    PROVE  DistinctIds(items') /\ pop' \in [Id -> Nat]
<1>0. DistinctIds(items) /\ pop \in [Id -> Nat] /\ items \in Seq(Meta)
  BY DEF ListsInv, ShelfInv, HasShelf
<1>1. ASSUME UNCHANGED <<items, pop>> PROVE DistinctIds(items') /\ pop' \in [Id -> Nat]
  BY <1>0, <1>1
<1>2. ASSUME NEW t \in Refresher, MergeRow(t) PROVE DistinctIds(items') /\ pop' \in [Id -> Nat]
  <2> DEFINE r     == refresh[t]
             row   == r.frame[r.row]
             score == RowPop(r.frame, r.row)
  <2>1. r.frame \in Frame \cup {<<>>} /\ r.row \in Nat \ {0} /\ r.row <= Len(r.frame)
    BY <1>2 DEF MergeRow, RowsLeft, ShelfInv, ThreadInv
  <2>2. MetaOf(row) \in Meta
    BY <2>1, RowType
  <2>3. score \in Nat
    <3>1. r.frame # <<>>
      BY <2>1
    <3>2. r.frame \in Frame /\ \E S : r.frame \in Seq(S)
      BY <2>1, <3>1, CatalogAssumption
    <3>3. r.row \in DOMAIN r.frame
      <4> HIDE DEF r
      <4> QED
        BY <2>1, <3>2
    <3> QED
      BY <3>2, <3>3, RowPopType
  <2>4. pop' \in [Id -> Nat]
    <3>1. \/ pop' = pop
          \/ \E i : pop' = [pop EXCEPT ![i] = score]
      BY <1>2 DEF MergeRow
    <3> HIDE DEF score
    <3> QED
      BY <1>0, <2>3, <3>1
  <2>5. DistinctIds(items')
    <3>1. items' = items \/ items' = Put(items, MetaOf(row))
      BY <1>2 DEF MergeRow
    <3> HIDE DEF row
    <3> QED
      BY <1>0, <2>2, <3>1, PutDistinct
  <2> QED
    BY <2>4, <2>5
<1>3. ASSUME NEW t \in Refresher, Scale(t) PROVE DistinctIds(items') /\ pop' \in [Id -> Nat]
  BY <1>0, <1>3, ScaledType DEF Scale
<1>4. ASSUME NEW t \in Refresher, Index(t) \/ Build(t) \/ Assign(t) \/ Fail(t) \/ \E frame \in Frame : Download(t, frame)
      PROVE  UNCHANGED <<items, pop>>
  BY <1>4 DEF Index, Build, Assign, Fail, Download
<1>5. CASE UNCHANGED catalogVars
  BY <1>1, <1>5 DEF catalogVars
<1> QED
  BY <1>1, <1>2, <1>3, <1>4, <1>5 DEF CatalogNext, Refresh

LEMMA ListsInvInit == CatalogInit => ListsInv
<1> SUFFICES ASSUME CatalogInit PROVE ListsInv
  OBVIOUS
<1>1. DistinctIds(items) /\ items \in Seq(Meta)
  BY CatalogAssumption, ShelfType DEF CatalogInit, DistinctIds
<1>2. pop \in [Id -> Nat]
  BY CatalogAssumption DEF CatalogInit
<1>3. IsCatalog(catalog)
  BY <1>1, <1>2, BuildLists DEF CatalogInit
<1>4. \A t \in Refresher : refresh[t].stage = "new"
  BY DEF CatalogInit, Idle
<1> QED
  BY <1>1, <1>2, <1>3, <1>4 DEF ListsInv

LEMMA ListsInvStep == ShelfInv /\ ListsInv /\ [CatalogNext]_catalogVars => ListsInv'
<1> SUFFICES ASSUME ShelfInv, ListsInv, [CatalogNext]_catalogVars PROVE ListsInv'
  OBVIOUS
<1>1. DistinctIds(items') /\ pop' \in [Id -> Nat]
  BY ItemsStep
<1>2. ASSUME NEW t \in Refresher,
             Index(t) \/ MergeRow(t) \/ Scale(t) \/ Build(t) \/ Assign(t) \/ Fail(t)
      PROVE  ListsInv'
  <2>1. ThreadStep(t)
    BY <1>2, ThreadSteps
  <2>2. IsCatalog(BuildCatalog)
    BY BuildLists DEF ListsInv, ShelfInv, HasShelf
  <2>3. IsCatalog(catalog')
    BY <2>1 DEF ThreadStep, ListsInv
  <2>4. \A p \in Refresher : refresh'[p].stage = "assign" => IsCatalog(refresh'[p].rows)
    BY <2>1, <2>2 DEF ThreadStep, ListsInv
  <2> QED
    BY <1>1, <2>3, <2>4 DEF ListsInv, DistinctIds, IsCatalog
<1>3. ASSUME NEW t \in Refresher, NEW frame \in Frame, Download(t, frame) PROVE ListsInv'
  <2>1. catalog' = catalog /\ \A p \in Refresher : refresh'[p].stage = "assign" => IsCatalog(refresh'[p].rows)
    BY <1>3, DownloadStep DEF ListsInv
  <2> QED
    BY <1>1, <2>1 DEF ListsInv, DistinctIds, IsCatalog
<1>4. CASE UNCHANGED catalogVars
  BY <1>4 DEF catalogVars, ListsInv, DistinctIds, IsCatalog
<1> QED
  BY <1>2, <1>3, <1>4 DEF CatalogNext, Refresh

LEMMA LoneInvInit == CatalogInit => LoneInv
<1> SUFFICES ASSUME CatalogInit, NEW t \in Refresher PROVE ~refresh[t].lone
  BY DEF LoneInv
<1>1. refresh[t] = Idle
  BY DEF CatalogInit
<1> QED
  BY <1>1 DEF Idle

LEMMA LoneInvStep == ShelfInv /\ LoneInv /\ [CatalogNext]_catalogVars => LoneInv'
<1> SUFFICES ASSUME ShelfInv, LoneInv, [CatalogNext]_catalogVars PROVE LoneInv'
  OBVIOUS
<1>1. ASSUME NEW t \in Refresher,
             Index(t) \/ MergeRow(t) \/ Scale(t) \/ Build(t) \/ Assign(t) \/ Fail(t)
      PROVE  LoneInv'
  <2>1. ThreadStep(t)
    BY <1>1, ThreadSteps
  <2> SUFFICES ASSUME NEW p \in Refresher, refresh'[p].lone
               PROVE  /\ Active' \subseteq {p}
                      /\ refresh'[p].stage = "assign" => refresh'[p].rows = BuildCatalog'
                      /\ refresh'[p].stage = "ok" => catalog' = BuildCatalog'
    BY DEF LoneInv
  <2>2. refresh[p].lone
    BY <2>1 DEF ThreadStep
  <2>3. Active \subseteq {p} /\ p = t
    BY <2>1, <2>2 DEF ThreadStep, LoneInv
  <2>4. Active' \subseteq {p}
    BY <2>1, <2>3 DEF ThreadStep, Active
  <2>5. refresh'[p].stage = "assign" => refresh'[p].rows = BuildCatalog'
    BY <2>1, <2>3, BuildSame DEF ThreadStep
  <2>6. refresh'[p].stage = "ok" => catalog' = BuildCatalog'
    BY <2>1, <2>2, <2>3, BuildSame DEF ThreadStep, LoneInv
  <2> QED
    BY <2>4, <2>5, <2>6
<1>2. ASSUME NEW t \in Refresher, NEW frame \in Frame, Download(t, frame) PROVE LoneInv'
  <2>1. /\ refresh'[t].stage = "index"
        /\ refresh'[t].lone => Active = {}
        /\ \A p \in Refresher \ {t} : refresh'[p].stage = refresh[p].stage /\ ~refresh'[p].lone
    BY <1>2, DownloadStep
  <2> SUFFICES ASSUME refresh'[t].lone PROVE Active' \subseteq {t}
    BY <2>1 DEF LoneInv
  <2> QED
    BY <2>1 DEF Active
<1>3. CASE UNCHANGED catalogVars
  <2>1. BuildCatalog' = BuildCatalog
    BY <1>3, BuildSame DEF catalogVars
  <2> QED
    BY <1>3, <2>1 DEF catalogVars, LoneInv, Active
<1> QED
  BY <1>1, <1>2, <1>3 DEF CatalogNext, Refresh

LEMMA LoneInvIsEnough == ShelfInv /\ ListsInv /\ LoneInv => LoneRefreshServesAll
<1> SUFFICES ASSUME ShelfInv, ListsInv, NEW t \in Refresher, catalog = BuildCatalog
             PROVE  RowIds(catalog) = RowIds(items) /\ Len(catalog) = Cardinality(RowIds(items))
  BY DEF LoneInv, LoneRefreshServesAll
<1> QED
  BY BuildLists DEF Serves, ListsInv, ShelfInv, HasShelf

\* What holds whatever refreshes do.
LEMMA RefreshInv == Spec => [](ShelfInv /\ ListsInv /\ LoneInv)
<1>1. Init => ShelfInv /\ ListsInv /\ LoneInv
  BY ShelfInvInit, ListsInvInit, LoneInvInit DEF Init
<1>2. ShelfInv /\ ListsInv /\ LoneInv /\ [Next]_vars => (ShelfInv /\ ListsInv /\ LoneInv)'
  <2>1. [Next]_vars => [CatalogNext]_catalogVars
    BY DEF Next, vars, catalogVars, Retrieve, Blend, FillByGenre
  <2> QED
    BY <2>1, ShelfInvNext, ListsInvStep, LoneInvStep
<1> QED
  BY <1>1, <1>2, PTL DEF Spec

\* A refresh that no other one overlapped leaves a catalog that serves every
\* item once, what refreshes that failed before it left behind included: however
\* titles and popularities compare, sorting loses and repeats no row (app.py,
\* _merge_live_catalog, _rebuild_catalog).
THEOREM LoneRefreshServes == Spec => []LoneRefreshServesAll
BY RefreshInv, LoneInvIsEnough, PTL

-----------------------------------------------------------------------------
(* Parts of a list.                                                        *)

Distinct(s) == \A j, k \in DOMAIN s : j # k => s[j] # s[k]

\* t has the elements of s at the positions P.
IsPick(t, s, P) ==
    /\ Len(t) = Cardinality(P) /\ DOMAIN t = 1..Len(t)
    /\ \A p \in DOMAIN t : \E k \in P : t[p] = s[k]
    /\ \A k \in P : \E p \in DOMAIN t : t[p] = s[k]
    /\ (\A j, k \in P : j # k => s[j] # s[k]) => Distinct(t)
    /\ (\A j, k \in P : j # k => s[j].id # s[k].id) => DistinctIds(t)

\* Cutting down to some positions keeps what they hold.
LEMMA SubsequencePicks ==
    ASSUME NEW S, NEW s \in Seq(S), NEW P \in SUBSET (DOMAIN s)
    PROVE  Subsequence(s, P) \in Seq(S) /\ IsPick(Subsequence(s, P), s, P)
<1> DEFINE t == Subsequence(s, P)
           N == Cardinality(P)
<1>1. PICK at : Cut(t, s, P, at)
  BY SubsequenceLists
<1> HIDE DEF t
<1>2. /\ N \in Nat /\ at \in [1..N -> P] /\ t = [p \in 1..N |-> s[at[p]]]
      /\ \A p, q \in 1..N : p # q => at[p] # at[q]
      /\ \A k \in P : \E p \in 1..N : at[p] = k
  BY <1>1 DEF Cut
<1>3. \A k \in P : s[k] \in S
  BY Positions
<1> HIDE DEF N
<1>4. t \in Seq(S) /\ Len(t) = N /\ DOMAIN t = 1..N /\ \A p \in 1..N : t[p] = s[at[p]] /\ at[p] \in P
  <2>1. \A p \in 1..N : at[p] \in P /\ s[at[p]] \in S
    BY <1>2, <1>3
  <2>2. t \in [1..N -> S]
    BY <1>2, <2>1
  <2> QED
    BY <1>2, <2>1, <2>2, SeqDef
<1>5. \A k \in P : \E p \in DOMAIN t : t[p] = s[k]
  BY <1>2, <1>4
<1>6. (\A j, k \in P : j # k => s[j] # s[k]) => Distinct(t)
  BY <1>2, <1>4 DEF Distinct
<1>7. (\A j, k \in P : j # k => s[j].id # s[k].id) => DistinctIds(t)
  BY <1>2, <1>4 DEF DistinctIds
<1> QED
  BY <1>4, <1>5, <1>6, <1>7 DEF IsPick, N, t

\* t is s, or the first n of it.
IsHead(t, s, n) ==
    /\ Len(t) <= n /\ Len(t) <= Len(s) /\ DOMAIN t = 1..Len(t)
    /\ \A k \in DOMAIN t : t[k] = s[k] /\ k \in DOMAIN s
    /\ Len(t) < n => DOMAIN t = DOMAIN s

\* Cutting a list off keeps its beginning.
LEMMA FirstOfIsHead ==
    ASSUME NEW S, NEW s \in Seq(S), NEW n \in Nat
    PROVE  FirstOf(s, n) \in Seq(S) /\ IsHead(FirstOf(s, n), s, n)
<1> DEFINE m == Min({n, Len(s)})
<1>1. m \in {n, Len(s)} /\ m <= n /\ m <= Len(s)
  BY DEF Min
<1>2. FirstOf(s, n) = SubSeq(s, 1, m)
  BY DEF FirstOf
<1> HIDE DEF m
<1>3. /\ SubSeq(s, 1, m) \in Seq(S) /\ Len(SubSeq(s, 1, m)) = m
      /\ \A k \in 1..m : SubSeq(s, 1, m)[k] = s[k]
  BY <1>1
<1> HIDE DEF FirstOf
<1>4. DOMAIN s = 1..Len(s) /\ DOMAIN FirstOf(s, n) = 1..m
  BY <1>1, <1>2, <1>3
<1>5. Len(FirstOf(s, n)) = m /\ \A k \in 1..m : FirstOf(s, n)[k] = s[k] /\ k \in DOMAIN s
  <2>1. 1..m \subseteq 1..Len(s)
    BY <1>1
  <2> QED
    BY <1>2, <1>3, <1>4, <2>1
<1>6. m < n => m = Len(s)
  BY <1>1
<1>7. FirstOf(s, n) \in Seq(S)
  BY <1>2, <1>3
<1> QED
  BY <1>1, <1>4, <1>5, <1>6, <1>7 DEF IsHead

-----------------------------------------------------------------------------
(* The shortlist.                                                          *)

Cand == [id : Id, cats : SUBSET Category, source : {"retrieval", "live", "fill"}]

IsShortlist(s) ==
    /\ s \in Seq(Cand) /\ DistinctIds(s)
    /\ \A k \in DOMAIN s : s[k].source = "retrieval"

\* A list without the excluded ids repeats none that was not repeated.
LEMMA BestOfType ==
    ASSUME NEW ids \in Seq(ShelfIds), NEW excluded
    PROVE  BestOf(ids, excluded) \in Seq(ShelfIds) /\ (Distinct(ids) => Distinct(BestOf(ids, excluded)))
<1> DEFINE P == {k \in DOMAIN ids : ids[k] \notin excluded}
           t == Subsequence(ids, P)
<1>1. t \in Seq(ShelfIds) /\ IsPick(t, ids, P) /\ P \subseteq DOMAIN ids
  BY SubsequencePicks
<1>2. Distinct(ids) => Distinct(t)
  BY <1>1 DEF IsPick, Distinct
<1>3. BestOf(ids, excluded) = FirstOf(t, K)
  BY DEF BestOf
<1> HIDE DEF t
<1>4. BestOf(ids, excluded) \in Seq(ShelfIds) /\ IsHead(BestOf(ids, excluded), t, K)
  BY <1>1, <1>3, FirstOfIsHead, CandidateAssumption
<1> QED
  BY <1>2, <1>4 DEF IsHead, Distinct

\* First occurrences do not occur twice.
LEMMA FirstOccurrencesDistinct ==
    ASSUME NEW S, NEW s \in Seq(S)
    PROVE  FirstOccurrences(s) \in Seq(S) /\ Distinct(FirstOccurrences(s))
<1> DEFINE P == {k \in DOMAIN s : \A j \in 1..(k - 1) : s[j] # s[k]}
<1>1. FirstOccurrences(s) \in Seq(S) /\ IsPick(FirstOccurrences(s), s, P)
  BY SubsequencePicks DEF FirstOccurrences
<1>2. \A j, k \in P : j # k => s[j] # s[k]
  <2> SUFFICES ASSUME NEW j \in P, NEW k \in P, j # k, s[j] = s[k] PROVE FALSE
    OBVIOUS
  <2>1. j \in Nat /\ k \in Nat /\ j >= 1 /\ k >= 1
    BY Positions
  <2>2. j \in 1..(k - 1) \/ k \in 1..(j - 1)
    BY <2>1
  <2> QED
    BY <2>2
<1> QED
  BY <1>1, <1>2 DEF IsPick

\* ALS, popularity or both: the shortlist's ids are those of the shelf, once each.
LEMMA RetrievalDistinct ==
    ASSUME NEW warm, NEW excluded
    PROVE  /\ RetrieveForUser(warm, excluded) \in Seq(ShelfIds)
           /\ Distinct(RetrieveForUser(warm, excluded))
<1> DEFINE a == BestOf(AlsRank, excluded)
           b == BestOf(Popular, excluded)
           f == FirstOccurrences(a \o b)
<1>1. a \in Seq(ShelfIds) /\ b \in Seq(ShelfIds) /\ Distinct(b)
  BY BestOfType, CandidateAssumption DEF Distinct
<1>2. RetrieveForUser(warm, excluded) = IF warm THEN FirstOf(f, K) ELSE b
  BY DEF RetrieveForUser
<1> HIDE DEF a, b
<1>3. a \o b \in Seq(ShelfIds)
  BY <1>1
<1>4. f \in Seq(ShelfIds) /\ Distinct(f)
  BY <1>3, FirstOccurrencesDistinct
<1> HIDE DEF f
<1>5. FirstOf(f, K) \in Seq(ShelfIds) /\ IsHead(FirstOf(f, K), f, K)
  BY <1>4, FirstOfIsHead, CandidateAssumption
<1>6. Distinct(FirstOf(f, K))
  BY <1>4, <1>5 DEF IsHead, Distinct
<1> QED
  BY <1>1, <1>2, <1>5, <1>6

\* The candidates a request starts with.
LEMMA ShortlistIsOne ==
    ASSUME ShelfInv, NEW warm, NEW excluded
    PROVE  IsShortlist(Described(RetrieveForUser(warm, excluded)))
<1> DEFINE ids == RetrieveForUser(warm, excluded)
           s   == Described(ids)
<1>1. ids \in Seq(ShelfIds) /\ Distinct(ids)
  BY RetrievalDistinct
<1> HIDE DEF ids
<1>2. \A i : CatsOf(i) \in SUBSET Category
  <2>1. \A n \in DOMAIN items : items[n] \in Meta
    BY DEF ShelfInv, HasShelf
  <2> QED
    BY <2>1 DEF CatsOf, Meta
<1>3. ShelfIds \subseteq Id
  <2>1. \A n \in DOMAIN Shelf : Shelf[n] \in Meta
    BY ShelfType
  <2> QED
    BY <2>1 DEF ShelfIds, Meta
<1>4. /\ DOMAIN s = DOMAIN ids
      /\ \A k \in DOMAIN ids : s[k].id = ids[k] /\ s[k].source = "retrieval" /\ s[k] \in Cand
  <2>1. \A k \in DOMAIN ids : ids[k] \in Id
    BY <1>1, <1>3
  <2> QED
    BY <1>2, <2>1 DEF Described, Cand
<1>5. s \in Seq(Cand)
  <2>1. DOMAIN ids = 1..Len(ids) /\ Len(ids) \in Nat
    BY <1>1
  <2>2. s \in [1..Len(ids) -> Cand]
    <3>1. s = [k \in DOMAIN ids |-> s[k]]
      BY DEF Described
    <3> HIDE DEF s
    <3> QED
      BY <1>4, <2>1, <3>1
  <2> HIDE DEF s
  <2> QED
    BY <2>1, <2>2, SeqDef
<1> HIDE DEF s
<1>6. DistinctIds(s) /\ \A k \in DOMAIN s : s[k].source = "retrieval"
  BY <1>1, <1>4 DEF DistinctIds, Distinct
<1> QED
  BY <1>5, <1>6 DEF IsShortlist, s, ids

-----------------------------------------------------------------------------
(* The new titles.                                                         *)

\* The terms of the score, and so the score, are integers.
LEMMA MeanAffinityIsInt ==
    ASSUME NEW q, NEW cats \in SUBSET Category
    PROVE  MeanAffinity(q, cats) \in Int
<1> DEFINE aff  == q.affinity
           up   == {u \in cats \X (1..Unit) : u[2] <= aff[u[1]]}
           down == {u \in cats \X (1..Unit) : u[2] <= -aff[u[1]]}
<1>1. IsFiniteSet(cats)
  BY FS_Subset, CatalogAssumption
<1>2. Cardinality(cats) \in Nat /\ (Cardinality(cats) = 0 <=> cats = {})
  BY <1>1, FS_CardinalityType, FS_EmptySet
<1>3. IsFiniteSet(cats \X (1..Unit))
  <2>1. IsFiniteSet(1..Unit)
    BY FS_Interval, CatalogAssumption
  <2> QED
    BY <1>1, <2>1, FS_Product, Zenon
<1>4. \A U \in SUBSET (cats \X (1..Unit)) : Cardinality(U) \in Int
  BY <1>3, FS_Subset, FS_CardinalityType
<1>5. Cardinality(up) \in Int /\ Cardinality(down) \in Int
  <2>1. up \in SUBSET (cats \X (1..Unit)) /\ down \in SUBSET (cats \X (1..Unit))
    OBVIOUS
  <2> QED
    BY <1>4, <2>1
<1>6. Total(aff, cats) = Cardinality(up) - Cardinality(down)
  BY DEF Total
<1> HIDE DEF up, down
<1>7. Total(aff, cats) \in Int
  BY <1>5, <1>6
<1> QED
  BY <1>2, <1>7 DEF MeanAffinity

LEMMA RecencyIsInt ==
    ASSUME NEW year \in Int
    PROVE  Recency(year) \in Int
<1> DEFINE a == (5 * Unit) \div 4
           b == (year * Unit) \div NowYear
<1>1. a \in Int /\ b \in Int
  BY CatalogAssumption, CandidateAssumption
<1>2. Recency(year) = Max({0, Min({a, b})})
  BY DEF Recency
<1> HIDE DEF a, b
<1>3. Min({a, b}) \in Int
  BY <1>1 DEF Min
<1> HIDE DEF Recency
<1> DEFINE c == Min({a, b})
<1> HIDE DEF c
<1>4. Max({0, c}) \in Int
  <2>1. c \in Int
    BY <1>3 DEF c
  <2> QED
    BY <2>1 DEF Max
<1> QED
  BY <1>2, <1>4 DEF c

LEMMA LiveScoreIsInt ==
    ASSUME NEW q, NEW row \in Row
    PROVE  LiveScore(q, row) \in Int
<1>1. /\ row.pop \in Int
      /\ Recency(row.year) \in Int
      /\ MeanAffinity(q, row.cats) \in Int
  BY RecencyIsInt, MeanAffinityIsInt DEF Row
<1> QED
  BY <1>1 DEF LiveScore

\* Positions by falling score, equal ones in order.
LEMMA ScorePlaces ==
    ASSUME NEW D \in SUBSET Int, IsFiniteSet(D), NEW score \in [D -> Int],
           NEW A \in [D -> SUBSET D],
           \A j, k \in D : j \in A[k] <=>
                score[j] > score[k] \/ (~(score[k] > score[j]) /\ j < k),
           NEW at, ByRank(at, D, A)
    PROVE  Lists(at, D, A)
<1>1. \A k \in D : k \notin A[k]
  OBVIOUS
<1>2. \A j, k \in D : j # k => j \in A[k] \/ k \in A[j]
  OBVIOUS
<1>3. \A j, k \in D : j \in A[k] => A[j] \subseteq A[k]
  <2> SUFFICES ASSUME NEW j \in D, NEW k \in D, j \in A[k], NEW i \in A[j] PROVE i \in A[k]
    OBVIOUS
  <2>1. i \in D /\ score[i] \in Int /\ score[j] \in Int /\ score[k] \in Int
    OBVIOUS
  <2> QED
    BY <2>1
<1> QED
  BY <1>1, <1>2, <1>3, PlacesList

NewRows(q) == {n \in DOMAIN catalog : IsNew(q, catalog[n])}

\* t has a candidate for every new title.
IsLive(t, q) ==
    /\ t \in Seq(Cand) /\ DistinctIds(t)
    /\ Len(t) = Cardinality(NewRows(q))
    /\ \A p \in DOMAIN t :
        /\ t[p].source = "live"
        /\ \E n \in NewRows(q) : t[p].id = catalog[n].id /\ t[p].cats = catalog[n].cats
    /\ \A n \in NewRows(q) : \E p \in DOMAIN t : t[p].id = catalog[n].id

\* The list of new titles, best first, loses and repeats none.
LEMMA LiveLists ==
    ASSUME IsCatalog(catalog), NEW q
    PROVE  IsLive(Live(q), q)
<1> DEFINE P == NewRows(q)
           s == Subsequence(catalog, P)
           D == DOMAIN s
           Ahead(a, b) == LiveScore(q, a) > LiveScore(q, b)
           rows == SortedBy(s, Ahead)
           before(k) == {j \in D : Ahead(s[j], s[k]) \/ (~Ahead(s[k], s[j]) /\ j < k)}
           c(p)   == CHOOSE k \in D : Cardinality(before(k)) = p - 1
           at     == [p \in D |-> c(p)]
           A      == [k \in D |-> before(k)]
           score  == [k \in D |-> LiveScore(q, s[k])]
<1>1. P \in SUBSET (DOMAIN catalog) /\ catalog \in Seq(Row) /\ DistinctIds(catalog)
  BY DEF NewRows, IsCatalog
<1>2. s \in Seq(Row) /\ IsPick(s, catalog, P)
  BY <1>1, SubsequencePicks
<1>3. DistinctIds(s)
  BY <1>1, <1>2 DEF IsPick, DistinctIds
<1>4. rows = [p \in D |-> s[at[p]]]
  BY DEF SortedBy
<1>5. Live(q) = [k \in DOMAIN rows |-> [id |-> rows[k].id, cats |-> rows[k].cats, source |-> "live"]]
  BY DEF Live, NewRows
<1> HIDE DEF P, s, rows
<1>6. D = 1..Len(s) /\ Len(s) \in Nat /\ IsFiniteSet(D) /\ Cardinality(D) = Len(s) /\ D \in SUBSET Int
  BY <1>2, Positions
<1>7. \A k \in D : s[k] \in Row
  BY <1>2, <1>6
<1>8. score \in [D -> Int]
  BY <1>7, LiveScoreIsInt
<1>9. A \in [D -> SUBSET D] /\ \A j, k \in D : j \in A[k] <=>
            score[j] > score[k] \/ (~(score[k] > score[j]) /\ j < k)
  OBVIOUS
<1>10. \A k \in D : A[k] = before(k)
  OBVIOUS
<1>11. at = [p \in D |-> at[p]]
  <2> HIDE DEF c
  <2> QED
    OBVIOUS
<1>12. \A p \in D : (\E k \in D : Cardinality(before(k)) = p - 1)
                    => at[p] \in D /\ Cardinality(before(at[p])) = p - 1
  OBVIOUS
<1> HIDE DEF D, A, at, before, c, score
<1>13. ByRank(at, D, A)
  BY <1>6, <1>10, <1>11, <1>12 DEF ByRank
<1>14. Lists(at, D, A)
  BY <1>6, <1>8, <1>9, <1>13, ScorePlaces
<1>15. /\ at \in [D -> D]
       /\ \A p, r \in D : p # r => at[p] # at[r]
       /\ \A k \in D : \E p \in D : at[p] = k
  BY <1>6, <1>14 DEF Lists
<1> DEFINE t == Live(q)
<1>16. /\ DOMAIN t = D
       /\ \A p \in D : /\ t[p] = [id |-> s[at[p]].id, cats |-> s[at[p]].cats, source |-> "live"]
                       /\ at[p] \in D
  BY <1>4, <1>5, <1>15
<1> HIDE DEF t
<1>17. \A p \in D : /\ t[p] \in Cand /\ t[p].source = "live"
                    /\ t[p].id = s[at[p]].id /\ t[p].cats = s[at[p]].cats
  BY <1>7, <1>16 DEF Cand, Row
<1>18. t \in Seq(Cand) /\ Len(t) = Len(s)
  <2>1. t = [p \in D |-> t[p]]
    <3>1. \E T : t = [k \in DOMAIN rows |-> [id |-> rows[k].id, cats |-> rows[k].cats, source |-> "live"]]
      BY <1>5 DEF t
    <3> QED
      BY <1>16, <3>1
  <2>2. t \in [1..Len(s) -> Cand]
    BY <1>6, <1>17, <2>1
  <2> QED
    BY <1>6, <2>2, SeqDef
<1>19. DistinctIds(t)
  <2> SUFFICES ASSUME NEW j \in D, NEW k \in D, j # k PROVE t[j].id # t[k].id
    BY <1>16 DEF DistinctIds
  <2>1. at[j] # at[k] /\ at[j] \in D /\ at[k] \in D
    BY <1>15
  <2> QED
    BY <1>3, <1>17, <2>1 DEF DistinctIds, D
<1>20. Len(t) = Cardinality(P)
  BY <1>2, <1>18 DEF IsPick
<1>21. ASSUME NEW p \in D
       PROVE  \E n \in P : t[p].id = catalog[n].id /\ t[p].cats = catalog[n].cats
  <2>1. PICK n \in P : s[at[p]] = catalog[n]
    BY <1>2, <1>16 DEF IsPick, D
  <2> QED
    BY <1>17, <2>1
<1>22. ASSUME NEW n \in P
       PROVE  \E p \in D : t[p].id = catalog[n].id
  <2>1. PICK k \in D : s[k] = catalog[n]
    BY <1>2 DEF IsPick, D
  <2>2. PICK p \in D : at[p] = k
    BY <1>15
  <2> QED
    BY <1>17, <2>1, <2>2
<1> QED
  BY <1>16, <1>17, <1>18, <1>19, <1>20, <1>21, <1>22 DEF IsLive, t, P

-----------------------------------------------------------------------------
(* Taking turns.                                                           *)

\* Induction over the numbers of a set.
LEMMA Upwards ==
    ASSUME NEW P, 0 \in P, \A n \in Nat : n \in P => n + 1 \in P
    PROVE  \A n \in Nat : n \in P
<1> DEFINE R == {p \in Nat \X Nat : p[1] < p[2]}
           Q == {n \in Nat : n \notin P}
<1>1. IsWellFoundedOn(R, Nat)
  BY NatLessThanWellFounded DEF OpToRel
<1>2. ASSUME NEW x \in Q PROVE FALSE
  <2>1. PICK m \in Q : \A j \in Q : ~(<<j, m>> \in R)
    <3>1. Q # {} /\ Q \subseteq Nat
      BY <1>2
    <3> HIDE DEF Q, R
    <3> QED
      BY <1>1, <3>1, WFMin
  <2>2. m \in Nat /\ m # 0 /\ m \notin P
    BY <2>1
  <2>3. m - 1 \in Nat /\ m - 1 < m
    BY <2>2
  <2>4. m - 1 \in P
    BY <2>1, <2>2, <2>3
  <2> QED
    BY <2>2, <2>3, <2>4
<1> QED
  BY <1>2

\* i new titles and j others are an even share, as far as there are l and c.
IsEven(i, j, l, c) == (i < j => i = l) /\ (i > j + 1 => j = c)

\* i of the first n turns were taken from l new titles, the others from c, as
\* taken tells.
TurnsInv(taken, n, l, c) ==
    /\ taken[n] \in Nat /\ taken[n] <= l
    /\ n - taken[n] \in Nat /\ n - taken[n] <= c
    /\ IsEven(taken[n], n - taken[n], l, c)
    /\ \A m \in 0..n : /\ taken[m] \in Nat
                       /\ taken[m] <= taken[n] /\ m - taken[m] <= n - taken[n]
    /\ \A i \in 1..taken[n] : \E m \in 1..n : taken[m] = i /\ taken[m] > taken[m - 1]
    /\ \A j \in 1..(n - taken[n]) : \E m \in 1..n : m - taken[m] = j /\ ~(taken[m] > taken[m - 1])

TakesTurns(taken, l, c) ==
    /\ \A n \in 0..(l + c) : TurnsInv(taken, n, l, c)
    /\ \A n \in 1..(l + c) : taken[n] = taken[n - 1] \/ taken[n] = taken[n - 1] + 1

IsTaken(taken, l, c) ==
    taken = [n \in 0..(l + c) |->
                IF n = 0 THEN 0
                ELSE LET i == taken[n - 1]
                     IN  IF i < l /\ (NewTurn(n) \/ n - 1 - i = c) THEN i + 1 ELSE i]

\* A turn keeps the shares even: as many new titles as others means that an odd
\* turn follows.
LEMMA EvenTurn ==
    ASSUME NEW l \in Nat, NEW c \in Nat, NEW i \in Nat, NEW j \in Nat,
           i <= l, j <= c, i + j < l + c, IsEven(i, j, l, c)
    PROVE  IF i < l /\ (NewTurn(i + j + 1) \/ j = c)
           THEN IsEven(i + 1, j, l, c) ELSE j < c /\ IsEven(i, j + 1, l, c)
<1>1. CASE i < l /\ j < c
  <2>1. i = j \/ i = j + 1
    BY <1>1 DEF IsEven
  <2>2. CASE i = j
    <3>1. (2 * j + 1) % 2 = 1 /\ i + j + 1 = 2 * j + 1
      BY <2>2
    <3>2. NewTurn(i + j + 1)
      BY <3>1 DEF NewTurn
    <3> QED
      BY <1>1, <2>2, <3>2 DEF IsEven
  <2>3. CASE i = j + 1
    <3>1. (2 * (j + 1)) % 2 = 0 /\ i + j + 1 = 2 * (j + 1)
      BY <2>3
    <3>2. ~NewTurn(i + j + 1)
      BY <3>1 DEF NewTurn
    <3> QED
      BY <1>1, <2>3, <3>2 DEF IsEven
  <2> QED
    BY <2>1, <2>2, <2>3
<1>2. CASE i < l /\ j = c
  BY <1>2 DEF IsEven
<1>3. CASE i = l
  BY <1>3 DEF IsEven
<1> QED
  BY <1>1, <1>2, <1>3

\* One more turn.
LEMMA TurnsStep ==
    ASSUME NEW l \in Nat, NEW c \in Nat, NEW taken, IsTaken(taken, l, c),
           NEW n \in Nat, n + 1 <= l + c, TurnsInv(taken, n, l, c)
    PROVE  /\ TurnsInv(taken, n + 1, l, c)
           /\ taken[n + 1] = taken[n] \/ taken[n + 1] = taken[n] + 1
<1> DEFINE i == taken[n]
           j == n - taken[n]
<1>1. /\ i \in Nat /\ j \in Nat /\ i <= l /\ j <= c /\ i + j = n /\ IsEven(i, j, l, c)
      /\ i + j < l + c
  BY DEF TurnsInv
<1>2. taken[n + 1] = IF i < l /\ (NewTurn(n + 1) \/ n + 1 - 1 - i = c) THEN i + 1 ELSE i
  <2>1. \A m \in 0..(l + c) : taken[m] =
                IF m = 0 THEN 0
                ELSE IF taken[m - 1] < l /\ (NewTurn(m) \/ m - 1 - taken[m - 1] = c)
                     THEN taken[m - 1] + 1 ELSE taken[m - 1]
    BY DEF IsTaken
  <2>2. PICK m \in 0..(l + c) : m = n + 1
    OBVIOUS
  <2>3. m # 0 /\ m - 1 = n
    BY <2>2
  <2>4. taken[m] = IF taken[n] < l /\ (NewTurn(m) \/ m - 1 - taken[n] = c)
                   THEN taken[n] + 1 ELSE taken[n]
    BY <2>1, <2>3
  <2>5. NewTurn(m) <=> NewTurn(n + 1)
    BY <2>2
  <2>6. m - 1 - taken[n] = n + 1 - 1 - i
    BY <1>1, <2>2
  <2> QED
    BY <2>2, <2>4, <2>5, <2>6
<1>3. /\ \A m \in 0..n : taken[m] <= i /\ m - taken[m] <= j
      /\ \A a \in 1..i : \E m \in 1..n : taken[m] = a /\ taken[m] > taken[m - 1]
      /\ \A b \in 1..j : \E m \in 1..n : m - taken[m] = b /\ ~(taken[m] > taken[m - 1])
  BY DEF TurnsInv
<1>4. n = i + j /\ taken[n] = i
  BY <1>1
<1>5. \A m \in 0..n : taken[m] \in Nat
  BY DEF TurnsInv
<1> HIDE DEF i, j
<1>6. CASE i < l /\ (NewTurn(i + j + 1) \/ j = c)
  <2>1. taken[n + 1] = i + 1 /\ n + 1 - taken[n + 1] = j
    BY <1>1, <1>2, <1>4, <1>6
  <2>2. IsEven(i + 1, j, l, c)
    BY <1>1, <1>6, EvenTurn
  <2>3. \A m \in 0..(n + 1) : taken[m] \in Nat /\ taken[m] <= i + 1 /\ m - taken[m] <= j
    <3>1. \A m \in 0..n : taken[m] \in Nat /\ taken[m] <= i + 1 /\ m - taken[m] <= j
      BY <1>1, <1>3, <1>5
    <3>2. taken[n + 1] \in Nat /\ taken[n + 1] <= i + 1 /\ n + 1 - taken[n + 1] <= j
      BY <1>1, <2>1
    <3>3. \A m \in 0..(n + 1) : m \in 0..n \/ m = n + 1
      OBVIOUS
    <3> QED
      BY <3>1, <3>2, <3>3
  <2>4. \A a \in 1..(i + 1) : \E m \in 1..(n + 1) : taken[m] = a /\ taken[m] > taken[m - 1]
    BY <1>1, <1>3, <1>4, <2>1
  <2>5. \A b \in 1..j : \E m \in 1..(n + 1) : m - taken[m] = b /\ ~(taken[m] > taken[m - 1])
    BY <1>1, <1>3
  <2> QED
    BY <1>1, <1>4, <1>6, <2>1, <2>2, <2>3, <2>4, <2>5 DEF TurnsInv
<1>7. CASE ~(i < l /\ (NewTurn(i + j + 1) \/ j = c))
  <2>1. taken[n + 1] = i /\ n + 1 - taken[n + 1] = j + 1
    BY <1>1, <1>2, <1>4, <1>7
  <2>2. j < c /\ IsEven(i, j + 1, l, c)
    BY <1>1, <1>7, EvenTurn
  <2>3. \A m \in 0..(n + 1) : taken[m] \in Nat /\ taken[m] <= i /\ m - taken[m] <= j + 1
    <3>1. \A m \in 0..n : taken[m] \in Nat /\ taken[m] <= i /\ m - taken[m] <= j + 1
      BY <1>1, <1>3, <1>5
    <3>2. taken[n + 1] \in Nat /\ taken[n + 1] <= i /\ n + 1 - taken[n + 1] <= j + 1
      BY <1>1, <2>1
    <3>3. \A m \in 0..(n + 1) : m \in 0..n \/ m = n + 1
      OBVIOUS
    <3> QED
      BY <3>1, <3>2, <3>3
  <2>4. \A a \in 1..i : \E m \in 1..(n + 1) : taken[m] = a /\ taken[m] > taken[m - 1]
    BY <1>1, <1>3
  <2>5. \A b \in 1..(j + 1) : \E m \in 1..(n + 1) : m - taken[m] = b /\ ~(taken[m] > taken[m - 1])
    BY <1>1, <1>3, <1>4, <2>1
  <2> QED
    BY <1>1, <1>4, <1>7, <2>1, <2>2, <2>3, <2>4, <2>5 DEF TurnsInv
<1> QED
  BY <1>6, <1>7

\* All the turns.
LEMMA TakenTakesTurns ==
    ASSUME NEW l \in Nat, NEW c \in Nat, NEW taken, IsTaken(taken, l, c)
    PROVE  TakesTurns(taken, l, c)
<1> DEFINE P == {n \in Nat : n <= l + c => TurnsInv(taken, n, l, c)}
<1>1. 0 \in P
  <2>1. taken[0] = 0
    BY DEF IsTaken
  <2> QED
    BY <2>1 DEF TurnsInv, IsEven
<1>2. \A n \in Nat : n \in P => n + 1 \in P
  BY TurnsStep
<1>3. \A n \in Nat : n \in P
  <2> HIDE DEF P
  <2> QED
    BY <1>1, <1>2, Upwards
<1>4. \A n \in 0..(l + c) : TurnsInv(taken, n, l, c)
  BY <1>3
<1>5. ASSUME NEW n \in 1..(l + c)
      PROVE  taken[n] = taken[n - 1] \/ taken[n] = taken[n - 1] + 1
  <2>1. PICK m \in Nat : m = n - 1 /\ m + 1 = n /\ m + 1 <= l + c /\ m \in 0..(l + c)
    OBVIOUS
  <2>2. TurnsInv(taken, m, l, c)
    BY <1>4, <2>1
  <2>3. taken[m + 1] = taken[m] \/ taken[m + 1] = taken[m] + 1
    BY <2>1, <2>2, TurnsStep
  <2> QED
    BY <2>1, <2>3
<1> QED
  BY <1>4, <1>5 DEF TakesTurns

\* A share grows with the candidate that follows.
LEMMA ShareGrows ==
    ASSUME NEW w, NEW p \in Nat, NEW source
    PROVE  /\ Share(w, p, source) \in Nat
           /\ Share(w, 0, source) = 0
           /\ Share(w, p + 1, source) =
                Share(w, p, source) + (IF w[p + 1].source = source THEN 1 ELSE 0)
<1> DEFINE T(n) == {k \in 1..n : w[k].source = source}
<1>1. IsFiniteSet(T(p)) /\ Cardinality(T(p)) \in Nat
  <2>1. IsFiniteSet(1..p)
    BY FS_Interval
  <2> QED
    BY <2>1, FS_Subset, FS_CardinalityType
<1>2. T(0) = {} /\ Cardinality(T(0)) = 0
  <2>1. T(0) = {}
    OBVIOUS
  <2> QED
    BY <2>1, FS_EmptySet
<1>3. CASE w[p + 1].source = source
  <2>1. T(p + 1) = T(p) \cup {p + 1} /\ p + 1 \notin T(p)
    BY <1>3
  <2> HIDE DEF T
  <2>2. Cardinality(T(p + 1)) = Cardinality(T(p)) + 1
    BY <1>1, <2>1, FS_AddElement
  <2> QED
    BY <1>1, <1>2, <1>3, <2>2 DEF Share, T
<1>4. CASE w[p + 1].source # source
  <2>1. T(p + 1) = T(p)
    BY <1>4
  <2>2. Cardinality(T(p + 1)) = Cardinality(T(p))
    <3> HIDE DEF T
    <3> QED
      BY <2>1
  <2> QED
    BY <1>1, <1>2, <1>4, <2>2 DEF Share, T
<1> QED
  BY <1>3, <1>4

\* The shares of a list are what the turns have taken.
LEMMA SharesAreTurns ==
    ASSUME NEW l \in Nat, NEW c \in Nat, NEW taken, TakesTurns(taken, l, c),
           NEW N \in Nat, N <= l + c, NEW w,
           \A k \in 1..N : w[k].source = IF taken[k] > taken[k - 1] THEN "live" ELSE "retrieval"
    PROVE  \A p \in 1..N : IsEven(Share(w, p, "live"), Share(w, p, "retrieval"), l, c)
<1> DEFINE new == [k \in Nat |-> Share(w, k, "live")]
           old == [k \in Nat |-> Share(w, k, "retrieval")]
           rest == [k \in 0..N |-> k - taken[k]]
           P == {n \in Nat : n <= N => new[n] = taken[n] /\ old[n] = rest[n]}
<1>1. \A p \in 0..N : /\ taken[p] \in Nat /\ p - taken[p] \in Nat
                      /\ IsEven(taken[p], p - taken[p], l, c)
  BY DEF TakesTurns, TurnsInv
<1>2. new[0] = 0 /\ old[0] = 0
  BY ShareGrows
<1>3. ASSUME NEW p \in Nat
      PROVE  /\ new[p + 1] = new[p] + (IF w[p + 1].source = "live" THEN 1 ELSE 0)
             /\ old[p + 1] = old[p] + (IF w[p + 1].source = "retrieval" THEN 1 ELSE 0)
  <2>1. /\ Share(w, p + 1, "live") =
                Share(w, p, "live") + (IF w[p + 1].source = "live" THEN 1 ELSE 0)
        /\ Share(w, p + 1, "retrieval") =
                Share(w, p, "retrieval") + (IF w[p + 1].source = "retrieval" THEN 1 ELSE 0)
    BY ShareGrows
  <2> QED
    BY <2>1
<1>4. \A p \in 1..N : /\ Share(w, p, "live") = new[p]
                      /\ Share(w, p, "retrieval") = old[p]
  OBVIOUS
<1>5. \A n \in 0..N : rest[n] = n - taken[n]
  OBVIOUS
<1> HIDE DEF new, old, rest
<1>6. 0 \in P
  <2>1. taken[0] = 0 /\ rest[0] = 0
    BY <1>1, <1>5
  <2> QED
    BY <1>2, <2>1
<1>7. ASSUME NEW p \in Nat, p \in P PROVE p + 1 \in P
  <2> SUFFICES ASSUME p + 1 <= N
               PROVE  new[p + 1] = taken[p + 1] /\ old[p + 1] = rest[p + 1]
    OBVIOUS
  <2>1. new[p] = taken[p] /\ old[p] = rest[p] /\ rest[p] = p - taken[p]
    BY <1>7, <1>5
  <2>2. taken[p] \in Nat /\ (taken[p + 1] = taken[p] \/ taken[p + 1] = taken[p] + 1)
    <3>1. PICK n \in 1..N : n = p + 1 /\ n - 1 = p
      OBVIOUS
    <3>2. taken[n] = taken[n - 1] \/ taken[n] = taken[n - 1] + 1
      BY DEF TakesTurns
    <3> QED
      BY <1>1, <3>1, <3>2
  <2>3. w[p + 1].source = IF taken[p + 1] > taken[p] THEN "live" ELSE "retrieval"
    <3>1. PICK n \in 1..N : n = p + 1 /\ n - 1 = p
      OBVIOUS
    <3> QED
      BY <3>1
  <2>4. CASE taken[p + 1] = taken[p]
    <3>1. w[p + 1].source = "retrieval"
      BY <2>2, <2>3, <2>4
    <3>2. new[p + 1] = new[p] /\ old[p + 1] = old[p] + 1
      BY <1>3, <2>1, <2>2, <3>1
    <3>3. rest[p + 1] = rest[p] + 1
      BY <1>5, <2>1, <2>2, <2>4
    <3> QED
      BY <2>1, <2>2, <2>4, <3>2, <3>3
  <2>5. CASE taken[p + 1] = taken[p] + 1
    <3>1. w[p + 1].source = "live"
      BY <2>2, <2>3, <2>5
    <3>2. new[p + 1] = new[p] + 1 /\ old[p + 1] = old[p]
      BY <1>3, <2>1, <2>2, <3>1
    <3>3. rest[p + 1] = rest[p]
      BY <1>5, <2>1, <2>2, <2>5
    <3> QED
      BY <2>1, <2>2, <2>5, <3>2, <3>3
  <2> QED
    BY <2>2, <2>4, <2>5
<1>8. \A p \in Nat : p \in P
  <2> HIDE DEF P
  <2> QED
    BY <1>6, <1>7, Upwards
<1>9. \A p \in 1..N : new[p] = taken[p] /\ old[p] = p - taken[p]
  BY <1>8, <1>5
<1> QED
  BY <1>1, <1>4, <1>9

\* New titles taken after turn n, of which i were before it.
After(i, n, l, c) == IF i < l /\ (NewTurn(n) \/ n - 1 - i = c) THEN i + 1 ELSE i

\* The recursion of the turns defines a function.
LEMMA TakenThere ==
    ASSUME NEW l \in Nat, NEW c \in Nat
    PROVE  \E taken : IsTaken(taken, l, c)
<1> DEFINE Upto(f, n) == f = [k \in 0..n |-> IF k = 0 THEN 0 ELSE After(f[k - 1], k, l, c)]
           P == {n \in Nat : \E f : Upto(f, n)}
<1>1. 0 \in P
  <2> DEFINE f == [k \in 0..0 |-> 0]
  <2>1. f = [k \in 0..0 |-> IF k = 0 THEN 0 ELSE After(f[k - 1], k, l, c)]
    OBVIOUS
  <2> QED
    BY <2>1
<1>2. ASSUME NEW n \in Nat, n \in P
      PROVE  n + 1 \in P
  <2> PICK f : Upto(f, n)
    BY <1>2
  <2> DEFINE g == [k \in 0..(n + 1) |-> IF k = n + 1 THEN After(f[n], k, l, c) ELSE f[k]]
  <2>1. ASSUME NEW k \in 0..(n + 1)
        PROVE  g[k] = IF k = 0 THEN 0 ELSE After(g[k - 1], k, l, c)
    <3>1. CASE k = n + 1
      <4>1. g[k] = After(f[n], k, l, c) /\ g[n] = f[n] /\ k - 1 = n /\ k # 0
        BY <3>1
      <4> QED
        BY <4>1
    <3>2. CASE k \in 0..n
      <4>1. g[k] = f[k] /\ (k # 0 => g[k - 1] = f[k - 1])
        BY <3>2
      <4>2. f[k] = IF k = 0 THEN 0 ELSE After(f[k - 1], k, l, c)
        BY <3>2
      <4> QED
        BY <4>1, <4>2
    <3> QED
      BY <3>1, <3>2
  <2>2. Upto(g, n + 1)
    BY <2>1
  <2> HIDE DEF g, Upto
  <2> QED
    BY <2>2
<1>3. l + c \in P
  <2> HIDE DEF P
  <2>1. \A n \in Nat : n \in P
    BY <1>1, <1>2, Upwards
  <2> QED
    BY <2>1
<1>4. PICK f : Upto(f, l + c)
  BY <1>3
<1>5. IsTaken(f, l, c)
  BY <1>4 DEF IsTaken, After
<1> QED
  BY <1>5

\* w gives live and classic their turns.
IsWoven(w, live, classic) ==
    /\ w \in Seq(Cand) /\ DistinctIds(w) /\ Len(w) <= K
    /\ \A n \in DOMAIN w : \/ \E i \in DOMAIN live : w[n] = live[i]
                           \/ \E j \in DOMAIN classic : w[n] = classic[j]
    /\ Len(w) < K =>
        /\ \A i \in DOMAIN live : \E n \in DOMAIN w : w[n] = live[i]
        /\ \A j \in DOMAIN classic : \E n \in DOMAIN w : w[n] = classic[j]
    /\ \A p \in 1..Len(w) :
        IsEven(Share(w, p, "live"), Share(w, p, "retrieval"), Len(live), Len(classic))

WovenBy(w, taken, live, classic) ==
    w = [n \in 1..Min({K, Len(live) + Len(classic)}) |->
            IF taken[n] > taken[n - 1] THEN live[taken[n]] ELSE classic[n - taken[n]]]

\* The loop's answer follows such turns.
LEMMA WovenTakesTurns ==
    ASSUME NEW live, NEW classic, Len(live) \in Nat, Len(classic) \in Nat
    PROVE  \E taken : /\ IsTaken(taken, Len(live), Len(classic))
                      /\ WovenBy(Woven(live, classic), taken, live, classic)
<1> DEFINE t == CHOOSE taken :
                    taken = [n \in 0..Turns(live, classic) |->
                        IF n = 0 THEN 0
                        ELSE LET i == taken[n - 1]
                             IN  IF i < Len(live) /\ (NewTurn(n) \/ n - 1 - i = Len(classic))
                                 THEN i + 1 ELSE i]
<1>1. IsTaken(t, Len(live), Len(classic))
  BY TakenThere DEF IsTaken, Turns
<1>2. WovenBy(Woven(live, classic), t, live, classic)
  <2>1. Woven(live, classic) =
            [n \in 1..Min({K, Turns(live, classic)}) |->
                IF t[n] > t[n - 1] THEN live[t[n]] ELSE classic[n - t[n]]]
    BY DEF Woven
  <2> HIDE DEF t
  <2> QED
    BY <2>1 DEF Turns, WovenBy
<1> HIDE DEF t
<1> QED
  BY <1>1, <1>2

\* The answer holds of both lists what their turns give, all of them if it is
\* short.
LEMMA WovenWeaves ==
    ASSUME NEW live \in Seq(Cand), NEW classic \in Seq(Cand),
           DistinctIds(live), DistinctIds(classic),
           \A i \in DOMAIN live : live[i].source = "live",
           \A j \in DOMAIN classic : classic[j].source = "retrieval",
           \A i \in DOMAIN live, j \in DOMAIN classic : live[i].id # classic[j].id
    PROVE  IsWoven(Woven(live, classic), live, classic)
<1> DEFINE l == Len(live)
           c == Len(classic)
           N == Min({K, l + c})
           w == Woven(live, classic)
<1>1. l \in Nat /\ c \in Nat /\ DOMAIN live = 1..l /\ DOMAIN classic = 1..c
  BY LenProperties
<1>2. PICK taken : IsTaken(taken, l, c) /\ WovenBy(w, taken, live, classic)
  BY <1>1, WovenTakesTurns
<1>3. N \in Nat /\ N <= K /\ N <= l + c /\ (N < K => N = l + c)
  <2> DEFINE T == l + c
  <2>1. T \in Int /\ K \in Int /\ T >= 0 /\ K >= 0
    BY <1>1, CandidateAssumption
  <2> HIDE DEF T
  <2>2. Min({K, T}) \in {K, T} /\ Min({K, T}) <= K /\ Min({K, T}) <= T
    <3>1. K <= T \/ T <= K
      BY <2>1
    <3>2. \E x \in {K, T} : \A y \in {K, T} : x <= y
      BY <2>1, <3>1
    <3>3. Min({K, T}) \in {K, T} /\ \A y \in {K, T} : Min({K, T}) <= y
      BY <3>2 DEF Min
    <3> QED
      BY <3>3
  <2>3. N = Min({K, T})
    BY DEF T
  <2> HIDE DEF N
  <2>4. N \in Nat /\ N <= K /\ N <= T /\ (N < K => N = T)
    BY <2>1, <2>2, <2>3
  <2> QED
    BY <2>4 DEF T
<1>4. w = [n \in 1..N |-> IF taken[n] > taken[n - 1] THEN live[taken[n]] ELSE classic[n - taken[n]]]
  BY <1>2 DEF WovenBy
<1> HIDE DEF l, c, N, w
<1>5. TakesTurns(taken, l, c)
  BY <1>1, <1>2, TakenTakesTurns
<1>6. \A n \in 0..N : /\ taken[n] \in Nat /\ taken[n] <= l
                      /\ n - taken[n] \in Nat /\ n - taken[n] <= c
                      /\ \A m \in 0..n : taken[m] <= taken[n] /\ m - taken[m] <= n - taken[n]
  BY <1>1, <1>3, <1>5 DEF TakesTurns, TurnsInv
<1> DEFINE new(n) == taken[n] > taken[n - 1]
<1>7. \A n \in 1..N : /\ new(n) => taken[n] \in DOMAIN live /\ w[n] = live[taken[n]]
                                   /\ taken[n] = taken[n - 1] + 1
                      /\ ~new(n) => n - taken[n] \in DOMAIN classic /\ w[n] = classic[n - taken[n]]
                                   /\ taken[n] = taken[n - 1]
  <2> SUFFICES ASSUME NEW n \in 1..N
               PROVE  /\ new(n) => taken[n] \in DOMAIN live /\ w[n] = live[taken[n]]
                                   /\ taken[n] = taken[n - 1] + 1
                      /\ ~new(n) => n - taken[n] \in DOMAIN classic /\ w[n] = classic[n - taken[n]]
                                   /\ taken[n] = taken[n - 1]
    OBVIOUS
  <2>1. n - 1 \in 0..N /\ n \in 0..N /\ n \in Nat /\ n \in 1..(l + c)
    BY <1>1, <1>3
  <2>2. taken[n] = taken[n - 1] \/ taken[n] = taken[n - 1] + 1
    BY <1>5, <2>1 DEF TakesTurns
  <2>3. w[n] = IF taken[n] > taken[n - 1] THEN live[taken[n]] ELSE classic[n - taken[n]]
    BY <1>4
  <2>4. /\ taken[n - 1] \in Nat /\ taken[n] \in Nat /\ taken[n] <= l
        /\ n - 1 - taken[n - 1] \in Nat /\ n - taken[n] <= c
    BY <1>6, <2>1
  <2>5. CASE taken[n] = taken[n - 1]
    <3>1. ~new(n) /\ w[n] = classic[n - taken[n]]
      BY <2>3, <2>4, <2>5
    <3>2. n - taken[n] \in 1..c
      BY <1>1, <2>1, <2>4, <2>5
    <3> QED
      BY <1>1, <2>5, <3>1, <3>2
  <2>6. CASE taken[n] = taken[n - 1] + 1
    <3>1. new(n) /\ w[n] = live[taken[n]]
      BY <2>3, <2>4, <2>6
    <3>2. taken[n] \in 1..l
      BY <1>1, <2>4, <2>6
    <3> QED
      BY <1>1, <2>6, <3>1, <3>2
  <2> QED
    BY <2>2, <2>5, <2>6
<1>8. DOMAIN w = 1..N /\ w \in Seq(Cand) /\ Len(w) = N
  <2>1. \A n \in 1..N : w[n] \in Cand
    BY <1>1, <1>7
  <2>2. w = [n \in 1..N |-> w[n]]
    BY <1>4
  <2>3. w \in [1..N -> Cand]
    BY <2>1, <2>2
  <2> QED
    BY <1>3, <2>3, SeqDef
<1>9. DistinctIds(w)
  <2>1. ASSUME NEW m \in 1..N, NEW n \in 1..N, m < n PROVE w[m].id # w[n].id
    <3>1. /\ m \in 0..N /\ n \in 0..N /\ n - 1 \in 0..N /\ m \in 0..(n - 1)
          /\ m \in Int /\ n \in Int
      BY <1>3, <2>1
    <3>2. /\ taken[m] <= taken[n - 1] /\ m - taken[m] <= (n - 1) - taken[n - 1]
          /\ taken[m] \in Nat /\ taken[n - 1] \in Nat /\ taken[n] \in Nat
      BY <1>6, <3>1
    <3>3. CASE new(m) /\ new(n)
      <4>1. taken[m] < taken[n]
        BY <1>7, <3>2, <3>3
      <4>2. taken[m] # taken[n] /\ taken[m] \in DOMAIN live /\ taken[n] \in DOMAIN live
        BY <1>7, <3>3, <4>1
      <4> QED
        BY <1>7, <3>3, <4>2 DEF DistinctIds
    <3>4. CASE ~new(m) /\ ~new(n)
      <4>1. m - taken[m] < n - taken[n]
        BY <1>7, <3>1, <3>2, <3>4
      <4>2. m - taken[m] # n - taken[n] /\ m - taken[m] \in DOMAIN classic /\ n - taken[n] \in DOMAIN classic
        BY <1>7, <3>1, <3>2, <3>4, <4>1
      <4> QED
        BY <1>7, <3>4, <4>2 DEF DistinctIds
    <3>5. CASE new(m) /\ ~new(n)
      BY <1>7, <3>5
    <3>6. CASE ~new(m) /\ new(n)
      BY <1>7, <3>6
    <3> QED
      BY <3>3, <3>4, <3>5, <3>6
  <2>2. \A m, n \in 1..N : m # n => m < n \/ n < m
    OBVIOUS
  <2> QED
    BY <1>8, <2>1, <2>2 DEF DistinctIds
<1>10. \A n \in DOMAIN w : \/ \E i \in DOMAIN live : w[n] = live[i]
                          \/ \E j \in DOMAIN classic : w[n] = classic[j]
  BY <1>7, <1>8
<1>11. ASSUME N < K
       PROVE  /\ \A i \in DOMAIN live : \E n \in DOMAIN w : w[n] = live[i]
              /\ \A j \in DOMAIN classic : \E n \in DOMAIN w : w[n] = classic[j]
  <2>1. N = l + c /\ N \in 0..(l + c)
    BY <1>1, <1>3, <1>11
  <2>2. TurnsInv(taken, N, l, c)
    BY <1>5, <2>1 DEF TakesTurns
  <2>3. taken[N] = l /\ N - taken[N] = c
    BY <1>1, <2>1, <2>2 DEF TurnsInv
  <2>4. /\ \A i \in 1..l : \E n \in 1..N : taken[n] = i /\ new(n)
        /\ \A j \in 1..c : \E n \in 1..N : n - taken[n] = j /\ ~new(n)
    BY <2>2, <2>3 DEF TurnsInv
  <2>5. ASSUME NEW i \in 1..l PROVE \E n \in 1..N : w[n] = live[i]
    BY <1>7, <2>4
  <2>6. ASSUME NEW j \in 1..c PROVE \E n \in 1..N : w[n] = classic[j]
    BY <1>7, <2>4
  <2> QED
    BY <1>1, <1>8, <2>5, <2>6
<1>12. \A p \in 1..N : IsEven(Share(w, p, "live"), Share(w, p, "retrieval"), l, c)
  <2>1. \A k \in 1..N : w[k].source = IF taken[k] > taken[k - 1] THEN "live" ELSE "retrieval"
    BY <1>7
  <2> QED
    BY <1>1, <1>3, <1>5, <2>1, SharesAreTurns
<1> QED
  BY <1>3, <1>8, <1>9, <1>10, <1>11, <1>12 DEF IsWoven, l, c, w

-----------------------------------------------------------------------------
(* The answers.                                                            *)

QueryForm(q) ==
    DOMAIN q = {"stage", "excluded", "genre", "affinity", "cands", "shortlist", "rows"}

\* The query as its blend has found it.
Blending(q) == [q EXCEPT !.cands = q.shortlist]

KeptIds(q) == IdsOf(Classic(Blending(q)))

Sound(q) ==
    /\ Len(q.cands) <= K
    /\ DistinctIds(q.cands)
    /\ \A k \in DOMAIN q.cands :
        /\ OfGenre(q.genre, q.cands[k].cats)
        /\ q.cands[k].id \in q.excluded =>
            /\ q.genre # NoGenre
            /\ \A j \in k..Len(q.cands) : q.cands[j].source = "fill"

Complete(q) ==
    Len(q.cands) < K =>
        /\ KeptIds(q) \subseteq IdsOf(q.cands)
        /\ \A n \in DOMAIN q.rows :
            (/\ OfGenre(q.genre, q.rows[n].cats)
             /\ q.genre = NoGenre =>
                    q.rows[n].id \notin q.excluded /\ q.rows[n].year >= LiveFromYear)
                => q.rows[n].id \in IdsOf(q.cands)

Even(q) ==
    q.genre = NoGenre =>
        \A p \in 1..Len(q.cands) :
            IsEven(Share(q.cands, p, "live"), Share(q.cands, p, "retrieval"),
                   Cardinality({n \in DOMAIN q.rows : IsNew(Blending(q), q.rows[n])}),
                   Len(Classic(Blending(q))))

\* A blend that left room for more of its genre.
LeavesRoom(q) ==
    /\ q.genre \in Category /\ Len(q.cands) < K
    /\ q.cands \in Seq(Cand) /\ DistinctIds(q.cands)
    /\ \A k \in DOMAIN q.cands :
        q.genre \in q.cands[k].cats /\ q.cands[k].id \notin q.excluded
    /\ KeptIds(q) \subseteq IdsOf(q.cands)

QueryInv(q) ==
    /\ QueryForm(q)
    /\ q.genre \in Category \cup {NoGenre}
    /\ q.stage # "new" => IsShortlist(q.shortlist)
    /\ q.stage = "blend" => q.cands = q.shortlist
    /\ q.stage = "fill" => LeavesRoom(q)
    /\ q.stage = "done" => Sound(q) /\ Complete(q) /\ Even(q)

AnswersInv == DOMAIN request = Request /\ \A r \in Request : QueryInv(request[r])

\* Initially no request has been made.
LEMMA AnswersInvInit == Init => AnswersInv
<1> SUFFICES ASSUME Init PROVE AnswersInv
  OBVIOUS
<1>1. DOMAIN request = Request /\ \A r \in Request : request[r] = NewRequest
  BY DEF Init
<1>2. QueryInv(NewRequest)
  <2>1. /\ QueryForm(NewRequest) /\ NewRequest.stage = "new" /\ NewRequest.genre = NoGenre
    BY DEF NewRequest, QueryForm
  <2> QED
    BY <2>1 DEF QueryInv
<1> QED
  BY <1>1, <1>2 DEF AnswersInv

\* A step of one request keeps the others.
LEMMA QueryChanges ==
    ASSUME AnswersInv, NEW r \in Request, NEW q, QueryInv(q),
           request' = [request EXCEPT ![r] = q]
    PROVE  AnswersInv'
BY DEF AnswersInv

\* The invariant says what the answers promise.
LEMMA AnswersInvIsEnough ==
    AnswersInv => AnswerIsSound /\ ShortAnswerIsComplete /\ NewTitlesTakeTurns
<1> SUFFICES ASSUME AnswersInv, NEW r \in Request, request[r].stage = "done"
             PROVE  Sound(request[r]) /\ Complete(request[r]) /\ Even(request[r])
  BY DEF AnswerIsSound, ShortAnswerIsComplete, NewTitlesTakeTurns, Sound, Complete, Even,
         KeptIds, Blending, IsEven, DistinctIds, Done
<1> QED
  BY DEF AnswersInv, QueryInv

\* What of a shortlist stays.
IsClassic(t, q) ==
    /\ t \in Seq(Cand) /\ DistinctIds(t)
    /\ \A p \in DOMAIN t : /\ t[p].id \notin q.excluded /\ OfGenre(q.genre, t[p].cats)
                           /\ t[p].source = "retrieval"

\* The candidates that stay are of the shortlist.
LEMMA ClassicLists ==
    ASSUME NEW q, IsShortlist(q.cands)
    PROVE  IsClassic(Classic(q), q)
<1> DEFINE s == q.cands
           P == {k \in DOMAIN s : s[k].id \notin q.excluded /\ OfGenre(q.genre, s[k].cats)}
           t == Subsequence(s, P)
<1>1. s \in Seq(Cand) /\ DistinctIds(s) /\ \A k \in DOMAIN s : s[k].source = "retrieval"
  BY DEF IsShortlist
<1>2. t \in Seq(Cand) /\ IsPick(t, s, P)
  <2>1. P \in SUBSET (DOMAIN s)
    OBVIOUS
  <2> HIDE DEF P, s
  <2> QED
    BY <1>1, <2>1, SubsequencePicks
<1>3. Classic(q) = t
  BY DEF Classic
<1> HIDE DEF t
<1>4. DistinctIds(t)
  BY <1>1, <1>2 DEF IsPick, DistinctIds
<1>5. \A p \in DOMAIN t : /\ t[p].id \notin q.excluded /\ OfGenre(q.genre, t[p].cats)
                          /\ t[p].source = "retrieval"
  BY <1>1, <1>2 DEF IsPick
<1> QED
  BY <1>2, <1>3, <1>4, <1>5 DEF IsClassic

\* The first step of a request makes its shortlist.
LEMMA RetrieveStep ==
    ASSUME ShelfInv, AnswersInv, NEW r \in Request, NEW warm, NEW excluded,
           NEW genre \in Category \cup {NoGenre}, NEW affinity,
           Retrieve(r, warm, excluded, genre, affinity)
    PROVE  AnswersInv'
<1> DEFINE list == Described(RetrieveForUser(warm, excluded))
           q    == request[r]
           next == [q EXCEPT !.stage = "blend", !.excluded = excluded, !.genre = genre,
                             !.affinity = affinity, !.cands = list, !.shortlist = list]
<1>1. IsShortlist(list)
  BY ShortlistIsOne
<1>2. request' = [request EXCEPT ![r] = next]
  BY DEF Retrieve
<1> HIDE DEF list
<1>3. QueryForm(q)
  BY DEF AnswersInv, QueryInv
<1>4. /\ QueryForm(next) /\ next.stage = "blend" /\ next.genre = genre
      /\ next.cands = list /\ next.shortlist = list
  BY <1>3 DEF QueryForm
<1> HIDE DEF next
<1>5. QueryInv(next)
  BY <1>1, <1>4 DEF QueryInv
<1> QED
  BY <1>2, <1>5, QueryChanges

\* The candidates of another query of the same shortlist, exclusions and genre.
LEMMA SameBlend ==
    ASSUME NEW q, NEW p, QueryForm(q), QueryForm(p), q.cands = q.shortlist,
           p.shortlist = q.shortlist, p.excluded = q.excluded, p.genre = q.genre
    PROVE  /\ Classic(Blending(p)) = Classic(q)
           /\ \A row : IsNew(Blending(p), row) <=> IsNew(q, row)
<1>1. /\ Blending(p).cands = q.cands /\ Blending(p).excluded = q.excluded
      /\ Blending(p).genre = q.genre
  BY DEF Blending, QueryForm
<1>2. Classic(Blending(p)) = Classic(q)
  BY <1>1 DEF Classic
<1> QED
  BY <1>1, <1>2 DEF IsNew

\* What a blend has found.
IsBlend(w, q) ==
    /\ w \in Seq(Cand) /\ DistinctIds(w) /\ Len(w) <= K
    /\ \A k \in DOMAIN w : w[k].id \notin q.excluded /\ OfGenre(q.genre, w[k].cats)
    /\ Len(w) < K =>
        /\ IdsOf(Classic(q)) \subseteq IdsOf(w)
        /\ \A n \in NewRows(q) : catalog[n].id \in IdsOf(w)
    /\ \A p \in 1..Len(w) :
        IsEven(Share(w, p, "live"), Share(w, p, "retrieval"),
               Cardinality(NewRows(q)), Len(Classic(q)))

\* A blend finds titles that fit, and all of them if there is room.
LEMMA BlendFinds ==
    ASSUME IsCatalog(catalog), NEW q, IsShortlist(q.cands)
    PROVE  IsBlend(Woven(Live(q), Classic(q)), q)
<1> DEFINE l == Live(q)
           c == Classic(q)
           w == Woven(l, c)
<1>1. IsLive(l, q)
  BY LiveLists
<1>2. IsClassic(c, q)
  BY ClassicLists
<1>3. \A n \in NewRows(q) : /\ catalog[n].id \notin IdsOf(c) /\ catalog[n].id \notin q.excluded
                            /\ OfGenre(q.genre, catalog[n].cats)
  BY DEF NewRows, IsNew
<1> HIDE DEF l, c
<1>4. \A p \in DOMAIN l : l[p].id \notin q.excluded /\ OfGenre(q.genre, l[p].cats) /\ l[p].id \notin IdsOf(c)
  BY <1>1, <1>3 DEF IsLive
<1>5. IsWoven(w, l, c)
  <2>1. \A i \in DOMAIN l, j \in DOMAIN c : l[i].id # c[j].id
    BY <1>4 DEF IdsOf
  <2> QED
    BY <1>1, <1>2, <2>1, WovenWeaves DEF IsLive, IsClassic
<1> HIDE DEF w
<1>6. \A k \in DOMAIN w : w[k].id \notin q.excluded /\ OfGenre(q.genre, w[k].cats)
  BY <1>2, <1>4, <1>5 DEF IsWoven, IsClassic
<1>7. ASSUME Len(w) < K
      PROVE  IdsOf(c) \subseteq IdsOf(w) /\ \A n \in NewRows(q) : catalog[n].id \in IdsOf(w)
  <2>1. IdsOf(c) \subseteq IdsOf(w) /\ IdsOf(l) \subseteq IdsOf(w)
    BY <1>5, <1>7 DEF IsWoven, IdsOf
  <2>2. \A n \in NewRows(q) : catalog[n].id \in IdsOf(l)
    BY <1>1 DEF IsLive, IdsOf
  <2> QED
    BY <2>1, <2>2
<1>8. \A p \in 1..Len(w) :
        IsEven(Share(w, p, "live"), Share(w, p, "retrieval"), Cardinality(NewRows(q)), Len(c))
  BY <1>1, <1>5 DEF IsWoven, IsLive
<1>9. w \in Seq(Cand) /\ DistinctIds(w) /\ Len(w) <= K
  BY <1>5 DEF IsWoven
<1>10. IsBlend(w, q)
  BY <1>6, <1>7, <1>8, <1>9 DEF IsBlend, c
<1> QED
  BY <1>10 DEF w, l, c

\* The blend answers, or leaves room for the genre.
LEMMA BlendStep ==
    ASSUME ListsInv, AnswersInv, NEW r \in Request, Blend(r)
    PROVE  AnswersInv'
<1> DEFINE q    == request[r]
           list == Woven(Live(q), Classic(q))
           next == [q EXCEPT !.stage = IF q.genre # NoGenre /\ Len(list) < K THEN "fill" ELSE "done",
                             !.cands = list, !.rows = catalog]
<1>1. q.stage = "blend" /\ request' = [request EXCEPT ![r] = next]
  BY DEF Blend
<1>2. QueryInv(q) /\ QueryForm(q) /\ IsShortlist(q.cands) /\ q.cands = q.shortlist
  BY <1>1 DEF AnswersInv, QueryInv
<1>3. IsCatalog(catalog)
  BY DEF ListsInv
<1>4. IsBlend(list, q)
  BY <1>2, <1>3, BlendFinds
<1> HIDE DEF list
<1>5. /\ QueryForm(next) /\ next.genre = q.genre /\ next.excluded = q.excluded
      /\ next.shortlist = q.shortlist /\ next.cands = list /\ next.rows = catalog
      /\ next.stage = IF q.genre # NoGenre /\ Len(list) < K THEN "fill" ELSE "done"
  BY <1>2 DEF QueryForm
<1>6. q.genre \in Category \cup {NoGenre}
  BY <1>2 DEF QueryInv
<1> HIDE DEF next, q
<1>7. /\ Classic(Blending(next)) = Classic(q)
      /\ \A row : IsNew(Blending(next), row) <=> IsNew(q, row)
  BY <1>2, <1>5, SameBlend
<1>8. KeptIds(next) = IdsOf(Classic(q))
  BY <1>7 DEF KeptIds
<1>9. CASE q.genre # NoGenre /\ Len(list) < K
  <2>1. LeavesRoom(next)
    BY <1>4, <1>5, <1>6, <1>8, <1>9, CandidateAssumption DEF LeavesRoom, IsBlend, OfGenre
  <2> QED
    BY <1>1, <1>2, <1>5, <1>6, <1>9, <2>1, QueryChanges DEF QueryInv, q
<1>10. CASE ~(q.genre # NoGenre /\ Len(list) < K)
  <2>1. Sound(next)
    BY <1>4, <1>5 DEF IsBlend, Sound
  <2>2. Complete(next)
    <3> SUFFICES ASSUME Len(list) < K
                 PROVE  /\ KeptIds(next) \subseteq IdsOf(list)
                        /\ \A n \in DOMAIN catalog :
                            (catalog[n].id \notin q.excluded /\ catalog[n].year >= LiveFromYear)
                                => catalog[n].id \in IdsOf(list)
      BY <1>5, <1>10 DEF Complete
    <3>1. KeptIds(next) \subseteq IdsOf(list)
      BY <1>4, <1>8 DEF IsBlend
    <3>2. ASSUME NEW n \in DOMAIN catalog, catalog[n].id \notin q.excluded,
                 catalog[n].year >= LiveFromYear
          PROVE  catalog[n].id \in IdsOf(list)
      <4>1. n \in NewRows(q) \/ catalog[n].id \in IdsOf(Classic(q))
        BY <1>10, <3>2 DEF NewRows, IsNew, OfGenre
      <4> QED
        BY <1>4, <4>1 DEF IsBlend
    <3> QED
      BY <3>1, <3>2
  <2>3. Even(next)
    <3>1. {n \in DOMAIN catalog : IsNew(Blending(next), catalog[n])} = NewRows(q)
      BY <1>7 DEF NewRows
    <3> QED
      BY <1>4, <1>5, <1>7, <3>1 DEF Even, IsBlend
  <2>4. next.stage = "done"
    BY <1>5, <1>10
  <2> QED
    BY <1>1, <1>2, <1>5, <1>6, <2>1, <2>2, <2>3, <2>4, QueryChanges DEF QueryInv, q
<1> QED
  BY <1>9, <1>10

\* The filling appends other titles of the genre, of the catalog of that moment.
LEMMA FillStep ==
    ASSUME ListsInv, AnswersInv, NEW r \in Request, FillByGenre(r)
    PROVE  AnswersInv'
<1> DEFINE q    == request[r]
           list == Filled(q)
           next == [q EXCEPT !.stage = "done", !.cands = list, !.rows = catalog]
<1>1. q.stage = "fill" /\ request' = [request EXCEPT ![r] = next]
  BY DEF FillByGenre
<1>2. QueryInv(q) /\ QueryForm(q) /\ LeavesRoom(q)
  BY <1>1 DEF AnswersInv, QueryInv
<1>3. catalog \in Seq(Row) /\ DistinctIds(catalog)
  BY DEF ListsInv, IsCatalog
<1> DEFINE P    == {k \in DOMAIN q.cands : q.genre \in q.cands[k].cats}
           kept == Subsequence(q.cands, P)
           rest == {n \in DOMAIN catalog : /\ q.genre \in catalog[n].cats
                                           /\ catalog[n].id \notin IdsOf(kept)}
           rows == Subsequence(catalog, rest)
           more == [k \in DOMAIN rows |-> [id |-> rows[k].id, cats |-> rows[k].cats, source |-> "fill"]]
<1>4. list = FirstOf(kept \o more, K)
  BY DEF Filled
<1>5. P = DOMAIN q.cands
  BY <1>2 DEF LeavesRoom
<1>6. q.cands \in Seq(Cand) /\ DistinctIds(q.cands)
  BY <1>2 DEF LeavesRoom
<1>7. kept \in Seq(Cand) /\ IsPick(kept, q.cands, P)
  BY <1>6, SubsequencePicks
<1>8. rows \in Seq(Row) /\ IsPick(rows, catalog, rest)
  BY <1>3, SubsequencePicks
<1> HIDE DEF rows, kept, P
<1>9. DistinctIds(kept) /\ DistinctIds(rows)
  BY <1>3, <1>5, <1>6, <1>7, <1>8 DEF IsPick, DistinctIds
<1>10. IdsOf(kept) = IdsOf(q.cands)
  BY <1>5, <1>7 DEF IsPick, IdsOf
<1>11. \A k \in DOMAIN kept : q.genre \in kept[k].cats /\ kept[k].id \notin q.excluded
  BY <1>2, <1>5, <1>7 DEF IsPick, LeavesRoom
<1>12. \A n \in DOMAIN rows : q.genre \in rows[n].cats /\ rows[n].id \notin IdsOf(kept)
  BY <1>8 DEF IsPick
<1>13. /\ DOMAIN more = DOMAIN rows
       /\ \A n \in DOMAIN rows : /\ more[n].id = rows[n].id /\ more[n].cats = rows[n].cats
                                 /\ more[n].source = "fill" /\ more[n] \in Cand
  <2>1. \A n \in DOMAIN rows : rows[n] \in Row
    BY <1>8
  <2> QED
    BY <2>1 DEF Row, Cand
<1>14. more \in Seq(Cand) /\ Len(more) = Len(rows)
  <2>1. DOMAIN rows = 1..Len(rows) /\ Len(rows) \in Nat
    BY <1>8
  <2>2. more = [n \in 1..Len(rows) |-> more[n]]
    BY <2>1
  <2> HIDE DEF more
  <2>3. more \in [1..Len(rows) -> Cand]
    BY <1>13, <2>1, <2>2
  <2> QED
    BY <2>1, <2>3, SeqDef
<1> HIDE DEF more, rest, list
<1> DEFINE both == kept \o more
           a    == Len(kept)
           b    == Len(more)
<1>15. /\ both \in Seq(Cand) /\ Len(both) = a + b /\ DOMAIN both = 1..(a + b) /\ a \in Nat /\ b \in Nat
       /\ DOMAIN kept = 1..a /\ DOMAIN more = 1..b
       /\ \A k \in 1..a : both[k] = kept[k]
       /\ \A k \in (a + 1)..(a + b) : both[k] = more[k - a] /\ k - a \in 1..b
  BY <1>7, <1>14
<1>16. \A k \in 1..b : both[a + k] = more[k] /\ a + k \in 1..(a + b)
  BY <1>15
<1> HIDE DEF both, a, b
<1>17. list \in Seq(Cand) /\ IsHead(list, both, K)
  BY <1>4, <1>15, FirstOfIsHead, CandidateAssumption DEF both
<1>18. ASSUME NEW i \in (a + 1)..(a + b)
       PROVE  /\ i - a \in DOMAIN rows /\ both[i].id = rows[i - a].id
              /\ both[i].id \notin IdsOf(kept) /\ q.genre \in both[i].cats
  <2>1. both[i] = more[i - a] /\ i - a \in DOMAIN rows
    BY <1>13, <1>15
  <2> QED
    BY <1>12, <1>13, <2>1
<1>19. \A i \in 1..(a + b) : i \in 1..a \/ i \in (a + 1)..(a + b)
  BY <1>15
<1>20. DistinctIds(both)
  <2> SUFFICES ASSUME NEW j \in 1..(a + b), NEW k \in 1..(a + b), j # k
               PROVE  both[j].id # both[k].id
    BY <1>15 DEF DistinctIds
  <2>1. \A i \in 1..(a + b) : i \in 1..a \/ i \in (a + 1)..(a + b)
    BY <1>19
  <2>2. \A i \in 1..a : both[i].id \in IdsOf(kept)
    BY <1>15 DEF IdsOf
  <2>3. \A i \in (a + 1)..(a + b) : both[i].id = rows[i - a].id /\ i - a \in DOMAIN rows
                                    /\ both[i].id \notin IdsOf(kept)
    BY <1>18
  <2>4. CASE j \in 1..a /\ k \in 1..a
    BY <1>9, <1>15, <2>4 DEF DistinctIds
  <2>5. CASE j \in (a + 1)..(a + b) /\ k \in (a + 1)..(a + b)
    <3>1. j - a # k - a
      BY <1>15, <2>5
    <3> QED
      BY <1>9, <2>3, <2>5, <3>1 DEF DistinctIds
  <2> QED
    BY <2>1, <2>2, <2>3, <2>4, <2>5
<1>21. ASSUME NEW k \in 1..(a + b) PROVE q.genre \in both[k].cats
  <2>1. CASE k \in 1..a
    BY <1>11, <1>15, <2>1
  <2>2. CASE k \in (a + 1)..(a + b)
    BY <1>18, <2>2
  <2> QED
    BY <1>19, <2>1, <2>2
<1>22. \A k \in 1..(a + b) : both[k].id \in q.excluded =>
            \A j \in k..(a + b) : both[j].source = "fill"
  <2> SUFFICES ASSUME NEW k \in 1..(a + b), both[k].id \in q.excluded, NEW j \in k..(a + b)
               PROVE  both[j].source = "fill"
    OBVIOUS
  <2>1. k \notin 1..a
    BY <1>11, <1>15
  <2>2. j \in (a + 1)..(a + b)
    BY <1>15, <2>1
  <2> QED
    BY <1>13, <1>15, <2>2
<1>23. /\ QueryForm(next) /\ next.genre = q.genre /\ next.excluded = q.excluded
       /\ next.shortlist = q.shortlist /\ next.cands = list /\ next.rows = catalog
       /\ next.stage = "done"
  BY <1>2 DEF QueryForm
<1>24. KeptIds(next) = KeptIds(q)
  <2>1. Blending(next).cands = Blending(q).cands /\ Blending(next).excluded = Blending(q).excluded
        /\ Blending(next).genre = Blending(q).genre
    <3> HIDE DEF next, q
    <3> QED
      BY <1>2, <1>23 DEF Blending, QueryForm
  <2>2. Classic(Blending(next)) = Classic(Blending(q))
    BY <2>1 DEF Classic
  <2> QED
    BY <2>2 DEF KeptIds
<1>25. q.genre \in Category /\ q.genre # NoGenre
  BY <1>2, CandidateAssumption DEF LeavesRoom
<1>26. q.stage # "new" /\ IsShortlist(q.shortlist)
  BY <1>1, <1>2 DEF QueryInv
<1> HIDE DEF next
<1>27. Sound(next)
  <2>1. Len(list) <= K /\ Len(list) <= a + b /\ Len(list) \in Nat
        /\ DOMAIN list = 1..Len(list) /\ \A k \in 1..Len(list) : list[k] = both[k] /\ k \in 1..(a + b)
    <3>1. Len(list) \in Nat
      BY <1>17
    <3>2. Len(list) <= K /\ Len(list) <= Len(both) /\ DOMAIN list = 1..Len(list)
      BY <1>17 DEF IsHead
    <3>3. \A k \in DOMAIN list : list[k] = both[k] /\ k \in DOMAIN both
      BY <1>17 DEF IsHead
    <3> QED
      BY <1>15, <3>1, <3>2, <3>3
  <2>2. DistinctIds(list)
    BY <1>15, <1>20, <2>1 DEF DistinctIds
  <2>3. ASSUME NEW k \in 1..Len(list), list[k].id \in q.excluded, NEW j \in k..Len(list)
        PROVE  list[j].source = "fill"
    <3>1. j \in 1..Len(list) /\ j \in k..(a + b)
      BY <1>15, <2>1
    <3> QED
      BY <1>22, <2>1, <2>3, <3>1
  <2> QED
    BY <1>21, <1>23, <1>25, <2>1, <2>2, <2>3 DEF Sound, OfGenre
<1>28. Complete(next)
  <2> SUFFICES ASSUME Len(list) < K
               PROVE  /\ KeptIds(q) \subseteq IdsOf(list)
                      /\ \A n \in DOMAIN catalog : q.genre \in catalog[n].cats => catalog[n].id \in IdsOf(list)
    BY <1>23, <1>24, <1>25 DEF Complete, OfGenre
  <2>1. DOMAIN list = 1..(a + b) /\ \A k \in 1..(a + b) : list[k] = both[k]
    BY <1>15, <1>17 DEF IsHead
  <2>2. IdsOf(kept) \subseteq IdsOf(list)
    BY <1>15, <2>1 DEF IdsOf
  <2>3. ASSUME NEW n \in DOMAIN rows PROVE rows[n].id \in IdsOf(list)
    <3>1. n \in 1..b
      BY <1>13, <1>15
    <3> QED
      BY <1>13, <1>16, <2>1, <3>1 DEF IdsOf
  <2>4. ASSUME NEW n \in DOMAIN catalog, q.genre \in catalog[n].cats
        PROVE  catalog[n].id \in IdsOf(list)
    <3>1. CASE catalog[n].id \in IdsOf(kept)
      BY <2>2, <3>1
    <3>2. CASE n \in rest
      BY <1>8, <2>3, <3>2 DEF IsPick
    <3> QED
      BY <2>4, <3>1, <3>2 DEF rest
  <2> QED
    BY <1>2, <1>10, <2>2, <2>4 DEF LeavesRoom
<1>29. Even(next)
  BY <1>23, <1>25 DEF Even
<1>30. QueryInv(next)
  BY <1>23, <1>25, <1>26, <1>27, <1>28, <1>29 DEF QueryInv
<1> QED
  BY <1>1, <1>30, QueryChanges

\* Every step keeps it; a refresh changes no request.
LEMMA AnswersInvStep == ShelfInv /\ ListsInv /\ AnswersInv /\ [Next]_vars => AnswersInv'
<1> SUFFICES ASSUME ShelfInv, ListsInv, AnswersInv, [Next]_vars PROVE AnswersInv'
  OBVIOUS
<1>1. CASE UNCHANGED request
  BY <1>1 DEF AnswersInv
<1>2. ASSUME NEW r \in Request, NEW warm, NEW excluded, NEW genre \in Category \cup {NoGenre},
             NEW affinity, Retrieve(r, warm, excluded, genre, affinity)
      PROVE  AnswersInv'
  BY <1>2, RetrieveStep
<1>3. ASSUME NEW r \in Request, Blend(r) \/ FillByGenre(r) PROVE AnswersInv'
  BY <1>3, BlendStep, FillStep
<1> QED
  BY <1>1, <1>2, <1>3 DEF Next, vars

\* All three promises.
LEMMA AnswersHold ==
    Spec => [](AnswerIsSound /\ ShortAnswerIsComplete /\ NewTitlesTakeTurns)
<1>1. Init => AnswersInv
  BY AnswersInvInit
<1>2. ShelfInv /\ ListsInv /\ AnswersInv /\ [Next]_vars => AnswersInv'
  BY AnswersInvStep
<1> QED
  BY <1>1, <1>2, RefreshInv, AnswersInvIsEnough, PTL DEF Spec

\* Whatever refreshes come between the two reads of the catalog, an answer has
\* no title twice, no more than asked for and none of another genre, and an
\* excluded title only where a genre was filled up behind all that was found
\* (retrieve.py, live.py, browse.py; candidates of app.py).
THEOREM AnswersAreSound == Spec => []AnswerIsSound
BY AnswersHold, PTL

\* A short answer leaves nothing out that it may show: neither what the
\* shortlist had nor what the catalog it read last has (live.py, the loop;
\* browse.py, fill_by_genre).
THEOREM ShortAnswersAreComplete == Spec => []ShortAnswerIsComplete
BY AnswersHold, PTL

\* Without a genre, new titles and the shortlist take turns from the first
\* place on, until one of them has nothing left (live.py, the loop).
THEOREM TurnsAreTaken == Spec => []NewTitlesTakeTurns
BY AnswersHold, PTL
=============================================================================
