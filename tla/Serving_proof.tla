--------------------------- MODULE Serving_proof ---------------------------
(***************************************************************************)
(* Theorems about Serving and the bill made of its responses, for all      *)
(* titles, candidate lists, scores, popularities and limits, and any       *)
(* number of requests and judgements.                                      *)
(*                                                                         *)
(* First what the operators on lists do to a list of entries; then the     *)
(* flag of a response; then what a feed shows and leaves out, from an      *)
(* invariant on the lists and the features a request holds; last the bill, *)
(* from an invariant on the turns of the loop that mixes it.               *)
(***************************************************************************)
EXTENDS TonightBill, FiniteSetTheorems, FunctionTheorems, NaturalsInduction,
        SequenceTheorems, WellFoundedInduction, TLAPS

-----------------------------------------------------------------------------
(* Lists.                                                                    *)

\* Where A[k] is what comes before k in a total order of D, the size of A[k] is
\* the place of k: one element for every number below the size of D.
LEMMA Ranking ==
    ASSUME NEW D, IsFiniteSet(D), NEW A \in [D -> SUBSET D],
           \A k \in D : k \notin A[k],
           \A j, k \in D : j # k => j \in A[k] \/ k \in A[j],
           \A j, k \in D : j \in A[k] => A[j] \subseteq A[k]
    PROVE  /\ \A k \in D : Cardinality(A[k]) \in 0..(Cardinality(D) - 1)
           /\ \A j, k \in D : j \in A[k] => Cardinality(A[j]) < Cardinality(A[k])
           /\ \A n \in 0..(Cardinality(D) - 1) : \E k \in D : Cardinality(A[k]) = n
<1> DEFINE N    == Cardinality(D)
           rank == [k \in D |-> Cardinality(A[k])]
<1>1. N \in Nat
  BY FS_CardinalityType
<1>2. \A k \in D : IsFiniteSet(A[k]) /\ Cardinality(A[k]) \in Nat
  BY FS_Subset, FS_CardinalityType
<1>3. \A k \in D : Cardinality(A[k]) \in 0..(N - 1)
  <2> SUFFICES ASSUME NEW k \in D
               PROVE  Cardinality(A[k]) \in 0..(N - 1)
    OBVIOUS
  <2>1. Cardinality(A[k]) <= N /\ (N = Cardinality(A[k]) => D = A[k])
    BY FS_Subset
  <2>2. D # A[k]
    OBVIOUS
  <2> HIDE DEF N
  <2> QED
    BY <1>1, <1>2, <2>1, <2>2
<1>4. \A j, k \in D : j \in A[k] => Cardinality(A[j]) < Cardinality(A[k])
  <2> SUFFICES ASSUME NEW j \in D, NEW k \in D, j \in A[k]
               PROVE  Cardinality(A[j]) < Cardinality(A[k])
    OBVIOUS
  <2>1. A[j] \in SUBSET A[k] /\ A[j] # A[k]
    OBVIOUS
  <2>2. /\ Cardinality(A[j]) <= Cardinality(A[k])
        /\ Cardinality(A[k]) = Cardinality(A[j]) => A[k] = A[j]
    BY <1>2, <2>1, FS_Subset
  <2> QED
    BY <1>2, <2>1, <2>2
<1>5. rank \in Injection(D, 0..(N - 1))
  <2>1. rank \in [D -> 0..(N - 1)]
    BY <1>3
  <2>2. \A j, k \in D : rank[j] = rank[k] => j = k
    BY <1>2, <1>4
  <2> QED
    BY <2>1, <2>2, Fun_IsInj
<1>6. IsFiniteSet(0..(N - 1)) /\ Cardinality(0..(N - 1)) = N
  <2> HIDE DEF N
  <2> QED
    BY <1>1, FS_Interval
<1>7. rank \in Surjection(D, 0..(N - 1))
  BY <1>5, <1>6, FS_Injection
<1>8. \A n \in 0..(N - 1) : \E k \in D : rank[k] = n
  <2> HIDE DEF N, rank
  <2> QED
    BY <1>7 DEF Surjection
<1> QED
  BY <1>3, <1>4, <1>8

\* A subsequence lists the chosen positions once each and in order.
LEMMA SubsequenceLists ==
    ASSUME NEW S, NEW s \in Seq(S), NEW K \in SUBSET (DOMAIN s)
    PROVE  /\ Cardinality(K) \in Nat
           /\ \E at \in [1..Cardinality(K) -> K] :
                /\ Subsequence(s, K) = [p \in 1..Cardinality(K) |-> s[at[p]]]
                /\ \A p, q \in 1..Cardinality(K) : p < q => at[p] < at[q]
                /\ \A k \in K : \E p \in 1..Cardinality(K) : at[p] = k
<1> DEFINE A  == [k \in K |-> {j \in K : j < k}]
           N  == Cardinality(K)
           at == [p \in 1..N |-> CHOOSE k \in K : Cardinality({j \in K : j < k}) = p - 1]
<1>1. IsFiniteSet(K) /\ K \subseteq Nat /\ N \in Nat
  <2>1. K \in SUBSET (1..Len(s)) /\ Len(s) \in Nat
    BY LenProperties
  <2>2. IsFiniteSet(1..Len(s))
    BY <2>1, FS_Interval
  <2>3. IsFiniteSet(K)
    BY <2>1, <2>2, FS_Subset
  <2> QED
    BY <2>1, <2>3, FS_CardinalityType
<1>2. /\ \A k \in K : Cardinality(A[k]) \in 0..(N - 1)
      /\ \A j, k \in K : j \in A[k] => Cardinality(A[j]) < Cardinality(A[k])
      /\ \A n \in 0..(N - 1) : \E k \in K : Cardinality(A[k]) = n
  <2>1. A \in [K -> SUBSET K]
    OBVIOUS
  <2>2. \A j, k \in K : j \in A[k] <=> j < k
    OBVIOUS
  <2> HIDE DEF A
  <2>3. \A j, k \in K : j \in A[k] => A[j] \subseteq A[k]
    <3> SUFFICES ASSUME NEW j \in K, NEW k \in K, j \in A[k], NEW i \in A[j]
                 PROVE  i \in A[k]
      OBVIOUS
    <3> QED
      BY <1>1, <2>1, <2>2
  <2>4. /\ \A k \in K : k \notin A[k]
        /\ \A j, k \in K : j # k => j \in A[k] \/ k \in A[j]
    BY <1>1, <2>1, <2>2
  <2> QED
    BY <1>1, <2>1, <2>3, <2>4, Ranking
<1>3. \A k \in K : A[k] = {j \in K : j < k}
  OBVIOUS
<1>4. \A p \in 1..N : at[p] \in K /\ Cardinality(A[at[p]]) = p - 1
  <2> SUFFICES ASSUME NEW p \in 1..N
               PROVE  at[p] \in K /\ Cardinality(A[at[p]]) = p - 1
    OBVIOUS
  <2>1. p - 1 \in 0..(N - 1)
    <3> HIDE DEF N
    <3> QED
      BY <1>1
  <2>2. \E k \in K : Cardinality({j \in K : j < k}) = p - 1
    BY <1>2, <1>3, <2>1
  <2> QED
    BY <1>3, <2>2
<1>5. Subsequence(s, K) = [p \in 1..N |-> s[at[p]]]
  BY DEF Subsequence
<1>6. \A j, k \in K : j \in A[k] <=> j < k
  OBVIOUS
<1> HIDE DEF A, at, N
<1>7. at \in [1..N -> K]
  BY <1>4 DEF at
<1>8. ASSUME NEW p \in 1..N, NEW q \in 1..N, p < q
      PROVE  at[p] < at[q]
  <2>1. /\ at[p] \in K /\ at[q] \in K
        /\ Cardinality(A[at[p]]) = p - 1 /\ Cardinality(A[at[q]]) = q - 1
    BY <1>4
  <2>2. ~(Cardinality(A[at[q]]) < Cardinality(A[at[p]]))
    BY <2>1, <1>8
  <2>3. ~(at[q] < at[p])
    BY <2>1, <2>2, <1>2, <1>6
  <2>4. at[p] # at[q]
    BY <2>1, <1>8
  <2> QED
    BY <1>1, <2>1, <2>3, <2>4
<1>9. ASSUME NEW k \in K
      PROVE  \E p \in 1..N : at[p] = k
  <2> DEFINE p == Cardinality(A[k]) + 1
  <2>1. p \in 1..N /\ Cardinality(A[k]) = p - 1
    BY <1>1, <1>2
  <2>2. at[p] \in K /\ Cardinality(A[at[p]]) = Cardinality(A[k])
    BY <1>4, <2>1
  <2>3. /\ at[p] \in A[k] => Cardinality(A[at[p]]) < Cardinality(A[k])
        /\ k \in A[at[p]] => Cardinality(A[k]) < Cardinality(A[at[p]])
    BY <1>2, <2>2
  <2>4. Cardinality(A[k]) \in 0..(N - 1)
    BY <1>2
  <2> QED
    BY <1>1, <1>6, <2>1, <2>2, <2>3, <2>4
<1> QED
  BY <1>1, <1>5, <1>7, <1>8, <1>9 DEF N

\* Sorting a list lists every position, highest score first.
LEMMA SortedLists ==
    ASSUME NEW S, NEW s \in Seq(S), \A k \in DOMAIN s : s[k].score \in Int
    PROVE  \E at \in [DOMAIN s -> DOMAIN s] :
                /\ Sorted(s) = [p \in DOMAIN s |-> s[at[p]]]
                /\ \A p, q \in DOMAIN s : p < q => s[at[p]].score >= s[at[q]].score
                /\ \A k \in DOMAIN s : \E p \in DOMAIN s : at[p] = k
<1> DEFINE D == DOMAIN s
           N == Cardinality(D)
           ahead(k) == {j \in D : \/ s[j].score > s[k].score
                                  \/ s[j].score = s[k].score /\ j < k}
           A  == [k \in D |-> ahead(k)]
           at == [p \in D |-> CHOOSE k \in D : Cardinality(ahead(k)) = p - 1]
<1>1. D = 1..N /\ N \in Nat /\ IsFiniteSet(D)
  <2>1. D = 1..Len(s) /\ Len(s) \in Nat
    BY LenProperties
  <2>2. /\ IsFiniteSet(1..Len(s))
        /\ Cardinality(1..Len(s)) = IF 1 > Len(s) THEN 0 ELSE Len(s) - 1 + 1
    <3> HIDE DEF D, N
    <3> QED
      BY <2>1, FS_Interval
  <2>3. N = Len(s)
    BY <2>1, <2>2
  <2> QED
    BY <2>1, <2>2, <2>3
<1>2. \A j, k \in D : j \in A[k] <=> \/ s[j].score > s[k].score
                                     \/ s[j].score = s[k].score /\ j < k
  OBVIOUS
<1>3. /\ \A k \in D : Cardinality(A[k]) \in 0..(N - 1)
      /\ \A j, k \in D : j \in A[k] => Cardinality(A[j]) < Cardinality(A[k])
      /\ \A n \in 0..(N - 1) : \E k \in D : Cardinality(A[k]) = n
  <2>1. A \in [D -> SUBSET D]
    OBVIOUS
  <2> HIDE DEF A
  <2>2. D \subseteq Int /\ \A k \in D : s[k].score \in Int
    BY <1>1
  <2> HIDE DEF D
  <2>3. \A j, k \in D : j \in A[k] => A[j] \subseteq A[k]
    <3> SUFFICES ASSUME NEW j \in D, NEW k \in D, j \in A[k], NEW i \in A[j]
                 PROVE  i \in A[k]
      OBVIOUS
    <3>1. i \in D
      BY <2>1
    <3> QED
      BY <1>2, <2>2, <3>1
  <2>4. /\ \A k \in D : k \notin A[k]
        /\ \A j, k \in D : j # k => j \in A[k] \/ k \in A[j]
    BY <1>2, <2>2
  <2> QED
    BY <1>1, <2>1, <2>3, <2>4, Ranking
<1>4. \A k \in D : A[k] = ahead(k)
  OBVIOUS
<1>5. \A p \in D : at[p] \in D /\ Cardinality(A[at[p]]) = p - 1
  <2> SUFFICES ASSUME NEW p \in D
               PROVE  at[p] \in D /\ Cardinality(A[at[p]]) = p - 1
    OBVIOUS
  <2>1. p - 1 \in 0..(N - 1)
    <3> HIDE DEF N, D
    <3> QED
      BY <1>1
  <2> HIDE DEF N, D
  <2>2. \E k \in D : Cardinality(ahead(k)) = p - 1
    BY <1>3, <1>4, <2>1
  <2> HIDE DEF A, ahead
  <2> QED
    BY <1>4, <2>2
<1>6. Sorted(s) = [p \in D |-> s[at[p]]]
  BY DEF Sorted
<1> HIDE DEF N, D, A, ahead, at
<1>7. at \in [D -> D]
  BY <1>5 DEF at
<1>8. \A j, k \in D : s[j].score < s[k].score => k \in A[j]
  BY <1>2 DEF D
<1>9. ASSUME NEW p \in D, NEW q \in D, p < q
      PROVE  s[at[p]].score >= s[at[q]].score
  <2>1. /\ at[p] \in D /\ at[q] \in D
        /\ Cardinality(A[at[p]]) = p - 1 /\ Cardinality(A[at[q]]) = q - 1
    BY <1>5
  <2>2. p \in Int /\ q \in Int
    BY <1>1
  <2>3. ~(Cardinality(A[at[q]]) < Cardinality(A[at[p]]))
    BY <2>1, <2>2, <1>9
  <2>4. at[q] \notin A[at[p]]
    BY <2>1, <2>3, <1>3
  <2>5. s[at[p]].score \in Int /\ s[at[q]].score \in Int
    BY <2>1 DEF D
  <2> QED
    BY <2>1, <2>4, <2>5, <1>8
<1>10. ASSUME NEW k \in D
       PROVE  \E p \in D : at[p] = k
  <2> DEFINE p == Cardinality(A[k]) + 1
  <2>1. p \in D /\ Cardinality(A[k]) = p - 1
    BY <1>1, <1>3
  <2>2. at[p] \in D /\ Cardinality(A[at[p]]) = Cardinality(A[k])
    BY <1>5, <2>1
  <2>3. Cardinality(A[k]) \in 0..(N - 1)
    BY <1>3
  <2>4. at[p] \notin A[k] /\ k \notin A[at[p]]
    BY <1>3, <2>2, <2>3
  <2>5. s[at[p]].score \in Int /\ s[k].score \in Int /\ at[p] \in Int /\ k \in Int
    BY <1>1, <2>2 DEF D
  <2> HIDE DEF p
  <2>6. at[p] \in D /\ k \in D
    BY <2>2
  <2>7. at[p] = k
    BY <1>2, <2>4, <2>5, <2>6
  <2> QED
    BY <2>1, <2>7
<1> QED
  BY <1>6, <1>7, <1>9, <1>10 DEF D

Entry == [item : Item, cats : SUBSET Category, retrieval : Int, score : Int]

\* The score of an entry once the affinity overlay is mixed in.
Lifted(feats, e) == IF e.cats = {} THEN e.score ELSE e.score + Mean(feats.affinity, e.cats)

\* Highest score first.
Descending(s) == \A j, k \in DOMAIN s : j < k => s[j].score >= s[k].score

\* t lists the entries of s, lifted, highest score first.
IsOverlay(t, s, feats) ==
    /\ t \in Seq(Entry) /\ Descending(t)
    /\ \A p \in DOMAIN t : \E k \in DOMAIN s :
        t[p].item = s[k].item /\ t[p].cats = s[k].cats /\ t[p].score = Lifted(feats, s[k])
    /\ \A k \in DOMAIN s : \E p \in DOMAIN t :
        t[p].item = s[k].item /\ t[p].cats = s[k].cats /\ t[p].score = Lifted(feats, s[k])

\* u lists once each title of s that is not excluded, as it first occurs.
IsFiltered(u, s, excluded) ==
    /\ u \in Seq(Entry)
    /\ Descending(s) => Descending(u)
    /\ \A p \in DOMAIN u : u[p].item \notin excluded /\ \E k \in DOMAIN s : u[p] = s[k]
    /\ \A p, q \in DOMAIN u : p # q => u[p].item # u[q].item
    /\ \A k \in DOMAIN s : s[k].item \notin excluded =>
        \E j \in DOMAIN s, p \in DOMAIN u : j <= k /\ s[j].item = s[k].item /\ u[p] = s[j]

\* u lists the entries of s that are of the genre.
IsOfGenre(u, s, genre) ==
    /\ u \in Seq(Entry)
    /\ Descending(s) => Descending(u)
    /\ \A p \in DOMAIN u : \E k \in DOMAIN s : u[p] = s[k]
    /\ (\A j, k \in DOMAIN s : j # k => s[j].item # s[k].item) =>
        \A p, q \in DOMAIN u : p # q => u[p].item # u[q].item
    /\ \A k \in DOMAIN s : genre = NoGenre \/ genre \in s[k].cats =>
        \E p \in DOMAIN u : u[p] = s[k]

\* The mean of some genres' affinities is an integer.
LEMMA MeanIsInt ==
    ASSUME NEW aff, NEW cats \in SUBSET Category, cats # {}
    PROVE  Mean(aff, cats) \in Int
<1>1. IsFiniteSet(cats)
  BY FS_Subset, ServingAssumption
<1>2. Cardinality(cats) \in Nat /\ Cardinality(cats) # 0
  BY <1>1, FS_CardinalityType, FS_EmptySet
<1>3. IsFiniteSet(cats \X (1..2))
  <2>1. \A a, b \in Int : IsFiniteSet(a..b)
    BY FS_Interval
  <2>2. IsFiniteSet(1..2)
    <3>1. 1 \in Int /\ 2 \in Int
      OBVIOUS
    <3> QED
      BY <2>1, <3>1, Zenon
  <2>3. \A T : IsFiniteSet(T) => IsFiniteSet(cats \X T)
    BY <1>1, FS_Product, Zenon
  <2> QED
    BY <2>2, <2>3, Zenon
<1>4. ASSUME NEW U \in SUBSET (cats \X (1..2))
      PROVE  Cardinality(U) \in Int
  BY <1>3, FS_Subset, FS_CardinalityType
<1>5. Total(aff, cats) \in Int
  <2> DEFINE up   == {u \in cats \X (1..2) : u[2] <= aff[u[1]]}
             down == {u \in cats \X (1..2) : u[2] <= -aff[u[1]]}
  <2>1. up \in SUBSET (cats \X (1..2)) /\ down \in SUBSET (cats \X (1..2))
    OBVIOUS
  <2>2. Cardinality(up) \in Int /\ Cardinality(down) \in Int
    BY <2>1, <1>4
  <2>3. Total(aff, cats) = Cardinality(up) - Cardinality(down)
    BY DEF Total
  <2> HIDE DEF up, down
  <2> QED
    BY <2>2, <2>3
<1>6. OverlayWeight * Total(aff, cats) \in Int
  BY <1>5, ServingAssumption
<1> QED
  BY <1>2, <1>6 DEF Mean

\* The overlay lists every entry, with its score lifted, best first.
LEMMA OverlayLists ==
    ASSUME NEW s \in Seq(Entry), NEW feats
    PROVE  IsOverlay(Overlaid(s, feats), s, feats)
<1> DEFINE lift(e) == IF e.cats = {} THEN e
                      ELSE [e EXCEPT !.score = @ + Mean(feats.affinity, e.cats)]
           t == [k \in DOMAIN s |-> lift(s[k])]
           D == DOMAIN s
<1>1. DOMAIN s = 1..Len(s) /\ Len(s) \in Nat /\ \A k \in DOMAIN s : s[k] \in Entry
  BY LenProperties, ElementOfSeq
<1>2. ASSUME NEW e \in Entry
      PROVE  /\ lift(e) \in Entry /\ lift(e).item = e.item /\ lift(e).cats = e.cats
             /\ lift(e).score = Lifted(feats, e)
  <2>1. CASE e.cats = {}
    BY <2>1 DEF Entry, Lifted
  <2>2. CASE e.cats # {}
    <3>1. Mean(feats.affinity, e.cats) \in Int
      BY <2>2, MeanIsInt DEF Entry
    <3>2. \A m \in Int : LET f == [e EXCEPT !.score = @ + m] IN
            /\ f \in Entry /\ f.item = e.item /\ f.cats = e.cats
            /\ f.score = e.score + m
      BY DEF Entry
    <3>3. lift(e) = [e EXCEPT !.score = @ + Mean(feats.affinity, e.cats)]
      BY <2>2
    <3> HIDE DEF lift
    <3> QED
      BY <2>2, <3>1, <3>2, <3>3 DEF Lifted
  <2> QED
    BY <2>1, <2>2
<1> HIDE DEF lift
<1>3. /\ t \in Seq(Entry) /\ DOMAIN t = D /\ \A k \in D : t[k] = lift(s[k])
  <2>1. t \in [1..Len(s) -> Entry]
    BY <1>1, <1>2
  <2> QED
    BY <1>1, <2>1, SeqDef
<1>4. Overlaid(s, feats) = Sorted(t)
  BY DEF Overlaid, lift
<1> HIDE DEF t, D
<1>5. \A k \in DOMAIN t : t[k].score \in Int
  BY <1>1, <1>2, <1>3 DEF Entry, D
<1>6. PICK at \in [D -> D] :
        /\ Sorted(t) = [p \in D |-> t[at[p]]]
        /\ \A p, q \in D : p < q => t[at[p]].score >= t[at[q]].score
        /\ \A k \in D : \E p \in D : at[p] = k
  <2>1. \E at \in [DOMAIN t -> DOMAIN t] :
            /\ Sorted(t) = [p \in DOMAIN t |-> t[at[p]]]
            /\ \A p, q \in DOMAIN t : p < q => t[at[p]].score >= t[at[q]].score
            /\ \A k \in DOMAIN t : \E p \in DOMAIN t : at[p] = k
    <3>1. t \in Seq(Entry)
      BY <1>3
    <3> QED
      BY <3>1, <1>5, SortedLists
  <2>2. DOMAIN t = D
    BY <1>3
  <2> QED
    BY <2>1, <2>2
<1> DEFINE u == Sorted(t)
<1>7. DOMAIN u = D /\ \A p \in D : at[p] \in D /\ u[p] = lift(s[at[p]]) /\ u[p] = t[at[p]]
  BY <1>3, <1>6
<1> HIDE DEF u
<1>8. u \in Seq(Entry)
  <2>1. u \in [1..Len(s) -> Entry]
    <3>1. \A p \in D : u[p] \in Entry
      BY <1>1, <1>2, <1>7 DEF D
    <3>2. u = [p \in D |-> u[p]]
      BY <1>6 DEF u
    <3> QED
      BY <1>1, <3>1, <3>2 DEF D
  <2> QED
    BY <1>1, <2>1, SeqDef
<1>9. Descending(u)
  BY <1>6, <1>7 DEF Descending
<1>10. \A p \in D : /\ u[p].item = s[at[p]].item /\ u[p].cats = s[at[p]].cats
                    /\ u[p].score = Lifted(feats, s[at[p]])
  BY <1>1, <1>2, <1>7 DEF D
<1>11. Overlaid(s, feats) = u
  BY <1>4 DEF u
<1>12. \A p \in D : \E k \in D : /\ u[p].item = s[k].item /\ u[p].cats = s[k].cats
                                 /\ u[p].score = Lifted(feats, s[k])
  BY <1>7, <1>10
<1>13. \A k \in D : \E p \in D : /\ u[p].item = s[k].item /\ u[p].cats = s[k].cats
                                 /\ u[p].score = Lifted(feats, s[k])
  BY <1>6, <1>10
<1> QED
  BY <1>7, <1>8, <1>9, <1>11, <1>12, <1>13 DEF D, IsOverlay

\* A subsequence of entries: in order, and of the chosen positions.
LEMMA SubsequenceKeeps ==
    ASSUME NEW s \in Seq(Entry), NEW K \in SUBSET (DOMAIN s)
    PROVE  /\ Subsequence(s, K) \in Seq(Entry)
           /\ Descending(s) => Descending(Subsequence(s, K))
           /\ \A k \in K : \E p \in DOMAIN Subsequence(s, K) : Subsequence(s, K)[p] = s[k]
           /\ \A p \in DOMAIN Subsequence(s, K) : \E k \in K : Subsequence(s, K)[p] = s[k]
           /\ \A p, q \in DOMAIN Subsequence(s, K) : p < q =>
                \E j, k \in K : /\ j < k
                                /\ Subsequence(s, K)[p] = s[j]
                                /\ Subsequence(s, K)[q] = s[k]
<1> DEFINE N == Cardinality(K)
           u == Subsequence(s, K)
<1>1. DOMAIN s = 1..Len(s) /\ Len(s) \in Nat /\ \A k \in DOMAIN s : s[k] \in Entry
  BY LenProperties, ElementOfSeq
<1>2. PICK at \in [1..N -> K] :
        /\ u = [p \in 1..N |-> s[at[p]]]
        /\ \A p, q \in 1..N : p < q => at[p] < at[q]
        /\ \A k \in K : \E p \in 1..N : at[p] = k
  BY SubsequenceLists
<1>3. N \in Nat
  BY SubsequenceLists
<1> HIDE DEF u, N
<1>4. DOMAIN u = 1..N /\ \A p \in 1..N : at[p] \in K /\ u[p] = s[at[p]] /\ u[p] \in Entry
  BY <1>1, <1>2
<1>5. u \in Seq(Entry)
  <2>1. u \in [1..N -> Entry]
    BY <1>2, <1>4
  <2> QED
    BY <1>3, <2>1, SeqDef
<1>6. Descending(s) => Descending(u)
  BY <1>2, <1>4 DEF Descending
<1>7. \A k \in K : \E p \in DOMAIN u : u[p] = s[k]
  BY <1>2, <1>4
<1>8. \A p \in DOMAIN u : \E k \in K : u[p] = s[k]
  BY <1>4
<1>9. \A p, q \in DOMAIN u : p < q => \E j, k \in K : j < k /\ u[p] = s[j] /\ u[q] = s[k]
  BY <1>2, <1>4
<1> QED
  BY <1>5, <1>6, <1>7, <1>8, <1>9 DEF u

\* Each title has a first occurrence.
LEMMA FirstOccurrence ==
    ASSUME NEW S, NEW s \in Seq(S), NEW k \in DOMAIN s
    PROVE  \E j \in DOMAIN s : /\ j <= k /\ s[j].item = s[k].item
                               /\ \A i \in 1..(j - 1) : s[i].item # s[k].item
<1> DEFINE K == {j \in DOMAIN s : s[j].item = s[k].item}
           A == [j \in K |-> {i \in K : i < j}]
<1>1. DOMAIN s = 1..Len(s) /\ Len(s) \in Nat /\ K \in SUBSET (1..Len(s)) /\ k \in K
  BY LenProperties
<1>2. IsFiniteSet(K) /\ Cardinality(K) \in Nat /\ Cardinality(K) # 0
  <2>1. IsFiniteSet(1..Len(s))
    BY <1>1, FS_Interval
  <2> HIDE DEF K
  <2>2. IsFiniteSet(K)
    BY <1>1, <2>1, FS_Subset
  <2> QED
    BY <1>1, <2>2, FS_CardinalityType, FS_EmptySet
<1>3. \E j \in K : Cardinality(A[j]) = 0
  <2>1. A \in [K -> SUBSET K] /\ \A i, j \in K : i \in A[j] <=> i < j
    OBVIOUS
  <2>2. K \subseteq Int
    BY <1>1
  <2> HIDE DEF A, K
  <2>3. \A i, j \in K : i \in A[j] => A[i] \subseteq A[j]
    <3> SUFFICES ASSUME NEW i \in K, NEW j \in K, i \in A[j], NEW h \in A[i]
                 PROVE  h \in A[j]
      OBVIOUS
    <3> QED
      BY <2>1, <2>2
  <2>4. /\ \A i \in K : i \notin A[i]
        /\ \A i, j \in K : i # j => i \in A[j] \/ j \in A[i]
    BY <2>1, <2>2
  <2>5. \A n \in 0..(Cardinality(K) - 1) : \E i \in K : Cardinality(A[i]) = n
    BY <1>2, <2>1, <2>3, <2>4, Ranking
  <2> QED
    BY <1>2, <2>5
<1>4. PICK j \in K : Cardinality(A[j]) = 0
  BY <1>3
<1>5. {i \in K : i < j} = {}
  <2>1. IsFiniteSet({i \in K : i < j})
    BY <1>2, FS_Subset
  <2> QED
    BY <1>4, <2>1, FS_EmptySet
<1>6. j <= k
  BY <1>1, <1>5
<1>7. ASSUME NEW i \in 1..(j - 1)
      PROVE  s[i].item # s[k].item
  <2>1. i \in DOMAIN s /\ i < j
    BY <1>1
  <2> QED
    BY <1>5, <2>1
<1> QED
  BY <1>6, <1>7

\* Filter keeps the first occurrence of each title that is not excluded.
LEMMA FilterLists ==
    ASSUME NEW s \in Seq(Entry), NEW excluded
    PROVE  IsFiltered(Filter(s, excluded), s, excluded)
<1> DEFINE K == {k \in DOMAIN s : /\ s[k].item \notin excluded
                                  /\ \A j \in 1..(k - 1) : s[j].item # s[k].item}
           u == Filter(s, excluded)
<1>1. K \in SUBSET (DOMAIN s) /\ u = Subsequence(s, K)
  BY DEF Filter
<1>2. \A k \in K : s[k].item \notin excluded
  OBVIOUS
<1>3. DOMAIN s = 1..Len(s) /\ Len(s) \in Nat
  BY LenProperties
<1>4. \A j, k \in K : j < k => s[j].item # s[k].item
  <2> SUFFICES ASSUME NEW j \in K, NEW k \in K, j < k
               PROVE  s[j].item # s[k].item
    OBVIOUS
  <2>1. j \in 1..(k - 1)
    BY <1>3
  <2> QED
    BY <2>1
<1>5. \A k \in DOMAIN s : s[k].item \notin excluded =>
        \E j \in K : j <= k /\ s[j].item = s[k].item
  BY FirstOccurrence
<1> HIDE DEF K, u
<1>6. /\ u \in Seq(Entry)
      /\ Descending(s) => Descending(u)
      /\ \A k \in K : \E p \in DOMAIN u : u[p] = s[k]
      /\ \A p \in DOMAIN u : \E k \in K : u[p] = s[k]
      /\ \A p, q \in DOMAIN u : p < q =>
                \E j, k \in K : j < k /\ u[p] = s[j] /\ u[q] = s[k]
  BY <1>1, SubsequenceKeeps
<1>7. \A p \in DOMAIN u : u[p].item \notin excluded /\ \E k \in DOMAIN s : u[p] = s[k]
  BY <1>1, <1>2, <1>6
<1>8. ASSUME NEW p \in DOMAIN u, NEW q \in DOMAIN u, p # q
      PROVE  u[p].item # u[q].item
  <2>1. p \in Int /\ q \in Int
    BY <1>6, LenProperties
  <2>2. CASE p < q
    <3>1. PICK j \in K, k \in K : j < k /\ u[p] = s[j] /\ u[q] = s[k]
      BY <2>2, <1>6
    <3> QED
      BY <3>1, <1>4
  <2>3. CASE q < p
    <3>1. PICK j \in K, k \in K : j < k /\ u[q] = s[j] /\ u[p] = s[k]
      BY <2>3, <1>6
    <3> QED
      BY <3>1, <1>4
  <2> QED
    BY <1>8, <2>1, <2>2, <2>3
<1>9. ASSUME NEW k \in DOMAIN s, s[k].item \notin excluded
      PROVE  \E j \in DOMAIN s, p \in DOMAIN u :
                j <= k /\ s[j].item = s[k].item /\ u[p] = s[j]
  BY <1>1, <1>5, <1>6, <1>9
<1> QED
  BY <1>6, <1>7, <1>8, <1>9 DEF u, IsFiltered

\* FilterByGenre keeps the entries of the genre, or all of them.
LEMMA GenreLists ==
    ASSUME NEW s \in Seq(Entry), NEW genre
    PROVE  IsOfGenre(FilterByGenre(s, genre), s, genre)
<1>1. CASE genre = NoGenre
  <2>1. FilterByGenre(s, genre) = s
    BY <1>1 DEF FilterByGenre
  <2> QED
    BY <2>1 DEF IsOfGenre
<1>2. CASE genre # NoGenre
  <2> DEFINE K == {k \in DOMAIN s : genre \in s[k].cats}
             u == FilterByGenre(s, genre)
  <2>1. K \in SUBSET (DOMAIN s) /\ u = Subsequence(s, K)
    BY <1>2 DEF FilterByGenre
  <2>2. \A k \in DOMAIN s : genre \in s[k].cats => k \in K
    OBVIOUS
  <2> HIDE DEF K, u
  <2>3. /\ u \in Seq(Entry)
        /\ Descending(s) => Descending(u)
        /\ \A k \in K : \E p \in DOMAIN u : u[p] = s[k]
        /\ \A p \in DOMAIN u : \E k \in K : u[p] = s[k]
        /\ \A p, q \in DOMAIN u : p < q =>
                \E j, k \in K : j < k /\ u[p] = s[j] /\ u[q] = s[k]
    BY <2>1, SubsequenceKeeps
  <2>4. ASSUME \A j, k \in DOMAIN s : j # k => s[j].item # s[k].item,
               NEW p \in DOMAIN u, NEW q \in DOMAIN u, p # q
        PROVE  u[p].item # u[q].item
    <3>1. K \subseteq Int
      BY <2>1, LenProperties
    <3>2. p \in Int /\ q \in Int
      BY <2>3, LenProperties
    <3>3. CASE p < q
      <4>1. PICK j \in K, k \in K : j < k /\ u[p] = s[j] /\ u[q] = s[k]
        BY <3>3, <2>3
      <4> QED
        BY <4>1, <2>1, <2>4, <3>1
    <3>4. CASE q < p
      <4>1. PICK j \in K, k \in K : j < k /\ u[q] = s[j] /\ u[p] = s[k]
        BY <3>4, <2>3
      <4> QED
        BY <4>1, <2>1, <2>4, <3>1
    <3> QED
      BY <2>4, <3>2, <3>3, <3>4
  <2>5. \A p \in DOMAIN u : \E k \in DOMAIN s : u[p] = s[k]
    BY <2>1, <2>3
  <2>6. \A k \in DOMAIN s : genre = NoGenre \/ genre \in s[k].cats =>
            \E p \in DOMAIN u : u[p] = s[k]
    BY <1>2, <2>2, <2>3
  <2> QED
    BY <2>3, <2>4, <2>5, <2>6 DEF u, IsOfGenre
<1> QED
  BY <1>1, <1>2

\* FirstOf cuts a list after n entries.
LEMMA FirstOfCuts ==
    ASSUME NEW s \in Seq(Entry), NEW n \in Nat
    PROVE  /\ FirstOf(s, n) \in Seq(Entry)
           /\ Len(FirstOf(s, n)) <= n
           /\ Len(FirstOf(s, n)) <= Len(s)
           /\ Len(FirstOf(s, n)) = n \/ FirstOf(s, n) = s
           /\ \A p \in DOMAIN FirstOf(s, n) : FirstOf(s, n)[p] = s[p]
<1>1. Len(s) \in Nat /\ \A i \in 1..Len(s) : s[i] \in Entry
  BY LenProperties, ElementOfSeq
<1> DEFINE m == Min({n, Len(s)})
<1>2. m = IF n <= Len(s) THEN n ELSE Len(s)
  <2>1. \E x \in {n, Len(s)} : \A y \in {n, Len(s)} : x <= y
    BY <1>1
  <2> QED
    BY <1>1, <2>1 DEF Min
<1>3. FirstOf(s, n) = SubSeq(s, 1, m)
  BY DEF FirstOf
<1> HIDE DEF m
<1>4. m \in Nat /\ m <= n /\ m <= Len(s) /\ (m = n \/ m = Len(s))
  BY <1>1, <1>2
<1>5. \A i \in 1..m : s[i] \in Entry
  BY <1>1, <1>4
<1>6. /\ SubSeq(s, 1, m) \in Seq(Entry)
      /\ Len(SubSeq(s, 1, m)) = m
      /\ \A i \in 1..m : SubSeq(s, 1, m)[i] = s[i]
  BY <1>4, <1>5, SubSeqProperties
<1>7. m = Len(s) => SubSeq(s, 1, m) = s
  BY SubSeqFull
<1>8. DOMAIN SubSeq(s, 1, m) = 1..m
  BY <1>6, LenProperties
<1> QED
  BY <1>3, <1>4, <1>6, <1>7, <1>8

-----------------------------------------------------------------------------
(* The flag of a response.                                                   *)

Fields == {"stage", "variant", "genre", "feats", "cands", "ranked", "useRanker",
           "reason", "feed", "failed", "before"}

\* The flag of one request at any stage.
FlagOf(q) ==
    /\ q.failed # {} => q.reason # "none"
    /\ q.reason = "redis_unavailable" => "features" \in q.failed
    /\ q.reason = "ranker_unavailable" =>
            /\ "rank" \in q.failed \/ ~Decodes(q.feats)
            /\ q.stage \in {"respond", "done"}
    /\ q.stage \in {"new", "features"} => q.failed = {} /\ q.reason = "none"

\* req is a function to records with these fields, and every request satisfies
\* FlagOf, long before it is done.
FlagInv ==
    /\ DOMAIN req = Request
    /\ \A r \in Request : DOMAIN req[r] = Fields
    /\ \A r \in Request : FlagOf(req[r])

\* No request has failed before it began.
LEMMA FlagInvInit == Init => FlagInv
BY DEF Init, FlagInv, Fields, Blank, FlagOf

\* A step of one request that keeps its record well-formed keeps FlagInv.
LEMMA OneRequest ==
    ASSUME FlagInv, NEW r \in Request, NEW q,
           req' = [req EXCEPT ![r] = q],
           DOMAIN q = Fields, FlagOf(q)
    PROVE  FlagInv'
BY DEF FlagInv

LEMMA ArriveKeeps ==
    ASSUME FlagInv, NEW r \in Request, NEW v \in Variant,
           NEW g \in Category \cup {NoGenre}, Arrive(r, v, g)
    PROVE  FlagInv'
<1> DEFINE q == [req[r] EXCEPT !.stage = "features", !.variant = v, !.genre = g,
                               !.before = Judged(stored)]
<1>1. req' = [req EXCEPT ![r] = q] /\ req[r].stage = "new"
  BY DEF Arrive
<1>2. DOMAIN q = Fields
  BY DEF FlagInv
<1>3. /\ q.failed = req[r].failed /\ q.reason = req[r].reason
      /\ q.feats = req[r].feats /\ q.stage = "features"
  BY DEF FlagInv, Fields
<1>4. FlagOf(q)
  BY <1>1, <1>3 DEF FlagInv, FlagOf
<1> QED
  BY <1>1, <1>2, <1>4, OneRequest

LEMMA LookupFeaturesKeeps ==
    ASSUME FlagInv, NEW r \in Request, LookupFeatures(r)
    PROVE  FlagInv'
<1> DEFINE found == WithFeatures(req[r], stored)
           lost  == WithoutFeatures(req[r])
<1>1. req[r].stage = "features"
  BY DEF LookupFeatures
<1>2. req' = [req EXCEPT ![r] = found] \/ req' = [req EXCEPT ![r] = lost]
  BY DEF LookupFeatures
<1>3. DOMAIN found = Fields /\ DOMAIN lost = Fields
  BY DEF FlagInv, WithFeatures, WithoutFeatures, Fallback
<1>4. /\ found.failed = req[r].failed /\ found.reason = req[r].reason
      /\ found.stage = "candidates"
  BY DEF FlagInv, Fields, WithFeatures
<1>5. /\ lost.failed = req[r].failed \cup {"features"}
      /\ lost.reason = "redis_unavailable"
      /\ lost.stage = "candidates"
  BY DEF FlagInv, Fields, WithoutFeatures, Fallback
<1>6. FlagOf(found) /\ FlagOf(lost)
  <2> HIDE DEF found, lost
  <2> QED
    BY <1>1, <1>4, <1>5 DEF FlagInv, FlagOf
<1> QED
  BY <1>2, <1>3, <1>6, OneRequest

LEMMA LookupCandidatesKeeps ==
    ASSUME FlagInv, NEW r \in Request, LookupCandidates(r)
    PROVE  FlagInv'
<1> DEFINE cached == GoCached(req[r])
           lost   == WithoutRetrieval(req[r])
           with(cands) == [req[r] EXCEPT !.stage = "rank", !.cands = cands]
<1>1. req[r].stage = "candidates"
  BY DEF LookupCandidates
<1>2. \/ req' = [req EXCEPT ![r] = cached]
      \/ req' = [req EXCEPT ![r] = lost]
      \/ \E cands : req' = [req EXCEPT ![r] = with(cands)]
  <2>1. \/ \E list \in Retrieved :
              req' = [req EXCEPT ![r] = WithCandidates(req[r], Described(list))]
        \/ req' = [req EXCEPT ![r] = lost]
    BY DEF LookupCandidates
  <2>2. \A cands : WithCandidates(req[r], cands) \in {cached, with(cands)}
    BY DEF WithCandidates
  <2> HIDE DEF cached, lost, with
  <2> QED
    BY <2>1, <2>2
<1>3. /\ DOMAIN cached = Fields /\ DOMAIN lost = Fields
      /\ \A cands : DOMAIN with(cands) = Fields
  BY DEF FlagInv, Fallback, GoCached, WithoutRetrieval
<1>4. /\ cached.reason = "candidate_service_unavailable"
      /\ cached.failed = req[r].failed /\ cached.stage = "cached"
      /\ lost.reason = "candidate_service_unavailable" /\ lost.stage = "cached"
  BY DEF FlagInv, Fields, Fallback, GoCached, WithoutRetrieval
<1>5. \A cands :
        /\ with(cands).reason = req[r].reason
        /\ with(cands).failed = req[r].failed
        /\ with(cands).stage = "rank"
  BY DEF FlagInv, Fields
<1>6. FlagOf(cached) /\ FlagOf(lost) /\ \A cands : FlagOf(with(cands))
  <2> HIDE DEF cached, lost, with
  <2> QED
    BY <1>1, <1>4, <1>5 DEF FlagInv, FlagOf
<1> HIDE DEF cached, lost, with
<1> QED
  BY <1>2, <1>3, <1>6, OneRequest

LEMMA LookupCachedKeeps ==
    ASSUME FlagInv, NEW r \in Request, LookupCached(r)
    PROVE  FlagInv'
<1> DEFINE with(cands) == [req[r] EXCEPT !.stage = "rank", !.cands = cands]
<1>1. req[r].stage = "cached" /\ \E cands : req' = [req EXCEPT ![r] = with(cands)]
  BY DEF LookupCached
<1>2. \A cands :
        /\ DOMAIN with(cands) = Fields
        /\ with(cands).reason = req[r].reason
        /\ with(cands).failed = req[r].failed
        /\ with(cands).stage = "rank"
  BY DEF FlagInv, Fields
<1>3. \A cands : FlagOf(with(cands))
  <2> HIDE DEF with
  <2> QED
    BY <1>1, <1>2 DEF FlagInv, FlagOf
<1> HIDE DEF with
<1> QED
  BY <1>1, <1>2, <1>3, OneRequest

LEMMA RankKeeps ==
    ASSUME FlagInv, NEW r \in Request, Rank(r)
    PROVE  FlagInv'
<1> DEFINE ok(list, used) ==
                [req[r] EXCEPT !.stage = "respond", !.ranked = list, !.useRanker = used]
           plain(list) == [req[r] EXCEPT !.stage = "respond", !.ranked = list]
           refused(list) == [Fallback(req[r], "ranker_unavailable") EXCEPT
                                !.stage = "respond", !.ranked = list]
           lost(list) == [refused(list) EXCEPT !.failed = @ \cup {"rank"}]
<1>1. /\ req[r].stage = "rank"
      /\ \E list :
            \/ req' = [req EXCEPT ![r] = ok(list, TRUE)]
            \/ req' = [req EXCEPT ![r] = plain(list)]
            \/ /\ ~Decodes(req[r].feats)
               /\ req' = [req EXCEPT ![r] = refused(list)]
            \/ req' = [req EXCEPT ![r] = lost(list)]
  BY DEF Rank
<1>2. \A list :
        /\ DOMAIN ok(list, TRUE) = Fields /\ DOMAIN plain(list) = Fields
        /\ DOMAIN refused(list) = Fields /\ DOMAIN lost(list) = Fields
  BY DEF FlagInv, Fallback
<1>3. \A list :
        /\ ok(list, TRUE).failed = req[r].failed /\ ok(list, TRUE).reason = req[r].reason
        /\ plain(list).failed = req[r].failed /\ plain(list).reason = req[r].reason
        /\ ok(list, TRUE).stage = "respond" /\ plain(list).stage = "respond"
        /\ ok(list, TRUE).feats = req[r].feats /\ plain(list).feats = req[r].feats
  BY DEF FlagInv, Fields
<1>4. \A list :
        /\ refused(list).failed = req[r].failed /\ refused(list).feats = req[r].feats
        /\ refused(list).reason = "ranker_unavailable"
        /\ refused(list).stage = "respond"
        /\ lost(list).failed = req[r].failed \cup {"rank"}
        /\ lost(list).reason = "ranker_unavailable"
        /\ lost(list).stage = "respond"
  BY DEF FlagInv, Fields, Fallback
<1> HIDE DEF ok, plain, refused, lost
<1>5. \A list : FlagOf(ok(list, TRUE)) /\ FlagOf(plain(list)) /\ FlagOf(lost(list))
  BY <1>1, <1>3, <1>4 DEF FlagInv, FlagOf
<1>6. ~Decodes(req[r].feats) => \A list : FlagOf(refused(list))
  BY <1>1, <1>4 DEF FlagInv, FlagOf
<1> QED
  BY <1>1, <1>2, <1>5, <1>6, OneRequest

LEMMA RespondKeeps ==
    ASSUME FlagInv, NEW r \in Request, Respond(r)
    PROVE  FlagInv'
<1> DEFINE q == [req[r] EXCEPT !.stage = "done", !.feed = Feed(req[r])]
<1>1. req[r].stage = "respond" /\ req' = [req EXCEPT ![r] = q]
  BY DEF Respond
<1>2. DOMAIN q = Fields
  BY DEF FlagInv
<1>3. /\ q.failed = req[r].failed /\ q.reason = req[r].reason
      /\ q.feats = req[r].feats /\ q.stage = "done"
  BY DEF FlagInv, Fields
<1>4. FlagOf(q)
  <2> HIDE DEF q
  <2> QED
    BY <1>1, <1>3 DEF FlagInv, FlagOf
<1> QED
  BY <1>1, <1>2, <1>4, OneRequest

LEMMA FlagInvStep == FlagInv /\ [Next]_vars => FlagInv'
<1> SUFFICES ASSUME FlagInv, [Next]_vars
             PROVE  FlagInv'
  OBVIOUS
<1>1. CASE UNCHANGED vars \/ \E i \in Item, liked \in BOOLEAN : Judge(i, liked)
  <2>1. req' = req
    BY <1>1 DEF vars, Judge
  <2> QED
    BY <2>1 DEF FlagInv
<1>2. CASE \E r \in Request, v \in Variant, g \in Category \cup {NoGenre} : Arrive(r, v, g)
  BY <1>2, ArriveKeeps
<1>3. CASE \E r \in Request : Advance(r)
  BY <1>3, LookupFeaturesKeeps, LookupCandidatesKeeps, LookupCachedKeeps, RankKeeps,
     RespondKeeps DEF Advance
<1> QED
  BY <1>1, <1>2, <1>3 DEF Next

\* No degraded response goes out unflagged, and no flag without its cause.
THEOREM FlagsAreHonest == Spec => []DegradationIsFlagged
<1>1. FlagInv => DegradationIsFlagged
  BY DEF FlagInv, FlagOf, DegradationIsFlagged, Degraded
<1> QED
  BY FlagInvInit, FlagInvStep, <1>1, PTL DEF Spec

-----------------------------------------------------------------------------
(* The feed.                                                                 *)

Candidate == [item : Item, cats : SUBSET Category, score : Int]

\* A title has the same genres wherever it is listed.
Consistent(s) == \A j, k \in DOMAIN s : s[j].item = s[k].item => s[j].cats = s[k].cats

\* The retrieval scores stand.
Unranked(s) == \A k \in DOMAIN s : s[k].score = s[k].retrieval

\* What was judged before the request is in the features it is served with.
PastOf(q, blob) ==
    /\ q.stage # "new" => q.before \subseteq Judged(blob)
    /\ q.stage \notin {"new", "features"} /\ "features" \notin q.failed
            => q.before \subseteq Judged(q.feats)

\* The lists of a request, and the feed made of the last one.
ListsOf(q) ==
    /\ q.cands \in Seq(Candidate) /\ Consistent(q.cands)
    /\ q.ranked \in Seq(Entry) /\ Consistent(q.ranked)
    /\ q.stage \in {"respond", "done"} /\ (q.variant = "control" \/ Degraded(q))
            => Unranked(q.ranked)
    /\ q.stage = "done" => q.feed = Feed(q)

ServeInv ==
    /\ \A r \in Request : PastOf(req[r], stored)
    /\ \A r \in Request : ListsOf(req[r])

\* Sorting keeps the entries.
LEMMA SortedKeeps ==
    ASSUME NEW s \in Seq(Entry)
    PROVE  /\ Sorted(s) \in Seq(Entry)
           /\ \A p \in DOMAIN Sorted(s) : \E k \in DOMAIN s : Sorted(s)[p] = s[k]
<1>1. DOMAIN s = 1..Len(s) /\ Len(s) \in Nat /\ \A k \in DOMAIN s : s[k] \in Entry
  BY LenProperties, ElementOfSeq
<1>2. \A k \in DOMAIN s : s[k].score \in Int
  BY <1>1 DEF Entry
<1>3. PICK at \in [DOMAIN s -> DOMAIN s] :
        /\ Sorted(s) = [p \in DOMAIN s |-> s[at[p]]]
        /\ \A p, q \in DOMAIN s : p < q => s[at[p]].score >= s[at[q]].score
        /\ \A k \in DOMAIN s : \E p \in DOMAIN s : at[p] = k
  BY <1>2, SortedLists
<1>4. Sorted(s) \in [1..Len(s) -> Entry]
  BY <1>1, <1>3
<1> QED
  BY <1>1, <1>3, <1>4, SeqDef

\* So it keeps a list consistent, and unranked.
LEMMA SortedStays ==
    ASSUME NEW s \in Seq(Entry)
    PROVE  /\ Consistent(s) => Consistent(Sorted(s))
           /\ Unranked(s) => Unranked(Sorted(s))
BY SortedKeeps DEF Consistent, Unranked

\* The list made of the candidates and any scores.
LEMMA ScoredLists ==
    ASSUME NEW cands \in Seq(Candidate), Consistent(cands), NEW scores \in [DOMAIN cands -> Int]
    PROVE  LET s == [k \in DOMAIN cands |->
                        [item |-> cands[k].item, cats |-> cands[k].cats,
                         retrieval |-> cands[k].score, score |-> scores[k]]]
           IN  s \in Seq(Entry) /\ Consistent(s)
<1> DEFINE e(k) == [item |-> cands[k].item, cats |-> cands[k].cats,
                    retrieval |-> cands[k].score, score |-> scores[k]]
           s == [k \in DOMAIN cands |-> e(k)]
<1>1. /\ DOMAIN cands = 1..Len(cands) /\ Len(cands) \in Nat
      /\ \A k \in DOMAIN cands : cands[k] \in Candidate
  BY LenProperties, ElementOfSeq
<1>2. \A k \in DOMAIN cands :
        e(k) \in Entry /\ e(k).item = cands[k].item /\ e(k).cats = cands[k].cats
  BY <1>1 DEF Entry, Candidate
<1> HIDE DEF e
<1>3. s \in [1..Len(cands) -> Entry]
  BY <1>1, <1>2
<1>4. s \in Seq(Entry)
  BY <1>1, <1>3, SeqDef
<1>5. Consistent(s)
  BY <1>2 DEF Consistent
<1> QED
  BY <1>4, <1>5 DEF e

\* Without the ranker the retrieval scores stand.
LEMMA RankedFromLists ==
    ASSUME NEW cands \in Seq(Candidate), Consistent(cands)
    PROVE  /\ RankedFrom(cands) \in Seq(Entry)
           /\ Consistent(RankedFrom(cands))
           /\ Unranked(RankedFrom(cands))
<1> DEFINE scores == [k \in DOMAIN cands |-> cands[k].score]
           s == [k \in DOMAIN cands |->
                    [item |-> cands[k].item, cats |-> cands[k].cats,
                     retrieval |-> cands[k].score, score |-> scores[k]]]
<1>1. \A k \in DOMAIN cands : cands[k] \in Candidate
  BY LenProperties, ElementOfSeq
<1>2. scores \in [DOMAIN cands -> Int]
  BY <1>1 DEF Candidate
<1>3. RankedFrom(cands) = s
  BY DEF RankedFrom
<1>4. s \in Seq(Entry) /\ Consistent(s)
  <2> HIDE DEF scores
  <2> QED
    BY <1>2, ScoredLists
<1>5. Unranked(RankedFrom(cands))
  BY DEF Unranked, RankedFrom
<1> QED
  BY <1>3, <1>4, <1>5

\* Every answer of the ranker is a consistent list.
LEMMA RankerAnswers ==
    ASSUME NEW cands \in Seq(Candidate), Consistent(cands), NEW list \in RankerLists(cands)
    PROVE  list \in Seq(Entry) /\ Consistent(list)
<1> DEFINE of(scores) == [k \in DOMAIN cands |->
                            [item |-> cands[k].item, cats |-> cands[k].cats,
                             retrieval |-> cands[k].score, score |-> scores[k]]]
<1>1. PICK scores \in [DOMAIN cands -> RankerScore] : list = Sorted(of(scores))
  BY DEF RankerLists
<1>2. scores \in [DOMAIN cands -> Int]
  BY ServingAssumption
<1>3. of(scores) \in Seq(Entry) /\ Consistent(of(scores))
  BY <1>2, ScoredLists
<1> HIDE DEF of
<1> QED
  BY <1>1, <1>3, SortedKeeps, SortedStays

\* What the ML service and the cache answer are lists of candidates.
LEMMA DescribedLists ==
    ASSUME NEW list \in Retrieved
    PROVE  Described(list) \in Seq(Candidate) /\ Consistent(Described(list))
<1> DEFINE e(k) == [item |-> list[k][1], score |-> list[k][2], cats |-> CategoriesOf[list[k][1]]]
<1>1. list \in Seq(Item \X Int)
  BY ServingAssumption
<1>2. /\ DOMAIN list = 1..Len(list) /\ Len(list) \in Nat
      /\ \A k \in DOMAIN list : list[k] \in Item \X Int
  BY <1>1, LenProperties, ElementOfSeq
<1>3. \A k \in DOMAIN list :
        e(k) \in Candidate /\ e(k).cats = CategoriesOf[e(k).item]
  BY <1>2, ServingAssumption DEF Candidate
<1>4. Described(list) = [k \in DOMAIN list |-> e(k)]
  BY DEF Described
<1> HIDE DEF e
<1>5. Described(list) \in [1..Len(list) -> Candidate]
  BY <1>2, <1>3, <1>4
<1> QED
  BY <1>2, <1>3, <1>4, <1>5, SeqDef DEF Consistent

LEMMA CachedLists == CachedCandidates \in Seq(Candidate) /\ Consistent(CachedCandidates)
<1> DEFINE e(k) == [item |-> Cached[k], score |-> Len(Cached) - k + 1, cats |-> {}]
<1>1. /\ DOMAIN Cached = 1..Len(Cached) /\ Len(Cached) \in Nat
      /\ \A k \in DOMAIN Cached : Cached[k] \in Item
  BY ServingAssumption, LenProperties, ElementOfSeq
<1>2. \A k \in DOMAIN Cached : e(k) \in Candidate /\ e(k).cats = {}
  BY <1>1 DEF Candidate
<1>3. CachedCandidates = [k \in DOMAIN Cached |-> e(k)]
  BY DEF CachedCandidates
<1> HIDE DEF e
<1>4. CachedCandidates \in [1..Len(Cached) -> Candidate]
  BY <1>1, <1>2, <1>3
<1>5. CachedCandidates \in Seq(Candidate)
  BY <1>1, <1>4, SeqDef
<1>6. Consistent(CachedCandidates)
  BY <1>2, <1>3 DEF Consistent
<1> QED
  BY <1>5, <1>6

\* Whether an entry may be on the feed of a request.
Eligible(q, e) == e.item \notin ExcludeSet(q.feats) /\ (q.genre = NoGenre \/ q.genre \in e.cats)

\* The feed of a request, whatever its features and its genre are.
LEMMA FeedIsBest ==
    ASSUME NEW q, q.ranked \in Seq(Entry), Consistent(q.ranked)
    PROVE  /\ Feed(q) \in Seq(Entry) /\ Len(Feed(q)) <= Limit
           /\ Descending(Feed(q))
           /\ \A j, k \in DOMAIN Feed(q) : j # k => Feed(q)[j].item # Feed(q)[k].item
           /\ \A j \in DOMAIN Feed(q) : Feed(q)[j].item \notin ExcludeSet(q.feats)
           /\ \A j \in DOMAIN Feed(q) : \E k \in DOMAIN q.ranked :
                /\ Feed(q)[j].item = q.ranked[k].item
                /\ Feed(q)[j].score = Lifted(q.feats, q.ranked[k])
           /\ \A k \in DOMAIN q.ranked : Eligible(q, q.ranked[k]) =>
                \/ \E j \in DOMAIN Feed(q) : Feed(q)[j].item = q.ranked[k].item
                \/ /\ Len(Feed(q)) = Limit
                   /\ \A j \in DOMAIN Feed(q) :
                        Feed(q)[j].score >= Lifted(q.feats, q.ranked[k])
<1> DEFINE s == q.ranked
           t == Overlaid(s, q.feats)
           f == Filter(t, ExcludeSet(q.feats))
           g == FilterByGenre(f, q.genre)
           u == FirstOf(g, Limit)
<1>1. Feed(q) = u
  BY DEF Feed
<1>2. Limit \in Nat
  BY ServingAssumption
<1>3. IsOverlay(t, s, q.feats)
  BY OverlayLists
<1> HIDE DEF t
<1>4. Consistent(t)
  <2> SUFFICES ASSUME NEW j \in DOMAIN t, NEW k \in DOMAIN t, t[j].item = t[k].item
               PROVE  t[j].cats = t[k].cats
    BY DEF Consistent
  <2>1. PICK m \in DOMAIN s : t[j].item = s[m].item /\ t[j].cats = s[m].cats
    BY <1>3 DEF IsOverlay
  <2>2. PICK n \in DOMAIN s : t[k].item = s[n].item /\ t[k].cats = s[n].cats
    BY <1>3 DEF IsOverlay
  <2> QED
    BY <2>1, <2>2 DEF Consistent
<1>5. IsFiltered(f, t, ExcludeSet(q.feats))
  BY <1>3, FilterLists DEF IsOverlay
<1> HIDE DEF f
<1>6. IsOfGenre(g, f, q.genre)
  BY <1>5, GenreLists DEF IsFiltered
<1> HIDE DEF g
<1> USE DEF IsOverlay, IsFiltered, IsOfGenre
<1>sorted. Descending(t) /\ Descending(f) /\ Descending(g)
  BY <1>3, <1>5, <1>6
<1>distinct. \A j, k \in DOMAIN g : j # k => g[j].item # g[k].item
  BY <1>5, <1>6
<1>7. /\ u \in Seq(Entry) /\ Len(u) <= Limit /\ Len(u) <= Len(g)
      /\ Len(u) = Limit \/ u = g
      /\ \A p \in DOMAIN u : u[p] = g[p]
  BY <1>2, <1>6, FirstOfCuts
<1> HIDE DEF u
<1>8. /\ DOMAIN u = 1..Len(u) /\ Len(u) \in Nat /\ DOMAIN g = 1..Len(g) /\ Len(g) \in Nat
      /\ DOMAIN t = 1..Len(t)
      /\ \A p \in DOMAIN g : g[p].score \in Int
      /\ \A p \in DOMAIN t : t[p].score \in Int
  <2>1. /\ \A p \in DOMAIN g : g[p] \in Entry
        /\ \A p \in DOMAIN t : t[p] \in Entry
    BY <1>3, <1>6, LenProperties, ElementOfSeq
  <2> QED
    BY <1>3, <1>6, <1>7, <2>1, LenProperties DEF Entry
<1>9. DOMAIN u \subseteq DOMAIN g
  BY <1>7, <1>8
<1>10. Descending(u) /\ \A j, k \in DOMAIN u : j # k => u[j].item # u[k].item
  BY <1>7, <1>9, <1>sorted, <1>distinct DEF Descending
<1>11. ASSUME NEW j \in DOMAIN u
       PROVE  /\ u[j].item \notin ExcludeSet(q.feats)
              /\ \E k \in DOMAIN s : u[j].item = s[k].item /\ u[j].score = Lifted(q.feats, s[k])
  <2>1. PICK k \in DOMAIN f : u[j] = f[k]
    BY <1>6, <1>7, <1>9
  <2>2. PICK p \in DOMAIN t : f[k] = t[p]
    BY <1>5
  <2>3. u[j].item \notin ExcludeSet(q.feats)
    BY <2>1, <1>5
  <2>4. \E m \in DOMAIN s : t[p].item = s[m].item /\ t[p].score = Lifted(q.feats, s[m])
    BY <1>3
  <2> QED
    BY <2>1, <2>2, <2>3, <2>4
<1>12. ASSUME NEW k \in DOMAIN s, Eligible(q, s[k])
       PROVE  \/ \E j \in DOMAIN u : u[j].item = s[k].item
              \/ /\ Len(u) = Limit
                 /\ \A j \in DOMAIN u : u[j].score >= Lifted(q.feats, s[k])
  <2>1. PICK p \in DOMAIN t : /\ t[p].item = s[k].item /\ t[p].cats = s[k].cats
                              /\ t[p].score = Lifted(q.feats, s[k])
    BY <1>3
  <2>2. PICK i \in DOMAIN t, m \in DOMAIN f : i <= p /\ t[i].item = t[p].item /\ f[m] = t[i]
    BY <1>5, <1>12, <2>1 DEF Eligible
  <2>3. f[m].cats = s[k].cats
    BY <1>4, <2>1, <2>2 DEF Consistent
  <2>4. PICK n \in DOMAIN g : g[n] = f[m]
    BY <1>6, <1>12, <2>3 DEF Eligible
  <2>5. g[n].score >= t[p].score
    <3>1. i \in Int /\ p \in Int
      BY <1>8
    <3> QED
      BY <1>8, <1>sorted, <2>2, <2>4, <3>1 DEF Descending
  <2>6. g[n].item = s[k].item
    BY <2>1, <2>2, <2>4
  <2>7. CASE n \in DOMAIN u
    BY <1>7, <2>6, <2>7
  <2>8. CASE n \notin DOMAIN u
    <3>1. Len(u) = Limit
      BY <1>7, <2>8
    <3>2. ASSUME NEW j \in DOMAIN u
          PROVE  u[j].score >= Lifted(q.feats, s[k])
      <4>1. j \in DOMAIN g /\ j < n /\ u[j] = g[j]
        BY <1>7, <1>8, <1>9, <2>8
      <4>2. g[j].score >= g[n].score
        BY <1>sorted, <4>1, <2>4 DEF Descending
      <4> QED
        BY <1>8, <2>1, <2>5, <4>1, <4>2
    <3> QED
      BY <3>1, <3>2
  <2> QED
    BY <2>7, <2>8
<1> QED
  BY <1>1, <1>7, <1>10, <1>11, <1>12

\* The feed of a request depends on these fields of it only.
LEMMA FeedSame ==
    ASSUME NEW p, NEW q, p.ranked = q.ranked, p.feats = q.feats, p.genre = q.genre
    PROVE  Feed(p) = Feed(q)
BY DEF Feed

\* At first no list has an entry.
LEMMA ServeInvInit == Init => ServeInv
<1> SUFFICES ASSUME Init PROVE ServeInv
  OBVIOUS
<1>1. \A r \in Request : req[r] = Blank
  BY DEF Init
<1>2. <<>> \in Seq(Candidate) /\ <<>> \in Seq(Entry)
  BY EmptySeq
<1>3. Consistent(<<>>)
  BY DEF Consistent
<1>4. /\ Blank.stage = "new" /\ Blank.cands = <<>> /\ Blank.ranked = <<>>
  BY DEF Blank
<1>5. PastOf(Blank, stored) /\ ListsOf(Blank)
  BY <1>2, <1>3, <1>4 DEF PastOf, ListsOf
<1> QED
  BY <1>1, <1>5 DEF ServeInv

\* A judgement takes nothing out of what was judged.
LEMMA JudgeServes ==
    ASSUME ServeInv, NEW i \in Item, NEW liked \in BOOLEAN, Judge(i, liked)
    PROVE  ServeInv'
<1>1. req' = req
  BY DEF Judge
<1>2. /\ stored'.liked = (IF liked THEN stored.liked \cup {i} ELSE stored.liked \ {i})
      /\ stored'.disliked = (IF liked THEN stored.disliked \ {i} ELSE stored.disliked \cup {i})
  BY DEF Judge
<1>3. Judged(stored) \subseteq Judged(stored')
  BY <1>2 DEF Judged
<1>4. \A q : PastOf(q, stored) => PastOf(q, stored')
  BY <1>3 DEF PastOf
<1> QED
  BY <1>1, <1>4 DEF ServeInv

\* A step of one request that keeps its record as it should be keeps ServeInv.
LEMMA OneServed ==
    ASSUME FlagInv, ServeInv, NEW r \in Request, NEW q,
           req' = [req EXCEPT ![r] = q], stored' = stored,
           PastOf(q, stored), ListsOf(q)
    PROVE  ServeInv'
BY DEF FlagInv, ServeInv

LEMMA ArriveServes ==
    ASSUME FlagInv, ServeInv, NEW r \in Request, NEW v \in Variant,
           NEW g \in Category \cup {NoGenre}, Arrive(r, v, g)
    PROVE  ServeInv'
<1> DEFINE q == [req[r] EXCEPT !.stage = "features", !.variant = v, !.genre = g,
                               !.before = Judged(stored)]
<1>1. req' = [req EXCEPT ![r] = q] /\ req[r].stage = "new" /\ stored' = stored
  BY DEF Arrive
<1>2. /\ q.cands = req[r].cands /\ q.ranked = req[r].ranked
      /\ q.stage = "features" /\ q.before = Judged(stored)
  BY DEF FlagInv, Fields
<1> HIDE DEF q
<1>3. PastOf(q, stored) /\ ListsOf(q)
  BY <1>2 DEF ServeInv, PastOf, ListsOf
<1> QED
  BY <1>1, <1>3, OneServed

LEMMA LookupFeaturesServes ==
    ASSUME FlagInv, ServeInv, NEW r \in Request, LookupFeatures(r)
    PROVE  ServeInv'
<1> DEFINE found == WithFeatures(req[r], stored)
           lost  == WithoutFeatures(req[r])
<1>1. req[r].stage = "features" /\ stored' = stored
  BY DEF LookupFeatures
<1>2. req' = [req EXCEPT ![r] = found] \/ req' = [req EXCEPT ![r] = lost]
  BY DEF LookupFeatures
<1>3. /\ found.stage = "candidates" /\ found.feats = stored /\ found.before = req[r].before
      /\ found.cands = req[r].cands /\ found.ranked = req[r].ranked
  BY DEF FlagInv, Fields, WithFeatures
<1>4. /\ lost.stage = "candidates" /\ "features" \in lost.failed
      /\ lost.before = req[r].before
      /\ lost.cands = req[r].cands /\ lost.ranked = req[r].ranked
  BY DEF FlagInv, Fields, WithoutFeatures, Fallback
<1> HIDE DEF found, lost
<1>5. PastOf(found, stored) /\ PastOf(lost, stored)
  BY <1>1, <1>3, <1>4 DEF ServeInv, PastOf
<1>6. ListsOf(found) /\ ListsOf(lost)
  BY <1>3, <1>4 DEF ServeInv, ListsOf
<1> QED
  BY <1>1, <1>2, <1>5, <1>6, OneServed

LEMMA LookupCandidatesServes ==
    ASSUME FlagInv, ServeInv, NEW r \in Request, LookupCandidates(r)
    PROVE  ServeInv'
<1> DEFINE cached == GoCached(req[r])
           lost   == WithoutRetrieval(req[r])
           with(cands) == [req[r] EXCEPT !.stage = "rank", !.cands = cands]
<1>1. req[r].stage = "candidates" /\ stored' = stored
  BY DEF LookupCandidates
<1>2. \/ req' = [req EXCEPT ![r] = cached]
      \/ req' = [req EXCEPT ![r] = lost]
      \/ \E list \in Retrieved : req' = [req EXCEPT ![r] = with(Described(list))]
  <2>1. \/ \E list \in Retrieved :
              req' = [req EXCEPT ![r] = WithCandidates(req[r], Described(list))]
        \/ req' = [req EXCEPT ![r] = lost]
    BY DEF LookupCandidates
  <2>2. \A cands : WithCandidates(req[r], cands) \in {cached, with(cands)}
    BY DEF WithCandidates
  <2> HIDE DEF cached, lost, with
  <2> QED
    BY <2>1, <2>2
<1>3. /\ cached.stage = "cached" /\ cached.before = req[r].before
      /\ cached.failed = req[r].failed /\ cached.feats = req[r].feats
      /\ cached.cands = req[r].cands /\ cached.ranked = req[r].ranked
  BY DEF FlagInv, Fields, Fallback, GoCached
<1>4. /\ lost.stage = "cached" /\ lost.before = req[r].before
      /\ lost.failed = req[r].failed \cup {"candidates"} /\ lost.feats = req[r].feats
      /\ lost.cands = req[r].cands /\ lost.ranked = req[r].ranked
  BY DEF FlagInv, Fields, Fallback, GoCached, WithoutRetrieval
<1>5. \A cands :
        /\ with(cands).stage = "rank" /\ with(cands).before = req[r].before
        /\ with(cands).failed = req[r].failed /\ with(cands).feats = req[r].feats
        /\ with(cands).cands = cands /\ with(cands).ranked = req[r].ranked
  BY DEF FlagInv, Fields
<1> HIDE DEF cached, lost, with
<1>6. PastOf(cached, stored) /\ PastOf(lost, stored) /\ \A cands : PastOf(with(cands), stored)
  BY <1>1, <1>3, <1>4, <1>5 DEF ServeInv, PastOf
<1>7. ListsOf(cached) /\ ListsOf(lost)
  BY <1>3, <1>4 DEF ServeInv, ListsOf
<1>8. ASSUME NEW list \in Retrieved
      PROVE  ListsOf(with(Described(list)))
  BY <1>5, DescribedLists DEF ServeInv, ListsOf
<1> QED
  BY <1>1, <1>2, <1>6, <1>7, <1>8, OneServed

LEMMA LookupCachedServes ==
    ASSUME FlagInv, ServeInv, NEW r \in Request, LookupCached(r)
    PROVE  ServeInv'
<1> DEFINE with(cands) == [req[r] EXCEPT !.stage = "rank", !.cands = cands]
<1>1. req[r].stage = "cached" /\ stored' = stored
  BY DEF LookupCached
<1>2. PICK cands \in {<<>>, CachedCandidates} : req' = [req EXCEPT ![r] = with(cands)]
  BY DEF LookupCached
<1>3. /\ with(cands).stage = "rank" /\ with(cands).before = req[r].before
      /\ with(cands).failed = req[r].failed /\ with(cands).feats = req[r].feats
      /\ with(cands).cands = cands /\ with(cands).ranked = req[r].ranked
  BY DEF FlagInv, Fields
<1> HIDE DEF with
<1>4. cands \in Seq(Candidate) /\ Consistent(cands)
  <2>1. CASE cands = <<>>
    BY <2>1, EmptySeq DEF Consistent
  <2>2. CASE cands = CachedCandidates
    BY <2>2, CachedLists
  <2> QED
    BY <2>1, <2>2
<1>5. PastOf(with(cands), stored)
  BY <1>1, <1>3 DEF ServeInv, PastOf
<1>6. ListsOf(with(cands))
  BY <1>3, <1>4 DEF ServeInv, ListsOf
<1> QED
  BY <1>1, <1>2, <1>5, <1>6, OneServed

LEMMA RankServes ==
    ASSUME FlagInv, ServeInv, NEW r \in Request, Rank(r)
    PROVE  ServeInv'
<1> DEFINE old == req[r]
           plain == RankedFrom(old.cands)
           ok(list, used) ==
                [old EXCEPT !.stage = "respond", !.ranked = list, !.useRanker = used]
           kept(list) == [old EXCEPT !.stage = "respond", !.ranked = list]
           refused == [Fallback(old, "ranker_unavailable") EXCEPT
                            !.stage = "respond", !.ranked = plain]
           lost == [refused EXCEPT !.failed = @ \cup {"rank"}]
<1>1. /\ old.stage = "rank" /\ stored' = stored
      /\ \/ AskRanker(old) /\ \E list \in RankerLists(old.cands) :
                req' = [req EXCEPT ![r] = ok(list, TRUE)]
         \/ req' = [req EXCEPT ![r] = refused]
         \/ req' = [req EXCEPT ![r] = lost]
         \/ req' = [req EXCEPT ![r] =
                        kept(IF old.variant = "control" THEN Sorted(plain) ELSE plain)]
  BY DEF Rank
<1>2. \A list :
        /\ ok(list, TRUE).stage = "respond" /\ ok(list, TRUE).before = old.before
        /\ ok(list, TRUE).failed = old.failed /\ ok(list, TRUE).feats = old.feats
        /\ ok(list, TRUE).reason = old.reason /\ ok(list, TRUE).variant = old.variant
        /\ ok(list, TRUE).cands = old.cands /\ ok(list, TRUE).ranked = list
  BY DEF FlagInv, Fields
<1>3. \A list :
        /\ kept(list).stage = "respond" /\ kept(list).before = old.before
        /\ kept(list).failed = old.failed /\ kept(list).feats = old.feats
        /\ kept(list).cands = old.cands /\ kept(list).ranked = list
  BY DEF FlagInv, Fields
<1>4. /\ refused.stage = "respond" /\ refused.before = old.before
      /\ refused.failed = old.failed /\ refused.feats = old.feats
      /\ refused.cands = old.cands /\ refused.ranked = plain
      /\ lost.stage = "respond" /\ lost.before = old.before
      /\ lost.failed = old.failed \cup {"rank"} /\ lost.feats = old.feats
      /\ lost.cands = old.cands /\ lost.ranked = plain
  BY DEF FlagInv, Fields, Fallback
<1>5. old.cands \in Seq(Candidate) /\ Consistent(old.cands)
  BY DEF ServeInv, ListsOf
<1>6. plain \in Seq(Entry) /\ Consistent(plain) /\ Unranked(plain)
  BY <1>5, RankedFromLists
<1>7. PastOf(old, stored)
  BY DEF ServeInv
<1> HIDE DEF ok, kept, refused, lost, old, plain
<1>8. CASE AskRanker(old) /\ \E list \in RankerLists(old.cands) :
                req' = [req EXCEPT ![r] = ok(list, TRUE)]
  <2>1. PICK list \in RankerLists(old.cands) : req' = [req EXCEPT ![r] = ok(list, TRUE)]
    BY <1>8
  <2>2. list \in Seq(Entry) /\ Consistent(list)
    BY <1>5, RankerAnswers
  <2>3. old.variant = "treatment" /\ ~Degraded(old)
    BY <1>8 DEF AskRanker
  <2>4. PastOf(ok(list, TRUE), stored)
    BY <1>1, <1>2, <1>7 DEF PastOf
  <2>5. ListsOf(ok(list, TRUE))
    BY <1>2, <1>5, <2>2, <2>3 DEF ListsOf, Degraded
  <2> QED
    BY <1>1, <2>1, <2>4, <2>5, OneServed
<1>9. CASE req' = [req EXCEPT ![r] = refused] \/ req' = [req EXCEPT ![r] = lost]
  <2>1. PastOf(refused, stored) /\ PastOf(lost, stored)
    BY <1>1, <1>4, <1>7 DEF PastOf
  <2>2. ListsOf(refused) /\ ListsOf(lost)
    BY <1>4, <1>5, <1>6 DEF ListsOf
  <2> QED
    BY <1>1, <1>9, <2>1, <2>2, OneServed
<1>10. CASE req' = [req EXCEPT ![r] =
                        kept(IF old.variant = "control" THEN Sorted(plain) ELSE plain)]
  <2> DEFINE list == IF old.variant = "control" THEN Sorted(plain) ELSE plain
  <2>1. list \in Seq(Entry) /\ Consistent(list) /\ Unranked(list)
    BY <1>6, SortedKeeps, SortedStays
  <2> HIDE DEF list
  <2>2. PastOf(kept(list), stored)
    BY <1>1, <1>3, <1>7 DEF PastOf
  <2>3. ListsOf(kept(list))
    BY <1>3, <1>5, <2>1 DEF ListsOf
  <2>4. req' = [req EXCEPT ![r] = kept(list)]
    BY <1>10 DEF list
  <2> QED
    BY <1>1, <2>2, <2>3, <2>4, OneServed
<1> QED
  BY <1>1, <1>8, <1>9, <1>10

LEMMA RespondServes ==
    ASSUME FlagInv, ServeInv, NEW r \in Request, Respond(r)
    PROVE  ServeInv'
<1> DEFINE old == req[r]
           q == [old EXCEPT !.stage = "done", !.feed = Feed(old)]
<1>1. old.stage = "respond" /\ req' = [req EXCEPT ![r] = q] /\ stored' = stored
  BY DEF Respond
<1>2. /\ q.stage = "done" /\ q.before = old.before /\ q.failed = old.failed
      /\ q.feats = old.feats /\ q.reason = old.reason /\ q.variant = old.variant
      /\ q.genre = old.genre /\ q.cands = old.cands /\ q.ranked = old.ranked
      /\ q.feed = Feed(old)
  BY DEF FlagInv, Fields
<1>3. PastOf(old, stored) /\ ListsOf(old)
  BY DEF ServeInv
<1> HIDE DEF old, q
<1>4. Feed(q) = Feed(old)
  BY <1>2, FeedSame
<1>5. PastOf(q, stored)
  BY <1>1, <1>2, <1>3 DEF PastOf
<1>6. ListsOf(q)
  BY <1>1, <1>2, <1>3, <1>4 DEF ListsOf, Degraded
<1> QED
  BY <1>1, <1>5, <1>6, OneServed

LEMMA ServeInvStep == FlagInv /\ ServeInv /\ [Next]_vars => ServeInv'
<1> SUFFICES ASSUME FlagInv, ServeInv, [Next]_vars
             PROVE  ServeInv'
  OBVIOUS
<1>1. CASE UNCHANGED vars
  BY <1>1 DEF vars, ServeInv
<1>2. CASE \E i \in Item, liked \in BOOLEAN : Judge(i, liked)
  BY <1>2, JudgeServes
<1>3. CASE \E r \in Request, v \in Variant, g \in Category \cup {NoGenre} : Arrive(r, v, g)
  BY <1>3, ArriveServes
<1>4. CASE \E r \in Request : Advance(r)
  BY <1>4, LookupFeaturesServes, LookupCandidatesServes, LookupCachedServes, RankServes,
     RespondServes DEF Advance
<1> QED
  BY <1>1, <1>2, <1>3, <1>4 DEF Next

\* Both invariants hold in every reachable state.
LEMMA AlwaysServed == Spec => [](FlagInv /\ ServeInv)
BY FlagInvInit, FlagInvStep, ServeInvInit, ServeInvStep, PTL DEF Spec

\* A feed repeats no title, and shows none the user had judged before asking
\* unless the features could not be read (Filter in filter.go, and the features
\* that Recommend reads before anything else).
THEOREM FeedSkipsTheJudged == Spec => []JudgedStaysOut
<1>1. FlagInv /\ ServeInv => JudgedStaysOut
  <2> SUFFICES ASSUME FlagInv, ServeInv, NEW r \in Request, Done(r)
               PROVE  LET feed == req[r].feed IN
                      /\ \A j, k \in DOMAIN feed : j # k => feed[j].item # feed[k].item
                      /\ "features" \notin req[r].failed =>
                            \A k \in DOMAIN feed : feed[k].item \notin req[r].before
    BY DEF JudgedStaysOut
  <2> DEFINE q == req[r]
  <2>1. PastOf(q, stored) /\ ListsOf(q) /\ q.stage = "done"
    BY DEF ServeInv, Done
  <2> HIDE DEF q
  <2>2. q.ranked \in Seq(Entry) /\ Consistent(q.ranked) /\ q.feed = Feed(q)
    BY <2>1 DEF ListsOf
  <2>3. /\ \A j, k \in DOMAIN q.feed : j # k => q.feed[j].item # q.feed[k].item
        /\ \A j \in DOMAIN q.feed : q.feed[j].item \notin ExcludeSet(q.feats)
    BY <2>2, FeedIsBest
  <2>4. "features" \notin q.failed => q.before \subseteq ExcludeSet(q.feats)
    BY <2>1 DEF PastOf, Judged, ExcludeSet
  <2> QED
    BY <2>3, <2>4 DEF q
<1> QED
  BY AlwaysServed, <1>1, PTL

\* A feed is sorted, made of the ranked titles at their final scores, and a
\* title that is eligible and not on it is beaten by a full feed (the overlay,
\* the filters and the cut of Recommend, and useRanker).
THEOREM FeedIsTheBest == Spec => []FeedIsBestOfEligible
<1>1. FlagInv /\ ServeInv => FeedIsBestOfEligible
  <2> SUFFICES ASSUME FlagInv, ServeInv, NEW r \in Request, Done(r)
               PROVE  LET q == req[r] IN
                /\ Len(q.feed) <= Limit
                /\ \A j, k \in DOMAIN q.feed : j < k => q.feed[j].score >= q.feed[k].score
                /\ \A j \in DOMAIN q.feed : \E k \in DOMAIN q.ranked :
                    q.feed[j].item = q.ranked[k].item /\ q.feed[j].score = FinalScore(q, k)
                /\ \A k \in DOMAIN q.ranked :
                    (/\ q.ranked[k].item \notin ExcludeSet(q.feats)
                     /\ q.genre = NoGenre \/ q.genre \in q.ranked[k].cats)
                        => \/ \E j \in DOMAIN q.feed : q.feed[j].item = q.ranked[k].item
                           \/ /\ Len(q.feed) = Limit
                              /\ \A j \in DOMAIN q.feed : q.feed[j].score >= FinalScore(q, k)
    BY DEF FeedIsBestOfEligible
  <2> DEFINE q == req[r]
  <2>1. ListsOf(q) /\ q.stage = "done"
    BY DEF ServeInv, Done
  <2> HIDE DEF q
  <2>2. q.ranked \in Seq(Entry) /\ Consistent(q.ranked) /\ q.feed = Feed(q)
    BY <2>1 DEF ListsOf
  <2>3. q.variant = "control" \/ Degraded(q) => Unranked(q.ranked)
    BY <2>1 DEF ListsOf
  <2>4. \A k \in DOMAIN q.ranked : FinalScore(q, k) = Lifted(q.feats, q.ranked[k])
    BY <2>3 DEF FinalScore, Lifted, Unranked
  <2>5. /\ Len(q.feed) <= Limit
        /\ Descending(q.feed)
        /\ \A j \in DOMAIN q.feed : \E k \in DOMAIN q.ranked :
                /\ q.feed[j].item = q.ranked[k].item
                /\ q.feed[j].score = Lifted(q.feats, q.ranked[k])
        /\ \A k \in DOMAIN q.ranked : Eligible(q, q.ranked[k]) =>
                \/ \E j \in DOMAIN q.feed : q.feed[j].item = q.ranked[k].item
                \/ /\ Len(q.feed) = Limit
                   /\ \A j \in DOMAIN q.feed :
                        q.feed[j].score >= Lifted(q.feats, q.ranked[k])
    BY <2>2, FeedIsBest
  <2>6. \A j \in DOMAIN q.feed : \E k \in DOMAIN q.ranked :
            q.feed[j].item = q.ranked[k].item /\ q.feed[j].score = FinalScore(q, k)
    BY <2>4, <2>5
  <2>7. \A k \in DOMAIN q.ranked : Eligible(q, q.ranked[k]) =>
            \/ \E j \in DOMAIN q.feed : q.feed[j].item = q.ranked[k].item
            \/ /\ Len(q.feed) = Limit
               /\ \A j \in DOMAIN q.feed : q.feed[j].score >= FinalScore(q, k)
    BY <2>4, <2>5
  <2> QED
    BY <2>5, <2>6, <2>7 DEF q, Descending, Eligible
<1> QED
  BY AlwaysServed, <1>1, PTL

-----------------------------------------------------------------------------
(* The lists a bill is made of.                                              *)

BillRow == [item : Item, popularity : Nat]

OnePerTitle(s) == \A j, k \in DOMAIN s : j # k => s[j].item # s[k].item

\* The rows of t are rows of s.
RowsOf(t, s) == \A p \in DOMAIN t : \E k \in DOMAIN s : t[p] = s[k]

\* t has the rows of s at the positions P.
IsPick(t, s, P) ==
    /\ t \in Seq(BillRow)
    /\ \A p \in DOMAIN t : \E k \in P : t[p] = s[k]
    /\ \A k \in P : \E p \in DOMAIN t : t[p] = s[k]
    /\ (\A j, k \in P : j # k => s[j].item # s[k].item) => OnePerTitle(t)

\* The places of a list of rows, and what is there.
LEMMA RowPositions ==
    ASSUME NEW s \in Seq(BillRow)
    PROVE  /\ Len(s) \in Nat /\ DOMAIN s = 1..Len(s)
           /\ \A k \in DOMAIN s : s[k] \in BillRow /\ s[k].item \in Item /\ s[k].popularity \in Nat
<1>1. Len(s) \in Nat /\ DOMAIN s = 1..Len(s) /\ \A k \in DOMAIN s : s[k] \in BillRow
  BY LenProperties, ElementOfSeq
<1> QED
  BY <1>1 DEF BillRow

\* Cutting down to some positions keeps what they hold.
LEMMA SubsequencePicks ==
    ASSUME NEW s \in Seq(BillRow), NEW P \in SUBSET (DOMAIN s)
    PROVE  IsPick(Subsequence(s, P), s, P)
<1> DEFINE t == Subsequence(s, P)
           N == Cardinality(P)
<1>1. \A k \in P : s[k] \in BillRow
  BY RowPositions
<1>2. PICK at \in [1..N -> P] :
        /\ t = [p \in 1..N |-> s[at[p]]]
        /\ \A p, q \in 1..N : p < q => at[p] < at[q]
        /\ \A k \in P : \E p \in 1..N : at[p] = k
  BY SubsequenceLists
<1>3. N \in Nat
  BY SubsequenceLists
<1> HIDE DEF t, N
<1>4. DOMAIN t = 1..N /\ \A p \in 1..N : at[p] \in P /\ t[p] = s[at[p]] /\ t[p] \in BillRow
  BY <1>1, <1>2
<1>5. t \in Seq(BillRow)
  <2>1. t \in [1..N -> BillRow]
    BY <1>2, <1>4
  <2> QED
    BY <1>3, <2>1, SeqDef
<1>6. \A p, q \in 1..N : p # q => at[p] # at[q]
  <2> SUFFICES ASSUME NEW p \in 1..N, NEW q \in 1..N, p # q
               PROVE  at[p] # at[q]
    OBVIOUS
  <2>1. p < q \/ q < p
    BY <1>3
  <2>2. at[p] \in Int /\ at[q] \in Int
    BY <1>2, RowPositions
  <2> QED
    BY <1>2, <2>1, <2>2
<1>7. (\A j, k \in P : j # k => s[j].item # s[k].item) => OnePerTitle(t)
  BY <1>4, <1>6 DEF OnePerTitle
<1>8. /\ \A p \in DOMAIN t : \E k \in P : t[p] = s[k]
      /\ \A k \in P : \E p \in DOMAIN t : t[p] = s[k]
  BY <1>2, <1>4
<1> QED
  BY <1>5, <1>7, <1>8 DEF IsPick, t

\* uniqueById keeps one row of every title.
LEMMA UniqueLists ==
    ASSUME NEW rows \in Seq(BillRow)
    PROVE  /\ UniqueById(rows) \in Seq(BillRow) /\ OnePerTitle(UniqueById(rows))
           /\ RowsOf(UniqueById(rows), rows)
           /\ Titles(UniqueById(rows)) = Titles(rows)
<1> DEFINE P == {k \in DOMAIN rows : \A j \in 1..(k - 1) : rows[j].item # rows[k].item}
           t == UniqueById(rows)
<1>1. IsPick(t, rows, P)
  BY SubsequencePicks DEF UniqueById
<1>2. \A j, k \in P : j # k => rows[j].item # rows[k].item
  <2> SUFFICES ASSUME NEW j \in P, NEW k \in P, j # k, rows[j].item = rows[k].item
               PROVE  FALSE
    OBVIOUS
  <2>1. j \in Nat /\ k \in Nat /\ j >= 1 /\ k >= 1
    BY RowPositions
  <2>2. j \in 1..(k - 1) \/ k \in 1..(j - 1)
    BY <2>1
  <2> QED
    BY <2>2
<1>3. \A k \in DOMAIN rows : \E j \in P : rows[j].item = rows[k].item
  BY FirstOccurrence
<1>4. P \subseteq DOMAIN rows
  OBVIOUS
<1> HIDE DEF t, P
<1>5. RowsOf(t, rows)
  BY <1>1, <1>4 DEF IsPick, RowsOf
<1>6. Titles(t) \subseteq Titles(rows)
  BY <1>5 DEF RowsOf, Titles
<1>7. Titles(rows) \subseteq Titles(t)
  <2> SUFFICES ASSUME NEW k \in DOMAIN rows PROVE rows[k].item \in Titles(t)
    BY DEF Titles
  <2>1. PICK j \in P : rows[j].item = rows[k].item
    BY <1>3
  <2>2. PICK p \in DOMAIN t : t[p] = rows[j]
    BY <1>1 DEF IsPick
  <2> QED
    BY <2>1, <2>2 DEF Titles
<1>8. t \in Seq(BillRow) /\ OnePerTitle(t)
  BY <1>1, <1>2 DEF IsPick
<1> QED
  BY <1>5, <1>6, <1>7, <1>8 DEF t

\* The page shows the rows of no banned and of no judged title.
LEMMA ShownLists ==
    ASSUME NEW rows \in Seq(BillRow), NEW q, NEW banned
    PROVE  /\ Shown(rows, q, banned) \in Seq(BillRow)
           /\ RowsOf(Shown(rows, q, banned), rows)
           /\ Titles(Shown(rows, q, banned)) = Titles(rows) \ (banned \cup Judged(q.feats))
<1> DEFINE out == banned \cup Judged(q.feats)
           P == {k \in DOMAIN rows : rows[k].item \notin out}
           t == Shown(rows, q, banned)
<1>1. IsPick(t, rows, P)
  BY SubsequencePicks DEF Shown
<1>2. P \subseteq DOMAIN rows /\ \A k \in DOMAIN rows : k \in P <=> rows[k].item \notin out
  OBVIOUS
<1> HIDE DEF t, P, out
<1>3. t \in Seq(BillRow) /\ RowsOf(t, rows)
  BY <1>1, <1>2 DEF IsPick, RowsOf
<1>4. Titles(t) = Titles(rows) \ out
  <2>1. ASSUME NEW p \in DOMAIN t PROVE t[p].item \in Titles(rows) \ out
    BY <1>1, <1>2 DEF IsPick, Titles
  <2>2. ASSUME NEW k \in DOMAIN rows, rows[k].item \notin out PROVE rows[k].item \in Titles(t)
    <3>1. PICK p \in DOMAIN t : t[p] = rows[k]
      BY <1>1, <1>2, <2>2 DEF IsPick
    <3> QED
      BY <3>1 DEF Titles
  <2> QED
    BY <2>1, <2>2 DEF Titles
<1> QED
  BY <1>3, <1>4 DEF t, out

\* Cutting a list off keeps what its beginning holds.
LEMMA CutLists ==
    ASSUME NEW rows \in Seq(BillRow)
    PROVE  /\ FirstOf(rows, BillLimit) \in Seq(BillRow)
           /\ Len(FirstOf(rows, BillLimit)) <= BillLimit
           /\ OnePerTitle(rows) => OnePerTitle(FirstOf(rows, BillLimit))
           /\ Titles(FirstOf(rows, BillLimit)) \subseteq Titles(rows)
<1> DEFINE m == Min({BillLimit, Len(rows)})
           t == FirstOf(rows, BillLimit)
<1>1. BillLimit \in Nat /\ Len(rows) \in Nat /\ DOMAIN rows = 1..Len(rows)
  BY RowPositions, BillAssumption
<1>2. m \in Nat /\ m <= BillLimit /\ m <= Len(rows)
  <2>1. \E x \in {BillLimit, Len(rows)} : \A y \in {BillLimit, Len(rows)} : x <= y
    BY <1>1
  <2> QED
    BY <1>1, <2>1 DEF Min
<1>3. t = SubSeq(rows, 1, m)
  BY DEF FirstOf
<1> HIDE DEF m, t
<1>4. \A k \in 1..m : k \in DOMAIN rows /\ rows[k] \in BillRow
  BY <1>1, <1>2, RowPositions
<1>5. t \in Seq(BillRow) /\ Len(t) = m /\ \A k \in 1..m : t[k] = rows[k]
  BY <1>2, <1>3, <1>4, SubSeqProperties
<1>6. DOMAIN t = 1..m
  BY <1>5, LenProperties
<1>7. OnePerTitle(rows) => OnePerTitle(t)
  BY <1>4, <1>5, <1>6 DEF OnePerTitle
<1>8. Titles(t) \subseteq Titles(rows)
  BY <1>4, <1>5, <1>6 DEF Titles
<1> QED
  BY <1>2, <1>5, <1>7, <1>8 DEF t

-----------------------------------------------------------------------------
(* Popularities, and what is notable.                                        *)

\* The rows have the popularity of the statistics.
Priced(rows) == \A k \in DOMAIN rows : rows[k].popularity = PopularityOf[rows[k].item]

\* A row of the shelf is a title with its popularity.
LEMMA ShelfLists ==
    ASSUME NEW items \in Seq(Item)
    PROVE  /\ Shelf(items) \in Seq(BillRow) /\ Priced(Shelf(items))
           /\ Titles(Shelf(items)) = {items[k] : k \in DOMAIN items}
<1> DEFINE s == Shelf(items)
<1>1. Len(items) \in Nat /\ DOMAIN items = 1..Len(items) /\ \A k \in DOMAIN items : items[k] \in Item
  BY LenProperties, ElementOfSeq
<1>2. /\ DOMAIN s = DOMAIN items
      /\ s = [k \in DOMAIN items |-> s[k]]
      /\ \A k \in DOMAIN items : s[k] = [item |-> items[k], popularity |-> PopularityOf[items[k]]]
  BY DEF Shelf
<1> HIDE DEF s
<1>3. \A k \in DOMAIN items : s[k] \in BillRow
  BY <1>1, <1>2, BillAssumption DEF BillRow
<1>4. s \in [1..Len(items) -> BillRow]
  BY <1>1, <1>2, <1>3
<1>5. s \in Seq(BillRow)
  BY <1>1, <1>4, SeqDef
<1>6. Priced(s)
  BY <1>2 DEF Priced
<1>7. Titles(s) = {items[k] : k \in DOMAIN items}
  BY <1>2 DEF Titles
<1> QED
  BY <1>5, <1>6, <1>7 DEF s

\* The rows of a response: with the popularity of its titles, or with none.
LEMMA PicksLists ==
    ASSUME NEW q, q.feed \in Seq(Entry), NEW hydrated \in BOOLEAN
    PROVE  /\ Picks(q, hydrated) \in Seq(BillRow)
           /\ hydrated => Priced(Picks(q, hydrated))
           /\ ~hydrated => \A k \in DOMAIN Picks(q, hydrated) : Picks(q, hydrated)[k].popularity = 0
           /\ Titles(Picks(q, hydrated)) = {q.feed[k].item : k \in DOMAIN q.feed}
<1> DEFINE feed == q.feed
           s == Picks(q, hydrated)
           price(i) == IF hydrated THEN PopularityOf[i] ELSE 0
<1>1. /\ Len(feed) \in Nat /\ DOMAIN feed = 1..Len(feed)
      /\ \A k \in DOMAIN feed : feed[k].item \in Item
  <2>1. /\ Len(feed) \in Nat /\ DOMAIN feed = 1..Len(feed)
        /\ \A k \in DOMAIN feed : feed[k] \in Entry
    BY LenProperties, ElementOfSeq
  <2> QED
    BY <2>1 DEF Entry
<1>2. /\ DOMAIN s = DOMAIN feed
      /\ s = [k \in DOMAIN feed |-> s[k]]
      /\ \A k \in DOMAIN feed : s[k] = [item |-> feed[k].item, popularity |-> price(feed[k].item)]
  BY DEF Picks
<1>3. \A i \in Item : price(i) \in Nat
  BY BillAssumption
<1>4. (hydrated => \A i : price(i) = PopularityOf[i]) /\ (~hydrated => \A i : price(i) = 0)
  OBVIOUS
<1> HIDE DEF s, feed, price
<1>5. \A k \in DOMAIN feed : s[k] \in BillRow
  BY <1>1, <1>2, <1>3 DEF BillRow
<1>6. s \in [1..Len(feed) -> BillRow]
  BY <1>1, <1>2, <1>5
<1>7. s \in Seq(BillRow)
  BY <1>1, <1>6, SeqDef
<1>8. hydrated => Priced(s)
  BY <1>2, <1>4 DEF Priced
<1>9. ~hydrated => \A k \in DOMAIN s : s[k].popularity = 0
  BY <1>2, <1>4
<1>10. Titles(s) = {feed[k].item : k \in DOMAIN feed}
  BY <1>2 DEF Titles
<1> QED
  BY <1>7, <1>8, <1>9, <1>10 DEF s, feed

\* A subset of the rows keeps its popularities.
LEMMA RowsStayPriced ==
    ASSUME NEW t, NEW s, RowsOf(t, s)
    PROVE  /\ Priced(s) => Priced(t)
           /\ (\A k \in DOMAIN s : s[k].popularity = 0) => \A k \in DOMAIN t : t[k].popularity = 0
BY DEF RowsOf, Priced

\* What the pool knows of a title without a popularity.
LEMMA KnownPopularity ==
    ASSUME NEW pool \in Seq(BillRow), Priced(pool), NEW i \in Item
    PROVE  Max({0} \cup {pool[j].popularity : j \in {n \in DOMAIN pool : pool[n].item = i}})
                = IF i \in Titles(pool) THEN PopularityOf[i] ELSE 0
<1> DEFINE V == {0} \cup {pool[j].popularity : j \in {n \in DOMAIN pool : pool[n].item = i}}
<1>1. PopularityOf[i] \in Nat
  BY BillAssumption
<1>2. CASE i \in Titles(pool)
  <2>1. V = {0, PopularityOf[i]}
    BY <1>2 DEF Titles, Priced
  <2> HIDE DEF V
  <2>2. \E x \in V : \A y \in V : x >= y
    BY <1>1, <2>1
  <2>3. Max(V) = PopularityOf[i]
    BY <1>1, <2>1, <2>2 DEF Max
  <2> QED
    BY <1>2, <2>3 DEF V
<1>3. CASE i \notin Titles(pool)
  <2>1. V = {0}
    BY <1>3 DEF Titles
  <2> HIDE DEF V
  <2>2. Max(V) = 0
    BY <2>1 DEF Max
  <2> QED
    BY <1>3, <2>2 DEF V
<1> QED
  BY <1>2, <1>3

\* Rows that have no popularity get the one the pool has, if any.
LEMMA HydratedLists ==
    ASSUME NEW rows \in Seq(BillRow), NEW pool \in Seq(BillRow), Priced(pool)
    PROVE  /\ Hydrated(rows, pool) \in Seq(BillRow)
           /\ DOMAIN Hydrated(rows, pool) = DOMAIN rows
           /\ \A k \in DOMAIN rows :
                /\ Hydrated(rows, pool)[k].item = rows[k].item
                /\ Hydrated(rows, pool)[k].popularity =
                        IF rows[k].popularity # 0 THEN rows[k].popularity
                        ELSE IF rows[k].item \in Titles(pool) THEN PopularityOf[rows[k].item] ELSE 0
<1> DEFINE h == Hydrated(rows, pool)
           v(k) == IF rows[k].item \in Titles(pool) THEN PopularityOf[rows[k].item] ELSE 0
           p(k) == IF rows[k].popularity # 0 THEN rows[k].popularity ELSE v(k)
           best(k) == Max({0} \cup {pool[j].popularity :
                                        j \in {n \in DOMAIN pool : pool[n].item = rows[k].item}})
<1>1. /\ Len(rows) \in Nat /\ DOMAIN rows = 1..Len(rows)
      /\ \A k \in DOMAIN rows : /\ rows[k] \in BillRow /\ rows[k].item \in Item
                                /\ rows[k].popularity \in Nat
  BY RowPositions
<1>2. \A k \in DOMAIN rows : best(k) = v(k)
  BY <1>1, KnownPopularity
<1>3. h = [k \in DOMAIN rows |-> IF rows[k].popularity = 0
                                 THEN [rows[k] EXCEPT !.popularity = best(k)] ELSE rows[k]]
  BY DEF Hydrated
<1>4. \A k \in DOMAIN rows : v(k) \in Nat /\ p(k) \in Nat
  BY <1>1, BillAssumption
<1> HIDE DEF h, best, v
<1>5. DOMAIN h = DOMAIN rows /\ h = [k \in DOMAIN rows |-> h[k]]
  BY <1>3
<1>6. \A k \in DOMAIN rows : h[k] \in BillRow /\ h[k].item = rows[k].item /\ h[k].popularity = p(k)
  <2> SUFFICES ASSUME NEW k \in DOMAIN rows
               PROVE  h[k] \in BillRow /\ h[k].item = rows[k].item /\ h[k].popularity = p(k)
    OBVIOUS
  <2>1. CASE rows[k].popularity = 0
    <3>1. h[k] = [rows[k] EXCEPT !.popularity = v(k)]
      BY <1>2, <1>3, <2>1
    <3> QED
      BY <1>1, <1>4, <2>1, <3>1 DEF BillRow
  <2>2. CASE rows[k].popularity # 0
    <3>1. h[k] = rows[k]
      BY <1>3, <2>2
    <3> QED
      BY <1>1, <2>2, <3>1
  <2> QED
    BY <2>1, <2>2
<1>7. h \in [1..Len(rows) -> BillRow]
  BY <1>1, <1>5, <1>6
<1>8. h \in Seq(BillRow)
  BY <1>1, <1>7, SeqDef
<1> QED
  BY <1>5, <1>6, <1>8 DEF h, v

\* The titles of a response that are notable, of those whose popularity is known.
LEMMA NotableLists ==
    ASSUME NEW rows \in Seq(BillRow), NEW pool \in Seq(BillRow), Priced(pool),
           NEW hydrated \in BOOLEAN,
           hydrated => Priced(rows),
           ~hydrated => \A k \in DOMAIN rows : rows[k].popularity = 0
    PROVE  /\ NotableRows(Hydrated(rows, pool)) \in Seq(BillRow)
           /\ OnePerTitle(NotableRows(Hydrated(rows, pool)))
           /\ Titles(NotableRows(Hydrated(rows, pool))) =
                {i \in Titles(rows) : /\ hydrated \/ i \in Titles(pool)
                                      /\ PopularityOf[i] >= Notable}
<1> DEFINE h == Hydrated(rows, pool)
           P == {k \in DOMAIN h : h[k].popularity >= Notable}
           t == Subsequence(h, P)
           good(i) == (hydrated \/ i \in Titles(pool)) /\ PopularityOf[i] >= Notable
<1>1. h \in Seq(BillRow) /\ DOMAIN h = DOMAIN rows /\ \A k \in DOMAIN rows : h[k].item = rows[k].item
  BY HydratedLists
<1>2. \A k \in DOMAIN rows : h[k].popularity >= Notable <=> good(rows[k].item)
  <2> SUFFICES ASSUME NEW k \in DOMAIN rows
               PROVE  h[k].popularity >= Notable <=> good(rows[k].item)
    OBVIOUS
  <2>1. Notable \in Nat /\ Notable > 0
    BY BillAssumption
  <2>2. h[k].popularity = IF rows[k].popularity # 0 THEN rows[k].popularity
                          ELSE IF rows[k].item \in Titles(pool) THEN PopularityOf[rows[k].item] ELSE 0
    BY HydratedLists
  <2>3. hydrated => rows[k].popularity = PopularityOf[rows[k].item]
    BY DEF Priced
  <2> HIDE DEF h
  <2>4. ~hydrated => rows[k].popularity = 0
    OBVIOUS
  <2>5. CASE hydrated
    BY <2>1, <2>2, <2>3, <2>5
  <2>6. CASE ~hydrated
    BY <2>1, <2>2, <2>4, <2>6
  <2> QED
    BY <2>5, <2>6
<1>3. IsPick(t, h, P)
  BY <1>1, SubsequencePicks
<1>4. P \subseteq DOMAIN rows /\ \A k \in DOMAIN rows : k \in P <=> good(rows[k].item)
  BY <1>1, <1>2
<1>5. NotableRows(h) = UniqueById(t)
  BY DEF NotableRows
<1> HIDE DEF h, P, t, good
<1>6. t \in Seq(BillRow)
  BY <1>3 DEF IsPick
<1>7. Titles(t) = {i \in Titles(rows) : good(i)}
  <2>1. ASSUME NEW p \in DOMAIN t PROVE t[p].item \in Titles(rows) /\ good(t[p].item)
    <3>1. PICK k \in P : t[p] = h[k]
      BY <1>3 DEF IsPick
    <3> QED
      BY <1>1, <1>4, <3>1 DEF Titles
  <2>2. ASSUME NEW k \in DOMAIN rows, good(rows[k].item) PROVE rows[k].item \in Titles(t)
    <3>1. PICK p \in DOMAIN t : t[p] = h[k]
      BY <1>3, <1>4, <2>2 DEF IsPick
    <3> QED
      BY <1>1, <3>1 DEF Titles
  <2> QED
    BY <2>1, <2>2 DEF Titles
<1> QED
  BY <1>5, <1>6, <1>7, UniqueLists DEF h, good

-----------------------------------------------------------------------------
(* The loop.                                                                 *)

\* The titles whose turn is place k, and those on the bill before it.
TurnOf(k, known, guessed) == IF k % 2 = 1 THEN known ELSE guessed
Before(out, k) == {out[j].item : j \in 1..(k - 1)}

\* A bill, or the beginning of one.
IsBill(out, known, guessed) ==
    /\ out \in Seq(BillRow) /\ Len(out) <= BillLimit /\ OnePerTitle(out)
    /\ Titles(out) \subseteq known \cup guessed
    /\ \A k \in DOMAIN out : \/ out[k].item \in TurnOf(k, known, guessed)
                             \/ TurnOf(k, known, guessed) \subseteq Before(out, k)

\* The loop of n rows after some turns: no title is lost, and every turn has
\* used up a row.
LoopInv(turn, n, known, guessed, rows) ==
    /\ turn \in [out : Seq(BillRow), pool : Seq(BillRow), guesses : Seq(BillRow)]
    /\ IsBill(turn.out, known, guessed)
    /\ Titles(turn.pool) \subseteq known /\ known \subseteq Titles(turn.out) \cup Titles(turn.pool)
    /\ Titles(turn.guesses) \subseteq guessed
    /\ guessed \subseteq Titles(turn.out) \cup Titles(turn.guesses)
    /\ Len(turn.out) = BillLimit \/ Len(turn.pool) + Len(turn.guesses) + n = rows

\* A row on top of a bill that is not full.
LEMMA PushedKeeps ==
    ASSUME NEW known, NEW guessed, NEW out, IsBill(out, known, guessed), Len(out) # BillLimit,
           NEW row \in BillRow, row.item \in known \cup guessed,
           \/ row.item \in TurnOf(Len(out) + 1, known, guessed)
           \/ TurnOf(Len(out) + 1, known, guessed) \subseteq Titles(out)
    PROVE  /\ IsBill(Pushed(out, row), known, guessed)
           /\ Titles(Pushed(out, row)) = Titles(out) \cup {row.item}
<1>1. CASE row.item \in Titles(out)
  BY <1>1 DEF Pushed
<1>2. CASE row.item \notin Titles(out)
  <2> DEFINE m == Len(out)
             t == Append(out, row)
  <2>1. /\ out \in Seq(BillRow) /\ m \in Nat /\ DOMAIN out = 1..m
        /\ BillLimit \in Nat /\ m < BillLimit /\ Len(out) = m
    BY RowPositions, BillAssumption DEF IsBill
  <2>2. /\ t \in Seq(BillRow) /\ Len(t) = m + 1
        /\ \A k \in 1..m : t[k] = out[k]
        /\ t[m + 1] = row
    <3>1. out \in Seq(BillRow)
      BY <2>1
    <3>2. /\ Append(out, row) \in Seq(BillRow) /\ Len(Append(out, row)) = Len(out) + 1
          /\ \A k \in 1..Len(out) : Append(out, row)[k] = out[k]
          /\ Append(out, row)[Len(out) + 1] = row
      BY <3>1, AppendProperties
    <3> QED
      BY <3>2
  <2>3. DOMAIN t = 1..(m + 1)
    BY <2>2, LenProperties
  <2> HIDE DEF t, m
  <2>4. OnePerTitle(t)
    <3> SUFFICES ASSUME NEW j \in DOMAIN t, NEW k \in DOMAIN t, j # k
                 PROVE  t[j].item # t[k].item
      BY DEF OnePerTitle
    <3>1. \A i \in DOMAIN out : out[i].item # row.item
      BY <1>2 DEF Titles
    <3>2. CASE j \in DOMAIN out /\ k \in DOMAIN out
      BY <2>1, <2>2, <3>2 DEF IsBill, OnePerTitle
    <3>3. CASE j = m + 1
      <4>1. k \in DOMAIN out
        BY <2>1, <2>3, <3>3
      <4> QED
        BY <2>1, <2>2, <3>1, <3>3, <4>1
    <3>4. CASE k = m + 1
      <4>1. j \in DOMAIN out
        BY <2>1, <2>3, <3>4
      <4> QED
        BY <2>1, <2>2, <3>1, <3>4, <4>1
    <3> QED
      BY <2>1, <2>3, <3>2, <3>3, <3>4
  <2>5. Titles(t) = Titles(out) \cup {row.item}
    <3>1. \A k \in DOMAIN t : k \in DOMAIN out \/ k = m + 1
      BY <2>1, <2>3
    <3>2. \A k \in DOMAIN out : k \in DOMAIN t
      BY <2>1, <2>3
    <3>3. m + 1 \in DOMAIN t
      BY <2>1, <2>3
    <3> QED
      BY <2>1, <2>2, <3>1, <3>2, <3>3 DEF Titles
  <2>6. ASSUME NEW k \in DOMAIN t
        PROVE  \/ t[k].item \in TurnOf(k, known, guessed)
               \/ TurnOf(k, known, guessed) \subseteq Before(t, k)
    <3>1. CASE k \in DOMAIN out
      <4>1. Before(t, k) = Before(out, k)
        <5>1. \A j \in 1..(k - 1) : t[j] = out[j]
          BY <2>1, <2>2, <3>1
        <5> QED
          BY <5>1 DEF Before
      <4>2. \/ out[k].item \in TurnOf(k, known, guessed)
            \/ TurnOf(k, known, guessed) \subseteq Before(out, k)
        BY <3>1 DEF IsBill
      <4>3. t[k] = out[k]
        BY <2>1, <2>2, <3>1
      <4> QED
        BY <4>1, <4>2, <4>3
    <3>2. CASE k = m + 1
      <4>1. t[k] = row
        BY <2>2, <3>2
      <4>2. Before(t, k) = Titles(out)
        <5>1. 1..(k - 1) = DOMAIN out
          BY <2>1, <3>2
        <5> QED
          BY <2>1, <2>2, <5>1 DEF Before, Titles
      <4>3. k = Len(out) + 1
        BY <2>1, <3>2
      <4> QED
        BY <4>1, <4>2, <4>3
    <3> QED
      BY <2>1, <2>3, <3>1, <3>2
  <2>7. IsBill(t, known, guessed)
    BY <2>1, <2>2, <2>4, <2>5, <2>6 DEF IsBill
  <2>8. Pushed(out, row) = t
    BY <1>2 DEF Pushed, t
  <2> QED
    BY <2>5, <2>7, <2>8
<1> QED
  BY <1>1, <1>2

\* The rows of a list that is used up from its front.
LEMMA TailRows ==
    ASSUME NEW s \in Seq(BillRow), s # <<>>
    PROVE  /\ Head(s) \in BillRow /\ Tail(s) \in Seq(BillRow) /\ Len(Tail(s)) + 1 = Len(s)
           /\ Titles(s) = Titles(Tail(s)) \cup {Head(s).item}
<1>1. /\ Head(s) \in BillRow /\ Head(s) = s[1]
      /\ Tail(s) \in Seq(BillRow) /\ Len(s) \in Nat \ {0} /\ Len(Tail(s)) = Len(s) - 1
      /\ \A k \in 1..Len(Tail(s)) : Tail(s)[k] = s[k + 1]
  BY HeadTailProperties, EmptySeq, LenProperties
<1>2. DOMAIN s = 1..Len(s) /\ DOMAIN Tail(s) = 1..(Len(s) - 1)
  BY <1>1, LenProperties
<1>3. ASSUME NEW k \in DOMAIN s PROVE s[k].item \in Titles(Tail(s)) \cup {Head(s).item}
  <2>1. CASE k = 1
    BY <1>1, <2>1
  <2>2. CASE k # 1
    <3>1. PICK m : m = k - 1 /\ m \in DOMAIN Tail(s) /\ m + 1 = k
      BY <1>1, <1>2, <2>2
    <3>2. Tail(s)[m] = s[k]
      BY <1>1, <1>2, <3>1
    <3> QED
      BY <3>1, <3>2 DEF Titles
  <2> QED
    BY <2>1, <2>2
<1>4. ASSUME NEW k \in DOMAIN Tail(s) PROVE Tail(s)[k].item \in Titles(s)
  <2>1. k + 1 \in DOMAIN s /\ Tail(s)[k] = s[k + 1]
    BY <1>1, <1>2
  <2> QED
    BY <2>1 DEF Titles
<1>5. Head(s).item \in Titles(s)
  <2>1. 1 \in DOMAIN s
    BY <1>1, <1>2
  <2> QED
    BY <1>1, <2>1 DEF Titles
<1>6. Titles(s) = Titles(Tail(s)) \cup {Head(s).item}
  BY <1>3, <1>4, <1>5 DEF Titles
<1> QED
  BY <1>1, <1>6

\* An empty list has no titles.
LEMMA NoTitles == Titles(<<>>) = {}
BY DEF Titles

\* One turn of the loop.
LEMMA TakenKeeps ==
    ASSUME NEW known, NEW guessed, NEW rows \in Nat, NEW n \in Nat, n + 1 <= rows,
           NEW turn, LoopInv(turn, n, known, guessed, rows)
    PROVE  LoopInv(Taken(turn), n + 1, known, guessed, rows)
<1> DEFINE out == turn.out
           pool == turn.pool
           guesses == turn.guesses
<1>1. /\ turn = [out |-> out, pool |-> pool, guesses |-> guesses]
      /\ out \in Seq(BillRow) /\ pool \in Seq(BillRow) /\ guesses \in Seq(BillRow)
  BY DEF LoopInv
<1>2. Len(out) \in Nat /\ Len(pool) \in Nat /\ Len(guesses) \in Nat
  BY <1>1, LenProperties
<1>3. /\ IsBill(out, known, guessed)
      /\ Titles(pool) \subseteq known /\ known \subseteq Titles(out) \cup Titles(pool)
      /\ Titles(guesses) \subseteq guessed /\ guessed \subseteq Titles(out) \cup Titles(guesses)
      /\ Len(out) = BillLimit \/ Len(pool) + Len(guesses) + n = rows
  BY DEF LoopInv
<1> HIDE DEF out, pool, guesses
<1>4. CASE Len(out) = BillLimit
  <2>1. Taken(turn) = turn
    BY <1>4 DEF Taken, out
  <2> QED
    BY <1>4, <2>1 DEF LoopInv, out
<1>5. CASE Len(out) # BillLimit /\ NextList(turn) = "pool"
  <2>1. pool # <<>>
    <3> SUFFICES ASSUME pool = <<>> PROVE FALSE
      OBVIOUS
    <3>1. guesses = <<>>
      BY <1>5 DEF NextList, pool, guesses
    <3>2. Len(pool) = 0 /\ Len(guesses) = 0
      BY <3>1, EmptySeq
    <3> QED
      BY <1>2, <1>3, <1>5, <3>2
  <2> DEFINE row == Head(pool)
             next == [out |-> Pushed(out, row), pool |-> Tail(pool), guesses |-> guesses]
  <2>2. Taken(turn) = next
    <3>1. turn["pool"] = pool /\ turn.out = out
      BY DEF pool, out
    <3>2. Taken(turn) = [[turn EXCEPT !["pool"] = Tail(pool)] EXCEPT !.out = Pushed(out, row)]
      BY <1>5, <2>1, <3>1 DEF Taken
    <3> QED
      BY <1>1, <3>2
  <2>3. /\ row \in BillRow /\ Tail(pool) \in Seq(BillRow) /\ Len(Tail(pool)) + 1 = Len(pool)
        /\ Titles(pool) = Titles(Tail(pool)) \cup {row.item}
    BY <1>1, <2>1, TailRows
  <2> HIDE DEF row
  <2>4. \/ row.item \in TurnOf(Len(out) + 1, known, guessed)
        \/ TurnOf(Len(out) + 1, known, guessed) \subseteq Titles(out)
    <3>1. CASE guesses = <<>>
      <4>1. guessed \subseteq Titles(out)
        BY <1>3, <3>1, NoTitles
      <4> QED
        BY <1>3, <2>3, <4>1 DEF TurnOf
    <3>2. CASE guesses # <<>>
      <4>1. Len(out) % 2 = 0
        BY <1>5, <3>2 DEF NextList, guesses, out
      <4>2. (Len(out) + 1) % 2 = 1
        BY <1>2, <4>1
      <4> QED
        BY <1>3, <2>3, <4>2 DEF TurnOf
    <3> QED
      BY <3>1, <3>2
  <2>5. IsBill(next.out, known, guessed) /\ Titles(next.out) = Titles(out) \cup {row.item}
    BY <1>3, <1>5, <2>3, <2>4, PushedKeeps
  <2>6. next \in [out : Seq(BillRow), pool : Seq(BillRow), guesses : Seq(BillRow)]
    BY <1>1, <2>3, <2>5 DEF IsBill
  <2>7. /\ Titles(next.pool) \subseteq known /\ known \subseteq Titles(next.out) \cup Titles(next.pool)
        /\ Titles(next.guesses) \subseteq guessed
        /\ guessed \subseteq Titles(next.out) \cup Titles(next.guesses)
    BY <1>3, <2>3, <2>5
  <2>8. Len(next.pool) + Len(next.guesses) + (n + 1) = rows
    <3>1. Len(Tail(pool)) \in Nat
      BY <2>3, LenProperties
    <3>2. Len(pool) + Len(guesses) + n = rows
      BY <1>3, <1>5
    <3> QED
      BY <1>2, <2>3, <3>1, <3>2
  <2> HIDE DEF next
  <2>9. LoopInv(next, n + 1, known, guessed, rows)
    BY <2>5, <2>6, <2>7, <2>8 DEF LoopInv
  <2> QED
    BY <2>2, <2>9
<1>6. CASE Len(out) # BillLimit /\ NextList(turn) = "guesses"
  <2>1. guesses # <<>> /\ (Len(out) % 2 # 0 \/ pool = <<>>)
    BY <1>6 DEF NextList, guesses, out, pool
  <2> DEFINE row == Head(guesses)
             next == [out |-> Pushed(out, row), pool |-> pool, guesses |-> Tail(guesses)]
  <2>2. Taken(turn) = next
    <3>1. turn["guesses"] = guesses /\ turn.out = out
      BY DEF guesses, out
    <3>2. Taken(turn) = [[turn EXCEPT !["guesses"] = Tail(guesses)] EXCEPT !.out = Pushed(out, row)]
      BY <1>6, <2>1, <3>1 DEF Taken
    <3> QED
      BY <1>1, <3>2
  <2>3. /\ row \in BillRow /\ Tail(guesses) \in Seq(BillRow) /\ Len(Tail(guesses)) + 1 = Len(guesses)
        /\ Titles(guesses) = Titles(Tail(guesses)) \cup {row.item}
    BY <1>1, <2>1, TailRows
  <2> HIDE DEF row
  <2>4. \/ row.item \in TurnOf(Len(out) + 1, known, guessed)
        \/ TurnOf(Len(out) + 1, known, guessed) \subseteq Titles(out)
    <3>1. CASE pool = <<>>
      <4>1. known \subseteq Titles(out)
        BY <1>3, <3>1, NoTitles
      <4> QED
        BY <1>3, <2>3, <4>1 DEF TurnOf
    <3>2. CASE pool # <<>>
      <4>1. (Len(out) + 1) % 2 # 1
        BY <1>2, <2>1, <3>2
      <4> QED
        BY <1>3, <2>3, <4>1 DEF TurnOf
    <3> QED
      BY <3>1, <3>2
  <2>5. IsBill(next.out, known, guessed) /\ Titles(next.out) = Titles(out) \cup {row.item}
    BY <1>3, <1>6, <2>3, <2>4, PushedKeeps
  <2>6. next \in [out : Seq(BillRow), pool : Seq(BillRow), guesses : Seq(BillRow)]
    BY <1>1, <2>3, <2>5 DEF IsBill
  <2>7. /\ Titles(next.pool) \subseteq known /\ known \subseteq Titles(next.out) \cup Titles(next.pool)
        /\ Titles(next.guesses) \subseteq guessed
        /\ guessed \subseteq Titles(next.out) \cup Titles(next.guesses)
    BY <1>3, <2>3, <2>5
  <2>8. Len(next.pool) + Len(next.guesses) + (n + 1) = rows
    <3>1. Len(Tail(guesses)) \in Nat
      BY <2>3, LenProperties
    <3>2. Len(pool) + Len(guesses) + n = rows
      BY <1>3, <1>6
    <3> QED
      BY <1>2, <2>3, <3>1, <3>2
  <2> HIDE DEF next
  <2>9. LoopInv(next, n + 1, known, guessed, rows)
    BY <2>5, <2>6, <2>7, <2>8 DEF LoopInv
  <2> QED
    BY <2>2, <2>9
<1>7. NextList(turn) \in {"pool", "guesses"}
  BY DEF NextList
<1> QED
  BY <1>4, <1>5, <1>6, <1>7

\* Induction over the numbers of a set.
LEMMA Upwards ==
    ASSUME NEW P, 0 \in P, \A n \in Nat : n \in P => n + 1 \in P
    PROVE  \A n \in Nat : n \in P
<1> DEFINE R == {p \in Nat \X Nat : p[1] < p[2]}
           Q == {n \in Nat : n \notin P}
<1>1. IsWellFoundedOn(R, Nat)
  BY NatLessThanWellFounded DEF OpToRel
<1>2. ASSUME NEW x \in Q PROVE FALSE
  <2>1. PICK m \in Q : \A j \in Q : ~(<<j, m>> \in R)
    <3>1. Q # {} /\ Q \subseteq Nat
      BY <1>2
    <3> HIDE DEF Q, R
    <3> QED
      BY <1>1, <3>1, WFMin
  <2>2. m \in Nat /\ m # 0 /\ m \notin P
    BY <2>1
  <2>3. m - 1 \in Nat /\ m - 1 < m
    BY <2>2
  <2>4. m - 1 \in P
    BY <2>1, <2>2, <2>3
  <2> QED
    BY <2>2, <2>3, <2>4
<1> QED
  BY <1>2

\* f has the loop after each of its turns.
IsLoop(f, pool, guesses) ==
    f = [n \in 0..(Len(pool) + Len(guesses)) |->
            IF n = 0 THEN Turn(pool, guesses) ELSE Taken(f[n - 1])]

\* The recursion of the turns defines a function.
LEMMA LoopThere ==
    ASSUME NEW pool, NEW guesses, Len(pool) \in Nat, Len(guesses) \in Nat
    PROVE  \E f : IsLoop(f, pool, guesses)
<1> DEFINE Upto(f, n) == f = [k \in 0..n |-> IF k = 0 THEN Turn(pool, guesses) ELSE Taken(f[k - 1])]
           P == {n \in Nat : \E f : Upto(f, n)}
<1>1. 0 \in P
  <2> DEFINE f == [k \in 0..0 |-> Turn(pool, guesses)]
  <2>1. f = [k \in 0..0 |-> IF k = 0 THEN Turn(pool, guesses) ELSE Taken(f[k - 1])]
    OBVIOUS
  <2> QED
    BY <2>1
<1>2. ASSUME NEW n \in Nat, n \in P
      PROVE  n + 1 \in P
  <2> PICK f : Upto(f, n)
    BY <1>2
  <2> DEFINE g == [k \in 0..(n + 1) |-> IF k = n + 1 THEN Taken(f[n]) ELSE f[k]]
  <2>1. ASSUME NEW k \in 0..(n + 1)
        PROVE  g[k] = IF k = 0 THEN Turn(pool, guesses) ELSE Taken(g[k - 1])
    <3>1. CASE k = n + 1
      <4>1. g[k] = Taken(f[n]) /\ g[n] = f[n] /\ k - 1 = n /\ k # 0
        BY <3>1
      <4> QED
        BY <4>1
    <3>2. CASE k \in 0..n
      <4>1. g[k] = f[k] /\ (k # 0 => g[k - 1] = f[k - 1])
        BY <3>2
      <4>2. f[k] = IF k = 0 THEN Turn(pool, guesses) ELSE Taken(f[k - 1])
        BY <3>2
      <4> QED
        BY <4>1, <4>2
    <3> QED
      BY <3>1, <3>2
  <2>2. Upto(g, n + 1)
    BY <2>1
  <2> HIDE DEF g, Upto
  <2> QED
    BY <2>2
<1>3. Len(pool) + Len(guesses) \in P
  <2> HIDE DEF P
  <2>1. \A n \in Nat : n \in P
    BY <1>1, <1>2, Upwards
  <2> QED
    BY <2>1
<1>4. PICK f : Upto(f, Len(pool) + Len(guesses))
  BY <1>3
<1>5. IsLoop(f, pool, guesses)
  BY <1>4 DEF IsLoop
<1> QED
  BY <1>5

\* A bill that is short has every title of both lists.
IsFullBill(out, known, guessed) ==
    /\ IsBill(out, known, guessed)
    /\ Len(out) < BillLimit => known \cup guessed = Titles(out)

\* The loop makes a bill that shares its places.
LEMMA MixedShares ==
    ASSUME NEW pool \in Seq(BillRow), NEW guesses \in Seq(BillRow)
    PROVE  IsFullBill(Mixed(pool, guesses), Titles(pool), Titles(guesses))
<1> DEFINE f == AllTurns(pool, guesses)
           known == Titles(pool)
           guessed == Titles(guesses)
           rows == Len(pool) + Len(guesses)
           Inv(n) == LoopInv(f[n], n, known, guessed, rows)
           P == {n \in Nat : n <= rows => Inv(n)}
<1>1. Len(pool) \in Nat /\ Len(guesses) \in Nat /\ rows \in Nat
  BY LenProperties
<1>2. IsLoop(f, pool, guesses)
  <2> DEFINE t == CHOOSE after :
                    after = [n \in 0..(Len(pool) + Len(guesses)) |->
                                IF n = 0 THEN Turn(pool, guesses) ELSE Taken(after[n - 1])]
  <2>1. IsLoop(t, pool, guesses)
    BY <1>1, LoopThere DEF IsLoop
  <2>2. f = t
    BY DEF AllTurns
  <2> HIDE DEF t, f
  <2> QED
    BY <2>1, <2>2
<1>3. Mixed(pool, guesses) = f[rows].out
  BY DEF Mixed
<1> HIDE DEF f
<1>4. f[0] = Turn(pool, guesses) /\ \A n \in 1..rows : f[n] = Taken(f[n - 1])
  <2>1. \A n \in 0..rows : f[n] = IF n = 0 THEN Turn(pool, guesses) ELSE Taken(f[n - 1])
    BY <1>2 DEF IsLoop
  <2> HIDE DEF rows
  <2> QED
    BY <1>1, <2>1
<1>5. Inv(0)
  <2> DEFINE turn == Turn(pool, guesses)
  <2>1. turn = [out |-> <<>>, pool |-> pool, guesses |-> guesses]
    BY DEF Turn
  <2>2. <<>> \in Seq(BillRow) /\ Len(<<>>) = 0 /\ DOMAIN <<>> = {}
    BY EmptySeq
  <2>3. IsBill(<<>>, known, guessed)
    <3>1. OnePerTitle(<<>>) /\ Titles(<<>>) = {}
      BY <2>2 DEF OnePerTitle, Titles
    <3> HIDE DEF known, guessed
    <3> QED
      BY <2>2, <3>1, BillAssumption DEF IsBill
  <2> HIDE DEF turn, known, guessed
  <2>4. turn.out = <<>> /\ turn.pool = pool /\ turn.guesses = guesses
    BY <2>1
  <2>5. turn \in [out : Seq(BillRow), pool : Seq(BillRow), guesses : Seq(BillRow)]
    BY <2>1, <2>2
  <2>6. Len(turn.pool) + Len(turn.guesses) + 0 = rows
    BY <1>1, <2>4
  <2>7. LoopInv(turn, 0, known, guessed, rows)
    BY <2>3, <2>4, <2>5, <2>6 DEF LoopInv, known, guessed
  <2> QED
    BY <1>4, <2>7 DEF turn
<1> HIDE DEF known, guessed, rows
<1>6. ASSUME NEW n \in Nat, n \in P PROVE n + 1 \in P
  <2> SUFFICES ASSUME n + 1 <= rows PROVE Inv(n + 1)
    OBVIOUS
  <2>1. Inv(n)
    BY <1>1, <1>6
  <2>2. PICK m : m = n + 1 /\ m - 1 = n /\ m \in 1..rows
    BY <1>1
  <2>3. f[m] = Taken(f[n])
    BY <1>4, <2>2
  <2>4. LoopInv(Taken(f[n]), n + 1, known, guessed, rows)
    BY <1>1, <2>1, TakenKeeps
  <2> QED
    BY <2>2, <2>3, <2>4
<1>7. rows \in P
  <2>1. 0 \in P
    BY <1>5
  <2> HIDE DEF P
  <2>2. \A n \in Nat : n \in P
    BY <1>6, <2>1, Upwards
  <2> QED
    BY <1>1, <2>2
<1>8. LoopInv(f[rows], rows, known, guessed, rows)
  BY <1>1, <1>7
<1> DEFINE turn == f[rows]
<1>9. Len(turn.out) < BillLimit => known \cup guessed = Titles(turn.out)
  <2> SUFFICES ASSUME Len(turn.out) < BillLimit PROVE known \cup guessed = Titles(turn.out)
    OBVIOUS
  <2> HIDE DEF turn
  <2>1. LoopInv(turn, rows, known, guessed, rows)
    BY <1>8 DEF turn
  <2>2. Len(turn.out) \in Nat /\ Len(turn.pool) \in Nat /\ Len(turn.guesses) \in Nat
    BY <2>1, LenProperties DEF LoopInv
  <2>3. Len(turn.pool) + Len(turn.guesses) + rows = rows
    BY <2>1, <2>2, BillAssumption DEF LoopInv
  <2>4. Len(turn.pool) = 0 /\ Len(turn.guesses) = 0
    <3>1. ASSUME NEW a \in Nat, NEW b \in Nat, a + b + rows = rows
          PROVE  a = 0 /\ b = 0
      BY <1>1, <3>1
    <3> QED
      BY <2>2, <2>3, <3>1
  <2>5. turn.pool = <<>> /\ turn.guesses = <<>>
    BY <2>1, <2>4, EmptySeq DEF LoopInv
  <2>6. Titles(turn.pool) = {} /\ Titles(turn.guesses) = {}
    BY <2>5, NoTitles
  <2> QED
    BY <2>1, <2>6 DEF LoopInv, IsBill
<1>10. IsBill(turn.out, known, guessed)
  BY <1>8 DEF LoopInv
<1> QED
  BY <1>3, <1>9, <1>10 DEF IsFullBill, known, guessed

-----------------------------------------------------------------------------
(* The bill of a response.                                                   *)

\* The lists the bill of response q is made of.
PoolOf(q, items, banned) == UniqueById(Shown(Shelf(items), q, banned))
GuessesOf(q, hydrated, items, banned) ==
    NotableRows(Hydrated(Shown(Picks(q, hydrated), q, banned), PoolOf(q, items, banned)))

\* The titles of those lists.
KnownTo(q, items, banned) == {items[k] : k \in DOMAIN items} \ (banned \cup Judged(q.feats))
GuessedFor(q, hydrated, items, banned) ==
    {i \in {q.feed[k].item : k \in DOMAIN q.feed} \ (banned \cup Judged(q.feats)) :
        /\ hydrated \/ i \in KnownTo(q, items, banned)
        /\ PopularityOf[i] >= Notable}

\* The titles of both lists, and that neither repeats one.
LEMMA BillLists ==
    ASSUME NEW q, q.feed \in Seq(Entry), NEW hydrated \in BOOLEAN,
           NEW items \in Seq(Item), NEW banned
    PROVE  /\ PoolOf(q, items, banned) \in Seq(BillRow)
           /\ OnePerTitle(PoolOf(q, items, banned))
           /\ Titles(PoolOf(q, items, banned)) = KnownTo(q, items, banned)
           /\ GuessesOf(q, hydrated, items, banned) \in Seq(BillRow)
           /\ OnePerTitle(GuessesOf(q, hydrated, items, banned))
           /\ Titles(GuessesOf(q, hydrated, items, banned)) = GuessedFor(q, hydrated, items, banned)
<1> DEFINE shelf == Shelf(items)
           seen  == Shown(shelf, q, banned)
           pool  == PoolOf(q, items, banned)
           picks == Picks(q, hydrated)
           rows  == Shown(picks, q, banned)
           out   == banned \cup Judged(q.feats)
<1>1. /\ shelf \in Seq(BillRow) /\ Priced(shelf)
      /\ Titles(shelf) = {items[k] : k \in DOMAIN items}
  BY ShelfLists
<1>2. /\ picks \in Seq(BillRow)
      /\ hydrated => Priced(picks)
      /\ ~hydrated => \A k \in DOMAIN picks : picks[k].popularity = 0
      /\ Titles(picks) = {q.feed[k].item : k \in DOMAIN q.feed}
  BY PicksLists
<1>3. pool = UniqueById(seen) /\ GuessesOf(q, hydrated, items, banned) = NotableRows(Hydrated(rows, pool))
  BY DEF PoolOf, GuessesOf
<1> HIDE DEF shelf, picks, pool
<1>4. seen \in Seq(BillRow) /\ RowsOf(seen, shelf) /\ Titles(seen) = Titles(shelf) \ out
  BY <1>1, ShownLists
<1>5. rows \in Seq(BillRow) /\ RowsOf(rows, picks) /\ Titles(rows) = Titles(picks) \ out
  BY <1>2, ShownLists
<1> HIDE DEF seen, rows, out
<1>6. /\ pool \in Seq(BillRow) /\ OnePerTitle(pool) /\ RowsOf(pool, seen)
      /\ Titles(pool) = Titles(seen)
  BY <1>3, <1>4, UniqueLists
<1>7. Priced(pool)
  BY <1>1, <1>4, <1>6, RowsStayPriced
<1>8. /\ hydrated => Priced(rows)
      /\ ~hydrated => \A k \in DOMAIN rows : rows[k].popularity = 0
  BY <1>2, <1>5, RowsStayPriced
<1>9. /\ NotableRows(Hydrated(rows, pool)) \in Seq(BillRow)
      /\ OnePerTitle(NotableRows(Hydrated(rows, pool)))
      /\ Titles(NotableRows(Hydrated(rows, pool))) =
            {i \in Titles(rows) : (hydrated \/ i \in Titles(pool)) /\ PopularityOf[i] >= Notable}
  BY <1>5, <1>6, <1>7, <1>8, NotableLists
<1>10. Titles(pool) = KnownTo(q, items, banned)
  BY <1>1, <1>4, <1>6 DEF KnownTo, out
<1>11. GuessedFor(q, hydrated, items, banned) =
            {i \in Titles(rows) : (hydrated \/ i \in Titles(pool)) /\ PopularityOf[i] >= Notable}
  BY <1>2, <1>5, <1>10 DEF GuessedFor, out
<1> QED
  BY <1>3, <1>6, <1>9, <1>10, <1>11 DEF pool

\* Whichever way it is made, a bill is one.
LEMMA BillIsOne ==
    ASSUME NEW q, q.feed \in Seq(Entry), NEW hydrated \in BOOLEAN,
           NEW items \in Seq(Item), NEW banned
    PROVE  /\ ForYou(q, hydrated, items, banned) \in Seq(BillRow)
           /\ Len(ForYou(q, hydrated, items, banned)) <= BillLimit
           /\ OnePerTitle(ForYou(q, hydrated, items, banned))
           /\ Titles(ForYou(q, hydrated, items, banned)) \cap (banned \cup Judged(q.feats)) = {}
<1> DEFINE pool    == PoolOf(q, items, banned)
           guesses == GuessesOf(q, hydrated, items, banned)
           bill    == ForYou(q, hydrated, items, banned)
           out     == banned \cup Judged(q.feats)
<1>1. /\ pool \in Seq(BillRow) /\ OnePerTitle(pool)
      /\ guesses \in Seq(BillRow) /\ OnePerTitle(guesses)
      /\ Titles(pool) = KnownTo(q, items, banned)
      /\ Titles(guesses) = GuessedFor(q, hydrated, items, banned)
  BY BillLists
<1>2. Titles(pool) \cap out = {} /\ Titles(guesses) \cap out = {}
  BY <1>1 DEF KnownTo, GuessedFor
<1>3. bill \in {FirstOf(pool, BillLimit), FirstOf(guesses, BillLimit), Mixed(pool, guesses)}
  BY DEF ForYou, MixTonightBill, PoolOf, GuessesOf
<1> HIDE DEF pool, guesses, bill, out
<1>4. CASE bill = FirstOf(pool, BillLimit)
  BY <1>1, <1>2, <1>4, CutLists DEF bill, out
<1>5. CASE bill = FirstOf(guesses, BillLimit)
  BY <1>1, <1>2, <1>5, CutLists DEF bill, out
<1>6. CASE bill = Mixed(pool, guesses)
  <2>1. IsBill(bill, Titles(pool), Titles(guesses))
    BY <1>1, <1>6, MixedShares DEF IsFullBill
  <2> QED
    BY <1>2, <2>1 DEF IsBill, bill, out
<1> QED
  BY <1>3, <1>4, <1>5, <1>6

\* With few likes and something to guess, the bill is the loop's.
LEMMA BillIsMixed ==
    ASSUME NEW q, q.feed \in Seq(Entry), NEW hydrated \in BOOLEAN,
           NEW items \in Seq(Item), NEW banned,
           IsFiniteSet(q.feats.liked), q.feats.liked # {}, Cardinality(q.feats.liked) < SureLikes,
           GuessedFor(q, hydrated, items, banned) # {}
    PROVE  IsFullBill(ForYou(q, hydrated, items, banned),
                      KnownTo(q, items, banned), GuessedFor(q, hydrated, items, banned))
<1> DEFINE pool    == PoolOf(q, items, banned)
           guesses == GuessesOf(q, hydrated, items, banned)
           likes   == Cardinality(q.feats.liked)
<1>1. likes \in Nat /\ likes # 0
  BY FS_CardinalityType, FS_EmptySet
<1>2. ~(likes >= SureLikes)
  BY <1>1, BillAssumption
<1>3. /\ pool \in Seq(BillRow) /\ guesses \in Seq(BillRow)
      /\ Titles(pool) = KnownTo(q, items, banned)
      /\ Titles(guesses) = GuessedFor(q, hydrated, items, banned)
  BY BillLists
<1>4. guesses # <<>>
  BY <1>3, NoTitles
<1>5. ForYou(q, hydrated, items, banned) =
        IF likes = 0 \/ guesses = <<>>
        THEN FirstOf(pool, BillLimit)
        ELSE IF likes >= SureLikes /\ Len(guesses) >= Min({EnoughNotables, BillLimit})
        THEN FirstOf(guesses, BillLimit)
        ELSE Mixed(pool, guesses)
  BY DEF ForYou, MixTonightBill, PoolOf, GuessesOf
<1> HIDE DEF pool, guesses, likes
<1>6. ForYou(q, hydrated, items, banned) = Mixed(pool, guesses)
  BY <1>1, <1>2, <1>4, <1>5
<1> QED
  BY <1>3, <1>6, MixedShares

\* A user has liked finitely many titles.
LikedInv ==
    /\ IsFiniteSet(stored.liked)
    /\ \A r \in Request : IsFiniteSet(req[r].feats.liked)

\* Nothing is liked at first.
LEMMA LikedInvInit == Init => LikedInv
<1> SUFFICES ASSUME Init PROVE LikedInv
  OBVIOUS
<1>1. Unknown.liked = {} /\ Blank.feats = Unknown
  BY DEF Unknown, Blank
<1>2. stored = Unknown /\ \A r \in Request : req[r] = Blank
  BY DEF Init
<1> QED
  BY <1>1, <1>2, FS_EmptySet DEF LikedInv

\* A step of one request with the features it has, the stored ones or none.
LEMMA OneLiked ==
    ASSUME FlagInv, LikedInv, NEW r \in Request, NEW q,
           req' = [req EXCEPT ![r] = q], stored' = stored,
           q.feats \in {req[r].feats, stored, Unknown}
    PROVE  LikedInv'
<1>1. IsFiniteSet(Unknown.liked)
  BY FS_EmptySet DEF Unknown
<1>2. IsFiniteSet(q.feats.liked)
  BY <1>1 DEF LikedInv
<1> QED
  BY <1>2 DEF FlagInv, LikedInv

\* A judgement adds one title; a request takes the stored features, none, or keeps its own.
LEMMA LikedInvStep == FlagInv /\ LikedInv /\ [Next]_vars => LikedInv'
<1> SUFFICES ASSUME FlagInv, LikedInv, [Next]_vars
             PROVE  LikedInv'
  OBVIOUS
<1> DEFINE keeps(r, q) == /\ req' = [req EXCEPT ![r] = q] /\ stored' = stored
                          /\ q.feats \in {req[r].feats, stored, Unknown}
<1>1. CASE UNCHANGED vars
  BY <1>1 DEF vars, LikedInv
<1>2. ASSUME NEW i \in Item, NEW liked \in BOOLEAN, Judge(i, liked) PROVE LikedInv'
  <2>1. req' = req /\ stored'.liked = (IF liked THEN stored.liked \cup {i} ELSE stored.liked \ {i})
    BY <1>2 DEF Judge
  <2>2. IsFiniteSet(stored.liked \cup {i}) /\ IsFiniteSet(stored.liked \ {i})
    BY FS_AddElement, FS_RemoveElement DEF LikedInv
  <2> QED
    BY <2>1, <2>2 DEF LikedInv
<1>3. ASSUME NEW r \in Request, NEW v \in Variant, NEW g \in Category \cup {NoGenre}, Arrive(r, v, g)
      PROVE  \E q : keeps(r, q)
  <2> DEFINE q == [req[r] EXCEPT !.stage = "features", !.variant = v, !.genre = g,
                                 !.before = Judged(stored)]
  <2>1. req' = [req EXCEPT ![r] = q] /\ stored' = stored
    BY <1>3 DEF Arrive
  <2>2. q.feats = req[r].feats
    BY DEF FlagInv, Fields
  <2> QED
    BY <2>1, <2>2
<1>4. ASSUME NEW r \in Request, LookupFeatures(r) PROVE \E q : keeps(r, q)
  <2> DEFINE found == WithFeatures(req[r], stored)
             lost  == WithoutFeatures(req[r])
  <2>1. found.feats = stored /\ lost.feats = Unknown
    BY DEF FlagInv, Fields, WithFeatures, WithoutFeatures, Fallback
  <2>2. /\ req' = [req EXCEPT ![r] = found] \/ req' = [req EXCEPT ![r] = lost]
        /\ stored' = stored
    BY <1>4 DEF LookupFeatures, FlagInv
  <2> HIDE DEF found, lost
  <2> QED
    BY <2>1, <2>2
<1>5. ASSUME NEW r \in Request, LookupCandidates(r) PROVE \E q : keeps(r, q)
  <2>1. stored' = stored
    BY <1>5 DEF LookupCandidates
  <2>2. WithoutRetrieval(req[r]).feats = req[r].feats
    BY DEF FlagInv, Fields, WithoutRetrieval, GoCached, Fallback
  <2>3. ASSUME NEW cands PROVE WithCandidates(req[r], cands).feats = req[r].feats
    BY DEF FlagInv, Fields, WithCandidates, GoCached, Fallback
  <2>4. CASE req' = [req EXCEPT ![r] = WithoutRetrieval(req[r])]
    BY <2>1, <2>2, <2>4
  <2>5. ASSUME NEW list \in Retrieved,
               req' = [req EXCEPT ![r] = WithCandidates(req[r], Described(list))]
        PROVE  \E q : keeps(r, q)
    BY <2>1, <2>3, <2>5
  <2>6. \/ req' = [req EXCEPT ![r] = WithoutRetrieval(req[r])]
        \/ \E list \in Retrieved : req' = [req EXCEPT ![r] = WithCandidates(req[r], Described(list))]
    BY <1>5 DEF LookupCandidates, FlagInv
  <2> QED
    BY <2>4, <2>5, <2>6
<1>6. ASSUME NEW r \in Request, LookupCached(r) PROVE \E q : keeps(r, q)
  <2>1. PICK cands : req' = [req EXCEPT ![r] = [req[r] EXCEPT !.stage = "rank", !.cands = cands]]
    BY <1>6 DEF LookupCached, FlagInv
  <2> DEFINE q == [req[r] EXCEPT !.stage = "rank", !.cands = cands]
  <2>2. stored' = stored /\ q.feats = req[r].feats
    BY <1>6 DEF LookupCached, FlagInv, Fields
  <2> QED
    BY <2>1, <2>2
<1>7. ASSUME NEW r \in Request, Rank(r) PROVE \E q : keeps(r, q)
  <2> DEFINE old == req[r]
             plain  == RankedFrom(old.cands)
             failed == [Fallback(old, "ranker_unavailable") EXCEPT !.stage = "respond", !.ranked = plain]
             more == [failed EXCEPT !.failed = @ \cup {"rank"}]
             ranked(list) == [old EXCEPT !.stage = "respond", !.ranked = list, !.useRanker = TRUE]
             left == [old EXCEPT !.stage = "respond",
                                 !.ranked = IF old.variant = "control" THEN Sorted(plain) ELSE plain]
  <2>1. DOMAIN old = Fields
    BY DEF FlagInv
  <2>2. /\ stored' = stored
        /\ \/ \E list : req' = [req EXCEPT ![r] = ranked(list)]
           \/ req' = [req EXCEPT ![r] = failed]
           \/ req' = [req EXCEPT ![r] = more]
           \/ req' = [req EXCEPT ![r] = left]
    BY <1>7 DEF Rank
  <2> HIDE DEF plain, old
  <2>3. failed.feats = old.feats /\ more.feats = old.feats
    BY <2>1 DEF Fallback, Fields
  <2>4. left.feats = old.feats /\ \A list : ranked(list).feats = old.feats
    BY <2>1 DEF Fields
  <2> HIDE DEF failed, more, left, ranked
  <2> QED
    BY <2>2, <2>3, <2>4 DEF old
<1>8. ASSUME NEW r \in Request, Respond(r) PROVE \E q : keeps(r, q)
  <2> DEFINE q == [req[r] EXCEPT !.stage = "done", !.feed = Feed(req[r])]
  <2>1. req' = [req EXCEPT ![r] = q] /\ stored' = stored
    BY <1>8 DEF Respond
  <2>2. q.feats = req[r].feats
    BY DEF FlagInv, Fields
  <2> QED
    BY <2>1, <2>2
<1>9. ASSUME NEW r \in Request, \E q : keeps(r, q) PROVE LikedInv'
  BY <1>9, OneLiked
<1> HIDE DEF keeps
<1>10. CASE \E r \in Request, v \in Variant, g \in Category \cup {NoGenre} : Arrive(r, v, g)
  BY <1>3, <1>9, <1>10
<1>11. CASE \E r \in Request : Advance(r)
  BY <1>4, <1>5, <1>6, <1>7, <1>8, <1>9, <1>11 DEF Advance
<1> QED
  BY <1>1, <1>2, <1>10, <1>11 DEF Next

\* All three invariants hold in every reachable state.
LEMMA AlwaysLiked == Spec => [](FlagInv /\ ServeInv /\ LikedInv)
BY FlagInvInit, FlagInvStep, ServeInvInit, ServeInvStep, LikedInvInit, LikedInvStep, PTL DEF Spec

\* The feed of a response is a list of entries.
LEMMA DoneFeed ==
    ASSUME ServeInv, NEW r \in Request, Done(r)
    PROVE  req[r].feed \in Seq(Entry)
<1> DEFINE q == req[r]
<1>1. ListsOf(q) /\ q.stage = "done"
  BY DEF ServeInv, Done
<1> HIDE DEF q
<1>2. q.ranked \in Seq(Entry) /\ Consistent(q.ranked) /\ q.feed = Feed(q)
  BY <1>1 DEF ListsOf
<1>3. q.feed \in Seq(Entry)
  BY <1>2, FeedIsBest
<1> QED
  BY <1>3 DEF q

\* A list with one row for each title has as many titles as rows.
LEMMA TitlesCount ==
    ASSUME NEW s \in Seq(BillRow), OnePerTitle(s)
    PROVE  Cardinality(Titles(s)) = Len(s)
<1> DEFINE f == [k \in 1..Len(s) |-> s[k].item]
<1>1. Len(s) \in Nat /\ DOMAIN s = 1..Len(s)
  BY RowPositions
<1>2. f \in [1..Len(s) -> Titles(s)] /\ \A k \in 1..Len(s) : f[k] = s[k].item
  BY <1>1 DEF Titles
<1>3. \A j, k \in 1..Len(s) : f[j] = f[k] => j = k
  BY <1>1, <1>2 DEF OnePerTitle
<1>4. \A i \in Titles(s) : \E k \in 1..Len(s) : f[k] = i
  BY <1>1, <1>2 DEF Titles
<1> HIDE DEF f
<1>5. f \in Bijection(1..Len(s), Titles(s))
  BY <1>2, <1>3, <1>4, Fun_IsBij, Fun_IsInj, Fun_IsSurj DEF Bijection
<1>6. IsFiniteSet(1..Len(s)) /\ Cardinality(1..Len(s)) = Len(s)
  <2>1. 1 \in Int /\ Len(s) \in Int
    BY <1>1
  <2>2. /\ IsFiniteSet(1..Len(s))
        /\ Cardinality(1..Len(s)) = IF 1 > Len(s) THEN 0 ELSE Len(s) - 1 + 1
    BY <2>1, FS_Interval
  <2> QED
    BY <1>1, <2>2
<1>7. Cardinality(Titles(s)) = Cardinality(1..Len(s))
  BY <1>5, <1>6, FS_Bijection DEF ExistsBijection
<1> QED
  BY <1>6, <1>7

\* A bill is never too long, repeats no title, and has none that the page shows
\* already or that the response knew to be judged (push in bill.ts, and the
\* filters of loadForYou in page.tsx).
THEOREM BillsRepeatNothing == Spec => []BillRepeatsNothing
<1>1. ServeInv => BillRepeatsNothing
  <2> SUFFICES ASSUME ServeInv, NEW r \in Request, Done(r), NEW hydrated \in BOOLEAN,
                      NEW items \in CatalogAnswers, NEW banned \in Lobbies
               PROVE  LET bill == ForYou(req[r], hydrated, items, banned) IN
                      /\ Len(bill) <= BillLimit
                      /\ Cardinality(Titles(bill)) = Len(bill)
                      /\ Titles(bill) \cap (banned \cup Judged(req[r].feats)) = {}
    BY DEF BillRepeatsNothing
  <2> DEFINE bill == ForYou(req[r], hydrated, items, banned)
  <2>1. items \in Seq(Item) /\ req[r].feed \in Seq(Entry)
    BY BillAssumption, DoneFeed
  <2>2. /\ bill \in Seq(BillRow) /\ Len(bill) <= BillLimit /\ OnePerTitle(bill)
        /\ Titles(bill) \cap (banned \cup Judged(req[r].feats)) = {}
    BY <2>1, BillIsOne
  <2> HIDE DEF bill
  <2>3. Cardinality(Titles(bill)) = Len(bill)
    BY <2>2, TitlesCount
  <2> QED
    BY <2>2, <2>3 DEF bill
<1> QED
  BY AlwaysServed, <1>1, PTL

\* A bill for a user with few likes gives its odd places to known titles and the
\* even ones to the model's notable picks, as long as there are any, and a short
\* bill has all of both (the loop of mixTonightBill in bill.ts).
THEOREM BillsShareTheirPlaces == Spec => []BillSharesItsPlaces
<1>1. ServeInv /\ LikedInv => BillSharesItsPlaces
  <2> SUFFICES ASSUME ServeInv, LikedInv, NEW r \in Request, Done(r), NEW hydrated \in BOOLEAN,
                      NEW items \in CatalogAnswers, NEW banned \in Lobbies
               PROVE  LET q       == req[r]
                          bill    == ForYou(q, hydrated, items, banned)
                          before(k) == {bill[j].item : j \in 1..(k - 1)}
                          known   == KnownTo(q, items, banned)
                          guesses == GuessedFor(q, hydrated, items, banned)
                      IN  (q.feats.liked # {} /\ Cardinality(q.feats.liked) < SureLikes /\ guesses # {}) =>
                            /\ \A k \in DOMAIN bill :
                                LET turn == IF k % 2 = 1 THEN known ELSE guesses
                                IN  bill[k].item \in turn \/ turn \subseteq before(k)
                            /\ Len(bill) < BillLimit => known \cup guesses = Titles(bill)
    BY DEF BillSharesItsPlaces, KnownTo, GuessedFor
  <2> DEFINE q       == req[r]
             bill    == ForYou(q, hydrated, items, banned)
             known   == KnownTo(q, items, banned)
             guesses == GuessedFor(q, hydrated, items, banned)
  <2>1. SUFFICES ASSUME q.feats.liked # {}, Cardinality(q.feats.liked) < SureLikes, guesses # {}
                 PROVE  /\ \A k \in DOMAIN bill : \/ bill[k].item \in TurnOf(k, known, guesses)
                                                  \/ TurnOf(k, known, guesses) \subseteq Before(bill, k)
                        /\ Len(bill) < BillLimit => known \cup guesses = Titles(bill)
    BY DEF TurnOf, Before
  <2>2. items \in Seq(Item) /\ q.feed \in Seq(Entry) /\ IsFiniteSet(q.feats.liked)
    BY BillAssumption, DoneFeed DEF LikedInv
  <2>3. IsFullBill(bill, known, guesses)
    BY <2>1, <2>2, BillIsMixed
  <2> QED
    BY <2>3 DEF IsFullBill, IsBill
<1> QED
  BY AlwaysLiked, <1>1, PTL

=============================================================================
