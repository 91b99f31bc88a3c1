------------------------ MODULE TrainingLists_proof ------------------------
(* What TrainingLists promises of the ranker's data, for any table of      *)
(* ratings, fractions, instants and caps: the split keeps time and loses   *)
(* no interaction; a list's negatives were not interacted with; a list's   *)
(* features are those of an engine fed the user's earlier events; and the  *)
(* state an evaluated user is ranked with holds the train events alone.    *)
(*                                                                         *)
(* The cuts are order statistics, and that a table has them is most of the *)
(* first theorem: without it nothing is known of how a row compares with a *)
(* cut.  The last two rest on replays: the engine of the walk is at every  *)
(* point the replay of the walked rows in some order of their times, and a *)
(* replay of rows holds one record per row, up to the cap.                 *)
EXTENDS TrainingLists, FiniteSetTheorems, FunctionTheorems, SequenceTheorems, TLAPS

-----------------------------------------------------------------------------
(* Order statistics of a finite set of rows.                               *)

\* A nonempty family of subsets of a finite set has a member without a smaller
\* one in the family.
LEMMA MinimalMember ==
    ASSUME NEW S, IsFiniteSet(S),
           NEW F, F \subseteq SUBSET S, F # {}
    PROVE  \E A \in F : \A B \in F : B \subseteq A => B = A
<1>1. IsWellFoundedOn(StrictSubsetOrdering(S), FiniteSubsetsOf(S))
  BY FS_StrictSubsetOrderingWellFounded
<1>2. F \subseteq FiniteSubsetsOf(S)
  BY FS_Subset DEF FiniteSubsetsOf
<1>3. PICK A \in F : \A B \in F : ~(<<B, A>> \in StrictSubsetOrdering(S))
  BY <1>1, <1>2, WFMin
<1> QED
  BY <1>3 DEF StrictSubsetOrdering

\* Some row is at least as late as all others.
LEMMA LatestRow ==
    ASSUME NEW rows, IsFiniteSet(rows), rows # {}, \A r \in rows : r.at \in Int
    PROVE  \E r \in rows : \A q \in rows : q.at <= r.at
<1> DEFINE Later(r) == {q \in rows : q.at > r.at}
           F        == {Later(r) : r \in rows}
<1>1. PICK A \in F : \A B \in F : B \subseteq A => B = A
  <2>1. F \subseteq SUBSET rows /\ F # {}
    OBVIOUS
  <2> HIDE DEF F
  <2> QED
    BY <2>1, MinimalMember
<1>2. PICK r \in rows : A = Later(r)
  BY <1>1
<1>3. ASSUME NEW q \in rows, q.at > r.at PROVE FALSE
  <2>1. Later(q) \subseteq A /\ q \in A /\ q \notin Later(q)
    BY <1>2, <1>3
  <2> QED
    BY <1>1, <2>1
<1> QED
  BY <1>3

\* Of N rows, each n from 1 to N has an n-th smallest timestamp.
LEMMA NthTimeIsThere ==
    ASSUME NEW rows, IsFiniteSet(rows), \A r \in rows : r.at \in Int,
           NEW n \in 1..Cardinality(rows)
    PROVE  LET t == NthTime(rows, n) IN
           /\ t \in {r.at : r \in rows}
           /\ Cardinality({r \in rows : r.at < t}) < n
           /\ Cardinality({r \in rows : r.at <= t}) >= n
<1> DEFINE UpTo(t)   == {r \in rows : r.at <= t}
           Before(t) == {r \in rows : r.at < t}
           F         == {B \in SUBSET rows :
                            Cardinality(B) >= n /\ \E r \in rows : B = UpTo(r.at)}
<1>1. Cardinality(rows) \in Nat /\ n \in Nat /\ n >= 1 /\ n <= Cardinality(rows)
  BY FS_CardinalityType
<1>2. F # {}
  <2>1. PICK r \in rows : \A q \in rows : q.at <= r.at
    <3>1. rows # {}
      BY <1>1, FS_EmptySet
    <3> QED
      BY <3>1, LatestRow
  <2>2. UpTo(r.at) = rows
    BY <2>1
  <2>3. rows \in F
    BY <1>1, <2>2
  <2> QED
    BY <2>3
<1>3. PICK A \in F : \A B \in F : B \subseteq A => B = A
  <2>1. F \subseteq SUBSET rows
    OBVIOUS
  <2> HIDE DEF F
  <2> QED
    BY <1>2, <2>1, MinimalMember
<1>4. PICK r \in rows : A = UpTo(r.at)
  BY <1>3
<1>5. Cardinality(UpTo(r.at)) >= n
  BY <1>3, <1>4
<1>6. Cardinality(Before(r.at)) < n
  <2> SUFFICES ASSUME ~(Cardinality(Before(r.at)) < n) PROVE FALSE
    OBVIOUS
  <2>1. IsFiniteSet(Before(r.at)) /\ Cardinality(Before(r.at)) \in Nat
    BY FS_Subset, FS_CardinalityType
  <2>2. Cardinality(Before(r.at)) >= n
    BY <1>1, <2>1
  <2>3. PICK q \in Before(r.at) : \A p \in Before(r.at) : p.at <= q.at
    <3>1. Before(r.at) # {}
      BY <1>1, <2>2, FS_EmptySet
    <3> QED
      BY <2>1, <3>1, LatestRow
  <2>4. UpTo(q.at) = Before(r.at)
    BY <2>3
  <2>5. UpTo(q.at) \in F
    BY <2>2, <2>3, <2>4
  <2>6. UpTo(q.at) \subseteq A /\ r \in A /\ r \notin UpTo(q.at)
    BY <1>4, <2>4
  <2> QED
    BY <1>3, <2>5, <2>6
<1> QED
  <2>1. \E t \in {x.at : x \in rows} :
            Cardinality(Before(t)) < n /\ Cardinality(UpTo(t)) >= n
    BY <1>5, <1>6
  <2> QED
    BY <2>1 DEF NthTime

-----------------------------------------------------------------------------
(* The cuts.                                                               *)

\* A share of N rows is one of the places 1 to N.
LEMMA PlaceInRange ==
    ASSUME NEW N \in Nat \ {0}, NEW percent \in 0..100
    PROVE  1 + (percent * (N - 1) + 50) \div 100 \in 1..N
<1>1. percent * (N - 1) \in Nat /\ percent * (N - 1) <= 100 * (N - 1)
  OBVIOUS
<1> QED
  BY <1>1

\* A quantile of a table is the timestamp of one of its rows.
LEMMA QuantileIsThere ==
    ASSUME NEW rows, IsFiniteSet(rows), rows # {}, \A r \in rows : r.at \in Int,
           NEW percent \in 0..100
    PROVE  Quantile(rows, percent) \in {r.at : r \in rows}
<1>1. Cardinality(rows) \in Nat \ {0}
  BY FS_CardinalityType, FS_EmptySet
<1> QED
  BY <1>1, PlaceInRange, NthTimeIsThere DEF Quantile

\* Nothing is lost between the parts (split.py, temporal_split).
LEMMA PartsCover ==
    ASSUME NEW rows, IsFiniteSet(rows), rows # {}, \A r \in rows : r.at \in Int
    PROVE  PartsOf(rows).train \cup PartsOf(rows).val \cup PartsOf(rows).test = rows
<1> DEFINE s == TrainEnd(rows)
           e == ValEnd(rows)
<1>1. s \in Int /\ e \in Int
  <2>1. TrainPercent \in 0..100 /\ TrainPercent + ValPercent \in 0..100
    BY TrainingAssumption
  <2> QED
    BY <2>1, QuantileIsThere DEF TrainEnd, ValEnd
<1> HIDE DEF s, e
<1> SUFFICES {r \in rows : r.at < s} \cup {r \in rows : r.at >= s /\ r.at < e}
                \cup {r \in rows : r.at >= e} = rows
  BY DEF PartsOf, From, s, e
<1> QED
  BY <1>1

\* The places of the two cuts among N rows: the first is not the first row,
\* the second is further on, if each fraction is worth a row.
LEMMA CutsApart ==
    ASSUME NEW N \in Nat, (N - 1) * ValPercent >= 100, (N - 1) * TrainPercent >= 50
    PROVE  LET first  == 1 + (TrainPercent * (N - 1) + 50) \div 100
               second == 1 + ((TrainPercent + ValPercent) * (N - 1) + 50) \div 100
           IN  /\ N > 0
               /\ first \in 2..N /\ second \in 1..N
               /\ first < second
<1> USE TrainingAssumption
<1>1. N > 0
  <2> SUFFICES ASSUME N = 0 PROVE FALSE
    OBVIOUS
  <2> QED
    OBVIOUS
<1>2. /\ 1 + (TrainPercent * (N - 1) + 50) \div 100 \in 1..N
      /\ 1 + ((TrainPercent + ValPercent) * (N - 1) + 50) \div 100 \in 1..N
  <2>1. TrainPercent \in 0..100 /\ TrainPercent + ValPercent \in 0..100
    OBVIOUS
  <2>2. N \in Nat \ {0}
    BY <1>1
  <2> QED
    BY <2>1, <2>2, PlaceInRange
<1> DEFINE x == TrainPercent * (N - 1)
           y == ValPercent * (N - 1)
<1>3. /\ x \in Nat /\ y \in Nat
      /\ (TrainPercent + ValPercent) * (N - 1) = x + y
      /\ x = (N - 1) * TrainPercent /\ y = (N - 1) * ValPercent
  BY <1>1
<1>4. x >= 50 /\ y >= 100
  BY <1>3
<1> HIDE DEF x, y
<1>5. (x + 50) \div 100 >= 1 /\ (x + 50) \div 100 < (x + y + 50) \div 100
  BY <1>3, <1>4
<1> QED
  BY <1>1, <1>2, <1>3, <1>5 DEF x

\* A table without ties and with a row's worth in each fraction is cut into
\* three parts that validate_temporal_split accepts.
LEMMA AmplePartsPass ==
    ASSUME NEW rows, IsFiniteSet(rows), \A r \in rows : r.at \in Int,
           \A a, b \in rows : a.at = b.at => a = b,
           (Cardinality(rows) - 1) * ValPercent >= 100,
           (Cardinality(rows) - 1) * TrainPercent >= 50
    PROVE  rows # {} /\ Valid(PartsOf(rows))
<1> DEFINE N      == Cardinality(rows)
           first  == 1 + (TrainPercent * (N - 1) + 50) \div 100
           second == 1 + ((TrainPercent + ValPercent) * (N - 1) + 50) \div 100
           s      == TrainEnd(rows)
           e      == ValEnd(rows)
           Before(t) == {r \in rows : r.at < t}
           UpTo(t)   == {r \in rows : r.at <= t}
<1>1. N \in Nat
  BY FS_CardinalityType
<1>2. N > 0 /\ first \in 2..N /\ second \in 1..N /\ first < second
  <2> HIDE DEF N
  <2> QED
    BY <1>1, CutsApart DEF N
<1>3. s = NthTime(rows, first) /\ e = NthTime(rows, second)
  BY DEF TrainEnd, ValEnd, Quantile
<1> HIDE DEF first, second, s, e
<1>4. /\ s \in {r.at : r \in rows}
      /\ Cardinality(Before(s)) < first
      /\ Cardinality(UpTo(s)) >= first
  <2>1. first \in 1..Cardinality(rows)
    BY <1>1, <1>2
  <2> QED
    BY <1>3, <2>1, NthTimeIsThere
<1>5. e \in {r.at : r \in rows} /\ Cardinality(UpTo(e)) >= second
  BY <1>1, <1>2, <1>3, NthTimeIsThere
<1>6. PICK a \in rows : a.at = s
  BY <1>4
<1>7. PICK b \in rows : b.at = e
  BY <1>5
<1>8. Cardinality(UpTo(s)) = Cardinality(Before(s)) + 1
  <2>1. UpTo(s) = Before(s) \cup {a} /\ a \notin Before(s)
    BY <1>6
  <2>2. IsFiniteSet(Before(s))
    BY FS_Subset
  <2> HIDE DEF UpTo, Before
  <2> QED
    BY <2>1, <2>2, FS_AddElement
<1>9. /\ IsFiniteSet(UpTo(s)) /\ IsFiniteSet(UpTo(e))
      /\ Cardinality(Before(s)) \in Nat
      /\ Cardinality(UpTo(s)) \in Nat /\ Cardinality(UpTo(e)) \in Nat
  BY FS_Subset, FS_CardinalityType
<1>10. Before(s) # {}
  <2>1. Cardinality(Before(s)) # 0
    BY <1>1, <1>2, <1>4, <1>8, <1>9
  <2> QED
    BY <2>1, FS_EmptySet
<1>11. s < e
  <2> SUFFICES ASSUME e <= s PROVE FALSE
    BY <1>6, <1>7
  <2>1. UpTo(e) \subseteq UpTo(s)
    BY <1>6, <1>7
  <2>2. Cardinality(UpTo(e)) <= Cardinality(UpTo(s))
    BY <1>9, <2>1, FS_Subset
  <2> QED
    BY <1>2, <1>4, <1>5, <1>8, <1>9, <2>2
<1> DEFINE p == PartsOf(rows)
<1>12. /\ p.train = Before(s)
       /\ p.val = {r \in rows : r.at >= s /\ r.at < e}
       /\ p.test = {r \in rows : r.at >= e}
  BY DEF PartsOf, From, s, e
<1>13. a \in p.val /\ b \in p.test
  BY <1>6, <1>7, <1>11, <1>12
<1>14. s \in Int /\ e \in Int
  BY <1>6, <1>7
<1>15. AllBefore(p.train, p.val) /\ AllBefore(p.val, p.test)
  BY <1>12, <1>14 DEF AllBefore
<1>16. p.train \cap p.val = {} /\ p.val \cap p.test = {} /\ p.train \cap p.test = {}
  BY <1>11, <1>12, <1>14
<1> QED
  BY <1>6, <1>10, <1>12, <1>13, <1>15, <1>16 DEF Valid

-----------------------------------------------------------------------------
(* The split along every behaviour.                                        *)

\* The table is finite, its parts have passed validate_temporal_split, and a
\* build that failed had a table whose parts do not pass.
SplitInv ==
    /\ IsFiniteSet(ratings)
    /\ \A r \in ratings : r.at \in Int
    /\ phase \in {"split", "training"} =>
        /\ Valid(parts)
        /\ parts.train \cup parts.val \cup parts.test = ratings
    /\ phase = "failed" => ratings = {} \/ ~Valid(PartsOf(ratings))

LEMMA SplitInvInit == Init => SplitInv
  BY FS_EmptySet DEF Init, SplitInv

LEMMA SplitInvNext == SplitInv /\ [Next]_vars => SplitInv'
<1> SUFFICES ASSUME SplitInv, [Next]_vars PROVE SplitInv'
  OBVIOUS
<1>1. ASSUME NEW u \in User, NEW i \in Item, NEW stars \in 1..5, NEW t \in Time,
             Rate(u, i, stars, t)
      PROVE  SplitInv'
  <2>1. IsFiniteSet(ratings')
    BY <1>1, FS_AddElement DEF Rate, SplitInv
  <2>2. \A r \in ratings' : r.at \in Int
    BY <1>1, TrainingAssumption DEF Rate, SplitInv
  <2>3. phase' = "rating"
    BY <1>1 DEF Rate
  <2> QED
    BY <2>1, <2>2, <2>3 DEF SplitInv
<1>2. CASE Prepare
  <2>1. ratings' = ratings
    BY <1>2 DEF Prepare
  <2>2. CASE ratings # {} /\ Valid(PartsOf(ratings))
    <3>1. phase' = "split" /\ parts' = PartsOf(ratings)
      BY <1>2, <2>2 DEF Prepare
    <3>2. parts'.train \cup parts'.val \cup parts'.test = ratings
      BY <2>2, <3>1, PartsCover DEF SplitInv
    <3>3. Valid(parts')
      BY <2>2, <3>1
    <3> QED
      BY <2>1, <3>1, <3>2, <3>3 DEF SplitInv, Valid, AllBefore
  <2>3. CASE ~(ratings # {} /\ Valid(PartsOf(ratings)))
    <3>1. phase' = "failed"
      BY <1>2, <2>3 DEF Prepare
    <3>2. Valid(PartsOf(ratings))' = Valid(PartsOf(ratings))
      BY <2>1 DEF PartsOf, Valid, AllBefore, From, TrainEnd, ValEnd, Quantile, NthTime
    <3> QED
      BY <2>1, <2>3, <3>1, <3>2 DEF SplitInv
  <2> QED
    BY <2>2, <2>3
<1>3. CASE (\E S \in SUBSET User : Sample(S)) \/ (\E row \in left : Walk(row))
           \/ (\E u \in User : NextUser(u) \/ Evaluate(u)) \/ UNCHANGED vars
  <2>1. ratings' = ratings /\ parts' = parts
    BY <1>3 DEF Sample, Walk, NextUser, Evaluate, vars
  <2>2. phase' = phase \/ (phase = "split" /\ phase' = "training")
    BY <1>3 DEF Sample, Walk, NextUser, Evaluate, vars
  <2>3. Valid(parts) => Valid(parts')
    BY <2>1
  <2>4. Valid(PartsOf(ratings))' = Valid(PartsOf(ratings))
    BY <2>1 DEF PartsOf, Valid, AllBefore, From, TrainEnd, ValEnd, Quantile, NthTime
  <2> QED
    BY <2>1, <2>2, <2>3, <2>4 DEF SplitInv
<1> QED
  BY <1>1, <1>2, <1>3 DEF Next

\* The parts follow each other strictly in time and make up the ratings, for
\* every table and every pair of fractions (split.py:22-24).
THEOREM SplitRespectsTime == Spec => []SplitKeepsTime
<1>1. SplitInv => SplitKeepsTime
  <2> SUFFICES ASSUME SplitInv, phase \in {"split", "training"}
               PROVE  /\ parts.train \cup parts.val \cup parts.test = ratings
                      /\ \A a, b \in ratings :
                          /\ a \in parts.train /\ b \notin parts.train => a.at < b.at
                          /\ a \notin parts.test /\ b \in parts.test => a.at < b.at
    BY DEF SplitKeepsTime
  <2>1. /\ parts.train \cup parts.val \cup parts.test = ratings
        /\ parts.val # {}
        /\ AllBefore(parts.train, parts.val) /\ AllBefore(parts.val, parts.test)
        /\ \A r \in ratings : r.at \in Int
    BY DEF SplitInv, Valid
  <2>2. AllBefore(parts.train, parts.test)
    BY <2>1 DEF AllBefore
  <2> QED
    BY <2>1, <2>2 DEF AllBefore
<1> QED
  BY SplitInvInit, SplitInvNext, <1>1, PTL DEF Spec

\* The build fails only for a table with ties or too few rows, whatever the
\* fractions are (split.py, temporal_split and validate_temporal_split).
THEOREM AmpleTablesAreSplit == Spec => []AmpleRowsAreSplit
<1>1. SplitInv => AmpleRowsAreSplit
  BY AmplePartsPass DEF SplitInv, AmpleRowsAreSplit
<1> QED
  BY SplitInvInit, SplitInvNext, <1>1, PTL DEF Spec

-----------------------------------------------------------------------------
(* The walk over the rows of a user.                                       *)

RowInv == \A r \in ratings : r.user \in User /\ r.item \in Item

\* Before the walk starts there is nothing to walk and no group.
Idle == left = {} /\ user = Nobody /\ seen = {} /\ groups = {}

\* Of another user all rows are left, or none.
OthersWhole ==
    \A q \in left, r \in parts.train : q.user # user /\ r.user = q.user => r \in left

\* What is seen is what the user's walked rows are about, and those come
\* before the rows that are left.
Walked == {r \in parts.train : r.user = user /\ r \notin left}
SeenIsWalked ==
    /\ \A r \in Walked : r.item \in seen
    /\ \A i \in seen : \E r \in Walked : r.item = i
    /\ \A r \in Walked, q \in left : q.user = user => r.at <= q.at

\* The property of one group.
Unobserved(g) ==
    LET negative == {i \in DOMAIN g.rows : g.rows[i].label = 0}
        rated    == {r.item : r \in Earlier(g)}
    IN  /\ DOMAIN g.rows = negative \cup {g.item} /\ g.item \notin negative
        /\ negative \cap rated = {}
        /\ Cardinality(negative) < Negatives =>
            \A i \in Item \ DOMAIN g.rows :
                \E r \in parts.train : r.user = g.user /\ r.item = i /\ r.at <= g.at

WalkInv ==
    /\ RowInv
    /\ phase # "training" => Idle
    /\ phase = "training" =>
        /\ left \subseteq parts.train /\ OthersWhole
        /\ SeenIsWalked
        /\ \A g \in groups : Unobserved(g)

LEMMA WalkInvInit == Init => WalkInv
  BY DEF Init, WalkInv, RowInv, Idle

\* The groups that a walked row can make.
LEMMA GroupIsUnobserved ==
    ASSUME SplitInv, WalkInv, phase = "training",
           NEW row \in left, row.user = user,
           \A r \in left : r.user = user => row.at <= r.at,
           NEW g \in GroupsFor(row)
    PROVE  Unobserved(g)
<1> DEFINE unseen == Unseen(row)
           N == Min({Negatives, Cardinality(unseen)})
<1>1. PICK S \in SUBSET unseen :
        Cardinality(S) = N /\ \E rank : DOMAIN rank = S /\ g = GroupWith(row, rank)
  <2>1. PICK S \in kSubset(N, unseen) :
            \E rank \in Bijection(S, 2..(N + 1)) : g = GroupWith(row, rank)
    BY DEF GroupsFor
  <2>2. S \in SUBSET unseen /\ Cardinality(S) = N
    BY DEF kSubset
  <2>3. \A f \in Bijection(S, 2..(N + 1)) : DOMAIN f = S
    BY DEF Bijection, Injection, Surjection
  <2> QED
    BY <2>1, <2>2, <2>3
<1> PICK rank : DOMAIN rank = S /\ g = GroupWith(row, rank)
  BY <1>1
<1>2. IsFiniteSet(unseen) /\ Cardinality(unseen) \in Nat
  <2>1. IsFiniteSet(Item) /\ unseen \in SUBSET Item
    BY TrainingAssumption DEF Unseen
  <2> QED
    BY <2>1, FS_Subset, FS_CardinalityType
<1>3. N = IF Negatives <= Cardinality(unseen) THEN Negatives ELSE Cardinality(unseen)
  <2> DEFINE T == {Negatives, Cardinality(unseen)}
  <2>1. \E x \in T : \A y \in T : x <= y
    BY <1>2, TrainingAssumption
  <2>2. N \in T /\ \A y \in T : N <= y
    BY <2>1 DEF Min
  <2> HIDE DEF N
  <2> QED
    BY <1>2, <2>2, TrainingAssumption
<1> HIDE DEF N
<1>4. row.item \notin S /\ S \cap seen = {}
  BY <1>1 DEF Unseen
<1>5. /\ g.user = row.user /\ g.item = row.item /\ g.at = row.at
      /\ DOMAIN g.rows = S \cup {row.item}
      /\ \A i \in DOMAIN g.rows : g.rows[i].label = IF i = row.item THEN 1 ELSE 0
  BY DEF GroupWith
<1>6. {i \in DOMAIN g.rows : g.rows[i].label = 0} = S
  BY <1>4, <1>5
<1>7. /\ row \in parts.train /\ parts.train \subseteq ratings
      /\ \A r \in parts.train : r.at \in Int
  BY DEF SplitInv, WalkInv
<1>8. \A r \in Earlier(g) : r.item \in seen
  <2> SUFFICES ASSUME NEW r \in Earlier(g) PROVE r.item \in seen
    OBVIOUS
  <2>1. r \in parts.train /\ r.user = user /\ r.at < row.at
    BY <1>5 DEF Earlier
  <2>2. r \notin left
    BY <1>7, <2>1
  <2> QED
    BY <2>1, <2>2 DEF WalkInv, SeenIsWalked, Walked
<1>9. ASSUME Cardinality(S) < Negatives, NEW i \in Item \ DOMAIN g.rows
      PROVE  \E r \in parts.train : r.user = g.user /\ r.item = i /\ r.at <= g.at
  <2>1. Cardinality(S) = Cardinality(unseen)
    BY <1>1, <1>2, <1>3, <1>9, TrainingAssumption
  <2>2. S = unseen
    BY <1>2, <2>1, FS_Subset
  <2>3. i \in seen
    BY <1>5, <1>9, <2>2 DEF Unseen
  <2>4. PICK r \in Walked : r.item = i
    BY <2>3 DEF WalkInv, SeenIsWalked
  <2>5. r.at <= row.at
    BY DEF WalkInv, SeenIsWalked
  <2> QED
    BY <1>5, <2>4, <2>5 DEF Walked
<1>10. S \cap {r.item : r \in Earlier(g)} = {}
  BY <1>4, <1>8
<1>11. DOMAIN g.rows = S \cup {g.item} /\ g.item \notin S
  BY <1>4, <1>5
<1> QED
  BY <1>6, <1>9, <1>10, <1>11 DEF Unobserved

LEMMA WalkKeeps ==
    ASSUME SplitInv, WalkInv, phase = "training", NEW row \in left, Walk(row)
    PROVE  WalkInv'
<1>1. /\ phase' = phase /\ ratings' = ratings /\ parts' = parts /\ user' = user
      /\ left' = left \ {row} /\ seen' = seen \cup {row.item}
      /\ row.user = user /\ \A r \in left : r.user = user => row.at <= r.at
  BY DEF Walk
<1>2. /\ left \subseteq parts.train /\ OthersWhole /\ SeenIsWalked
      /\ \A g \in groups : Unobserved(g)
  BY DEF WalkInv
<1>3. OthersWhole'
  BY <1>1, <1>2 DEF OthersWhole
<1>4. Walked' = Walked \cup {row}
  BY <1>1, <1>2 DEF Walked
<1>5. SeenIsWalked'
  BY <1>1, <1>2, <1>4 DEF SeenIsWalked
<1>6. \A g \in groups' : Unobserved(g)
  <2>1. groups' = groups \/ \E g \in GroupsFor(row) : groups' = groups \cup {g}
    BY DEF Walk
  <2> QED
    BY <1>1, <1>2, <2>1, GroupIsUnobserved
<1>7. \A g : Unobserved(g) => Unobserved(g)'
  BY <1>1 DEF Unobserved, Earlier
<1> QED
  BY <1>1, <1>2, <1>3, <1>5, <1>6, <1>7 DEF WalkInv, RowInv

LEMMA NextUserKeeps ==
    ASSUME WalkInv, NEW u \in User, NextUser(u)
    PROVE  WalkInv'
<1>1. /\ phase = "training" /\ phase' = phase /\ ratings' = ratings /\ parts' = parts
      /\ user \notin UsersOf(left) /\ u \in UsersOf(left)
      /\ user' = u /\ seen' = {} /\ left' = left /\ groups' = groups
  BY DEF NextUser
<1>2. left \subseteq parts.train /\ OthersWhole /\ \A g \in groups : Unobserved(g)
  BY <1>1 DEF WalkInv
<1>3. PICK q \in left : q.user = u
  BY <1>1 DEF UsersOf
<1>4. \A r \in left : r.user # user
  BY <1>1 DEF UsersOf
<1>5. \A p \in left, r \in parts.train : r.user = p.user => r \in left
  BY <1>2, <1>4 DEF OthersWhole
<1>6. OthersWhole'
  BY <1>1, <1>5 DEF OthersWhole
<1>7. Walked' = {}
  BY <1>1, <1>3, <1>5 DEF Walked
<1>8. SeenIsWalked'
  BY <1>1, <1>7 DEF SeenIsWalked
<1>9. \A g : Unobserved(g) => Unobserved(g)'
  BY <1>1 DEF Unobserved, Earlier
<1> QED
  BY <1>1, <1>2, <1>6, <1>8, <1>9 DEF WalkInv, RowInv

LEMMA SampleKeeps ==
    ASSUME SplitInv, WalkInv, NEW S \in SUBSET User, Sample(S)
    PROVE  WalkInv'
<1>1. /\ phase = "split" /\ phase' = "training" /\ ratings' = ratings /\ parts' = parts
      /\ user' = user /\ seen' = seen /\ groups' = groups
      /\ left' = {r \in parts.train : r.user \in S}
  BY DEF Sample
<1>2. Idle
  BY <1>1 DEF WalkInv
<1>3. \A r \in parts.train : r.user \in User
  BY <1>1 DEF SplitInv, WalkInv, RowInv
<1>4. Walked' = {}
  BY <1>1, <1>2, <1>3, TrainingAssumption DEF Walked, Idle
<1>5. SeenIsWalked'
  BY <1>1, <1>2, <1>4 DEF SeenIsWalked, Idle
<1>6. OthersWhole'
  BY <1>1 DEF OthersWhole
<1>7. groups' = {}
  BY <1>1, <1>2 DEF Idle
<1> QED
  BY <1>1, <1>5, <1>6, <1>7 DEF WalkInv, RowInv

LEMMA WalkInvNext == SplitInv /\ WalkInv /\ [Next]_vars => WalkInv'
<1> SUFFICES ASSUME SplitInv, WalkInv, [Next]_vars PROVE WalkInv'
  OBVIOUS
<1>1. ASSUME NEW u \in User, NEW i \in Item, NEW stars \in 1..5, NEW t \in Time,
             Rate(u, i, stars, t)
      PROVE  WalkInv'
  <2>1. RowInv'
    BY <1>1 DEF Rate, WalkInv, RowInv
  <2>2. phase' # "training" /\ Idle'
    BY <1>1 DEF Rate, WalkInv, Idle, walkVars
  <2> QED
    BY <2>1, <2>2 DEF WalkInv
<1>2. CASE Prepare
  BY <1>2 DEF Prepare, WalkInv, RowInv, Idle, walkVars
<1>3. ASSUME NEW S \in SUBSET User, Sample(S) PROVE WalkInv'
  BY <1>3, SampleKeeps
<1>4. ASSUME NEW row \in left, Walk(row) PROVE WalkInv'
  <2>1. phase = "training"
    BY <1>4 DEF WalkInv, Idle
  <2> QED
    BY <1>4, <2>1, WalkKeeps
<1>5. ASSUME NEW u \in User, NextUser(u) PROVE WalkInv'
  BY <1>5, NextUserKeeps
<1>6. CASE UNCHANGED <<phase, ratings, parts, walkVars>>
  <2>1. /\ phase' = phase /\ ratings' = ratings /\ parts' = parts /\ left' = left
        /\ user' = user /\ seen' = seen /\ groups' = groups
    BY <1>6 DEF walkVars
  <2>2. Walked' = Walked
    BY <2>1 DEF Walked
  <2>3. SeenIsWalked' <=> SeenIsWalked
    BY <2>1, <2>2 DEF SeenIsWalked
  <2>4. OthersWhole' <=> OthersWhole
    BY <2>1 DEF OthersWhole
  <2>5. \A g : Unobserved(g) => Unobserved(g)'
    BY <2>1 DEF Unobserved, Earlier
  <2> QED
    BY <2>1, <2>3, <2>4, <2>5 DEF WalkInv, RowInv, Idle
<1> QED
  BY <1>1, <1>2, <1>3, <1>4, <1>5, <1>6 DEF Next, Evaluate, vars

\* The negatives of a group are titles the user had not rated before, and as
\* many as asked for or all there are (dataset.py, unseen), for any table,
\* catalog and caps.
THEOREM NegativesWereUnseen == Spec => []NegativesAreUnobserved
<1>1. SplitInv /\ WalkInv => NegativesAreUnobserved
  <2> SUFFICES ASSUME SplitInv, WalkInv, NEW g \in groups PROVE Unobserved(g)
    BY DEF NegativesAreUnobserved, Unobserved
  <2> QED
    BY DEF WalkInv, Idle
<1>2. Init => SplitInv /\ WalkInv
  BY SplitInvInit, WalkInvInit
<1>3. SplitInv /\ WalkInv /\ [Next]_vars => SplitInv' /\ WalkInv'
  BY SplitInvNext, WalkInvNext
<1> QED
  BY <1>1, <1>2, <1>3, PTL DEF Spec

-----------------------------------------------------------------------------
(* Replays.  The lemmas about FeatureEngine are those of                   *)
(* OnlineFeatures_proof, which has other variables and cannot be extended. *)

\* Induction over the numbers of a set.
LEMMA Upwards ==
    ASSUME NEW P, 0 \in P, \A n \in Nat : n \in P => n + 1 \in P
    PROVE  \A n \in Nat : n \in P
<1> DEFINE R == {p \in Nat \X Nat : p[1] < p[2]}
           Q == {n \in Nat : n \notin P}
<1>1. IsWellFoundedOn(R, Nat)
  BY NatLessThanWellFounded DEF OpToRel
<1>2. ASSUME NEW x \in Q PROVE FALSE
  <2>1. PICK m \in Q : \A j \in Q : ~(<<j, m>> \in R)
    <3>1. Q # {} /\ Q \subseteq Nat
      BY <1>2
    <3> HIDE DEF Q, R
    <3> QED
      BY <1>1, <3>1, WFMin
  <2>2. m \in Nat /\ m # 0 /\ m \notin P
    BY <2>1
  <2>3. m - 1 \in Nat /\ m - 1 < m
    BY <2>2
  <2>4. m - 1 \in P
    BY <2>1, <2>2, <2>3
  <2> QED
    BY <2>2, <2>3, <2>4
<1> QED
  BY <1>2

\* t is the last n elements of s, or all of them.
IsNewest(t, s, n) ==
    /\ Len(t) = IF Len(s) > n THEN n ELSE Len(s)
    /\ \A k \in 1..Len(t) : t[k] = s[k + (Len(s) - Len(t))]

\* Newest keeps the last records, as many as the cap allows.
LEMMA NewestTyped ==
    ASSUME NEW S, NEW s \in Seq(S), NEW n \in Nat \ {0}
    PROVE  /\ Newest(s, n) \in Seq(S)
           /\ Len(Newest(s, n)) <= n
           /\ IsNewest(Newest(s, n), s, n)
<1>1. CASE Len(s) > n
  <2> DEFINE m == Len(s) - n + 1
  <2>1. Len(s) \in Nat /\ m \in 1..Len(s) /\ Len(s) - m + 1 = n
    BY <1>1
  <2>2. Newest(s, n) = SubSeq(s, m, Len(s))
    BY <1>1 DEF Newest
  <2>3. /\ SubSeq(s, m, Len(s)) \in Seq(S)
        /\ Len(SubSeq(s, m, Len(s))) = n
        /\ \A k \in 1..n : SubSeq(s, m, Len(s))[k] = s[m + k - 1]
    <3>1. /\ m \in Int /\ Len(s) \in Int /\ ~(m > Len(s))
          /\ \A i \in m..Len(s) : i \in 1..Len(s)
      BY <2>1
    <3>2. \A i \in m..Len(s) : s[i] \in S
      BY <3>1
    <3> HIDE DEF m
    <3> QED
      BY <2>1, <3>1, <3>2, SubSeqProperties
  <2>4. \A k \in 1..n : m + k - 1 = k + (Len(s) - n)
    BY <2>1
  <2> HIDE DEF m
  <2> QED
    BY <1>1, <2>2, <2>3, <2>4 DEF IsNewest
<1>2. CASE ~(Len(s) > n)
  <2>1. Len(s) \in Nat /\ Newest(s, n) = s /\ Len(s) <= n
    BY <1>2 DEF Newest
  <2>2. \A k \in 1..Len(s) : k + (Len(s) - Len(s)) = k
    BY <2>1
  <2> QED
    BY <1>2, <2>1, <2>2 DEF IsNewest
<1> QED
  BY <1>1, <1>2

\* f[n] is the engine after the first n pairs of p.
IsTrace(f, p) ==
    f = [n \in 0..Len(p) |->
            IF n = 0 THEN FreshEngine ELSE Applied(f[n - 1], p[n][1], p[n][2])]

Trace(p) == CHOOSE f : IsTrace(f, p)

\* A replay is the last state of a trace of engines.
LEMMA TraceThere ==
    ASSUME NEW S, NEW p \in Seq(S)
    PROVE  /\ Replayed(p) = Trace(p)[Len(p)]
           /\ Trace(p)[0] = FreshEngine
           /\ \A n \in 1..Len(p) : Trace(p)[n] = Applied(Trace(p)[n - 1], p[n][1], p[n][2])
<1> DEFINE Upto(f, m) == f = [n \in 0..m |->
                IF n = 0 THEN FreshEngine ELSE Applied(f[n - 1], p[n][1], p[n][2])]
           P == {m \in Nat : \E f : Upto(f, m)}
<1>1. 0 \in P
  <2> DEFINE f == [k \in 0..0 |-> FreshEngine]
  <2>1. Upto(f, 0)
    <3>1. \A k \in 0..0 : k = 0
      OBVIOUS
    <3> QED
      BY <3>1
  <2> HIDE DEF f, Upto
  <2> QED
    BY <2>1
<1>2. ASSUME NEW m \in Nat, m \in P
      PROVE  m + 1 \in P
  <2> PICK f : Upto(f, m)
    BY <1>2
  <2> DEFINE next == Applied(f[m], p[m + 1][1], p[m + 1][2])
             g == [k \in 0..(m + 1) |-> IF k = m + 1 THEN next ELSE f[k]]
  <2>1. ASSUME NEW k \in 0..(m + 1)
        PROVE  g[k] = IF k = 0 THEN FreshEngine ELSE Applied(g[k - 1], p[k][1], p[k][2])
    <3>1. CASE k = m + 1
      <4>1. g[k] = next /\ g[k - 1] = f[m] /\ k # 0
        BY <3>1
      <4> QED
        BY <3>1, <4>1
    <3>2. CASE k \in 0..m
      <4>1. g[k] = f[k] /\ (k # 0 => g[k - 1] = f[k - 1])
        BY <3>2
      <4>2. f[k] = IF k = 0 THEN FreshEngine ELSE Applied(f[k - 1], p[k][1], p[k][2])
        BY <3>2
      <4> HIDE DEF g, next
      <4> QED
        BY <4>1, <4>2
    <3> QED
      BY <3>1, <3>2
  <2>2. g = [k \in 0..(m + 1) |-> g[k]]
    OBVIOUS
  <2> HIDE DEF g, next
  <2>3. Upto(g, m + 1)
    BY <2>1, <2>2
  <2> HIDE DEF Upto
  <2> QED
    BY <2>3
<1>3. Len(p) \in Nat
  OBVIOUS
<1>4. Len(p) \in P
  <2> HIDE DEF P
  <2> QED
    BY <1>1, <1>2, <1>3, Upwards
<1>5. IsTrace(Trace(p), p)
  <2>1. \E f : IsTrace(f, p)
    BY <1>4 DEF IsTrace
  <2> QED
    BY <2>1 DEF Trace
<1>6. Replayed(p) = Trace(p)[Len(p)]
  BY DEF Replayed, Trace, IsTrace
<1> HIDE DEF P, Upto
<1>7. \A n \in 0..Len(p) :
        Trace(p)[n] = IF n = 0 THEN FreshEngine ELSE Applied(Trace(p)[n - 1], p[n][1], p[n][2])
  BY <1>5 DEF IsTrace
<1> QED
  BY <1>3, <1>6, <1>7

\* Replaying one more event applies it to the replay so far.
LEMMA ReplayedAppend ==
    ASSUME NEW S, NEW p \in Seq(S), NEW x \in S
    PROVE  Replayed(Append(p, x)) = Applied(Replayed(p), x[1], x[2])
<1> DEFINE q == Append(p, x)
           N == Len(p)
           P == {n \in Nat : n \in 0..N => Trace(q)[n] = Trace(p)[n]}
<1>1. /\ N \in Nat /\ q \in Seq(S) /\ Len(q) = N + 1 /\ q[N + 1] = x
      /\ \A n \in 1..N : q[n] = p[n]
  OBVIOUS
<1>2. /\ Trace(p)[0] = FreshEngine
      /\ \A n \in 1..N : Trace(p)[n] = Applied(Trace(p)[n - 1], p[n][1], p[n][2])
      /\ Replayed(p) = Trace(p)[N]
  BY TraceThere
<1>3. /\ Trace(q)[0] = FreshEngine
      /\ \A n \in 1..(N + 1) : Trace(q)[n] = Applied(Trace(q)[n - 1], q[n][1], q[n][2])
      /\ Replayed(q) = Trace(q)[N + 1]
  BY <1>1, TraceThere
<1> HIDE DEF q, N
<1>4. 0 \in P
  BY <1>2, <1>3
<1>5. ASSUME NEW n \in Nat, n \in P
      PROVE  n + 1 \in P
  <2>1. CASE n + 1 \in 0..N
    <3>1. n \in 0..N /\ n + 1 \in 1..N /\ n + 1 \in 1..(N + 1) /\ (n + 1) - 1 = n
      BY <1>1, <2>1
    <3>2. Trace(q)[n] = Trace(p)[n]
      BY <1>5, <3>1
    <3>3. Trace(q)[n + 1] = Applied(Trace(q)[n], q[n + 1][1], q[n + 1][2])
      BY <1>3, <3>1
    <3>4. Trace(p)[n + 1] = Applied(Trace(p)[n], p[n + 1][1], p[n + 1][2])
      BY <1>2, <3>1
    <3>5. Trace(q)[n + 1] = Trace(p)[n + 1]
      BY <1>1, <3>1, <3>2, <3>3, <3>4
    <3> QED
      BY <3>5
  <2> QED
    BY <2>1
<1>6. N \in P
  <2> HIDE DEF P
  <2> QED
    BY <1>1, <1>4, <1>5, Upwards
<1>7. Trace(q)[N] = Trace(p)[N]
  BY <1>1, <1>6
<1>8. N + 1 \in 1..(N + 1) /\ (N + 1) - 1 = N
  BY <1>1
<1>9. Trace(q)[N + 1] = Applied(Trace(q)[N], x[1], x[2])
  BY <1>1, <1>3, <1>8
<1> HIDE DEF P
<1> QED
  BY <1>2, <1>3, <1>7, <1>9 DEF q

\* Replaying nothing gives the engine of a new user.
LEMMA ReplayedNone == Replayed(<<>>) = FreshEngine
<1>1. <<>> \in Seq(Nat) /\ Len(<<>>) = 0
  OBVIOUS
<1> QED
  BY <1>1, TraceThere

-----------------------------------------------------------------------------
(* What an engine was fed.                                                 *)

\* Rows as a replay takes them.
Fed(s) == [k \in DOMAIN s |-> <<EventOf(s[k]), CategoriesOf[s[k].item]>>]

\* An order of rows: a bijection with the numbers up to their count, by time.
LEMMA OrderForm ==
    ASSUME NEW R, IsFiniteSet(R), NEW s
    PROVE  s \in TimeOrders(R) <=>
              /\ s \in [1..Cardinality(R) -> R]
              /\ \A j, k \in 1..Cardinality(R) : j # k => s[j] # s[k]
              /\ \A j, k \in 1..Cardinality(R) : j < k => s[j].at <= s[k].at
BY DEF TimeOrders, SetToSeqs

\* One more row, no earlier than the others.
LEMMA OrderAppend ==
    ASSUME NEW R, IsFiniteSet(R), NEW s \in TimeOrders(R), NEW row, row \notin R,
           \A r \in R : r.at <= row.at
    PROVE  /\ Append(s, row) \in TimeOrders(R \cup {row})
           /\ Replayed(Fed(Append(s, row))) =
                Applied(Replayed(Fed(s)), EventOf(row), CategoriesOf[row.item])
<1> DEFINE N == Cardinality(R)
           Q == R \cup {row}
           q == Append(s, row)
<1>1. N \in Nat /\ IsFiniteSet(Q) /\ Cardinality(Q) = N + 1
  BY FS_CardinalityType, FS_AddElement
<1>2. /\ s \in [1..N -> R]
      /\ \A j, k \in 1..N : j # k => s[j] # s[k]
      /\ \A j, k \in 1..N : j < k => s[j].at <= s[k].at
  BY OrderForm
<1>3. s \in Seq(Q) /\ Len(s) = N /\ DOMAIN s = 1..N
  BY <1>1, <1>2
<1>4. /\ q \in Seq(Q) /\ Len(q) = N + 1 /\ DOMAIN q = 1..(N + 1)
      /\ q[N + 1] = row /\ \A k \in 1..N : q[k] = s[k]
  BY <1>1, <1>3
<1> HIDE DEF q, Q, N
<1>5. \A k \in 1..(N + 1) : k = N + 1 \/ k \in 1..N
  BY <1>1
<1>6. q \in [1..(N + 1) -> Q]
  BY <1>4
<1>7. \A k \in 1..N : q[k] \in R /\ q[k] # row
  BY <1>2, <1>4
<1>8. \A j, k \in 1..(N + 1) : j # k => q[j] # q[k]
  BY <1>2, <1>4, <1>5, <1>7
<1>9. \A j, k \in 1..(N + 1) : j < k => q[j].at <= q[k].at
  <2> SUFFICES ASSUME NEW j \in 1..(N + 1), NEW k \in 1..(N + 1), j < k
               PROVE  q[j].at <= q[k].at
    OBVIOUS
  <2>1. j \in 1..N
    BY <1>1
  <2>2. CASE k = N + 1
    BY <1>4, <1>7, <2>1, <2>2
  <2>3. CASE k \in 1..N
    BY <1>2, <1>4, <2>1, <2>3
  <2> QED
    BY <1>5, <2>2, <2>3
<1>10. q \in TimeOrders(Q)
  BY <1>1, <1>6, <1>8, <1>9, OrderForm
<1> DEFINE x == <<EventOf(row), CategoriesOf[row.item]>>
           S == {<<EventOf(r), CategoriesOf[r.item]>> : r \in Q}
<1>11. Fed(s) \in Seq(S) /\ Len(Fed(s)) = N /\ DOMAIN Fed(s) = 1..N
  <2>1. \A k \in 1..N : s[k] \in Q
    BY <1>2 DEF Q
  <2>2. Fed(s) = [k \in 1..N |-> <<EventOf(s[k]), CategoriesOf[s[k].item]>>]
    BY <1>3 DEF Fed
  <2>3. Fed(s) \in [1..N -> S]
    BY <2>1, <2>2
  <2> HIDE DEF S
  <2> QED
    BY <1>1, <2>3
<1>12. Fed(q) = Append(Fed(s), x)
  <2>1. Fed(q) = [k \in 1..(N + 1) |-> <<EventOf(q[k]), CategoriesOf[q[k].item]>>]
    BY <1>4 DEF Fed
  <2>2. \A k \in 1..N : Fed(s)[k] = <<EventOf(s[k]), CategoriesOf[s[k].item]>>
    BY <1>3 DEF Fed
  <2>3. Fed(q) \in Seq(S) /\ Len(Fed(q)) = N + 1
    <3>1. Fed(q) \in [1..(N + 1) -> S]
      BY <1>6, <2>1
    <3> HIDE DEF S
    <3> QED
      BY <1>1, <3>1
  <2>4. x \in S
    BY DEF Q
  <2>5. \A k \in 1..(N + 1) : Fed(q)[k] = IF k = N + 1 THEN x ELSE Fed(s)[k]
    BY <1>4, <1>5, <2>1, <2>2
  <2> HIDE DEF x, S
  <2>6. /\ Append(Fed(s), x) \in Seq(S) /\ Len(Append(Fed(s), x)) = N + 1
        /\ \A k \in 1..(N + 1) : Append(Fed(s), x)[k] = IF k = N + 1 THEN x ELSE Fed(s)[k]
    BY <1>1, <1>11, <2>4, AppendProperties
  <2> QED
    BY <2>3, <2>5, <2>6, SeqEqual
<1>13. x \in S
  BY DEF Q
<1>14. Replayed(Append(Fed(s), x)) = Applied(Replayed(Fed(s)), x[1], x[2])
  <2> HIDE DEF x, S
  <2> QED
    BY <1>11, <1>13, ReplayedAppend
<1> QED
  BY <1>10, <1>12, <1>14 DEF q, Q

\* No rows, the engine of a new user.
LEMMA OrderNone == <<>> \in TimeOrders({}) /\ Replayed(Fed(<<>>)) = FreshEngine
<1>1. IsFiniteSet({}) /\ Cardinality({}) = 0 /\ 1..0 = {}
  BY FS_EmptySet
<1>2. <<>> \in TimeOrders({})
  <2>1. <<>> \in [1..Cardinality({}) -> {}] /\ \A j \in 1..Cardinality({}) : FALSE
    BY <1>1
  <2> QED
    BY <1>1, <2>1, OrderForm
<1>3. Fed(<<>>) = <<>>
  BY DEF Fed
<1> QED
  BY <1>2, <1>3, ReplayedNone

-----------------------------------------------------------------------------
(* The groups of the walk.                                                 *)

\* The property of one group.
OfPast(g) ==
    (\A r \in parts.train : r.user = g.user /\ r.at = g.at => r.item = g.item)
        => \E s \in TimeOrders(Earlier(g)) : \A i \in DOMAIN g.rows :
            g.rows[i].features.user =
                UserFeatures(StateAfter(s, g.at), i, {r.item : r \in Earlier(g)})

\* The engine of the walk was fed the walked rows in an order of their times;
\* a user rates a title once; and the groups so far are of the past.
PastInv ==
    /\ \A r, q \in ratings : r.user = q.user /\ r.item = q.item => r = q
    /\ phase # "training" => engine = FreshEngine
    /\ phase = "training" =>
        /\ \E s \in TimeOrders(Walked) : engine = Replayed(Fed(s))
        /\ \A g \in groups : OfPast(g)

\* At first nothing was rated or walked.
LEMMA PastInvInit == Init => PastInv
BY DEF Init, PastInv

\* A group without a rival: its user's earlier rows are the walked ones.
LEMMA GroupIsOfPast ==
    ASSUME SplitInv, WalkInv, PastInv, phase = "training",
           NEW row \in left, row.user = user,
           \A r \in left : r.user = user => row.at <= r.at,
           NEW g \in GroupsFor(row)
    PROVE  OfPast(g)
<1> SUFFICES ASSUME \A r \in parts.train : r.user = g.user /\ r.at = g.at => r.item = g.item
             PROVE  \E s \in TimeOrders(Earlier(g)) : \A i \in DOMAIN g.rows :
                        g.rows[i].features.user =
                            UserFeatures(StateAfter(s, g.at), i, {r.item : r \in Earlier(g)})
  BY DEF OfPast
<1>1. PICK rank : g = GroupWith(row, rank)
  BY DEF GroupsFor
<1>2. /\ g.user = row.user /\ g.item = row.item /\ g.at = row.at
      /\ \A i \in DOMAIN g.rows :
            g.rows[i].features.user = UserFeatures(StateAt(row), i, seen)
  BY <1>1 DEF GroupWith, RankerFeatures
<1>3. /\ row \in parts.train /\ parts.train \subseteq ratings
      /\ \A r \in parts.train : r.at \in Int
  BY DEF SplitInv, WalkInv
<1>4. Earlier(g) = Walked
  <2>1. ASSUME NEW r \in Earlier(g) PROVE r \in Walked
    <3>1. r \in parts.train /\ r.user = user /\ r.at < row.at
      BY <1>2 DEF Earlier
    <3>2. r \notin left
      BY <1>3, <3>1
    <3> QED
      BY <3>1, <3>2 DEF Walked
  <2>2. ASSUME NEW r \in Walked PROVE r \in Earlier(g)
    <3>1. r \in parts.train /\ r.user = user /\ r \notin left /\ r.at <= row.at
      BY DEF Walked, WalkInv, SeenIsWalked
    <3>2. r.at # row.at
      <4>1. ASSUME r.at = row.at PROVE FALSE
        <5>1. r.item = row.item
          BY <1>2, <3>1, <4>1
        <5>2. r = row
          BY <1>3, <3>1, <5>1 DEF PastInv
        <5> QED
          BY <3>1, <5>2
      <4> QED
        BY <4>1
    <3>3. r.at < row.at
      BY <1>3, <3>1, <3>2
    <3> QED
      BY <1>2, <3>1, <3>3 DEF Earlier
  <2> QED
    BY <2>1, <2>2
<1>5. PICK s \in TimeOrders(Walked) : engine = Replayed(Fed(s))
  BY DEF PastInv
<1>6. StateAfter(s, g.at) = StateAt(row)
  BY <1>2, <1>5 DEF StateAfter, StateAt, Fed
<1>7. {r.item : r \in Earlier(g)} = seen
  BY <1>4 DEF WalkInv, SeenIsWalked
<1> QED
  BY <1>2, <1>4, <1>5, <1>6, <1>7

\* Walking a row feeds it to the engine.
LEMMA WalkKeepsPast ==
    ASSUME SplitInv, WalkInv, PastInv, phase = "training", NEW row \in left, Walk(row)
    PROVE  PastInv'
<1>1. /\ phase' = phase /\ ratings' = ratings /\ parts' = parts /\ user' = user
      /\ left' = left \ {row} /\ row.user = user
      /\ \A r \in left : r.user = user => row.at <= r.at
      /\ engine' = Applied(engine, EventOf(row), CategoriesOf[row.item])
  BY DEF Walk
<1>2. left \subseteq parts.train /\ SeenIsWalked /\ parts.train \subseteq ratings
      /\ IsFiniteSet(ratings)
  BY DEF WalkInv, SplitInv
<1>3. Walked' = Walked \cup {row}
  BY <1>1, <1>2 DEF Walked
<1>4. PICK s \in TimeOrders(Walked) : engine = Replayed(Fed(s))
  BY DEF PastInv
<1>5. IsFiniteSet(Walked) /\ row \notin Walked /\ \A r \in Walked : r.at <= row.at
  <2>1. Walked \in SUBSET ratings
    BY <1>2 DEF Walked
  <2> QED
    BY <1>1, <1>2, <2>1, FS_Subset DEF Walked, SeenIsWalked
<1>6. /\ Append(s, row) \in TimeOrders(Walked \cup {row})
      /\ Replayed(Fed(Append(s, row))) =
            Applied(Replayed(Fed(s)), EventOf(row), CategoriesOf[row.item])
  BY <1>4, <1>5, OrderAppend
<1>7. \E q \in TimeOrders(Walked') : engine' = Replayed(Fed(q))
  BY <1>1, <1>3, <1>4, <1>6
<1>8. \A g \in groups' : OfPast(g)
  <2>1. groups' = groups \/ \E g \in GroupsFor(row) : groups' = groups \cup {g}
    BY DEF Walk
  <2> QED
    BY <1>1, <2>1, GroupIsOfPast DEF PastInv
<1>9. \A g : OfPast(g) => OfPast(g)'
  BY <1>1 DEF OfPast, Earlier
<1> QED
  BY <1>1, <1>7, <1>8, <1>9 DEF PastInv

\* Every step keeps PastInv.
LEMMA PastInvNext == SplitInv /\ WalkInv /\ PastInv /\ [Next]_vars => PastInv'
<1> SUFFICES ASSUME SplitInv, WalkInv, PastInv, [Next]_vars PROVE PastInv'
  OBVIOUS
<1>1. ASSUME NEW u \in User, NEW i \in Item, NEW stars \in 1..5, NEW t \in Time,
             Rate(u, i, stars, t)
      PROVE  PastInv'
  <2>1. /\ phase = "rating" /\ phase' = phase /\ engine' = engine
        /\ \A r \in ratings : r.user # u \/ r.item # i
        /\ ratings' = ratings \cup {[user |-> u, item |-> i, stars |-> stars, at |-> t]}
    BY <1>1 DEF Rate, walkVars
  <2>2. \A r, q \in ratings' : r.user = q.user /\ r.item = q.item => r = q
    BY <2>1 DEF PastInv
  <2> QED
    BY <2>1, <2>2 DEF PastInv
<1>2. CASE Prepare
  BY <1>2 DEF Prepare, PastInv, walkVars
<1>3. ASSUME NEW S \in SUBSET User, Sample(S) PROVE PastInv'
  <2>1. /\ phase = "split" /\ ratings' = ratings /\ engine' = engine /\ groups' = groups
        /\ phase' = "training" /\ user' = user /\ parts' = parts
        /\ groups = {} /\ user = Nobody /\ engine = FreshEngine
    BY <1>3 DEF Sample, WalkInv, Idle, PastInv
  <2>2. Walked' = {}
    <3>1. \A r \in parts.train : r.user \in User
      BY <2>1 DEF WalkInv, RowInv, SplitInv
    <3> QED
      BY <2>1, <3>1, TrainingAssumption DEF Walked
  <2> QED
    BY <2>1, <2>2, OrderNone DEF PastInv
<1>4. ASSUME NEW row \in left, Walk(row) PROVE PastInv'
  <2>1. phase = "training"
    BY <1>4 DEF WalkInv, Idle
  <2> QED
    BY <1>4, <2>1, WalkKeepsPast
<1>5. ASSUME NEW u \in User, NextUser(u) PROVE PastInv'
  <2>1. /\ phase = "training" /\ phase' = phase /\ ratings' = ratings /\ parts' = parts
        /\ user \notin UsersOf(left) /\ u \in UsersOf(left)
        /\ user' = u /\ left' = left /\ groups' = groups /\ engine' = FreshEngine
    BY <1>5 DEF NextUser
  <2>2. Walked' = {}
    <3>1. PICK q \in left : q.user = u
      BY <2>1 DEF UsersOf
    <3>2. \A p \in left, r \in parts.train : r.user = p.user => r \in left
      BY <2>1 DEF WalkInv, OthersWhole, UsersOf
    <3> QED
      BY <2>1, <3>1, <3>2 DEF Walked
  <2>3. \A g : OfPast(g) => OfPast(g)'
    BY <2>1 DEF OfPast, Earlier
  <2> QED
    BY <2>1, <2>2, <2>3, OrderNone DEF PastInv
<1>6. CASE UNCHANGED <<phase, ratings, parts, walkVars>>
  <2>1. /\ phase' = phase /\ ratings' = ratings /\ parts' = parts /\ left' = left
        /\ user' = user /\ engine' = engine /\ groups' = groups
    BY <1>6 DEF walkVars
  <2>2. Walked' = Walked
    BY <2>1 DEF Walked
  <2>3. \A g : OfPast(g) => OfPast(g)'
    BY <2>1 DEF OfPast, Earlier
  <2> QED
    BY <2>1, <2>2, <2>3 DEF PastInv
<1> QED
  BY <1>1, <1>2, <1>3, <1>4, <1>5, <1>6 DEF Next, Evaluate, vars

\* What a group without a rival at its instant knows of its user is what an
\* engine knows that was fed exactly the user's earlier events, and nothing of
\* the positive itself (dataset.py, snapshot before apply), for any table,
\* catalog and caps.  Source, rank and the titles' statistics are not claimed to
\* be of the past: they are not.
THEOREM UserFeaturesWerePast == Spec => []UserFeaturesAreOfThePast
<1> DEFINE Inv == SplitInv /\ WalkInv /\ PastInv
<1>1. Inv => UserFeaturesAreOfThePast
  <2> SUFFICES ASSUME SplitInv, WalkInv, PastInv, NEW g \in groups PROVE OfPast(g)
    BY DEF UserFeaturesAreOfThePast, OfPast
  <2> QED
    BY DEF WalkInv, Idle, PastInv
<1>2. Init => Inv
  BY SplitInvInit, WalkInvInit, PastInvInit
<1>3. Inv /\ [Next]_vars => Inv'
  BY SplitInvNext, WalkInvNext, PastInvNext
<1> QED
  BY <1>1, <1>2, <1>3, PTL DEF Spec

-----------------------------------------------------------------------------
(* What a replay of rows holds.                                            *)

\* Finitely many ratings, each of one to five stars at an instant.
RowsOK(R) == IsFiniteSet(R) /\ \A r \in R : r.stars \in 1..5 /\ r.at \in Int

\* The engine x after the first n rows of s.
HasFed(x, s, n) ==
    /\ x.count = n
    /\ x.interacted = {s[k].item : k \in 1..n}
    /\ x.history \in Seq({RecordOf(EventOf(s[k])) : k \in 1..n})
    /\ Len(x.history) = IF n > HistoryCap THEN HistoryCap ELSE n
    /\ \A k \in 1..Len(x.history) :
        x.history[k] = RecordOf(EventOf(s[k + (n - Len(x.history))]))

\* No rating is an impression.
LEMMA RatingTypes ==
    ASSUME NEW r, r.stars \in 1..5
    PROVE  EventOf(r).type # "impression" /\ EventOf(r).item = r.item /\ EventOf(r).at = r.at
<1>1. \A k \in 1..5 : RatingToEvent[k] \in {"dislike", "skip", "view", "watch", "like"}
  BY DEF RatingToEvent
<1>2. EventOf(r).type = RatingToEvent[r.stars] /\ EventOf(r).item = r.item /\ EventOf(r).at = r.at
  BY DEF EventOf
<1> QED
  BY <1>1, <1>2

\* The fields of an engine after an event.
LEMMA AppliedFields ==
    ASSUME NEW x, NEW e, NEW cats, e.type # "impression"
    PROVE  /\ Applied(x, e, cats).history = Newest(Append(x.history, RecordOf(e)), HistoryCap)
           /\ Applied(x, e, cats).count = x.count + 1
           /\ Applied(x, e, cats).interacted = x.interacted \cup {e.item}
BY DEF Applied

\* Applying the next row keeps HasFed.
LEMMA OneRowMore ==
    ASSUME NEW s, NEW n \in Nat, NEW x, HasFed(x, s, n), s[n + 1].stars \in 1..5
    PROVE  HasFed(Applied(x, EventOf(s[n + 1]), CategoriesOf[s[n + 1].item]), s, n + 1)
<1> DEFINE row == s[n + 1]
           y == Applied(x, EventOf(row), CategoriesOf[row.item])
           S == {RecordOf(EventOf(s[k])) : k \in 1..(n + 1)}
           h == Append(x.history, RecordOf(EventOf(row)))
           L == Len(x.history)
           M == Len(y.history)
<1>1. /\ y.history = Newest(h, HistoryCap) /\ y.count = x.count + 1
      /\ y.interacted = x.interacted \cup {row.item}
  BY RatingTypes, AppliedFields
<1>2. HistoryCap \in Nat \ {0} /\ L \in Nat /\ L = (IF n > HistoryCap THEN HistoryCap ELSE n)
  BY EngineAssumption DEF HasFed
<1>3. x.history \in Seq(S) /\ RecordOf(EventOf(row)) \in S
  <2>1. {RecordOf(EventOf(s[k])) : k \in 1..n} \subseteq S
    OBVIOUS
  <2> HIDE DEF S
  <2>2. x.history \in Seq(S)
    BY <2>1 DEF HasFed
  <2>3. RecordOf(EventOf(row)) \in S
    BY DEF S
  <2> QED
    BY <2>2, <2>3
<1> HIDE DEF S, y
<1>4. h \in Seq(S) /\ Len(h) = L + 1 /\ h[L + 1] = RecordOf(EventOf(row))
      /\ \A k \in 1..L : h[k] = x.history[k]
  BY <1>2, <1>3, AppendProperties
<1>5. y.history \in Seq(S) /\ IsNewest(y.history, h, HistoryCap)
  <2> HIDE DEF h
  <2> QED
    BY <1>1, <1>2, <1>4, NewestTyped
<1>6. M = (IF L + 1 > HistoryCap THEN HistoryCap ELSE L + 1)
      /\ \A k \in 1..M : y.history[k] = h[k + (L + 1 - M)]
  <2>1. M = (IF Len(h) > HistoryCap THEN HistoryCap ELSE Len(h))
        /\ \A k \in 1..M : y.history[k] = h[k + (Len(h) - M)]
    BY <1>5 DEF IsNewest
  <2>2. Len(h) = L + 1
    BY <1>4
  <2>3. \A k \in 1..M : Len(h) - M = L + 1 - M
    BY <2>2
  <2> HIDE DEF M, L, h
  <2> QED
    BY <2>1, <2>2, <2>3
<1>7. M = (IF n + 1 > HistoryCap THEN HistoryCap ELSE n + 1)
  BY <1>2, <1>6
<1>8. ASSUME NEW k \in 1..M
      PROVE  y.history[k] = RecordOf(EventOf(s[k + (n + 1 - M)]))
  <2> DEFINE j == k + (L + 1 - M)
  <2>1. M \in Nat /\ M <= L + 1 /\ j \in 1..(L + 1)
    <3>1. M \in Nat /\ M <= L + 1
      BY <1>2, <1>6
    <3> HIDE DEF M, L
    <3> QED
      BY <1>2, <3>1
  <2>2. y.history[k] = h[j]
    BY <1>6
  <2>5. /\ j = L + 1 => k + (n + 1 - M) = n + 1
        /\ j # L + 1 => j \in 1..L
        /\ j + (n - L) = k + (n + 1 - M)
    <3> HIDE DEF M, L
    <3> QED
      BY <1>2, <2>1
  <2>3. CASE j = L + 1
    <3>1. k + (n + 1 - M) = n + 1
      BY <2>3, <2>5
    <3> QED
      BY <1>4, <2>2, <2>3, <3>1
  <2>4. CASE j # L + 1
    <3>1. j \in 1..L
      BY <2>4, <2>5
    <3>2. h[j] = RecordOf(EventOf(s[j + (n - L)]))
      BY <1>4, <3>1 DEF HasFed
    <3>3. j + (n - L) = k + (n + 1 - M)
      BY <2>5
    <3> QED
      BY <2>2, <3>2, <3>3
  <2> QED
    BY <2>3, <2>4
<1>9. y.count = n + 1
  BY <1>1 DEF HasFed
<1>10. y.interacted = {s[k].item : k \in 1..(n + 1)}
  <2>1. y.interacted = {s[k].item : k \in 1..n} \cup {s[n + 1].item}
    BY <1>1 DEF HasFed
  <2>2. \A k : k \in 1..(n + 1) <=> k \in 1..n \/ k = n + 1
    OBVIOUS
  <2> QED
    BY <2>1, <2>2
<1> QED
  BY <1>5, <1>7, <1>8, <1>9, <1>10 DEF HasFed, S, y

\* A replay of all rows of an order holds them all.
LEMMA AfterRows ==
    ASSUME NEW R, RowsOK(R), NEW s \in TimeOrders(R)
    PROVE  HasFed(Replayed(Fed(s)), s, Cardinality(R))
<1> DEFINE N == Cardinality(R)
           p == Fed(s)
           P == {n \in Nat : n \in 0..N => HasFed(Trace(p)[n], s, n)}
           S == {<<EventOf(r), CategoriesOf[r.item]>> : r \in R}
<1>1. N \in Nat /\ s \in [1..N -> R]
  BY FS_CardinalityType, OrderForm DEF RowsOK
<1>2. p \in Seq(S) /\ Len(p) = N
      /\ \A k \in 1..N : p[k] = <<EventOf(s[k]), CategoriesOf[s[k].item]>>
  <2>1. p = [k \in 1..N |-> <<EventOf(s[k]), CategoriesOf[s[k].item]>>]
    BY <1>1 DEF Fed
  <2>2. p \in [1..N -> S]
    BY <1>1, <2>1
  <2> HIDE DEF S, p, N
  <2>3. p \in Seq(S) /\ Len(p) = N
    BY <1>1, <2>2
  <2> QED
    BY <2>1, <2>3
<1> HIDE DEF S, p, N
<1>3. /\ Replayed(p) = Trace(p)[N] /\ Trace(p)[0] = FreshEngine
      /\ \A n \in 1..N : Trace(p)[n] = Applied(Trace(p)[n - 1], p[n][1], p[n][2])
  BY <1>2, TraceThere
<1>4. 0 \in P
  <2>1. HasFed(FreshEngine, s, 0)
    <3>1. /\ FreshEngine.count = 0 /\ FreshEngine.interacted = {} /\ FreshEngine.history = <<>>
      BY DEF FreshEngine
    <3>2. <<>> \in Seq({RecordOf(EventOf(s[k])) : k \in 1..0}) /\ Len(<<>>) = 0 /\ 1..0 = {}
      OBVIOUS
    <3> QED
      BY <3>1, <3>2, EngineAssumption DEF HasFed
  <2> QED
    BY <1>3, <2>1
<1>5. ASSUME NEW n \in Nat, n \in P
      PROVE  n + 1 \in P
  <2>1. CASE n + 1 \in 0..N
    <3>1. n \in 0..N /\ n + 1 \in 1..N /\ (n + 1) - 1 = n
      BY <1>1, <2>1
    <3>2. HasFed(Trace(p)[n], s, n)
      BY <1>5, <3>1
    <3>3. s[n + 1].stars \in 1..5
      BY <1>1, <3>1 DEF RowsOK
    <3>4. Trace(p)[n + 1] = Applied(Trace(p)[n], EventOf(s[n + 1]), CategoriesOf[s[n + 1].item])
      BY <1>2, <1>3, <3>1
    <3>5. HasFed(Trace(p)[n + 1], s, n + 1)
      BY <3>2, <3>3, <3>4, OneRowMore
    <3> QED
      BY <3>5
  <2> QED
    BY <2>1
<1>6. N \in P
  <2> HIDE DEF P
  <2> QED
    BY <1>1, <1>4, <1>5, Upwards
<1> QED
  BY <1>1, <1>3, <1>6 DEF p, N

-----------------------------------------------------------------------------
(* The states of the evaluation.                                           *)

\* The fields of a stored state.
LEMMA StateFields ==
    ASSUME NEW s, NEW t
    PROVE  LET x == Replayed(Fed(s)) IN
           /\ StateAfter(s, t).count = x.count
           /\ StateAfter(s, t).interacted = x.interacted
           /\ StateAfter(s, t).updatedAt = t
           /\ StateAfter(s, t).counts = WindowCounts(x.history, t)
BY DEF StateAfter, Snapshot, Fed

\* A window count of the state against the rows of the window.
LEMMA CountsOfRows ==
    ASSUME NEW R, RowsOK(R), NEW s \in TimeOrders(R), NEW T \in Int,
           NEW w \in Window, NEW t \in CountedType
    PROVE  WindowCounts(Replayed(Fed(s)).history, T)[<<w, t>>] <=
                Cardinality({r \in R : EventOf(r).type = t /\ r.at >= T - w})
<1> DEFINE N == Cardinality(R)
           h == Replayed(Fed(s)).history
           L == Len(h)
           In == {k \in DOMAIN h : h[k].type = t /\ InWindow(h[k], T, w)}
           Late == {r \in R : EventOf(r).type = t /\ r.at >= T - w}
           g == [k \in In |-> s[k + (N - L)]]
<1>1. /\ N \in Nat /\ s \in [1..N -> R] /\ w \in Int
      /\ \A j, k \in 1..N : j # k => s[j] # s[k]
  BY FS_CardinalityType, OrderForm, EngineAssumption DEF RowsOK, Window
<1>2. HasFed(Replayed(Fed(s)), s, N)
  BY AfterRows
<1>3. /\ h \in Seq({RecordOf(EventOf(s[k])) : k \in 1..N})
      /\ L = (IF N > HistoryCap THEN HistoryCap ELSE N)
      /\ \A k \in 1..L : h[k] = RecordOf(EventOf(s[k + (N - L)]))
  BY <1>2 DEF HasFed
<1>4. DOMAIN h = 1..L /\ L \in Nat /\ L <= N
  BY <1>1, <1>3, EngineAssumption
<1>5. WindowCounts(h, T)[<<w, t>>] = Cardinality(In)
  <2>1. <<w, t>> \in Window \X CountedType
    OBVIOUS
  <2> HIDE DEF h
  <2> QED
    BY <2>1 DEF WindowCounts
<1> HIDE DEF h, L, N
<1>6. ASSUME NEW k \in 1..L
      PROVE  /\ k + (N - L) \in 1..N
             /\ k \in In => s[k + (N - L)] \in Late
  <2>1. k + (N - L) \in 1..N
    BY <1>1, <1>4
  <2> DEFINE r == s[k + (N - L)]
  <2>2. r \in R /\ r.at \in Int /\ EventOf(r).at = r.at
    BY <1>1, <2>1, RatingTypes DEF RowsOK
  <2>3. h[k].type = EventOf(r).type /\ h[k].at = r.at
    <3>1. h[k] = RecordOf(EventOf(r))
      BY <1>3
    <3>2. RecordOf(EventOf(r)).type = EventOf(r).type /\ RecordOf(EventOf(r)).at = EventOf(r).at
      BY DEF RecordOf
    <3> QED
      BY <2>2, <3>1, <3>2
  <2> HIDE DEF r
  <2>4. k \in In => r \in Late
    BY <1>1, <2>2, <2>3 DEF InWindow
  <2> QED
    BY <2>1, <2>4 DEF r
<1>7. In \subseteq 1..L
  BY <1>4
<1> HIDE DEF In, Late
<1>8. g \in Injection(In, Late)
  <2>1. g \in [In -> Late]
    BY <1>6, <1>7
  <2>2. ASSUME NEW j \in In, NEW k \in In, g[j] = g[k]
        PROVE  j = k
    <3>1. j + (N - L) \in 1..N /\ k + (N - L) \in 1..N /\ j \in Int /\ k \in Int
      BY <1>6, <1>7
    <3>2. j + (N - L) = k + (N - L)
      BY <1>1, <2>2, <3>1
    <3> QED
      BY <1>1, <1>4, <3>1, <3>2
  <2> QED
    BY <2>1, <2>2, Fun_IsInj
<1>9. IsFiniteSet(Late)
  BY FS_Subset DEF Late, RowsOK
<1>10. Cardinality(In) <= Cardinality(Late)
  BY <1>8, <1>9, FS_Injection
<1> QED
  BY <1>5, <1>10 DEF h, Late

\* No count of the history h exceeds the rows of R in its window.
CountsWithin(h, R, T) ==
    \A w \in Window, t \in CountedType :
        WindowCounts(h, T)[<<w, t>>] <= Cardinality({r \in R : EventOf(r).type = t /\ r.at >= T - w})

\* The same for every window and type at once.
LEMMA AllCountsWithin ==
    ASSUME NEW R, RowsOK(R), NEW s \in TimeOrders(R), NEW T \in Int
    PROVE  CountsWithin(Replayed(Fed(s)).history, R, T)
<1> SUFFICES ASSUME NEW w \in Window, NEW t \in CountedType
             PROVE  WindowCounts(Replayed(Fed(s)).history, T)[<<w, t>>] <=
                        Cardinality({r \in R : EventOf(r).type = t /\ r.at >= T - w})
  BY DEF CountsWithin
<1> QED
  BY CountsOfRows

\* An evaluated user's state is that of a replay of the user's train rows.
BlindInv ==
    /\ \A r \in ratings : r.stars \in 1..5
    /\ \A u \in User : evaluated[u] # NoState =>
        /\ phase = "training"
        /\ \E s \in TimeOrders(TrainRowsOf(u)) :
            evaluated[u] = StateAfter(s, LastTime(parts.train))
    /\ evaluated = [u \in User |-> evaluated[u]]

\* At first nobody was evaluated.
LEMMA BlindInvInit == Init => BlindInv
BY DEF Init, BlindInv

\* Every step keeps BlindInv.
LEMMA BlindInvNext == SplitInv /\ WalkInv /\ BlindInv /\ [Next]_vars => BlindInv'
<1> SUFFICES ASSUME SplitInv, WalkInv, BlindInv, [Next]_vars PROVE BlindInv'
  OBVIOUS
<1>1. ASSUME NEW u \in User, NEW i \in Item, NEW stars \in 1..5, NEW t \in Time,
             Rate(u, i, stars, t)
      PROVE  BlindInv'
  <2>1. /\ phase = "rating" /\ evaluated' = evaluated
        /\ ratings' = ratings \cup {[user |-> u, item |-> i, stars |-> stars, at |-> t]}
    BY <1>1 DEF Rate
  <2>2. \A v \in User : evaluated[v] = NoState
    BY <2>1 DEF BlindInv
  <2>3. \A r \in ratings' : r.stars \in 1..5
    BY <2>1 DEF BlindInv
  <2> QED
    BY <2>1, <2>2, <2>3 DEF BlindInv
<1>2. CASE Prepare \/ \E S \in SUBSET User : Sample(S)
  <2>1. phase # "training" /\ evaluated' = evaluated /\ ratings' = ratings
    BY <1>2 DEF Prepare, Sample
  <2>2. \A v \in User : evaluated[v] = NoState
    BY <2>1 DEF BlindInv
  <2> QED
    BY <2>1, <2>2 DEF BlindInv
<1>3. CASE (\E row \in left : Walk(row)) \/ (\E u \in User : NextUser(u)) \/ UNCHANGED vars
  <2>1. phase' = phase /\ evaluated' = evaluated /\ ratings' = ratings /\ parts' = parts
    BY <1>3 DEF Walk, NextUser, vars
  <2>2. \A u : TrainRowsOf(u)' = TrainRowsOf(u)
    BY <2>1 DEF TrainRowsOf
  <2> QED
    BY <2>1, <2>2 DEF BlindInv
<1>4. ASSUME NEW u \in User, Evaluate(u) PROVE BlindInv'
  <2>1. /\ phase = "training" /\ phase' = phase /\ ratings' = ratings /\ parts' = parts
    BY <1>4 DEF Evaluate
  <2>2. PICK s \in TimeOrders(TrainRowsOf(u)) :
            evaluated' = [evaluated EXCEPT ![u] = StateAfter(s, LastTime(parts.train))]
    BY <1>4 DEF Evaluate
  <2>3. \A v : TrainRowsOf(v)' = TrainRowsOf(v)
    BY <2>1 DEF TrainRowsOf
  <2>4. evaluated = [v \in User |-> evaluated[v]]
    BY DEF BlindInv
  <2>5. evaluated'[u] = StateAfter(s, LastTime(parts.train))
        /\ \A v \in User : v # u => evaluated'[v] = evaluated[v]
    BY <2>2, <2>4
  <2>6. evaluated' = [v \in User |-> evaluated'[v]]
    BY <2>2, <2>4
  <2>7. ASSUME NEW v \in User, evaluated'[v] # NoState
        PROVE  \E q \in TimeOrders(TrainRowsOf(v)) :
                    evaluated'[v] = StateAfter(q, LastTime(parts.train))
    <3>1. CASE v = u
      BY <2>5, <3>1
    <3>2. CASE v # u
      BY <2>5, <2>7, <3>2 DEF BlindInv
    <3> QED
      BY <3>1, <3>2
  <2> QED
    BY <2>1, <2>3, <2>6, <2>7 DEF BlindInv
<1> QED
  BY <1>1, <1>2, <1>3, <1>4 DEF Next

\* The latest instant of a table.
LEMMA LastTimeIsThere ==
    ASSUME NEW rows, IsFiniteSet(rows), rows # {}, \A r \in rows : r.at \in Int
    PROVE  LastTime(rows) \in Int
<1> DEFINE T == {r.at : r \in rows}
<1>1. \E x \in T : \A y \in T : x >= y
  <2>1. PICK r \in rows : \A q \in rows : q.at <= r.at
    BY LatestRow
  <2> QED
    BY <2>1
<1>2. T \subseteq Int
  OBVIOUS
<1>3. Max(T) \in T
  <2> HIDE DEF T
  <2> QED
    BY <1>1 DEF Max
<1> QED
  BY <1>2, <1>3 DEF LastTime

\* A replay of the train rows knows all of them and nothing later.
LEMMA EvaluatedIsBlind ==
    SplitInv /\ WalkInv /\ PastInv /\ BlindInv => EvaluationIsBlind
<1> SUFFICES ASSUME SplitInv, WalkInv, PastInv, BlindInv,
                    NEW u \in User, evaluated[u] # NoState
             PROVE  LET mine == {r \in parts.train : r.user = u} IN
                    /\ evaluated[u].count = Cardinality(mine)
                    /\ evaluated[u].interacted = {r.item : r \in mine}
                    /\ evaluated[u].interacted \cap Relevant(u) = {}
                    /\ \A w \in Window, t \in CountedType :
                        evaluated[u].counts[<<w, t>>] <=
                            Cardinality({r \in mine : /\ EventOf(r).type = t
                                                      /\ r.at >= evaluated[u].updatedAt - w})
  BY DEF EvaluationIsBlind
<1> DEFINE mine == {r \in parts.train : r.user = u}
           N == Cardinality(mine)
           T == LastTime(parts.train)
<1>1. /\ phase = "training" /\ Valid(parts) /\ IsFiniteSet(ratings)
      /\ parts.train \subseteq ratings /\ parts.test \subseteq ratings
      /\ parts.train # {} /\ parts.train \cap parts.test = {}
      /\ \A r \in ratings : r.at \in Int /\ r.stars \in 1..5
  BY DEF BlindInv, SplitInv, Valid
<1>2. RowsOK(mine) /\ mine = TrainRowsOf(u)
  <2>1. mine \in SUBSET ratings
    BY <1>1
  <2> QED
    BY <1>1, <2>1, FS_Subset DEF RowsOK, TrainRowsOf
<1>3. T \in Int
  <2>1. IsFiniteSet(parts.train)
    BY <1>1, FS_Subset
  <2> QED
    BY <1>1, <2>1, LastTimeIsThere
<1> HIDE DEF T
<1>4. PICK s \in TimeOrders(mine) : evaluated[u] = StateAfter(s, T)
  BY <1>2 DEF BlindInv, T
<1> DEFINE x == Replayed(Fed(s))
<1>5. /\ evaluated[u].count = x.count /\ evaluated[u].interacted = x.interacted
      /\ evaluated[u].updatedAt = T /\ evaluated[u].counts = WindowCounts(x.history, T)
  BY <1>4, StateFields
<1>6. x.count = N /\ x.interacted = {s[k].item : k \in 1..N}
  <2>1. RowsOK(mine) /\ s \in TimeOrders(mine)
    BY <1>2, <1>4
  <2> HIDE DEF mine
  <2>2. HasFed(Replayed(Fed(s)), s, Cardinality(mine))
    BY <2>1, AfterRows
  <2>3. HasFed(x, s, N)
    BY <2>2
  <2> HIDE DEF x, N
  <2> QED
    BY <2>3 DEF HasFed
<1>7. {s[k].item : k \in 1..N} = {r.item : r \in mine}
  <2>1. /\ N \in Nat /\ IsFiniteSet(mine) /\ s \in [1..N -> mine]
        /\ \A j, k \in 1..N : j # k => s[j] # s[k]
    BY <1>2, <1>4, FS_CardinalityType, OrderForm DEF RowsOK
  <2> HIDE DEF mine
  <2>2. Cardinality(1..N) = N
    <3> HIDE DEF N
    <3>1. 1 \in Int /\ N \in Int /\ (1 > N => N = 0) /\ (~(1 > N) => N - 1 + 1 = N)
      BY <2>1
    <3>2. Cardinality(1..N) = IF 1 > N THEN 0 ELSE N - 1 + 1
      BY <3>1, FS_Interval, Zenon
    <3> QED
      BY <3>1, <3>2
  <2>3. s \in Injection(1..N, mine)
    BY <2>1, Fun_IsInj
  <2>4. s \in Surjection(1..N, mine)
    BY <2>1, <2>2, <2>3, FS_Injection
  <2>5. \A r \in mine : \E k \in 1..N : s[k] = r
    <3> HIDE DEF N
    <3> QED
      BY <2>4 DEF Surjection
  <2> QED
    BY <2>1, <2>5
<1>8. {r.item : r \in mine} \cap Relevant(u) = {}
  BY <1>1 DEF Relevant, PastInv
<1>9. \A w \in Window, t \in CountedType :
        WindowCounts(x.history, T)[<<w, t>>] <=
            Cardinality({r \in mine : EventOf(r).type = t /\ r.at >= T - w})
  <2>1. RowsOK(mine) /\ s \in TimeOrders(mine)
    BY <1>2, <1>4
  <2> HIDE DEF mine
  <2>2. CountsWithin(Replayed(Fed(s)).history, mine, T)
    BY <1>3, <2>1, AllCountsWithin
  <2>3. CountsWithin(x.history, mine, T)
    BY <2>2
  <2> HIDE DEF x
  <2> QED
    BY <2>3 DEF CountsWithin
<1> HIDE DEF x, N
<1> QED
  BY <1>5, <1>6, <1>7, <1>8, <1>9 DEF N

\* The state an evaluated user is ranked with holds all of the user's train
\* events and nothing later, in any window and of any type (evaluate.py), for
\* any table of ratings, fractions, caps and windows.
THEOREM EvaluationWasBlind == Spec => []EvaluationIsBlind
<1> DEFINE Inv == SplitInv /\ WalkInv /\ PastInv /\ BlindInv
<1>1. Inv => EvaluationIsBlind
  BY EvaluatedIsBlind
<1>2. Init => Inv
  BY SplitInvInit, WalkInvInit, PastInvInit, BlindInvInit
<1>3. Inv /\ [Next]_vars => Inv'
  BY SplitInvNext, WalkInvNext, PastInvNext, BlindInvNext
<1> QED
  BY <1>1, <1>2, <1>3, PTL DEF Spec
=============================================================================
