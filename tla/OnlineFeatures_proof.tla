------------------------ MODULE OnlineFeatures_proof ------------------------
(***************************************************************************)
(* Theorems about OnlineFeatures, for all items, genres, caps, windows and *)
(* any number of events: the sets of liked and disliked titles, the types  *)
(* and bounds of the blob, the window counts, the seeding of known likes,  *)
(* and the agreement of the stored features with an offline replay.        *)
(***************************************************************************)
EXTENDS OnlineFeatures, FiniteSetTheorems, FunctionTheorems, SequenceTheorems, TLAPS

\* What the induction needs: the tape is a sequence of client events, the blob
\* exists from the first event on, and it has the two sets.
TasteInv ==
    /\ tape \in Seq(ClientEvents \X SUBSET Category)
    /\ features = NoKey => tape = <<>>
    /\ features # NoKey => {"liked", "disliked"} \subseteq DOMAIN features
    /\ LastSignalWins

\* The fields of an event.
LEMMA EventTyped ==
    ASSUME NEW e \in ClientEvents
    PROVE  e.item \in Item /\ e.type \in Type
BY DEF ClientEvents

\* Positive and negative signals are different ones.
LEMMA SignalsDiffer == Positive \cap Negative = {}
BY DEF Positive, Negative

\* The step of an event: the two sets follow the event's type.
LEMMA ProcessTaste ==
    ASSUME TasteInv, NEW e \in ClientEvents, Process(e)
    PROVE  TasteInv'
<1> DEFINE liked0    == IF features = NoKey THEN {} ELSE features.liked
           disliked0 == IF features = NoKey THEN {} ELSE features.disliked
           cats      == CategoriesFor(e)
           before    == Seeded(Loaded, Catalog)
           after     == Applied(before, e, cats)
<1>1. before.liked = liked0 /\ before.disliked = disliked0
  <2>1. Loaded.liked = liked0 /\ Loaded.disliked = disliked0
    BY DEF Loaded, FreshEngine, EngineFrom
  <2>2. {"liked", "disliked", "affinity"} \subseteq DOMAIN Loaded
    BY DEF Loaded, FreshEngine, EngineFrom
  <2> QED
    BY <2>1, <2>2 DEF Seeded
<1>2. /\ after.liked = IF e.type = "impression" THEN liked0
                       ELSE CASE e.type \in Positive -> liked0 \cup {e.item}
                              [] e.type \in Negative -> liked0 \ {e.item}
                              [] OTHER -> liked0
      /\ after.disliked = IF e.type = "impression" THEN disliked0
                       ELSE CASE e.type \in Positive -> disliked0 \ {e.item}
                              [] e.type \in Negative -> disliked0 \cup {e.item}
                              [] OTHER -> disliked0
  BY <1>1 DEF Applied, LikedAfter, DislikedAfter
<1>3. /\ features'.liked = after.liked
      /\ features'.disliked = after.disliked
      /\ {"liked", "disliked"} \subseteq DOMAIN features'
  BY DEF Process, Snapshot
<1>4. features' # NoKey
  <2>1. DOMAIN NoKey = {}
    BY DEF NoKey
  <2> QED
    BY <1>3, <2>1
<1>5. tape' = Append(tape, <<e, cats>>) /\ cats \in SUBSET Category
  BY OnlineAssumption, EventTyped DEF Process, CategoriesFor, Catalog, ClientEvents
<1> DEFINE n == Len(tape)
<1>6. /\ tape' \in Seq(ClientEvents \X SUBSET Category)
      /\ n \in Nat /\ DOMAIN tape = 1..n /\ DOMAIN tape' = 1..(n + 1)
      /\ \A k \in 1..n : tape'[k] = tape[k]
      /\ tape'[n + 1] = <<e, cats>>
  BY <1>5 DEF TasteInv
<1>7. tape' # <<>>
  BY <1>6
<1> HIDE DEF liked0, disliked0, cats, before, after, n
<1>8. ASSUME NEW i \in Item
      PROVE  /\ i \in liked0 <=> LastSignalIn(i, Positive)
             /\ i \in disliked0 <=> LastSignalIn(i, Negative)
  <2>1. CASE features = NoKey
    BY <2>1 DEF TasteInv, liked0, disliked0, LastSignalIn
  <2>2. CASE features # NoKey
    BY <2>2 DEF TasteInv, LastSignalWins, liked0, disliked0
  <2> QED
    BY <2>1, <2>2
<1>9. ASSUME NEW i \in Item, NEW S \in {Positive, Negative}
      PROVE  LastSignalIn(i, S)' <=>
                IF e.item = i /\ e.type \in Positive \cup Negative
                THEN e.type \in S
                ELSE LastSignalIn(i, S)
  <2>1. CASE e.item = i /\ e.type \in Positive \cup Negative
    <3>1. ASSUME e.type \in S
          PROVE  LastSignalIn(i, S)'
      BY <1>6, <2>1, <3>1 DEF LastSignalIn
    <3>2. ASSUME LastSignalIn(i, S)'
          PROVE  e.type \in S
      <4> PICK k \in 1..(n + 1) :
              /\ tape'[k][1].item = i /\ tape'[k][1].type \in S
              /\ \A j \in 1..(n + 1) :
                    (j > k /\ tape'[j][1].item = i) => tape'[j][1].type \notin Positive \cup Negative
        BY <1>6, <3>2 DEF LastSignalIn
      <4>1. k = n + 1
        BY <1>6, <2>1
      <4> QED
        BY <1>6, <4>1
    <3> QED
      BY <2>1, <3>1, <3>2
  <2>2. CASE ~(e.item = i /\ e.type \in Positive \cup Negative)
    <3>1. ASSUME LastSignalIn(i, S)
          PROVE  LastSignalIn(i, S)'
      <4> PICK k \in 1..n :
              /\ tape[k][1].item = i /\ tape[k][1].type \in S
              /\ \A j \in 1..n :
                    (j > k /\ tape[j][1].item = i) => tape[j][1].type \notin Positive \cup Negative
        BY <1>6, <3>1 DEF LastSignalIn
      <4>1. k \in 1..(n + 1) /\ tape'[k] = tape[k]
        BY <1>6
      <4>2. ASSUME NEW j \in 1..(n + 1), j > k, tape'[j][1].item = i
            PROVE  tape'[j][1].type \notin Positive \cup Negative
        <5>1. CASE j = n + 1
          BY <1>6, <2>2, <4>2, <5>1
        <5>2. CASE j \in 1..n
          BY <1>6, <4>2, <5>2
        <5> QED
          BY <1>6, <5>1, <5>2
      <4> QED
        BY <1>6, <4>1, <4>2 DEF LastSignalIn
    <3>2. ASSUME LastSignalIn(i, S)'
          PROVE  LastSignalIn(i, S)
      <4> PICK k \in 1..(n + 1) :
              /\ tape'[k][1].item = i /\ tape'[k][1].type \in S
              /\ \A j \in 1..(n + 1) :
                    (j > k /\ tape'[j][1].item = i) => tape'[j][1].type \notin Positive \cup Negative
        BY <1>6, <3>2 DEF LastSignalIn
      <4>1. k \in 1..n /\ tape'[k] = tape[k]
        BY <1>6, <2>2
      <4>2. \A j \in 1..n : j \in 1..(n + 1) /\ tape'[j] = tape[j]
        BY <1>6
      <4> QED
        BY <1>6, <4>1, <4>2 DEF LastSignalIn
    <3> QED
      BY <2>2, <3>1, <3>2
  <2> QED
    BY <2>1, <2>2
<1>10. ASSUME NEW i \in Item
       PROVE  /\ i \in after.liked <=> LastSignalIn(i, Positive)'
              /\ i \in after.disliked <=> LastSignalIn(i, Negative)'
  <2>1. "impression" \notin Positive \cup Negative
    BY DEF Positive, Negative
  <2>2. CASE e.type \in Positive
    BY <1>2, <1>8, <1>9, <2>1, <2>2, SignalsDiffer
  <2>3. CASE e.type \in Negative
    BY <1>2, <1>8, <1>9, <2>1, <2>3, SignalsDiffer
  <2>4. CASE e.type \notin Positive \cup Negative
    BY <1>2, <1>8, <1>9, <2>4
  <2> QED
    BY <2>2, <2>3, <2>4
<1>11. LastSignalWins'
  BY <1>3, <1>10 DEF LastSignalWins
<1> QED
  BY <1>3, <1>4, <1>6, <1>11 DEF TasteInv

\* No signal, no taste.
LEMMA TasteInvInit == Init => TasteInv
BY DEF Init, TasteInv, LastSignalWins

\* A restart's backfill, the clock and stuttering leave the two sets alone.
LEMMA OtherTaste ==
    ASSUME TasteInv,
           tape' = tape,
           features' # NoKey <=> features # NoKey,
           features # NoKey =>
                /\ {"liked", "disliked"} \subseteq DOMAIN features'
                /\ features'.liked = features.liked
                /\ features'.disliked = features.disliked
    PROVE  TasteInv'
<1>1. \A i, S : LastSignalIn(i, S)' <=> LastSignalIn(i, S)
  BY DEF LastSignalIn
<1> QED
  BY <1>1 DEF TasteInv, LastSignalWins

\* Every step keeps the two sets right.
LEMMA TasteInvStep == TasteInv /\ [Next]_vars => TasteInv'
<1> SUFFICES ASSUME TasteInv, [Next]_vars
             PROVE  TasteInv'
  OBVIOUS
<1>1. CASE \E e \in ClientEvents : Process(e)
  BY <1>1, ProcessTaste
<1>2. ASSUME NEW learned \in SUBSET (Item \ known), Restart(learned)
      PROVE  TasteInv'
  <2>1. tape' = tape /\ features' \in {features} \cup (IF features = NoKey THEN {} ELSE {Backfilled})
    BY <1>2 DEF Restart
  <2>2. CASE features' = features
    BY <2>1, <2>2, OtherTaste DEF TasteInv
  <2>3. CASE features # NoKey /\ features' = Backfilled
    <3>1. /\ DOMAIN Backfilled = DOMAIN features
          /\ {"liked", "disliked"} \subseteq DOMAIN features
      BY <2>3 DEF Backfilled, TasteInv
    <3>2. Backfilled.liked = features.liked /\ Backfilled.disliked = features.disliked
      BY <3>1 DEF Backfilled
    <3>3. DOMAIN NoKey = {}
      BY DEF NoKey
    <3> QED
      BY <2>1, <2>3, <3>1, <3>2, <3>3, OtherTaste
  <2> QED
    BY <2>1, <2>2, <2>3
<1>3. CASE Tick \/ UNCHANGED vars
  BY <1>3, OtherTaste DEF Tick, vars, TasteInv
<1> QED
  BY <1>1, <1>2, <1>3 DEF Next

\* Liked and disliked titles follow the last signal applied for them, for any
\* number of events, whatever restarts and backfills come between.
THEOREM TasteFollowsSignals == Spec => []LastSignalWins
<1>1. TasteInv => LastSignalWins
  BY DEF TasteInv
<1> QED
  BY TasteInvInit, TasteInvStep, <1>1, PTL DEF Spec

-----------------------------------------------------------------------------
(* What the engine computes with.                                          *)

\* Induction over the numbers of a set.
LEMMA Upwards ==
    ASSUME NEW P, 0 \in P, \A n \in Nat : n \in P => n + 1 \in P
    PROVE  \A n \in Nat : n \in P
<1> DEFINE R == {p \in Nat \X Nat : p[1] < p[2]}
           Q == {n \in Nat : n \notin P}
<1>1. IsWellFoundedOn(R, Nat)
  BY NatLessThanWellFounded DEF OpToRel
<1>2. ASSUME NEW x \in Q PROVE FALSE
  <2>1. PICK m \in Q : \A j \in Q : ~(<<j, m>> \in R)
    <3>1. Q # {} /\ Q \subseteq Nat
      BY <1>2
    <3> HIDE DEF Q, R
    <3> QED
      BY <1>1, <3>1, WFMin
  <2>2. m \in Nat /\ m # 0 /\ m \notin P
    BY <2>1
  <2>3. m - 1 \in Nat /\ m - 1 < m
    BY <2>2
  <2>4. m - 1 \in P
    BY <2>1, <2>2, <2>3
  <2> QED
    BY <2>2, <2>3, <2>4
<1> QED
  BY <1>2

Bounded == (-Unit)..Unit
Affinities == UNION {[D -> Bounded] : D \in SUBSET Category}
Kept == [type : EventType, item : Item, at : 0..MaxTime]

Engine == [history : Seq(Kept), recent : Seq(Kept), count : Nat, engagement : Int,
           liked : SUBSET Item, disliked : SUBSET Item, interacted : SUBSET Item,
           affinity : Affinities]

EngineOK(e) ==
    /\ e \in Engine
    /\ Len(e.history) <= HistoryCap /\ Len(e.recent) <= RecentCap
    /\ e.liked \cup e.disliked \subseteq e.interacted
    /\ IsFiniteSet(e.interacted)

\* Clipping ends in the bounds and leaves what is in them alone.
LEMMA ClipBounds ==
    ASSUME NEW v \in Int
    PROVE  Clip(v) \in Bounded /\ (v \in Bounded => Clip(v) = v)
BY EngineAssumption DEF Clip, Bounded

\* The moving average stays a whole number.
LEMMA AverageType ==
    ASSUME NEW v \in Int, NEW w \in Int
    PROVE  Average(v, w) \in Int
BY EngineAssumption DEF Average

\* An affinity function without categories is the empty one.
LEMMA NoAffinity ==
    /\ <<>> \in Affinities
    /\ \A f \in Affinities : DOMAIN f = {} => f = <<>>
    /\ \A f \in Affinities : f = [c \in DOMAIN f |-> f[c]] /\ DOMAIN f \subseteq Category
                             /\ \A c \in DOMAIN f : f[c] \in Bounded
<1>1. <<>> \in [{} -> Bounded] /\ {} \in SUBSET Category
  OBVIOUS
<1>2. ASSUME NEW f \in Affinities
      PROVE  /\ f = [c \in DOMAIN f |-> f[c]] /\ DOMAIN f \subseteq Category
             /\ \A c \in DOMAIN f : f[c] \in Bounded
             /\ DOMAIN f = {} => f = <<>>
  <2>1. PICK D \in SUBSET Category : f \in [D -> Bounded]
    BY DEF Affinities
  <2>2. ASSUME DOMAIN f = {} PROVE f = <<>>
    BY <2>1, <2>2
  <2> QED
    BY <2>1, <2>2
<1> QED
  BY <1>1, <1>2 DEF Affinities

\* An update adds the item's categories and loses none.
LEMMA BlendTyped ==
    ASSUME NEW f \in Affinities, NEW cats \in SUBSET Category, NEW w \in Int
    PROVE  /\ Blend(f, cats, w) \in Affinities
           /\ DOMAIN Blend(f, cats, w) = DOMAIN f \cup cats
<1>1. DOMAIN f \subseteq Category /\ \A c \in DOMAIN f : f[c] \in Bounded
  BY NoAffinity
<1>2. \A c \in DOMAIN f : f[c] \in Int
  BY <1>1, EngineAssumption DEF Bounded
<1>3. \A c \in DOMAIN f \cup cats : Affinity(f, c) \in Int
  BY <1>2 DEF Affinity
<1> DEFINE g == Blend(f, cats, w)
<1>4. ASSUME NEW c \in DOMAIN f \cup cats
      PROVE  g[c] \in Bounded
  <2>1. CASE c \in cats
    BY <1>3, <2>1, AverageType, ClipBounds DEF Blend
  <2>2. CASE c \notin cats
    BY <1>2, <2>2, ClipBounds DEF Blend
  <2> QED
    BY <2>1, <2>2
<1>5. g = [c \in DOMAIN f \cup cats |-> g[c]]
  BY DEF Blend
<1> HIDE DEF g
<1>6. g \in [DOMAIN f \cup cats -> Bounded]
  BY <1>4, <1>5
<1> QED
  BY <1>1, <1>6 DEF Affinities, g

IsNewest(t, s, n) ==
    /\ Len(t) = IF Len(s) > n THEN n ELSE Len(s)
    /\ \A k \in 1..Len(t) : t[k] = s[k + (Len(s) - Len(t))]

\* Newest keeps the last records, as many as the cap allows.
LEMMA NewestTyped ==
    ASSUME NEW S, NEW s \in Seq(S), NEW n \in Nat \ {0}
    PROVE  /\ Newest(s, n) \in Seq(S)
           /\ Len(Newest(s, n)) <= n
           /\ IsNewest(Newest(s, n), s, n)
<1>1. CASE Len(s) > n
  <2> DEFINE m == Len(s) - n + 1
  <2>1. Len(s) \in Nat /\ m \in 1..Len(s) /\ Len(s) - m + 1 = n
    BY <1>1
  <2>2. Newest(s, n) = SubSeq(s, m, Len(s))
    BY <1>1 DEF Newest
  <2>3. /\ SubSeq(s, m, Len(s)) \in Seq(S)
        /\ Len(SubSeq(s, m, Len(s))) = n
        /\ \A k \in 1..n : SubSeq(s, m, Len(s))[k] = s[m + k - 1]
    <3>1. /\ m \in Int /\ Len(s) \in Int /\ ~(m > Len(s))
          /\ \A i \in m..Len(s) : i \in 1..Len(s)
      BY <2>1
    <3>2. \A i \in m..Len(s) : s[i] \in S
      BY <3>1
    <3> HIDE DEF m
    <3> QED
      BY <2>1, <3>1, <3>2, SubSeqProperties
  <2>4. \A k \in 1..n : m + k - 1 = k + (Len(s) - n)
    BY <2>1
  <2> HIDE DEF m
  <2> QED
    BY <1>1, <2>2, <2>3, <2>4 DEF IsNewest
<1>2. CASE ~(Len(s) > n)
  <2>1. Len(s) \in Nat /\ Newest(s, n) = s /\ Len(s) <= n
    BY <1>2 DEF Newest
  <2>2. \A k \in 1..Len(s) : k + (Len(s) - Len(s)) = k
    BY <2>1
  <2> QED
    BY <1>2, <2>1, <2>2 DEF IsNewest
<1> QED
  BY <1>1, <1>2

\* The weight of an event is a number, its value being one or absent.
LEMMA WeightTyped ==
    ASSUME NEW e \in ClientEvents
    PROVE  Weight(e) \in Int
<1>1. e.type \in EventType /\ (e.value = NoValue \/ e.value \in Int)
  BY OnlineAssumption DEF ClientEvents
<1>2. /\ Unit \in Int /\ 4 * (Unit \div 10) \in Int /\ 8 * (Unit \div 10) \in Int
      /\ -3 * (Unit \div 10) \in Int /\ -Unit \in Int /\ 3 * (Unit \div 2) \in Int
  BY EngineAssumption
<1> QED
  BY <1>1, <1>2 DEF Weight, EventType

\* What the history keeps of an event.
LEMMA RecordTyped ==
    ASSUME NEW e \in ClientEvents
    PROVE  RecordOf(e) \in Kept
BY OnlineAssumption DEF ClientEvents, RecordOf, Kept

\* Applying an event keeps an engine sound.
LEMMA AppliedTyped ==
    ASSUME NEW x, EngineOK(x), NEW e \in ClientEvents, NEW cats \in SUBSET Category
    PROVE  EngineOK(Applied(x, e, cats))
<1> DEFINE y == Applied(x, e, cats)
<1>1. CASE e.type = "impression"
  BY <1>1 DEF Applied
<1>2. CASE e.type # "impression"
  <2>1. /\ x.history \in Seq(Kept) /\ x.recent \in Seq(Kept) /\ x.count \in Nat
        /\ x.engagement \in Int /\ x.liked \in SUBSET Item /\ x.disliked \in SUBSET Item
        /\ x.interacted \in SUBSET Item /\ x.affinity \in Affinities
        /\ x.liked \cup x.disliked \subseteq x.interacted
        /\ IsFiniteSet(x.interacted)
    BY DEF EngineOK, Engine
  <2>2. RecordOf(e) \in Kept /\ e.item \in Item /\ Weight(e) \in Int
    BY RecordTyped, WeightTyped, EventTyped
  <2> DEFINE h == Append(x.history, RecordOf(e))
             r == Append(x.recent, RecordOf(e))
  <2>3. /\ h \in Seq(Kept) /\ r \in Seq(Kept)
        /\ HistoryCap \in Nat \ {0} /\ RecentCap \in Nat \ {0}
    BY <2>1, <2>2, EngineAssumption
  <2>4. /\ Newest(h, HistoryCap) \in Seq(Kept) /\ Len(Newest(h, HistoryCap)) <= HistoryCap
        /\ Newest(r, RecentCap) \in Seq(Kept) /\ Len(Newest(r, RecentCap)) <= RecentCap
    <3> HIDE DEF h, r
    <3> QED
      BY <2>3, NewestTyped
  <2>5. /\ LikedAfter(x, e) \subseteq x.liked \cup {e.item}
        /\ DislikedAfter(x, e) \subseteq x.disliked \cup {e.item}
    BY DEF LikedAfter, DislikedAfter
  <2>6. (IF Weight(e) # 0 THEN Blend(x.affinity, cats, Weight(e)) ELSE x.affinity) \in Affinities
    BY <2>1, <2>2, BlendTyped
  <2>7. y = [history    |-> Newest(Append(x.history, RecordOf(e)), HistoryCap),
             recent     |-> Newest(Append(x.recent, RecordOf(e)), RecentCap),
             count      |-> x.count + 1,
             engagement |-> x.engagement + Weight(e),
             interacted |-> x.interacted \cup {e.item},
             liked      |-> LikedAfter(x, e),
             disliked   |-> DislikedAfter(x, e),
             affinity   |-> IF Weight(e) # 0 THEN Blend(x.affinity, cats, Weight(e)) ELSE x.affinity]
    BY <1>2 DEF Applied
  <2> HIDE DEF y
  <2>8. /\ x.count + 1 \in Nat /\ x.engagement + Weight(e) \in Int
        /\ x.interacted \cup {e.item} \in SUBSET Item
        /\ LikedAfter(x, e) \in SUBSET Item /\ DislikedAfter(x, e) \in SUBSET Item
        /\ LikedAfter(x, e) \cup DislikedAfter(x, e) \subseteq x.interacted \cup {e.item}
    BY <2>1, <2>2, <2>5
  <2>9. y \in Engine
    BY <2>4, <2>6, <2>7, <2>8 DEF Engine
  <2>10. /\ y.history = Newest(Append(x.history, RecordOf(e)), HistoryCap)
         /\ y.recent = Newest(Append(x.recent, RecordOf(e)), RecentCap)
         /\ y.liked = LikedAfter(x, e) /\ y.disliked = DislikedAfter(x, e)
         /\ y.interacted = x.interacted \cup {e.item}
    BY <2>7
  <2>11. IsFiniteSet(x.interacted \cup {e.item})
    BY <2>1, FS_AddElement
  <2>12. EngineOK(y)
    BY <2>4, <2>8, <2>9, <2>10, <2>11 DEF EngineOK
  <2> QED
    BY <2>12 DEF y
<1> QED
  BY <1>1, <1>2

\* The n-th mean of as many likes.
Means(N) == CHOOSE f : f = [n \in 0..N |-> IF n = 0 THEN 0 ELSE Average(f[n - 1], Unit)]

\* The recursion of the means defines numbers.
LEMMA MeansThere ==
    ASSUME NEW N \in Nat
    PROVE  /\ Means(N) = [n \in 0..N |-> IF n = 0 THEN 0 ELSE Average(Means(N)[n - 1], Unit)]
           /\ \A n \in 0..N : Means(N)[n] \in Int
<1> DEFINE IsMeans(f, n) == f = [k \in 0..n |-> IF k = 0 THEN 0 ELSE Average(f[k - 1], Unit)]
           P == {n \in Nat : \E f : IsMeans(f, n)}
<1>1. 0 \in P
  <2> DEFINE f == [k \in 0..0 |-> 0]
  <2>1. f = [k \in 0..0 |-> IF k = 0 THEN 0 ELSE Average(f[k - 1], Unit)]
    OBVIOUS
  <2> QED
    BY <2>1
<1>2. ASSUME NEW n \in Nat, n \in P
      PROVE  n + 1 \in P
  <2> PICK f : IsMeans(f, n)
    BY <1>2
  <2> DEFINE g == [k \in 0..(n + 1) |-> IF k = n + 1 THEN Average(f[n], Unit) ELSE f[k]]
  <2>1. ASSUME NEW k \in 0..(n + 1)
        PROVE  g[k] = IF k = 0 THEN 0 ELSE Average(g[k - 1], Unit)
    <3>1. CASE k = n + 1
      <4>1. g[k] = Average(f[n], Unit) /\ g[n] = f[n] /\ k - 1 = n /\ k # 0
        BY <3>1
      <4> QED
        BY <4>1
    <3>2. CASE k \in 0..n
      <4>1. g[k] = f[k] /\ (k # 0 => g[k - 1] = f[k - 1])
        BY <3>2
      <4>2. f[k] = IF k = 0 THEN 0 ELSE Average(f[k - 1], Unit)
        BY <3>2
      <4> QED
        BY <4>1, <4>2
    <3> QED
      BY <3>1, <3>2
  <2>2. IsMeans(g, n + 1)
    BY <2>1
  <2> HIDE DEF g, IsMeans
  <2> QED
    BY <2>2
<1>3. N \in P
  <2> HIDE DEF P
  <2> QED
    BY <1>1, <1>2, Upwards
<1>4. Means(N) = [n \in 0..N |-> IF n = 0 THEN 0 ELSE Average(Means(N)[n - 1], Unit)]
  BY <1>3 DEF Means
<1> DEFINE Q == {n \in Nat : n \in 0..N => Means(N)[n] \in Int}
<1>5. 0 \in Q
  BY <1>4
<1>6. ASSUME NEW n \in Nat, n \in Q
      PROVE  n + 1 \in Q
  <2>1. CASE n + 1 \in 0..N
    <3>1. n \in 0..N /\ Means(N)[n] \in Int /\ n + 1 # 0 /\ (n + 1) - 1 = n
      BY <1>6, <2>1
    <3>2. Means(N)[n + 1] = Average(Means(N)[n], Unit)
      BY <1>4, <2>1, <3>1
    <3>3. Means(N)[n + 1] \in Int
      <4> HIDE DEF P, Q
      <4>1. Unit \in Int
        BY EngineAssumption
      <4> QED
        BY <3>1, <3>2, <4>1, AverageType, Zenon
    <3> QED
      BY <3>3
  <2> QED
    BY <2>1
<1>7. \A n \in Nat : n \in Q
  <2> HIDE DEF Q
  <2> QED
    BY <1>5, <1>6, Upwards
<1>8. \A n \in 0..N : n \in Nat
  OBVIOUS
<1> QED
  BY <1>4, <1>7, <1>8

\* The seeding as a function of the means.
LEMMA SeedForm ==
    ASSUME NEW liked, NEW cof
    PROVE  SeedOf(liked, cof) =
              [c \in UNION {cof[i] : i \in liked} |->
                  Clip(Means(Cardinality(liked))[Cardinality({i \in liked : c \in cof[i]})])]
BY DEF SeedOf, Means

\* Seeding gives affinities to the categories of the liked items.
LEMMA SeedTyped ==
    ASSUME NEW liked \in SUBSET Item, IsFiniteSet(liked), NEW cof \in [Item -> SUBSET Category]
    PROVE  /\ SeedOf(liked, cof) \in Affinities
           /\ DOMAIN SeedOf(liked, cof) = UNION {cof[i] : i \in liked}
<1> DEFINE N == Cardinality(liked)
           D == UNION {cof[i] : i \in liked}
           carrying(c) == Cardinality({i \in liked : c \in cof[i]})
           f == SeedOf(liked, cof)
<1>1. N \in Nat
  BY FS_CardinalityType
<1>2. ASSUME NEW c
      PROVE  carrying(c) \in 0..N
  <2>1. /\ IsFiniteSet({i \in liked : c \in cof[i]})
        /\ carrying(c) <= N
    BY FS_Subset
  <2>2. carrying(c) \in Nat
    BY <2>1, FS_CardinalityType
  <2> QED
    BY <1>1, <2>1, <2>2
<1>3. D \subseteq Category
  OBVIOUS
<1>4. f = [c \in D |-> Clip(Means(N)[carrying(c)])]
  BY SeedForm
<1> HIDE DEF f, D, carrying, N
<1>5. \A c \in D : Clip(Means(N)[carrying(c)]) \in Bounded
  BY <1>1, <1>2, MeansThere, ClipBounds
<1>6. f \in [D -> Bounded]
  BY <1>4, <1>5
<1>7. f \in Affinities
  BY <1>3, <1>6 DEF Affinities
<1> QED
  BY <1>6, <1>7 DEF f, D

\* Seeding changes the affinities, and only where there are none.
LEMMA SeededTyped ==
    ASSUME NEW x, EngineOK(x), NEW cof \in [Item -> SUBSET Category]
    PROVE  /\ EngineOK(Seeded(x, cof))
           /\ DOMAIN Seeded(x, cof).affinity =
                IF x.affinity = <<>> THEN UNION {cof[i] : i \in x.liked} ELSE DOMAIN x.affinity
           /\ x.affinity # <<>> => Seeded(x, cof) = x
           /\ \A f \in {"history", "recent", "count", "engagement", "liked", "disliked", "interacted"} :
                Seeded(x, cof)[f] = x[f]
<1>1. /\ x \in Engine /\ x.liked \in SUBSET Item /\ IsFiniteSet(x.liked)
      /\ x.affinity \in Affinities
  BY FS_Subset DEF EngineOK, Engine
<1>2. CASE x.affinity # <<>>
  BY <1>2 DEF Seeded
<1>3. CASE x.affinity = <<>> /\ x.liked = {}
  <2>1. DOMAIN <<>> = {}
    OBVIOUS
  <2> QED
    BY <1>3, <2>1 DEF Seeded
<1>4. CASE x.affinity = <<>> /\ x.liked # {}
  <2>1. Seeded(x, cof) = [x EXCEPT !.affinity = SeedOf(x.liked, cof)]
    BY <1>4 DEF Seeded
  <2>2. /\ SeedOf(x.liked, cof) \in Affinities
        /\ DOMAIN SeedOf(x.liked, cof) = UNION {cof[i] : i \in x.liked}
    BY <1>1, SeedTyped
  <2> DEFINE y == Seeded(x, cof)
  <2>3. /\ y \in Engine /\ y.affinity = SeedOf(x.liked, cof)
        /\ y.history = x.history /\ y.recent = x.recent /\ y.count = x.count
        /\ y.engagement = x.engagement /\ y.liked = x.liked /\ y.disliked = x.disliked
        /\ y.interacted = x.interacted
    BY <1>1, <2>1, <2>2 DEF Engine
  <2> HIDE DEF y
  <2>4. EngineOK(y)
    BY <2>3 DEF EngineOK
  <2> QED
    BY <1>4, <2>2, <2>3, <2>4 DEF y
<1> QED
  BY <1>2, <1>3, <1>4

\* Rounding moves a number by half a step at most, and not out of the bounds.
LEMMA RoundedTyped ==
    ASSUME NEW v \in Int
    PROVE  /\ Rounded(v) \in Int
           /\ 2 * Rounded(v) <= 2 * v + Grid /\ 2 * v <= 2 * Rounded(v) + Grid
           /\ v \in Bounded => Rounded(v) \in Bounded
<1> DEFINE h == Grid \div 2
           x == (v + h) \div Grid
           q == Unit \div Grid
<1>1. /\ Grid \in Nat \ {0} /\ Unit \in Nat \ {0} /\ Unit % Grid = 0
      /\ h \in Nat /\ 2 * h <= Grid /\ Grid <= 2 * h + 1 /\ h < Grid
  BY EngineAssumption
<1>2. v + h \in Int
  BY <1>1
<1>3. \A a \in Int, g \in Nat \ {0} :
        a \div g \in Int /\ g * (a \div g) <= a /\ a < g * (a \div g) + g
  OBVIOUS
<1>4. x \in Int /\ Grid * x <= v + h /\ v + h < Grid * x + Grid
  BY <1>1, <1>2, <1>3
<1>5. Unit = Grid * q /\ q \in Int
  BY <1>1
<1>6. Rounded(v) = Grid * x /\ Grid * x \in Int
  BY <1>1, <1>4 DEF Rounded
<1> HIDE DEF x, h, q
<1>7. ASSUME v \in Bounded
      PROVE  Grid * x \in Bounded
  <2>1. v \in Int /\ -Unit <= v /\ v <= Unit
    BY <1>1, <1>7 DEF Bounded
  <2>2. \A a, b \in Int, g \in Nat \ {0} : g * a < g * b => a < b
    OBVIOUS
  <2>3. \A a, b \in Int, g \in Nat \ {0} : a <= b => g * a <= g * b
    OBVIOUS
  <2>4. Grid * x < Grid * (q + 1)
    BY <1>1, <1>4, <1>5, <2>1
  <2>5. x <= q
    BY <1>1, <1>4, <1>5, <2>2, <2>4
  <2>6. Grid * x <= Unit
    BY <1>1, <1>4, <1>5, <2>3, <2>5
  <2>7. Grid * (-q) < Grid * (x + 1)
    BY <1>1, <1>4, <1>5, <2>1
  <2>8. -q <= x
    BY <1>1, <1>4, <1>5, <2>2, <2>7
  <2>9. -Unit <= Grid * x
    <3>1. Grid * (-q) <= Grid * x
      BY <1>1, <1>4, <1>5, <2>3, <2>8
    <3>2. Grid * (-q) = -Unit
      BY <1>1, <1>5
    <3> QED
      BY <3>1, <3>2
  <2> QED
    BY <1>1, <1>6, <2>6, <2>9 DEF Bounded
<1>8. 2 * (Grid * x) <= 2 * v + Grid /\ 2 * v <= 2 * (Grid * x) + Grid
  BY <1>1, <1>4, <1>6
<1> QED
  BY <1>6, <1>7, <1>8

\* A rounding adds half a step to a distance.
LEMMA RoundedGap ==
    ASSUME NEW u \in Int, NEW v \in Int, NEW n \in Nat, 2 * Gap(u, v) <= n * Grid
    PROVE  2 * Gap(Rounded(u), v) <= (n + 1) * Grid
<1> DEFINE r == Rounded(u)
           m == n * Grid
<1>1. r \in Int /\ 2 * r <= 2 * u + Grid /\ 2 * u <= 2 * r + Grid
  BY RoundedTyped
<1>2. Grid \in Nat /\ m \in Nat /\ (n + 1) * Grid = m + Grid /\ 2 * Gap(u, v) <= m
  BY EngineAssumption
<1> HIDE DEF r, m
<1>3. 2 * Gap(r, v) <= m + Grid
  BY <1>1, <1>2 DEF Gap
<1> QED
  BY <1>2, <1>3 DEF r

\* So many times the rounded mean is the total, up to half a step each.
LEMMA MeanGap ==
    ASSUME NEW t \in Int, NEW c \in Nat
    PROVE  /\ RoundedMean(t, c) \in Int
           /\ c # 0 => 2 * Gap(c * RoundedMean(t, c), t) <= c * Grid
<1>1. CASE c = 0
  BY <1>1 DEF RoundedMean
<1>2. CASE c # 0
  <2> DEFINE m == c * Grid
             q == (2 * t + m) \div (2 * m)
  <2>1. Grid \in Nat \ {0} /\ c \in Nat \ {0}
    BY <1>2, EngineAssumption
  <2>2. \A a, b \in Nat \ {0} : a * b \in Nat \ {0} /\ 2 * a * b = 2 * (a * b)
    OBVIOUS
  <2>3. m \in Nat \ {0} /\ 2 * c * Grid = 2 * m
    BY <2>1, <2>2
  <2>4. RoundedMean(t, c) = q * Grid
    BY <1>2, <2>3 DEF RoundedMean
  <2>5. \A a, b, d \in Int : a * (b * d) = b * (a * d)
    OBVIOUS
  <2>6. \A a \in Int, g \in Nat \ {0} :
          a \div g \in Int /\ g * (a \div g) <= a /\ a < g * (a \div g) + g
    OBVIOUS
  <2> HIDE DEF m
  <2>7. 2 * t + m \in Int /\ 2 * m \in Nat \ {0}
    BY <2>3
  <2>8. q \in Int /\ (2 * m) * q <= 2 * t + m /\ 2 * t + m < (2 * m) * q + 2 * m
    BY <2>6, <2>7
  <2> HIDE DEF q
  <2>9. \A a, b \in Int : (2 * a) * b = 2 * (b * a) /\ b * a \in Int
    OBVIOUS
  <2>10. (2 * m) * q = 2 * (q * m) /\ q * m \in Int
    BY <2>3, <2>8, <2>9
  <2>11. c * (q * Grid) = q * m /\ q * Grid \in Int
    BY <2>1, <2>5, <2>8 DEF m
  <2> DEFINE p == q * m
  <2>12. p \in Int /\ 2 * p <= 2 * t + m /\ 2 * t + m < 2 * p + 2 * m
    BY <2>8, <2>10
  <2> HIDE DEF p
  <2>13. 2 * Gap(p, t) <= m
    BY <2>3, <2>12 DEF Gap
  <2> QED
    BY <2>4, <2>11, <2>13 DEF m, p
<1> QED
  BY <1>1, <1>2

\* What a snapshot takes over from the engine, and what it computes.
SnapshotOf(b, x, t) ==
    /\ b.counts = WindowCounts(x.history, t)
    /\ b.updatedAt = t /\ b.count = x.count /\ b.engagement = Rounded(x.engagement)
    /\ b.average = RoundedMean(x.engagement, x.count)
    /\ b.affinity = [c \in DOMAIN x.affinity |-> Rounded(x.affinity[c])]
    /\ b.liked = x.liked /\ b.disliked = x.disliked /\ b.interacted = x.interacted
    /\ b.recent = x.recent
    /\ DOMAIN b.affinity = DOMAIN x.affinity
    /\ b # NoKey

\* Snapshot field by field.
LEMMA SnapshotFields ==
    ASSUME NEW x, NEW t
    PROVE  SnapshotOf(Snapshot(x, t), x, t)
<1> DEFINE b == Snapshot(x, t)
<1>1. /\ b.counts = WindowCounts(x.history, t)
      /\ b.updatedAt = t /\ b.count = x.count /\ b.engagement = Rounded(x.engagement)
      /\ b.average = RoundedMean(x.engagement, x.count)
      /\ b.affinity = [c \in DOMAIN x.affinity |-> Rounded(x.affinity[c])]
      /\ b.liked = x.liked /\ b.disliked = x.disliked /\ b.interacted = x.interacted
      /\ b.recent = x.recent
      /\ "count" \in DOMAIN b
  BY DEF Snapshot
<1>2. DOMAIN NoKey = {}
  BY DEF NoKey
<1> HIDE DEF b
<1> QED
  BY <1>1, <1>2 DEF SnapshotOf, b

\* An engine of other affinities and another sum.
LEMMA OtherAffinity ==
    ASSUME NEW x, EngineOK(x), NEW b, NEW f \in Affinities,
           b.affinity = f, b.recent = x.recent, b.count = x.count, b.engagement \in Int,
           b.liked = x.liked, b.disliked = x.disliked, b.interacted = x.interacted
    PROVE  EngineOK(EngineFrom(b, x.history))
<1> DEFINE y == EngineFrom(b, x.history)
<1>1. y = [history |-> x.history, recent |-> x.recent, count |-> x.count,
           engagement |-> b.engagement, liked |-> x.liked, disliked |-> x.disliked,
           interacted |-> x.interacted, affinity |-> f]
  BY DEF EngineFrom
<1> HIDE DEF y
<1>2. y \in Engine
  BY <1>1 DEF EngineOK, Engine
<1>3. EngineOK(y)
  BY <1>1, <1>2 DEF EngineOK
<1> QED
  BY <1>3 DEF y

\* Rounded affinities are affinities.
LEMMA RoundedAffinities ==
    ASSUME NEW f \in Affinities
    PROVE  [c \in DOMAIN f |-> Rounded(f[c])] \in Affinities
<1>1. DOMAIN f \subseteq Category /\ \A c \in DOMAIN f : f[c] \in Bounded /\ f[c] \in Int
  BY NoAffinity, EngineAssumption DEF Bounded
<1>2. \A c \in DOMAIN f : Rounded(f[c]) \in Bounded
  BY <1>1, RoundedTyped
<1>3. [c \in DOMAIN f |-> Rounded(f[c])] \in [DOMAIN f -> Bounded]
  BY <1>2
<1> QED
  BY <1>1, <1>3 DEF Affinities

\* A window of the history counts no more than the history holds.
LEMMA CountsTyped ==
    ASSUME NEW h \in Seq(Kept), Len(h) <= HistoryCap, NEW t
    PROVE  WindowCounts(h, t) \in [Window \X CountedType -> 0..HistoryCap]
<1> DEFINE In(wt) == {k \in DOMAIN h : h[k].type = wt[2] /\ InWindow(h[k], t, wt[1])}
<1>1. DOMAIN h = 1..Len(h) /\ Len(h) \in Nat /\ HistoryCap \in Nat
  BY EngineAssumption
<1>2. IsFiniteSet(1..Len(h)) /\ Cardinality(1..Len(h)) = Len(h)
  <2>1. 1 \in Int /\ Len(h) \in Int /\ (1 > Len(h) => Len(h) = 0)
    BY <1>1
  <2>2. IsFiniteSet(1..Len(h)) /\ Cardinality(1..Len(h)) = IF 1 > Len(h) THEN 0 ELSE Len(h) - 1 + 1
    BY <2>1, FS_Interval, Zenon
  <2> QED
    BY <1>1, <2>2
<1>3. ASSUME NEW wt
      PROVE  Cardinality(In(wt)) \in 0..HistoryCap
  <2>1. In(wt) \in SUBSET (1..Len(h))
    BY <1>1
  <2> HIDE DEF In
  <2>2. IsFiniteSet(In(wt)) /\ Cardinality(In(wt)) <= Len(h)
    BY <1>2, <2>1, FS_Subset
  <2>3. Cardinality(In(wt)) \in Nat
    BY <2>2, FS_CardinalityType
  <2> QED
    BY <1>1, <2>2, <2>3
<1>4. WindowCounts(h, t) = [wt \in Window \X CountedType |-> Cardinality(In(wt))]
  BY DEF WindowCounts
<1> HIDE DEF In
<1> QED
  BY <1>3, <1>4

\* A stored snapshot makes a sound engine again.
LEMMA SnapshotTyped ==
    ASSUME NEW x, EngineOK(x), NEW t
    PROVE  /\ Snapshot(x, t).counts \in [Window \X CountedType -> 0..HistoryCap]
           /\ Snapshot(x, t).average \in Int
           /\ EngineOK(EngineFrom(Snapshot(x, t), x.history))
<1> DEFINE b == Snapshot(x, t)
<1>1. SnapshotOf(b, x, t)
  BY SnapshotFields
<1> HIDE DEF b
<1>2. x.history \in Seq(Kept) /\ Len(x.history) <= HistoryCap /\ x.affinity \in Affinities
  BY DEF EngineOK, Engine
<1>3. b.counts \in [Window \X CountedType -> 0..HistoryCap]
  <2>1. \A h \in Seq(Kept) : Len(h) <= HistoryCap
            => WindowCounts(h, t) \in [Window \X CountedType -> 0..HistoryCap]
    BY CountsTyped
  <2>2. WindowCounts(x.history, t) \in [Window \X CountedType -> 0..HistoryCap]
    BY <1>2, <2>1, Zenon
  <2>3. b.counts = WindowCounts(x.history, t)
    BY <1>1 DEF SnapshotOf
  <2> QED
    BY <2>2, <2>3, Zenon
<1>4. b.affinity \in Affinities
  BY <1>1, <1>2, RoundedAffinities DEF SnapshotOf
<1>5. b.engagement \in Int /\ b.average \in Int
  <2>1. x.engagement \in Int /\ x.count \in Nat
    BY DEF EngineOK, Engine
  <2>2. Rounded(x.engagement) \in Int /\ RoundedMean(x.engagement, x.count) \in Int
    BY <2>1, RoundedTyped, MeanGap
  <2> QED
    BY <1>1, <2>2 DEF SnapshotOf
<1>6. EngineOK(EngineFrom(b, x.history))
  BY <1>1, <1>4, <1>5, OtherAffinity DEF SnapshotOf
<1> QED
  BY <1>3, <1>5, <1>6 DEF b

-----------------------------------------------------------------------------
(* Types.                                                                  *)

\* What is stored makes an engine, of which the caps hold.
TypeInv ==
    /\ features # NoKey =>
        /\ features.counts \in [Window \X CountedType -> 0..HistoryCap]
        /\ features.average \in Int
        /\ EngineOK(EngineFrom(features, history))
    /\ features = NoKey => history = <<>> /\ tape = <<>>
    /\ known \subseteq Item
    /\ clock \in 0..MaxTime
    /\ tape \in Seq(ClientEvents \X SUBSET Category)
    /\ Len(tape) <= MaxEvents

\* A user without features.
LEMMA TypeInvInit == Init => TypeInv
BY OnlineAssumption DEF Init, TypeInv

\* The engine of a new user is sound.
LEMMA FreshTyped == EngineOK(FreshEngine)
<1>1. FreshEngine \in Engine
  BY NoAffinity DEF FreshEngine, Engine
<1>2. Len(<<>>) = 0 /\ IsFiniteSet({})
  BY FS_EmptySet
<1> QED
  BY <1>1, <1>2, EngineAssumption DEF EngineOK, FreshEngine

\* The engine rebuilt from the two keys is sound.
LEMMA LoadedTyped ==
    ASSUME TypeInv
    PROVE  /\ EngineOK(Loaded)
           /\ features # NoKey => Loaded = EngineFrom(features, history)
           /\ features = NoKey => Loaded = FreshEngine
           /\ Loaded.history = history
<1>1. CASE features = NoKey
  <2>1. Loaded = FreshEngine /\ history = <<>>
    BY <1>1 DEF Loaded, FreshEngine, TypeInv
  <2> QED
    BY <1>1, <2>1, FreshTyped DEF FreshEngine
<1>2. CASE features # NoKey
  BY <1>2 DEF Loaded, TypeInv, EngineFrom
<1> QED
  BY <1>1, <1>2

\* The catalog of the process, before and after a restart.
LEMMA CatalogTyped ==
    /\ Catalog \in [Item -> SUBSET Category]
    /\ Catalog' \in [Item -> SUBSET Category]
    /\ \A i \in Item : Catalog[i] \subseteq CategoriesOf[i] /\ Catalog'[i] \subseteq CategoriesOf[i]
BY OnlineAssumption DEF Catalog

\* The categories an event is applied with.
LEMMA CategoriesTyped ==
    ASSUME NEW e \in ClientEvents
    PROVE  CategoriesFor(e) \in SUBSET Category
BY CatalogTyped, OnlineAssumption DEF CategoriesFor, ClientEvents

\* The engine a step of Process ends with.
After(e) == Applied(Seeded(Loaded, Catalog), e, CategoriesFor(e))

\* The step of an event stores a snapshot of a sound engine.
LEMMA ProcessTyped ==
    ASSUME TypeInv, NEW e \in ClientEvents, Process(e)
    PROVE  /\ TypeInv'
           /\ EngineOK(Seeded(Loaded, Catalog)) /\ EngineOK(After(e))
           /\ features' = Snapshot(After(e), clock) /\ history' = After(e).history
           /\ SnapshotOf(features', After(e), clock)
<1>1. EngineOK(Seeded(Loaded, Catalog))
  BY LoadedTyped, CatalogTyped, SeededTyped
<1>2. EngineOK(After(e))
  BY <1>1, CategoriesTyped, AppliedTyped DEF After
<1>3. /\ features' = Snapshot(After(e), clock) /\ history' = After(e).history
      /\ Len(tape) < MaxEvents /\ tape' = Append(tape, <<e, CategoriesFor(e)>>)
      /\ UNCHANGED <<known, clock>>
  BY DEF Process, After
<1>4. SnapshotOf(features', After(e), clock)
  BY <1>3, SnapshotFields
<1>5. /\ features'.counts \in [Window \X CountedType -> 0..HistoryCap]
      /\ features'.average \in Int
      /\ EngineOK(EngineFrom(features', history'))
  BY <1>2, <1>3, SnapshotTyped
<1>6. tape' \in Seq(ClientEvents \X SUBSET Category) /\ Len(tape') <= MaxEvents
  <2>1. <<e, CategoriesFor(e)>> \in ClientEvents \X SUBSET Category
    BY CategoriesTyped
  <2>2. tape \in Seq(ClientEvents \X SUBSET Category) /\ Len(tape) \in Nat /\ MaxEvents \in Nat
    BY OnlineAssumption DEF TypeInv
  <2> QED
    BY <1>3, <2>1, <2>2
<1>7. TypeInv'
  BY <1>3, <1>4, <1>5, <1>6 DEF TypeInv, SnapshotOf
<1> QED
  BY <1>1, <1>2, <1>3, <1>4, <1>7

\* A backfill writes affinities and nothing else.
OnlyAffinity(b, f) ==
    /\ b.counts = features.counts /\ b.updatedAt = features.updatedAt
    /\ b.count = features.count /\ b.engagement = features.engagement
    /\ b.average = features.average
    /\ b.liked = features.liked /\ b.disliked = features.disliked
    /\ b.interacted = features.interacted /\ b.recent = features.recent
    /\ b.affinity = f

\* The blob has the fields of a snapshot.
HasFields ==
    features # NoKey =>
        {"counts", "updatedAt", "count", "engagement", "average", "liked", "disliked", "interacted",
         "recent", "affinity"} \subseteq DOMAIN features

\* A backfill leaves the blob alone or gives affinities to one that had none.
LEMMA BackfillTyped ==
    ASSUME TypeInv, HasFields, features # NoKey
    PROVE  /\ Backfilled # NoKey
           /\ \/ Backfilled = features
              \/ /\ features.affinity = <<>>
                 /\ \E f \in Affinities :
                        /\ OnlyAffinity(Backfilled, f)
                        /\ DOMAIN f = UNION {Catalog'[i] : i \in features.liked}
                        /\ f # <<>>
           /\ DOMAIN Backfilled = DOMAIN features
<1> DEFINE x == [FreshEngine EXCEPT !.liked = features.liked, !.interacted = features.liked]
           y == [FreshEngine EXCEPT !.liked = features.liked]
           s == Seeded(y, Catalog').affinity
           f == [c \in DOMAIN s |-> Rounded(s[c])]
<1>1. /\ features.liked \in SUBSET Item /\ IsFiniteSet(features.liked)
      /\ features.affinity \in Affinities
  <2>1. EngineOK(EngineFrom(features, history))
    BY DEF TypeInv
  <2> QED
    BY <2>1, FS_Subset DEF EngineFrom, EngineOK, Engine
<1>2. y.affinity = <<>> /\ y.liked = features.liked
  BY DEF FreshEngine
<1>3. Catalog' \in [Item -> SUBSET Category]
  BY CatalogTyped
<1>4. DOMAIN NoKey = {}
  BY DEF NoKey
<1>5. CASE ~(features.affinity = <<>> /\ features.liked # {} /\ s # <<>>)
  <2>1. Backfilled = features
    BY <1>5 DEF Backfilled
  <2> QED
    BY <2>1
<1>6. CASE features.affinity = <<>> /\ features.liked # {} /\ s # <<>>
  <2>1. s = SeedOf(features.liked, Catalog')
    BY <1>2, <1>6 DEF Seeded, FreshEngine
  <2>2. s \in Affinities /\ DOMAIN s = UNION {Catalog'[i] : i \in features.liked}
    BY <1>1, <1>3, <2>1, SeedTyped
  <2>3. Backfilled = [features EXCEPT !.affinity = f]
    BY <1>6 DEF Backfilled
  <2>4. f \in Affinities /\ DOMAIN f = DOMAIN s
    BY <2>2, RoundedAffinities
  <2>5. f # <<>>
    <3>1. DOMAIN s # {}
      BY <1>6, <2>2, NoAffinity
    <3>2. DOMAIN <<>> = {}
      OBVIOUS
    <3> QED
      BY <2>4, <3>1, <3>2
  <2> HIDE DEF f, s, y
  <2>6. OnlyAffinity(Backfilled, f) /\ DOMAIN Backfilled = DOMAIN features
    BY <2>3 DEF HasFields, OnlyAffinity
  <2>7. Backfilled # NoKey
    BY <1>4, <2>6 DEF HasFields
  <2> QED
    BY <1>6, <2>2, <2>4, <2>5, <2>6, <2>7
<1> QED
  BY <1>5, <1>6

\* Every step keeps the types.
LEMMA TypeInvStep == TypeInv /\ HasFields /\ [Next]_vars => TypeInv' /\ HasFields'
<1> SUFFICES ASSUME TypeInv, HasFields, [Next]_vars
             PROVE  TypeInv' /\ HasFields'
  OBVIOUS
<1>1. ASSUME NEW e \in ClientEvents, Process(e)
      PROVE  TypeInv' /\ HasFields'
  BY <1>1, ProcessTyped DEF HasFields, Snapshot
<1>2. ASSUME NEW learned \in SUBSET (Item \ known), Restart(learned)
      PROVE  TypeInv' /\ HasFields'
  <2>1. /\ known' \subseteq Item /\ UNCHANGED <<history, clock, tape>>
        /\ features' = features \/ (features # NoKey /\ features' = Backfilled)
    BY <1>2 DEF Restart, TypeInv
  <2>2. CASE features' = features
    BY <2>1, <2>2 DEF TypeInv, HasFields
  <2>3. ASSUME features # NoKey, features' = Backfilled, features' # features
        PROVE  TypeInv' /\ HasFields'
    <3>1. PICK f \in Affinities : OnlyAffinity(features', f)
      BY <2>3, BackfillTyped
    <3>2. features' # NoKey /\ DOMAIN features' = DOMAIN features
      BY <2>3, BackfillTyped
    <3> DEFINE x == EngineFrom(features, history)
    <3>3. /\ EngineOK(x) /\ x.history = history /\ x.recent = features.recent
          /\ x.count = features.count /\ x.engagement = features.engagement
          /\ x.liked = features.liked /\ x.disliked = features.disliked
          /\ x.interacted = features.interacted
      BY <2>3 DEF TypeInv, EngineFrom
    <3> HIDE DEF x
    <3>4. EngineOK(EngineFrom(features', x.history))
      <4>1. x.engagement \in Int
        BY <3>3 DEF EngineOK, Engine
      <4> QED
        BY <3>1, <3>3, <4>1, OtherAffinity DEF OnlyAffinity
    <3>5. features'.counts = features.counts /\ features'.average = features.average
      BY <3>1 DEF OnlyAffinity
    <3> QED
      BY <2>1, <2>3, <3>2, <3>3, <3>4, <3>5 DEF TypeInv, HasFields
  <2> QED
    BY <2>1, <2>2, <2>3
<1>3. CASE Tick \/ UNCHANGED vars
  BY <1>3, OnlineAssumption DEF Tick, vars, TypeInv, HasFields
<1> QED
  BY <1>1, <1>2, <1>3 DEF Next

\* The two keys keep their types and bounds for any number of events and
\* restarts: affinities stay within [-1, 1] whatever values the ratings carry,
\* counts and recent actions within their caps, and liked and disliked titles
\* among the interacted ones (engine.py).
THEOREM FeaturesTyped == Spec => []TypeOK
<1>1. Init => TypeInv /\ HasFields
  BY TypeInvInit DEF Init, HasFields
<1>2. TypeInv => TypeOK
  <2> SUFFICES ASSUME TypeInv
               PROVE  TypeOK
    OBVIOUS
  <2>1. ASSUME features # NoKey
        PROVE  /\ features.counts \in [Window \X CountedType -> 0..HistoryCap]
               /\ features.count \in Nat
               /\ features.engagement \in Int /\ features.average \in Int
               /\ DOMAIN features.affinity \subseteq Category
               /\ \A c \in DOMAIN features.affinity : features.affinity[c] \in -Unit..Unit
               /\ features.liked \cup features.disliked \subseteq features.interacted
               /\ features.interacted \subseteq Item
               /\ Len(features.recent) <= RecentCap
    <3> DEFINE x == EngineFrom(features, history)
    <3>1. /\ EngineOK(x) /\ x.recent = features.recent
          /\ x.count = features.count /\ x.engagement = features.engagement
          /\ x.liked = features.liked /\ x.disliked = features.disliked
          /\ x.interacted = features.interacted /\ x.affinity = features.affinity
      BY <2>1 DEF TypeInv, EngineFrom
    <3> HIDE DEF x
    <3>2. features.affinity \in Affinities
      BY <3>1 DEF EngineOK, Engine
    <3>3. /\ DOMAIN features.affinity \subseteq Category
          /\ \A c \in DOMAIN features.affinity : features.affinity[c] \in -Unit..Unit
      BY <3>2, NoAffinity DEF Bounded
    <3> QED
      BY <2>1, <3>1, <3>3 DEF EngineOK, Engine, TypeInv
  <2>2. Len(history) <= HistoryCap
    <3>1. CASE features = NoKey
      BY <3>1, EngineAssumption DEF TypeInv
    <3>2. CASE features # NoKey
      BY <3>2 DEF TypeInv, EngineOK, EngineFrom
    <3> QED
      BY <3>1, <3>2
  <2> QED
    BY <2>1, <2>2 DEF TypeInv, TypeOK
<1> QED
  BY <1>1, <1>2, TypeInvStep, PTL DEF Spec

-----------------------------------------------------------------------------
(* The window counts.                                                      *)

\* f gives every record of the history the applied event it is of.
PairedBy(f) ==
    /\ f \in [1..Len(history) -> Signals]
    /\ \A j, k \in 1..Len(history) : f[j] = f[k] => j = k
    /\ \A k \in 1..Len(history) : history[k] = RecordOf(tape[f[k]][1])

\* The history holds as many records as its cap lets it, each of a different
\* signal; and the blob holds their counts as of its last update.
HistInv ==
    /\ IsFiniteSet(Signals)
    /\ Len(history) = IF Cardinality(Signals) > HistoryCap THEN HistoryCap ELSE Cardinality(Signals)
    /\ \E f : PairedBy(f)
    /\ features # NoKey =>
        /\ features.counts = WindowCounts(history, features.updatedAt)
        /\ features.updatedAt \in Nat

\* No history, no signals.
LEMMA HistInvInit == Init => HistInv
<1> SUFFICES ASSUME Init PROVE HistInv
  OBVIOUS
<1>1. history = <<>> /\ features = NoKey /\ Signals = {}
  BY DEF Init, Signals
<1>2. IsFiniteSet({}) /\ Cardinality({}) = 0 /\ Len(<<>>) = 0
  BY FS_EmptySet
<1>3. PairedBy(<<>>)
  BY <1>1 DEF PairedBy
<1> QED
  BY <1>1, <1>2, <1>3, EngineAssumption DEF HistInv

\* Applying a signal adds its record and drops the oldest one from a full history.
LEMMA HistProcess ==
    ASSUME TypeInv, HistInv, NEW e \in ClientEvents, Process(e)
    PROVE  HistInv'
<1>1. /\ EngineOK(Seeded(Loaded, Catalog)) /\ Seeded(Loaded, Catalog).history = history
      /\ history \in Seq(Kept)
  <2>1. EngineOK(Loaded) /\ Loaded.history = history
    BY LoadedTyped
  <2>2. /\ EngineOK(Seeded(Loaded, Catalog))
        /\ \A f \in {"history", "recent", "count", "engagement", "liked", "disliked", "interacted"} :
              Seeded(Loaded, Catalog)[f] = Loaded[f]
    BY <2>1, CatalogTyped, SeededTyped
  <2> QED
    BY <2>1, <2>2 DEF EngineOK, Engine
<1> DEFINE n == Len(tape)
           L == Len(history)
           C == Cardinality(Signals)
<1>2. /\ tape' = Append(tape, <<e, CategoriesFor(e)>>) /\ n \in Nat
      /\ DOMAIN tape = 1..n /\ DOMAIN tape' = 1..(n + 1)
      /\ tape'[n + 1] = <<e, CategoriesFor(e)>>
      /\ \A k \in 1..n : tape'[k] = tape[k]
  BY DEF Process, TypeInv
<1>3. /\ features' = Snapshot(After(e), clock) /\ history' = After(e).history
      /\ features'.counts = WindowCounts(history', clock) /\ features'.updatedAt = clock
      /\ clock \in Nat
  <2>1. /\ features' = Snapshot(After(e), clock) /\ history' = After(e).history
        /\ SnapshotOf(features', After(e), clock)
    BY ProcessTyped
  <2>2. features'.counts = WindowCounts(After(e).history, clock) /\ features'.updatedAt = clock
    BY <2>1 DEF SnapshotOf
  <2>3. clock \in Nat
    BY OnlineAssumption DEF TypeInv
  <2> QED
    BY <2>1, <2>2, <2>3
<1>4. L \in Nat /\ HistoryCap \in Nat \ {0} /\ C \in Nat
      /\ L = (IF C > HistoryCap THEN HistoryCap ELSE C) /\ IsFiniteSet(Signals)
  BY <1>1, EngineAssumption, FS_CardinalityType DEF HistInv
<1> PICK f : PairedBy(f)
  BY DEF HistInv
<1>5. Signals \subseteq 1..n
  BY <1>2 DEF Signals
<1>6. CASE e.type = "impression"
  <2>1. history' = history
    BY <1>1, <1>3, <1>6 DEF After, Applied
  <2>2. Signals' = Signals
    BY <1>2, <1>6 DEF Signals
  <2>3. PairedBy(f)'
    <3>1. \A k \in 1..L : tape'[f[k]] = tape[f[k]]
      BY <1>2, <1>5 DEF PairedBy
    <3> QED
      BY <2>1, <2>2, <3>1 DEF PairedBy
  <2> QED
    BY <1>3, <2>1, <2>2, <2>3 DEF HistInv
<1>7. CASE e.type # "impression"
  <2> DEFINE h == Append(history, RecordOf(e))
             K == Len(history')
  <2>1. history' = Newest(h, HistoryCap)
    BY <1>1, <1>3, <1>7 DEF After, Applied
  <2>2. h \in Seq(Kept) /\ Len(h) = L + 1 /\ h[L + 1] = RecordOf(e)
        /\ \A k \in 1..L : h[k] = history[k]
    BY <1>1, <1>4, RecordTyped
  <2>3. /\ K = (IF L + 1 > HistoryCap THEN HistoryCap ELSE L + 1)
        /\ \A k \in 1..K : history'[k] = h[k + (L + 1 - K)]
    <3> HIDE DEF h
    <3>1. IsNewest(history', h, HistoryCap)
      BY <1>4, <2>1, <2>2, NewestTyped
    <3>2. Len(h) = L + 1 /\ K = (IF Len(h) > HistoryCap THEN HistoryCap ELSE Len(h))
          /\ \A k \in 1..K : history'[k] = h[k + (Len(h) - K)]
      BY <2>2, <3>1 DEF IsNewest
    <3>3. \A k \in 1..K : Len(h) - K = L + 1 - K
      BY <3>2
    <3> HIDE DEF K, L
    <3> QED
      BY <3>2, <3>3
  <2>4. Signals' = Signals \cup {n + 1}
    BY <1>2, <1>7 DEF Signals
  <2>5. IsFiniteSet(Signals') /\ Cardinality(Signals') = C + 1
    <3>1. n + 1 \notin Signals
      BY <1>2, <1>5
    <3> QED
      BY <1>4, <2>4, <3>1, FS_AddElement
  <2>6. K = IF Cardinality(Signals') > HistoryCap THEN HistoryCap ELSE Cardinality(Signals')
    BY <1>4, <2>3, <2>5
  <2> DEFINE at(k) == k + (L + 1 - K)
             g == [k \in 1..K |-> IF at(k) = L + 1 THEN n + 1 ELSE f[at(k)]]
  <2>7. K \in Nat /\ \A k \in 1..K : at(k) \in 1..(L + 1)
    <3>1. K \in Nat /\ K <= L + 1
      BY <1>4, <2>3
    <3> HIDE DEF K
    <3> QED
      BY <1>4, <3>1
  <2>8. \A k \in 1..K : at(k) # L + 1 => at(k) \in 1..L
    BY <1>4, <2>7
  <2>9. \A j, k \in 1..K : at(j) = at(k) => j = k
    BY <1>4, <2>7
  <2>10. \A k \in 1..K : history'[k] = h[at(k)]
    BY <2>3
  <2> HIDE DEF at, h, K
  <2>11. ASSUME NEW k \in 1..K
         PROVE  g[k] \in Signals' /\ history'[k] = RecordOf(tape'[g[k]][1])
    <3>1. CASE at(k) = L + 1
      BY <1>2, <2>2, <2>4, <2>10, <3>1
    <3>2. CASE at(k) # L + 1
      <4>1. at(k) \in 1..L /\ g[k] = f[at(k)]
        BY <2>8, <3>2
      <4>2. f[at(k)] \in Signals /\ history[at(k)] = RecordOf(tape[f[at(k)]][1])
        BY <4>1 DEF PairedBy
      <4>3. tape'[f[at(k)]] = tape[f[at(k)]]
        BY <1>2, <1>5, <4>2
      <4>4. history'[k] = history[at(k)]
        BY <2>2, <2>10, <4>1
      <4> HIDE DEF g
      <4> QED
        BY <2>4, <4>1, <4>2, <4>3, <4>4
    <3> QED
      BY <3>1, <3>2
  <2>12. ASSUME NEW j \in 1..K, NEW k \in 1..K, g[j] = g[k]
         PROVE  j = k
    <3>1. \A i \in 1..K : at(i) # L + 1 => g[i] = f[at(i)] /\ f[at(i)] \in 1..n
      BY <1>5, <2>8 DEF PairedBy
    <3>2. \A i \in 1..K : at(i) = L + 1 => g[i] = n + 1
      OBVIOUS
    <3>3. n + 1 \notin 1..n
      BY <1>2
    <3> HIDE DEF g
    <3>4. at(j) = at(k)
      BY <2>8, <2>12, <3>1, <3>2, <3>3 DEF PairedBy
    <3> QED
      BY <2>9, <3>4
  <2>13. g \in [1..K -> Signals']
    BY <2>11
  <2> HIDE DEF g
  <2> PICK q : q = g
    OBVIOUS
  <2>14. PairedBy(q)'
    BY <2>11, <2>12, <2>13 DEF PairedBy, K
  <2> QED
    BY <1>3, <2>5, <2>6, <2>14 DEF HistInv, K
<1> QED
  BY <1>6, <1>7

\* A restart, the clock and stuttering leave the history and its counts alone.
LEMMA HistOther ==
    ASSUME HistInv, history' = history, tape' = tape,
           features' # NoKey <=> features # NoKey,
           features # NoKey => /\ features'.counts = features.counts
                               /\ features'.updatedAt = features.updatedAt
    PROVE  HistInv'
<1>1. Signals' = Signals
  BY DEF Signals
<1>2. \A f : PairedBy(f)' <=> PairedBy(f)
  BY <1>1 DEF PairedBy
<1> QED
  BY <1>1, <1>2 DEF HistInv

\* Every step keeps the history paired with the signals.
LEMMA HistInvStep ==
    (TypeInv /\ HasFields /\ HistInv) /\ [Next]_vars => HistInv'
<1> SUFFICES ASSUME TypeInv, HasFields, HistInv, [Next]_vars
             PROVE  HistInv'
  OBVIOUS
<1>1. ASSUME NEW e \in ClientEvents, Process(e)
      PROVE  HistInv'
  BY <1>1, HistProcess
<1>2. ASSUME NEW learned \in SUBSET (Item \ known), Restart(learned)
      PROVE  HistInv'
  <2>1. /\ UNCHANGED <<history, tape>>
        /\ features' = features \/ (features # NoKey /\ features' = Backfilled)
    BY <1>2 DEF Restart
  <2>2. CASE features' = features
    BY <2>1, <2>2, HistOther
  <2>3. ASSUME features # NoKey, features' = Backfilled, features' # features
        PROVE  HistInv'
    <3>1. /\ features' # NoKey /\ features'.counts = features.counts
          /\ features'.updatedAt = features.updatedAt
      BY <2>3, BackfillTyped DEF OnlyAffinity
    <3> QED
      BY <2>1, <2>3, <3>1, HistOther
  <2> QED
    BY <2>1, <2>2, <2>3
<1>3. CASE Tick \/ UNCHANGED vars
  BY <1>3, HistOther DEF Tick, vars
<1> QED
  BY <1>1, <1>2, <1>3 DEF Next

\* The count of a window against the applied events of the window.
LEMMA HistExact ==
    ASSUME TypeInv, HistInv, features # NoKey
    PROVE  WindowsExactBelowCap
<1> PICK f : PairedBy(f)
  BY DEF HistInv
<1> DEFINE L == Len(history)
           C == Cardinality(Signals)
<1>1. /\ DOMAIN history = 1..L /\ L \in Nat /\ history \in Seq(Kept)
      /\ tape \in Seq(ClientEvents \X SUBSET Category)
      /\ HistoryCap \in Nat /\ Day \in Nat /\ Week \in Nat
  <2>1. history \in Seq(Kept) /\ tape \in Seq(ClientEvents \X SUBSET Category)
    BY DEF TypeInv, EngineOK, Engine, EngineFrom
  <2> QED
    BY <2>1, EngineAssumption
<1>2. ASSUME NEW w \in Window, NEW t \in CountedType
      PROVE  LET true == Cardinality({k \in DOMAIN tape :
                            /\ tape[k][1].type = t
                            /\ tape[k][1].at <= features.updatedAt
                            /\ tape[k][1].at >= features.updatedAt - w})
             IN  /\ features.counts[<<w, t>>] <= true
                 /\ features.counts[<<w, t>>] < true => C > HistoryCap
  <2> DEFINE u == features.updatedAt
             Real == {k \in DOMAIN tape :
                        /\ tape[k][1].type = t
                        /\ tape[k][1].at <= u
                        /\ tape[k][1].at >= u - w}
             In == {k \in DOMAIN history : history[k].type = t /\ InWindow(history[k], u, w)}
             g == [k \in In |-> f[k]]
  <2>1. u \in Nat /\ w \in Nat /\ t # "impression" /\ <<w, t>> \in Window \X CountedType
    BY <1>1 DEF HistInv, Window, CountedType
  <2>2. features.counts[<<w, t>>] = Cardinality(In)
    BY <2>1 DEF HistInv, WindowCounts
  <2>3. \A k \in DOMAIN tape : tape[k][1].at \in Nat
    BY <1>1, OnlineAssumption DEF ClientEvents
  <2>4. Real \subseteq Signals
    BY <2>1 DEF Signals
  <2>5. ASSUME NEW k \in 1..L
        PROVE  k \in In <=> f[k] \in Real
    <3>1. f[k] \in Signals /\ f[k] \in DOMAIN tape /\ tape[f[k]][1].at \in Nat
      BY <2>3 DEF PairedBy, Signals
    <3>2. history[k].type = tape[f[k]][1].type /\ history[k].at = tape[f[k]][1].at
      <4>1. history[k] = RecordOf(tape[f[k]][1])
        BY DEF PairedBy
      <4>2. \A e : RecordOf(e).type = e.type /\ RecordOf(e).at = e.at
        BY DEF RecordOf
      <4> QED
        BY <4>1, <4>2
    <3>3. InWindow(history[k], u, w) <=> tape[f[k]][1].at <= u /\ tape[f[k]][1].at >= u - w
      BY <2>1, <3>1, <3>2 DEF InWindow
    <3> QED
      BY <1>1, <3>1, <3>2, <3>3
  <2>6. In \subseteq 1..L
    BY <1>1
  <2> HIDE DEF In, Real
  <2>7. g \in Injection(In, Real)
    <3>1. g \in [In -> Real]
      BY <2>5, <2>6
    <3>2. \A j, k \in In : g[j] = g[k] => j = k
      BY <2>6 DEF PairedBy
    <3> QED
      BY <3>1, <3>2, Fun_IsInj
  <2>8. IsFiniteSet(Real) /\ Cardinality(Real) \in Nat
    BY <2>4, FS_Subset, FS_CardinalityType DEF HistInv
  <2> HIDE DEF g
  <2>9. /\ Cardinality(In) <= Cardinality(Real) /\ Cardinality(In) \in Nat
        /\ Cardinality(In) = Cardinality(Real) <=> g \in Surjection(In, Real)
    BY <2>7, <2>8, FS_Injection, FS_CardinalityType
  <2>10. ASSUME ~(C > HistoryCap)
         PROVE  Cardinality(In) = Cardinality(Real)
    <3>1. L = C /\ IsFiniteSet(Signals)
      BY <2>10 DEF HistInv
    <3>2. Cardinality(1..L) = L
      <4>1. 1 \in Int /\ L \in Int /\ (1 > L => L = 0) /\ (~(1 > L) => L - 1 + 1 = L)
        BY <1>1
      <4>2. Cardinality(1..L) = IF 1 > L THEN 0 ELSE L - 1 + 1
        BY <4>1, FS_Interval, Zenon
      <4> QED
        BY <4>1, <4>2
    <3>3. f \in Injection(1..L, Signals)
      BY Fun_IsInj DEF PairedBy
    <3>4. f \in Surjection(1..L, Signals)
      BY <3>1, <3>2, <3>3, FS_Injection
    <3>5. \A s \in Signals : \E k \in 1..L : f[k] = s
      BY <3>4, Fun_SurjectionProperties
    <3>6. \A s \in Real : \E k \in In : g[k] = s
      BY <2>4, <2>5, <3>5 DEF g
    <3>7. g \in [In -> Real]
      BY <2>7, Fun_InjectionProperties
    <3>8. g \in Surjection(In, Real)
      BY <3>6, <3>7, Fun_IsSurj
    <3> QED
      BY <2>9, <3>8
  <2>11. /\ features.counts[<<w, t>>] <= Cardinality(Real)
         /\ features.counts[<<w, t>>] < Cardinality(Real) => C > HistoryCap
    BY <2>2, <2>8, <2>9, <2>10
  <2> QED
    BY <2>11 DEF Real
<1> QED
  BY <1>2 DEF WindowsExactBelowCap

\* The window counts of the blob are those of the applied events as long as
\* the capped history could hold them all, and never too high, whatever order
\* the timestamps come in (engine.py, _count_windows).
THEOREM CountsAreExact == Spec => []WindowsExactBelowCap
<1> DEFINE Inv == (TypeInv /\ HasFields) /\ HistInv
<1>1. Init => Inv
  BY TypeInvInit, HistInvInit DEF Init, HasFields
<1>2. Inv /\ [Next]_vars => Inv'
  BY TypeInvStep, HistInvStep
<1>3. Inv => WindowsExactBelowCap
  BY HistExact DEF WindowsExactBelowCap
<1> QED
  BY <1>1, <1>2, <1>3, PTL DEF Spec

-----------------------------------------------------------------------------
(* Known likes count.                                                      *)

\* Applying an event loses no category.
LEMMA AppliedKeeps ==
    ASSUME NEW x, EngineOK(x), NEW e \in ClientEvents, NEW cats \in SUBSET Category
    PROVE  /\ DOMAIN x.affinity \subseteq DOMAIN Applied(x, e, cats).affinity
           /\ e.type \in Positive => cats \subseteq DOMAIN Applied(x, e, cats).affinity
<1>1. CASE e.type = "impression"
  BY <1>1 DEF Applied, Positive
<1>2. CASE e.type # "impression"
  <2>1. x.affinity \in Affinities /\ Weight(e) \in Int
    BY WeightTyped DEF EngineOK, Engine
  <2>2. Applied(x, e, cats).affinity =
            IF Weight(e) # 0 THEN Blend(x.affinity, cats, Weight(e)) ELSE x.affinity
    BY <1>2 DEF Applied
  <2>3. DOMAIN Blend(x.affinity, cats, Weight(e)) = DOMAIN x.affinity \cup cats
    BY <2>1, BlendTyped
  <2>4. e.type \in Positive => Weight(e) # 0
    BY EngineAssumption DEF Positive, Weight
  <2> QED
    BY <2>2, <2>3, <2>4
<1> QED
  BY <1>1, <1>2

\* The step of an event after a liked title became known.
LEMMA LikesSeededStep ==
    ASSUME TypeInv, NEW e \in ClientEvents, Process(e), features # NoKey,
           NEW i \in features.liked, Catalog[i] # {}
    PROVE  features'.affinity # <<>>
<1>1. /\ EngineOK(Loaded) /\ Loaded.liked = features.liked /\ Loaded.affinity = features.affinity
      /\ Loaded.affinity \in Affinities /\ i \in Item
  <2>1. EngineOK(Loaded) /\ Loaded = EngineFrom(features, history)
    BY LoadedTyped
  <2>2. Loaded.liked = features.liked /\ Loaded.affinity = features.affinity
    BY <2>1 DEF EngineFrom
  <2> QED
    BY <2>1, <2>2 DEF EngineOK, Engine
<1> DEFINE z == Seeded(Loaded, Catalog)
<1>2. EngineOK(z) /\ DOMAIN z.affinity # {}
  <2>1. /\ EngineOK(z)
        /\ DOMAIN z.affinity = IF Loaded.affinity = <<>>
                               THEN UNION {Catalog[j] : j \in Loaded.liked}
                               ELSE DOMAIN Loaded.affinity
    BY <1>1, CatalogTyped, SeededTyped
  <2>2. Loaded.affinity # <<>> => DOMAIN Loaded.affinity # {}
    BY <1>1, NoAffinity
  <2> HIDE DEF z
  <2> QED
    BY <1>1, <2>1, <2>2
<1>3. DOMAIN z.affinity \subseteq DOMAIN After(e).affinity
  <2> HIDE DEF z
  <2>1. DOMAIN z.affinity \subseteq DOMAIN Applied(z, e, CategoriesFor(e)).affinity
    BY <1>2, CategoriesTyped, AppliedKeeps
  <2> QED
    BY <2>1 DEF After, z
<1>4. DOMAIN features'.affinity = DOMAIN After(e).affinity
  BY ProcessTyped DEF SnapshotOf
<1>5. DOMAIN features'.affinity # {}
  <2> HIDE DEF z
  <2> QED
    BY <1>2, <1>3, <1>4
<1>6. DOMAIN <<>> = {}
  OBVIOUS
<1> QED
  BY <1>5, <1>6

\* Once the process knows the genres of a title liked before, the next event
\* leaves the user with affinities (processor.py, the seeding in _apply).
THEOREM LikesAreSeeded == Spec => KnownLikesCount
<1> DEFINE A == (/\ tape' # tape
                 /\ features # NoKey
                 /\ \E i \in features.liked : Catalog[i] # {})
                    => features'.affinity # <<>>
<1>1. Init => TypeInv /\ HasFields
  BY TypeInvInit DEF Init, HasFields
<1>2. (TypeInv /\ HasFields) /\ [Next]_vars => (TypeInv /\ HasFields)'
  BY TypeInvStep
<1>3. (TypeInv /\ HasFields) /\ [Next]_vars => [A]_vars
  <2> SUFFICES ASSUME TypeInv, Next, tape' # tape, features # NoKey,
                      NEW i \in features.liked, Catalog[i] # {}
               PROVE  features'.affinity # <<>>
    OBVIOUS
  <2>1. PICK e \in ClientEvents : Process(e)
    BY DEF Next, Restart, Tick
  <2> QED
    BY <2>1, LikesSeededStep
<1> QED
  BY <1>1, <1>2, <1>3, PTL DEF Spec, KnownLikesCount

-----------------------------------------------------------------------------
(* A replay, event by event.                                               *)

IsTrace(f, p) ==
    f = [n \in 0..Len(p) |->
            IF n = 0 THEN FreshEngine ELSE Applied(f[n - 1], p[n][1], p[n][2])]

Trace(p) == CHOOSE f : IsTrace(f, p)

\* A replay is the last state of a trace of engines.
LEMMA TraceThere ==
    ASSUME NEW S, NEW p \in Seq(S)
    PROVE  /\ Replayed(p) = Trace(p)[Len(p)]
           /\ Trace(p)[0] = FreshEngine
           /\ \A n \in 1..Len(p) : Trace(p)[n] = Applied(Trace(p)[n - 1], p[n][1], p[n][2])
<1> DEFINE Upto(f, m) == f = [n \in 0..m |->
                IF n = 0 THEN FreshEngine ELSE Applied(f[n - 1], p[n][1], p[n][2])]
           P == {m \in Nat : \E f : Upto(f, m)}
<1>1. 0 \in P
  <2> DEFINE f == [k \in 0..0 |-> FreshEngine]
  <2>1. Upto(f, 0)
    <3>1. \A k \in 0..0 : k = 0
      OBVIOUS
    <3> QED
      BY <3>1
  <2> HIDE DEF f, Upto
  <2> QED
    BY <2>1
<1>2. ASSUME NEW m \in Nat, m \in P
      PROVE  m + 1 \in P
  <2> PICK f : Upto(f, m)
    BY <1>2
  <2> DEFINE next == Applied(f[m], p[m + 1][1], p[m + 1][2])
             g == [k \in 0..(m + 1) |-> IF k = m + 1 THEN next ELSE f[k]]
  <2>1. ASSUME NEW k \in 0..(m + 1)
        PROVE  g[k] = IF k = 0 THEN FreshEngine ELSE Applied(g[k - 1], p[k][1], p[k][2])
    <3>1. CASE k = m + 1
      <4>1. g[k] = next /\ g[k - 1] = f[m] /\ k # 0
        BY <3>1
      <4> QED
        BY <3>1, <4>1
    <3>2. CASE k \in 0..m
      <4>1. g[k] = f[k] /\ (k # 0 => g[k - 1] = f[k - 1])
        BY <3>2
      <4>2. f[k] = IF k = 0 THEN FreshEngine ELSE Applied(f[k - 1], p[k][1], p[k][2])
        BY <3>2
      <4> HIDE DEF g, next
      <4> QED
        BY <4>1, <4>2
    <3> QED
      BY <3>1, <3>2
  <2>2. g = [k \in 0..(m + 1) |-> g[k]]
    OBVIOUS
  <2> HIDE DEF g, next
  <2>3. Upto(g, m + 1)
    BY <2>1, <2>2
  <2> HIDE DEF Upto
  <2> QED
    BY <2>3
<1>3. Len(p) \in Nat
  OBVIOUS
<1>4. Len(p) \in P
  <2> HIDE DEF P
  <2> QED
    BY <1>1, <1>2, <1>3, Upwards
<1>5. IsTrace(Trace(p), p)
  <2>1. \E f : IsTrace(f, p)
    BY <1>4 DEF IsTrace
  <2> QED
    BY <2>1 DEF Trace
<1>6. Replayed(p) = Trace(p)[Len(p)]
  BY DEF Replayed, Trace, IsTrace
<1> HIDE DEF P, Upto
<1>7. \A n \in 0..Len(p) :
        Trace(p)[n] = IF n = 0 THEN FreshEngine ELSE Applied(Trace(p)[n - 1], p[n][1], p[n][2])
  BY <1>5 DEF IsTrace
<1> QED
  BY <1>3, <1>6, <1>7

\* Replaying one more event applies it to the replay so far.
LEMMA ReplayedAppend ==
    ASSUME NEW S, NEW p \in Seq(S), NEW x \in S
    PROVE  Replayed(Append(p, x)) = Applied(Replayed(p), x[1], x[2])
<1> DEFINE q == Append(p, x)
           N == Len(p)
           P == {n \in Nat : n \in 0..N => Trace(q)[n] = Trace(p)[n]}
<1>1. /\ N \in Nat /\ q \in Seq(S) /\ Len(q) = N + 1 /\ q[N + 1] = x
      /\ \A n \in 1..N : q[n] = p[n]
  OBVIOUS
<1>2. /\ Trace(p)[0] = FreshEngine
      /\ \A n \in 1..N : Trace(p)[n] = Applied(Trace(p)[n - 1], p[n][1], p[n][2])
      /\ Replayed(p) = Trace(p)[N]
  BY TraceThere
<1>3. /\ Trace(q)[0] = FreshEngine
      /\ \A n \in 1..(N + 1) : Trace(q)[n] = Applied(Trace(q)[n - 1], q[n][1], q[n][2])
      /\ Replayed(q) = Trace(q)[N + 1]
  BY <1>1, TraceThere
<1> HIDE DEF q, N
<1>4. 0 \in P
  BY <1>2, <1>3
<1>5. ASSUME NEW n \in Nat, n \in P
      PROVE  n + 1 \in P
  <2>1. CASE n + 1 \in 0..N
    <3>1. n \in 0..N /\ n + 1 \in 1..N /\ n + 1 \in 1..(N + 1) /\ (n + 1) - 1 = n
      BY <1>1, <2>1
    <3>2. Trace(q)[n] = Trace(p)[n]
      BY <1>5, <3>1
    <3>3. Trace(q)[n + 1] = Applied(Trace(q)[n], q[n + 1][1], q[n + 1][2])
      BY <1>3, <3>1
    <3>4. Trace(p)[n + 1] = Applied(Trace(p)[n], p[n + 1][1], p[n + 1][2])
      BY <1>2, <3>1
    <3>5. Trace(q)[n + 1] = Trace(p)[n + 1]
      BY <1>1, <3>1, <3>2, <3>3, <3>4
    <3> QED
      BY <3>5
  <2> QED
    BY <2>1
<1>6. N \in P
  <2> HIDE DEF P
  <2> QED
    BY <1>1, <1>4, <1>5, Upwards
<1>7. Trace(q)[N] = Trace(p)[N]
  BY <1>1, <1>6
<1>8. N + 1 \in 1..(N + 1) /\ (N + 1) - 1 = N
  BY <1>1
<1>9. Trace(q)[N + 1] = Applied(Trace(q)[N], x[1], x[2])
  BY <1>1, <1>3, <1>8
<1> HIDE DEF P
<1> QED
  BY <1>2, <1>3, <1>7, <1>9 DEF q

\* Replaying nothing gives the engine of a new user.
LEMMA ReplayedNone == Replayed(<<>>) = FreshEngine
<1>1. <<>> \in Seq(Nat) /\ Len(<<>>) = 0
  OBVIOUS
<1> QED
  BY <1>1, TraceThere

-----------------------------------------------------------------------------
(* Serving and training.                                                   *)

\* The same weight brings two affinities no further apart.
LEMMA Steady ==
    ASSUME NEW u \in Int, NEW v \in Int, NEW w \in Int
    PROVE  Gap(Clip(Average(u, w)), Clip(Average(v, w))) <= Gap(u, v)
<1> DEFINE k == 3 * w
           a == (17 * u + k) \div 20
           b == (17 * v + k) \div 20
<1>1. k \in Int
  OBVIOUS
<1>2. \A m, x, y \in Int : x <= y =>
        /\ (17 * x + m) \div 20 <= (17 * y + m) \div 20
        /\ (17 * y + m) \div 20 - (17 * x + m) \div 20 <= y - x
  OBVIOUS
<1>3. a = Average(u, w) /\ b = Average(v, w)
  BY DEF Average
<1> HIDE DEF k
<1>4. a \in Int /\ b \in Int
  BY <1>1
<1>5. (u <= v => a <= b /\ b - a <= v - u) /\ (v <= u => b <= a /\ a - b <= u - v)
  BY <1>1, <1>2
<1> HIDE DEF a, b
<1>6. \A x, y \in Int : x <= y => Clip(x) <= Clip(y) /\ Clip(y) - Clip(x) <= y - x
                                  /\ Clip(x) \in Int /\ Clip(y) \in Int
  BY EngineAssumption DEF Clip
<1>7. CASE u <= v
  <2>1. Clip(a) <= Clip(b) /\ Clip(b) - Clip(a) <= v - u /\ Clip(a) \in Int /\ Clip(b) \in Int
    BY <1>4, <1>5, <1>6, <1>7
  <2> QED
    BY <1>3, <1>7, <2>1 DEF Gap
<1>8. CASE v <= u
  <2>1. Clip(b) <= Clip(a) /\ Clip(a) - Clip(b) <= u - v /\ Clip(a) \in Int /\ Clip(b) \in Int
    BY <1>4, <1>5, <1>6, <1>8
  <2> QED
    BY <1>3, <1>8, <2>1 DEF Gap
<1> QED
  BY <1>7, <1>8

\* Engines that differ in their sums and affinities only, by at most n roundings.
Agree(x, y, n) ==
    /\ x.history = y.history /\ x.count = y.count
    /\ 2 * Gap(x.engagement, y.engagement) <= n * Grid
    /\ x.liked = y.liked /\ x.disliked = y.disliked /\ x.interacted = y.interacted
    /\ DOMAIN x.affinity = DOMAIN y.affinity
    /\ \A c \in DOMAIN x.affinity : 2 * Gap(x.affinity[c], y.affinity[c]) <= n * Grid

\* The affinities of a sound engine are numbers.
LEMMA GapOfAffinities ==
    ASSUME NEW x, EngineOK(x), NEW c \in DOMAIN x.affinity
    PROVE  x.affinity[c] \in Int
<1>1. x.affinity \in Affinities
  BY DEF EngineOK, Engine
<1>2. x.affinity[c] \in Bounded
  BY <1>1, NoAffinity
<1> QED
  BY <1>2, EngineAssumption DEF Bounded

\* The same event keeps two engines as close as they were.
LEMMA AppliedAgree ==
    ASSUME NEW x, NEW y, EngineOK(x), EngineOK(y), NEW n \in Nat, Agree(x, y, n),
           NEW e \in ClientEvents, NEW cats \in SUBSET Category
    PROVE  Agree(Applied(x, e, cats), Applied(y, e, cats), n)
<1>1. CASE e.type = "impression"
  BY <1>1 DEF Applied
<1>2. CASE e.type # "impression"
  <2> DEFINE a == Applied(x, e, cats)
             b == Applied(y, e, cats)
             w == Weight(e)
  <2>1. /\ a.history = Newest(Append(x.history, RecordOf(e)), HistoryCap)
        /\ a.count = x.count + 1 /\ a.engagement = x.engagement + Weight(e)
        /\ a.interacted = x.interacted \cup {e.item}
        /\ a.liked = LikedAfter(x, e) /\ a.disliked = DislikedAfter(x, e)
        /\ a.affinity = IF Weight(e) # 0 THEN Blend(x.affinity, cats, Weight(e)) ELSE x.affinity
    BY <1>2 DEF Applied
  <2>2. /\ b.history = Newest(Append(y.history, RecordOf(e)), HistoryCap)
        /\ b.count = y.count + 1 /\ b.engagement = y.engagement + Weight(e)
        /\ b.interacted = y.interacted \cup {e.item}
        /\ b.liked = LikedAfter(y, e) /\ b.disliked = DislikedAfter(y, e)
        /\ b.affinity = IF Weight(e) # 0 THEN Blend(y.affinity, cats, Weight(e)) ELSE y.affinity
    BY <1>2 DEF Applied
  <2>3. LikedAfter(x, e) = LikedAfter(y, e) /\ DislikedAfter(x, e) = DislikedAfter(y, e)
    BY DEF Agree, LikedAfter, DislikedAfter
  <2> HIDE DEF a, b, w
  <2>4. /\ a.history = b.history /\ a.count = b.count
        /\ 2 * Gap(a.engagement, b.engagement) <= n * Grid
        /\ a.liked = b.liked /\ a.disliked = b.disliked /\ a.interacted = b.interacted
    <3>1. /\ x.engagement \in Int /\ y.engagement \in Int /\ Weight(e) \in Int
          /\ 2 * Gap(x.engagement, y.engagement) <= n * Grid
      BY WeightTyped DEF EngineOK, Engine, Agree
    <3>2. \A u, v, k \in Int : Gap(u + k, v + k) = Gap(u, v)
      BY DEF Gap
    <3>3. Gap(a.engagement, b.engagement) = Gap(x.engagement, y.engagement)
      BY <2>1, <2>2, <3>1, <3>2
    <3> QED
      BY <2>1, <2>2, <2>3, <3>1, <3>3 DEF Agree
  <2>5. CASE w = 0
    <3>1. a.affinity = x.affinity /\ b.affinity = y.affinity
      BY <2>1, <2>2, <2>5 DEF w
    <3> QED
      BY <2>4, <3>1 DEF Agree, a, b
  <2>6. CASE w # 0
    <3>1. a.affinity = Blend(x.affinity, cats, w) /\ b.affinity = Blend(y.affinity, cats, w)
      BY <2>1, <2>2, <2>6 DEF w
    <3>2. DOMAIN x.affinity = DOMAIN y.affinity
      BY DEF Agree
    <3>3. /\ DOMAIN a.affinity = DOMAIN x.affinity \cup cats
          /\ DOMAIN b.affinity = DOMAIN x.affinity \cup cats
      BY <3>1, <3>2 DEF Blend
    <3>4. w \in Int
      BY WeightTyped DEF w
    <3>5. ASSUME NEW c \in DOMAIN x.affinity \cup cats
          PROVE  2 * Gap(a.affinity[c], b.affinity[c]) <= n * Grid
      <4> DEFINE u == Affinity(x.affinity, c)
                 v == Affinity(y.affinity, c)
      <4>1. u \in Int /\ v \in Int /\ 2 * Gap(u, v) <= n * Grid
        <5>1. CASE c \in DOMAIN x.affinity
          BY <3>2, <5>1, GapOfAffinities DEF Affinity, Agree
        <5>2. CASE c \notin DOMAIN x.affinity
          <6>1. u = 0 /\ v = 0
            BY <3>2, <5>2 DEF Affinity
          <6>2. 0 <= n * Grid
            BY EngineAssumption
          <6> QED
            BY <6>1, <6>2 DEF Gap
        <5> QED
          BY <5>1, <5>2
      <4>2. CASE c \in cats
        <5>1. a.affinity[c] = Clip(Average(u, w)) /\ b.affinity[c] = Clip(Average(v, w))
          BY <3>1, <3>2, <4>2 DEF Blend
        <5> HIDE DEF u, v
        <5>2. Gap(a.affinity[c], b.affinity[c]) <= Gap(u, v)
          BY <3>4, <4>1, <5>1, Steady
        <5>3. /\ a.affinity[c] \in Int /\ b.affinity[c] \in Int
          <6>1. Average(u, w) \in Int /\ Average(v, w) \in Int
            BY <3>4, <4>1, AverageType
          <6>2. Clip(Average(u, w)) \in Bounded /\ Clip(Average(v, w)) \in Bounded
            BY <6>1, ClipBounds
          <6> QED
            BY <5>1, <6>2, EngineAssumption DEF Bounded
        <5>4. /\ Gap(a.affinity[c], b.affinity[c]) \in Int /\ Gap(u, v) \in Int
              /\ n * Grid \in Int
          BY <4>1, <5>3, EngineAssumption DEF Gap
        <5> QED
          BY <4>1, <5>2, <5>4
      <4>3. CASE c \notin cats
        <5>1. c \in DOMAIN x.affinity /\ c \in DOMAIN y.affinity
          BY <3>2, <4>3
        <5>2. a.affinity[c] = Clip(x.affinity[c]) /\ b.affinity[c] = Clip(y.affinity[c])
          BY <3>1, <3>2, <4>3 DEF Blend
        <5>3. \A z : (EngineOK(z) /\ c \in DOMAIN z.affinity) => Clip(z.affinity[c]) = z.affinity[c]
          <6> SUFFICES ASSUME NEW z, EngineOK(z), c \in DOMAIN z.affinity
                       PROVE  Clip(z.affinity[c]) = z.affinity[c]
            OBVIOUS
          <6>1. z.affinity \in Affinities
            BY DEF EngineOK, Engine
          <6>2. z.affinity[c] \in Bounded /\ z.affinity[c] \in Int
            BY <6>1, NoAffinity, EngineAssumption DEF Bounded
          <6> QED
            BY <6>2, ClipBounds
        <5>4. u = x.affinity[c] /\ v = y.affinity[c]
          BY <5>1 DEF Affinity
        <5> QED
          BY <4>1, <5>1, <5>2, <5>3, <5>4
      <4> QED
        BY <4>2, <4>3
    <3> QED
      BY <2>4, <3>3, <3>5 DEF Agree, a, b
  <2> QED
    BY <2>5, <2>6
<1> QED
  BY <1>1, <1>2

\* Storing an engine costs one rounding.
LEMMA StoredAgree ==
    ASSUME NEW x, NEW y, EngineOK(x), EngineOK(y), NEW n \in Nat, Agree(x, y, n),
           NEW b, NEW t, SnapshotOf(b, x, t)
    PROVE  Agree(EngineFrom(b, x.history), y, n + 1)
<1> DEFINE z == EngineFrom(b, x.history)
<1>1. /\ z.history = x.history /\ z.count = x.count /\ z.engagement = Rounded(x.engagement)
      /\ z.liked = x.liked /\ z.disliked = x.disliked /\ z.interacted = x.interacted
      /\ z.affinity = [c \in DOMAIN x.affinity |-> Rounded(x.affinity[c])]
  BY DEF EngineFrom, SnapshotOf
<1> HIDE DEF z
<1>2. ASSUME NEW c \in DOMAIN x.affinity
      PROVE  2 * Gap(z.affinity[c], y.affinity[c]) <= (n + 1) * Grid
  <2>1. /\ x.affinity[c] \in Int /\ y.affinity[c] \in Int
        /\ 2 * Gap(x.affinity[c], y.affinity[c]) <= n * Grid
    BY GapOfAffinities DEF Agree
  <2>2. z.affinity[c] = Rounded(x.affinity[c])
    BY <1>1
  <2> QED
    BY <2>1, <2>2, RoundedGap
<1>3. DOMAIN z.affinity = DOMAIN x.affinity
  BY <1>1
<1>4. 2 * Gap(z.engagement, y.engagement) <= (n + 1) * Grid
  <2>1. /\ x.engagement \in Int /\ y.engagement \in Int
        /\ 2 * Gap(x.engagement, y.engagement) <= n * Grid
    BY DEF EngineOK, Engine, Agree
  <2> QED
    BY <1>1, <2>1, RoundedGap
<1> QED
  BY <1>1, <1>2, <1>3, <1>4 DEF Agree, z

\* The stored average is that of an engine, up to n roundings of the sum and
\* one of its own.
MeanNear(b, y, n) ==
    b.count # 0 =>
        2 * Gap(b.count * b.average, y.engagement) <= (n + b.count) * Grid

\* The average is stored with the sum it is of.
LEMMA StoredMean ==
    ASSUME NEW x, NEW y, EngineOK(x), EngineOK(y), NEW n \in Nat, Agree(x, y, n),
           NEW b, NEW t, SnapshotOf(b, x, t)
    PROVE  MeanNear(b, y, n + 1)
<1> DEFINE c == x.count
           u == x.engagement
           v == y.engagement
           p == c * RoundedMean(u, c)
           g == n * Grid
           m == c * Grid
<1> SUFFICES ASSUME c # 0
             PROVE  2 * Gap(p, v) <= ((n + 1) + c) * Grid
  BY DEF MeanNear, SnapshotOf
<1>1. c \in Nat /\ u \in Int /\ v \in Int /\ 2 * Gap(u, v) <= g
  BY DEF EngineOK, Engine, Agree
<1> HIDE DEF c, u, v
<1>2. p \in Int /\ 2 * Gap(p, u) <= m
  <2>1. RoundedMean(u, c) \in Int /\ (c # 0 => 2 * Gap(c * RoundedMean(u, c), u) <= c * Grid)
    BY <1>1, MeanGap
  <2>2. \A i, j \in Int : i * j \in Int
    OBVIOUS
  <2>3. c * RoundedMean(u, c) \in Int
    BY <1>1, <2>1, <2>2
  <2> QED
    BY <2>1, <2>3
<1>3. Grid \in Nat /\ g \in Nat /\ m \in Nat
  BY <1>1, EngineAssumption
<1>4. ((n + 1) + c) * Grid = g + Grid + m
  <2>1. \A a, b1, k \in Nat : ((a + 1) + b1) * k = a * k + k + b1 * k
    OBVIOUS
  <2> QED
    BY <1>1, <1>3, <2>1
<1> HIDE DEF p, g, m
<1>5. 2 * Gap(p, v) <= g + Grid + m
  BY <1>1, <1>2, <1>3 DEF Gap
<1> QED
  BY <1>4, <1>5

\* Every event so far was applied with the categories of the catalog.
FullCats == \A k \in DOMAIN tape : tape[k][2] = CategoriesOf[tape[k][1].item]

\* The genres of the liked titles have affinities.
Seen(x) == \A i \in x.liked : CategoriesOf[i] \subseteq DOMAIN x.affinity

\* The stored engine is that of a replay, up to a rounding per event.
AgreeInv ==
    /\ EngineOK(Replayed(tape))
    /\ FullCats => Seen(Replayed(tape)) /\ Agree(Loaded, Replayed(tape), Len(tape))
    /\ FullCats /\ features # NoKey => MeanNear(features, Replayed(tape), Len(tape))

\* Nothing stored, nothing replayed.
LEMMA AgreeInvInit == Init => AgreeInv
<1> SUFFICES ASSUME Init PROVE AgreeInv
  OBVIOUS
<1>1. tape = <<>> /\ Replayed(tape) = FreshEngine /\ Len(tape) = 0
  BY ReplayedNone DEF Init
<1>2. Loaded = FreshEngine
  BY TypeInvInit, LoadedTyped DEF Init
<1>3. DOMAIN FreshEngine.affinity = {} /\ FreshEngine.liked = {}
  BY DEF FreshEngine
<1>4. Seen(FreshEngine) /\ Agree(FreshEngine, FreshEngine, 0)
  <2>1. FreshEngine.engagement = 0 /\ 2 * Gap(0, 0) <= 0 * Grid
    BY EngineAssumption DEF FreshEngine, Gap
  <2> QED
    BY <1>3, <2>1 DEF Seen, Agree
<1> QED
  BY <1>1, <1>2, <1>4, FreshTyped DEF AgreeInv, Init

\* An event applied with the categories of the catalog: nothing is left to
\* seed, and the snapshot adds one rounding to the distance.
LEMMA AgreeProcess ==
    ASSUME TypeInv, AgreeInv, NEW e \in ClientEvents, Process(e)
    PROVE  AgreeInv'
<1> DEFINE off == Replayed(tape)
           cats == CategoriesFor(e)
           next == Applied(off, e, cats)
           z == Seeded(Loaded, Catalog)
           n == Len(tape)
<1>1. /\ tape \in Seq(ClientEvents \X SUBSET Category) /\ n \in Nat
      /\ tape' = Append(tape, <<e, cats>>) /\ Len(tape') = n + 1
      /\ DOMAIN tape = 1..n /\ DOMAIN tape' = 1..(n + 1)
      /\ tape'[n + 1] = <<e, cats>> /\ \A k \in 1..n : tape'[k] = tape[k]
      /\ cats \in SUBSET Category /\ <<e, cats>> \in ClientEvents \X SUBSET Category
  BY CategoriesTyped DEF TypeInv, Process
<1>2. Replayed(tape') = next
  BY <1>1, ReplayedAppend
<1>3. EngineOK(off) /\ EngineOK(next)
  BY <1>1, AppliedTyped DEF AgreeInv
<1>4. ASSUME FullCats'
      PROVE  /\ Seen(Replayed(tape')) /\ Agree(Loaded', Replayed(tape'), Len(tape'))
             /\ MeanNear(features', Replayed(tape'), Len(tape'))
  <2>1. FullCats /\ cats = CategoriesOf[e.item]
    <3>1. \A k \in 1..(n + 1) : tape'[k][2] = CategoriesOf[tape'[k][1].item]
      BY <1>1, <1>4 DEF FullCats
    <3>2. n + 1 \in 1..(n + 1) /\ \A k \in 1..n : k \in 1..(n + 1)
      BY <1>1
    <3>3. cats = CategoriesOf[e.item]
      BY <1>1, <3>1, <3>2
    <3>4. \A k \in 1..n : tape[k][2] = CategoriesOf[tape[k][1].item]
      BY <1>1, <3>1, <3>2
    <3> QED
      BY <1>1, <3>3, <3>4 DEF FullCats
  <2>2. Seen(off) /\ Agree(Loaded, off, n)
    BY <2>1 DEF AgreeInv
  <2>3. EngineOK(Loaded) /\ Loaded.affinity \in Affinities /\ Loaded.liked \in SUBSET Item
    BY LoadedTyped DEF EngineOK, Engine
  <2>4. z = Loaded
    <3>1. CASE Loaded.affinity # <<>>
      BY <3>1 DEF Seeded
    <3>2. CASE Loaded.affinity = <<>>
      <4>1. DOMAIN Loaded.affinity = {}
        BY <3>2
      <4>2. \A i \in Loaded.liked : CategoriesOf[i] = {}
        BY <2>2, <4>1 DEF Seen, Agree
      <4>3. \A i \in Loaded.liked : Catalog[i] = {}
        BY <2>3, <4>2, CatalogTyped
      <4>4. UNION {Catalog[i] : i \in Loaded.liked} = {}
        BY <4>3
      <4>5. /\ EngineOK(z) /\ DOMAIN z.affinity = {}
            /\ \A f \in {"history", "recent", "count", "engagement", "liked", "disliked",
                         "interacted"} : z[f] = Loaded[f]
        <5>1. Catalog \in [Item -> SUBSET Category]
          BY CatalogTyped
        <5>2. /\ EngineOK(z)
              /\ DOMAIN z.affinity = IF Loaded.affinity = <<>>
                                     THEN UNION {Catalog[i] : i \in Loaded.liked}
                                     ELSE DOMAIN Loaded.affinity
              /\ \A f \in {"history", "recent", "count", "engagement", "liked", "disliked",
                           "interacted"} : z[f] = Loaded[f]
          BY <2>3, <5>1, SeededTyped
        <5> HIDE DEF z
        <5> QED
          BY <3>2, <4>4, <5>2
      <4> HIDE DEF z
      <4>6. z.affinity \in Affinities
        BY <4>5 DEF EngineOK, Engine
      <4>7. z.affinity = Loaded.affinity
        BY <3>2, <4>5, <4>6, NoAffinity
      <4>8. z \in Engine /\ Loaded \in Engine
        BY <2>3, <4>5 DEF EngineOK
      <4>9. /\ z.history = Loaded.history /\ z.recent = Loaded.recent /\ z.count = Loaded.count
            /\ z.engagement = Loaded.engagement /\ z.liked = Loaded.liked
            /\ z.disliked = Loaded.disliked /\ z.interacted = Loaded.interacted
        BY <4>5
      <4> QED
        BY <4>7, <4>8, <4>9 DEF Engine
    <3> QED
      BY <3>1, <3>2
  <2>5. After(e) = Applied(Loaded, e, cats)
    BY <2>4 DEF After
  <2>6. Agree(After(e), next, n)
    <3> HIDE DEF off, cats, n, next
    <3>1. Agree(Applied(Loaded, e, cats), Applied(off, e, cats), n)
      BY <1>1, <1>3, <2>2, <2>3, AppliedAgree
    <3> QED
      BY <2>5, <3>1 DEF next
  <2>7. /\ EngineOK(After(e)) /\ SnapshotOf(features', After(e), clock)
        /\ history' = After(e).history /\ TypeInv'
    BY ProcessTyped
  <2>8. Agree(EngineFrom(features', After(e).history), next, n + 1)
    <3> HIDE DEF next, n
    <3> QED
      BY <1>1, <1>3, <2>6, <2>7, StoredAgree
  <2>9. MeanNear(features', next, n + 1)
    <3> HIDE DEF next, n
    <3> QED
      BY <1>1, <1>3, <2>6, <2>7, StoredMean
  <2>10. Loaded' = EngineFrom(features', history')
    BY <2>7 DEF Loaded, SnapshotOf
  <2>11. Seen(next)
    <3>1. /\ DOMAIN off.affinity \subseteq DOMAIN next.affinity
          /\ e.type \in Positive => cats \subseteq DOMAIN next.affinity
      BY <1>1, <1>3, AppliedKeeps
    <3>2. next.liked \subseteq off.liked \cup (IF e.type \in Positive THEN {e.item} ELSE {})
      BY DEF Applied, LikedAfter, Positive, Negative
    <3> HIDE DEF off, next, cats
    <3> QED
      BY <2>1, <2>2, <3>1, <3>2 DEF Seen
  <2> HIDE DEF next, n
  <2> QED
    BY <1>1, <1>2, <2>7, <2>8, <2>10, <2>11, <2>9
<1> QED
  BY <1>2, <1>3, <1>4 DEF AgreeInv

\* The clock, stuttering and a restart that backfills nothing.
LEMMA AgreeOther ==
    ASSUME AgreeInv, features' = features, history' = history, tape' = tape
    PROVE  AgreeInv'
<1>1. Loaded' = Loaded
  BY DEF Loaded
<1> QED
  BY <1>1 DEF AgreeInv, FullCats, Agree, MeanNear

\* Every step keeps the agreement; a backfill that changes the blob means that
\* some like was applied without its categories.
LEMMA AgreeInvStep ==
    (TypeInv /\ HasFields /\ AgreeInv) /\ [Next]_vars => AgreeInv'
<1> SUFFICES ASSUME TypeInv, HasFields, AgreeInv, [Next]_vars
             PROVE  AgreeInv'
  OBVIOUS
<1>1. ASSUME NEW e \in ClientEvents, Process(e)
      PROVE  AgreeInv'
  BY <1>1, AgreeProcess
<1>2. ASSUME NEW learned \in SUBSET (Item \ known), Restart(learned)
      PROVE  AgreeInv'
  <2>1. /\ UNCHANGED <<history, tape>>
        /\ features' = features \/ (features # NoKey /\ features' = Backfilled)
    BY <1>2 DEF Restart
  <2>2. CASE features' = features
    BY <2>1, <2>2, AgreeOther
  <2>3. ASSUME features # NoKey, features' = Backfilled, features' # features
        PROVE  AgreeInv'
    <3>1. PICK f \in Affinities : /\ DOMAIN f = UNION {Catalog'[i] : i \in features.liked}
                                  /\ f # <<>> /\ features.affinity = <<>>
      BY <2>3, BackfillTyped
    <3>2. PICK i \in features.liked : Catalog'[i] # {}
      <4>1. DOMAIN f # {}
        BY <3>1, NoAffinity
      <4> QED
        BY <3>1, <4>1
    <3>3. i \in Item /\ Loaded.liked = features.liked /\ Loaded.affinity = features.affinity
      <4>1. EngineOK(Loaded) /\ Loaded = EngineFrom(features, history)
        BY <2>3, LoadedTyped
      <4>2. Loaded.liked = features.liked /\ Loaded.affinity = features.affinity
        BY <4>1 DEF EngineFrom
      <4> QED
        BY <4>1, <4>2 DEF EngineOK, Engine
    <3>4. CategoriesOf[i] # {}
      BY <3>2, <3>3, CatalogTyped
    <3>5. DOMAIN features.affinity = {}
      BY <3>1
    <3>6. ~FullCats
      BY <3>2, <3>3, <3>4, <3>5 DEF AgreeInv, Seen, Agree
    <3>7. ~FullCats'
      BY <2>1, <3>6 DEF FullCats
    <3> QED
      BY <2>1, <3>7 DEF AgreeInv
  <2> QED
    BY <2>1, <2>2, <2>3
<1>3. CASE Tick \/ UNCHANGED vars
  BY <1>3, AgreeOther DEF Tick, vars
<1> QED
  BY <1>1, <1>2, <1>3 DEF Next

\* The invariants give the property.
LEMMA TrainingAgrees ==
    TypeInv /\ HistInv /\ AgreeInv => ServingMatchesTraining
<1> SUFFICES ASSUME TypeInv, HistInv, AgreeInv, features # NoKey,
                    \A k \in DOMAIN tape : tape[k][2] = CategoriesOf[tape[k][1].item]
             PROVE  LET offline == Replayed(tape)
                        trained == Snapshot(offline, features.updatedAt)
                    IN  /\ features.counts = trained.counts
                        /\ features.count = trained.count
                        /\ features.liked = trained.liked
                        /\ features.disliked = trained.disliked
                        /\ features.interacted = trained.interacted
                        /\ 2 * Gap(features.engagement, offline.engagement) <= Len(tape) * Grid
                        /\ features.count # 0 =>
                            2 * Gap(features.count * features.average, offline.engagement)
                                <= (Len(tape) + features.count) * Grid
                        /\ DOMAIN features.affinity = DOMAIN trained.affinity
                        /\ \A c \in DOMAIN features.affinity :
                            2 * Gap(features.affinity[c], offline.affinity[c]) <= Len(tape) * Grid
  BY DEF ServingMatchesTraining
<1> DEFINE off == Replayed(tape)
           trained == Snapshot(off, features.updatedAt)
<1>1. Agree(Loaded, off, Len(tape)) /\ MeanNear(features, off, Len(tape))
  BY DEF AgreeInv, FullCats
<1>2. /\ Loaded.history = history /\ Loaded.count = features.count
      /\ Loaded.engagement = features.engagement /\ Loaded.liked = features.liked
      /\ Loaded.disliked = features.disliked /\ Loaded.interacted = features.interacted
      /\ Loaded.affinity = features.affinity
  BY LoadedTyped DEF EngineFrom
<1>3. features.counts = WindowCounts(history, features.updatedAt)
  BY DEF HistInv
<1>4. SnapshotOf(trained, off, features.updatedAt)
  BY SnapshotFields
<1> HIDE DEF off, trained
<1>5. /\ trained.counts = WindowCounts(off.history, features.updatedAt)
      /\ trained.count = off.count
      /\ trained.liked = off.liked /\ trained.disliked = off.disliked
      /\ trained.interacted = off.interacted
      /\ DOMAIN trained.affinity = DOMAIN off.affinity
  BY <1>4 DEF SnapshotOf
<1>6. history = off.history
  BY <1>1, <1>2 DEF Agree
<1>7. features.counts = trained.counts
  BY <1>3, <1>5, <1>6
<1>8. /\ features.count = trained.count
      /\ features.liked = trained.liked /\ features.disliked = trained.disliked
      /\ features.interacted = trained.interacted
      /\ 2 * Gap(features.engagement, off.engagement) <= Len(tape) * Grid
      /\ DOMAIN features.affinity = DOMAIN trained.affinity
      /\ \A c \in DOMAIN features.affinity :
            2 * Gap(features.affinity[c], off.affinity[c]) <= Len(tape) * Grid
  BY <1>1, <1>2, <1>5 DEF Agree
<1>9. features.count # 0 =>
        2 * Gap(features.count * features.average, off.engagement)
            <= (Len(tape) + features.count) * Grid
  BY <1>1 DEF MeanNear
<1> QED
  BY <1>7, <1>8, <1>9 DEF off, trained

\* Serving and training compute the same features from the same events: the
\* stored blob is what one offline engine would have after a replay, exactly in
\* all but the engagement and the affinities, in these up to half a rounding
\* step per event, and in the average engagement up to its share of the sum's
\* drift and half a step of its own, whatever finite values the ratings carry
\* and through any number of round trips, restarts and backfills, as long as
\* every event was applied with the categories of the catalog (processor.py,
\* _apply; engine.py, snapshot and from_state; ranking/dataset.py).
THEOREM ServingIsTraining == Spec => []ServingMatchesTraining
<1> DEFINE Inv == (TypeInv /\ HasFields) /\ HistInv /\ AgreeInv
<1>1. Init => Inv
  BY TypeInvInit, HistInvInit, AgreeInvInit DEF Init, HasFields
<1>2. Inv /\ [Next]_vars => Inv'
  BY TypeInvStep, HistInvStep, AgreeInvStep
<1>3. Inv => ServingMatchesTraining
  BY TrainingAgrees
<1> QED
  BY <1>1, <1>2, <1>3, PTL DEF Spec
=============================================================================
