--------------------------- MODULE TrainingLists ---------------------------
(***************************************************************************)
(* From the MovieLens ratings to the ranker's training lists:              *)
(*                                                                         *)
(*   - scripts/prepare_data.py: canonical events (datasets/movielens.py)   *)
(*     and the temporal split (datasets/split.py);                         *)
(*   - scripts/train.py: ranking/dataset.py walks the events of each user  *)
(*     in time order and emits, for a positive event, a group of rows with *)
(*     the features of that moment;                                        *)
(*   - scripts/evaluate.py: the state of a user at the end of train.       *)
(*                                                                         *)
(* Sorting is not stable: rows of one instant come in any order.  ALS and  *)
(* the boosted trees themselves are outside: what the model may learn from *)
(* is in the rows.  Of a row's features only hour, weekday, year and the   *)
(* retrieval score, which is 0 in every row, are left out.                 *)
(***************************************************************************)
EXTENDS FeatureEngine, FiniteSetsExt

CONSTANTS
    User,
    CategoriesOf,   \* CategoriesOf[i]: the genres of title i
    Time,           \* the instants of ratings
    TrainPercent,   \* TEMPORAL_TRAIN_FRACTION
    ValPercent,     \* TEMPORAL_VAL_FRACTION
    Negatives,      \* RANKER_NEGATIVES_PER_POSITIVE
    MaxPositives,   \* RANKER_MAX_POSITIVES_PER_USER
    SampleSize,     \* how many users train.py builds lists for
    Nobody          \* no user

ASSUME TrainingAssumption ==
    /\ IsFiniteSet(Item) /\ CategoriesOf \in [Item -> SUBSET Category]
    /\ Time \subseteq Int
    /\ TrainPercent \in 1..99 /\ ValPercent \in 1..99
    /\ TrainPercent + ValPercent < 100
    /\ Negatives \in Nat /\ MaxPositives \in Nat
    /\ SampleSize \in Nat \ {0}
    /\ Nobody \notin User

VARIABLES
    phase,      \* "rating", then "failed" or "split", then "training"
    ratings,    \* ratings.dat: at most one rating of a user for a title
    parts,      \* train.parquet, val.parquet and test.parquet
    stats,      \* the titles' statistics the lists are built with
    left,       \* rows of the sampled users that were not walked yet
    user,       \* the user being walked
    engine, seen, positives,    \* the locals of that walk
    groups,     \* the groups emitted
    evaluated   \* evaluated[u]: the state evaluate.py ranks with

walkVars == <<stats, left, user, engine, seen, positives, groups>>
vars     == <<phase, ratings, parts, walkVars, evaluated>>

NoParts == [train |-> {}, val |-> {}, test |-> {}]
NoState == <<>>

Init ==
    /\ phase = "rating" /\ ratings = {} /\ parts = NoParts
    /\ stats = <<>> /\ left = {}
    /\ user = Nobody /\ engine = FreshEngine /\ seen = {} /\ positives = 0
    /\ groups = {}
    /\ evaluated = [u \in User |-> NoState]

-----------------------------------------------------------------------------
(* The data set.                                                           *)

Rate(u, i, stars, t) ==
    /\ phase = "rating"
    /\ \A r \in ratings : r.user # u \/ r.item # i
    /\ ratings' = ratings \cup {[user |-> u, item |-> i, stars |-> stars, at |-> t]}
    /\ UNCHANGED <<phase, parts, walkVars, evaluated>>

\* RATING_TO_EVENT, by the number of stars.
RatingToEvent == <<"dislike", "skip", "view", "watch", "like">>

\* A row of the canonical table as the event the feature engine applies; its
\* value is its type's weight, which the engine looks up again.
EventOf(row) ==
    [type |-> RatingToEvent[row.stars], item |-> row.item, at |-> row.at, value |-> NoValue]

IsPositive(row) == EventOf(row).type \in Positive

-----------------------------------------------------------------------------
(* The temporal split.                                                     *)

\* The n-th smallest timestamp.
NthTime(rows, n) ==
    CHOOSE t \in {r.at : r \in rows} :
        /\ Cardinality({r \in rows : r.at < t}) < n
        /\ Cardinality({r \in rows : r.at <= t}) >= n

\* Series.quantile: the element nearest to that share of the sorted column.
Quantile(rows, percent) ==
    NthTime(rows, 1 + (percent * (Cardinality(rows) - 1) + 50) \div 100)

\* Mutant: the second cut forgets the first fraction.
ValEndAlone(rows) == Quantile(rows, ValPercent)
ValEnd(rows)   == Quantile(rows, TrainPercent + ValPercent)
TrainEnd(rows) == Quantile(rows, TrainPercent)

\* Mutant: what is at the cut is in neither part.
After(rows, t) == {r \in rows : r.at > t}
From(rows, t) == {r \in rows : r.at >= t}

PartsOf(rows) ==
    [train |-> {r \in rows : r.at < TrainEnd(rows)},
     val   |-> {r \in rows : r.at >= TrainEnd(rows) /\ r.at < ValEnd(rows)},
     test  |-> From(rows, ValEnd(rows))]

AllBefore(A, B) == \A a \in A, b \in B : a.at < b.at

\* validate_temporal_split lets the parts pass.
Valid(p) ==
    /\ p.train # {} /\ p.val # {} /\ p.test # {}
    /\ AllBefore(p.train, p.val) /\ AllBefore(p.val, p.test)
    /\ p.train \cap p.val = {} /\ p.val \cap p.test = {} /\ p.train \cap p.test = {}

\* prepare_data.py: a ValueError without interactions, a TemporalLeakageError
\* for parts that do not pass; nothing is written then.
Prepare ==
    /\ phase = "rating"
    /\ IF ratings # {} /\ Valid(PartsOf(ratings))
       THEN phase' = "split" /\ parts' = PartsOf(ratings)
       ELSE phase' = "failed" /\ UNCHANGED parts
    /\ UNCHANGED <<ratings, walkVars, evaluated>>

-----------------------------------------------------------------------------
(* A title's statistics, as pairs of a numerator and a denominator (0 of 0  *)
(* is 0).                                                                  *)

Count(rows, i)         == Cardinality({r \in rows : r.item = i})
PositiveCount(rows, i) == Cardinality({r \in rows : r.item = i /\ IsPositive(r)})
LikeCount(rows, i)     == Cardinality({r \in rows : r.item = i /\ EventOf(r).type = "like"})
\* A title's share of the most frequent one.
ShareOf(counts, i) == <<counts[i], Max({1} \cup Range(counts))>>

\* The weights of a title's rows: the canonical table's value column.
WeightSum(rows, i) ==
    MapThenSumSet(LAMBDA r : Weight(EventOf(r)), {r \in rows : r.item = i})

\* _item_stats, as the ranker is trained with it.
TrainedStats(rows, i) ==
    [popularity |-> ShareOf([j \in Item |-> Count(rows, j)], i),
     rating     |-> <<WeightSum(rows, i), Count(rows, i)>>,
     count      |-> Count(rows, i),
     likeRate   |-> <<LikeCount(rows, i), Count(rows, i)>>]

\* compute_popularity: without any positive row, every row counts as one.
PopularityCounts(rows) ==
    [j \in Item |-> IF \E r \in rows : IsPositive(r) THEN PositiveCount(rows, j)
                    ELSE Count(rows, j)]

\* The service's item_stats, and evaluate.py's.
ServedStats(rows, i) ==
    [popularity |-> ShareOf(PopularityCounts(rows), i),
     likeRate   |-> <<PopularityCounts(rows)[i], Count(rows, i)>>]

SameRatio(p, q) == p[1] * q[2] = q[1] * p[2]

-----------------------------------------------------------------------------
(* The training lists.                                                     *)

UsersOf(rows) == {r.user : r \in rows}

\* train.py: lists are built for the first users in an order without meaning,
\* with statistics over all train rows of theirs.
Sample(S) ==
    /\ phase = "split"
    /\ S \subseteq UsersOf(parts.train)
    /\ Cardinality(S) = Min({SampleSize, Cardinality(UsersOf(parts.train))})
    /\ phase' = "training"
    /\ left' = {r \in parts.train : r.user \in S}
    /\ stats' = [i \in Item |-> TrainedStats(left', i)]
    /\ UNCHANGED <<ratings, parts, user, engine, seen, positives, groups, evaluated>>

\* The next user of train_sorted.group_by, with an engine of their own.
NextUser(u) ==
    /\ phase = "training"
    /\ user \notin UsersOf(left)
    /\ u \in UsersOf(left)
    /\ user' = u
    /\ engine' = FreshEngine /\ seen' = {} /\ positives' = 0
    /\ UNCHANGED <<phase, ratings, parts, stats, left, groups, evaluated>>

\* item_affinity and genre_match_count.
ItemAffinity(state, cats) ==
    IF cats = {} THEN 0
    ELSE MapThenSumSet(LAMBDA c : Affinity(state.affinity, c), cats) \div Cardinality(cats)
GenreMatches(state, cats) ==
    Cardinality({c \in cats : 20 * Affinity(state.affinity, c) > Unit})

\* build_ranker_features: what comes from the user's past, and what from the
\* place in the group and from the statistics.
UserFeatures(state, i, known) ==
    [state |-> state, affinity |-> ItemAffinity(state, CategoriesOf[i]),
     matches |-> GenreMatches(state, CategoriesOf[i]), previously |-> i \in known]

RankerFeatures(source, rank, state, i, known) ==
    [source |-> source, rank |-> rank, item |-> stats[i],
     user |-> UserFeatures(state, i, known)]

\* Mutant: an event is applied before its row is built.
StateWithEvent(row) == Snapshot(Applied(engine, EventOf(row), CategoriesOf[row.item]), row.at)
StateAt(row) == Snapshot(engine, row.at)

\* Mutant: negatives are any other titles.
AnyOther(row) == Item \ {row.item}
Unseen(row) == Item \ (seen \cup {row.item})

\* A group: the positive, first and marked as if ALS had found it, and a sample
\* of titles without a rating so far, ranked behind it in any order.
GroupWith(row, rank) ==
    [user |-> row.user, item |-> row.item, at |-> row.at,
     rows |-> [i \in DOMAIN rank \cup {row.item} |->
                IF i = row.item
                THEN [label |-> 1,
                      features |-> RankerFeatures("als", 1, StateAt(row), i, seen)]
                ELSE [label |-> 0,
                      features |-> RankerFeatures("popularity", rank[i], StateAt(row), i, seen)]]]

GroupsFor(row) ==
    LET unseen == Unseen(row)
        n      == Min({Negatives, Cardinality(unseen)})
    IN  {GroupWith(row, rank) :
            rank \in UNION {Bijection(S, 2..(n + 1)) : S \in kSubset(n, unseen)}}

\* The body of the loop over a user's rows.
Walk(row) ==
    /\ row \in left /\ row.user = user
    /\ \A r \in left : r.user = user => row.at <= r.at
    /\ IF IsPositive(row) /\ positives < MaxPositives
       THEN /\ \E g \in GroupsFor(row) : groups' = groups \cup {g}
            /\ positives' = positives + 1
       ELSE UNCHANGED <<groups, positives>>
    /\ engine' = Applied(engine, EventOf(row), CategoriesOf[row.item])
    /\ seen' = seen \cup {row.item}
    /\ left' = left \ {row}
    /\ UNCHANGED <<phase, ratings, parts, stats, user, evaluated>>

-----------------------------------------------------------------------------
(* Evaluation.                                                             *)

\* The orders in which rows may come out of a sort by time.
TimeOrders(rows) ==
    {s \in SetToSeqs(rows) : \A j, k \in DOMAIN s : j < k => s[j].at <= s[k].at}

\* The features after the rows of s, as of t.
StateAfter(s, t) ==
    Snapshot(Replayed([k \in DOMAIN s |-> <<EventOf(s[k]), CategoriesOf[s[k].item]>>]), t)

\* The rows up to the end of a part.
LastTime(rows) == Max({r.at : r \in rows})

\* Mutant: the engines are fed the whole table.
AllRowsOf(u) == {r \in ratings : r.user = u}
TrainRowsOf(u) == {r \in parts.train : r.user = u}

\* _relevant_by_user: what a user turns out to like in the test part.
Relevant(u) == {r.item : r \in {x \in parts.test : x.user = u /\ IsPositive(x)}}

\* evaluate.py: a user with something to find in test and a past in train.
Evaluate(u) ==
    /\ phase = "training" /\ left = {}
    /\ evaluated[u] = NoState
    /\ u \in UsersOf(parts.train) /\ Relevant(u) # {}
    /\ \E s \in TimeOrders(TrainRowsOf(u)) :
        evaluated' = [evaluated EXCEPT ![u] = StateAfter(s, LastTime(parts.train))]
    /\ UNCHANGED <<phase, ratings, parts, walkVars>>

-----------------------------------------------------------------------------
Next ==
    \/ \E u \in User, i \in Item, stars \in 1..5, t \in Time : Rate(u, i, stars, t)
    \/ Prepare
    \/ \E S \in SUBSET User : Sample(S)
    \/ \E row \in left : Walk(row)
    \/ \E u \in User : NextUser(u) \/ Evaluate(u)

Spec == Init /\ [][Next]_vars
-----------------------------------------------------------------------------
(* What must hold.                                                         *)

\* The parts follow each other strictly in time, ties on a cut go to the later
\* part, and every interaction is in exactly one of them (split.py:22-24).
SplitKeepsTime ==
    phase \in {"split", "training"} =>
        /\ parts.train \cup parts.val \cup parts.test = ratings
        /\ \A a, b \in ratings :
            /\ a \in parts.train /\ b \notin parts.train => a.at < b.at
            /\ a \notin parts.test /\ b \in parts.test => a.at < b.at

\* The build fails on ties or on a handful of rows and never otherwise: with
\* distinct timestamps, and enough rows for each fraction to hold one, the
\* quantiles leave no part empty (split.py, temporal_split and its guard).
AmpleRowsAreSplit ==
    (/\ phase = "failed"
     /\ (Cardinality(ratings) - 1) * ValPercent >= 100
     /\ (Cardinality(ratings) - 1) * TrainPercent >= 50)
        => \E a, b \in ratings : a # b /\ a.at = b.at

\* The rows of the group's user from before the group's instant.
Earlier(g) == {r \in parts.train : r.user = g.user /\ r.at < g.at}

\* What a group without a rival at its instant knows of its user is what an
\* engine knows that was fed exactly the user's earlier events; the positive
\* event itself has no part in it (dataset.py, build_training_lists: snapshot,
\* then apply).  Its other features are not of the past: source and rank tell
\* the positive from the rest (dataset.py:147,151), and the statistics count the
\* positive and everything after it (dataset.py:118).
UserFeaturesAreOfThePast ==
    \A g \in groups :
        (\A r \in parts.train : r.user = g.user /\ r.at = g.at => r.item = g.item)
            => \E s \in TimeOrders(Earlier(g)) : \A i \in DOMAIN g.rows :
                g.rows[i].features.user =
                    UserFeatures(StateAfter(s, g.at), i, {r.item : r \in Earlier(g)})

\* The negatives of a group are titles the user had not rated before, even if
\* the positives are few or the cap is reached in between, and there are as
\* many as asked for unless the catalog has no more (dataset.py, unseen).
NegativesAreUnobserved ==
    \A g \in groups :
        LET negative == {i \in DOMAIN g.rows : g.rows[i].label = 0}
            rated    == {r.item : r \in Earlier(g)}
        IN  /\ DOMAIN g.rows = negative \cup {g.item} /\ g.item \notin negative
            /\ negative \cap rated = {}
            /\ Cardinality(negative) < Negatives =>
                \A i \in Item \ DOMAIN g.rows :
                    \E r \in parts.train : r.user = g.user /\ r.item = i /\ r.at <= g.at

\* The state an evaluated user is ranked with is made of all of the user's
\* train events and of nothing later, in any window and of any type, although
\* every one of the user's ratings is known by then (evaluate.py:117, "no test
\* leakage").
EvaluationIsBlind ==
    \A u \in User :
        evaluated[u] # NoState =>
            LET mine == {r \in parts.train : r.user = u} IN
            /\ evaluated[u].count = Cardinality(mine)
            /\ evaluated[u].interacted = {r.item : r \in mine}
            /\ evaluated[u].interacted \cap Relevant(u) = {}
            /\ \A w \in Window, t \in CountedType :
                evaluated[u].counts[<<w, t>>] <=
                    Cardinality({r \in mine : /\ EventOf(r).type = t
                                             /\ r.at >= evaluated[u].updatedAt - w})

\* docs/TRAINING_SERVING_PARITY.md:5: there are not two formulas for one
\* feature.  Of the same rows, some positive, a title's popularity and like
\* rate are computed by _item_stats for training and from compute_popularity
\* when serving.
OneFormulaPerFeature ==
    (phase = "split" /\ \E r \in parts.train : IsPositive(r)) =>
        \A i \in {r.item : r \in parts.train} :
            LET trained == TrainedStats(parts.train, i)
                served  == ServedStats(parts.train, i)
            IN  /\ SameRatio(trained.popularity, served.popularity)
                /\ SameRatio(trained.likeRate, served.likeRate)
=============================================================================
