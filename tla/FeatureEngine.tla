--------------------------- MODULE FeatureEngine ---------------------------
(***************************************************************************)
(* watchnext/features/engine.py: what one event does to one user's         *)
(* features.  Operators only; OnlineFeatures makes the steps.              *)
(*                                                                         *)
(* An engine is a record: the capped history and recent actions, running   *)
(* totals, the sets of liked, disliked and interacted items (the code's    *)
(* lists, without their order, which no computation reads) and the         *)
(* affinities, a function whose domain is the dict's keys.                 *)
(*                                                                         *)
(* Weights, sums and affinities are finite numbers in units of 1/Unit, a   *)
(* rating's value in units of 2/Unit.  An instance picks Unit so that no   *)
(* moving average of its runs loses a digit and Grid for the precision the *)
(* stored blob is rounded to (six decimals in the code); values and        *)
(* weights need not lie on the grid.                                       *)
(***************************************************************************)
EXTENDS Integers, Sequences, FiniteSets, Functions, SequencesExt

CONSTANTS
    Item, Category,
    HistoryCap,     \* HISTORY_CAP: records kept for the window counts
    RecentCap,      \* RECENT_ACTIONS_CAP
    Day, Week,      \* WINDOW_24H_SECONDS, WINDOW_7D_SECONDS
    Unit,           \* 1.0, of a weight or an affinity
    Grid,           \* the step of a stored sum, average or affinity
    NoValue         \* a rating without a value; no activity yet

ASSUME EngineAssumption ==
    /\ HistoryCap \in Nat \ {0} /\ RecentCap \in Nat \ {0}
    /\ Day \in Nat /\ Week \in Nat /\ Day <= Week
    /\ Unit \in Nat \ {0} /\ Grid \in Nat \ {0}
    /\ Unit % Grid = 0 /\ Unit % 10 = 0

EventType    == {"impression", "view", "like", "skip", "watch", "dislike", "rating"}
Positive     == {"like", "watch"}
Negative     == {"skip", "dislike"}
CountedType  == {"view", "like", "skip", "watch"}
Window       == {Day, Week}

\* Signed engagement; a rating's value may be any number, or absent.
Weight(event) ==
    CASE event.type = "impression" -> 0
      [] event.type = "view"       -> 4 * (Unit \div 10)
      [] event.type = "like"       -> Unit
      [] event.type = "watch"      -> 8 * (Unit \div 10)
      [] event.type = "skip"       -> -3 * (Unit \div 10)
      [] event.type = "dislike"    -> -Unit
      [] event.type = "rating"     ->
            IF event.value = NoValue THEN 0 ELSE event.value - 3 * (Unit \div 2)

FreshEngine ==
    [history |-> <<>>, recent |-> <<>>, count |-> 0, engagement |-> 0,
     liked |-> {}, disliked |-> {}, interacted |-> {}, affinity |-> <<>>]

-----------------------------------------------------------------------------
(* Affinities.                                                             *)

Affinity(aff, c) == IF c \in DOMAIN aff THEN aff[c] ELSE 0

\* One step of the moving average, alpha = 3/20.
Average(prev, weight) == (17 * prev + 3 * weight) \div 20

Unclipped(v) == v
Clip(v) == IF v > Unit THEN Unit ELSE IF v < -Unit THEN -Unit ELSE v

\* The categories of one item move towards a weight.
Blend(aff, cats, weight) ==
    [c \in DOMAIN aff \cup cats |->
        Clip(IF c \in cats THEN Average(Affinity(aff, c), weight) ELSE aff[c])]

\* The loop of seed_affinities_from_likes: a step per liked item that carries
\* the category.  All steps have a like's weight, so their order is immaterial.
SeedOf(liked, categoriesOf) ==
    LET carrying(c) == Cardinality({i \in liked : c \in categoriesOf[i]})
        after[n \in 0..Cardinality(liked)] ==
            IF n = 0 THEN 0 ELSE Average(after[n - 1], Unit)
    IN  [c \in UNION {categoriesOf[i] : i \in liked} |-> Clip(after[carrying(c)])]

\* Mutant: seeding left out.
Unseeded(engine, categoriesOf) == engine
Seeded(engine, categoriesOf) ==
    IF engine.affinity # <<>> \/ engine.liked = {}
    THEN engine
    ELSE [engine EXCEPT !.affinity = SeedOf(engine.liked, categoriesOf)]

-----------------------------------------------------------------------------
(* One event.                                                              *)

Newest(s, n) == IF Len(s) > n THEN SubSeq(s, Len(s) - n + 1, Len(s)) ELSE s

\* Mutant: a skip leaves the liked mark behind.
LikedLeftBehind(engine, event) ==
    IF event.type \in Positive THEN engine.liked \cup {event.item} ELSE engine.liked

\* The title stays in, joins or leaves the liked and the disliked items.
LikedAfter(engine, event) ==
    CASE event.type \in Positive -> engine.liked \cup {event.item}
      [] event.type \in Negative -> engine.liked \ {event.item}
      [] OTHER -> engine.liked

DislikedAfter(engine, event) ==
    CASE event.type \in Positive -> engine.disliked \ {event.item}
      [] event.type \in Negative -> engine.disliked \cup {event.item}
      [] OTHER -> engine.disliked

\* What history keeps of an event (its categories and weight are never read
\* back by a computation).
RecordOf(event) == [type |-> event.type, item |-> event.item, at |-> event.at]

\* FeatureEngine.apply without the final snapshot: impressions leave no trace.
Applied(engine, event, cats) ==
    IF event.type = "impression"
    THEN engine
    ELSE [history    |-> Newest(Append(engine.history, RecordOf(event)), HistoryCap),
          recent     |-> Newest(Append(engine.recent, RecordOf(event)), RecentCap),
          count      |-> engine.count + 1,
          engagement |-> engine.engagement + Weight(event),
          interacted |-> engine.interacted \cup {event.item},
          liked      |-> LikedAfter(engine, event),
          disliked   |-> DislikedAfter(engine, event),
          affinity   |-> IF Weight(event) # 0
                         THEN Blend(engine.affinity, cats, Weight(event))
                         ELSE engine.affinity]

-----------------------------------------------------------------------------
(* The snapshot.                                                           *)

\* Mutant: records from after the instant are counted too.
InWindowOpenEnded(record, asOf, window) == record.at >= asOf - window
InWindow(record, asOf, window) == record.at \in (asOf - window)..asOf

WindowCounts(history, asOf) ==
    [wt \in Window \X CountedType |->
        Cardinality({k \in DOMAIN history :
                        history[k].type = wt[2] /\ InWindow(history[k], asOf, wt[1])})]

\* Mutant: digits are cut off.
Truncated(v) == (v \div Grid) * Grid
\* round(v, 6); the tie rule does not matter to any property.
Rounded(v) == ((v + Grid \div 2) \div Grid) * Grid

\* round(total / count, 6), and 0.0 of nothing.
RoundedMean(total, count) ==
    IF count = 0 THEN 0
    ELSE ((2 * total + count * Grid) \div (2 * count * Grid)) * Grid

Snapshot(engine, asOf) ==
    [counts       |-> WindowCounts(engine.history, asOf),
     lastActivity |-> IF engine.history = <<>> THEN NoValue ELSE Last(engine.history).at,
     updatedAt    |-> asOf,
     count        |-> engine.count,
     engagement   |-> Rounded(engine.engagement),
     average      |-> RoundedMean(engine.engagement, engine.count),
     affinity     |-> [c \in DOMAIN engine.affinity |-> Rounded(engine.affinity[c])],
     liked        |-> engine.liked,
     disliked     |-> engine.disliked,
     interacted   |-> engine.interacted,
     recent       |-> engine.recent]

\* The engine the processor rebuilds from the two stored keys; its sum and its
\* affinities are the rounded ones.
EngineFrom(features, history) ==
    [history |-> history, recent |-> features.recent, count |-> features.count,
     engagement |-> features.engagement, liked |-> features.liked,
     disliked |-> features.disliked, interacted |-> features.interacted,
     affinity |-> features.affinity]

\* FeatureEngine.replay over pairs of an event and its categories.
Replayed(pairs) ==
    LET after[n \in 0..Len(pairs)] ==
            IF n = 0 THEN FreshEngine ELSE Applied(after[n - 1], pairs[n][1], pairs[n][2])
    IN  after[Len(pairs)]
=============================================================================
