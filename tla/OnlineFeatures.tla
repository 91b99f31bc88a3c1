--------------------------- MODULE OnlineFeatures ---------------------------
(***************************************************************************)
(* One user's features under the online processor                          *)
(* (watchnext/online/processor.py): every applied event rebuilds an engine *)
(* from the two keys, seeds it, applies the event at the wall clock and    *)
(* stores both keys.  Events carry the timestamp their client put on them, *)
(* late or ahead of the clock.  The processor knows the categories of the  *)
(* catalog its process loaded; a restart loads a larger one and backfills. *)
(* Interleaved and interrupted steps are EventPipeline's subject.          *)
(***************************************************************************)
EXTENDS FeatureEngine

CONSTANTS
    Type,           \* the event types of the run
    Value,          \* the values a rating may carry, in units of 2/Unit
    CategoriesOf,   \* CategoriesOf[i]: the genres the catalog gives i, once known
    MaxTime,        \* bound: the clock
    MaxEvents       \* bound: events applied

ASSUME OnlineAssumption ==
    /\ Type \subseteq EventType
    /\ Value \subseteq Int
    /\ CategoriesOf \in [Item -> SUBSET Category]
    /\ MaxTime \in Nat /\ MaxEvents \in Nat

VARIABLES
    features,   \* user:u:features, NoKey before the first event
    history,    \* user:u:history
    known,      \* the items the running process has categories for
    clock,      \* wall clock
    tape        \* the applied events and the categories each was applied with

vars == <<features, history, known, clock, tape>>

NoKey == <<>>

\* Clients put what they know of the title into the event's metadata.
ClientEvents ==
    {e \in [type : Type, item : Item, at : 0..MaxTime, value : Value \cup {NoValue},
            tags : {{}} \cup {CategoriesOf[i] : i \in Item}] :
        /\ e.type # "rating" => e.value = NoValue
        /\ e.tags \in {{}, CategoriesOf[e.item]}}

\* What the two keys hold: affinities stay within [-1, 1] whatever values ratings
\* carry and however often likes are seeded, which the ranking overlay assumes;
\* window counts and recent actions stay within their caps; and what is liked or
\* disliked was interacted with (engine.py).
TypeOK ==
    /\ features # NoKey =>
        /\ features.counts \in [Window \X CountedType -> 0..HistoryCap]
        /\ features.count \in Nat
        /\ features.engagement \in Int /\ features.average \in Int
        /\ DOMAIN features.affinity \subseteq Category
        /\ \A c \in DOMAIN features.affinity : features.affinity[c] \in -Unit..Unit
        /\ features.liked \cup features.disliked \subseteq features.interacted
        /\ features.interacted \subseteq Item
        /\ Len(features.recent) <= RecentCap
    /\ Len(history) <= HistoryCap
    /\ known \subseteq Item
    /\ clock \in 0..MaxTime
    /\ Len(tape) <= MaxEvents

Init ==
    /\ features = NoKey
    /\ history = <<>>
    /\ known \in SUBSET Item
    /\ clock = 0
    /\ tape = <<>>

\* item_categories of the running process.
Catalog == [i \in Item |-> IF i \in known THEN CategoriesOf[i] ELSE {}]

\* _categories_for: the catalog's categories, else those of the metadata.
CategoriesFor(event) ==
    IF Catalog[event.item] # {} THEN Catalog[event.item] ELSE event.tags

Loaded ==
    IF features = NoKey
    THEN [FreshEngine EXCEPT !.history = history]
    ELSE EngineFrom(features, history)

\* process_event and _apply for an event whose claim succeeded.
Process(event) ==
    LET cats   == CategoriesFor(event)
        engine == Applied(Seeded(Loaded, Catalog), event, cats)
    IN  /\ Len(tape) < MaxEvents
        /\ features' = Snapshot(engine, clock)
        /\ history' = engine.history
        /\ tape' = Append(tape, <<event, cats>>)
        /\ UNCHANGED <<known, clock>>

\* backfill_user_affinities: only the affinities of the blob change.
Backfilled ==
    LET engine == [FreshEngine EXCEPT !.liked = features.liked]
        seeded == Seeded(engine, Catalog').affinity
    IN  IF features.affinity = <<>> /\ features.liked # {} /\ seeded # <<>>
        THEN [features EXCEPT
                !.affinity = [c \in DOMAIN seeded |-> Rounded(seeded[c])]]
        ELSE features

\* The consumer restarts with a catalog that has learned some items.  The
\* backfill of a user may fail, and is then skipped.
Restart(learned) ==
    /\ learned # {}
    /\ known' = known \cup learned
    /\ features' \in {features} \cup (IF features = NoKey THEN {} ELSE {Backfilled})
    /\ UNCHANGED <<history, clock, tape>>

Tick ==
    /\ clock < MaxTime
    /\ clock' = clock + 1
    /\ UNCHANGED <<features, history, known, tape>>

Next ==
    \/ \E event \in ClientEvents : Process(event)
    \/ \E learned \in SUBSET (Item \ known) : Restart(learned)
    \/ Tick

Spec == Init /\ [][Next]_vars
-----------------------------------------------------------------------------
(* What must hold.                                                         *)

\* The applied events that are not impressions: what the features are about.
Signals == {k \in DOMAIN tape : tape[k][1].type # "impression"}

\* The last signal of taste applied for i has a type in S.
LastSignalIn(i, S) ==
    \E k \in DOMAIN tape :
        /\ tape[k][1].item = i /\ tape[k][1].type \in S
        /\ \A j \in DOMAIN tape :
            (j > k /\ tape[j][1].item = i) => tape[j][1].type \notin Positive \cup Negative

\* A title is liked exactly if the last signal of taste applied for it was
\* positive, and disliked exactly if it was negative, over any sequence of
\* likes, watches, skips and dislikes and the round trips through the blob
\* (engine.py, apply; the retrieval excludes and boosts titles by these sets).
LastSignalWins ==
    features # NoKey =>
        \A i \in Item :
            /\ i \in features.liked <=> LastSignalIn(i, Positive)
            /\ i \in features.disliked <=> LastSignalIn(i, Negative)

\* The window counts of the blob never exceed the events that were applied in
\* the window, and they fall short only when the capped history is full, be
\* the timestamps late, ahead of the clock or out of order (engine.py,
\* _count_windows over the capped history).
WindowsExactBelowCap ==
    features # NoKey =>
        \A w \in Window, t \in CountedType :
            LET true == Cardinality({k \in DOMAIN tape :
                            /\ tape[k][1].type = t
                            /\ tape[k][1].at <= features.updatedAt
                            /\ tape[k][1].at >= features.updatedAt - w})
            IN  /\ features.counts[<<w, t>>] <= true
                /\ features.counts[<<w, t>>] < true => Cardinality(Signals) > HistoryCap

\* Distance between two numbers.
Gap(a, b) == IF a > b THEN a - b ELSE b - a

\* Serving and training agree: as long as every event was applied with the
\* categories the catalog gives its title, the stored features are those of
\* one offline engine fed the same events.  What the blob rounds and the next
\* event starts from, the engagement and the affinities, drifts by half a
\* rounding per event at most, and the average engagement by its share of that
\* and a rounding of its own.  Neither the round trips through Redis nor the
\* seeding nor a backfill counts anything twice (processor.py, _apply and
\* backfill_user_affinities; engine.py, snapshot and from_state;
\* ranking/dataset.py feeds one engine).
ServingMatchesTraining ==
    (features # NoKey /\ \A k \in DOMAIN tape : tape[k][2] = CategoriesOf[tape[k][1].item])
        => LET offline == Replayed(tape)
               trained == Snapshot(offline, features.updatedAt)
           IN  /\ features.counts = trained.counts
               /\ features.count = trained.count
               /\ features.liked = trained.liked
               /\ features.disliked = trained.disliked
               /\ features.interacted = trained.interacted
               /\ 2 * Gap(features.engagement, offline.engagement) <= Len(tape) * Grid
               /\ features.count # 0 =>
                    2 * Gap(features.count * features.average, offline.engagement)
                        <= (Len(tape) + features.count) * Grid
               /\ DOMAIN features.affinity = DOMAIN trained.affinity
               /\ \A c \in DOMAIN features.affinity :
                    2 * Gap(features.affinity[c], offline.affinity[c]) <= Len(tape) * Grid

\* Likes of titles the catalog did not know are not lost to the affinities:
\* once an event is processed by a process that knows the genres of a title
\* liked before, the blob has affinities (processor.py, the seeding in _apply).
KnownLikesCount ==
    [][(/\ tape' # tape
        /\ features # NoKey
        /\ \E i \in features.liked : Catalog[i] # {})
            => features'.affinity # <<>>]_vars
=============================================================================
