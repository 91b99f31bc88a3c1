------------------------------ MODULE Serving ------------------------------
(***************************************************************************)
(* GET /v1/recommendations/{user}: internal/recommendation/orchestrator.go *)
(* (Recommend), filter.go and the Redis reads of internal/features.        *)
(*                                                                         *)
(* A request reads the user's features, asks the ML service for candidates *)
(* and, in the treatment arm, for their ranking; every call has a deadline *)
(* and may fail on its own, and a failed call degrades the response and    *)
(* never the request.  The user goes on judging titles while a request is  *)
(* under way.  Requests share nothing but the stored features.             *)
(*                                                                         *)
(* Scores and affinities are small integers.  Impressions, the shadow      *)
(* ranking, metrics and the debug payload do not touch the response and    *)
(* are left out.                                                           *)
(***************************************************************************)
EXTENDS Integers, Sequences, FiniteSets, FiniteSetsExt

CONSTANTS
    Request,        \* request ids
    Item, Category,
    CategoriesOf,   \* CategoriesOf[i]: the genres the catalog gives i
    NoGenre,        \* no genre in the query
    Retrieved,      \* the candidate lists the ML service may answer with
    Cached,         \* the ids of fallback:popularity, <<>> without the key
    RankerScore,    \* the scores the ranker gives
    OverlayWeight,  \* weight of the affinity overlay
    Limit,          \* length of the feed
    MaxJudged       \* bound: judgements

ASSUME ServingAssumption ==
    /\ CategoriesOf \in [Item -> SUBSET Category]
    /\ IsFiniteSet(Category) /\ NoGenre \notin Category
    /\ Retrieved \subseteq Seq(Item \X Int)
    /\ Cached \in Seq(Item)
    /\ RankerScore \subseteq Int
    /\ OverlayWeight \in Nat
    /\ Limit \in Nat \ {0}
    /\ MaxJudged \in Nat

VARIABLES
    stored,     \* the features of the user, Unknown before the first event is folded
    judged,     \* how often the user judged a title
    req         \* req[r]: where request r is and what it has so far

vars == <<stored, judged, req>>

Variant == {"control", "treatment"}
\* UserFeatures of a user without a key, or without Redis.  Its slices are
\* nil, which encodes to JSON null.
Unknown == [liked |-> {}, disliked |-> {}, affinity |-> [c \in Category |-> 0], nil |-> TRUE]

Blank ==
    [stage |-> "new", variant |-> "control", genre |-> NoGenre, feats |-> Unknown,
     cands |-> <<>>, ranked |-> <<>>, useRanker |-> FALSE, reason |-> "none",
     feed |-> <<>>,
     failed |-> {}, before |-> {}]      \* what happened: failed calls, titles judged before

Init ==
    /\ stored = Unknown
    /\ judged = 0
    /\ req = [r \in Request |-> Blank]

-----------------------------------------------------------------------------
(* The feature path, seen from here: a like or a skip reaches the blob.    *)

Clipped(v) == IF v > 2 THEN 2 ELSE IF v < -2 THEN -2 ELSE v

Judge(i, liked) ==
    LET move == IF liked THEN 2 ELSE -2
    IN  /\ judged < MaxJudged
        /\ judged' = judged + 1
        /\ stored' =
            [liked    |-> IF liked THEN stored.liked \cup {i} ELSE stored.liked \ {i},
             disliked |-> IF liked THEN stored.disliked \ {i} ELSE stored.disliked \cup {i},
             affinity |-> [c \in Category |->
                            IF c \in CategoriesOf[i] THEN Clipped(stored.affinity[c] + move)
                            ELSE stored.affinity[c]],
             nil      |-> FALSE]
        /\ UNCHANGED req

-----------------------------------------------------------------------------
(* Lists.                                                                  *)

\* The elements of s at the positions K, in order.
Subsequence(s, K) ==
    [p \in 1..Cardinality(K) |-> s[CHOOSE k \in K : Cardinality({j \in K : j < k}) = p - 1]]

\* sort.SliceStable, highest score first.
Sorted(s) ==
    LET ahead(k) == {j \in DOMAIN s :
                        \/ s[j].score > s[k].score
                        \/ s[j].score = s[k].score /\ j < k}
    IN  [p \in DOMAIN s |-> s[CHOOSE k \in DOMAIN s : Cardinality(ahead(k)) = p - 1]]

\* RankedFromCandidates, on an item and its retrieval score.
RankedFrom(cands) ==
    [k \in DOMAIN cands |->
        [item |-> cands[k].item, cats |-> cands[k].cats,
         retrieval |-> cands[k].score, score |-> cands[k].score]]

\* The sum of the affinities of some genres, each between -2 and 2: how many
\* units they are above zero, less how many they are below.
Total(aff, cats) ==
    Cardinality({u \in cats \X (1..2) : u[2] <= aff[u[1]]})
        - Cardinality({u \in cats \X (1..2) : u[2] <= -aff[u[1]]})

\* ApplyAffinityOverlay: the mean affinity of a title's genres is mixed in.
Mean(aff, cats) == (OverlayWeight * Total(aff, cats)) \div Cardinality(cats)

Overlaid(s, feats) ==
    Sorted([k \in DOMAIN s |->
        IF s[k].cats = {}
        THEN s[k]
        ELSE [s[k] EXCEPT !.score = @ + Mean(feats.affinity, s[k].cats)]])

\* Mutant: only the disliked titles are excluded.
DislikedSet(feats) == feats.disliked
ExcludeSet(feats) == feats.liked \cup feats.disliked

\* Filter: first occurrences of what is not excluded.
Filter(s, excluded) ==
    Subsequence(s, {k \in DOMAIN s :
        /\ s[k].item \notin excluded
        /\ \A j \in 1..(k - 1) : s[j].item # s[k].item})

FilterByGenre(s, genre) ==
    IF genre = NoGenre THEN s
    ELSE Subsequence(s, {k \in DOMAIN s : genre \in s[k].cats})

FirstOf(s, n) == SubSeq(s, 1, Min({n, Len(s)}))

-----------------------------------------------------------------------------
(* One request.                                                            *)

Fallback(q, reason) == [q EXCEPT !.reason = reason]
Degraded(q) == q.reason # "none"

Judged(blob) == blob.liked \cup blob.disliked

Arrive(r, variant, genre) ==
    /\ req[r].stage = "new"
    /\ req' = [req EXCEPT ![r] =
                [@ EXCEPT !.stage = "features", !.variant = variant, !.genre = genre,
                          !.before = Judged(stored)]]
    /\ UNCHANGED <<stored, judged>>

WithFeatures(q, feats) == [q EXCEPT !.stage = "candidates", !.feats = feats]
WithoutFeatures(q) ==
    [Fallback(q, "redis_unavailable") EXCEPT
        !.stage = "candidates", !.feats = Unknown, !.failed = @ \cup {"features"}]

\* lookupFeatures.
LookupFeatures(r) ==
    /\ req[r].stage = "features"
    /\ \/ req' = [req EXCEPT ![r] = WithFeatures(@, stored)]
       \/ req' = [req EXCEPT ![r] = WithoutFeatures(@)]
    /\ UNCHANGED <<stored, judged>>

\* Mutant: the switch to the cached list is not reported.
SilentlyCached(q) == [q EXCEPT !.stage = "cached"]
\* No candidates, by failure or because there are none: use the cached list.
GoCached(q) == [Fallback(q, "candidate_service_unavailable") EXCEPT !.stage = "cached"]

WithoutRetrieval(q) == [GoCached(q) EXCEPT !.failed = @ \cup {"candidates"}]

WithCandidates(q, cands) ==
    IF cands = <<>> THEN GoCached(q) ELSE [q EXCEPT !.stage = "rank", !.cands = cands]

\* A candidate carries the genres of the catalog.
Described(list) ==
    [k \in DOMAIN list |->
        [item |-> list[k][1], score |-> list[k][2], cats |-> CategoriesOf[list[k][1]]]]

\* lookupCandidates.
LookupCandidates(r) ==
    /\ req[r].stage = "candidates"
    /\ \/ \E list \in Retrieved :
            req' = [req EXCEPT ![r] = WithCandidates(@, Described(list))]
       \/ req' = [req EXCEPT ![r] = WithoutRetrieval(@)]
    /\ UNCHANGED <<stored, judged>>

\* Store.FallbackCandidates: the cached ids, by rank, without genres; nothing
\* when Redis fails.
CachedCandidates ==
    [k \in DOMAIN Cached |->
        [item |-> Cached[k], score |-> Len(Cached) - k + 1, cats |-> {}]]

LookupCached(r) ==
    /\ req[r].stage = "cached"
    /\ \E cands \in {<<>>, CachedCandidates} :
        req' = [req EXCEPT ![r] = [@ EXCEPT !.stage = "rank", !.cands = cands]]
    /\ UNCHANGED <<stored, judged>>

AskRanker(q) == q.variant = "treatment" /\ ~Degraded(q) /\ q.cands # <<>>

\* The ML service decodes the features of the request: a null list raises,
\* and the call ends in a 500.
Decodes(feats) == ~feats.nil

\* The ranker's answer: the candidates with scores, best first.
RankerLists(cands) ==
    {Sorted([k \in DOMAIN cands |->
        [item |-> cands[k].item, cats |-> cands[k].cats,
         retrieval |-> cands[k].score, score |-> scores[k]]]) :
            scores \in [DOMAIN cands -> RankerScore]}

\* The ranking stage; without the ranker the retrieval scores stand, which
\* the control arm sorts.
Rank(r) ==
    LET q      == req[r]
        plain  == RankedFrom(q.cands)
        failed == [Fallback(q, "ranker_unavailable") EXCEPT !.stage = "respond", !.ranked = plain]
    IN  /\ q.stage = "rank"
        /\ \/ /\ AskRanker(q) /\ Decodes(q.feats)
              /\ \E list \in RankerLists(q.cands) :
                    req' = [req EXCEPT ![r] =
                        [q EXCEPT !.stage = "respond", !.ranked = list, !.useRanker = TRUE]]
           \/ /\ AskRanker(q) /\ ~Decodes(q.feats)
              /\ req' = [req EXCEPT ![r] = failed]
           \/ /\ AskRanker(q)
              /\ req' = [req EXCEPT ![r] = [failed EXCEPT !.failed = @ \cup {"rank"}]]
           \/ /\ ~AskRanker(q)
              /\ req' = [req EXCEPT ![r] =
                    [q EXCEPT !.stage = "respond",
                              !.ranked = IF q.variant = "control" THEN Sorted(plain) ELSE plain]]
        /\ UNCHANGED <<stored, judged>>

\* Mutant: the list is cut before it is filtered.
CutFirst(q) ==
    FilterByGenre(Filter(FirstOf(Overlaid(q.ranked, q.feats), Limit), ExcludeSet(q.feats)), q.genre)
\* Overlay, filters and ToItems.
Feed(q) ==
    FirstOf(FilterByGenre(Filter(Overlaid(q.ranked, q.feats), ExcludeSet(q.feats)), q.genre), Limit)

Respond(r) ==
    /\ req[r].stage = "respond"
    /\ req' = [req EXCEPT ![r] = [@ EXCEPT !.stage = "done", !.feed = Feed(req[r])]]
    /\ UNCHANGED <<stored, judged>>

-----------------------------------------------------------------------------
Advance(r) ==
    \/ LookupFeatures(r) \/ LookupCandidates(r) \/ LookupCached(r)
    \/ Rank(r) \/ Respond(r)

Next ==
    \/ \E i \in Item, liked \in BOOLEAN : Judge(i, liked)
    \/ \E r \in Request :
        \/ \E variant \in Variant, genre \in Category \cup {NoGenre} : Arrive(r, variant, genre)
        \/ Advance(r)

Spec == Init /\ [][Next]_vars
-----------------------------------------------------------------------------
(* What must hold.                                                           *)

Done(r) == req[r].stage = "done"

\* Whatever else fails, a feed built with the user's features repeats no title
\* and shows none the user had liked or skipped before asking (orchestrator.go
\* and filter.go; README: the bill is for what to watch next).
JudgedStaysOut ==
    \A r \in Request :
        LET feed == req[r].feed IN
        Done(r) =>
            /\ \A j, k \in DOMAIN feed : j # k => feed[j].item # feed[k].item
            /\ "features" \notin req[r].failed =>
                    \A k \in DOMAIN feed : feed[k].item \notin req[r].before

\* A response is flagged whenever a call failed on the way, and the flag names
\* a dependency that did fail or had nothing to give (orchestrator.go,
\* fallback; a later fallback overwrites the reason of an earlier one).
DegradationIsFlagged ==
    \A r \in Request :
        Done(r) =>
            /\ req[r].failed # {} => Degraded(req[r])
            /\ req[r].reason = "redis_unavailable" => "features" \in req[r].failed
            /\ req[r].reason = "ranker_unavailable" =>
                    "rank" \in req[r].failed \/ ~Decodes(req[r].feats)

\* The score a position of the ranked list ends up with: in the control arm and
\* in a flagged response the ranker has no part in it.
FinalScore(q, k) ==
    LET entry == q.ranked[k]
        base  == IF q.variant = "control" \/ Degraded(q) THEN entry.retrieval ELSE entry.score
    IN  IF entry.cats = {} THEN base ELSE base + Mean(q.feats.affinity, entry.cats)

\* The feed is the best of what is eligible, by scores the arm allows: it is
\* sorted, every title on it has its final score, and a title that is left out
\* although it is neither excluded nor of another genre is beaten by everything
\* on a feed that is full (useRanker, and the order of overlay, filter, genre
\* filter and cut in Recommend).
FeedIsBestOfEligible ==
    \A r \in Request :
        LET q == req[r] IN
        Done(r) =>
            /\ Len(q.feed) <= Limit
            /\ \A j, k \in DOMAIN q.feed : j < k => q.feed[j].score >= q.feed[k].score
            /\ \A j \in DOMAIN q.feed : \E k \in DOMAIN q.ranked :
                q.feed[j].item = q.ranked[k].item /\ q.feed[j].score = FinalScore(q, k)
            /\ \A k \in DOMAIN q.ranked :
                (/\ q.ranked[k].item \notin ExcludeSet(q.feats)
                 /\ q.genre = NoGenre \/ q.genre \in q.ranked[k].cats)
                    => \/ \E j \in DOMAIN q.feed : q.feed[j].item = q.ranked[k].item
                       \/ /\ Len(q.feed) = Limit
                          /\ \A j \in DOMAIN q.feed : q.feed[j].score >= FinalScore(q, k)

\* docs/EXPERIMENTATION.md:8: a user of the treatment arm gets the ranker's
\* order, if retrieval has candidates and no call fails.  For a user without
\* features the ML service fails to decode the request.
TreatmentIsRanked ==
    \A r \in Request :
        (Done(r) /\ req[r].variant = "treatment" /\ req[r].failed = {} /\ req[r].ranked # <<>>
            /\ req[r].reason # "candidate_service_unavailable")
                => req[r].useRanker
=============================================================================
