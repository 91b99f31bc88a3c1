# WatchNext in TLA+

A verification project for WatchNext: the path of an interaction event from the
API to a user's online features, the features themselves, the path of a
recommendation request back to the page, the catalog with its files and its
search, and the training lists. The modules are translated from the Python, Go and
TypeScript sources; `PROJECT.json` maps every definition to the lines it models.

## 1. The system

    browser (web/)  --POST event-->  recommendation API (Go)  --publish-->  Redpanda topic
        ^  ^                              |        |                            |
        |  |                              |        | INLINE_FEATURES            v
        |  +--poll features---------------+        +---> ML service (Python)  feature consumer (Python)
        |                                 |                  |   ^                |
        +----recommendations--------------+------------------+   |                |
                                          |                      +-- Redis -------+
                                          +--- reads user:u:features, fallback:popularity

| component | source | state | operations |
|---|---|---|---|
| event intake | `internal/api/server.go` (postEvent), `internal/events` | none of its own | decode, fill defaults, validate, publish with a deadline |
| topic and group | Redpanda (external) | log, committed offset, owner of the partition | append, assign, evict, commit |
| feature consumer | `services/feature_consumer/consumer.py` | loop position, categories loaded at startup | backfill, fetch, dead-letter, commit |
| feature processor | `watchnext/online/processor.py` | none; Redis keys `processed_event:e`, `user:u:features`, `user:u:history` | claim, read both keys, apply, write both keys, backfill |
| feature engine | `watchnext/features/engine.py` | totals, history, liked/disliked, affinities | apply, seed, snapshot, replay |
| orchestrator | `internal/recommendation` | one request's partial results | features, candidates, cached candidates, ranking, overlay, filters, cut |
| ML service | `services/ml_service/app.py` | catalog and models in memory, its own processors | candidates, rank, ingest, catalog pages, refresh |
| catalog | `watchnext/catalog`, `scripts/refresh_catalog.py` | two dumps, a parquet file and its metadata; in-memory items | download, build, merge, refresh, reload at a start, search |
| web client, judging | `web/app`, `web/lib/api.ts` | what the page shows, pending taps | tap, post, poll, confirm or roll back |
| web client, tonight's bill | `web/lib/bill.ts`, `web/app/page.tsx` | none | mix the response with popular titles |
| web client, finding a movie | `web/app/browse/page.tsx` | filters, search field, address, list, loads under way | type, submit, pick, navigate, load, load more |
| training | `watchnext/datasets`, `watchnext/ranking`, `scripts/` | files | temporal split, ranking lists, state of evaluated users |

Interactions: the API and the consumer share nothing but the topic and Redis;
the ML service is called over HTTP with deadlines and keeps no session; the
browser learns that an event was folded only by polling the features' time of
last update. Redis has no transactions around the two keys of a user: the claim
(`SET NX`), the two reads and the two writes are five separate calls.

What is hard: a crash or a failed call between any two of those calls; a record
delivered again after the commit was lost; a consumer that was evicted from its
group while it works and its successor; the expiry of the deduplication key;
timestamps that clients choose; the capped history; independent failures of the
calls behind one recommendation; features that change while a request is under
way; a deadline that expires although the call behind it succeeded; files that are
written in place by writers who know nothing of each other; filters that a page
keeps twice and loads it never cancels; ties in time at a cut or within a user.
`PROJECT.json` lists these hazards at their lines, each with the properties that
would catch it. One has none, the age of the window counts when they are served:
nothing in the repository promises how old they may be.

What makes each component correct:

- *intake*: an acknowledged event is in the log; a tap counts once while the key of its
  id lives.
- *consumer and processor*: an event counts at most once per claim; what a crash
  loses is bounded; the log's order is kept; nothing is committed unhandled; the
  topic drains.
- *engine*: taste sets follow the last signal; window counts are right below the
  cap; affinities stay in range; serving equals training.
- *orchestrator*: judged titles stay out of the feed; degradation is reported;
  the feed is the best of what is eligible; arms do not leak.
- *retrieval*: no title twice, none that was excluded but to fill up a genre, never
  more than asked for; a short answer leaves nothing out; new titles get their
  share.
- *catalog*: a film keeps its id; what refreshes brought in is served, also after a
  restart; a failed refresh leaves the files as they were; the service can start.
- *client*: a confirmed tap is in the features; no mark without an event; every tap
  ends; a bill repeats nothing and shares its places; a list is a beginning of what
  was asked for; field, filters and address agree.
- *training*: what a row knows of its user is of the past; the split keeps time and loses nothing;
  negatives are titles not seen before; the evaluation is blind to what it predicts.

## 2. Modules

| module | models | composed with |
|---|---|---|
| `FeatureLedger` | abstract: what the event path promises about the features | refined by `EventPipeline` |
| `EventPipeline` | broker, consumer group, consumer, the processor's five Redis calls | instantiates `FeatureLedger` |
| `FeatureEngine` | operators: weights, blending, seeding, windows, snapshot, replay | |
| `OnlineFeatures` | what one event does to the two stored keys, backfill at a restart | extends `FeatureEngine` |
| `EventIntake` | `POST /v1/events`, the Kafka writer, inline ingestion on threads | |
| `Serving` | `GET /v1/recommendations/{user}`, Redis and ML calls, overlay, filters | |
| `CatalogRefresh` | the catalog of the ML service under overlapping refreshes | |
| `CandidateService` | `POST /internal/candidates` under refreshes | extends `CatalogRefresh` |
| `TonightBill` | operators: the bill mixed from a response and popular titles | extends `Serving` |
| `CatalogFiles` | dumps, parquet file and metadata under refreshes, kills, restarts | |
| `CatalogBrowser` | the browse page over the catalog's search | |
| `TicketClient` | tap, post, poll, confirm, roll back, loads of the web pages | |
| `TrainingLists` | ratings, temporal split, groups of the ranker, evaluated users | extends `FeatureEngine` |
| `MC*` | instances for TLC | |
| `*_proof` | theorems | each extends its component; `Serving_proof` extends `TonightBill`, `WebClient_proof` both modules of the web client |

**EventPipeline.** One action per call to Redis or to the broker. `Start`,
`ScanUser`, `BackfillUser` and `Join` are the start of `consumer.py` (backfill of
affinities, then `consumer.start()`); `Fetch`, `DeadLetter` and `Commit` its loop;
`Claim` (`SET NX EX`), `ReadFeats`, `ReadHist`, `WriteFeats`, `WriteHist` are
`processor.py`. An exception of any call leaves the loop and ends the process
(`consumer.py:130`), as a kill does: `Crash`. A commit by a member that lost the
partition is refused and ends the process, too. The content of a key is the
sequence of grants folded into it; a *grant* is an event id with the number of
times its `processed_event` key had expired when it was claimed. With this, "an
event counts at most once per deduplication window" is "no grant occurs twice".
A fold writes what it read with one grant more, so that a lost update, a partial
write and a stale backfill all show.

**FeatureLedger** has no brokers, processes or keys: an offered event is appended
to its user's ledger, at most once per grant. `EventPipeline` with one process
implements it with `offered <- Range(log)` and `ledger <- feats`. With two
processes it does not, and is not claimed to: an evicted process and its successor
may overwrite each other's folds. What remains true of a group is `NoDoubleCount`,
`CommittedIsHandled` and `CommitNeverRegresses`.

**FeatureEngine, OnlineFeatures.** `Process` is one event after its claim: load
the engine from the two keys, seed affinities from old likes, apply, take the
snapshot, store both. Weights, engagement and affinities are integers in units of
1/`Unit`, a rating's value in units of 2/`Unit`; `Grid` is the sixth digit to which the
snapshot rounds the engagement, its average and the affinities, made coarse so that
rounding shows in three events. What was rounded is what the next event is added to. The
numbers are finite, and exact but for this rounding: the last bits of IEEE arithmetic are
left out. `Restart` is a process that knows the genres of more titles, with its
backfill, which may fail and is then skipped. `Replayed` is the offline engine
that `ranking/dataset.py` feeds; it is the reference for what is stored.

**EventIntake.** `Receive` is all of `postEvent` up to the publisher: decoding,
defaults, the server's id, `Validate` (`GoValid`). Behind it is either the Kafka
writer, external, which may write, repeat, lose the acknowledgement or drop, and
goes on when its caller gave up (`Land`, `Ack`, `Drop`, `GiveUp`), or a thread of
the ML service which takes the steps of the processor one Redis command at a time
(`Parse` with `PyValid`, `Claim`, the reads, the writes). `inline` is chosen in
`Init`: one run checks both deployments. `Expire` is the end of a key's time to live
(`processor.py:61`), at any moment after the claim, also while its fold is under way. As in
`EventPipeline`, the keys of a user hold grants, and an id counts at most once per grant;
after an expiry a repeated post applies it again, as `docs/EVENT_PIPELINE.md:31` says. An
id that two users send counts under one key for the first of them only, since the
deduplication key knows no users; the properties say so.

**Serving.** One request is `Arrive`, `LookupFeatures`, `LookupCandidates`,
`LookupCached`, `Rank`, `Respond`; each call answers or fails. `Judge` changes the
stored features between any two of them. Scores are small integers, lists of
candidates a constant of the run, the ranker's scores arbitrary.

**CatalogRefresh, CandidateService.** A refresh is a thread: `Download`, `Index`
(the two dictionaries of `merge_imdb_into_items`), `MergeRow` per row, `Scale`,
`Build` (computing `STATE.catalog`), `Assign`; `Fail` anywhere is the 502, which
undoes nothing. `items` is a sequence because a dictionary keeps the order of
insertion, on which the sort of equal rows depends. Iterating a dictionary that
another thread grows raises, so an iteration is one step or a `Fail`. A request is
`Retrieve` (ALS and popularity, merge, description), `Blend` (first read of
`STATE.catalog`) and, for a genre that is not full, `FillByGenre` (second read).
`Woven` computes what the loop of `blend_live_catalog` does as a function of the
turn; a filter or a sort of a list is a choice of positions (`Subsequence`, the rank of
each row), which is what can be reasoned about. A title stands for its canonical form; the titles' parsing is left out.

**TonightBill** has no state: `ForYou` is `loadForYou` with `mixTonightBill` as a
function of a finished request of `Serving`, of whether its titles carry their
popularity, of the catalog's popular titles and of what the page shows already.
`AllTurns` is the loop, a recursive function of the turn. Its properties are checked in every state in which a request is done, so that the
responses are those the orchestrator can give.

**CatalogFiles.** What `refresh_imdb_parquet` does to the disk, one step per opening,
closing or renaming of a file. A file that is open is torn; closed by its last writer
it is whole if all of them wrote the same. Jobs are calls of the refresh endpoint and
runs of the script; `Break` ends one anywhere, `Crash` all that live in the service,
`Start` is `_load`. A frame is known by the days of its dumps or the years of
Wikidata, and `CatalogRefresh` says what becomes of its rows. `mishaps` records what
the properties excuse (two jobs downloading one dump, two writing the parquet file,
one cut off while it writes); `lone` says that a job had no company. Neither guards an
action.

**CatalogBrowser.** The page's four filters are in its state and in its address.
`BrowserInit` is the page on an address, with its first load. `Choose` is what every
change of a filter does: the navigation of one effect and the first page of another. `Commit` is the end of a navigation, which overwrites the state
if the address has changed, the field included. `Debounce` is the timer of the field.
`Result` is `search_catalog` as a function, once per catalog and filter; `PageArrives`
takes an answer from any catalog the service had since the question, `PageFails` none;
both leave the page's `offset` where the code does. The ghosts `wanted` and
`hasty` follow what the user chose, `calm` and `since` whether loads overlapped or the
catalog was replaced.

**TrainingLists.** `Rate` builds the raw table, `Prepare` is `prepare_data.py` (the
quantiles, the split, its guard), `Sample`, `NextUser` and `Walk` are
`build_training_lists`, one row a step, `Evaluate` the state `evaluate.py` ranks a user
with. Rows of one instant come in any order, because the sorts are not stable. Negatives
are any sample of the right size. The walk applies the operators of `FeatureEngine`
that `OnlineFeatures` applies online. `stats` is the local of `build_training_lists` of that
name, computed once over the rows of the sampled users. A row has the source and the rank
the group gives it, the statistics of its title and what it knows of the user.

**TicketClient.** A tab is a page and the state of its `act()`: `Tap`, `Read` (the
stamp to beat), `Post`, `Confirm`, `TimeOut`; `Ask`, `Arrive`, `LoadFails` are its
loads. `Fold` and `Lose` stand for everything behind the API. The ghost fields
`alone`, `saved` and `past` are written and never read by an action's guard; they
say what the properties compare.

## 3. Runs

TLC explores every run to the end. `CHECK_DEADLOCK FALSE` is in every configuration:
the environment's inputs (records, posts, taps, requests, refreshes) are bounded,
and once they are used up the system rightly stops.

| run | bounds | distinct states |
|---|---|---|
| `pipeline_single` | 1 process, 2 events of one user, 1 poison record, log of 3, 2 crashes, 1 eviction, 1 expiry per key | 138 000 |
| `pipeline_group` | 2 processes, the same events, log of 3, 1 crash, 1 eviction, 1 expiry per key | 1 480 000 |
| `features` | history cap 2; either 3 signals of 6 types at one instant, 2 titles that share a genre, ratings 0.98 and 10.02, every set of known titles; or 4 events of 3 types, 1 title, clock 0..3, windows 1 and 2 | 491 000 |
| `intake` | 3 posts of 14 bodies, log of 3, 1 expiry per key, both deployments | 2 080 000 |
| `serving_feed` | 1 request, both arms, 3 titles, 4 candidate lists, feed of 2, 3 judgements; bills of 3 from 2 lists of popular titles | 269 000 |
| `candidates` | 2 refreshes with either of 2 frames, 3 MovieLens titles, 1 request, k = 3 | 273 000 |
| `catalog_files` | 1 refresh of the service and 1 of the script, 2 days of dumps, 1 year, 1 crash | 231 000 |
| `catalog_browse` | 4 titles, 5 after a refresh, 1 genre, 3 orders, 2 ranges, pages of 1, 3 acts, 2 loads under way | 250 000 |
| `ticket` | lobby with 2 taps, or with 1 beside Watch next or a title with 1; 1 load per tab, 1 lost event | 118 000 |
| `training_lists` | 2 users, 3 titles, up to 6 ratings, ties; fractions 50 and 25, 1 negative, 2 positives per user | 155 000 |
| `serving_new_user`, `training_skew` | the instances of `serving_feed` and `training_lists` | until the violation |

What they show:

- **pipeline_single**: `EachCrashCostsAtMostOne`: after the claim a fold takes four
  more calls and none is repeated after a crash; what is lost or only half stored
  is at most one event per crash. `PerUserOrder`: repetitions and restarts do not
  reorder a user's events. `ImplementsLedger`: no step takes back what was folded.
  `TopicDrains`: poison, duplicates and evictions do not stall the topic. One user
  suffices since users share no key; two events and a poison record make up every
  pair of neighbours in the log; two crashes allow one during the recovery from
  another. `TypeOK` includes that the offset stays inside the topic.
- **pipeline_group**: an evicted process that goes on working beside its successor,
  the smallest group in which two processes work on one user's keys.
- **features**, first kind of history: the taste sets after any three signals and
  restarts; the range of affinities (in `TypeOK`) with ratings far outside one to five;
  the stored features against an engine that was never stored; likes of titles whose
  genres come later. The grid is a fortieth of the unit, and both ratings lie off it: the
  stores round engagement and affinities, and equality with the replay does fail.
  Their weights are multiples of 8000, which three averages in twentieths leave whole.
  Second kind: a cap of two is exceeded by four events while the windows still reach
  further back; timestamps before, at and after the clock.
- **intake**: a 202 means a readable record in the topic, or a counted event; what
  is excused is named in the property (white space, the ends of the calendar,
  a fold that failed or overlapped another of its user). Three posts of one id are a fold,
  a duplicate and, after the expiry, a second fold, in any overlap.
- **serving_feed**: the lists are empty, in order, out of order with a repeated
  title, and tied; one title has two genres and one none; a list is longer than the
  feed, so that the cut matters. Requests share nothing but the stored features,
  which `Judge` changes in the run: one request is enough. The bill is longer than the
  feed, so that popular titles must fill it, and shorter than both together; a title is
  notable and known, notable only, known only, and shown already; the thresholds of
  three likes and eight notable picks are two and one, so that each branch is met.
- **candidates**: the frames hold a remake of a MovieLens film, a new film, the same
  film under another name and a different film under its old one, so that the order
  in which two refreshes merge decides what a row matches.
- **catalog_files**: a refresh of the script beside one of the service is the smallest
  case in which two writers meet, each of which may be the one that is cut off; a second
  day makes an old dump differ from a new one; a crash lets the restart read whatever the
  disk then holds; the one year decides between a frame of Wikidata and none.
- **catalog_browse**: two rows tie in popularity and in title, and one has no year;
  the refresh puts a title at the head and raises another, so that pages of two
  catalogs overlap or leave a gap; pages of one title make every list of two need
  `LoadMore`; three acts are a choice, a second one during its navigation or its
  timer, and one after both; two loads are the fewest that overlap.
- **ticket**: two pages of one user, of which one may confirm by the other's event; the
  loads of a page arrive at any time, also after a later tap. Two taps of the lobby let a
  late event of the first meet the second; a third page or a third tap adds no new pair.
- **training_lists**: one user likes or merely views, early on, the other only likes, at
  two instants, one of them the last: what a user likes may lie in train, in test or in
  both. Six ratings are one more than the five at which fractions of 50 and 25 must
  succeed. The fractions stand for 80 and 10, with which the smallest table that must
  succeed has eleven rows; 1 negative for 4 and 2 positives for 40 let both run out.

**Fairness.** `EventPipeline!FairSpec` asks weak fairness of `Progress(w)`: the event
loop of a process that is up goes on, and its calls end. `Start` has none, because
nothing restarts an ended consumer (`docker-compose.yml` has no restart policy for
it); `TopicDrains` therefore assumes a process that stays up from some time on. No
fairness is asked of the environment. `TicketClient!FairSpec` asks weak fairness of
`act()` and of the load it awaits: browser calls end with an answer or an error,
and `waitForFeatureUpdate` has a deadline of eight seconds. Nothing is asked of the
service behind it: `EveryTapEnds` holds although events are lost or never folded.

## 4. Proofs

Thirty-eight theorems, checked by TLAPS for all values of the constants: the 35
invariants of the passing runs are all theorems, and of the 5 temporal properties the 3
that are not about liveness. They rest on the named assumptions of the modules, which say what the constants are (every
run's TLC evaluates them), and on nothing else but, where the table says so, a hypothesis
that is part of the statement.

| theorem | module | states |
|---|---|---|
| `TypeCorrect` | `EventPipeline_proof` | `Spec => []TypeOK` |
| `CountedOnce` | `EventPipeline_proof` | `Spec => []NoDoubleCount` |
| `CommittedWasHandled` | `EventPipeline_proof` | `Spec => []CommittedIsHandled` |
| `CommitMonotone` | `EventPipeline_proof` | `Spec => CommitNeverRegresses` |
| `PipelineImplementsLedger` | `EventPipeline_proof` | one process: `Spec => ImplementsLedger` |
| `OneProcessKeepsOrder` | `EventPipeline_proof` | one process: `Spec => []PerUserOrder` |
| `CrashesCostOneEach` | `EventPipeline_proof` | one process: `Spec => []EachCrashCostsAtMostOne` |
| `AcceptedWasLogged` | `EventIntake_proof` | `Spec => []AcceptedIsLogged` |
| `RecordsAreReadable` | `EventIntake_proof` | `Spec => []LogCanBeRead` |
| `CountedOnceInline` | `EventIntake_proof` | `Spec => []InlineCountsOnce` |
| `AcceptedCounts` | `EventIntake_proof` | `Spec => []AcceptedCountsUnlessSpoiled` |
| `FeaturesTyped` | `OnlineFeatures_proof` | `Spec => []TypeOK` |
| `TasteFollowsSignals` | `OnlineFeatures_proof` | `Spec => []LastSignalWins` |
| `CountsAreExact` | `OnlineFeatures_proof` | `Spec => []WindowsExactBelowCap` |
| `LikesAreSeeded` | `OnlineFeatures_proof` | `Spec => KnownLikesCount` |
| `ServingIsTraining` | `OnlineFeatures_proof` | `Spec => []ServingMatchesTraining` |
| `FlagsAreHonest` | `Serving_proof` | `Spec => []DegradationIsFlagged` |
| `FeedSkipsTheJudged` | `Serving_proof` | `Spec => []JudgedStaysOut` |
| `FeedIsTheBest` | `Serving_proof` | `Spec => []FeedIsBestOfEligible` |
| `BillsRepeatNothing` | `Serving_proof` | `Spec => []BillRepeatsNothing` |
| `BillsShareTheirPlaces` | `Serving_proof` | `Spec => []BillSharesItsPlaces` |
| `UndisturbedTapIsSaved` | `WebClient_proof` | `Spec => []ConfirmedTapIsSaved` |
| `MarksAreReal` | `WebClient_proof` | `Spec => []NoPhantomMarks` |
| `FiltersComeToAgree` | `WebClient_proof` | `BrowserSpec => []RestIsConsistent` |
| `CalmListIsABeginning` | `WebClient_proof` | `BrowserSpec => []CalmListIsPrefix` |
| `ShelfKept` | `CandidateService_proof` | `Spec => []ShelfKeepsItsIds` |
| `LoneRefreshServes` | `CandidateService_proof` | `Spec => []LoneRefreshServesAll` |
| `AnswersAreSound` | `CandidateService_proof` | `Spec => []AnswerIsSound` |
| `ShortAnswersAreComplete` | `CandidateService_proof` | `Spec => []ShortAnswerIsComplete` |
| `TurnsAreTaken` | `CandidateService_proof` | `Spec => []NewTitlesTakeTurns` |
| `DumpsStayWhole` | `CatalogFiles_proof` | `Spec => []DumpsAreWhole` |
| `ServiceStarts` | `CatalogFiles_proof` | `Spec => []ServiceCanStart` |
| `LoneRefreshLasts` | `CatalogFiles_proof` | `Spec => []LoneRefreshIsDurable` |
| `SplitRespectsTime` | `TrainingLists_proof` | `Spec => []SplitKeepsTime` |
| `AmpleTablesAreSplit` | `TrainingLists_proof` | `Spec => []AmpleRowsAreSplit` |
| `NegativesWereUnseen` | `TrainingLists_proof` | `Spec => []NegativesAreUnobserved` |
| `UserFeaturesWerePast` | `TrainingLists_proof` | `Spec => []UserFeaturesAreOfThePast` |
| `EvaluationWasBlind` | `TrainingLists_proof` | `Spec => []EvaluationIsBlind` |

"One process" is the hypothesis `Alone`, that `Worker` has one member, as
`docker-compose.yml` runs the consumer. With two, the evicted one and its successor
overwrite each other, and the three statements are false.

What the assumptions say beyond types: a user's events have one user (`UserOf`), caps
and numbers of places are positive, a grid of affinities divides the unit, the titles
and the genres of a catalog are finitely many, fractions are percentages that leave
something for the test part, the ids of MovieLens are distinct (they are the keys of a
dictionary) and none is an IMDb id, the popularity model lists an id once, affinities are
within one, `Trim` does nothing to what is trimmed, a page of the search has 1 to 100
rows, the contents of a file differ from "absent" and "torn". A bound on the environment (`MaxLog`,
`MaxCrashes`, ...) is any natural number.

The arguments. An invariant that a run checks is seldom inductive; each is proved from
a stronger one, of which it is a consequence.

*EventPipeline.*

- *CountedOnce.* That no grant is in a key twice is not inductive: a process appends
  to what it has read, and what it has read may be old. `GrantInv` adds that a grant
  occurs nowhere before a claim hands it out (`GrantsHandedOut`), that a grant about
  to be folded is in no key, in no copy of a key and in no other process
  (`GrantsExclusive`), and that copies repeat nothing (`CopiesInjective`). A claim is
  exclusive because `SET NX` fails for a key that exists, and after an expiry the
  grant has a new number.
- *CommittedWasHandled, CommitMonotone.* `HandledInv` adds where the owner of the
  partition stands: at the first record that is not committed, in a phase that fits
  the record (`OwnerAtFrontier`, `PhaseFitsRecord`). A member that is not the owner
  may be anywhere, and its commit is refused.
- *TypeCorrect.* `TypeInv` adds which locals of a process are set in which phase.
- *PipelineImplementsLedger.* With one process nothing is written between its read
  and its write (`AloneInv`): the fold appends to what is stored, and a backfill
  writes back what it read. Every other step changes neither the features nor the
  expiries, or adds to the log.
- *OneProcessKeepsOrder.* `OrderInv`: an event that was ever claimed stands in the log
  no later than the record in hand (`ReachedInv`), which is the first that is not
  committed (`FrontierInv`); so a grant that is the first of its event and about to be
  folded comes after all such grants that are stored (`HeldIsLast`), and appending it
  keeps the order.
- *CrashesCostOneEach.* `LossInv` counts: the grants that were handed out, are in nobody's
  hands and are not in both keys are at most as many as there were crashes. Only a crash
  takes a grant out of a process's hands without both writes, and one process holds one.

*EventIntake.*

- *AcceptedWasLogged, RecordsAreReadable.* `LogInv` over `RouteInv`: the writer holds
  only requests that Go accepted and threads only those of the inline deployment; what
  Go accepts Python accepts, but for the two cases the property names.
- *CountedOnceInline.* The argument of `GrantInv` for threads that interleave at every
  command (`OnceInv`): the grants of folds under way differ, and such a grant is in no key
  and in no thread's copy before its own write. An expiry in the middle of a fold
  takes none of this away: the thread keeps the grant it obtained, and the next claim of the
  id gets another (`GrantsGiven`).
- *AcceptedCounts.* `KeptInv` carries what makes a write not lose an event: whoever is
  about to write a key of a user has read there everything that is kept (`Kept`), and
  two folds of one user at a time are spoiled (`OverlapSpoils`).

*OnlineFeatures.*

- *FeaturesTyped.* `TypeInv` says that blob and history make an engine whose totals,
  sets and capped lists have their types. That affinities stay within one rests on the
  clips of blending and seeding, also for ratings outside one to five, and on rounding: it
  does not leave the range because the grid divides the unit. The engagement and its
  average are unbounded.
- *TasteFollowsSignals.* `TasteInv` adds that the blob exists from the first event
  on, with its two sets. Seeding, a backfill and the round trip change affinities
  only; positive and negative types are disjoint.
- *CountsAreExact.* `HistInv` pairs the records of the history with different signals of
  the tape, as many as the cap allows. Below the cap the pairing is a bijection, so that
  the number of records in a window is the number of signals in it; above, it is
  an injection, and the count is no larger.
- *LikesAreSeeded.* What seeding does to the genres of likes, and that neither
  the event nor the snapshot takes a genre away.
- *ServingIsTraining.* `AgreeInv`: all fields of the stored engine are those of the
  replay of the tape, engagement and affinities up to half a grid step for each event
  applied. A sum, a moving average and a clip bring two numbers no further apart, and a
  store adds half a step (`RoundedGap`). The average is rounded from the sum before that sum
  is, so that it is off by the sum's error over the count and half a step of its own
  (`MeanNear`). The replay seeds nothing only because it applies what it likes: when every
  event came with its genres, the genres of likes have affinities (`Seen`), so that the
  online engine has nothing to seed either.

*Serving.*

- *FlagsAreHonest.* `FlagInv` states the flag for a request at any stage, and that
  no call has failed before the first one.
- *FeedSkipsTheJudged.* `ServeInv`: what was judged before a request is in the stored
  features when it starts, hence in those it reads; a feed leaves out what its features
  exclude.
- *FeedIsTheBest.* `ServeInv` adds that the lists are well-formed and that without a
  ranking the scores are those of the retrieval. The rest is about the operators: the
  overlay is the list, lifted and sorted (`IsOverlay`), the filter keeps the first
  occurrence of each title in order (`IsFiltered`), the genre's part keeps the order
  (`IsOfGenre`), so that the cut is the best of what remains, and a shorter one has all.

*TonightBill.*

- *BillsRepeatNothing.* What the lists are made of: `uniqueById` keeps one row of each
  title, the page's filter the rows of the other titles, and of a response the titles
  that are notable by a popularity the response or the pool has (`BillLists`). A cut of
  such a list repeats nothing, nor does the loop.
- *BillsShareTheirPlaces.* `LoopInv`, by induction over the turns: every place of the
  bill is given as it should be, no title of either list is lost, and each turn uses up a
  row unless the bill is full; after as many turns as rows, a bill that is not full has
  every title. `LikedInv`, that a user has liked finitely many titles, makes "no likes"
  and "a number of likes that is zero" the same.

*TicketClient.*

- *UndisturbedTapIsSaved.* A newer stamp means nothing by itself. `AloneInv` follows
  a tap from the moment it read a current stamp with nothing else under way: until
  its own fold the stamp does not move, because its event is the only one there.
- *MarksAreReal.* `PhantomInv`: what is stored, what answers under way carry and what
  a page shows was stored at some time, but for the mark of the tap under way; when that
  tap ends, the page shows the mark it had before or one that was confirmed.

*CatalogBrowser.*

- *FiltersComeToAgree.* `FilterInv`: without a navigation the filters are those of the
  address, without a timer the text is the field's (`CopiesAgree`), and without haste a
  navigation under way goes where the filters already are (`ChoiceIsKept`). The work is in `ParsedQuery`: reading an address that was written from
  filters gives those filters, with every default and alias (`QueryIsAddress`).
- *CalmListIsABeginning.* `CalmInv`: while loads do not overlap and the catalog stays,
  there is one load at most; either the list is empty and the load is the first page, or
  the list has all pages up to its offset and the load is the next. A page of a list
  extended by the page behind it is a longer beginning (`PageFollows`).

*Catalog.*

- *ShelfKept.* `ShelfInv`: the MovieLens titles stay at the head of the dictionary;
  every merging thread has them among the names it looks up, however long ago it
  took its index; so what it adds has another title and, being an IMDb id, another
  id. Overlapping refreshes may well add *other* films twice; the theorem is about
  the ids that likes and models refer to.
- *LoneRefreshServes.* `ListsInv`: dictionary, served catalog and the list about to be
  assigned have an id once. `LoneInv`: a refresh without company has built its list of
  the items there are, and serves it. That a list sorted by rank has each row once is
  `PlacesList`: where every position has a rank of its own below the length, each number
  below the length is a rank.
- *AnswersAreSound, ShortAnswersAreComplete, TurnsAreTaken.* `AnswersInv` says what a
  request holds at each stage: a shortlist that repeats nothing, and between the two reads
  of the catalog a blend with room that has all that stays of the shortlist, fits the genre
  and has nothing excluded (`LeavesRoom`). The filling relies on this only, and on the
  catalog it reads having an id once (`ListsInv`), not on its being the one the blend read.
  The turns are a recursive function of the two lengths; `TakesTurns`, by induction, has
  the shares even until a list is used up, every row taken in order and none twice
  (`WovenWeaves`).
- *DumpsStayWhole.* `DumpInv`: as long as no two jobs downloaded a dump at once, its file
  is whole and closed, and the file beside it belongs to the one that fetches it.
  `OpenInv` says which stages have which files open.
- *ServiceStarts.* `ParquetInv`: without a clash and a cut, the parquet file is whole, or
  open to one writer, who writes one frame.
- *LoneRefreshLasts.* `LoneInv` follows a job without company: all others are at rest, and
  what it has done so far is in the files and in the service. `ThreadInv` says that
  a crash ends it.

*TrainingLists.*

- *SplitRespectsTime, AmpleTablesAreSplit.* `SplitInv`: the table is finite, a split
  passed the guard and lost nothing, a failed build had parts that do not pass. The work
  is in the cuts: that a finite table has an n-th smallest timestamp
  (`NthTimeIsThere`), that a percentage of N rows is one of the places 1 to N, and that
  with distinct timestamps and a row's worth in each fraction the two cuts lie apart.
- *NegativesWereUnseen.* `WalkInv`: what was seen is what the user's walked rows are
  about, and those come before the rows that are left.
- *UserFeaturesWerePast.* `PastInv`: the engine of the walk is the replay of the walked rows in
  some order of their times. A group without a rival at its instant is made when the
  walked rows are exactly the user's earlier ones: a rival would be another title, and
  nobody rates a title twice.
- *EvaluationWasBlind.* `BlindInv`: an evaluated user's state is that of a replay of the
  train rows, of which `HasFed` says what it holds: one record per row up to the cap,
  the number of rows and their titles. Records in a window map one to one to rows in it.

The provers cannot instantiate the library's induction theorems. Where a proof needs
induction it is done through well-foundedness, which is stated with sets: a nonempty
set of numbers has a least member, hence a set that has 0 and with each number
the next has all (`Upwards`); a nonempty family of finite sets has a member without a
smaller one (`MinimalMember`). `Replayed`, `Woven` and `AllTurns` use recursive functions
for this reason, and that such a function exists is a lemma each time (`TakenThere`,
`LoopThere`). Some lemmas, on replays, on subsequences and on ranks, are stated in two
proof modules, whose components have different variables and operators.

Only model-checked: `TopicDrains` and `EveryTapEnds`, since liveness under fairness and
`ENABLED` are out of the prover's reach.

## 5. Disagreements with the documentation

Two runs end in a violation of what the repository says of the program:

- `serving_new_user`, `TreatmentIsRanked`: `docs/EXPERIMENTATION.md:8` gives the
  treatment arm the ranker. For a user without stored features the Go zero value
  encodes its lists as `null`, the ML service answers 500, and the response falls
  back with `ranker_unavailable` although every service is up.
- `training_skew`, `OneFormulaPerFeature`: `docs/TRAINING_SERVING_PARITY.md:5` says that
  there are no two formulas for one feature. The ranker learns from `_item_stats`
  (`dataset.py:37-56`: share of all interactions, share of likes) and is served, and
  evaluated, with `compute_popularity` (`app.py:79-90`, `evaluate.py:106-115`: shares of
  positive interactions).

Others, seen while modelling and without a run:

- `docs/FAILURE_HANDLING.md:10` promises an empty candidate list when the candidate
  service is down; `orchestrator.go:101-104` serves the cached popular titles, flagged.
- `README.md:47` says that likes and skips update Redis before the next request. Watch
  next compares with the stamp of its last render (`debug/page.tsx:76,93`), so that an
  older event confirms a newer tap. `ConfirmedTapIsSaved` excuses what overlaps.
- `docs/RECOMMENDATION_SYSTEM.md:42` and `scripts/refresh_catalog.py:1` speak of
  downloading the catalog; `imdb.py:116` builds from the dumps on disk whenever both can
  be read, also when forced, and never downloads them a second time.
- `dataset.py:114` and `docs/RECOMMENDATION_SYSTEM.md:22` say that features come from
  strictly earlier events. The statistics of a title (`dataset.py:90-93`) do not: they are
  computed once over all rows of the lists (`dataset.py:118`), and a row's
  `item_rating_count` includes the positive and ratings that came later. Nor, quite, do the
  features of the user: events of the same second that were sorted earlier are in them.
  `UserFeaturesAreOfThePast` speaks of the user's features only, and asks for a group
  without a rival at its instant.
- In the training rows `source_is_als` equals the label and a row of rank 1 is the positive
  (`dataset.py:147,151`), the retrieval score is always 0 (`train.py` passes none) and
  `previously_interacted` is 0 but for a positive that was rated before: what the ranker
  learns from these columns is how the rows were built.
- `browse/page.tsx` applies every answer as it arrives: a late one replaces or extends
  the list of a newer question, a second "Load more" before the first has answered loads
  the same page twice, and what is typed or toggled during a navigation is overwritten
  when it commits. `CalmListIsPrefix` and `RestIsConsistent` say what is left.
- `bill.ts` ends short of its limit for a user with three likes and eight notable picks,
  although popular titles are at hand.
- `engine.py:92-93` speaks of event time online; the processor takes its snapshots
  at the wall clock (`processor.py:69,112`).
- `README.md:99`: with inline features an acknowledged like is not always counted.
  A fold that failed after its claim makes the retry a duplicate until the claim expires,
  which is answered 202, and of two overlapping folds one is overwritten.
  `AcceptedCountsUnlessSpoiled` says that these are the only exceptions.
- `docs/FEATURES.md:29-31` gives the overlay a weight of 0.35; `orchestrator.go:140`
  uses 0.5.
- `live.py:50` says "Keep retrieval hits"; the answer is cut at k, and of a full
  shortlist about half gives way to new titles.

## 6. What is not modelled

- Impressions, recommendation events, shadow ranking, the debug payload, metrics,
  traces and logs: nothing a property is about reads them.
- The gradient-boosted ranker, ALS training and the evaluation metrics: numerical
  batch code; the models take scores and orders as given. Of a row's features, hour,
  weekday, year and the retrieval score are left out.
- The hash behind an experiment's arm; the arm is an input.
- Parsing: JSON but for "does not decode", IMDb dumps, Wikidata answers, titles.
- `MemoryRedis` and `BufferPublisher`, the stand-ins of tests and of the inline
  deployment's impressions.
- More than one partition: events of a user share one, keyed by the user's id.
- A catalog or popularity table that is missing when the ML service starts (503).
- The profile page, which marks nothing ahead of a confirmation, and switching users.
- `GET /v1/items/{id}` and the list of genres, which are reads of `STATE` without a step
  between.
- Reading the raw MovieLens files; the scripts that seed Redis (one more writer of the
  user keys, as a second process of `EventPipeline`) and that demonstrate the API.
- The score a response displays with a title (`filter.go:138,147-150`): `Serving` has the
  order of the titles, which does not depend on it.
- A fold that is lost because a second process backfills the user's features meanwhile
  (`backfill.py`): `NoDoubleCount` holds in spite of it, and no property of a group claims
  that nothing is lost.
- The age of the window counts when they are served: `WindowsExactBelowCap` is about the
  moment of the blob's stamp.

## 7. Plan

Order of work, most important first; done up to 10.

1. `EventPipeline`, `FeatureLedger`: at-most-once, commits, liveness; proofs.
2. `FeatureEngine`, `OnlineFeatures`: parity of serving and training.
3. `Serving`.
4. `EventIntake`, both deployments.
5. `TicketClient`.
6. `CatalogRefresh`, `CandidateService`.
7. `CatalogFiles`: failures, kills, restarts, the script as a second writer.
8. `CatalogBrowser` over `search_catalog`.
9. `TrainingLists`, with the evaluation's state and the two formulas.
10. `TonightBill` on the responses of `Serving`.
11. Left: impressions and shadow ranking in `Serving`, the bound on candidates.

Runs are merged where two modules can share an instance, so that each run keeps one
question. Every invariant a run checks is proved; what is left to state, and then to prove,
is about two processes: how much an evicted one may overwrite, and in which order a group
folds.
