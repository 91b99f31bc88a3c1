--------------------------- MODULE EventPipeline ---------------------------
(***************************************************************************)
(* The path of an interaction event from the topic to the user's features: *)
(*                                                                         *)
(*   - the interactions topic (one partition) and its consumer group;      *)
(*   - services/feature_consumer/consumer.py: backfill, the consume loop,  *)
(*     the dead-letter topic, the commit after each record;                *)
(*   - watchnext/online/processor.py: the SET NX claim, then two reads and *)
(*     two writes of the user's keys.                                      *)
(*                                                                         *)
(* Every call to Redis or to the broker is a step of its own, so that a    *)
(* crash, a failed call (the exception leaves the loop and the process     *)
(* ends), a rebalance or another consumer may come between any two.  The   *)
(* content of features and history is abstracted to the sequence of grants *)
(* folded into them; what one fold computes is FeatureEngine's subject.    *)
(***************************************************************************)
EXTENDS Naturals, Sequences, FiniteSets, Functions

CONSTANTS
    Event,          \* ids of the events other than impressions, which fold to nothing
    User,           \* user ids
    UserOf,         \* UserOf[e]: the user the event is about
    Poison,         \* events accepted by the API and rejected by the consumer
    Worker,         \* feature-consumer processes
    None,           \* no worker
    MaxLog,         \* bound: records in the topic
    MaxCrashes,     \* bound: crashes and failed calls
    MaxEvictions,   \* bound: partitions taken from a member by the broker
    MaxLapses       \* bound: expiries of one processed_event key

ASSUME PipelineAssumption ==
    /\ UserOf \in [Event -> User]
    /\ Poison \subseteq Event
    /\ None \notin Worker
    /\ MaxLog \in Nat
    /\ MaxCrashes \in Nat
    /\ MaxEvictions \in Nat
    /\ MaxLapses \in Nat

VARIABLES
    \* the broker
    log,        \* the interactions topic
    dlq,        \* positions of log whose record is in the dead-letter topic
    committed,  \* the group's committed offset: records 1..committed are done
    owner,      \* the member the partition is assigned to
    \* Redis
    claims,     \* events whose processed_event key exists
    lapsed,     \* lapsed[e]: how often that key has expired
    feats,      \* feats[u]: grants folded into user:u:features
    hist,       \* hist[u]: grants in user:u:history
    \* the consumer processes
    pc,         \* what each process does next
    pos,        \* the next position to fetch, 0 without an assignment
    cur,        \* the position of the record in hand
    who,        \* the user whose keys the process works on
    grant,      \* the grant obtained by the claim
    featsCopy,  \* the features as read
    histCopy,   \* the history as read
    toScan,     \* users the startup backfill has not visited
    \* the environment
    crashes, evictions

brokerVars == <<log, dlq, committed, owner>>
redisVars  == <<claims, lapsed, feats, hist>>
localVars  == <<who, grant, featsCopy, histCopy, toScan>>
workerVars == <<pc, pos, cur, localVars>>
envVars    == <<crashes, evictions>>
vars       == <<brokerVars, redisVars, workerVars, envVars>>

Grant    == Event \X Nat
NoGrant  == <<>>
Position == 0..(MaxLog + 1)

Phase == {"down", "scan", "fill", "idle", "claim", "readFeats", "readHist",
          "writeFeats", "writeHist", "deadLetter", "commit"}

\* What each variable holds: the offset stays within the topic, and a process
\* holds at most one grant and one copy of each key (consumer.py, processor.py).
TypeOK ==
    /\ log \in Seq(Event) /\ Len(log) <= MaxLog
    /\ dlq \subseteq 1..Len(log)
    /\ committed \in 0..Len(log)
    /\ owner \in Worker \cup {None}
    /\ claims \subseteq Event
    /\ lapsed \in [Event -> 0..MaxLapses]
    /\ feats \in [User -> Seq(Grant)]
    /\ hist \in [User -> Seq(Grant)]
    /\ pc \in [Worker -> Phase]
    /\ pos \in [Worker -> Position]
    /\ cur \in [Worker -> 0..Len(log)]
    /\ who \in [Worker -> User \cup {None}]
    /\ grant \in [Worker -> Grant \cup {NoGrant}]
    /\ featsCopy \in [Worker -> Seq(Grant)]
    /\ histCopy \in [Worker -> Seq(Grant)]
    /\ toScan \in [Worker -> SUBSET User]
    /\ crashes \in 0..MaxCrashes
    /\ evictions \in 0..MaxEvictions

Init ==
    /\ log = <<>> /\ dlq = {} /\ committed = 0 /\ owner = None
    /\ claims = {}
    /\ lapsed = [e \in Event |-> 0]
    /\ feats = [u \in User |-> <<>>]
    /\ hist = [u \in User |-> <<>>]
    /\ pc = [w \in Worker |-> "down"]
    /\ pos = [w \in Worker |-> 0]
    /\ cur = [w \in Worker |-> 0]
    /\ who = [w \in Worker |-> None]
    /\ grant = [w \in Worker |-> NoGrant]
    /\ featsCopy = [w \in Worker |-> <<>>]
    /\ histCopy = [w \in Worker |-> <<>>]
    /\ toScan = [w \in Worker |-> {}]
    /\ crashes = 0 /\ evictions = 0

-----------------------------------------------------------------------------
\* A record reaches the topic: the first one of an event, or a repetition by
\* the writer's own retries or by a client that posts the id again.
Land(e) ==
    /\ Len(log) < MaxLog
    /\ log' = Append(log, e)
    /\ UNCHANGED <<dlq, committed, owner, redisVars, workerVars, envVars>>

-----------------------------------------------------------------------------
(* A consumer process.                                                     *)

\* The locals of the processor die when its call returns or its process ends.
Forget(w) ==
    /\ who' = [who EXCEPT ![w] = None]
    /\ grant' = [grant EXCEPT ![w] = NoGrant]
    /\ featsCopy' = [featsCopy EXCEPT ![w] = <<>>]
    /\ histCopy' = [histCopy EXCEPT ![w] = <<>>]

Goto(w, phase) == pc' = [pc EXCEPT ![w] = phase]

\* The process ends: its state is gone and the group frees its partition.
Stop(w) ==
    /\ Goto(w, "down")
    /\ pos' = [pos EXCEPT ![w] = 0]
    /\ cur' = [cur EXCEPT ![w] = 0]
    /\ toScan' = [toScan EXCEPT ![w] = {}]
    /\ owner' = IF owner = w THEN None ELSE owner
    /\ Forget(w)

Start(w) ==
    /\ pc[w] = "down"
    /\ Goto(w, "scan")
    /\ toScan' = [toScan EXCEPT ![w] = User]
    /\ UNCHANGED <<brokerVars, redisVars, pos, cur, who, grant,
                   featsCopy, histCopy, envVars>>

\* backfill_user_affinities reads a user's features.  Whether it writes them
\* back (no affinities yet, some liked title whose genres are known now) is
\* left open; without features, or when the read fails, it goes on.
ScanUser(w, u) ==
    /\ pc[w] = "scan"
    /\ u \in toScan[w]
    /\ toScan' = [toScan EXCEPT ![w] = @ \ {u}]
    /\ \/ UNCHANGED <<pc, who, featsCopy>>
       \/ /\ feats[u] # <<>>
          /\ Goto(w, "fill")
          /\ who' = [who EXCEPT ![w] = u]
          /\ featsCopy' = [featsCopy EXCEPT ![w] = feats[u]]
    /\ UNCHANGED <<brokerVars, redisVars, pos, cur, grant, histCopy,
                   envVars>>

\* Mutant: the blob is rebuilt instead of amended.
BackfilledAfresh(w) == <<>>
\* Only the affinities of the blob change.
Backfilled(w) == featsCopy[w]

\* It writes the blob it read, with affinities added, unless the write fails.
BackfillUser(w) ==
    /\ pc[w] = "fill"
    /\ feats' \in {feats, [feats EXCEPT ![who[w]] = Backfilled(w)]}
    /\ Goto(w, "scan")
    /\ Forget(w)
    /\ UNCHANGED <<brokerVars, claims, lapsed, hist, pos, cur, toScan,
                   envVars>>

\* consumer.start() after the backfill.
Join(w) ==
    /\ pc[w] = "scan"
    /\ toScan[w] = {}
    /\ Goto(w, "idle")
    /\ UNCHANGED <<brokerVars, redisVars, pos, cur, localVars, envVars>>

\* Mutant: auto_offset_reset "latest".
ResumeLatest == Len(log) + 1
\* A member resumes after the committed offset, at first from the earliest.
Resume == committed + 1

\* The group gives the free partition to a member between two records.
Assign(w) ==
    /\ pc[w] = "idle"
    /\ owner = None
    /\ owner' = w
    /\ pos' = [pos EXCEPT ![w] = Resume]
    /\ UNCHANGED <<log, dlq, committed, redisVars, pc, cur, localVars,
                   envVars>>

\* Mutant: what cannot be parsed is skipped.
SkipPoison(e) == IF e \in Poison THEN "commit" ELSE "claim"
\* Payloads that do not decode or validate go to the dead-letter topic.
FirstPhase(e) == IF e \in Poison THEN "deadLetter" ELSE "claim"

\* The next record.  A member that lost the partition and has not noticed yet
\* may still take a record it had prefetched.
Fetch(w) ==
    /\ pc[w] = "idle"
    /\ pos[w] \in 1..Len(log)
    /\ cur' = [cur EXCEPT ![w] = pos[w]]
    /\ pos' = [pos EXCEPT ![w] = @ + 1]
    /\ Goto(w, FirstPhase(log[pos[w]]))
    /\ UNCHANGED <<brokerVars, redisVars, localVars, envVars>>

\* Mutant: SET without NX.
NeverClaimed(e) == FALSE
\* SET NX fails when the key exists.
AlreadyClaimed(e) == e \in claims

\* SET processed_event:{id} NX EX ttl.
Claim(w) ==
    LET e == log[cur[w]] IN
    /\ pc[w] = "claim"
    /\ \/ /\ AlreadyClaimed(e)
          /\ Goto(w, "commit")
          /\ UNCHANGED <<claims, who, grant>>
       \/ /\ ~AlreadyClaimed(e)
          /\ claims' = claims \cup {e}
          /\ grant' = [grant EXCEPT ![w] = <<e, lapsed[e]>>]
          /\ who' = [who EXCEPT ![w] = UserOf[e]]
          /\ Goto(w, "readFeats")
    /\ UNCHANGED <<brokerVars, lapsed, feats, hist, pos, cur,
                   featsCopy, histCopy, toScan, envVars>>

ReadFeats(w) ==
    /\ pc[w] = "readFeats"
    /\ featsCopy' = [featsCopy EXCEPT ![w] = feats[who[w]]]
    /\ Goto(w, "readHist")
    /\ UNCHANGED <<brokerVars, redisVars, pos, cur, who, grant,
                   histCopy, toScan, envVars>>

ReadHist(w) ==
    /\ pc[w] = "readHist"
    /\ histCopy' = [histCopy EXCEPT ![w] = hist[who[w]]]
    /\ Goto(w, "writeFeats")
    /\ UNCHANGED <<brokerVars, redisVars, pos, cur, who, grant,
                   featsCopy, toScan, envVars>>

WriteFeats(w) ==
    /\ pc[w] = "writeFeats"
    /\ feats' = [feats EXCEPT ![who[w]] = Append(featsCopy[w], grant[w])]
    /\ Goto(w, "writeHist")
    /\ UNCHANGED <<brokerVars, claims, lapsed, hist, pos, cur,
                   localVars, envVars>>

\* Mutant: the stored history is not loaded first.
RecordedAlone(w) == <<grant[w]>>
\* Mutant: newest first.
RecordedFirst(w) == <<grant[w]>> \o histCopy[w]
\* engine.apply appends the event to the history it was given.
Recorded(w) == Append(histCopy[w], grant[w])

WriteHist(w) ==
    /\ pc[w] = "writeHist"
    /\ hist' = [hist EXCEPT ![who[w]] = Recorded(w)]
    /\ Goto(w, "commit")
    /\ Forget(w)
    /\ UNCHANGED <<brokerVars, claims, lapsed, feats, pos, cur, toScan,
                   envVars>>

\* send_and_wait to the dead-letter topic.
DeadLetter(w) ==
    /\ pc[w] = "deadLetter"
    /\ dlq' = dlq \cup {cur[w]}
    /\ Goto(w, "commit")
    /\ UNCHANGED <<log, committed, owner, redisVars, pos, cur,
                   localVars, envVars>>

\* Mutant: one record too far.
CommitOffsetBeyond(w) == pos[w]
\* The records up to the one in hand.
CommitOffset(w) == cur[w]

\* Mutant: the broker does not fence old members.
NoFence(w) == TRUE
\* The broker accepts a commit from the partition's owner only.
MayCommit(w) == owner = w

\* consumer.commit(): the broker refuses it from a member that lost the
\* partition, and the exception ends the process.
Commit(w) ==
    /\ pc[w] = "commit"
    /\ \/ /\ MayCommit(w)
          /\ committed' = CommitOffset(w)
          /\ Goto(w, "idle")
          /\ cur' = [cur EXCEPT ![w] = 0]
          /\ UNCHANGED <<owner, pos, localVars>>
       \/ /\ ~MayCommit(w)
          /\ Stop(w)
          /\ UNCHANGED committed
    /\ UNCHANGED <<log, dlq, redisVars, envVars>>

\* A crash, a kill, or an exception of any call to Redis or to the broker.
Crash(w) ==
    /\ pc[w] # "down"
    /\ crashes < MaxCrashes
    /\ crashes' = crashes + 1
    /\ Stop(w)
    /\ UNCHANGED <<log, dlq, committed, redisVars, evictions>>

-----------------------------------------------------------------------------
(* The broker and Redis on their own.                                      *)

\* The owner misses its heartbeats (its event loop is blocked in Redis) or
\* the group rebalances: the partition is free, and the owner is not told.
Evict ==
    /\ owner # None
    /\ evictions < MaxEvictions
    /\ evictions' = evictions + 1
    /\ owner' = None
    /\ UNCHANGED <<log, dlq, committed, redisVars, workerVars, crashes>>

\* A processed_event key reaches its time to live.
Lapse(e) ==
    /\ e \in claims
    /\ lapsed[e] < MaxLapses
    /\ claims' = claims \ {e}
    /\ lapsed' = [lapsed EXCEPT ![e] = @ + 1]
    /\ UNCHANGED <<brokerVars, feats, hist, workerVars, envVars>>

-----------------------------------------------------------------------------
\* What the consumer's event loop runs on its own once the process is up.
Progress(w) ==
    \/ \E u \in User : ScanUser(w, u)
    \/ BackfillUser(w) \/ Join(w) \/ Assign(w) \/ Fetch(w) \/ Claim(w)
    \/ ReadFeats(w) \/ ReadHist(w) \/ WriteFeats(w) \/ WriteHist(w)
    \/ DeadLetter(w) \/ Commit(w)

Next ==
    \/ \E e \in Event : Land(e) \/ Lapse(e)
    \/ \E w \in Worker : Start(w) \/ Progress(w) \/ Crash(w)
    \/ Evict

Spec == Init /\ [][Next]_vars

\* A process that is up keeps running; nothing restarts one that ended.
FairSpec == Spec /\ \A w \in Worker : WF_vars(Progress(w))
-----------------------------------------------------------------------------
(* What must hold.                                                         *)

\* No grant is folded twice into a user's features or history, in any
\* interleaving of redeliveries, crashes, evicted members that go on working
\* and a backfill: an event counts at most once per claim of its id, hence
\* at most once within the deduplication window (processor.py, process_event).
NoDoubleCount ==
    \A u \in User : IsInjective(feats[u]) /\ IsInjective(hist[u])

\* The group never commits past a record nobody dealt with: what lies below
\* the committed offset was claimed by some process or is in the dead-letter
\* topic (consumer.py, the commit after each record).
CommittedIsHandled ==
    \A i \in 1..committed :
        IF log[i] \in Poison
        THEN i \in dlq
        ELSE log[i] \in claims \/ lapsed[log[i]] > 0

\* The committed offset never moves back, although members that lost the
\* partition still reach their commit (consumer.py).
CommitNeverRegresses == [][committed' >= committed]_vars

\* The grants that claims have handed out so far.
Issued ==
    {g \in Event \X (0..MaxLapses) :
        \/ g[2] < lapsed[g[1]]
        \/ g[2] = lapsed[g[1]] /\ g[1] \in claims}

\* The grants some process is still folding.
Held == {grant[w] : w \in {v \in Worker : grant[v] # NoGrant}}

\* With one consumer process a crash costs at most one event: every other
\* claimed event reaches both the features and the history (processor.py,
\* _apply writes two keys after the claim, none of them atomically).
EachCrashCostsAtMostOne ==
    Cardinality({g \in Issued \ Held :
                    LET u == UserOf[g[1]]
                    IN  g \notin Range(feats[u]) \cap Range(hist[u])}) <= crashes

\* The first position at which the topic carries e.
FirstPosition(e) ==
    CHOOSE i \in DOMAIN log : log[i] = e /\ \A j \in 1..(i - 1) : log[j] # e

\* With one consumer process the events of a user are folded, and recorded
\* in the history, in the order of the log, however often the topic repeats
\* them and wherever a restart resumes; a second grant of an id after its key
\* expired is out of order by nature (consumer.py, processor.py).
PerUserOrder ==
    \A u \in User : \A s \in {feats[u], hist[u]} : \A i, j \in DOMAIN s :
        (i < j /\ s[i][2] = 0 /\ s[j][2] = 0)
            => FirstPosition(s[i][1]) < FirstPosition(s[j][1])

\* With one consumer process the pipeline implements the at-most-once ledger:
\* in particular no step removes or reorders what was folded before, neither
\* a restart's backfill nor a fold from a blob that was read before.
Ledger == INSTANCE FeatureLedger WITH
    offered <- Range(log), ledger <- feats
ImplementsLedger == Ledger!LedgerSpec

\* As long as some process stays up, every record is eventually committed
\* and the topic drains: neither poison nor a duplicate nor an eviction
\* stalls the group (consumer.py).
TopicDrains ==
    (\E w \in Worker : <>[](pc[w] # "down"))
        => \A i \in 1..MaxLog : (Len(log) >= i) ~> (committed >= i)
=============================================================================
