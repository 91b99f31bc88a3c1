---------------------------- MODULE EventIntake ----------------------------
(***************************************************************************)
(* POST /v1/events (internal/api/server.go, postEvent) and the two ways    *)
(* PublishEvent takes an event further (internal/recommendation/           *)
(* orchestrator.go):                                                       *)
(*                                                                         *)
(*   - to the interactions topic, through a synchronous Kafka writer that  *)
(*     retries on its own and goes on when its caller has given up;        *)
(*   - with INLINE_FEATURES, to POST /internal/ingest of the ML service,   *)
(*     where a thread of a pool runs the feature processor.  Threads share *)
(*     nothing but Redis, take no lock, and go on when the API gave up.    *)
(*                                                                         *)
(* What a consumer does with the topic is EventPipeline's subject.  Ids    *)
(* and names are model values.  A claim is a key that expires; a grant is  *)
(* one life of that key, and the features and the history of a user hold   *)
(* the grants folded into them.                                            *)
(***************************************************************************)
EXTENDS Naturals, Sequences, FiniteSets, Functions

CONSTANTS
    Post,       \* requests; the server's random id for request p is p itself
    Text,       \* ids and names clients send, Absent and Blank among them
    Absent,     \* a field left out, or the empty string
    Blank,      \* a string of white space
    Body,       \* the bodies of the run; NotJson is one that does not decode
    NotJson,
    MaxLog,     \* bound: records in the topic
    MaxLapses   \* bound: how often the claim on one id expires

\* A timestamp is left out, usual, or one that Go can hold and Python cannot
\* move to UTC (the year 0; the ends of the calendar with an offset).
Time == {"none", "usual", "extreme"}

ASSUME IntakeAssumption ==
    /\ MaxLog \in Nat /\ MaxLapses \in Nat
    /\ {Absent, Blank} \subseteq Text
    /\ Body \ {NotJson} \subseteq
            [id : Text, user : Text, item : Text, version : 0..2, known : BOOLEAN, at : Time]

VARIABLES
    inline,     \* INLINE_FEATURES, read when the API starts
    post,       \* post[p]: where the handler of request p is
    log,        \* the interactions topic
    wire,       \* requests whose message the Kafka writer holds
    thread,     \* thread[p]: the ML service's thread for p's event
    claims,     \* ids whose processed_event key exists
    lapsed,     \* lapsed[i]: how often that key has expired
    feats,      \* feats[u]: grants folded into user:u:features
    hist,       \* hist[u]: grants in user:u:history
    spoiled     \* grants whose fold failed, or overlapped another of the same user

redisVars == <<claims, lapsed, feats, hist>>
vars      == <<inline, post, log, wire, thread, redisVars, spoiled>>

NoEvent == [id |-> Absent, user |-> Absent, item |-> Absent, version |-> 0,
            known |-> FALSE, at |-> "none"]
NoGrant == <<>>

Init ==
    /\ inline \in BOOLEAN
    /\ post = [p \in Post |-> [stage |-> "new", event |-> NoEvent, answer |-> "none"]]
    /\ log = <<>> /\ wire = {}
    /\ thread = [p \in Post |->
                    [stage |-> "none", grant |-> NoGrant, feats |-> <<>>, hist |-> <<>>]]
    /\ claims = {}
    /\ lapsed = [i \in Text \cup Post |-> 0]
    /\ feats = [u \in Text |-> <<>>]
    /\ hist = [u \in Text |-> <<>>]
    /\ spoiled = {}

-----------------------------------------------------------------------------
(* The schema, on both sides.                                              *)

\* postEvent fills in what the client left out.
WithDefaults(p, body) ==
    [body EXCEPT !.id      = IF @ = Absent THEN p ELSE @,
                 !.version = IF @ = 0 THEN 1 ELSE @,
                 !.at      = IF @ = "none" THEN "usual" ELSE @]

\* Mutant: the version is not compared.
AnyVersion(event) == Absent \notin {event.id, event.user, event.item} /\ event.known
\* events.Validate, which Marshal repeats.
GoValid(event) ==
    /\ Absent \notin {event.id, event.user, event.item}
    /\ event.version = 1
    /\ event.known

\* The validators of InteractionEvent.
PyValid(event) ==
    /\ {Absent, Blank} \cap {event.id, event.user, event.item} = {}
    /\ event.version = 1
    /\ event.known
    /\ event.at # "extreme"

-----------------------------------------------------------------------------
(* The handler.                                                            *)

Answered(p, code) == [post EXCEPT ![p].stage = "done", ![p].answer = code]
Waiting(p) == post[p].stage = "publish"

\* PublishEvent: inline, the event does not go to the topic.
ToTopic == ~inline

Receive(p, body) ==
    LET event == WithDefaults(p, body) IN
    /\ post[p].stage = "new"
    /\ IF body = NotJson \/ ~GoValid(event)
       THEN post' = Answered(p, "400") /\ UNCHANGED <<wire, thread>>
       ELSE /\ post' = [post EXCEPT ![p] =
                            [stage |-> "publish", event |-> event, answer |-> "none"]]
            /\ thread' = IF inline THEN [thread EXCEPT ![p].stage = "parse"] ELSE thread
            /\ wire' = IF ToTopic THEN wire \cup {p} ELSE wire
    /\ UNCHANGED <<inline, log, redisVars, spoiled>>

\* The deadline, or a failed call: nothing is acknowledged, and whoever works
\* on the event is not told.
GiveUp(p) ==
    /\ Waiting(p)
    /\ post' = Answered(p, "503")
    /\ UNCHANGED <<inline, log, wire, thread, redisVars, spoiled>>

-----------------------------------------------------------------------------
(* The Kafka writer.                                                       *)

\* A write reaches the log; its acknowledgement may be lost, and the writer
\* then writes again.
Land(p) ==
    /\ p \in wire
    /\ Len(log) < MaxLog
    /\ log' = Append(log, post[p].event)
    /\ UNCHANGED <<inline, post, wire, thread, redisVars, spoiled>>

\* Mutant: the writer does not wait for the broker (Async).
FireAndForget(p) == TRUE
\* RequireOne: the leader has the record.
Acknowledged(p) == \E k \in DOMAIN log : log[k] = post[p].event

\* WriteMessages returns without an error.
Ack(p) ==
    /\ p \in wire
    /\ Acknowledged(p)
    /\ wire' = wire \ {p}
    /\ post' = IF Waiting(p) THEN Answered(p, "202") ELSE post
    /\ UNCHANGED <<inline, log, thread, redisVars, spoiled>>

\* The writer has used up its attempts.
Drop(p) ==
    /\ p \in wire
    /\ wire' = wire \ {p}
    /\ post' = IF Waiting(p) THEN Answered(p, "503") ELSE post
    /\ UNCHANGED <<inline, log, thread, redisVars, spoiled>>

-----------------------------------------------------------------------------
(* A thread of the ML service: FeatureProcessor.process_payload.           *)

Step(p, from, to) ==
    /\ thread[p].stage = from
    /\ thread' = [thread EXCEPT ![p].stage = to]

EventOf(p) == post[p].event
UserOf(p)  == post[p].event.user

\* The thread is between its claim and its last write.
Folding(p) == thread[p].stage \in {"readFeats", "readHist", "writeFeats", "writeHist"}

\* The thread ends, and its copies with it.
End(p, stage) ==
    thread' = [thread EXCEPT ![p] = [@ EXCEPT !.stage = stage, !.feats = <<>>, !.hist = <<>>]]

\* Other folds of the same user under way.
Rivals(p) == {q \in Post \ {p} : Folding(q) /\ UserOf(q) = UserOf(p)}

\* An event that does not parse is answered with 400.
Parse(p) ==
    /\ Step(p, "parse", IF PyValid(EventOf(p)) THEN "claim" ELSE "error")
    /\ UNCHANGED <<inline, post, log, wire, redisVars, spoiled>>

\* The life of the id's key that is under way, or comes next.
CurrentGrant(id) == <<id, lapsed[id]>>

\* Mutant: SET without NX.
NeverClaimed(id) == FALSE
\* SET NX fails when the key exists.
AlreadyClaimed(id) == id \in claims

\* The thread remembers the grant it obtained, or the one it found taken.
Claim(p) ==
    LET id == EventOf(p).id
        to == IF AlreadyClaimed(id) THEN "ok" ELSE "readFeats"
    IN  /\ thread[p].stage = "claim"
        /\ thread' = [thread EXCEPT ![p] = [@ EXCEPT !.stage = to, !.grant = CurrentGrant(id)]]
        /\ IF AlreadyClaimed(id)
           THEN UNCHANGED <<claims, spoiled>>
           ELSE /\ claims' = claims \cup {id}
                /\ spoiled' = IF Rivals(p) = {} THEN spoiled
                              ELSE spoiled \cup {CurrentGrant(id)}
                                           \cup {thread[q].grant : q \in Rivals(p)}
        /\ UNCHANGED <<inline, post, log, wire, lapsed, feats, hist>>

\* The key's time to live, set by the claim, runs out; nobody is asked whether
\* the fold has ended.
Expire(id) ==
    /\ id \in claims
    /\ lapsed[id] < MaxLapses
    /\ claims' = claims \ {id}
    /\ lapsed' = [lapsed EXCEPT ![id] = @ + 1]
    /\ UNCHANGED <<inline, post, log, wire, thread, feats, hist, spoiled>>

ReadFeats(p) ==
    /\ thread[p].stage = "readFeats"
    /\ thread' = [thread EXCEPT ![p] =
                    [@ EXCEPT !.stage = "readHist", !.feats = feats[UserOf(p)]]]
    /\ UNCHANGED <<inline, post, log, wire, redisVars, spoiled>>

ReadHist(p) ==
    /\ thread[p].stage = "readHist"
    /\ thread' = [thread EXCEPT ![p] =
                    [@ EXCEPT !.stage = "writeFeats", !.hist = hist[UserOf(p)]]]
    /\ UNCHANGED <<inline, post, log, wire, redisVars, spoiled>>

WriteFeats(p) ==
    /\ Step(p, "writeFeats", "writeHist")
    /\ feats' = [feats EXCEPT ![UserOf(p)] = Append(thread[p].feats, thread[p].grant)]
    /\ UNCHANGED <<inline, post, log, wire, claims, lapsed, hist, spoiled>>

WriteHist(p) ==
    /\ thread[p].stage = "writeHist"
    /\ End(p, "ok")
    /\ hist' = [hist EXCEPT ![UserOf(p)] = Append(thread[p].hist, thread[p].grant)]
    /\ UNCHANGED <<inline, post, log, wire, claims, lapsed, feats, spoiled>>

\* Redis fails, the event's metadata cannot be used, or the service dies.
Fail(p) ==
    /\ thread[p].stage = "claim" \/ Folding(p)
    /\ End(p, "error")
    /\ spoiled' = IF Folding(p) THEN spoiled \cup {thread[p].grant} ELSE spoiled
    /\ UNCHANGED <<inline, post, log, wire, redisVars>>

\* Mutant: the answer does not wait for the fold.
Started(p) == thread[p].stage \notin {"none", "error"}
\* The ML service answers 200, for an applied event and for a duplicate.
Ingested(p) == thread[p].stage = "ok"

Reply(p) ==
    /\ Waiting(p)
    /\ \/ Ingested(p) /\ post' = Answered(p, "202")
       \/ thread[p].stage = "error" /\ post' = Answered(p, "503")
    /\ UNCHANGED <<inline, log, wire, thread, redisVars, spoiled>>

-----------------------------------------------------------------------------
Next ==
    \/ \E p \in Post :
        \/ \E body \in Body : Receive(p, body)
        \/ GiveUp(p)
        \/ Land(p) \/ Ack(p) \/ Drop(p)
        \/ Parse(p) \/ Claim(p) \/ ReadFeats(p) \/ ReadHist(p)
        \/ WriteFeats(p) \/ WriteHist(p) \/ Fail(p) \/ Reply(p)
    \/ \E id \in Text \cup Post : Expire(id)

Spec == Init /\ [][Next]_vars
-----------------------------------------------------------------------------
(* What must hold.                                                         *)

Accepted(p) == post[p].answer = "202"

\* A request is acknowledged only when its event is in the topic, in whatever
\* order deadlines, writes, lost acknowledgements and repeated writes come
\* (server.go, the 503; publisher.go, RequireOne and Async false).
AcceptedIsLogged ==
    ~inline => \A p \in Post : Accepted(p) => \E k \in DOMAIN log : log[k].id = EventOf(p).id

\* The validators of the API and of the consumer, two programs in two
\* languages, differ on nothing but white space and the ends of the calendar:
\* any other record of the topic can be parsed (schema.go, Validate;
\* schema.py, InteractionEvent).
LogCanBeRead ==
    \A k \in DOMAIN log :
        \/ PyValid(log[k])
        \/ Blank \in {log[k].id, log[k].user, log[k].item}
        \/ log[k].at = "extreme"

\* Inline, a repeated post of an id never counts twice while the id's key lives,
\* whatever the threads interleave and although they go on after the API gave up
\* and after the key expired: an id counts once per grant, so again only after
\* its key expired (processor.py; docs/EVENT_PIPELINE.md:31).
InlineCountsOnce == \A u \in Text : IsInjective(feats[u]) /\ IsInjective(hist[u])

\* Acknowledged, and no thread works under the grant any more.
Settled(p) == Accepted(p) /\ \A q \in Post : Folding(q) => thread[q].grant # thread[p].grant

\* The event, or the one that had claimed its id before, is in the features and
\* the history of the user it names.
Counted(p) ==
    \E q \in Post :
        /\ EventOf(q).id = EventOf(p).id /\ thread[q].grant = thread[p].grant
        /\ thread[p].grant \in Range(feats[UserOf(q)])
        /\ thread[p].grant \in Range(hist[UserOf(q)])

\* Inline, an acknowledged event is in a user's features and history for good,
\* of its own user unless another one's event held its id's key, and unless the
\* fold under that key failed or overlapped another fold of the same user
\* (app.py, ingest; processor.py, _apply).
AcceptedCountsUnlessSpoiled ==
    inline => \A p \in Post : Settled(p) => Counted(p) \/ thread[p].grant \in spoiled
=============================================================================
