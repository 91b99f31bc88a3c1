------------------------- MODULE EventIntake_proof -------------------------
(***************************************************************************)
(* What a 202 is worth and how often an event counts, for any requests,    *)
(* bodies, ids and users, behind the Kafka writer and on inline threads.   *)
(***************************************************************************)
EXTENDS EventIntake, SequenceTheorems, TLAPS

-----------------------------------------------------------------------------
(* The inductive invariants.                                               *)

\* What clients send, and what the server makes up.
Id == Text \cup Post

Event == [id : Id, user : Text, item : Text, version : 0..2, known : BOOLEAN, at : Time]

Grant == Id \X Nat

FoldStage == {"readFeats", "readHist", "writeFeats", "writeHist"}
ThreadStage == FoldStage \cup {"none", "parse", "claim", "ok", "error"}

PostType   == [Post -> [stage : {"new", "publish", "done"}, event : Event,
                        answer : {"none", "202", "400", "503"}]]
ThreadType == [Post -> [stage : ThreadStage, grant : Grant \cup {NoGrant},
                        feats : Seq(Grant), hist : Seq(Grant)]]

TypeInv ==
    /\ inline \in BOOLEAN
    /\ post \in PostType
    /\ log \in Seq(Event)
    /\ wire \subseteq Post
    /\ thread \in ThreadType
    /\ claims \subseteq Id
    /\ lapsed \in [Id -> Nat]
    /\ feats \in [Text -> Seq(Grant)]
    /\ hist \in [Text -> Seq(Grant)]
    /\ spoiled \subseteq Grant
    /\ \A p \in Post : Folding(p) => thread[p].grant \in Grant

\* Where an event goes: the writer and the threads are not used together, and
\* neither has anything of a request that was not received or not acceptable.
RouteInv ==
    /\ inline => wire = {}
    /\ ~inline => \A p \in Post : thread[p].stage = "none"
    /\ \A p \in Post :
        /\ post[p].stage = "new" =>
                thread[p].stage = "none" /\ p \notin wire /\ post[p].answer = "none"
        /\ Waiting(p) => post[p].answer = "none"
        /\ p \in wire => GoValid(EventOf(p))

\* What is in the log is valid by Go's schema, and what was acknowledged is there.
LogInv ==
    /\ \A k \in DOMAIN log : GoValid(log[k])
    /\ AcceptedIsLogged

\* The grants handed out so far.
Given == {g \in Grant : g[2] < lapsed[g[1]] \/ (g[2] = lapsed[g[1]] /\ g[1] \in claims)}

\* Any grant in a key or in a thread's hands was handed out.
GrantsGiven ==
    /\ \A u \in Text : Range(feats[u]) \cup Range(hist[u]) \subseteq Given
    /\ \A p \in Post : Range(thread[p].feats) \cup Range(thread[p].hist) \subseteq Given
    /\ \A p \in Post : Folding(p) \/ Ingested(p) =>
            thread[p].grant \in Given /\ thread[p].grant[1] = EventOf(p).id

\* The grants of the folds under way differ.
GrantsDiffer ==
    \A p, q \in Post : Folding(p) /\ Folding(q) /\ p # q => thread[p].grant # thread[q].grant

\* The grant of a fold under way is in no key, and in no copy of one, before it
\* is written there.
FreshInFeats ==
    \A p \in Post : Folding(p) /\ thread[p].stage # "writeHist" =>
        /\ \A u \in Text : thread[p].grant \notin Range(feats[u])
        /\ \A q \in Post : thread[p].grant \notin Range(thread[q].feats)
FreshInHist ==
    \A p \in Post : Folding(p) =>
        /\ \A u \in Text : thread[p].grant \notin Range(hist[u])
        /\ \A q \in Post : thread[p].grant \notin Range(thread[q].hist)

CopiesInjective == \A p \in Post : IsInjective(thread[p].feats) /\ IsInjective(thread[p].hist)

OnceInv ==
    /\ GrantsGiven /\ GrantsDiffer /\ FreshInFeats /\ FreshInHist
    /\ CopiesInjective /\ InlineCountsOnce

\* The event of p is in both keys of its user, and whoever is about to write
\* a key of that user has read it there.
Kept(p) ==
    LET i == thread[p].grant
        u == UserOf(p)
    IN  /\ i \in Range(feats[u]) /\ i \in Range(hist[u])
        /\ \A q \in Post : Folding(q) /\ UserOf(q) = u =>
            /\ thread[q].stage \in {"readHist", "writeFeats"} => i \in Range(thread[q].feats)
            /\ thread[q].stage \in {"writeFeats", "writeHist"} => i \in Range(thread[q].hist)

\* A fold that overlaps another of its user is spoiled.
OverlapSpoils ==
    \A p, q \in Post :
        Folding(p) /\ Folding(q) /\ p # q /\ UserOf(p) = UserOf(q) => thread[p].grant \in spoiled

\* The features of an unspoiled fold are still there when its history is written.
HalfWritten ==
    \A p \in Post :
        thread[p].stage = "writeHist" /\ thread[p].grant \notin spoiled =>
            thread[p].grant \in Range(feats[UserOf(p)])

\* Whatever was claimed is kept, unless it is under way or spoiled.
ClaimIsKept ==
    \A g \in Given \ spoiled :
        \E p \in Post : /\ post[p].stage # "new"
                        /\ thread[p].grant = g /\ EventOf(p).id = g[1]
                        /\ Folding(p) \/ (Ingested(p) /\ Kept(p))

\* Inline, a 202 is the thread's answer.
AcceptedIsIngested == \A p \in Post : inline /\ Accepted(p) => Ingested(p)

KeptInv == OverlapSpoils /\ HalfWritten /\ ClaimIsKept /\ AcceptedIsIngested

-----------------------------------------------------------------------------
(* Sequences.                                                              *)

\* Appending adds one element, and repeats none if it is new.
LEMMA AppendGrant ==
    ASSUME NEW s \in Seq(Grant), NEW i \in Grant
    PROVE  /\ Append(s, i) \in Seq(Grant)
           /\ Range(Append(s, i)) = Range(s) \cup {i}
           /\ IsInjective(s) /\ i \notin Range(s) => IsInjective(Append(s, i))
<1>1. /\ Append(s, i) \in Seq(Grant)
      /\ DOMAIN Append(s, i) = 1..(Len(s) + 1) /\ DOMAIN s = 1..Len(s) /\ Len(s) \in Nat
      /\ \A n \in 1..Len(s) : Append(s, i)[n] = s[n]
      /\ Append(s, i)[Len(s) + 1] = i
  OBVIOUS
<1> QED
  BY <1>1 DEF Range, IsInjective

LEMMA EmptyGrant == <<>> \in Seq(Grant) /\ Range(<<>>) = {} /\ IsInjective(<<>>)
<1>1. DOMAIN <<>> = {} /\ <<>> \in Seq(Grant)
  OBVIOUS
<1> QED
  BY <1>1 DEF Range, IsInjective

-----------------------------------------------------------------------------
(* What an assignment to one request or one thread does.                   *)

\* What postEvent makes of a body is an event.
LEMMA DefaultsType ==
    ASSUME NEW p \in Post, NEW body \in Body, body # NotJson
    PROVE  WithDefaults(p, body) \in Event
<1>1. body \in [id : Text, user : Text, item : Text, version : 0..2, known : BOOLEAN, at : Time]
  BY IntakeAssumption
<1> DEFINE i == IF body.id = Absent THEN p ELSE body.id
           n == IF body.version = 0 THEN 1 ELSE body.version
           t == IF body.at = "none" THEN "usual" ELSE body.at
<1>2. i \in Id /\ n \in 0..2 /\ t \in Time
  BY <1>1 DEF Id, Time
<1>3. WithDefaults(p, body) = [[[body EXCEPT !.id = i] EXCEPT !.version = n] EXCEPT !.at = t]
  BY <1>1 DEF WithDefaults
<1> HIDE DEF i, n, t
<1>4. WithDefaults(p, body) = [body EXCEPT !.id = i, !.version = n, !.at = t]
  BY <1>3
<1> QED
  BY <1>1, <1>2, <1>4 DEF Event

\* An answer changes nothing but the stage and the answer of its request.
LEMMA AnsweredEffect ==
    ASSUME post \in PostType, NEW p \in Post, NEW code \in {"202", "400", "503"}
    PROVE  /\ Answered(p, code) \in PostType
           /\ \A q \in Post : Answered(p, code)[q].event = post[q].event
           /\ \A q \in Post : q # p => Answered(p, code)[q] = post[q]
           /\ Answered(p, code)[p].stage = "done" /\ Answered(p, code)[p].answer = code
<1> DEFINE n == [post EXCEPT ![p].stage = "done"]
<1>1. /\ n \in PostType /\ n[p].stage = "done"
      /\ \A q \in Post : n[q].event = post[q].event /\ (q # p => n[q] = post[q])
  BY DEF PostType
<1>2. Answered(p, code) = [n EXCEPT ![p].answer = code]
  BY DEF Answered
<1> HIDE DEF n
<1> QED
  BY <1>1, <1>2 DEF PostType

\* A thread that moves to another stage keeps its copies.
LEMMA MovedEffect ==
    ASSUME thread \in ThreadType, NEW p \in Post, NEW to \in ThreadStage,
           NEW n, n = [thread EXCEPT ![p].stage = to]
    PROVE  /\ n \in ThreadType
           /\ \A q \in Post : q # p => n[q] = thread[q]
           /\ n[p].stage = to /\ n[p].grant = thread[p].grant
           /\ n[p].feats = thread[p].feats /\ n[p].hist = thread[p].hist
BY DEF ThreadType

\* A step of one thread that keeps its grant, and folds on if it did so before.
Continues(p) ==
    /\ thread' \in ThreadType
    /\ \A q \in Post : q # p => thread'[q] = thread[q]
    /\ thread'[p].grant = thread[p].grant
    /\ Folding(p)' => Folding(p)

LEMMA ContinuesType ==
    ASSUME NEW p \in Post, Continues(p), \A q \in Post : Folding(q) => thread[q].grant \in Grant
    PROVE  thread' \in ThreadType /\ \A q \in Post : Folding(q)' => thread'[q].grant \in Grant
<1>1. \A q \in Post : q # p => Folding(q)' = Folding(q)
  BY DEF Continues, Folding
<1> QED
  BY <1>1 DEF Continues

\* A thread that ends forgets its copies.
LEMMA EndedEffect ==
    ASSUME thread \in ThreadType, NEW p \in Post, NEW to \in ThreadStage, End(p, to)
    PROVE  /\ thread' \in ThreadType
           /\ \A q \in Post : q # p => thread'[q] = thread[q]
           /\ thread'[p].stage = to /\ thread'[p].grant = thread[p].grant
           /\ thread'[p].feats = <<>> /\ thread'[p].hist = <<>>
BY EmptyGrant DEF ThreadType, End

\* The current grant of an id is new exactly if the id has no key.
LEMMA CurrentIsGrant ==
    ASSUME lapsed \in [Id -> Nat], NEW i \in Id
    PROVE  /\ CurrentGrant(i) \in Grant /\ CurrentGrant(i)[1] = i
           /\ CurrentGrant(i) \in Given <=> i \in claims
BY DEF CurrentGrant, Grant, Given

-----------------------------------------------------------------------------
(* Types.                                                                  *)

LEMMA TypeInvInit == Init => TypeInv
<1>1. NoEvent \in Event
  BY IntakeAssumption DEF NoEvent, Event, Id, Time
<1> QED
  BY <1>1, EmptyGrant DEF Init, TypeInv, PostType, ThreadType, ThreadStage, FoldStage, Folding, Id

LEMMA TypeInvStep == TypeInv /\ [Next]_vars => TypeInv'
<1> SUFFICES ASSUME TypeInv, [Next]_vars PROVE TypeInv'
  OBVIOUS
<1> USE DEF TypeInv, redisVars
<1>1. ASSUME NEW p \in Post, NEW body \in Body, Receive(p, body) PROVE TypeInv'
  <2>1. CASE body = NotJson \/ ~GoValid(WithDefaults(p, body))
    BY <1>1, <2>1, AnsweredEffect DEF Receive, Folding
  <2>2. CASE ~(body = NotJson \/ ~GoValid(WithDefaults(p, body)))
    <3>1. WithDefaults(p, body) \in Event
      BY <2>2, DefaultsType
    <3>2. post' \in PostType
      <4> DEFINE e == WithDefaults(p, body)
      <4>1. post' = [post EXCEPT ![p] = [stage |-> "publish", event |-> e, answer |-> "none"]]
        BY <1>1, <2>2 DEF Receive
      <4>2. e \in Event
        BY <3>1
      <4> HIDE DEF e
      <4> QED
        BY <4>1, <4>2 DEF PostType
    <3>3. Continues(p) \/ thread' = thread
      <4>1. thread' = [thread EXCEPT ![p].stage = "parse"] \/ thread' = thread
        BY <1>1, <2>2 DEF Receive
      <4>2. "parse" \in ThreadStage
        BY DEF ThreadStage
      <4> QED
        BY <4>1, <4>2, MovedEffect DEF Continues, Folding
    <3> QED
      BY <1>1, <2>2, <3>2, <3>3, ContinuesType DEF Receive, Folding
  <2> QED
    BY <2>1, <2>2
<1>2. ASSUME NEW p \in Post, GiveUp(p) \/ Reply(p) \/ Ack(p) \/ Drop(p) PROVE TypeInv'
  BY <1>2, AnsweredEffect DEF GiveUp, Reply, Ack, Drop, Folding
<1>3. ASSUME NEW p \in Post, Land(p) PROVE TypeInv'
  <2>1. Append(log, post[p].event) \in Seq(Event)
    BY DEF PostType
  <2> QED
    BY <1>3, <2>1 DEF Land, Folding
<1>4. ASSUME NEW p \in Post PROVE EventOf(p) \in Event /\ EventOf(p).id \in Id /\ UserOf(p) \in Text
  BY DEF EventOf, UserOf, PostType, Event
<1>5. ASSUME NEW p \in Post, Parse(p) PROVE TypeInv'
  <2>1. Continues(p)
    BY <1>5 DEF Parse, Step, Continues, Folding, ThreadType, ThreadStage
  <2> QED
    BY <1>5, <2>1, ContinuesType DEF Parse
<1>6. ASSUME NEW p \in Post, ReadFeats(p) PROVE TypeInv'
  <2>1. feats[UserOf(p)] \in Seq(Grant)
    BY <1>4
  <2>2. Continues(p)
    BY <1>6, <2>1 DEF ReadFeats, ThreadType, ThreadStage, FoldStage, Continues, Folding
  <2> QED
    BY <1>6, <2>2, ContinuesType DEF ReadFeats
<1>7. ASSUME NEW p \in Post, ReadHist(p) PROVE TypeInv'
  <2>1. hist[UserOf(p)] \in Seq(Grant)
    BY <1>4
  <2>2. Continues(p)
    BY <1>7, <2>1 DEF ReadHist, ThreadType, ThreadStage, FoldStage, Continues, Folding
  <2> QED
    BY <1>7, <2>2, ContinuesType DEF ReadHist
<1>8. ASSUME NEW p \in Post, Claim(p) PROVE TypeInv'
  <2> DEFINE i == EventOf(p).id
             to == IF i \in claims THEN "ok" ELSE "readFeats"
  <2>1. i \in Id /\ to \in ThreadStage /\ CurrentGrant(i) \in Grant
    BY <1>4, CurrentIsGrant DEF ThreadStage, FoldStage
  <2>2. thread' = [thread EXCEPT ![p] = [@ EXCEPT !.stage = to, !.grant = CurrentGrant(i)]]
    BY <1>8 DEF Claim, AlreadyClaimed
  <2>3. claims' \subseteq Id /\ spoiled' \subseteq Grant
    <3>1. \A q \in Rivals(p) : thread[q].grant \in Grant
      BY DEF Rivals
    <3>2. /\ claims' = claims \/ claims' = claims \cup {i}
          /\ \/ spoiled' = spoiled
             \/ spoiled' = spoiled \cup {CurrentGrant(i)} \cup {thread[q].grant : q \in Rivals(p)}
      BY <1>8 DEF Claim
    <3> HIDE DEF i
    <3> QED
      BY <2>1, <3>1, <3>2
  <2> HIDE DEF i, to
  <2>4. /\ thread' \in ThreadType
        /\ \A q \in Post : Folding(q)' => thread'[q].grant \in Grant
    <3>1. /\ thread' \in ThreadType /\ thread'[p].grant \in Grant
          /\ \A q \in Post : q # p => thread'[q] = thread[q]
      BY <2>1, <2>2 DEF ThreadType
    <3> QED
      BY <3>1 DEF Folding
  <2> QED
    BY <1>8, <2>3, <2>4 DEF Claim
<1>9. ASSUME NEW p \in Post, Fail(p) PROVE TypeInv'
  <2>1. Continues(p)
    BY <1>9, EndedEffect DEF Fail, ThreadStage, Continues, Folding
  <2>2. spoiled' \subseteq Grant
    BY <1>9 DEF Fail
  <2> QED
    BY <1>9, <2>1, <2>2, ContinuesType DEF Fail
<1>10. ASSUME NEW p \in Post, WriteFeats(p) PROVE TypeInv'
  <2>1. Continues(p)
    BY <1>10 DEF WriteFeats, Step, Continues, Folding, ThreadType, ThreadStage, FoldStage
  <2>2. Append(thread[p].feats, thread[p].grant) \in Seq(Grant)
    BY <1>10, AppendGrant DEF WriteFeats, Step, ThreadType, Folding
  <2> QED
    BY <1>10, <2>1, <2>2, ContinuesType DEF WriteFeats
<1>11. ASSUME NEW p \in Post, WriteHist(p) PROVE TypeInv'
  <2>1. Continues(p)
    BY <1>11, EndedEffect DEF WriteHist, ThreadStage, Continues, Folding
  <2>2. Append(thread[p].hist, thread[p].grant) \in Seq(Grant)
    BY <1>11, AppendGrant DEF WriteHist, ThreadType, Folding
  <2> QED
    BY <1>11, <2>1, <2>2, ContinuesType DEF WriteHist
<1>12. ASSUME NEW i \in Id, Expire(i) PROVE TypeInv'
  BY <1>12 DEF Expire, Folding
<1>13. CASE UNCHANGED vars
  BY <1>13 DEF vars, Folding
<1> QED
  BY <1>1, <1>2, <1>3, <1>5, <1>6, <1>7, <1>8, <1>9, <1>10, <1>11, <1>12, <1>13 DEF Next, Id

-----------------------------------------------------------------------------
(* What a step does, one fact per assignment.                              *)

\* A request that is turned down, or handed on.
LEMMA ReceiveEffect ==
    ASSUME TypeInv, NEW p \in Post, NEW body \in Body, Receive(p, body)
    PROVE  /\ post[p].stage = "new"
           /\ \A q \in Post : q # p =>
                post'[q] = post[q] /\ thread'[q] = thread[q] /\ (q \in wire' <=> q \in wire)
           /\ thread'[p].grant = thread[p].grant
           /\ thread'[p].feats = thread[p].feats /\ thread'[p].hist = thread[p].hist
           /\ inline' = inline /\ (inline => wire' = wire) /\ (~inline => thread' = thread)
           /\ \/ /\ post'[p].stage = "done" /\ post'[p].answer = "400"
                 /\ post'[p].event = post[p].event
                 /\ thread' = thread /\ wire' = wire
              \/ /\ post'[p].stage = "publish" /\ post'[p].answer = "none"
                 /\ GoValid(EventOf(p)')
                 /\ inline => thread'[p].stage = "parse"
<1>1. CASE body = NotJson \/ ~GoValid(WithDefaults(p, body))
  BY <1>1, AnsweredEffect DEF Receive, TypeInv
<1>2. CASE ~(body = NotJson \/ ~GoValid(WithDefaults(p, body)))
  <2> DEFINE e == WithDefaults(p, body)
  <2>1. /\ post' = [post EXCEPT ![p] = [stage |-> "publish", event |-> e, answer |-> "none"]]
        /\ thread' = IF inline THEN [thread EXCEPT ![p].stage = "parse"] ELSE thread
        /\ wire' = IF inline THEN wire ELSE wire \cup {p}
        /\ inline' = inline /\ post[p].stage = "new"
    BY <1>2 DEF Receive, ToTopic, TypeInv
  <2>2. e \in Event /\ GoValid(e)
    BY <1>2, DefaultsType
  <2> HIDE DEF e
  <2>3. /\ \A q \in Post : q # p => post'[q] = post[q]
        /\ post'[p].stage = "publish" /\ post'[p].event = e /\ post'[p].answer = "none"
    BY <2>1, <2>2 DEF TypeInv, PostType
  <2>4. /\ \A q \in Post : q # p => thread'[q] = thread[q]
        /\ thread'[p].grant = thread[p].grant
        /\ thread'[p].feats = thread[p].feats /\ thread'[p].hist = thread[p].hist
        /\ inline => thread'[p].stage = "parse"
    BY <2>1 DEF TypeInv, ThreadType
  <2> QED
    BY <2>1, <2>2, <2>3, <2>4 DEF EventOf
<1> QED
  BY <1>1, <1>2

\* A request that is answered, or whose message leaves the writer: no event, no
\* thread and no key changes, and a 202 needs the log or the thread.
LEMMA AnswerEffect ==
    ASSUME TypeInv, NEW p \in Post, GiveUp(p) \/ Ack(p) \/ Drop(p) \/ Reply(p)
    PROVE  /\ UNCHANGED <<inline, log, thread, claims, lapsed, feats, hist, spoiled>>
           /\ wire' \subseteq wire
           /\ \A q \in Post : post'[q].event = post[q].event
           /\ \A q \in Post : post'[q] = post[q] \/
                /\ q = p /\ Waiting(p) /\ post'[p].stage = "done"
                /\ \/ post'[p].answer = "503"
                   \/ /\ post'[p].answer = "202"
                      /\ (p \in wire /\ Acknowledged(p)) \/ Ingested(p)
<1> USE DEF TypeInv, redisVars
<1>1. CASE GiveUp(p)
  BY <1>1, AnsweredEffect DEF GiveUp
<1>2. CASE Ack(p)
  BY <1>2, AnsweredEffect DEF Ack
<1>3. CASE Drop(p)
  BY <1>3, AnsweredEffect DEF Drop
<1>4. CASE Reply(p)
  BY <1>4, AnsweredEffect DEF Reply
<1> QED
  BY <1>1, <1>2, <1>3, <1>4

\* A thread's step: no request and no record changes, and only one thread moves.
ThreadStep(p) ==
    \/ Parse(p) \/ Claim(p) \/ ReadFeats(p) \/ ReadHist(p)
    \/ WriteFeats(p) \/ WriteHist(p) \/ Fail(p)

LEMMA ThreadEffect ==
    ASSUME TypeInv, NEW p \in Post, ThreadStep(p)
    PROVE  /\ UNCHANGED <<inline, post, log, wire>>
           /\ thread[p].stage \in FoldStage \cup {"parse", "claim"}
           /\ \A q \in Post : q # p => thread'[q] = thread[q]
<1> USE DEF TypeInv, redisVars, FoldStage
<1>1. CASE Parse(p) \/ Claim(p)
  BY <1>1 DEF Parse, Claim, Step, ThreadType
<1>4. CASE WriteFeats(p) \/ WriteHist(p)
  BY <1>4 DEF WriteFeats, WriteHist, Step, End, ThreadType
<1>2. CASE ReadFeats(p) \/ ReadHist(p)
  BY <1>2 DEF ReadFeats, ReadHist, ThreadType
<1>3. CASE Fail(p)
  BY <1>3 DEF Fail, End, Folding, ThreadType
<1> QED
  BY <1>1, <1>2, <1>3, <1>4 DEF ThreadStep

\* The steps of the handler, the writer, the threads and the clock of Redis.
LEMMA NextCases ==
    ASSUME [Next]_vars
    PROVE  \/ \E p \in Post, body \in Body : Receive(p, body)
           \/ \E p \in Post : GiveUp(p) \/ Ack(p) \/ Drop(p) \/ Reply(p)
           \/ \E p \in Post : Land(p)
           \/ \E p \in Post : ThreadStep(p)
           \/ \E i \in Id : Expire(i)
           \/ UNCHANGED vars
BY DEF Next, ThreadStep, Id

\* Which grants were handed out depends on the keys and the clock alone, and a
\* key that expires takes none back.
LEMMA GivenStays ==
    /\ UNCHANGED <<claims, lapsed>> => Given' = Given
    /\ \A i \in Id : TypeInv /\ Expire(i) =>
        Given' = Given /\ UNCHANGED <<inline, post, log, wire, thread, feats, hist, spoiled>>
<1>1. UNCHANGED <<claims, lapsed>> => Given' = Given
  BY DEF Given
<1>2. ASSUME NEW i \in Id, TypeInv, Expire(i)
      PROVE  Given' = Given
  <2>1. /\ i \in claims /\ claims' = claims \ {i}
        /\ \A j \in Id : lapsed[j] \in Nat
        /\ lapsed'[i] = lapsed[i] + 1 /\ \A j \in Id \ {i} : lapsed'[j] = lapsed[j]
    BY <1>2 DEF Expire, TypeInv
  <2>2. ASSUME NEW g \in Grant PROVE g \in Given' <=> g \in Given
    <3>1. g[1] \in Id /\ g[2] \in Nat
      BY DEF Grant
    <3> QED
      BY <2>1, <3>1 DEF Given
  <2> QED
    BY <2>2 DEF Given
<1> QED
  BY <1>1, <1>2 DEF Expire

-----------------------------------------------------------------------------
(* Where an event goes.                                                    *)

LEMMA RouteInvInit == Init => RouteInv
BY DEF Init, RouteInv, Waiting

LEMMA RouteInvStep == TypeInv /\ RouteInv /\ [Next]_vars => RouteInv'
<1> SUFFICES ASSUME TypeInv, RouteInv, [Next]_vars PROVE RouteInv'
  OBVIOUS
<1> USE DEF RouteInv, Waiting, EventOf
<1>1. ASSUME NEW p \in Post, NEW body \in Body, Receive(p, body) PROVE RouteInv'
  BY <1>1, ReceiveEffect
<1>2. ASSUME NEW p \in Post, GiveUp(p) \/ Ack(p) \/ Drop(p) \/ Reply(p) PROVE RouteInv'
  BY <1>2, AnswerEffect
<1>3. ASSUME NEW p \in Post, Land(p) PROVE RouteInv'
  BY <1>3 DEF Land
<1>4. ASSUME NEW p \in Post, ThreadStep(p) PROVE RouteInv'
  BY <1>4, ThreadEffect DEF FoldStage
<1>5. ASSUME NEW i \in Id, Expire(i) PROVE RouteInv'
  BY <1>5 DEF Expire
<1>6. CASE UNCHANGED vars
  BY <1>6 DEF vars
<1> QED
  BY <1>1, <1>2, <1>3, <1>4, <1>5, <1>6, NextCases

-----------------------------------------------------------------------------
(* The topic.                                                              *)

LEMMA LogInvInit == Init => LogInv
BY DEF Init, LogInv, AcceptedIsLogged, Accepted

LEMMA LogInvStep == TypeInv /\ RouteInv /\ LogInv /\ [Next]_vars => LogInv'
<1> SUFFICES ASSUME TypeInv, RouteInv, LogInv, [Next]_vars PROVE LogInv'
  OBVIOUS
<1> USE DEF LogInv, AcceptedIsLogged, Accepted, EventOf
<1>1. ASSUME NEW p \in Post, NEW body \in Body, Receive(p, body) PROVE LogInv'
  <2>1. log' = log
    BY <1>1 DEF Receive
  <2> QED
    BY <1>1, <2>1, ReceiveEffect DEF RouteInv
<1>2. ASSUME NEW p \in Post, GiveUp(p) \/ Ack(p) \/ Drop(p) \/ Reply(p) PROVE LogInv'
  <2>1. ~inline => ~Ingested(p)
    BY DEF RouteInv, Ingested
  <2>2. Acknowledged(p) => \E k \in DOMAIN log : log[k].id = EventOf(p).id
    BY DEF Acknowledged
  <2> QED
    BY <1>2, <2>1, <2>2, AnswerEffect
<1>3. ASSUME NEW p \in Post, Land(p) PROVE LogInv'
  <2>1. post[p].event \in Event /\ GoValid(post[p].event)
    BY <1>3 DEF Land, RouteInv, TypeInv, PostType
  <2>2. /\ DOMAIN log' = 1..(Len(log) + 1) /\ DOMAIN log = 1..Len(log) /\ Len(log) \in Nat
        /\ \A k \in 1..Len(log) : log'[k] = log[k]
        /\ log'[Len(log) + 1] = post[p].event
    BY <1>3, <2>1 DEF Land, TypeInv
  <2>3. \A k \in DOMAIN log' : GoValid(log'[k])
    BY <2>1, <2>2
  <2>4. AcceptedIsLogged'
    BY <1>3, <2>2 DEF Land
  <2> QED
    BY <2>3, <2>4
<1>4. ASSUME NEW p \in Post, ThreadStep(p) PROVE LogInv'
  BY <1>4, ThreadEffect
<1>5. ASSUME NEW i \in Id, Expire(i) PROVE LogInv'
  BY <1>5 DEF Expire
<1>6. CASE UNCHANGED vars
  BY <1>6 DEF vars
<1> QED
  BY <1>1, <1>2, <1>3, <1>4, <1>5, <1>6, NextCases

\* Go and Python agree on every event that is neither blank nor at the ends of
\* the calendar.
LEMMA SchemasAgree ==
    ASSUME NEW e \in Event, GoValid(e), Blank \notin {e.id, e.user, e.item}, e.at # "extreme"
    PROVE  PyValid(e)
BY DEF GoValid, PyValid, Event

-----------------------------------------------------------------------------
(* The theorems about the topic.                                           *)

LoggedInv == TypeInv /\ RouteInv /\ LogInv

LEMMA LoggedInvHolds == Spec => []LoggedInv
<1>1. Init => LoggedInv
  BY TypeInvInit, RouteInvInit, LogInvInit DEF LoggedInv
<1>2. LoggedInv /\ [Next]_vars => LoggedInv'
  BY TypeInvStep, RouteInvStep, LogInvStep DEF LoggedInv
<1> QED
  BY <1>1, <1>2, PTL DEF Spec

\* Whatever was answered with 202 is in the topic, however deadlines, writes and
\* lost acknowledgements interleave (server.go, postEvent; publisher.go).
THEOREM AcceptedWasLogged == Spec => []AcceptedIsLogged
<1>1. LoggedInv => AcceptedIsLogged
  BY DEF LoggedInv, LogInv
<1> QED
  BY <1>1, LoggedInvHolds, PTL

\* The consumer can parse whatever the API let into the topic, blank names and
\* the ends of the calendar excepted (schema.go, Validate; schema.py).
THEOREM RecordsAreReadable == Spec => []LogCanBeRead
<1>1. LoggedInv => LogCanBeRead
  <2> SUFFICES ASSUME LoggedInv, NEW k \in DOMAIN log,
                      Blank \notin {log[k].id, log[k].user, log[k].item},
                      log[k].at # "extreme"
               PROVE  PyValid(log[k])
    BY DEF LogCanBeRead
  <2>1. log[k] \in Event /\ GoValid(log[k])
    BY DEF LoggedInv, TypeInv, LogInv
  <2> QED
    BY <2>1, SchemasAgree
<1> QED
  BY <1>1, LoggedInvHolds, PTL

-----------------------------------------------------------------------------
(* What a thread's step does to the thread and to the keys.                *)

LEMMA EventTypes ==
    ASSUME TypeInv, NEW p \in Post
    PROVE  /\ EventOf(p).id \in Id /\ UserOf(p) \in Text
           /\ thread[p].feats \in Seq(Grant) /\ thread[p].hist \in Seq(Grant)
           /\ Folding(p) => thread[p].grant \in Grant
BY DEF TypeInv, EventOf, UserOf, PostType, ThreadType, Event

\* What a thread keeps of its own while it moves on.
SameCopies(p) ==
    thread'[p].feats = thread[p].feats /\ thread'[p].hist = thread[p].hist
NoCopies(p) == thread'[p].feats = <<>> /\ thread'[p].hist = <<>>

LEMMA ParseEffect ==
    ASSUME TypeInv, NEW p \in Post, Parse(p)
    PROVE  /\ thread[p].stage = "parse" /\ thread'[p].stage \in {"claim", "error"}
           /\ SameCopies(p)
           /\ Given' = Given /\ UNCHANGED <<feats, hist, spoiled>>
BY GivenStays DEF TypeInv, Parse, Step, ThreadType, redisVars, SameCopies

LEMMA ClaimEffect ==
    ASSUME TypeInv, NEW p \in Post, Claim(p)
    PROVE  /\ thread[p].stage = "claim"
           /\ SameCopies(p)
           /\ thread'[p].grant \in Grant /\ thread'[p].grant[1] = EventOf(p).id
           /\ UNCHANGED <<feats, hist>>
           /\ \/ /\ thread'[p].grant \in Given /\ thread'[p].stage = "ok"
                 /\ Given' = Given /\ UNCHANGED spoiled
              \/ /\ thread'[p].grant \notin Given /\ thread'[p].stage = "readFeats"
                 /\ Given' = Given \cup {thread'[p].grant} /\ spoiled \subseteq spoiled'
                 /\ \A q \in Rivals(p) : {thread'[p].grant, thread[q].grant} \subseteq spoiled'
<1> DEFINE i == EventOf(p).id
           to == IF i \in claims THEN "ok" ELSE "readFeats"
<1>1. /\ i \in Id /\ lapsed \in [Id -> Nat] /\ thread \in ThreadType /\ to \in ThreadStage
      /\ CurrentGrant(i) \in Grant /\ CurrentGrant(i)[1] = i
      /\ CurrentGrant(i) \in Given <=> i \in claims
  BY EventTypes, CurrentIsGrant DEF TypeInv, ThreadStage, FoldStage
<1>2. /\ thread' = [thread EXCEPT ![p] = [@ EXCEPT !.stage = to, !.grant = CurrentGrant(i)]]
      /\ thread[p].stage = "claim" /\ UNCHANGED <<lapsed, feats, hist>>
      /\ i \in claims => UNCHANGED <<claims, spoiled>>
      /\ i \notin claims => claims' = claims \cup {i} /\ spoiled \subseteq spoiled'
      /\ i \notin claims => \A q \in Rivals(p) : {CurrentGrant(i), thread[q].grant} \subseteq spoiled'
  BY <1>1 DEF Claim, AlreadyClaimed, TypeInv
<1>3. i \notin claims => Given' = Given \cup {CurrentGrant(i)}
  <2> SUFFICES ASSUME i \notin claims, NEW g \in Grant
               PROVE  g \in Given' <=> g \in Given \/ g = CurrentGrant(i)
    BY <1>1 DEF Given
  <2>1. g = <<g[1], g[2]>> /\ g[1] \in Id /\ g[2] \in Nat
    BY DEF Grant
  <2> HIDE DEF i
  <2> QED
    BY <1>1, <1>2, <2>1 DEF Given, CurrentGrant
<1>4. i \in claims => Given' = Given
  BY <1>2, GivenStays
<1>5. /\ thread'[p].stage = to /\ thread'[p].grant = CurrentGrant(i) /\ SameCopies(p)
  <2> HIDE DEF i, to
  <2>1. /\ thread'[p].stage = to /\ thread'[p].grant = CurrentGrant(i)
        /\ thread'[p].feats = thread[p].feats /\ thread'[p].hist = thread[p].hist
    BY <1>1, <1>2 DEF ThreadType
  <2> QED
    BY <2>1 DEF SameCopies
<1> HIDE DEF i
<1> QED
  BY <1>1, <1>2, <1>3, <1>4, <1>5 DEF i

LEMMA ReadFeatsEffect ==
    ASSUME TypeInv, NEW p \in Post, ReadFeats(p)
    PROVE  /\ thread[p].stage = "readFeats" /\ thread'[p].stage = "readHist"
           /\ thread'[p].grant = thread[p].grant
           /\ thread'[p].feats = feats[UserOf(p)] /\ thread'[p].hist = thread[p].hist
           /\ Given' = Given /\ UNCHANGED <<feats, hist, spoiled>>
BY GivenStays DEF TypeInv, ThreadType, ReadFeats, redisVars

LEMMA ReadHistEffect ==
    ASSUME TypeInv, NEW p \in Post, ReadHist(p)
    PROVE  /\ thread[p].stage = "readHist" /\ thread'[p].stage = "writeFeats"
           /\ thread'[p].grant = thread[p].grant
           /\ thread'[p].hist = hist[UserOf(p)] /\ thread'[p].feats = thread[p].feats
           /\ Given' = Given /\ UNCHANGED <<feats, hist, spoiled>>
BY GivenStays DEF TypeInv, ThreadType, ReadHist, redisVars

\* A key is written from the copy that was read, with the grant added.
LEMMA WriteFeatsEffect ==
    ASSUME TypeInv, NEW p \in Post, WriteFeats(p)
    PROVE  /\ thread[p].stage = "writeFeats" /\ thread'[p].stage = "writeHist"
           /\ thread'[p].grant = thread[p].grant /\ SameCopies(p)
           /\ Given' = Given /\ UNCHANGED <<hist, spoiled>>
           /\ \A u \in Text : u # UserOf(p) => feats'[u] = feats[u]
           /\ Range(feats'[UserOf(p)]) = Range(thread[p].feats) \cup {thread[p].grant}
           /\ IsInjective(thread[p].feats) /\ thread[p].grant \notin Range(thread[p].feats)
                => IsInjective(feats'[UserOf(p)])
<1>1. /\ \A u \in Text : u # UserOf(p) => feats'[u] = feats[u]
      /\ feats'[UserOf(p)] = Append(thread[p].feats, thread[p].grant)
  BY EventTypes DEF TypeInv, WriteFeats
<1>2. /\ thread[p].stage = "writeFeats" /\ thread'[p].stage = "writeHist"
      /\ thread'[p].grant = thread[p].grant /\ SameCopies(p)
      /\ Given' = Given /\ UNCHANGED <<hist, spoiled>>
  BY GivenStays DEF TypeInv, WriteFeats, Step, ThreadType, SameCopies
<1>3. thread[p].feats \in Seq(Grant) /\ thread[p].grant \in Grant
  BY <1>2, EventTypes DEF Folding
<1> QED
  BY <1>1, <1>2, <1>3, AppendGrant

LEMMA WriteHistEffect ==
    ASSUME TypeInv, NEW p \in Post, WriteHist(p)
    PROVE  /\ thread[p].stage = "writeHist" /\ thread'[p].stage = "ok"
           /\ thread'[p].grant = thread[p].grant /\ NoCopies(p)
           /\ Given' = Given /\ UNCHANGED <<feats, spoiled>>
           /\ \A u \in Text : u # UserOf(p) => hist'[u] = hist[u]
           /\ Range(hist'[UserOf(p)]) = Range(thread[p].hist) \cup {thread[p].grant}
           /\ IsInjective(thread[p].hist) /\ thread[p].grant \notin Range(thread[p].hist)
                => IsInjective(hist'[UserOf(p)])
<1>1. /\ \A u \in Text : u # UserOf(p) => hist'[u] = hist[u]
      /\ hist'[UserOf(p)] = Append(thread[p].hist, thread[p].grant)
  BY EventTypes DEF TypeInv, WriteHist
<1>2. /\ thread[p].stage = "writeHist" /\ thread'[p].stage = "ok"
      /\ thread'[p].grant = thread[p].grant /\ NoCopies(p)
      /\ Given' = Given /\ UNCHANGED <<feats, spoiled>>
  BY GivenStays, EndedEffect DEF TypeInv, WriteHist, ThreadStage, NoCopies
<1>3. thread[p].hist \in Seq(Grant) /\ thread[p].grant \in Grant
  BY <1>2, EventTypes DEF Folding
<1> QED
  BY <1>1, <1>2, <1>3, AppendGrant

LEMMA FailEffect ==
    ASSUME TypeInv, NEW p \in Post, Fail(p)
    PROVE  /\ thread[p].stage = "claim" \/ Folding(p)
           /\ thread'[p].stage = "error"
           /\ thread'[p].grant = thread[p].grant /\ NoCopies(p)
           /\ Given' = Given /\ UNCHANGED <<feats, hist>>
           /\ spoiled \subseteq spoiled' /\ (Folding(p) => thread[p].grant \in spoiled')
BY GivenStays, EndedEffect DEF TypeInv, Fail, ThreadStage, redisVars, NoCopies

-----------------------------------------------------------------------------
(* A grant is counted once.                                                *)

LEMMA OnceInvInit == Init => OnceInv
BY EmptyGrant DEF Init, OnceInv, Id, GrantsGiven, GrantsDiffer, FreshInFeats, FreshInHist,
            CopiesInjective, InlineCountsOnce,
               Folding, Ingested

LEMMA OnceInvStep == TypeInv /\ RouteInv /\ OnceInv /\ [Next]_vars => OnceInv'
<1> SUFFICES ASSUME TypeInv, RouteInv, OnceInv, [Next]_vars PROVE OnceInv'
  OBVIOUS
<1> USE DEF OnceInv, GrantsGiven, GrantsDiffer, FreshInFeats, FreshInHist,
            CopiesInjective, InlineCountsOnce,
            Folding, Ingested, EventOf, SameCopies, NoCopies
<1>1. ASSUME NEW p \in Post, NEW body \in Body, Receive(p, body) PROVE OnceInv'
  <2>1. thread[p].stage = "none" /\ thread'[p].stage \in {"none", "parse"}
    BY <1>1, ReceiveEffect DEF RouteInv, TypeInv
  <2>2. Given' = Given /\ UNCHANGED <<feats, hist>>
    BY <1>1, GivenStays DEF Receive, redisVars
  <2> QED
    BY <1>1, <2>1, <2>2, ReceiveEffect
<1>2. ASSUME NEW p \in Post, GiveUp(p) \/ Ack(p) \/ Drop(p) \/ Reply(p) PROVE OnceInv'
  BY <1>2, AnswerEffect, GivenStays
<1>3. ASSUME NEW p \in Post, Land(p) PROVE OnceInv'
  BY <1>3, GivenStays DEF Land, redisVars
<1>4. ASSUME NEW p \in Post, ThreadStep(p) PROVE OnceInv'
  <2>1. post' = post /\ \A q \in Post : q # p => thread'[q] = thread[q]
    BY <1>4, ThreadEffect
  <2>2. CASE Parse(p)
    BY <2>1, <2>2, ParseEffect
  <2>3. CASE Claim(p)
    BY <2>1, <2>3, ClaimEffect
  <2>4. CASE ReadFeats(p)
    <3>0. /\ \A q \in Post : thread'[q].grant = thread[q].grant /\ (Folding(q)' => Folding(q))
          /\ Folding(p) /\ UserOf(p) \in Text
      BY <2>1, <2>4, ReadFeatsEffect, EventTypes
    <3>1. GrantsGiven'
      BY <2>1, <2>4, <3>0, ReadFeatsEffect
    <3>2. GrantsDiffer'
      BY <3>0
    <3>3. FreshInFeats'
      BY <2>1, <2>4, <3>0, ReadFeatsEffect
    <3>4. FreshInHist'
      BY <2>1, <2>4, <3>0, ReadFeatsEffect
    <3>5. CopiesInjective'
      BY <2>1, <2>4, <3>0, ReadFeatsEffect
    <3>6. InlineCountsOnce'
      BY <2>1, <2>4, <3>0, ReadFeatsEffect
    <3> QED
      BY <3>1, <3>2, <3>3, <3>4, <3>5, <3>6
  <2>5. CASE ReadHist(p)
    <3>0. /\ \A q \in Post : thread'[q].grant = thread[q].grant /\ (Folding(q)' => Folding(q))
          /\ Folding(p) /\ UserOf(p) \in Text
      BY <2>1, <2>5, ReadHistEffect, EventTypes
    <3>1. GrantsGiven'
      BY <2>1, <2>5, <3>0, ReadHistEffect
    <3>2. GrantsDiffer'
      BY <3>0
    <3>3. FreshInFeats'
      BY <2>1, <2>5, <3>0, ReadHistEffect
    <3>4. FreshInHist'
      BY <2>1, <2>5, <3>0, ReadHistEffect
    <3>5. CopiesInjective'
      BY <2>1, <2>5, <3>0, ReadHistEffect
    <3>6. InlineCountsOnce'
      BY <2>1, <2>5, <3>0, ReadHistEffect
    <3> QED
      BY <3>1, <3>2, <3>3, <3>4, <3>5, <3>6
  <2>6. CASE WriteFeats(p)
    <3>0. /\ \A q \in Post : thread'[q].grant = thread[q].grant /\ (Folding(q)' => Folding(q))
          /\ Folding(p) /\ UserOf(p) \in Text
      BY <2>1, <2>6, WriteFeatsEffect, EventTypes
    <3>1. GrantsGiven'
      <4>1. \A u \in Text : Range(feats'[u]) \cup Range(hist'[u]) \subseteq Given'
        <5>1. thread[p].grant \in Given /\ Range(thread[p].feats) \subseteq Given
          BY <3>0
        <5>2. Range(feats'[UserOf(p)]) \subseteq Given' /\ Given' = Given
          BY <2>6, <5>1, WriteFeatsEffect
        <5> QED
          BY <2>6, <5>2, WriteFeatsEffect
      <4>2. \A q \in Post : Range(thread'[q].feats) \cup Range(thread'[q].hist) \subseteq Given'
        BY <2>1, <2>6, WriteFeatsEffect, EmptyGrant
      <4>3. \A q \in Post : Folding(q)' \/ Ingested(q)' =>
                thread'[q].grant \in Given' /\ thread'[q].grant[1] = EventOf(q)'.id
        BY <2>1, <2>6, <3>0, WriteFeatsEffect
      <4> QED
        BY <4>1, <4>2, <4>3
    <3>2. GrantsDiffer'
      BY <3>0
    <3>3. FreshInFeats'
      <4> SUFFICES ASSUME NEW q \in Post, Folding(q)', thread'[q].stage # "writeHist"
                   PROVE  /\ \A u \in Text : thread[q].grant \notin Range(feats'[u])
                          /\ \A r \in Post : thread[q].grant \notin Range(thread'[r].feats)
        BY <3>0
      <4>1. q # p /\ Folding(q) /\ thread[q].grant # thread[p].grant
        BY <2>1, <2>6, <3>0, WriteFeatsEffect
      <4>2. /\ thread[q].grant \notin Range(thread[p].feats)
            /\ \A u \in Text : thread[q].grant \notin Range(feats[u])
            /\ \A r \in Post : thread[q].grant \notin Range(thread[r].feats)
        BY <2>1, <4>1
      <4>3. thread[q].grant \notin Range(feats'[UserOf(p)])
        BY <2>6, <4>1, <4>2, WriteFeatsEffect
      <4>4. \A u \in Text : thread[q].grant \notin Range(feats'[u])
        BY <2>6, <4>2, <4>3, WriteFeatsEffect
      <4>5. \A r \in Post : thread[q].grant \notin Range(thread'[r].feats)
        BY <2>1, <2>6, <4>2, WriteFeatsEffect, EmptyGrant
      <4> QED
        BY <4>4, <4>5
    <3>4. FreshInHist'
      BY <2>1, <2>6, <3>0, WriteFeatsEffect, EmptyGrant
    <3>5. CopiesInjective'
      BY <2>1, <2>6, <3>0, WriteFeatsEffect, EmptyGrant
    <3>6. InlineCountsOnce'
      BY <2>1, <2>6, <3>0, WriteFeatsEffect, EmptyGrant
    <3> QED
      BY <3>1, <3>2, <3>3, <3>4, <3>5, <3>6
  <2>7. CASE WriteHist(p)
    <3>0. /\ \A q \in Post : thread'[q].grant = thread[q].grant /\ (Folding(q)' => Folding(q))
          /\ Folding(p) /\ UserOf(p) \in Text
      BY <2>1, <2>7, WriteHistEffect, EventTypes
    <3>1. GrantsGiven'
      <4>1. \A u \in Text : Range(feats'[u]) \cup Range(hist'[u]) \subseteq Given'
        <5>1. thread[p].grant \in Given /\ Range(thread[p].hist) \subseteq Given
          BY <3>0
        <5>2. Range(hist'[UserOf(p)]) \subseteq Given' /\ Given' = Given
          BY <2>7, <5>1, WriteHistEffect
        <5> QED
          BY <2>7, <5>2, WriteHistEffect
      <4>2. \A q \in Post : Range(thread'[q].feats) \cup Range(thread'[q].hist) \subseteq Given'
        BY <2>1, <2>7, WriteHistEffect, EmptyGrant
      <4>3. \A q \in Post : Folding(q)' \/ Ingested(q)' =>
                thread'[q].grant \in Given' /\ thread'[q].grant[1] = EventOf(q)'.id
        BY <2>1, <2>7, <3>0, WriteHistEffect
      <4> QED
        BY <4>1, <4>2, <4>3
    <3>2. GrantsDiffer'
      BY <3>0
    <3>3. FreshInFeats'
      BY <2>1, <2>7, <3>0, WriteHistEffect, EmptyGrant
    <3>4. FreshInHist'
      <4> SUFFICES ASSUME NEW q \in Post, Folding(q)'
                   PROVE  /\ \A u \in Text : thread[q].grant \notin Range(hist'[u])
                          /\ \A r \in Post : thread[q].grant \notin Range(thread'[r].hist)
        BY <3>0
      <4>1. q # p /\ Folding(q) /\ thread[q].grant # thread[p].grant
        BY <2>1, <2>7, <3>0, WriteHistEffect
      <4>2. /\ thread[q].grant \notin Range(thread[p].hist)
            /\ \A u \in Text : thread[q].grant \notin Range(hist[u])
            /\ \A r \in Post : thread[q].grant \notin Range(thread[r].hist)
        BY <2>1, <4>1
      <4>3. thread[q].grant \notin Range(hist'[UserOf(p)])
        <5>1. Range(hist'[UserOf(p)]) = Range(thread[p].hist) \cup {thread[p].grant}
          BY <2>7, WriteHistEffect
        <5> QED
          BY <4>1, <4>2, <5>1
      <4>4. \A u \in Text : thread[q].grant \notin Range(hist'[u])
        BY <2>7, <4>2, <4>3, WriteHistEffect
      <4>5. \A r \in Post : thread[q].grant \notin Range(thread'[r].hist)
        BY <2>1, <2>7, <4>2, WriteHistEffect, EmptyGrant
      <4> QED
        BY <4>4, <4>5
    <3>5. CopiesInjective'
      BY <2>1, <2>7, <3>0, WriteHistEffect, EmptyGrant
    <3>6. InlineCountsOnce'
      BY <2>1, <2>7, <3>0, WriteHistEffect, EmptyGrant
    <3> QED
      BY <3>1, <3>2, <3>3, <3>4, <3>5, <3>6
  <2>8. CASE Fail(p)
    BY <2>1, <2>8, FailEffect, EmptyGrant
  <2> QED
    BY <1>4, <2>2, <2>3, <2>4, <2>5, <2>6, <2>7, <2>8 DEF ThreadStep
<1>5. ASSUME NEW i \in Id, Expire(i) PROVE OnceInv'
  BY <1>5, GivenStays
<1>6. CASE UNCHANGED vars
  BY <1>6, GivenStays DEF vars, redisVars
<1> QED
  BY <1>1, <1>2, <1>3, <1>4, <1>5, <1>6, NextCases

\* Inline, no grant is in a user's features or history twice: an id counts once,
\* and again only after its key expired, whatever the threads interleave, however
\* often it is posted and whenever a key expires, during a fold too (processor.py).
THEOREM CountedOnceInline == Spec => []InlineCountsOnce
<1> DEFINE I == TypeInv /\ RouteInv /\ OnceInv
<1>1. Init => I
  BY TypeInvInit, RouteInvInit, OnceInvInit
<1>2. I /\ [Next]_vars => I'
  BY TypeInvStep, RouteInvStep, OnceInvStep
<1>3. I => InlineCountsOnce
  BY DEF OnceInv
<1> QED
  BY <1>1, <1>2, <1>3, PTL DEF Spec

-----------------------------------------------------------------------------
(* What was claimed is kept.                                               *)

LEMMA KeptInvInit == Init => KeptInv
BY DEF Init, KeptInv, OverlapSpoils, HalfWritten, ClaimIsKept, AcceptedIsIngested,
       Folding, Accepted, Given, Grant, Id

\* A key only grows, and the copies that will replace it hold what it held: what
\* was kept stays kept.
LEMMA KeptStays ==
    ASSUME TypeInv, NEW p \in Post, NEW w \in Post, Ingested(w), Kept(w), ThreadStep(p)
    PROVE  Kept(w)'
<1> USE DEF Kept, Folding
<1>1. /\ \A q \in Post : UserOf(q)' = UserOf(q)
      /\ \A q \in Post : q # p => thread'[q] = thread[q]
      /\ thread'[w] = thread[w]
  BY ThreadEffect DEF UserOf, Ingested, FoldStage
<1>2. UserOf(w) \in Text /\ UserOf(p) \in Text
  BY EventTypes
<1>3. CASE Parse(p)
  BY <1>1, <1>2, <1>3, ParseEffect
<1>4. CASE Claim(p)
  BY <1>1, <1>2, <1>4, ClaimEffect
<1>5. CASE ReadFeats(p)
  BY <1>1, <1>2, <1>5, ReadFeatsEffect
<1>6. CASE ReadHist(p)
  BY <1>1, <1>2, <1>6, ReadHistEffect
<1>7. CASE WriteFeats(p)
  BY <1>1, <1>2, <1>7, WriteFeatsEffect DEF SameCopies
<1>8. CASE WriteHist(p)
  BY <1>1, <1>2, <1>8, WriteHistEffect
<1>9. CASE Fail(p)
  BY <1>1, <1>2, <1>9, FailEffect
<1> QED
  BY <1>3, <1>4, <1>5, <1>6, <1>7, <1>8, <1>9 DEF ThreadStep

LEMMA KeptInvStep == TypeInv /\ RouteInv /\ OnceInv /\ KeptInv /\ [Next]_vars => KeptInv'
<1> SUFFICES ASSUME TypeInv, RouteInv, OnceInv, KeptInv, [Next]_vars PROVE KeptInv'
  OBVIOUS
<1> USE DEF KeptInv
<1>1. ASSUME NEW p \in Post, NEW body \in Body, Receive(p, body) PROVE KeptInv'
  <2>1. /\ ~Folding(p) /\ ~Folding(p)' /\ ~Ingested(p)
        /\ thread[p].stage # "writeHist" /\ thread'[p].stage # "writeHist"
    BY <1>1, ReceiveEffect DEF RouteInv, TypeInv, Folding, Ingested
  <2>2. Given' = Given /\ UNCHANGED <<feats, hist, spoiled>>
    BY <1>1, GivenStays DEF Receive, redisVars
  <2>3. /\ inline' = inline
        /\ \A q \in Post : q # p =>
            /\ thread'[q] = thread[q] /\ post'[q] = post[q]
            /\ EventOf(q)' = EventOf(q) /\ UserOf(q)' = UserOf(q)
            /\ Folding(q)' = Folding(q) /\ Ingested(q)' = Ingested(q)
    BY <1>1, ReceiveEffect DEF EventOf, UserOf, Folding, Ingested
  <2>4. \A q \in Post : q # p /\ Kept(q) => Kept(q)'
    BY <2>1, <2>2, <2>3 DEF Kept
  <2>5. ClaimIsKept'
    BY <1>1, <2>1, <2>2, <2>3, <2>4, ReceiveEffect DEF ClaimIsKept
  <2>6. OverlapSpoils' /\ HalfWritten'
    BY <2>1, <2>2, <2>3 DEF OverlapSpoils, HalfWritten
  <2>7. AcceptedIsIngested'
    BY <1>1, <2>3, ReceiveEffect DEF AcceptedIsIngested, Accepted, Ingested
  <2> QED
    BY <2>5, <2>6, <2>7
<1>2. ASSUME NEW p \in Post, GiveUp(p) \/ Ack(p) \/ Drop(p) \/ Reply(p) PROVE KeptInv'
  <2>1. /\ UNCHANGED <<inline, thread, feats, hist, spoiled>> /\ Given' = Given
        /\ \A q \in Post : EventOf(q)' = EventOf(q) /\ UserOf(q)' = UserOf(q)
    BY <1>2, AnswerEffect, GivenStays DEF EventOf, UserOf
  <2>2. /\ \A q \in Post : Folding(q)' = Folding(q) /\ Ingested(q)' = Ingested(q)
        /\ \A q \in Post : Kept(q)' = Kept(q)
        /\ \A q \in Post : post[q].stage # "new" => post'[q].stage # "new"
    BY <1>2, <2>1, AnswerEffect DEF Folding, Kept, Ingested
  <2>3. ClaimIsKept'
    BY <2>1, <2>2 DEF ClaimIsKept
  <2>4. OverlapSpoils' /\ HalfWritten'
    BY <2>1, <2>2 DEF OverlapSpoils, HalfWritten
  <2>5. AcceptedIsIngested'
    BY <1>2, <2>1, AnswerEffect DEF AcceptedIsIngested, Accepted, Ingested, RouteInv
  <2> QED
    BY <2>3, <2>4, <2>5
<1>3. ASSUME NEW p \in Post, Land(p) PROVE KeptInv'
  BY <1>3, GivenStays
     DEF Land, redisVars, OverlapSpoils, HalfWritten, ClaimIsKept, AcceptedIsIngested,
         Kept, Folding, EventOf, UserOf, Accepted, Ingested
<1>4. ASSUME NEW p \in Post, ThreadStep(p) PROVE KeptInv'
  <2>1. /\ UNCHANGED <<inline, post>>
        /\ \A q \in Post : EventOf(q)' = EventOf(q) /\ UserOf(q)' = UserOf(q)
        /\ \A q \in Post : q # p => thread'[q] = thread[q]
        /\ \A q \in Post : q # p => Folding(q)' = Folding(q) /\ Ingested(q)' = Ingested(q)
        /\ ~Ingested(p) /\ post[p].stage # "new"
    BY <1>4, ThreadEffect DEF EventOf, UserOf, Folding, Ingested, FoldStage, RouteInv
  <2>2. \A q \in Post : Ingested(q) /\ Kept(q) => q # p /\ Kept(q)'
    BY <1>4, <2>1, KeptStays
  <2>3. AcceptedIsIngested'
    BY <2>1 DEF AcceptedIsIngested, Accepted, Ingested
  <2>4. UserOf(p) \in Text
    BY EventTypes
  <2> USE DEF OverlapSpoils, HalfWritten, ClaimIsKept
  <2>5. ASSUME ~Folding(p)', Given' = Given, spoiled \subseteq spoiled', feats' = feats,
               Folding(p) => thread[p].grant \in spoiled' \/ (Ingested(p)' /\ Kept(p)'),
               thread'[p].grant = thread[p].grant \/ ~Folding(p)
        PROVE  KeptInv'
    <3>1. OverlapSpoils'
      BY <2>1, <2>5
    <3>2. HalfWritten'
      BY <2>1, <2>5 DEF Folding
    <3>3. ClaimIsKept'
      <4> SUFFICES ASSUME NEW g \in Given \ spoiled, g \notin spoiled'
                   PROVE  \E q \in Post : /\ post'[q].stage # "new"
                                          /\ thread'[q].grant = g /\ EventOf(q)'.id = g[1]
                                          /\ Folding(q)' \/ (Ingested(q)' /\ Kept(q)')
        BY <2>5
      <4>1. PICK q \in Post : /\ post[q].stage # "new"
                              /\ thread[q].grant = g /\ EventOf(q).id = g[1]
                              /\ Folding(q) \/ (Ingested(q) /\ Kept(q))
        OBVIOUS
      <4> QED
        BY <2>1, <2>2, <2>5, <4>1
    <3> QED
      BY <2>3, <3>1, <3>2, <3>3
  <2>6. ASSUME Folding(p), Folding(p)', Given' = Given, spoiled' = spoiled,
               thread'[p].grant = thread[p].grant,
               \A u \in Text : u # UserOf(p) => feats'[u] = feats[u],
               feats' = feats \/ thread[p].grant \in Range(feats'[UserOf(p)]),
               thread'[p].stage = "writeHist" => thread[p].grant \in Range(feats'[UserOf(p)])
        PROVE  KeptInv'
    <3>1. OverlapSpoils'
      BY <2>1, <2>6
    <3>2. HalfWritten'
      <4> SUFFICES ASSUME NEW q \in Post, q # p,
                          thread[q].stage = "writeHist", thread[q].grant \notin spoiled
                   PROVE  thread[q].grant \in Range(feats'[UserOf(q)])
        BY <2>1, <2>6
      <4>1. UserOf(q) # UserOf(p) /\ UserOf(q) \in Text
        BY <2>6, EventTypes DEF Folding
      <4> QED
        BY <2>6, <4>1
    <3>3. ClaimIsKept'
      <4> SUFFICES ASSUME NEW g \in Given \ spoiled
                   PROVE  \E q \in Post : /\ post'[q].stage # "new"
                                          /\ thread'[q].grant = g /\ EventOf(q)'.id = g[1]
                                          /\ Folding(q)' \/ (Ingested(q)' /\ Kept(q)')
        BY <2>6
      <4>1. PICK q \in Post : /\ post[q].stage # "new"
                              /\ thread[q].grant = g /\ EventOf(q).id = g[1]
                              /\ Folding(q) \/ (Ingested(q) /\ Kept(q))
        OBVIOUS
      <4> QED
        BY <2>1, <2>2, <2>6, <4>1
    <3> QED
      BY <2>3, <3>1, <3>2, <3>3
  <2>7. CASE Parse(p)
    BY <2>5, <2>7, ParseEffect DEF Folding
  <2>8. CASE Claim(p) /\ ~Folding(p)'
    BY <2>5, <2>8, ClaimEffect DEF Folding
  <2>9. CASE Claim(p) /\ Folding(p)'
    <3>1. /\ ~Folding(p) /\ thread'[p].stage # "writeHist"
          /\ Given' = Given \cup {thread'[p].grant} /\ spoiled \subseteq spoiled'
          /\ thread'[p].grant[1] = EventOf(p).id
          /\ UNCHANGED <<feats, hist>>
          /\ \A q \in Rivals(p) : {thread'[p].grant, thread[q].grant} \subseteq spoiled'
      BY <2>9, ClaimEffect DEF Folding
    <3>2. \A q \in Post : q # p /\ Folding(q) /\ UserOf(q) = UserOf(p) => q \in Rivals(p)
      BY DEF Rivals
    <3>3. OverlapSpoils'
      BY <2>1, <3>1, <3>2
    <3>4. HalfWritten'
      BY <2>1, <3>1
    <3>5. ClaimIsKept'
      <4> SUFFICES ASSUME NEW g \in Given', g \notin spoiled'
                   PROVE  \E q \in Post : /\ post'[q].stage # "new"
                                          /\ thread'[q].grant = g /\ EventOf(q)'.id = g[1]
                                          /\ Folding(q)' \/ (Ingested(q)' /\ Kept(q)')
        OBVIOUS
      <4>1. CASE g = thread'[p].grant
        BY <2>1, <2>9, <3>1, <4>1
      <4>2. CASE g \in Given
        <5>1. PICK q \in Post : /\ post[q].stage # "new"
                                /\ thread[q].grant = g /\ EventOf(q).id = g[1]
                                /\ Folding(q) \/ (Ingested(q) /\ Kept(q))
          BY <3>1, <4>2
        <5> QED
          BY <2>1, <2>2, <3>1, <5>1
      <4> QED
        BY <3>1, <4>1, <4>2
    <3> QED
      BY <2>3, <3>3, <3>4, <3>5
  <2>10. CASE ReadFeats(p)
    BY <2>6, <2>10, ReadFeatsEffect DEF Folding
  <2>11. CASE ReadHist(p)
    BY <2>6, <2>11, ReadHistEffect DEF Folding
  <2>12. CASE WriteFeats(p)
    BY <2>6, <2>12, WriteFeatsEffect DEF Folding
  <2>13. CASE WriteHist(p)
    <3>1. /\ Folding(p) /\ ~Folding(p)' /\ Ingested(p)'
          /\ thread[p].stage = "writeHist" /\ thread'[p].grant = thread[p].grant
          /\ Given' = Given /\ UNCHANGED <<feats, spoiled>>
          /\ thread[p].grant \in Range(hist'[UserOf(p)])
      BY <2>13, WriteHistEffect DEF Folding, Ingested
    <3>2. thread[p].grant \notin spoiled => Kept(p)'
      BY <2>1, <3>1 DEF Kept
    <3> QED
      BY <2>5, <3>1, <3>2
  <2>14. CASE Fail(p)
    BY <2>5, <2>14, FailEffect DEF Folding
  <2> QED
    BY <1>4, <2>7, <2>8, <2>9, <2>10, <2>11, <2>12, <2>13, <2>14 DEF ThreadStep
<1>5. ASSUME NEW i \in Id, Expire(i) PROVE KeptInv'
  BY <1>5, GivenStays
     DEF OverlapSpoils, HalfWritten, ClaimIsKept, AcceptedIsIngested,
         Kept, Folding, EventOf, UserOf, Accepted, Ingested
<1>6. CASE UNCHANGED vars
  BY <1>6, GivenStays
     DEF vars, redisVars, OverlapSpoils, HalfWritten, ClaimIsKept, AcceptedIsIngested,
         Kept, Folding, EventOf, UserOf, Accepted, Ingested
<1> QED
  BY <1>1, <1>2, <1>3, <1>4, <1>5, <1>6, NextCases

\* Inline, a 202 means the event is in a user's keys for good, unless its fold
\* failed or overlapped another of its user (app.py, ingest; processor.py, _apply).
THEOREM AcceptedCounts == Spec => []AcceptedCountsUnlessSpoiled
<1> DEFINE I == TypeInv /\ RouteInv /\ OnceInv /\ KeptInv
<1>1. Init => I
  BY TypeInvInit, RouteInvInit, OnceInvInit, KeptInvInit
<1>2. I /\ [Next]_vars => I'
  BY TypeInvStep, RouteInvStep, OnceInvStep, KeptInvStep
<1>3. I => AcceptedCountsUnlessSpoiled
  <2> SUFFICES ASSUME I, inline, NEW p \in Post, Settled(p), thread[p].grant \notin spoiled
               PROVE  Counted(p)
    BY DEF AcceptedCountsUnlessSpoiled
  <2>1. thread[p].grant \in Given \ spoiled /\ thread[p].grant[1] = EventOf(p).id
    BY DEF Settled, KeptInv, AcceptedIsIngested, OnceInv, GrantsGiven
  <2>2. PICK q \in Post : /\ EventOf(q).id = EventOf(p).id /\ thread[q].grant = thread[p].grant
                          /\ Folding(q) \/ Kept(q)
    BY <2>1 DEF KeptInv, ClaimIsKept
  <2>3. Kept(q)
    BY <2>2 DEF Settled
  <2> QED
    BY <2>2, <2>3 DEF Counted, Kept
<1> QED
  BY <1>1, <1>2, <1>3, PTL DEF Spec
=============================================================================
