------------------------ MODULE EventPipeline_proof ------------------------
(***************************************************************************)
(* Proofs about EventPipeline, for any sets of events, users and worker    *)
(* processes and any values of the bounds.                                 *)
(***************************************************************************)
EXTENDS EventPipeline, FiniteSetTheorems, TLAPS

-----------------------------------------------------------------------------
(* The inductive invariants.                                               *)

FoldPhase == {"readFeats", "readHist", "writeFeats", "writeHist"}
HandlePhase == FoldPhase \cup {"claim", "deadLetter", "commit"}

\* w holds a grant that is not in the history yet; not in the features yet.
Folding(w) == pc[w] \in FoldPhase
Unfolded(w) == pc[w] \in FoldPhase \ {"writeHist"}

\* What the locals of a process hold in each phase.
LocalsOK ==
    \A w \in Worker :
        /\ pc[w] \in HandlePhase => cur[w] # 0
        /\ Folding(w) \/ pc[w] = "fill" => who[w] \in User
        /\ Folding(w) => grant[w] \in Grant

\* Some claim has handed the grant out.
HandedOut(g) ==
    \/ g[2] < lapsed[g[1]]
    \/ g[2] = lapsed[g[1]] /\ g[1] \in claims

\* No grant is in use before a claim hands it out, so the next claim's grant
\* is new everywhere.
GrantsHandedOut ==
    /\ \A u \in User : \A g \in Range(feats[u]) \cup Range(hist[u]) : HandedOut(g)
    /\ \A w \in Worker : \A g \in Range(featsCopy[w]) \cup Range(histCopy[w]) : HandedOut(g)
    /\ \A w \in Worker : Folding(w) => HandedOut(grant[w])

\* A grant that a process is about to fold is nowhere else: no other process
\* holds it, and neither a stored value nor anybody's copy contains it.
GrantsExclusive ==
    /\ \A v, w \in Worker : Folding(v) /\ Folding(w) /\ v # w => grant[v] # grant[w]
    /\ \A w \in Worker : Unfolded(w) =>
          /\ \A u \in User : grant[w] \notin Range(feats[u])
          /\ \A v \in Worker : grant[w] \notin Range(featsCopy[v])
    /\ \A w \in Worker : Folding(w) =>
          /\ \A u \in User : grant[w] \notin Range(hist[u])
          /\ \A v \in Worker : grant[w] \notin Range(histCopy[v])

\* What a process has read repeats no grant either.
CopiesInjective ==
    \A w \in Worker : IsInjective(featsCopy[w]) /\ IsInjective(histCopy[w])

GrantInv ==
    /\ GrantsHandedOut
    /\ GrantsExclusive
    /\ CopiesInjective
    /\ NoDoubleCount

\* Somebody dealt with the record at position i.
Handled(i) ==
    IF log[i] \in Poison THEN i \in dlq ELSE log[i] \in claims \/ lapsed[log[i]] > 0

\* Where the owner stands: it handles, or fetches next, the first record that
\* is not committed.
OwnerAtFrontier(w) ==
    owner = w =>
        \/ pc[w] = "idle" /\ pos[w] = committed + 1
        \/ /\ pc[w] \in HandlePhase
           /\ cur[w] = committed + 1
           /\ pos[w] = committed + 2

\* The record in hand is of the kind its phase is for, and past the claim it
\* is dealt with.
PhaseFitsRecord(w) ==
    /\ pc[w] = "claim" => log[cur[w]] \notin Poison
    /\ pc[w] = "deadLetter" => log[cur[w]] \in Poison
    /\ pc[w] \in FoldPhase \cup {"commit"} => Handled(cur[w])

HandledInv ==
    /\ CommittedIsHandled
    /\ \A w \in Worker : OwnerAtFrontier(w) /\ PhaseFitsRecord(w)

-----------------------------------------------------------------------------
(* Types.                                                                  *)

\* Appending a grant to a sequence of grants.
LEMMA AppendGrant ==
    ASSUME NEW s \in Seq(Grant), NEW g \in Grant
    PROVE  /\ Append(s, g) \in Seq(Grant)
           /\ Range(Append(s, g)) = Range(s) \cup {g}
           /\ IsInjective(s) /\ g \notin Range(s) => IsInjective(Append(s, g))
<1>1. /\ Append(s, g) \in Seq(Grant)
      /\ DOMAIN Append(s, g) = 1..(Len(s) + 1)
      /\ DOMAIN s = 1..Len(s)
      /\ Len(s) \in Nat
      /\ \A i \in 1..Len(s) : Append(s, g)[i] = s[i]
      /\ Append(s, g)[Len(s) + 1] = g
  OBVIOUS
<1>2. Range(Append(s, g)) = Range(s) \cup {g}
  BY <1>1 DEF Range
<1>3. IsInjective(s) /\ g \notin Range(s) => IsInjective(Append(s, g))
  BY <1>1 DEF Range, IsInjective
<1>4. QED
  BY <1>1, <1>2, <1>3

\* The empty sequence.
LEMMA NothingYet ==
    /\ <<>> \in Seq(Grant)
    /\ Range(<<>>) = {}
    /\ IsInjective(<<>>)
<1>1. DOMAIN <<>> = {} /\ <<>> \in Seq(Grant)
  OBVIOUS
<1>2. QED
  BY <1>1 DEF Range, IsInjective

\* One more record leaves the earlier ones where they were.
LEMMA LogGrows ==
    ASSUME NEW e \in Event, log \in Seq(Event)
    PROVE  /\ Append(log, e) \in Seq(Event)
           /\ Len(Append(log, e)) = Len(log) + 1
           /\ \A i \in 1..Len(log) : Append(log, e)[i] = log[i]
OBVIOUS

\* Every variable has its type, and the locals of a process what its phase
\* needs: the record in hand, the user and the grant.
TypeInv == TypeOK /\ LocalsOK

LEMMA TypeInvInit == Init => TypeInv
BY PipelineAssumption, NothingYet
   DEF Init, TypeInv, TypeOK, LocalsOK, Folding, FoldPhase, HandlePhase, Phase,
       Position

\* The variables Stop changes keep their types.
StoppedTypes ==
    /\ owner' \in Worker \cup {None}
    /\ pc' \in [Worker -> Phase]
    /\ pos' \in [Worker -> Position]
    /\ cur' \in [Worker -> 0..Len(log)]
    /\ who' \in [Worker -> User \cup {None}]
    /\ grant' \in [Worker -> Grant \cup {NoGrant}]
    /\ featsCopy' \in [Worker -> Seq(Grant)]
    /\ histCopy' \in [Worker -> Seq(Grant)]
    /\ toScan' \in [Worker -> SUBSET User]
    /\ LocalsOK'

LEMMA StopTypes ==
    ASSUME TypeInv, NEW w \in Worker, Stop(w)
    PROVE  StoppedTypes
<1>1. owner' \in Worker \cup {None}
  BY DEF TypeInv, TypeOK, Stop
<1>2. /\ pc' \in [Worker -> Phase]
      /\ pos' \in [Worker -> Position]
      /\ cur' \in [Worker -> 0..Len(log)]
      /\ toScan' \in [Worker -> SUBSET User]
  BY PipelineAssumption DEF TypeInv, TypeOK, Stop, Goto, Phase, Position
<1>3. /\ who' \in [Worker -> User \cup {None}]
      /\ grant' \in [Worker -> Grant \cup {NoGrant}]
      /\ featsCopy' \in [Worker -> Seq(Grant)]
      /\ histCopy' \in [Worker -> Seq(Grant)]
  BY NothingYet DEF TypeInv, TypeOK, Stop, Forget
<1>4. LocalsOK'
  BY DEF TypeInv, TypeOK, LocalsOK, Folding, FoldPhase, HandlePhase, Stop,
         Forget, Goto
<1> QED
  BY <1>1, <1>2, <1>3, <1>4 DEF StoppedTypes

LEMMA TypeInvStep == TypeInv /\ [Next]_vars => TypeInv'
<1> SUFFICES ASSUME TypeInv, [Next]_vars
             PROVE  TypeInv'
  OBVIOUS
<1> USE PipelineAssumption
    DEF TypeInv, TypeOK, LocalsOK, Folding, FoldPhase, HandlePhase,
        brokerVars, redisVars, workerVars, localVars, envVars
<1>1. ASSUME NEW e \in Event, Land(e)
       PROVE  TypeInv'
  BY <1>1, LogGrows DEF Land, brokerVars, redisVars, workerVars, localVars, envVars
<1>2. ASSUME NEW e \in Event, Lapse(e)
       PROVE  TypeInv'
  <2>1. TypeOK'
    <3>1. lapsed[e] + 1 \in 0..MaxLapses
      BY <1>2 DEF Lapse
    <3>2. lapsed' \in [Event -> 0..MaxLapses] /\ claims' \subseteq Event
      BY <3>1, <1>2 DEF Lapse
    <3> QED
      BY <3>2, <1>2 DEF Lapse
  <2>2. LocalsOK'
    BY <1>2 DEF Lapse
  <2> QED
    BY <2>1, <2>2
<1>3. ASSUME NEW w \in Worker, Start(w)
       PROVE  TypeInv'
  BY <1>3 DEF Start, Goto, Phase
<1>4. ASSUME NEW w \in Worker, NEW u \in User, ScanUser(w, u)
       PROVE  TypeInv'
  <2>1. pc' \in [Worker -> Phase] /\ toScan' \in [Worker -> SUBSET User]
    BY <1>4 DEF ScanUser, Goto, Phase
  <2>3. who' \in [Worker -> User \cup {None}] /\ featsCopy' \in [Worker -> Seq(Grant)]
    BY <1>4 DEF ScanUser
  <2>4. TypeOK'
    BY <1>4, <2>1, <2>3 DEF ScanUser
  <2>2. LocalsOK'
    BY <1>4 DEF ScanUser, Goto, Phase
  <2> QED
    BY <2>2, <2>4
<1>5. ASSUME NEW w \in Worker, BackfillUser(w)
       PROVE  TypeInv'
  BY <1>5, NothingYet DEF BackfillUser, Backfilled, Goto, Forget, Phase
<1>6. ASSUME NEW w \in Worker, Join(w)
       PROVE  TypeInv'
  BY <1>6 DEF Join, Goto, Phase
<1>7. ASSUME NEW w \in Worker, Assign(w)
       PROVE  TypeInv'
  <2>1. TypeOK'
    BY <1>7 DEF Assign, Resume, Position
  <2>2. LocalsOK'
    BY <1>7 DEF Assign
  <2> QED
    BY <2>1, <2>2
<1>8. ASSUME NEW w \in Worker, Fetch(w)
       PROVE  TypeInv'
  <2> DEFINE p == pos[w]
  <2>1. /\ Len(log) \in Nat
        /\ MaxLog \in Nat
        /\ Len(log) <= MaxLog
        /\ p \in 1..Len(log)
    BY <1>8 DEF Fetch
  <2>2. /\ pc' = [pc EXCEPT ![w] = FirstPhase(log[p])]
        /\ pos' = [pos EXCEPT ![w] = p + 1]
        /\ cur' = [cur EXCEPT ![w] = p]
    BY <1>8 DEF Fetch, Goto
  <2> HIDE DEF p
  <2>3. p + 1 \in Position /\ p \in 0..Len(log) /\ p # 0
    BY <2>1 DEF Position
  <2>4. FirstPhase(log[p]) \in {"deadLetter", "claim"}
    BY DEF FirstPhase
  <2>5. /\ pc' \in [Worker -> Phase]
        /\ pos' \in [Worker -> Position]
        /\ cur' \in [Worker -> 0..Len(log)]
    BY <2>2, <2>3, <2>4 DEF Phase
  <2>6. TypeOK'
    BY <1>8, <2>5 DEF Fetch
  <2>7. LocalsOK'
    BY <1>8, <2>2, <2>3, <2>4 DEF Fetch
  <2> QED
    BY <2>6, <2>7
<1>9. ASSUME NEW w \in Worker, Claim(w)
       PROVE  TypeInv'
  <2> DEFINE e == log[cur[w]]
  <2>1. cur[w] \in 1..Len(log) /\ e \in Event
    BY <1>9 DEF Claim
  <2>2. <<e, lapsed[e]>> \in Grant /\ UserOf[e] \in User
    BY <2>1 DEF Grant
  <2> HIDE DEF e
  <2>3. CASE AlreadyClaimed(e)
    <3>1. pc' = [pc EXCEPT ![w] = "commit"] /\ UNCHANGED <<claims, who, grant>>
      BY <1>9, <2>3 DEF Claim, Goto, e
    <3>2. pc' \in [Worker -> Phase]
      BY <3>1 DEF Phase
    <3>3. TypeOK'
      BY <1>9, <3>1, <3>2 DEF Claim
    <3>4. LocalsOK'
      BY <1>9, <2>1, <3>1 DEF Claim
    <3> QED
      BY <3>3, <3>4
  <2>4. CASE ~AlreadyClaimed(e)
    <3>1. /\ pc' = [pc EXCEPT ![w] = "readFeats"]
          /\ claims' = claims \cup {e}
          /\ grant' = [grant EXCEPT ![w] = <<e, lapsed[e]>>]
          /\ who' = [who EXCEPT ![w] = UserOf[e]]
      BY <1>9, <2>4 DEF Claim, Goto, e
    <3>2. /\ pc' \in [Worker -> Phase]
          /\ grant' \in [Worker -> Grant \cup {NoGrant}]
          /\ who' \in [Worker -> User \cup {None}]
      BY <2>2, <3>1 DEF Phase
    <3>3. TypeOK'
      BY <1>9, <2>1, <3>1, <3>2 DEF Claim
    <3>4. LocalsOK'
      BY <1>9, <2>1, <2>2, <3>1 DEF Claim
    <3> QED
      BY <3>3, <3>4
  <2> QED
    BY <2>3, <2>4
<1>10. ASSUME NEW w \in Worker, ReadFeats(w)
       PROVE  TypeInv'
  BY <1>10 DEF ReadFeats, Goto, Phase
<1>11. ASSUME NEW w \in Worker, ReadHist(w)
       PROVE  TypeInv'
  BY <1>11 DEF ReadHist, Goto, Phase
<1>12. ASSUME NEW w \in Worker, WriteFeats(w)
       PROVE  TypeInv'
  BY <1>12, AppendGrant DEF WriteFeats, Goto, Phase
<1>13. ASSUME NEW w \in Worker, WriteHist(w)
       PROVE  TypeInv'
  BY <1>13, AppendGrant, NothingYet DEF WriteHist, Recorded, Goto, Forget, Phase
<1>14. ASSUME NEW w \in Worker, DeadLetter(w)
       PROVE  TypeInv'
  <2>1. cur[w] \in 1..Len(log)
    BY <1>14 DEF DeadLetter
  <2>2. dlq' \subseteq 1..Len(log) /\ pc' \in [Worker -> Phase]
    BY <1>14, <2>1 DEF DeadLetter, Goto, Phase
  <2>3. TypeOK'
    BY <1>14, <2>2 DEF DeadLetter
  <2>4. LocalsOK'
    BY <1>14 DEF DeadLetter, Goto
  <2> QED
    BY <2>3, <2>4
<1>15. ASSUME NEW w \in Worker, Commit(w)
       PROVE  TypeInv'
  <2>1. CASE MayCommit(w)
    <3>1. /\ pc' = [pc EXCEPT ![w] = "idle"]
          /\ cur' = [cur EXCEPT ![w] = 0]
          /\ committed' = cur[w]
          /\ UNCHANGED <<owner, pos, localVars>>
      BY <1>15, <2>1 DEF Commit, CommitOffset, Goto
    <3>2. pc' \in [Worker -> Phase] /\ cur' \in [Worker -> 0..Len(log)]
      BY <3>1 DEF Phase
    <3>3. TypeOK'
      BY <1>15, <3>1, <3>2 DEF Commit
    <3>4. LocalsOK'
      BY <1>15, <3>1 DEF Commit
    <3> QED
      BY <3>3, <3>4
  <2>2. CASE ~MayCommit(w)
    <3>1. Stop(w) /\ UNCHANGED <<log, dlq, committed, redisVars, envVars>>
      BY <1>15, <2>2 DEF Commit
    <3> QED
      BY <3>1, StopTypes DEF TypeOK, StoppedTypes
  <2> QED
    BY <2>1, <2>2
<1>16. ASSUME NEW w \in Worker, Crash(w)
       PROVE  TypeInv'
  <2>1. Stop(w) /\ UNCHANGED <<log, dlq, committed, redisVars, evictions>>
    BY <1>16 DEF Crash
  <2>2. crashes' \in 0..MaxCrashes
    BY <1>16 DEF Crash
  <2> QED
    BY <2>1, <2>2, StopTypes DEF StoppedTypes
<1>17. ASSUME Evict
       PROVE  TypeInv'
  BY <1>17 DEF Evict
<1>18. CASE UNCHANGED vars
  BY <1>18 DEF vars
<1> QED
  BY <1>1, <1>2, <1>3, <1>4, <1>5, <1>6, <1>7, <1>8, <1>9, <1>10, <1>11, <1>12, <1>13, <1>14, <1>15, <1>16, <1>17, <1>18 DEF Next, Progress

\* Type correctness, for any number of events, users and processes.
THEOREM TypeCorrect == Spec => []TypeOK
<1>1. Spec => []TypeInv
  BY TypeInvInit, TypeInvStep, PTL DEF Spec
<1> QED
  BY <1>1, PTL DEF TypeInv

-----------------------------------------------------------------------------
(* Grants.                                                                 *)

LEMMA GrantsInRange ==
    ASSUME NEW s \in Seq(Grant)
    PROVE  Range(s) \subseteq Grant
BY DEF Range

\* A step that writes no key of Redis, and at most makes processes forget
\* what they hold, keeps the grants in order.
Quiet ==
    /\ UNCHANGED <<claims, lapsed, feats, hist>>
    /\ \A v \in Worker :
          /\ featsCopy'[v] \in {featsCopy[v], <<>>}
          /\ histCopy'[v] \in {histCopy[v], <<>>}
          /\ Folding(v)' => Folding(v) /\ grant'[v] = grant[v]
          /\ Unfolded(v)' => Unfolded(v)

LEMMA QuietStep ==
    ASSUME GrantInv, Quiet
    PROVE  GrantInv'
<1>1. \A g : HandedOut(g)' <=> HandedOut(g)
  BY DEF Quiet, HandedOut
<1>2. \A v \in Worker :
          /\ Range(featsCopy'[v]) \subseteq Range(featsCopy[v])
          /\ Range(histCopy'[v]) \subseteq Range(histCopy[v])
  BY NothingYet DEF Quiet
<1>3. GrantsHandedOut'
  BY <1>1, <1>2 DEF Quiet, GrantInv, GrantsHandedOut
<1>4. GrantsExclusive'
  <2>1. \A v, w \in Worker : Folding(v)' /\ Folding(w)' /\ v # w => grant'[v] # grant'[w]
    BY DEF Quiet, GrantInv, GrantsExclusive
  <2>2. \A w \in Worker : Unfolded(w)' => Folding(w)' /\ grant'[w] = grant[w]
    BY DEF Quiet, Folding, Unfolded
  <2>3. ASSUME NEW w \in Worker, Unfolded(w)'
        PROVE  /\ \A u \in User : grant'[w] \notin Range(feats'[u])
               /\ \A v \in Worker : grant'[w] \notin Range(featsCopy'[v])
    BY <1>2, <2>2, <2>3 DEF Quiet, GrantInv, GrantsExclusive
  <2>4. ASSUME NEW w \in Worker, Folding(w)'
        PROVE  /\ \A u \in User : grant'[w] \notin Range(hist'[u])
               /\ \A v \in Worker : grant'[w] \notin Range(histCopy'[v])
    BY <1>2, <2>4 DEF Quiet, GrantInv, GrantsExclusive
  <2> QED
    BY <2>1, <2>3, <2>4 DEF GrantsExclusive
<1>5. CopiesInjective'
  BY NothingYet DEF Quiet, GrantInv, CopiesInjective
<1>6. NoDoubleCount'
  BY DEF Quiet, GrantInv, NoDoubleCount
<1> QED
  BY <1>3, <1>4, <1>5, <1>6 DEF GrantInv

\* A key expires: grants that were handed out still are.
LEMMA GrantsLapse ==
    ASSUME TypeInv, GrantInv, NEW e \in Event, Lapse(e)
    PROVE  GrantInv'
<1>1. \A g \in Grant : HandedOut(g) => HandedOut(g)'
  BY DEF TypeInv, TypeOK, Lapse, HandedOut, Grant
<1>2. UNCHANGED <<feats, hist, pc, grant, featsCopy, histCopy>>
  BY DEF Lapse, workerVars, localVars
<1>3. /\ \A u \in User : Range(feats[u]) \cup Range(hist[u]) \subseteq Grant
      /\ \A w \in Worker : Range(featsCopy[w]) \cup Range(histCopy[w]) \subseteq Grant
      /\ \A w \in Worker : Folding(w) => grant[w] \in Grant
  BY GrantsInRange DEF TypeInv, TypeOK, LocalsOK
<1>4. GrantsHandedOut'
  BY <1>1, <1>2, <1>3 DEF GrantInv, GrantsHandedOut, Folding
<1> QED
  BY <1>2, <1>4 DEF GrantInv, GrantsExclusive, CopiesInjective, NoDoubleCount,
                   Folding, Unfolded

\* The backfill reads what is stored, and stores what it read.
LEMMA GrantsScan ==
    ASSUME TypeInv, GrantInv, NEW w \in Worker, NEW u \in User, ScanUser(w, u)
    PROVE  GrantInv'
<1>1. CASE UNCHANGED <<pc, who, featsCopy>>
  <2>1. Quiet
    BY <1>1 DEF ScanUser, Quiet, redisVars, Folding, Unfolded
  <2> QED
    BY <2>1, QuietStep
<1>2. CASE ~UNCHANGED <<pc, who, featsCopy>>
  <2>1. /\ pc' = [pc EXCEPT ![w] = "fill"]
        /\ featsCopy' = [featsCopy EXCEPT ![w] = feats[u]]
        /\ UNCHANGED <<claims, lapsed, feats, hist, grant, histCopy>>
    BY <1>2 DEF ScanUser, Goto, redisVars
  <2>2. \A v \in Worker :
            /\ Folding(v)' => Folding(v)
            /\ Unfolded(v)' => Unfolded(v)
            /\ featsCopy'[v] = featsCopy[v] \/ featsCopy'[v] = feats[u]
    BY <2>1 DEF TypeInv, TypeOK, Folding, Unfolded, FoldPhase
  <2>6. \A g : HandedOut(g)' <=> HandedOut(g)
    BY <2>1 DEF HandedOut
  <2>7. \A v \in Worker : \A g \in Range(featsCopy'[v]) :
            g \in Range(featsCopy[v]) \/ g \in Range(feats[u])
    BY <2>2
  <2>3. GrantsHandedOut'
    BY <2>1, <2>2, <2>6, <2>7 DEF GrantInv, GrantsHandedOut
  <2>4. GrantsExclusive'
    BY <2>1, <2>2, <2>7 DEF GrantInv, GrantsExclusive
  <2>5. CopiesInjective' /\ NoDoubleCount'
    BY <2>1, <2>2 DEF GrantInv, CopiesInjective, NoDoubleCount
  <2> QED
    BY <2>3, <2>4, <2>5 DEF GrantInv
<1> QED
  BY <1>1, <1>2

LEMMA GrantsBackfill ==
    ASSUME TypeInv, GrantInv, NEW w \in Worker, BackfillUser(w)
    PROVE  GrantInv'
<1>1. /\ pc' = [pc EXCEPT ![w] = "scan"]
      /\ grant' = [grant EXCEPT ![w] = NoGrant]
      /\ featsCopy' = [featsCopy EXCEPT ![w] = <<>>]
      /\ histCopy' = [histCopy EXCEPT ![w] = <<>>]
      /\ UNCHANGED <<claims, lapsed, hist>>
      /\ feats' = feats \/ feats' = [feats EXCEPT ![who[w]] = featsCopy[w]]
  BY DEF BackfillUser, Backfilled, Goto, Forget
<1>2. \A v \in Worker :
          /\ featsCopy'[v] = featsCopy[v] \/ featsCopy'[v] = <<>>
          /\ histCopy'[v] = histCopy[v] \/ histCopy'[v] = <<>>
          /\ Folding(v)' => Folding(v) /\ grant'[v] = grant[v]
          /\ Unfolded(v)' => Unfolded(v) /\ Folding(v)'
  BY <1>1 DEF TypeInv, TypeOK, Folding, Unfolded, FoldPhase
<1>3. \A u \in User : feats'[u] = feats[u] \/ feats'[u] = featsCopy[w]
  BY <1>1 DEF TypeInv, TypeOK
<1>4. \A g : HandedOut(g)' <=> HandedOut(g)
  BY <1>1 DEF HandedOut
<1>5. GrantsHandedOut'
  BY <1>1, <1>2, <1>3, <1>4, NothingYet DEF GrantInv, GrantsHandedOut
<1>6. GrantsExclusive'
  <2>1. \A x, v \in Worker : Folding(x)' /\ Folding(v)' /\ x # v => grant'[x] # grant'[v]
    BY <1>2 DEF GrantInv, GrantsExclusive
  <2>2. ASSUME NEW x \in Worker, Unfolded(x)'
        PROVE  /\ \A u \in User : grant'[x] \notin Range(feats'[u])
               /\ \A v \in Worker : grant'[x] \notin Range(featsCopy'[v])
    BY <1>2, <1>3, <2>2, NothingYet DEF GrantInv, GrantsExclusive
  <2>3. ASSUME NEW x \in Worker, Folding(x)'
        PROVE  /\ \A u \in User : grant'[x] \notin Range(hist'[u])
               /\ \A v \in Worker : grant'[x] \notin Range(histCopy'[v])
    BY <1>1, <1>2, <2>3, NothingYet DEF GrantInv, GrantsExclusive
  <2> QED
    BY <2>1, <2>2, <2>3 DEF GrantsExclusive
<1>7. CopiesInjective'
  BY <1>2, NothingYet DEF GrantInv, CopiesInjective
<1>8. NoDoubleCount'
  BY <1>1, <1>3 DEF GrantInv, NoDoubleCount, CopiesInjective
<1> QED
  BY <1>5, <1>6, <1>7, <1>8 DEF GrantInv

\* A successful claim hands out a grant that nothing contains yet.
LEMMA GrantsClaim ==
    ASSUME TypeInv, GrantInv, NEW w \in Worker, Claim(w)
    PROVE  GrantInv'
<1> PICK e : e = log[cur[w]]
  OBVIOUS
<1> PICK new : new = <<e, lapsed[e]>>
  OBVIOUS
<1>1. CASE AlreadyClaimed(e)
  <2>1. /\ pc' = [pc EXCEPT ![w] = "commit"]
        /\ UNCHANGED <<claims, grant, lapsed, feats, hist, featsCopy, histCopy>>
    BY <1>1 DEF Claim, Goto
  <2>2. Quiet
    BY <2>1 DEF TypeInv, TypeOK, Quiet, Folding, Unfolded, FoldPhase
  <2> QED
    BY <2>2, QuietStep
<1>2. CASE ~AlreadyClaimed(e)
  <2>1. /\ pc[w] = "claim"
        /\ e \notin claims
        /\ pc' = [pc EXCEPT ![w] = "readFeats"]
        /\ claims' = claims \cup {e}
        /\ grant' = [grant EXCEPT ![w] = new]
        /\ UNCHANGED <<lapsed, feats, hist, featsCopy, histCopy>>
    BY <1>2 DEF Claim, Goto, AlreadyClaimed
  <2>2. e \in Event /\ lapsed[e] \in Nat
    BY <2>1 DEF TypeInv, TypeOK, LocalsOK, HandlePhase, Phase
  <2>3. ~HandedOut(new) /\ HandedOut(new)'
    BY <2>1, <2>2 DEF HandedOut
  <2>4. \A g : HandedOut(g) => HandedOut(g)'
    BY <2>1 DEF HandedOut
  <2>5. grant'[w] = new /\ ~Folding(w)
    BY <2>1 DEF TypeInv, TypeOK, Folding, FoldPhase
  <2>6. \A v \in Worker : v # w =>
            /\ grant'[v] = grant[v]
            /\ Folding(v)' <=> Folding(v)
            /\ Unfolded(v)' <=> Unfolded(v)
    BY <2>1 DEF TypeInv, TypeOK, Folding, Unfolded
  <2>7. /\ \A u \in User : new \notin Range(feats[u]) /\ new \notin Range(hist[u])
        /\ \A v \in Worker : new \notin Range(featsCopy[v]) /\ new \notin Range(histCopy[v])
        /\ \A v \in Worker : Folding(v) => grant[v] # new
    BY <2>3 DEF GrantInv, GrantsHandedOut
  <2>8. GrantsHandedOut'
    BY <2>1, <2>3, <2>4, <2>5, <2>6 DEF GrantInv, GrantsHandedOut
  <2>9. GrantsExclusive'
    <3>1. \A x, v \in Worker : Folding(x)' /\ Folding(v)' /\ x # v => grant'[x] # grant'[v]
      BY <2>5, <2>6, <2>7 DEF GrantInv, GrantsExclusive
    <3>2. ASSUME NEW x \in Worker, Unfolded(x)'
          PROVE  /\ \A u \in User : grant'[x] \notin Range(feats'[u])
                 /\ \A v \in Worker : grant'[x] \notin Range(featsCopy'[v])
      BY <2>1, <2>5, <2>6, <2>7, <3>2 DEF GrantInv, GrantsExclusive
    <3>3. ASSUME NEW x \in Worker, Folding(x)'
          PROVE  /\ \A u \in User : grant'[x] \notin Range(hist'[u])
                 /\ \A v \in Worker : grant'[x] \notin Range(histCopy'[v])
      BY <2>1, <2>5, <2>6, <2>7, <3>3 DEF GrantInv, GrantsExclusive
    <3> QED
      BY <3>1, <3>2, <3>3 DEF GrantsExclusive
  <2>10. CopiesInjective' /\ NoDoubleCount'
    BY <2>1 DEF GrantInv, CopiesInjective, NoDoubleCount
  <2> QED
    BY <2>8, <2>9, <2>10 DEF GrantInv
<1> QED
  BY <1>1, <1>2

\* The copies a process reads hold what is stored.
LEMMA GrantsReadFeats ==
    ASSUME TypeInv, GrantInv, NEW w \in Worker, ReadFeats(w)
    PROVE  GrantInv'
<1>1. /\ pc[w] = "readFeats"
      /\ pc' = [pc EXCEPT ![w] = "readHist"]
      /\ featsCopy' = [featsCopy EXCEPT ![w] = feats[who[w]]]
      /\ UNCHANGED <<claims, lapsed, feats, hist, grant, histCopy>>
  BY DEF ReadFeats, Goto, redisVars
<1>2. \A v \in Worker :
          /\ Folding(v)' <=> Folding(v)
          /\ Unfolded(v)' <=> Unfolded(v)
          /\ featsCopy'[v] = featsCopy[v] \/ featsCopy'[v] = feats[who[w]]
  BY <1>1 DEF TypeInv, TypeOK, Folding, Unfolded, FoldPhase
<1>3. who[w] \in User
  BY <1>1 DEF TypeInv, LocalsOK, Folding, FoldPhase
<1>4. \A g : HandedOut(g)' <=> HandedOut(g)
  BY <1>1 DEF HandedOut
<1>5. GrantsHandedOut'
  BY <1>1, <1>2, <1>3, <1>4 DEF GrantInv, GrantsHandedOut
<1>6. GrantsExclusive'
  BY <1>1, <1>2, <1>3 DEF GrantInv, GrantsExclusive
<1>7. CopiesInjective' /\ NoDoubleCount'
  BY <1>1, <1>2, <1>3 DEF GrantInv, CopiesInjective, NoDoubleCount
<1> QED
  BY <1>5, <1>6, <1>7 DEF GrantInv

LEMMA GrantsReadHist ==
    ASSUME TypeInv, GrantInv, NEW w \in Worker, ReadHist(w)
    PROVE  GrantInv'
<1>1. /\ pc[w] = "readHist"
      /\ pc' = [pc EXCEPT ![w] = "writeFeats"]
      /\ histCopy' = [histCopy EXCEPT ![w] = hist[who[w]]]
      /\ UNCHANGED <<claims, lapsed, feats, hist, grant, featsCopy>>
  BY DEF ReadHist, Goto, redisVars
<1>2. \A v \in Worker :
          /\ Folding(v)' <=> Folding(v)
          /\ Unfolded(v)' <=> Unfolded(v)
          /\ histCopy'[v] = histCopy[v] \/ histCopy'[v] = hist[who[w]]
  BY <1>1 DEF TypeInv, TypeOK, Folding, Unfolded, FoldPhase
<1>3. who[w] \in User
  BY <1>1 DEF TypeInv, LocalsOK, Folding, FoldPhase
<1>4. \A g : HandedOut(g)' <=> HandedOut(g)
  BY <1>1 DEF HandedOut
<1>5. GrantsHandedOut'
  BY <1>1, <1>2, <1>3, <1>4 DEF GrantInv, GrantsHandedOut
<1>6. GrantsExclusive'
  BY <1>1, <1>2, <1>3 DEF GrantInv, GrantsExclusive
<1>7. CopiesInjective' /\ NoDoubleCount'
  BY <1>1, <1>2, <1>3 DEF GrantInv, CopiesInjective, NoDoubleCount
<1> QED
  BY <1>5, <1>6, <1>7 DEF GrantInv

\* What is written is the copy and one grant, which nothing else contains.
LEMMA GrantsWriteFeats ==
    ASSUME TypeInv, GrantInv, NEW w \in Worker, WriteFeats(w)
    PROVE  GrantInv'
<1> PICK n : n = grant[w]
  OBVIOUS
<1> PICK new : new = Append(featsCopy[w], n)
  OBVIOUS
<1>1. /\ pc[w] = "writeFeats"
      /\ pc' = [pc EXCEPT ![w] = "writeHist"]
      /\ feats' = [feats EXCEPT ![who[w]] = new]
      /\ UNCHANGED <<claims, lapsed, hist, grant, featsCopy, histCopy>>
  BY DEF WriteFeats, Goto, localVars
<1>2. Folding(w) /\ Unfolded(w) /\ Folding(w)' /\ ~Unfolded(w)'
  BY <1>1 DEF TypeInv, TypeOK, Folding, Unfolded, FoldPhase
<1>3. \A v \in Worker :
          /\ Folding(v)' <=> Folding(v)
          /\ Unfolded(v)' => Unfolded(v) /\ v # w /\ Folding(v)
  BY <1>1 DEF TypeInv, TypeOK, Folding, Unfolded, FoldPhase
<1>4. featsCopy[w] \in Seq(Grant) /\ n \in Grant
  BY <1>2 DEF TypeInv, TypeOK, LocalsOK
<1>5. /\ Range(new) = Range(featsCopy[w]) \cup {n}
      /\ IsInjective(featsCopy[w]) /\ n \notin Range(featsCopy[w]) => IsInjective(new)
  BY <1>4, AppendGrant
<1>6. \A u \in User : feats'[u] = feats[u] \/ feats'[u] = new
  BY <1>1 DEF TypeInv, TypeOK
<1>7. \A g : HandedOut(g)' <=> HandedOut(g)
  BY <1>1 DEF HandedOut
<1>8. HandedOut(n)
  BY <1>2 DEF GrantInv, GrantsHandedOut
<1>9. GrantsHandedOut'
  BY <1>1, <1>3, <1>5, <1>6, <1>7, <1>8 DEF GrantInv, GrantsHandedOut
<1>10. GrantsExclusive'
  <2>1. ASSUME NEW x \in Worker, Unfolded(x)'
        PROVE  /\ \A u \in User : grant'[x] \notin Range(feats'[u])
               /\ \A v \in Worker : grant'[x] \notin Range(featsCopy'[v])
    <3>1. /\ grant[x] # n
          /\ \A u \in User : grant[x] \notin Range(feats[u])
          /\ \A v \in Worker : grant[x] \notin Range(featsCopy[v])
      BY <1>2, <1>3, <2>1 DEF GrantInv, GrantsExclusive
    <3> QED
      BY <1>1, <1>5, <1>6, <3>1
  <2> QED
    BY <1>1, <1>3, <2>1 DEF GrantInv, GrantsExclusive
<1>11. CopiesInjective'
  BY <1>1 DEF GrantInv, CopiesInjective
<1>12. NoDoubleCount'
  <2>1. n \notin Range(featsCopy[w]) /\ IsInjective(featsCopy[w])
    BY <1>2 DEF GrantInv, GrantsExclusive, CopiesInjective
  <2> QED
    BY <1>1, <1>5, <1>6, <2>1 DEF GrantInv, NoDoubleCount
<1> QED
  BY <1>9, <1>10, <1>11, <1>12 DEF GrantInv

LEMMA GrantsWriteHist ==
    ASSUME TypeInv, GrantInv, NEW w \in Worker, WriteHist(w)
    PROVE  GrantInv'
<1> PICK n : n = grant[w]
  OBVIOUS
<1> PICK new : new = Append(histCopy[w], n)
  OBVIOUS
<1>1. /\ pc[w] = "writeHist"
      /\ pc' = [pc EXCEPT ![w] = "commit"]
      /\ hist' = [hist EXCEPT ![who[w]] = new]
      /\ grant' = [grant EXCEPT ![w] = NoGrant]
      /\ featsCopy' = [featsCopy EXCEPT ![w] = <<>>]
      /\ histCopy' = [histCopy EXCEPT ![w] = <<>>]
      /\ UNCHANGED <<claims, lapsed, feats>>
  BY DEF WriteHist, Recorded, Goto, Forget
<1>2. Folding(w) /\ ~Folding(w)'
  BY <1>1 DEF TypeInv, TypeOK, Folding, FoldPhase
<1>3. \A v \in Worker :
          /\ Folding(v)' => Folding(v) /\ v # w /\ grant'[v] = grant[v]
          /\ Unfolded(v)' => Unfolded(v) /\ Folding(v)'
          /\ featsCopy'[v] = featsCopy[v] \/ featsCopy'[v] = <<>>
          /\ histCopy'[v] = histCopy[v] \/ histCopy'[v] = <<>>
  BY <1>1 DEF TypeInv, TypeOK, Folding, Unfolded, FoldPhase
<1>4. histCopy[w] \in Seq(Grant) /\ n \in Grant
  BY <1>2 DEF TypeInv, TypeOK, LocalsOK
<1>5. /\ Range(new) = Range(histCopy[w]) \cup {n}
      /\ IsInjective(histCopy[w]) /\ n \notin Range(histCopy[w]) => IsInjective(new)
  BY <1>4, AppendGrant
<1>6. \A u \in User : hist'[u] = hist[u] \/ hist'[u] = new
  BY <1>1 DEF TypeInv, TypeOK
<1>7. \A g : HandedOut(g)' <=> HandedOut(g)
  BY <1>1 DEF HandedOut
<1>8. HandedOut(n)
  BY <1>2 DEF GrantInv, GrantsHandedOut
<1>9. GrantsHandedOut'
  BY <1>1, <1>3, <1>5, <1>6, <1>7, <1>8, NothingYet DEF GrantInv, GrantsHandedOut
<1>10. GrantsExclusive'
  <2>1. \A x, v \in Worker : Folding(x)' /\ Folding(v)' /\ x # v => grant'[x] # grant'[v]
    BY <1>3 DEF GrantInv, GrantsExclusive
  <2>2. ASSUME NEW x \in Worker, Unfolded(x)'
        PROVE  /\ \A u \in User : grant'[x] \notin Range(feats'[u])
               /\ \A v \in Worker : grant'[x] \notin Range(featsCopy'[v])
    BY <1>1, <1>3, <2>2, NothingYet DEF GrantInv, GrantsExclusive
  <2>3. ASSUME NEW x \in Worker, Folding(x)'
        PROVE  /\ \A u \in User : grant'[x] \notin Range(hist'[u])
               /\ \A v \in Worker : grant'[x] \notin Range(histCopy'[v])
    <3>1. /\ grant[x] # n /\ grant'[x] = grant[x]
          /\ \A u \in User : grant[x] \notin Range(hist[u])
          /\ \A v \in Worker : grant[x] \notin Range(histCopy[v])
      BY <1>2, <1>3, <2>3 DEF GrantInv, GrantsExclusive
    <3> QED
      BY <1>3, <1>5, <1>6, <3>1, NothingYet
  <2> QED
    BY <2>1, <2>2, <2>3 DEF GrantsExclusive
<1>11. CopiesInjective'
  BY <1>3, NothingYet DEF GrantInv, CopiesInjective
<1>12. NoDoubleCount'
  <2>1. n \notin Range(histCopy[w]) /\ IsInjective(histCopy[w])
    BY <1>2 DEF GrantInv, GrantsExclusive, CopiesInjective
  <2> QED
    BY <1>1, <1>5, <1>6, <2>1 DEF GrantInv, NoDoubleCount
<1> QED
  BY <1>9, <1>10, <1>11, <1>12 DEF GrantInv

\* The remaining steps write no key of Redis.
LEMMA GrantsStop ==
    ASSUME TypeInv, GrantInv, NEW w \in Worker, Stop(w),
           UNCHANGED <<claims, lapsed, feats, hist>>
    PROVE  GrantInv'
<1>1. Quiet
  BY DEF TypeInv, TypeOK, Stop, Forget, Goto, Quiet, Folding, Unfolded, FoldPhase
<1> QED
  BY <1>1, QuietStep

LEMMA GrantInvInit == Init => GrantInv
BY NothingYet DEF Init, GrantInv, GrantsHandedOut, GrantsExclusive,
   CopiesInjective, NoDoubleCount, Folding, Unfolded, FoldPhase

LEMMA GrantInvStep == TypeInv /\ GrantInv /\ [Next]_vars => GrantInv'
<1> SUFFICES ASSUME TypeInv, GrantInv, [Next]_vars
             PROVE  GrantInv'
  OBVIOUS
<1>1. CASE UNCHANGED vars
  <2>1. Quiet
    BY <1>1 DEF vars, redisVars, workerVars, localVars, Quiet, Folding, Unfolded
  <2> QED
    BY <2>1, QuietStep
<1>2. CASE Evict \/ \E e \in Event : Land(e)
  <2>1. Quiet
    BY <1>2 DEF Evict, Land, redisVars, workerVars, localVars, Quiet, Folding,
                Unfolded
  <2> QED
    BY <2>1, QuietStep
<1>3. CASE \E e \in Event : Lapse(e)
  BY <1>3, GrantsLapse
<1>4. ASSUME NEW w \in Worker, Start(w) \/ Join(w) \/ Assign(w) \/ DeadLetter(w)
      PROVE  GrantInv'
  <2>1. Quiet
    BY <1>4 DEF Start, Join, Assign, DeadLetter, Goto, TypeInv, TypeOK,
                redisVars, localVars, Quiet, Folding, Unfolded, FoldPhase
  <2> QED
    BY <2>1, QuietStep
<1>5. ASSUME NEW w \in Worker, Fetch(w)
      PROVE  GrantInv'
  <2>1. FirstPhase(log[pos[w]]) \notin FoldPhase
    BY DEF FirstPhase, FoldPhase
  <2>2. /\ pc' = [pc EXCEPT ![w] = FirstPhase(log[pos[w]])]
        /\ UNCHANGED <<claims, lapsed, feats, hist, grant, featsCopy, histCopy>>
    BY <1>5 DEF Fetch, Goto, redisVars, localVars
  <2>3. Quiet
    BY <2>1, <2>2 DEF TypeInv, TypeOK, Quiet, Folding, Unfolded
  <2> QED
    BY <2>3, QuietStep
<1>6. ASSUME NEW w \in Worker, \E u \in User : ScanUser(w, u)
      PROVE  GrantInv'
  BY <1>6, GrantsScan
<1>7. ASSUME NEW w \in Worker, BackfillUser(w) \/ Claim(w)
      PROVE  GrantInv'
  BY <1>7, GrantsBackfill, GrantsClaim
<1>8. ASSUME NEW w \in Worker,
             ReadFeats(w) \/ ReadHist(w) \/ WriteFeats(w) \/ WriteHist(w)
      PROVE  GrantInv'
  BY <1>8, GrantsReadFeats, GrantsReadHist, GrantsWriteFeats, GrantsWriteHist
<1>9. ASSUME NEW w \in Worker, Commit(w)
      PROVE  GrantInv'
  <2>1. CASE MayCommit(w)
    <3>1. /\ pc' = [pc EXCEPT ![w] = "idle"]
          /\ UNCHANGED <<claims, lapsed, feats, hist, grant, featsCopy, histCopy>>
      BY <1>9, <2>1 DEF Commit, Goto, redisVars, localVars
    <3>2. Quiet
      BY <3>1 DEF TypeInv, TypeOK, Quiet, Folding, Unfolded, FoldPhase
    <3> QED
      BY <3>2, QuietStep
  <2>2. CASE ~MayCommit(w)
    BY <1>9, <2>2, GrantsStop DEF Commit, redisVars
  <2> QED
    BY <2>1, <2>2
<1>10. ASSUME NEW w \in Worker, Crash(w)
       PROVE  GrantInv'
  BY <1>10, GrantsStop DEF Crash, redisVars
<1> QED
  BY <1>1, <1>2, <1>3, <1>4, <1>5, <1>6, <1>7, <1>8, <1>9, <1>10
     DEF Next, Progress

\* No event is counted twice for one claim of its id, whatever the number of
\* processes, crashes, evictions, redeliveries and expiries.
THEOREM CountedOnce == Spec => []NoDoubleCount
<1>1. Init => TypeInv /\ GrantInv
  BY TypeInvInit, GrantInvInit
<1>2. TypeInv /\ GrantInv /\ [Next]_vars => (TypeInv /\ GrantInv)'
  BY TypeInvStep, GrantInvStep
<1>3. GrantInv => NoDoubleCount
  BY DEF GrantInv
<1> QED
  BY <1>1, <1>2, <1>3, PTL DEF Spec

-----------------------------------------------------------------------------
(* Committed records.                                                      *)

\* A record that somebody dealt with stays dealt with.
LEMMA HandledForever ==
    ASSUME TypeInv, [Next]_vars, NEW i \in 1..Len(log)
    PROVE  log'[i] = log[i] /\ (Handled(i) => Handled(i)')
<1> USE DEF TypeInv, TypeOK, brokerVars, redisVars, workerVars, localVars, envVars
<1> DEFINE Kept ==
        /\ log' = log \/ \E e \in Event : log' = Append(log, e)
        /\ dlq \subseteq dlq'
        /\ \/ claims \subseteq claims' /\ lapsed' = lapsed
           \/ \E e \in Event : /\ claims' = claims \ {e}
                              /\ lapsed' = [lapsed EXCEPT ![e] = @ + 1]
<1>1. Kept
  <2>1. CASE UNCHANGED vars
    BY <2>1 DEF vars
  <2>2. ASSUME NEW e \in Event, Land(e) \/ Lapse(e)
        PROVE  Kept
    BY <2>2 DEF Land, Lapse
  <2>3. CASE Evict
    BY <2>3 DEF Evict
  <2>4. ASSUME NEW w \in Worker, Start(w) \/ Crash(w)
        PROVE  Kept
    BY <2>4 DEF Start, Crash
  <2>5. ASSUME NEW w \in Worker, Progress(w)
        PROVE  Kept
    BY <2>5 DEF Progress, ScanUser, BackfillUser, Join, Assign, Fetch, Claim,
                ReadFeats, ReadHist, WriteFeats, WriteHist, DeadLetter, Commit
  <2> QED
    BY <2>1, <2>2, <2>3, <2>4, <2>5 DEF Next
<1>2. log'[i] = log[i] /\ log[i] \in Event
  BY <1>1, LogGrows
<1>3. ASSUME NEW e \in Event, lapsed' = [lapsed EXCEPT ![e] = @ + 1],
             claims' = claims \ {e}, log[i] \in claims \/ lapsed[log[i]] > 0
      PROVE  log[i] \in claims' \/ lapsed'[log[i]] > 0
  BY <1>2, <1>3
<1> QED
  BY <1>1, <1>2, <1>3 DEF Handled

\* A process that a step leaves alone keeps its part of the invariant.
LEMMA Bystander ==
    ASSUME TypeInv, HandledInv, [Next]_vars, committed' = committed,
           NEW v \in Worker, owner' = v => owner = v,
           pc'[v] = pc[v], pos'[v] = pos[v], cur'[v] = cur[v]
    PROVE  OwnerAtFrontier(v)' /\ PhaseFitsRecord(v)'
<1>1. OwnerAtFrontier(v)'
  BY DEF HandledInv, OwnerAtFrontier
<1>2. pc[v] \in HandlePhase => cur[v] \in 1..Len(log)
  BY DEF TypeInv, TypeOK, LocalsOK
<1>3. PhaseFitsRecord(v)'
  BY <1>2, HandledForever DEF HandledInv, PhaseFitsRecord, HandlePhase
<1> QED
  BY <1>1, <1>3

LEMMA CommittedStay ==
    ASSUME TypeInv, HandledInv, [Next]_vars, committed' = committed
    PROVE  CommittedIsHandled'
<1>1. \A i \in 1..committed : i \in 1..Len(log) /\ Handled(i)
  BY DEF TypeInv, TypeOK, HandledInv, CommittedIsHandled, Handled
<1> QED
  BY <1>1, HandledForever DEF CommittedIsHandled, Handled

LEMMA HandledInvInit == Init => HandledInv
BY PipelineAssumption
   DEF Init, HandledInv, CommittedIsHandled, OwnerAtFrontier, PhaseFitsRecord,
       FoldPhase

\* A step of w that leaves the committed offset alone: the other processes
\* are bystanders.
LEMMA StepOf ==
    ASSUME TypeInv, HandledInv, [Next]_vars, committed' = committed,
           NEW w \in Worker,
           owner' \in {owner, None, w},
           \A v \in Worker \ {w} :
               pc'[v] = pc[v] /\ pos'[v] = pos[v] /\ cur'[v] = cur[v],
           OwnerAtFrontier(w)', PhaseFitsRecord(w)'
    PROVE  HandledInv'
<1>1. ASSUME NEW v \in Worker \ {w}
      PROVE  OwnerAtFrontier(v)' /\ PhaseFitsRecord(v)'
  BY <1>1, Bystander, PipelineAssumption
<1> QED
  BY <1>1, CommittedStay DEF HandledInv

LEMMA HandledInvStep == TypeInv /\ HandledInv /\ [Next]_vars => HandledInv'
<1> SUFFICES ASSUME TypeInv, HandledInv, [Next]_vars
             PROVE  HandledInv'
  OBVIOUS
<1> USE DEF brokerVars, redisVars, workerVars, localVars
<1>1. CASE UNCHANGED vars \/ Evict \/ \E e \in Event : Land(e) \/ Lapse(e)
  <2>1. /\ UNCHANGED <<committed, pc, pos, cur>>
        /\ owner' \in {owner, None}
    BY <1>1 DEF vars, Evict, Land, Lapse
  <2>2. \A v \in Worker : OwnerAtFrontier(v)' /\ PhaseFitsRecord(v)'
    BY <2>1, Bystander, PipelineAssumption
  <2> QED
    BY <2>1, <2>2, CommittedStay DEF HandledInv
<1>2. ASSUME NEW w \in Worker,
             Start(w) \/ (\E u \in User : ScanUser(w, u)) \/ BackfillUser(w) \/ Join(w)
      PROVE  HandledInv'
  <2>1. /\ UNCHANGED <<committed, owner, pos, cur>>
        /\ pc[w] \in {"down", "scan", "fill"}
        /\ \E p \in {"scan", "fill", "idle"} : pc' = [pc EXCEPT ![w] = p]
    BY <1>2 DEF Start, ScanUser, BackfillUser, Join, Goto, TypeInv, TypeOK
  <2>2. owner # w
    BY <2>1 DEF HandledInv, OwnerAtFrontier, HandlePhase, FoldPhase
  <2>3. OwnerAtFrontier(w)' /\ PhaseFitsRecord(w)'
    BY <2>1, <2>2 DEF OwnerAtFrontier, PhaseFitsRecord, TypeInv, TypeOK, FoldPhase
  <2> QED
    BY <2>1, <2>3, StepOf DEF TypeInv, TypeOK
<1>3. ASSUME NEW w \in Worker, Assign(w)
      PROVE  HandledInv'
  <2>1. /\ UNCHANGED <<committed, pc, cur>>
        /\ owner' = w
        /\ pc[w] = "idle"
        /\ pos' = [pos EXCEPT ![w] = committed + 1]
    BY <1>3 DEF Assign, Resume
  <2>2. OwnerAtFrontier(w)' /\ PhaseFitsRecord(w)'
    BY <2>1 DEF OwnerAtFrontier, PhaseFitsRecord, TypeInv, TypeOK, FoldPhase
  <2> QED
    BY <2>1, <2>2, StepOf DEF TypeInv, TypeOK
<1>4. ASSUME NEW w \in Worker, Fetch(w)
      PROVE  HandledInv'
  <2>1. /\ UNCHANGED <<committed, owner, log>>
        /\ pc[w] = "idle"
        /\ pos[w] \in 1..Len(log)
        /\ cur' = [cur EXCEPT ![w] = pos[w]]
        /\ pos' = [pos EXCEPT ![w] = @ + 1]
        /\ pc' = [pc EXCEPT ![w] = FirstPhase(log[pos[w]])]
    BY <1>4 DEF Fetch, Goto
  <2>2. OwnerAtFrontier(w)'
    <3>1. owner = w => pos[w] = committed + 1
      BY <2>1 DEF HandledInv, OwnerAtFrontier, HandlePhase, FoldPhase
    <3>2. FirstPhase(log[pos[w]]) \in HandlePhase
      BY DEF FirstPhase, HandlePhase
    <3>3. /\ cur'[w] = pos[w] /\ pos'[w] = pos[w] + 1
          /\ pc'[w] = FirstPhase(log[pos[w]])
          /\ committed \in Nat
      BY <2>1 DEF TypeInv, TypeOK
    <3> QED
      BY <2>1, <3>1, <3>2, <3>3 DEF OwnerAtFrontier
  <2>3. PhaseFitsRecord(w)'
    BY <2>1 DEF PhaseFitsRecord, FirstPhase, FoldPhase, TypeInv, TypeOK
  <2> QED
    BY <2>1, <2>2, <2>3, StepOf DEF TypeInv, TypeOK
<1>5. ASSUME NEW w \in Worker, Claim(w) \/ DeadLetter(w)
      PROVE  HandledInv'
  <2>1. /\ UNCHANGED <<committed, owner, log, pos, cur>>
        /\ pc[w] \in {"claim", "deadLetter"}
        /\ \E p \in {"commit", "readFeats"} : pc' = [pc EXCEPT ![w] = p]
        /\ pc[w] = "claim" => log[cur[w]] \in claims'
        /\ pc[w] = "deadLetter" => cur[w] \in dlq'
    BY <1>5 DEF Claim, AlreadyClaimed, DeadLetter, Goto, TypeInv, TypeOK
  <2>2. OwnerAtFrontier(w)'
    BY <2>1 DEF OwnerAtFrontier, HandledInv, HandlePhase, FoldPhase, TypeInv, TypeOK
  <2>3. PhaseFitsRecord(w)'
    BY <2>1 DEF PhaseFitsRecord, Handled, HandledInv, FoldPhase, TypeInv, TypeOK
  <2> QED
    BY <2>1, <2>2, <2>3, StepOf DEF TypeInv, TypeOK
<1>6. ASSUME NEW w \in Worker,
             ReadFeats(w) \/ ReadHist(w) \/ WriteFeats(w) \/ WriteHist(w)
      PROVE  HandledInv'
  <2>1. /\ UNCHANGED <<committed, owner, log, dlq, claims, lapsed, pos, cur>>
        /\ pc[w] \in FoldPhase
        /\ \E p \in FoldPhase \cup {"commit"} : pc' = [pc EXCEPT ![w] = p]
    BY <1>6 DEF ReadFeats, ReadHist, WriteFeats, WriteHist, Goto, FoldPhase
  <2>2. OwnerAtFrontier(w)'
    BY <2>1 DEF OwnerAtFrontier, HandledInv, HandlePhase, FoldPhase, TypeInv, TypeOK
  <2>3. PhaseFitsRecord(w)'
    BY <2>1 DEF PhaseFitsRecord, Handled, HandledInv, FoldPhase, TypeInv, TypeOK
  <2> QED
    BY <2>1, <2>2, <2>3, StepOf DEF TypeInv, TypeOK
<1>7. ASSUME NEW w \in Worker, Stop(w), committed' = committed
      PROVE  HandledInv'
  <2>1. /\ owner' = IF owner = w THEN None ELSE owner
        /\ pc' = [pc EXCEPT ![w] = "down"]
        /\ pos' = [pos EXCEPT ![w] = 0]
        /\ cur' = [cur EXCEPT ![w] = 0]
    BY <1>7 DEF Stop, Goto
  <2>2. OwnerAtFrontier(w)' /\ PhaseFitsRecord(w)'
    BY <2>1, PipelineAssumption DEF OwnerAtFrontier, PhaseFitsRecord, FoldPhase, TypeInv, TypeOK
  <2> QED
    BY <1>7, <2>1, <2>2, StepOf DEF TypeInv, TypeOK
<1>8. ASSUME NEW w \in Worker, Commit(w), MayCommit(w)
      PROVE  HandledInv'
  <2>1. /\ owner = w /\ owner' = w
        /\ pc[w] = "commit"
        /\ pc' = [pc EXCEPT ![w] = "idle"]
        /\ cur' = [cur EXCEPT ![w] = 0]
        /\ committed' = cur[w]
        /\ UNCHANGED <<log, dlq, claims, lapsed, pos>>
    BY <1>8 DEF Commit, MayCommit, CommitOffset, Goto
  <2>2. cur[w] = committed + 1 /\ pos[w] = cur[w] + 1 /\ Handled(cur[w])
    BY <2>1 DEF HandledInv, OwnerAtFrontier, PhaseFitsRecord, TypeInv, TypeOK
  <2>3. OwnerAtFrontier(w)' /\ PhaseFitsRecord(w)'
    BY <2>1, <2>2 DEF OwnerAtFrontier, PhaseFitsRecord, FoldPhase, TypeInv, TypeOK
  <2>4. ASSUME NEW v \in Worker, v # w
        PROVE  OwnerAtFrontier(v)' /\ PhaseFitsRecord(v)'
    BY <2>1, <2>4 DEF OwnerAtFrontier, PhaseFitsRecord, Handled, HandledInv,
                      TypeInv, TypeOK
  <2>5. CommittedIsHandled'
    BY <2>1, <2>2 DEF CommittedIsHandled, Handled, HandledInv, TypeInv, TypeOK
  <2> QED
    BY <2>3, <2>4, <2>5 DEF HandledInv
<1>9. ASSUME NEW w \in Worker, Commit(w) \/ Crash(w)
      PROVE  HandledInv'
  BY <1>7, <1>8, <1>9 DEF Commit, Crash
<1> QED
  BY <1>1, <1>2, <1>3, <1>4, <1>5, <1>6, <1>9 DEF Next, Progress

\* Nothing below the committed offset was skipped.
THEOREM CommittedWasHandled == Spec => []CommittedIsHandled
<1>1. Init => TypeInv /\ HandledInv
  BY TypeInvInit, HandledInvInit
<1>2. TypeInv /\ HandledInv /\ [Next]_vars => (TypeInv /\ HandledInv)'
  BY TypeInvStep, HandledInvStep
<1>3. HandledInv => CommittedIsHandled
  BY DEF HandledInv
<1> QED
  BY <1>1, <1>2, <1>3, PTL DEF Spec

\* The committed offset never moves back, whoever reaches its commit: a
\* former owner is refused, and the owner is at the frontier.
THEOREM CommitMonotone == Spec => CommitNeverRegresses
<1>1. Init => TypeInv /\ HandledInv
  BY TypeInvInit, HandledInvInit
<1>2. TypeInv /\ HandledInv /\ [Next]_vars => (TypeInv /\ HandledInv)'
  BY TypeInvStep, HandledInvStep
<1>3. TypeInv /\ HandledInv /\ [Next]_vars => [committed' >= committed]_vars
  <2> SUFFICES ASSUME TypeInv, HandledInv, Next
               PROVE  committed' >= committed
    OBVIOUS
  <2>1. CASE UNCHANGED committed
    BY <2>1 DEF TypeInv, TypeOK
  <2>2. ASSUME NEW w \in Worker, Commit(w), MayCommit(w)
        PROVE  committed' >= committed
    <3>1. owner = w /\ pc[w] = "commit" /\ committed' = cur[w]
      BY <2>2 DEF Commit, MayCommit, CommitOffset
    <3>2. cur[w] = committed + 1
      BY <3>1 DEF HandledInv, OwnerAtFrontier
    <3> QED
      BY <3>1, <3>2 DEF TypeInv, TypeOK
  <2>3. UNCHANGED committed \/ \E w \in Worker : Commit(w) /\ MayCommit(w)
    BY DEF Next, Progress, Land, Lapse, Evict, Start, Crash, ScanUser,
           BackfillUser, Join, Assign, Fetch, Claim, ReadFeats, ReadHist,
           WriteFeats, WriteHist, DeadLetter, Commit, brokerVars
  <2> QED
    BY <2>1, <2>2, <2>3
<1> QED
  BY <1>1, <1>2, <1>3, PTL DEF Spec, CommitNeverRegresses

-----------------------------------------------------------------------------
(* The refinement: with one consumer process, EventPipeline implements     *)
(* FeatureLedger.                                                          *)

\* At most one consumer process, as docker-compose.yml runs it.
Alone == \A v, w \in Worker : v = w

\* What the only writer has read is still what is stored, and the grant it
\* holds is for an event of the log and of the user it works on.
AloneInv ==
    \A w \in Worker :
        /\ pc[w] \in {"fill", "readHist", "writeFeats"} => featsCopy[w] = feats[who[w]]
        /\ pc[w] = "claim" => log[cur[w]] \in Range(log)
        /\ Folding(w) => /\ grant[w][1] \in Range(log)
                         /\ who[w] = UserOf[grant[w][1]]

LEMMA AloneInvInit == Init => AloneInv
BY DEF Init, AloneInv, Folding, FoldPhase

\* The log only grows.
LEMMA LogKept ==
    ASSUME TypeInv, [Next]_vars
    PROVE  \/ log' = log
           \/ \E e \in Event : Land(e) /\ Range(log') = Range(log) \cup {e}
<1>1. ASSUME NEW e \in Event, Land(e)
      PROVE  Range(log') = Range(log) \cup {e}
  <2>1. /\ log' = Append(log, e)
        /\ DOMAIN log = 1..Len(log) /\ DOMAIN log' = 1..(Len(log) + 1)
        /\ Len(log) \in Nat
        /\ \A i \in 1..Len(log) : log'[i] = log[i]
        /\ log'[Len(log) + 1] = e
    BY <1>1 DEF Land, TypeInv, TypeOK
  <2> QED
    BY <2>1 DEF Range
<1>2. log' = log \/ \E e \in Event : Land(e)
  BY DEF Next, Progress, vars, Lapse, Evict, Start, Crash, ScanUser,
         BackfillUser, Join, Assign, Fetch, Claim, ReadFeats, ReadHist,
         WriteFeats, WriteHist, DeadLetter, Commit, brokerVars
<1> QED
  BY <1>1, <1>2

LEMMA AloneInvStep ==
    ASSUME Alone, TypeInv, AloneInv, [Next]_vars
    PROVE  AloneInv'
<1> SUFFICES ASSUME NEW w \in Worker
             PROVE  /\ pc'[w] \in {"fill", "readHist", "writeFeats"} => featsCopy'[w] = feats'[who'[w]]
                    /\ pc'[w] = "claim" => log'[cur'[w]] \in Range(log')
                    /\ Folding(w)' => /\ grant'[w][1] \in Range(log')
                                      /\ who'[w] = UserOf[grant'[w][1]]
  BY DEF AloneInv
<1> DEFINE Goal ==
        /\ pc'[w] \in {"fill", "readHist", "writeFeats"} => featsCopy'[w] = feats'[who'[w]]
        /\ pc'[w] = "claim" => log'[cur'[w]] \in Range(log')
        /\ pc'[w] \in FoldPhase => /\ grant'[w][1] \in Range(log')
                                   /\ who'[w] = UserOf[grant'[w][1]]
<1>1. \A v \in Worker : v = w
  BY DEF Alone
<1>2. /\ pc[w] \in {"fill", "readHist", "writeFeats"} => featsCopy[w] = feats[who[w]]
      /\ pc[w] = "claim" => log[cur[w]] \in Range(log) /\ cur[w] \in 1..Len(log)
      /\ pc[w] \in FoldPhase => /\ grant[w][1] \in Range(log)
                                /\ who[w] = UserOf[grant[w][1]]
  BY DEF AloneInv, Folding, TypeInv, TypeOK, LocalsOK, HandlePhase
<1>3. CASE UNCHANGED vars \/ Evict \/ \E e \in Event : Land(e) \/ Lapse(e)
  <2>1. UNCHANGED <<pc, who, grant, featsCopy, feats, cur>>
    BY <1>3 DEF vars, Evict, Land, Lapse, redisVars, workerVars, localVars
  <2>2. Range(log) \subseteq Range(log')
    BY LogKept
  <2>3. pc[w] = "claim" => log'[cur[w]] = log[cur[w]]
    BY <1>2, HandledForever
  <2> QED
    BY <1>2, <2>1, <2>2, <2>3 DEF Folding
<1>4. CASE Start(w) \/ Join(w) \/ Assign(w) \/ DeadLetter(w)
  BY <1>2, <1>4 DEF Start, Join, Assign, DeadLetter, Goto, brokerVars, redisVars,
                    localVars, TypeInv, TypeOK, Folding, FoldPhase
<1>5. ASSUME NEW u \in User, ScanUser(w, u)
      PROVE  Goal
  BY <1>2, <1>5 DEF ScanUser, Goto, redisVars, TypeInv, TypeOK, FoldPhase
<1>6. CASE BackfillUser(w)
  BY <1>6 DEF BackfillUser, Goto, TypeInv, TypeOK, Folding, FoldPhase
<1>7. CASE Fetch(w)
  <2>1. /\ pc' = [pc EXCEPT ![w] = FirstPhase(log[pos[w]])]
        /\ cur' = [cur EXCEPT ![w] = pos[w]]
        /\ log' = log
        /\ pos[w] \in DOMAIN log
    BY <1>7 DEF Fetch, Goto, brokerVars, TypeInv, TypeOK
  <2>2. FirstPhase(log[pos[w]]) \in {"deadLetter", "claim"}
    BY DEF FirstPhase
  <2>3. log[pos[w]] \in Range(log)
    BY <2>1 DEF Range
  <2> QED
    BY <2>1, <2>2, <2>3 DEF TypeInv, TypeOK, Folding, FoldPhase
<1>8. CASE Claim(w)
  <2>1. /\ pc[w] = "claim" /\ log' = log /\ cur' = cur
        /\ \/ pc' = [pc EXCEPT ![w] = "commit"]
           \/ /\ pc' = [pc EXCEPT ![w] = "readFeats"]
              /\ grant' = [grant EXCEPT ![w] = <<log[cur[w]], lapsed[log[cur[w]]]>>]
              /\ who' = [who EXCEPT ![w] = UserOf[log[cur[w]]]]
    BY <1>8 DEF Claim, Goto, brokerVars
  <2> QED
    BY <1>2, <2>1 DEF TypeInv, TypeOK, Folding, FoldPhase
<1>9. CASE ReadFeats(w) \/ ReadHist(w) \/ WriteFeats(w) \/ WriteHist(w)
  BY <1>2, <1>9 DEF ReadFeats, ReadHist, WriteFeats, WriteHist, Goto, brokerVars,
                    redisVars, localVars, TypeInv, TypeOK, Folding, FoldPhase
<1>10. ASSUME Stop(w)
       PROVE  pc'[w] = "down"
  BY <1>10 DEF Stop, Goto, TypeInv, TypeOK
<1>11. CASE Commit(w) \/ Crash(w)
  <2>1. pc'[w] \in {"idle", "down"}
    BY <1>10, <1>11 DEF Commit, Crash, Goto, TypeInv, TypeOK
  <2> QED
    BY <2>1 DEF Folding, FoldPhase
<1> QED
  BY <1>1, <1>3, <1>4, <1>5, <1>6, <1>7, <1>8, <1>9, <1>11
     DEF Next, Progress, Folding

LEMMA LedgerStep ==
    ASSUME Alone, TypeInv, GrantInv, AloneInv, [Next]_vars
    PROVE  [Ledger!LedgerNext]_<<Range(log), lapsed, feats>>
<1> USE DEF Ledger!LedgerNext
<1>1. ASSUME NEW e \in Event, Land(e)
      PROVE  Ledger!Offer(e)
  <2>1. log' = Append(log, e) /\ UNCHANGED <<lapsed, feats>>
    BY <1>1 DEF Land, redisVars
  <2>2. Range(log') = Range(log) \cup {e}
    <3>1. /\ DOMAIN log = 1..Len(log) /\ DOMAIN log' = 1..(Len(log) + 1)
          /\ Len(log) \in Nat
          /\ \A i \in 1..Len(log) : log'[i] = log[i]
          /\ log'[Len(log) + 1] = e
      BY <2>1 DEF TypeInv, TypeOK
    <3> QED
      BY <3>1 DEF Range
  <2> QED
    BY <2>1, <2>2 DEF Ledger!Offer
<1>2. ASSUME NEW e \in Event, Lapse(e)
      PROVE  Ledger!LapseOf(e)
  BY <1>2 DEF Lapse, brokerVars, Ledger!LapseOf
<1>3. ASSUME NEW w \in Worker, WriteFeats(w)
      PROVE  \E e \in Event : \E n \in 0..lapsed[e] : Ledger!Fold(e, n)
  <2>1. /\ pc[w] = "writeFeats"
        /\ feats' = [feats EXCEPT ![who[w]] = Append(featsCopy[w], grant[w])]
        /\ UNCHANGED <<log, lapsed>>
    BY <1>3 DEF WriteFeats, brokerVars
  <2>2. Folding(w) /\ Unfolded(w)
    BY <2>1 DEF Folding, Unfolded, FoldPhase
  <2> PICK e \in Event, n \in Nat : grant[w] = <<e, n>>
    BY <2>2 DEF TypeInv, LocalsOK, Grant
  <2>3. featsCopy[w] = feats[who[w]] /\ who[w] = UserOf[e] /\ e \in Range(log)
    BY <2>1, <2>2 DEF AloneInv
  <2>4. HandedOut(<<e, n>>)
    BY <2>2 DEF GrantInv, GrantsHandedOut
  <2>5. n \in 0..lapsed[e]
    BY <2>4 DEF HandedOut, TypeInv, TypeOK
  <2>6. who[w] \in User /\ <<e, n>> \notin Range(feats[who[w]])
    BY <2>2 DEF GrantInv, GrantsExclusive, TypeInv, LocalsOK
  <2>7. Ledger!Fold(e, n)
    <3>1. feats' = [feats EXCEPT ![UserOf[e]] = Append(feats[UserOf[e]], <<e, n>>)]
      BY <2>1, <2>3
    <3>2. <<e, n>> \notin Range(feats[UserOf[e]])
      BY <2>3, <2>6
    <3>3. UNCHANGED <<Range(log), lapsed>>
      BY <2>1
    <3>4. \A f : Ledger!Range(f) = Range(f)
      BY DEF Ledger!Range, Range
    <3> QED
      BY <2>3, <2>5, <3>1, <3>2, <3>3, <3>4 DEF Ledger!Fold
  <2> QED
    BY <2>5, <2>7
<1>4. ASSUME NEW w \in Worker, BackfillUser(w)
      PROVE  UNCHANGED <<log, lapsed, feats>>
  <2>1. featsCopy[w] = feats[who[w]]
    BY <1>4 DEF BackfillUser, AloneInv
  <2> QED
    BY <1>4, <2>1 DEF BackfillUser, Backfilled, brokerVars, TypeInv, TypeOK
<1>5. ASSUME NEW w \in Worker,
             Start(w) \/ Crash(w) \/ (Progress(w) /\ ~WriteFeats(w) /\ ~BackfillUser(w))
      PROVE  UNCHANGED <<log, lapsed, feats>>
  BY <1>5 DEF Start, Crash, Progress, ScanUser, Join, Assign, Fetch, Claim,
              ReadFeats, ReadHist, WriteHist, DeadLetter, Commit, brokerVars,
              redisVars
<1>6. CASE Evict \/ UNCHANGED vars
  BY <1>6 DEF Evict, vars, brokerVars, redisVars
<1>7. CASE \E w \in Worker : Start(w) \/ Progress(w) \/ Crash(w)
  BY <1>3, <1>4, <1>5, <1>7
<1> QED
  BY <1>1, <1>2, <1>6, <1>7 DEF Next

\* With one process the pipeline is an at-most-once ledger: no restart, backfill,
\* redelivery or eviction removes, reorders or repeats what was folded.
THEOREM PipelineImplementsLedger == Alone => (Spec => ImplementsLedger)
<1> SUFFICES ASSUME Alone
             PROVE  Spec => ImplementsLedger
  OBVIOUS
<1>1. Init => TypeInv /\ GrantInv /\ AloneInv
  BY TypeInvInit, GrantInvInit, AloneInvInit
<1>2. TypeInv /\ GrantInv /\ AloneInv /\ [Next]_vars
        => (TypeInv /\ GrantInv /\ AloneInv)'
  BY TypeInvStep, GrantInvStep, AloneInvStep
<1>3. Init => Ledger!LedgerInit
  BY NothingYet DEF Init, Ledger!LedgerInit
<1>4. TypeInv /\ GrantInv /\ AloneInv /\ [Next]_vars
        => [Ledger!LedgerNext]_(Ledger!ledgerVars)
  BY LedgerStep DEF Ledger!ledgerVars
<1> QED
  BY <1>1, <1>2, <1>3, <1>4, PTL DEF Spec, ImplementsLedger, Ledger!LedgerSpec

-----------------------------------------------------------------------------
(* First positions.                                                        *)

FirstIn(s, e) ==
    CHOOSE i \in DOMAIN s : s[i] = e /\ \A j \in 1..(i - 1) : s[j] # e

IsFirstIn(s, e, i) ==
    /\ i \in 1..Len(s) /\ s[i] = e
    /\ \A j \in 1..Len(s) : s[j] = e => i <= j

\* What is in a sequence has a first position there.
LEMMA FirstIsThere ==
    ASSUME NEW s \in Seq(Event), NEW e \in Range(s)
    PROVE  IsFirstIn(s, e, FirstIn(s, e))
<1> DEFINE At == {i \in 1..Len(s) : s[i] = e}
<1>1. DOMAIN s = 1..Len(s) /\ Len(s) \in Nat
  OBVIOUS
<1>2. At \in SUBSET Nat /\ At # {}
  BY <1>1 DEF Range
<1>3. PICK i \in At : \A j \in At : i <= j
  <2> DEFINE R == {p \in Nat \X Nat : p[1] < p[2]}
  <2>1. IsWellFoundedOn(R, Nat)
    BY NatLessThanWellFounded DEF OpToRel
  <2>2. PICK i \in At : \A j \in At : ~(<<j, i>> \in R)
    <3> HIDE DEF At, R
    <3> QED
      BY <1>2, <2>1, WFMin
  <2>3. ASSUME NEW j \in At PROVE i <= j
    <3>1. ~(<<j, i>> \in R) /\ i \in Nat /\ j \in Nat
      BY <1>2, <2>2
    <3> HIDE DEF At
    <3> QED
      BY <3>1
  <2> QED
    BY <2>3
<1>4. i \in DOMAIN s /\ s[i] = e /\ \A j \in 1..(i - 1) : s[j] # e
  BY <1>1, <1>3
<1>5. /\ FirstIn(s, e) \in DOMAIN s /\ s[FirstIn(s, e)] = e
      /\ \A j \in 1..(FirstIn(s, e) - 1) : s[j] # e
  BY <1>4 DEF FirstIn
<1> QED
  BY <1>1, <1>5 DEF IsFirstIn

\* It is the same after an append.
LEMMA FirstStays ==
    ASSUME NEW s \in Seq(Event), NEW d \in Event, NEW e \in Range(s)
    PROVE  FirstIn(Append(s, d), e) = FirstIn(s, e)
<1> DEFINE t == Append(s, d)
<1>1. /\ t \in Seq(Event) /\ Len(t) = Len(s) + 1 /\ Len(s) \in Nat
      /\ DOMAIN s = 1..Len(s) /\ DOMAIN t = 1..(Len(s) + 1)
      /\ \A i \in 1..Len(s) : t[i] = s[i]
  OBVIOUS
<1> HIDE DEF t
<1>2. e \in Range(t)
  BY <1>1 DEF Range
<1>3. IsFirstIn(s, e, FirstIn(s, e)) /\ IsFirstIn(t, e, FirstIn(t, e))
  BY <1>1, <1>2, FirstIsThere
<1> QED
  BY <1>1, <1>3 DEF IsFirstIn, t

-----------------------------------------------------------------------------
(* The order of the folds, with one consumer process.                      *)

BeforeIn(l, d, e) == FirstIn(l, d) < FirstIn(l, e)

OrderedIn(l, s) ==
    \A i, j \in DOMAIN s :
        (i < j /\ s[i][2] = 0 /\ s[j][2] = 0) => BeforeIn(l, s[i][1], s[j][1])

\* The event was claimed at some time.
EverClaimed(e) == e \in claims \/ lapsed[e] > 0

\* The only process works at the first record that is not committed, whether
\* or not the partition is still its own.
FrontierInv ==
    \A w \in Worker :
        /\ pc[w] \in {"down", "scan", "fill"} => pos[w] = 0
        /\ pc[w] = "idle" => pos[w] \in {0, committed + 1}
        /\ pc[w] \in HandlePhase => cur[w] = committed + 1 /\ pos[w] = committed + 2

\* What was claimed stands in the log, no later than the record in hand.
ReachedInv ==
    \A e \in Event : EverClaimed(e) => \E i \in 1..Len(log) : i <= committed + 1 /\ log[i] = e

\* The history that was read is still the one that is stored.
HistReadInv ==
    \A w \in Worker : pc[w] \in {"writeFeats", "writeHist"} => histCopy[w] = hist[who[w]]

\* The grant in hand, if it is the first of its event, comes after every such
\* grant that is stored.
HeldIsLast ==
    \A w \in Worker : (Folding(w) /\ grant[w][2] = 0) =>
        \A u \in User : \A g \in Range(feats[u]) \cup Range(hist[u]) :
            (g[2] = 0 /\ g # grant[w]) => BeforeIn(log, g[1], grant[w][1])

KeysInOrder == \A u \in User : OrderedIn(log, feats[u]) /\ OrderedIn(log, hist[u])

OrderInv == FrontierInv /\ ReachedInv /\ HistReadInv /\ HeldIsLast /\ KeysInOrder

LEMMA OrderInvInit == Init => OrderInv
BY NothingYet DEF Init, OrderInv, FrontierInv, ReachedInv, HistReadInv, HeldIsLast,
   KeysInOrder, EverClaimed, OrderedIn, Folding, FoldPhase, HandlePhase

LEMMA FrontierStep ==
    ASSUME Alone, TypeInv, FrontierInv, [Next]_vars
    PROVE  FrontierInv'
<1> SUFFICES ASSUME NEW w \in Worker
             PROVE  /\ pc'[w] \in {"down", "scan", "fill"} => pos'[w] = 0
                    /\ pc'[w] = "idle" => pos'[w] \in {0, committed' + 1}
                    /\ pc'[w] \in HandlePhase => cur'[w] = committed' + 1 /\ pos'[w] = committed' + 2
  BY DEF FrontierInv
<1> DEFINE At(p, q, c, m) ==
        /\ p \in {"down", "scan", "fill"} => q = 0
        /\ p = "idle" => q \in {0, m + 1}
        /\ p \in HandlePhase => c = m + 1 /\ q = m + 2
<1>1. At(pc[w], pos[w], cur[w], committed) /\ \A v \in Worker : v = w
  BY DEF FrontierInv, Alone
<1>2. CASE UNCHANGED <<pc, pos, cur, committed>>
  BY <1>1, <1>2
<1>3. ASSUME UNCHANGED <<pos, cur, committed>>, NEW p, pc' = [pc EXCEPT ![w] = p],
             \/ pc[w] \in HandlePhase /\ p \in HandlePhase
             \/ pc[w] \in {"down", "scan", "fill"} /\ p \in {"scan", "fill", "idle"}
      PROVE  At(p, pos[w], cur[w], committed) /\ pc'[w] = p
  BY <1>1, <1>3 DEF HandlePhase, FoldPhase, TypeInv, TypeOK
<1>4. CASE Start(w) \/ Join(w) \/ BackfillUser(w) \/ \E u \in User : ScanUser(w, u)
  BY <1>2, <1>3, <1>4 DEF Start, Join, BackfillUser, ScanUser, Goto, brokerVars, localVars
<1>5. CASE Claim(w) \/ ReadFeats(w) \/ ReadHist(w) \/ WriteFeats(w) \/ WriteHist(w) \/ DeadLetter(w)
  BY <1>3, <1>5 DEF Claim, ReadFeats, ReadHist, WriteFeats, WriteHist, DeadLetter, Goto,
                    brokerVars, localVars, HandlePhase, FoldPhase
<1>6. CASE Assign(w)
  BY <1>6 DEF Assign, Resume, HandlePhase, FoldPhase, TypeInv, TypeOK
<1>7. CASE Fetch(w)
  <2>1. /\ pc[w] = "idle" /\ pos[w] # 0 /\ pos[w] = committed + 1
        /\ pos' = [pos EXCEPT ![w] = @ + 1]
        /\ cur' = [cur EXCEPT ![w] = pos[w]]
        /\ pc' = [pc EXCEPT ![w] = FirstPhase(log[pos[w]])]
        /\ committed' = committed
    BY <1>1, <1>7 DEF Fetch, Goto, brokerVars, TypeInv, TypeOK
  <2>2. FirstPhase(log[pos[w]]) \in {"claim", "deadLetter"}
    BY DEF FirstPhase
  <2> QED
    BY <2>1, <2>2 DEF TypeInv, TypeOK, HandlePhase, FoldPhase
<1>8. ASSUME Stop(w)
      PROVE  pc'[w] = "down" /\ pos'[w] = 0
  BY <1>8 DEF Stop, Goto, TypeInv, TypeOK
<1>9. CASE Commit(w) \/ Crash(w)
  <2>1. CASE Stop(w)
    BY <2>1, <1>8 DEF HandlePhase, FoldPhase
  <2>2. CASE /\ pc[w] = "commit" /\ pc' = [pc EXCEPT ![w] = "idle"]
             /\ committed' = cur[w] /\ pos' = pos
    BY <1>1, <2>2 DEF HandlePhase, FoldPhase, TypeInv, TypeOK
  <2> QED
    BY <1>9, <2>1, <2>2 DEF Commit, CommitOffset, Crash, Goto, localVars
<1>10. CASE UNCHANGED vars \/ Evict \/ \E e \in Event : Land(e) \/ Lapse(e)
  BY <1>2, <1>10 DEF vars, Evict, Land, Lapse, brokerVars, workerVars
<1> QED
  BY <1>1, <1>4, <1>5, <1>6, <1>7, <1>9, <1>10 DEF Next, Progress

LEMMA ReachedStep ==
    ASSUME Alone, TypeInv, FrontierInv, ReachedInv, [Next]_vars
    PROVE  ReachedInv'
<1>1. committed' >= committed
  <2>1. ASSUME NEW w \in Worker, pc[w] = "commit", committed' = cur[w]
        PROVE  committed' >= committed
    BY <2>1 DEF FrontierInv, HandlePhase, TypeInv, TypeOK
  <2>2. committed' = committed \/ \E w \in Worker : pc[w] = "commit" /\ committed' = cur[w]
    BY DEF Next, Progress, vars, Land, Lapse, Evict, Start, Crash, ScanUser,
           BackfillUser, Join, Assign, Fetch, Claim, ReadFeats, ReadHist,
           WriteFeats, WriteHist, DeadLetter, Commit, CommitOffset, brokerVars
  <2> QED
    BY <2>1, <2>2 DEF TypeInv, TypeOK
<1>2. ASSUME NEW i \in 1..Len(log), i <= committed + 1
      PROVE  i \in 1..Len(log') /\ i <= committed' + 1 /\ log'[i] = log[i]
  <2>1. log' = log \/ \E e \in Event : log' = Append(log, e)
    BY LogKept DEF Land
  <2>2. log \in Seq(Event) /\ committed \in Nat /\ committed' \in Nat
    BY TypeInvStep DEF TypeInv, TypeOK
  <2>3. i <= committed' + 1
    <3>1. i \in Int
      BY <2>2
    <3>2. \A m, n \in Nat : n >= m /\ i <= m + 1 => i <= n + 1
      BY <3>1
    <3> QED
      BY <1>1, <1>2, <2>2, <3>2, Zenon
  <2>4. ASSUME NEW e \in Event, log' = Append(log, e)
        PROVE  i \in 1..Len(log') /\ log'[i] = log[i]
    BY <2>2, <2>4, LogGrows
  <2> QED
    BY <2>1, <2>2, <2>3, <2>4
<1>3. ASSUME NEW e \in Event, EverClaimed(e)'
      PROVE  \/ EverClaimed(e)
             \/ \E w \in Worker : pc[w] = "claim" /\ log[cur[w]] = e
  <2>1. CASE UNCHANGED <<claims, lapsed>>
    BY <1>3, <2>1 DEF EverClaimed
  <2>2. ASSUME NEW d \in Event, Lapse(d)
        PROVE  EverClaimed(e)
    BY <1>3, <2>2 DEF EverClaimed, Lapse, TypeInv, TypeOK
  <2>3. ASSUME NEW w \in Worker, Claim(w)
        PROVE  EverClaimed(e) \/ (pc[w] = "claim" /\ log[cur[w]] = e)
    BY <1>3, <2>3 DEF EverClaimed, Claim
  <2>4. \/ UNCHANGED <<claims, lapsed>>
        \/ \E d \in Event : Lapse(d)
        \/ \E w \in Worker : Claim(w)
    BY DEF Next, Progress, vars, Land, Evict, Start, Crash, ScanUser,
           BackfillUser, Join, Assign, Fetch, ReadFeats, ReadHist,
           WriteFeats, WriteHist, DeadLetter, Commit, redisVars
  <2> QED
    BY <2>1, <2>2, <2>3, <2>4
<1>4. ASSUME NEW w \in Worker, pc[w] = "claim"
      PROVE  cur[w] \in 1..Len(log) /\ cur[w] <= committed + 1
  BY <1>4 DEF FrontierInv, HandlePhase, TypeInv, TypeOK, LocalsOK
<1> QED
  BY <1>2, <1>3, <1>4 DEF ReachedInv

\* With one process, a step leaves the two keys of every user as they are, or
\* appends the grant in hand to one of them.
Folds(w) ==
    /\ WriteFeats(w)
    /\ feats' = [feats EXCEPT ![who[w]] = Append(feats[who[w]], grant[w])]
    /\ hist' = hist

Records(w) ==
    /\ WriteHist(w)
    /\ hist' = [hist EXCEPT ![who[w]] = Append(hist[who[w]], grant[w])]
    /\ feats' = feats

KeysStep ==
    \/ UNCHANGED <<feats, hist>>
    \/ \E w \in Worker : Folds(w) \/ Records(w)

LEMMA KeysChange ==
    ASSUME Alone, TypeInv, AloneInv, HistReadInv, [Next]_vars
    PROVE  KeysStep
<1>1. ASSUME NEW w \in Worker, WriteFeats(w)
      PROVE  Folds(w)
  BY <1>1 DEF Folds, WriteFeats, AloneInv
<1>2. ASSUME NEW w \in Worker, WriteHist(w)
      PROVE  Records(w)
  BY <1>2 DEF Records, WriteHist, Recorded, HistReadInv
<1>3. ASSUME NEW w \in Worker, BackfillUser(w)
      PROVE  UNCHANGED <<feats, hist>>
  BY <1>3 DEF BackfillUser, Backfilled, AloneInv, TypeInv, TypeOK
<1>4. \/ UNCHANGED <<feats, hist>>
      \/ \E w \in Worker : WriteFeats(w) \/ WriteHist(w) \/ BackfillUser(w)
  BY DEF Next, Progress, vars, Land, Lapse, Evict, Start, Crash, ScanUser,
         Join, Assign, Fetch, Claim, ReadFeats, ReadHist, DeadLetter, Commit, redisVars
<1> QED
  BY <1>1, <1>2, <1>3, <1>4 DEF KeysStep

LEMMA HistReadStep ==
    ASSUME Alone, TypeInv, AloneInv, HistReadInv, [Next]_vars
    PROVE  HistReadInv'
<1> SUFFICES ASSUME NEW w \in Worker, pc'[w] \in {"writeFeats", "writeHist"}
             PROVE  histCopy'[w] = hist'[who'[w]]
  BY DEF HistReadInv
<1>1. \A v \in Worker : v = w
  BY DEF Alone
<1>2. CASE UNCHANGED <<pc, histCopy, hist, who>>
  BY <1>2 DEF HistReadInv
<1>3. CASE ReadHist(w) \/ WriteFeats(w)
  BY <1>3 DEF ReadHist, WriteFeats, Goto, redisVars, localVars, HistReadInv, TypeInv, TypeOK
<1>4. CASE \/ pc' = [pc EXCEPT ![w] = "down"] \/ pc' = [pc EXCEPT ![w] = "scan"]
           \/ pc' = [pc EXCEPT ![w] = "idle"] \/ pc' = [pc EXCEPT ![w] = "commit"]
           \/ pc' = [pc EXCEPT ![w] = "readFeats"] \/ pc' = [pc EXCEPT ![w] = "readHist"]
           \/ pc' = [pc EXCEPT ![w] = "fill"]
           \/ \E e : pc' = [pc EXCEPT ![w] = FirstPhase(e)]
  BY <1>4 DEF TypeInv, TypeOK, FirstPhase
<1>5. ASSUME NEW u \in User, ScanUser(w, u)
      PROVE  \/ pc' = [pc EXCEPT ![w] = "fill"]
             \/ UNCHANGED <<pc, histCopy, hist, who>>
  BY <1>5 DEF ScanUser, Goto, redisVars
<1> QED
  BY <1>1, <1>2, <1>3, <1>4, <1>5
     DEF Next, Progress, vars, Land, Lapse, Evict, Start, Crash, Stop, BackfillUser,
         Join, Assign, Fetch, Claim, ReadFeats, WriteHist, DeadLetter, Commit, Goto,
         redisVars, workerVars, localVars

\* What is stored was claimed once, and so is in the log.
LEMMA StoredReached ==
    ASSUME TypeInv, GrantInv, ReachedInv, NEW u \in User,
           NEW g \in Range(feats[u]) \cup Range(hist[u])
    PROVE  /\ g \in Grant /\ g[1] \in Event /\ EverClaimed(g[1]) /\ g[1] \in Range(log)
           /\ IsFirstIn(log, g[1], FirstIn(log, g[1]))
           /\ FirstIn(log, g[1]) <= committed + 1
<1>1. g \in Grant /\ HandedOut(g)
  BY GrantsInRange DEF GrantInv, GrantsHandedOut, TypeInv, TypeOK
<1>2. g[1] \in Event /\ g[2] \in Nat
  BY <1>1 DEF Grant
<1>3. EverClaimed(g[1])
  BY <1>1, <1>2 DEF HandedOut, EverClaimed, TypeInv, TypeOK
<1>4. PICK i \in 1..Len(log) : i <= committed + 1 /\ log[i] = g[1]
  BY <1>2, <1>3 DEF ReachedInv
<1>5. log \in Seq(Event) /\ DOMAIN log = 1..Len(log) /\ Len(log) \in Nat /\ committed \in Nat
  BY DEF TypeInv, TypeOK
<1>6. g[1] \in Range(log)
  BY <1>4, <1>5 DEF Range
<1>7. IsFirstIn(log, g[1], FirstIn(log, g[1]))
  BY <1>5, <1>6, FirstIsThere
<1>8. FirstIn(log, g[1]) <= i /\ FirstIn(log, g[1]) \in 1..Len(log)
  BY <1>4, <1>7 DEF IsFirstIn
<1>9. FirstIn(log, g[1]) <= committed + 1
  BY <1>4, <1>5, <1>8
<1> QED
  BY <1>1, <1>2, <1>3, <1>6, <1>7, <1>9

\* What comes before what stays as the log grows.
LEMMA OrderStays ==
    ASSUME TypeInv, [Next]_vars, NEW d \in Range(log), NEW e \in Range(log)
    PROVE  BeforeIn(log', d, e) <=> BeforeIn(log, d, e)
<1>1. log \in Seq(Event)
  BY DEF TypeInv, TypeOK
<1>2. CASE log' = log
  BY <1>2
<1>3. ASSUME NEW c \in Event, log' = Append(log, c)
      PROVE  BeforeIn(log', d, e) <=> BeforeIn(log, d, e)
  BY <1>1, <1>3, FirstStays DEF BeforeIn
<1> QED
  BY <1>2, <1>3, LogKept DEF Land

\* A claim that succeeds for the first time is of an event that the log did
\* not have before the record in hand, and all that is stored comes before.
LEMMA ClaimIsNew ==
    ASSUME Alone, TypeInv, GrantInv, HandledInv, FrontierInv, ReachedInv,
           NEW w \in Worker, pc[w] = "claim", ~EverClaimed(log[cur[w]]),
           NEW u \in User, NEW g \in Range(feats[u]) \cup Range(hist[u])
    PROVE  BeforeIn(log, g[1], log[cur[w]])
<1> DEFINE e == log[cur[w]]
<1>1. cur[w] \in 1..Len(log) /\ cur[w] = committed + 1
  BY DEF FrontierInv, HandlePhase, TypeInv, TypeOK, LocalsOK
<1>2. log \in Seq(Event) /\ DOMAIN log = 1..Len(log) /\ Len(log) \in Nat /\ committed \in Nat
  BY DEF TypeInv, TypeOK
<1>3. e \in Event /\ e \in Range(log) /\ e \notin Poison
  BY <1>1, <1>2 DEF Range, HandledInv, PhaseFitsRecord
<1>4. IsFirstIn(log, e, FirstIn(log, e))
  BY <1>2, <1>3, FirstIsThere
<1>5. \A i \in 1..committed : log[i] # e
  BY <1>3 DEF HandledInv, CommittedIsHandled, EverClaimed
<1>6. FirstIn(log, e) = committed + 1
  BY <1>1, <1>2, <1>4, <1>5 DEF IsFirstIn
<1>7. /\ EverClaimed(g[1])
      /\ IsFirstIn(log, g[1], FirstIn(log, g[1]))
      /\ FirstIn(log, g[1]) <= committed + 1
  BY StoredReached
<1>8. g[1] # e
  BY <1>7
<1>9. FirstIn(log, g[1]) # committed + 1
  BY <1>1, <1>7, <1>8 DEF IsFirstIn
<1>10. FirstIn(log, g[1]) \in Int
  BY <1>2, <1>7 DEF IsFirstIn
<1> QED
  BY <1>2, <1>6, <1>7, <1>9, <1>10 DEF BeforeIn

LEMMA HeldIsLastStep ==
    ASSUME Alone, TypeInv, GrantInv, HandledInv, AloneInv, OrderInv, [Next]_vars
    PROVE  HeldIsLast'
<1> SUFFICES ASSUME NEW w \in Worker, Folding(w)', grant'[w][2] = 0,
                    NEW u \in User, NEW g \in Range(feats'[u]) \cup Range(hist'[u]),
                    g[2] = 0, g # grant'[w]
             PROVE  BeforeIn(log', g[1], grant'[w][1])
  BY DEF HeldIsLast
<1> USE DEF OrderInv
<1>1. \A v \in Worker : v = w
  BY DEF Alone
<1>2. CASE Folding(w) /\ grant'[w] = grant[w]
  <2>1. g \in Range(feats[u]) \cup Range(hist[u])
    <3>1. CASE UNCHANGED <<feats, hist>>
      BY <3>1
    <3>2. CASE Folds(w) \/ Records(w)
      <4>1. who[w] \in User /\ grant[w] \in Grant /\ feats[who[w]] \in Seq(Grant) /\ hist[who[w]] \in Seq(Grant)
        BY <1>2 DEF TypeInv, TypeOK, LocalsOK
      <4>2. /\ Range(Append(feats[who[w]], grant[w])) = Range(feats[who[w]]) \cup {grant[w]}
            /\ Range(Append(hist[who[w]], grant[w])) = Range(hist[who[w]]) \cup {grant[w]}
        BY <4>1, AppendGrant
      <4>3. CASE Folds(w)
        BY <1>2, <4>1, <4>2, <4>3 DEF Folds, TypeInv, TypeOK
      <4>4. CASE Records(w)
        BY <1>2, <4>1, <4>2, <4>4 DEF Records, TypeInv, TypeOK
      <4> QED
        BY <3>2, <4>3, <4>4
    <3> QED
      BY <1>1, <3>1, <3>2, KeysChange DEF KeysStep
  <2>2. BeforeIn(log, g[1], grant[w][1])
    BY <1>2, <2>1 DEF HeldIsLast
  <2>3. g[1] \in Range(log) /\ grant[w][1] \in Range(log)
    BY <1>2, <2>1, StoredReached DEF AloneInv
  <2> QED
    BY <1>2, <2>2, <2>3, OrderStays
<1>3. CASE Claim(w)
  <2> DEFINE e == log[cur[w]]
  <2>1. /\ pc[w] = "claim" /\ log' = log /\ UNCHANGED <<feats, hist>>
        /\ \/ pc' = [pc EXCEPT ![w] = "commit"]
           \/ e \notin claims /\ grant' = [grant EXCEPT ![w] = <<e, lapsed[e]>>]
    BY <1>3 DEF Claim, AlreadyClaimed, Goto, brokerVars
  <2>2. e \notin claims /\ grant'[w] = <<e, lapsed[e]>>
    BY <2>1 DEF Folding, FoldPhase, TypeInv, TypeOK
  <2>3. ~EverClaimed(e)
    BY <2>2 DEF EverClaimed
  <2> QED
    BY <2>1, <2>2, <2>3, ClaimIsNew
<1>4. CASE UNCHANGED <<pc, grant>>
  BY <1>2, <1>4 DEF Folding
<1>5. CASE ReadFeats(w) \/ ReadHist(w) \/ WriteFeats(w)
  BY <1>2, <1>5 DEF ReadFeats, ReadHist, WriteFeats, localVars, Folding, FoldPhase
<1>6. ASSUME Stop(w)
      PROVE  FALSE
  BY <1>6 DEF Stop, Goto, Folding, FoldPhase, TypeInv, TypeOK
<1>7. CASE \E p \in Phase \ FoldPhase : pc' = [pc EXCEPT ![w] = p]
  BY <1>7 DEF Folding, TypeInv, TypeOK
<1>8. ASSUME NEW v \in User, ScanUser(w, v)
      PROVE  UNCHANGED <<pc, grant>> \/ pc' = [pc EXCEPT ![w] = "fill"]
  BY <1>8 DEF ScanUser, Goto
<1>9. ASSUME Fetch(w)
      PROVE  pc' = [pc EXCEPT ![w] = "deadLetter"] \/ pc' = [pc EXCEPT ![w] = "claim"]
  BY <1>9 DEF Fetch, Goto, FirstPhase
<1>10. \A p \in {"scan", "fill", "idle", "claim", "deadLetter", "commit"} : p \in Phase \ FoldPhase
  BY DEF Phase, FoldPhase
<1> QED
  BY <1>1, <1>3, <1>4, <1>5, <1>6, <1>7, <1>8, <1>9, <1>10
     DEF Next, Progress, vars, Land, Lapse, Evict, Start, Crash, BackfillUser,
         Join, Assign, WriteHist, DeadLetter, Commit, Goto, workerVars, localVars

LEMMA OrderedAppend ==
    ASSUME NEW l, NEW s \in Seq(Grant), NEW g \in Grant, OrderedIn(l, s),
           \A h \in Range(s) : h[2] = 0 /\ g[2] = 0 => BeforeIn(l, h[1], g[1])
    PROVE  OrderedIn(l, Append(s, g))
<1>1. /\ Len(s) \in Nat
      /\ DOMAIN s = 1..Len(s) /\ DOMAIN Append(s, g) = 1..(Len(s) + 1)
      /\ \A i \in 1..Len(s) : Append(s, g)[i] = s[i] /\ s[i] \in Range(s)
      /\ Append(s, g)[Len(s) + 1] = g
  BY DEF Range
<1>2. SUFFICES ASSUME NEW i \in 1..(Len(s) + 1), NEW j \in 1..(Len(s) + 1), i < j,
                      Append(s, g)[i][2] = 0, Append(s, g)[j][2] = 0
               PROVE  BeforeIn(l, Append(s, g)[i][1], Append(s, g)[j][1])
  BY <1>1 DEF OrderedIn
<1>3. i \in 1..Len(s)
  BY <1>1, <1>2
<1>4. CASE j \in 1..Len(s)
  BY <1>1, <1>2, <1>3, <1>4 DEF OrderedIn
<1>5. CASE j = Len(s) + 1
  BY <1>1, <1>2, <1>3, <1>5
<1> QED
  BY <1>1, <1>4, <1>5

LEMMA KeysInOrderStep ==
    ASSUME Alone, TypeInv, GrantInv, HandledInv, AloneInv, OrderInv, [Next]_vars
    PROVE  KeysInOrder'
<1> SUFFICES ASSUME NEW u \in User
             PROVE  OrderedIn(log', feats'[u]) /\ OrderedIn(log', hist'[u])
  BY DEF KeysInOrder
<1> USE DEF OrderInv
<1>1. feats[u] \in Seq(Grant) /\ hist[u] \in Seq(Grant)
  BY DEF TypeInv, TypeOK
<1>2. OrderedIn(log, feats[u]) /\ OrderedIn(log, hist[u])
  BY DEF KeysInOrder
<1>3. ASSUME NEW s \in {feats[u], hist[u]}
      PROVE  OrderedIn(log', s)
  <2>1. \A i \in DOMAIN s : s[i][1] \in Range(log)
    BY StoredReached DEF Range
  <2> QED
    BY <1>2, <2>1, OrderStays DEF OrderedIn
<1>4. CASE UNCHANGED <<feats, hist>>
  BY <1>3, <1>4
<1>5. ASSUME NEW w \in Worker, Folds(w) \/ Records(w)
      PROVE  OrderedIn(log', feats'[u]) /\ OrderedIn(log', hist'[u])
  <2>1. Folding(w) /\ log' = log
    BY <1>5 DEF Folds, Records, WriteFeats, WriteHist, Folding, FoldPhase, brokerVars
  <2>2. who[w] \in User /\ grant[w] \in Grant
    BY <2>1 DEF TypeInv, LocalsOK
  <2>3. CASE who[w] # u
    <3>1. feats'[u] = feats[u] /\ hist'[u] = hist[u]
      BY <1>5, <2>3 DEF Folds, Records, TypeInv, TypeOK
    <3> QED
      BY <1>3, <3>1
  <2>4. CASE who[w] = u /\ Folds(w)
    <3>1. feats'[u] = Append(feats[u], grant[w]) /\ hist'[u] = hist[u]
      BY <2>4 DEF Folds, TypeInv, TypeOK
    <3>2. grant[w] \notin Range(feats[u])
      BY <2>4 DEF Folds, WriteFeats, GrantInv, GrantsExclusive, Unfolded, FoldPhase
    <3>3. \A h \in Range(feats[u]) : h[2] = 0 /\ grant[w][2] = 0 => BeforeIn(log, h[1], grant[w][1])
      BY <2>1, <3>2 DEF HeldIsLast
    <3>4. OrderedIn(log, Append(feats[u], grant[w]))
      BY <1>1, <1>2, <2>2, <3>3, OrderedAppend
    <3> QED
      BY <1>3, <2>1, <3>1, <3>4
  <2>5. CASE who[w] = u /\ Records(w)
    <3>1. hist'[u] = Append(hist[u], grant[w]) /\ feats'[u] = feats[u]
      BY <2>5 DEF Records, TypeInv, TypeOK
    <3>2. grant[w] \notin Range(hist[u])
      BY <2>1 DEF GrantInv, GrantsExclusive
    <3>3. \A h \in Range(hist[u]) : h[2] = 0 /\ grant[w][2] = 0 => BeforeIn(log, h[1], grant[w][1])
      BY <2>1, <3>2 DEF HeldIsLast
    <3>4. OrderedIn(log, Append(hist[u], grant[w]))
      BY <1>1, <1>2, <2>2, <3>3, OrderedAppend
    <3> QED
      BY <1>3, <2>1, <3>1, <3>4
  <2> QED
    BY <1>5, <2>3, <2>4, <2>5
<1> QED
  BY <1>4, <1>5, KeysChange DEF KeysStep

LEMMA OrderInvStep ==
    ASSUME Alone, TypeInv, GrantInv, HandledInv, AloneInv, OrderInv, [Next]_vars
    PROVE  OrderInv'
<1>1. FrontierInv' /\ ReachedInv' /\ HistReadInv'
  BY FrontierStep, ReachedStep, HistReadStep DEF OrderInv
<1>2. HeldIsLast' /\ KeysInOrder'
  BY HeldIsLastStep, KeysInOrderStep
<1> QED
  BY <1>1, <1>2 DEF OrderInv

\* With one process, the events of a user are folded and recorded in the order
\* of the log, whatever is repeated, crashes, or is evicted (consumer.py,
\* processor.py).
THEOREM OneProcessKeepsOrder == Alone => (Spec => []PerUserOrder)
<1> SUFFICES ASSUME Alone
             PROVE  Spec => []PerUserOrder
  OBVIOUS
<1> DEFINE Inv == TypeInv /\ GrantInv /\ HandledInv /\ AloneInv /\ OrderInv
<1>1. Init => Inv
  BY TypeInvInit, GrantInvInit, HandledInvInit, AloneInvInit, OrderInvInit
<1>2. Inv /\ [Next]_vars => Inv'
  BY TypeInvStep, GrantInvStep, HandledInvStep, AloneInvStep, OrderInvStep
<1>3. Inv => PerUserOrder
  BY DEF OrderInv, KeysInOrder, OrderedIn, BeforeIn, FirstIn, FirstPosition, PerUserOrder
<1> QED
  BY <1>1, <1>2, <1>3, PTL DEF Spec

-----------------------------------------------------------------------------
(* What crashes cost, with one consumer process.                           *)

\* The grants that were handed out, are in nobody's hands, and did not reach
\* both keys of their user.
Lost ==
    {g \in Issued \ Held :
        LET u == UserOf[g[1]]
        IN  g \notin Range(feats[u]) \cap Range(hist[u])}

\* A process holds a grant only while it folds, and folds the features first.
HeldInv ==
    \A w \in Worker :
        /\ ~Folding(w) => grant[w] = NoGrant
        /\ pc[w] = "writeHist" => grant[w] \in Range(feats[who[w]])

LossInv == HeldInv /\ IsFiniteSet(Lost) /\ Cardinality(Lost) <= crashes

LEMMA LossInvInit == Init => LossInv
<1> SUFFICES ASSUME Init
             PROVE  LossInv
  OBVIOUS
<1>1. HeldInv
  BY DEF Init, HeldInv, Folding, FoldPhase
<1>2. Lost = {}
  BY PipelineAssumption DEF Init, Lost, Issued
<1> QED
  BY <1>1, <1>2, FS_EmptySet DEF Init, LossInv

LEMMA HeldStep ==
    ASSUME Alone, TypeInv, AloneInv, HistReadInv, HeldInv, [Next]_vars
    PROVE  HeldInv'
<1> SUFFICES ASSUME NEW w \in Worker
             PROVE  /\ ~Folding(w)' => grant'[w] = NoGrant
                    /\ pc'[w] = "writeHist" => grant'[w] \in Range(feats'[who'[w]])
  BY DEF HeldInv
<1>1. \A v \in Worker : v = w
  BY DEF Alone
<1>2. /\ ~Folding(w) => grant[w] = NoGrant
      /\ pc[w] = "writeHist" => grant[w] \in Range(feats[who[w]])
  BY DEF HeldInv
<1>3. CASE UNCHANGED <<pc, grant, who, feats>>
  BY <1>2, <1>3 DEF Folding
<1>4. CASE grant' = grant /\ ~Folding(w) /\ pc'[w] # "writeHist"
  BY <1>2, <1>4
<1>5. CASE grant' = [grant EXCEPT ![w] = NoGrant] /\ pc'[w] # "writeHist"
  BY <1>5 DEF TypeInv, TypeOK
<1>6. CASE Claim(w)
  <2>1. CASE grant' = grant
    BY <1>4, <1>6, <2>1 DEF Claim, Goto, Folding, FoldPhase, TypeInv, TypeOK
  <2>2. CASE pc' = [pc EXCEPT ![w] = "readFeats"]
    BY <2>2 DEF Folding, FoldPhase, TypeInv, TypeOK
  <2> QED
    BY <1>6, <2>1, <2>2 DEF Claim, Goto
<1>7. CASE ReadFeats(w) \/ ReadHist(w)
  BY <1>7 DEF ReadFeats, ReadHist, Goto, Folding, FoldPhase, TypeInv, TypeOK
<1>8. CASE WriteFeats(w)
  <2>1. /\ pc' = [pc EXCEPT ![w] = "writeHist"] /\ UNCHANGED <<grant, who>>
        /\ feats' = [feats EXCEPT ![who[w]] = Append(featsCopy[w], grant[w])]
        /\ who[w] \in User /\ grant[w] \in Grant /\ featsCopy[w] \in Seq(Grant)
    BY <1>8 DEF WriteFeats, Goto, localVars, TypeInv, TypeOK, LocalsOK, Folding, FoldPhase
  <2>2. grant[w] \in Range(feats'[who[w]])
    BY <2>1, AppendGrant DEF TypeInv, TypeOK
  <2> QED
    BY <2>1, <2>2 DEF Folding, FoldPhase, TypeInv, TypeOK
<1>9. ASSUME Stop(w)
      PROVE  grant' = [grant EXCEPT ![w] = NoGrant] /\ pc'[w] # "writeHist"
  BY <1>9 DEF Stop, Forget, Goto, TypeInv, TypeOK
<1>10. ASSUME BackfillUser(w) \/ WriteHist(w)
       PROVE  grant' = [grant EXCEPT ![w] = NoGrant] /\ pc'[w] # "writeHist"
  BY <1>10 DEF BackfillUser, WriteHist, Forget, Goto, TypeInv, TypeOK
<1>11. ASSUME \/ Start(w) \/ Join(w) \/ Assign(w) \/ Fetch(w) \/ DeadLetter(w)
              \/ \E u \in User : ScanUser(w, u)
       PROVE  grant' = grant /\ ~Folding(w) /\ pc'[w] # "writeHist"
  BY <1>11 DEF Start, Join, Assign, Fetch, FirstPhase, DeadLetter, ScanUser, Goto,
               localVars, Folding, FoldPhase, TypeInv, TypeOK
<1>12. ASSUME Commit(w), ~Stop(w)
       PROVE  grant' = grant /\ ~Folding(w) /\ pc'[w] # "writeHist"
  BY <1>12 DEF Commit, Goto, localVars, Folding, FoldPhase, TypeInv, TypeOK
<1>13. CASE UNCHANGED vars \/ Evict \/ \E e \in Event : Land(e) \/ Lapse(e)
  BY <1>3, <1>13 DEF vars, Evict, Land, Lapse, redisVars, workerVars, localVars
<1> QED
  BY <1>1, <1>4, <1>5, <1>6, <1>7, <1>8, <1>9, <1>10, <1>11, <1>12, <1>13
     DEF Next, Progress, Crash

\* No step but a claim hands out a grant, and that one is held.
LEMMA IssuedStep ==
    ASSUME TypeInv, [Next]_vars, NEW g \in Issued', g \notin Issued
    PROVE  \E w \in Worker : Claim(w) /\ g = grant'[w]
<1>1. g \in Event \X (0..MaxLapses) /\ g[1] \in Event /\ g[2] \in Nat
  BY DEF Issued
<1>2. \/ g[2] < lapsed'[g[1]]
      \/ g[2] = lapsed'[g[1]] /\ g[1] \in claims'
  BY DEF Issued
<1>3. /\ ~(g[2] < lapsed[g[1]])
      /\ ~(g[2] = lapsed[g[1]] /\ g[1] \in claims)
  BY <1>1 DEF Issued
<1>4. ~UNCHANGED <<claims, lapsed>>
  BY <1>2, <1>3
<1>5. ASSUME NEW e \in Event, Lapse(e)
      PROVE  FALSE
  BY <1>1, <1>2, <1>3, <1>5 DEF Lapse, TypeInv, TypeOK
<1>6. ASSUME NEW w \in Worker, Claim(w)
      PROVE  g = grant'[w]
  <2> DEFINE e == log[cur[w]]
  <2>1. /\ claims' = claims \cup {e} /\ lapsed' = lapsed
        /\ grant' = [grant EXCEPT ![w] = <<e, lapsed[e]>>]
    BY <1>4, <1>6 DEF Claim
  <2>2. g[1] = e /\ g[2] = lapsed[e]
    BY <1>2, <1>3, <2>1
  <2> QED
    BY <1>1, <2>1, <2>2 DEF TypeInv, TypeOK
<1>7. \/ UNCHANGED <<claims, lapsed>>
      \/ \E e \in Event : Lapse(e)
      \/ \E w \in Worker : Claim(w)
  BY DEF Next, Progress, vars, Land, Evict, Start, Crash, ScanUser,
         BackfillUser, Join, Assign, Fetch, ReadFeats, ReadHist,
         WriteFeats, WriteHist, DeadLetter, Commit, redisVars
<1> QED
  BY <1>4, <1>5, <1>6, <1>7

\* With one process nothing that is stored disappears.
LEMMA StoredStays ==
    ASSUME Alone, TypeInv, AloneInv, HistReadInv, [Next]_vars, NEW u \in User
    PROVE  Range(feats[u]) \subseteq Range(feats'[u]) /\ Range(hist[u]) \subseteq Range(hist'[u])
<1>1. ASSUME NEW w \in Worker, Folds(w) \/ Records(w)
      PROVE  Range(feats[u]) \subseteq Range(feats'[u]) /\ Range(hist[u]) \subseteq Range(hist'[u])
  <2>1. who[w] \in User /\ grant[w] \in Grant
    BY <1>1 DEF Folds, Records, WriteFeats, WriteHist, Folding, FoldPhase, TypeInv, LocalsOK
  <2>2. /\ feats[u] \in Seq(Grant) /\ hist[u] \in Seq(Grant)
        /\ feats'[u] \in {feats[u], Append(feats[u], grant[w])}
        /\ hist'[u] \in {hist[u], Append(hist[u], grant[w])}
    BY <1>1, <2>1 DEF Folds, Records, TypeInv, TypeOK
  <2> QED
    BY <2>1, <2>2, AppendGrant
<1> QED
  BY <1>1, KeysChange DEF KeysStep

\* A grant leaves the hands of a process when it reaches the history, or when
\* the process crashes.
LEMMA LetGo ==
    ASSUME Alone, TypeInv, AloneInv, HistReadInv, HeldInv, [Next]_vars,
           NEW w \in Worker, grant[w] # NoGrant, grant'[w] # grant[w]
    PROVE  Crash(w) \/ Records(w)
<1>1. \A v \in Worker : v = w
  BY DEF Alone
<1>2. Folding(w)
  BY DEF HeldInv
<1>3. pc[w] \notin {"down", "scan", "fill", "idle", "claim", "deadLetter", "commit"}
  BY <1>2 DEF Folding, FoldPhase
<1>4. grant' # grant
  OBVIOUS
<1>5. WriteHist(w) \/ Crash(w)
  BY <1>1, <1>3, <1>4
     DEF Next, Progress, vars, Land, Lapse, Evict, Start, ScanUser, BackfillUser, Join,
         Assign, Fetch, Claim, ReadFeats, ReadHist, WriteFeats, DeadLetter, Commit,
         workerVars, localVars
<1> QED
  BY <1>5 DEF Records, WriteHist, Recorded, HistReadInv

\* Only a crash adds to the losses, and only the grant in hand.
LEMMA LostStep ==
    ASSUME Alone, TypeInv, AloneInv, HistReadInv, HeldInv, [Next]_vars,
           NEW g \in Lost', g \notin Lost
    PROVE  \E w \in Worker : Crash(w) /\ g = grant[w]
<1> DEFINE u == UserOf[g[1]]
<1>1. g \in Issued' /\ g \notin Held' /\ g \notin Range(feats'[u]) \cap Range(hist'[u])
  BY DEF Lost
<1>2. g \in Event \X (0..MaxLapses) /\ g[1] \in Event /\ u \in User /\ g # NoGrant
  <2>1. g \in Event \X (0..MaxLapses)
    BY <1>1 DEF Issued
  <2>2. PICK e \in Event, n \in 0..MaxLapses : g = <<e, n>>
    BY <2>1
  <2>3. Len(g) = 2 /\ Len(NoGrant) = 0
    BY <2>2 DEF NoGrant
  <2> QED
    BY <2>1, <2>2, <2>3, PipelineAssumption
<1>3. g \in Issued
  <2>1. \A w \in Worker : g # grant'[w]
    BY <1>1, <1>2 DEF Held
  <2> QED
    BY <1>1, <2>1, IssuedStep
<1>4. g \notin Range(feats[u]) \cap Range(hist[u])
  BY <1>1, <1>2, StoredStays
<1>5. g \in Held
  BY <1>3, <1>4 DEF Lost
<1>6. PICK w \in Worker : g = grant[w] /\ grant[w] # NoGrant
  BY <1>5 DEF Held
<1>7. grant'[w] # grant[w]
  BY <1>1, <1>6 DEF Held
<1>8. CASE Records(w)
  <2>1. /\ pc[w] = "writeHist" /\ feats' = feats
        /\ hist' = [hist EXCEPT ![who[w]] = Append(hist[who[w]], g)]
    BY <1>6, <1>8 DEF Records, WriteHist
  <2>2. Folding(w)
    BY <2>1 DEF Folding, FoldPhase
  <2>3. who[w] = u /\ g \in Range(feats[u]) /\ g \in Grant /\ hist[u] \in Seq(Grant)
    BY <1>2, <1>6, <2>1, <2>2 DEF AloneInv, HeldInv, TypeInv, TypeOK, LocalsOK
  <2>4. g \in Range(hist'[u])
    BY <1>2, <2>1, <2>3, AppendGrant DEF TypeInv, TypeOK
  <2> QED
    BY <1>1, <2>1, <2>3, <2>4
<1> QED
  BY <1>6, <1>7, <1>8, LetGo

LEMMA LossInvStep ==
    ASSUME Alone, TypeInv, AloneInv, HistReadInv, LossInv, [Next]_vars
    PROVE  LossInv'
<1> USE DEF LossInv
<1>1. HeldInv'
  BY HeldStep
<1>2. Cardinality(Lost) \in Nat /\ crashes \in Nat
  BY FS_CardinalityType DEF TypeInv, TypeOK
<1>3. CASE Lost' \subseteq Lost
  <2>1. crashes' >= crashes
    BY <1>2 DEF Next, Progress, vars, Land, Lapse, Evict, Start, Crash, ScanUser,
           BackfillUser, Join, Assign, Fetch, Claim, ReadFeats, ReadHist,
           WriteFeats, WriteHist, DeadLetter, Commit, envVars
  <2>2. IsFiniteSet(Lost') /\ Cardinality(Lost') <= Cardinality(Lost)
    BY <1>3, FS_Subset
  <2>3. Cardinality(Lost') \in Nat /\ crashes' \in Nat
    BY <2>2, FS_CardinalityType, TypeInvStep DEF TypeInv, TypeOK
  <2>4. Cardinality(Lost') <= crashes'
    BY <1>2, <2>1, <2>2, <2>3
  <2> QED
    BY <1>1, <2>2, <2>4
<1>4. ASSUME NEW g \in Lost', g \notin Lost
      PROVE  LossInv'
  <2>1. PICK w \in Worker : Crash(w) /\ g = grant[w]
    BY <1>4, LostStep
  <2>2. Lost' \subseteq Lost \cup {g}
    BY <2>1, LostStep DEF Alone
  <2>3. crashes' = crashes + 1
    BY <2>1 DEF Crash
  <2>4. IsFiniteSet(Lost \cup {g}) /\ Cardinality(Lost \cup {g}) = Cardinality(Lost) + 1
    BY <1>4, FS_AddElement
  <2>5. IsFiniteSet(Lost') /\ Cardinality(Lost') <= Cardinality(Lost) + 1
    BY <2>2, <2>4, FS_Subset
  <2>6. Cardinality(Lost') \in Nat
    BY <2>5, FS_CardinalityType
  <2>7. Cardinality(Lost') <= crashes'
    BY <1>2, <2>3, <2>5, <2>6
  <2> QED
    BY <1>1, <2>5, <2>7
<1> QED
  BY <1>3, <1>4

\* With one process each crash costs at most the one event in hand: every other
\* claimed event is in the features and in the history (processor.py, _apply).
THEOREM CrashesCostOneEach == Alone => (Spec => []EachCrashCostsAtMostOne)
<1> SUFFICES ASSUME Alone
             PROVE  Spec => []EachCrashCostsAtMostOne
  OBVIOUS
<1> DEFINE Inv == TypeInv /\ AloneInv /\ HistReadInv /\ LossInv
<1>1. Init => Inv
  BY TypeInvInit, AloneInvInit, OrderInvInit, LossInvInit DEF OrderInv
<1>2. Inv /\ [Next]_vars => Inv'
  BY TypeInvStep, AloneInvStep, HistReadStep, LossInvStep
<1>3. Inv => EachCrashCostsAtMostOne
  BY DEF LossInv, Lost, EachCrashCostsAtMostOne
<1> QED
  BY <1>1, <1>2, <1>3, PTL DEF Spec
=============================================================================
