--------------------------- MODULE WebClient_proof ---------------------------
(***************************************************************************)
(* The web client, for every number of tabs, pages, titles, taps, filters  *)
(* and catalogs.                                                           *)
(*                                                                         *)
(* TicketClient: a confirmed tap is saved, and a page at rest shows no     *)
(* mark that was never stored (ConfirmedTapIsSaved, NoPhantomMarks).  The  *)
(* first is not inductive: whether a newer stamp means that the tap was    *)
(* folded depends on what the queue held when the stamp to beat was taken. *)
(* AloneInv follows an undisturbed tap from that moment on; MarksInv       *)
(* excuses the mark of the tap under way.                                  *)
(*                                                                         *)
(* CatalogBrowser: the filters, the field and the address come to agree    *)
(* (RestIsConsistent), and a list whose loads do not overlap is a          *)
(* beginning of what the filters select (CalmListIsPrefix).  FilterInv     *)
(* says where a navigation under way goes, CalmInv which page the load     *)
(* under way is for.                                                       *)
(***************************************************************************)
EXTENDS TicketClient, CatalogBrowser, FiniteSetTheorems, SequenceTheorems, TLAPS

-----------------------------------------------------------------------------
(* Judging a title.                                                        *)

TabState ==
    [phase : Phase, item : Item, mark : Mark, before : Nat, shown : Nat,
     marks : [Item -> Mark], taps : Nat, alone : BOOLEAN, saved : BOOLEAN,
     confirmed : BOOLEAN]
AnswerState == [stamp : Nat, marks : [Item -> Mark], own : BOOLEAN]
Event == [tab : Tab, tap : Nat, item : Item, mark : Mark]

TypeInv ==
    /\ blob \in [stamp : Nat, marks : [Item -> Mark]]
    /\ queue \in Seq(Event)
    /\ tab \in [Tab -> TabState]
    /\ answers \in [Tab -> SUBSET AnswerState]

\* A tap under way is not confirmed yet.
BusyInv ==
    \A t \in Tab : tab[t].phase \in {"read", "post", "poll"} => ~tab[t].confirmed

\* t's tap is the only event under way, or none is.
OnlyMine(t) == \A k \in DOMAIN queue : queue[k].tab = t /\ queue[k].tap = tab[t].taps

\* An undisturbed tap has the current stamp to beat until its own fold.
AloneInv ==
    \A t \in Tab :
        LET s == tab[t] IN
        s.alone =>
            /\ s.phase = "post" => s.before = blob.stamp /\ queue = <<>>
            /\ s.phase = "poll" => s.saved \/ (s.before = blob.stamp /\ OnlyMine(t))
            /\ s.confirmed => s.saved

ClientInv == TypeInv /\ BusyInv /\ AloneInv

LEMMA ClientInvInit == Init => ClientInv
<1> SUFFICES ASSUME Init PROVE ClientInv
  OBVIOUS
<1>1. (CHOOSE i \in Item : TRUE) \in Item
  BY ClientAssumption
<1>2. NoMarks \in [Item -> Mark]
  BY DEF NoMarks, Mark
<1>3. FreshTab \in TabState /\ ~FreshTab.alone
  BY <1>1, <1>2 DEF FreshTab, TabState, Phase, Mark
<1>4. TypeInv
  BY <1>2, <1>3 DEF Init, TypeInv
<1>5. AloneInv /\ BusyInv
  BY <1>3 DEF Init, AloneInv, BusyInv, FreshTab
<1> QED
  BY <1>4, <1>5 DEF ClientInv

-----------------------------------------------------------------------------
(* Types.                                                                  *)

LEMMA RolledBackType ==
    ASSUME TypeInv, NEW t \in Tab
    PROVE  RolledBack(t) \in TabState
<1>1. tab[t] \in TabState
  BY DEF TypeInv
<1>2. MarksWithout(t) \in [Item -> Mark]
  BY <1>1 DEF MarksWithout, TabState, Mark
<1> QED
  BY <1>1, <1>2 DEF RolledBack, TabState, Phase

LEMMA AnswersType ==
    ASSUME TypeInv, NEW own \in BOOLEAN
    PROVE  Answers(own) \subseteq AnswerState
  BY DEF Answers, AnswerState, TypeInv, NoMarks, Mark

LEMMA DisturbedType ==
    ASSUME TypeInv, NEW t \in Tab
    PROVE  Disturbed(t) \in [Tab -> TabState]
<1>1. ASSUME NEW q \in Tab PROVE [tab[q] EXCEPT !.alone = FALSE] \in TabState
  BY DEF TypeInv, TabState
<1> QED
  BY <1>1 DEF Disturbed, TypeInv

LEMMA EnqueueType ==
    ASSUME TypeInv, NEW t \in Tab, Enqueue(t)
    PROVE  queue' \in Seq(Event)
<1>1. tab[t] \in TabState
  BY DEF TypeInv
<1>2. [tab |-> t, tap |-> tab[t].taps, item |-> tab[t].item, mark |-> tab[t].mark] \in Event
  BY <1>1 DEF Event, TabState
<1> QED
  BY <1>2 DEF Enqueue, TypeInv

LEMMA TypeInvStep == TypeInv /\ [Next]_vars => TypeInv'
<1> SUFFICES ASSUME TypeInv, [Next]_vars PROVE TypeInv'
  OBVIOUS
<1>1. CASE Fold
  <2>1. Head(queue) \in Event /\ Tail(queue) \in Seq(Event)
    BY <1>1 DEF Fold, TypeInv
  <2>2. blob' \in [stamp : Nat, marks : [Item -> Mark]]
    BY <1>1, <2>1 DEF Fold, TypeInv, Event
  <2> DEFINE s == tab[Head(queue).tab]
  <2>a. s \in TabState
    BY <2>1 DEF TypeInv, Event
  <2> HIDE DEF s
  <2>b. [s EXCEPT !.saved = TRUE] \in TabState
    BY <2>a DEF TabState
  <2>3. [tab[Head(queue).tab] EXCEPT !.saved = TRUE] \in TabState
    BY <2>b DEF s
  <2>4. tab' \in [Tab -> TabState]
    BY <1>1, <2>3 DEF Fold, TypeInv
  <2> QED
    BY <1>1, <2>1, <2>2, <2>4 DEF Fold, TypeInv
<1>2. CASE Lose
  BY <1>2 DEF Lose, TypeInv
<1>3. ASSUME NEW t \in Tab, NEW i \in Item, NEW mark \in {"like", "skip"}, Tap(t, i, mark)
      PROVE  TypeInv'
  <2> DEFINE s == tab[t]
             marks == [s.marks EXCEPT ![i] = mark]
             next == s.taps + 1
  <2>a. s \in TabState
    BY DEF TypeInv
  <2>b. marks \in [Item -> Mark] /\ next \in Nat
    BY <2>a DEF TabState, Mark
  <2>c. tab' = [tab EXCEPT ![t] = [s EXCEPT !.phase = "read", !.item = i, !.mark = mark,
                       !.marks = marks, !.taps = next, !.saved = FALSE, !.confirmed = FALSE,
                       !.alone = FALSE]]
    BY <1>3 DEF Tap
  <2> HIDE DEF s, marks, next
  <2>1. [s EXCEPT !.phase = "read", !.item = i, !.mark = mark, !.marks = marks,
                       !.taps = next, !.saved = FALSE, !.confirmed = FALSE,
                       !.alone = FALSE] \in TabState
    BY <2>a, <2>b DEF TabState, Phase, Mark
  <2> QED
    BY <1>3, <2>1, <2>c DEF Tap, TypeInv
<1>4. ASSUME NEW t \in Tab, Ask(t) PROVE TypeInv'
  BY <1>4, AnswersType DEF Ask, TypeInv
<1>5. ASSUME NEW t \in Tab, NEW a \in answers[t], Arrive(t, a) PROVE TypeInv'
  <2>1. a \in AnswerState
    BY DEF TypeInv
  <2>2. AfterLoad(t, a) \in Phase
    BY DEF AfterLoad, TypeInv, TabState, Phase
  <2> DEFINE s == tab[t]
  <2>a. s \in TabState
    BY DEF TypeInv
  <2> HIDE DEF s
  <2>b. [s EXCEPT !.shown = a.stamp, !.marks = a.marks, !.phase = AfterLoad(t, a)] \in TabState
    BY <2>1, <2>2, <2>a DEF TabState, AnswerState
  <2>3. [tab[t] EXCEPT !.shown = a.stamp, !.marks = a.marks, !.phase = AfterLoad(t, a)] \in TabState
    BY <2>b DEF s
  <2> QED
    BY <1>5, <2>3 DEF Arrive, TypeInv
<1>6. ASSUME NEW t \in Tab, NEW a \in answers[t], LoadFails(t, a) PROVE TypeInv'
  <2>1. AfterLoad(t, a) \in Phase
    BY DEF AfterLoad, TypeInv, TabState, Phase
  <2>2. [tab[t] EXCEPT !.phase = AfterLoad(t, a)] \in TabState
    BY <2>1 DEF TypeInv, TabState
  <2> QED
    BY <1>6, <2>2 DEF LoadFails, TypeInv
<1>7. ASSUME NEW t \in Tab, Read(t) PROVE TypeInv'
  <2>1. StampBefore(t) \subseteq Nat
    BY DEF StampBefore, TypeInv, TabState
  <2>2. ASSUME NEW stamp \in Nat PROVE Compare(t, stamp) \in TabState
    <3> DEFINE s == tab[t]
               free == stamp = blob.stamp /\ queue = <<>>
    <3>1. s \in TabState /\ free \in BOOLEAN
      BY DEF TypeInv
    <3>2. Compare(t, stamp) = [s EXCEPT !.phase = "post", !.before = stamp, !.alone = free]
      BY DEF Compare
    <3> HIDE DEF s, free
    <3> QED
      BY <3>1, <3>2 DEF TabState, Phase
  <2> QED
    BY <1>7, <2>1, <2>2 DEF Read, TypeInv
<1>8. ASSUME NEW t \in Tab, Post(t) PROVE TypeInv'
  <2>1. [Disturbed(t) EXCEPT ![t].phase = "poll"] \in [Tab -> TabState]
    <3>1. Disturbed(t)[t] \in TabState
      BY DisturbedType
    <3>2. [Disturbed(t)[t] EXCEPT !.phase = "poll"] \in TabState
      BY <3>1 DEF TabState, Phase
    <3> QED
      BY <3>2, DisturbedType
  <2>2. [Disturbed(t) EXCEPT ![t] = RolledBack(t)] \in [Tab -> TabState]
    BY DisturbedType, RolledBackType
  <2>3. [tab EXCEPT ![t] = RolledBack(t)] \in [Tab -> TabState]
    BY RolledBackType DEF TypeInv
  <2>4. queue' \in Seq(Event)
    BY <1>8, EnqueueType DEF Post, TypeInv
  <2> QED
    BY <1>8, <2>1, <2>2, <2>3, <2>4 DEF Post, TypeInv
<1>9. ASSUME NEW t \in Tab, Confirm(t) PROVE TypeInv'
  <2> DEFINE confirmed == [tab[t] EXCEPT !.confirmed = TRUE]
  <2>1. confirmed \in TabState
    BY DEF TypeInv, TabState
  <2>2. [confirmed EXCEPT !.phase = "idle", !.marks = blob.marks] \in TabState
    BY <2>1 DEF TypeInv, TabState, Phase
  <2>3. [confirmed EXCEPT !.phase = "reload",
            !.marks = IF Page[t] = "home" THEN blob.marks ELSE @] \in TabState
    BY <2>1 DEF TypeInv, TabState, Phase
  <2>4. tab' \in [Tab -> TabState]
    BY <1>9, <2>2, <2>3 DEF Confirm, TypeInv
  <2>5. answers' \in [Tab -> SUBSET AnswerState]
    <3>1. Answers(TRUE) \subseteq AnswerState
      BY AnswersType
    <3>2. answers[t] \in SUBSET AnswerState
      BY DEF TypeInv
    <3>3. CASE Page[t] = "title"
      BY <1>9, <3>3 DEF Confirm, TypeInv
    <3>4. CASE Page[t] # "title"
      <4>1. PICK a \in Answers(TRUE) : answers' = [answers EXCEPT ![t] = @ \cup {a}]
        BY <1>9, <3>4 DEF Confirm
      <4> QED
        BY <3>1, <3>2, <4>1 DEF TypeInv
    <3> QED
      BY <3>3, <3>4
  <2> QED
    BY <1>9, <2>4, <2>5 DEF Confirm, TypeInv
<1>10. ASSUME NEW t \in Tab, TimeOut(t) PROVE TypeInv'
  BY <1>10, RolledBackType DEF TimeOut, TypeInv
<1>11. CASE UNCHANGED vars
  BY <1>11 DEF vars, TypeInv
<1> QED
  BY <1>1, <1>2, <1>3, <1>4, <1>5, <1>6, <1>7, <1>8, <1>9, <1>10, <1>11
  DEF Next, Act, LoadEnds

-----------------------------------------------------------------------------
(* The undisturbed tap.                                                    *)

LEMMA AloneInvStep == ClientInv /\ [Next]_vars => AloneInv'
<1> SUFFICES ASSUME TypeInv, BusyInv, AloneInv, [Next]_vars,
                    NEW t \in Tab, tab'[t].alone
             PROVE  LET s == tab'[t] IN
                    /\ s.phase = "post" => s.before = blob'.stamp /\ queue' = <<>>
                    /\ s.phase = "poll" => s.saved \/ (s.before = blob'.stamp /\ OnlyMine(t)')
                    /\ s.confirmed => s.saved
  BY DEF ClientInv, AloneInv
<1> DEFINE s == tab[t]
           Goal == /\ tab'[t].phase = "post" => tab'[t].before = blob'.stamp /\ queue' = <<>>
                   /\ tab'[t].phase = "poll" =>
                        tab'[t].saved \/ (tab'[t].before = blob'.stamp /\ OnlyMine(t)')
                   /\ tab'[t].confirmed => tab'[t].saved
<1>0. /\ s \in TabState
      /\ s.phase \in {"read", "post", "poll"} => ~s.confirmed
      /\ s.alone =>
            /\ s.phase = "post" => s.before = blob.stamp /\ queue = <<>>
            /\ s.phase = "poll" => s.saved \/ (s.before = blob.stamp /\ OnlyMine(t))
            /\ s.confirmed => s.saved
  BY DEF TypeInv, BusyInv, AloneInv
\* Steps that leave t's tap, the queue and the stamp alone.
<1>a. ASSUME UNCHANGED <<blob, queue>>, tab'[t] = tab[t] PROVE Goal
  BY <1>0, <1>a DEF OnlyMine
\* Steps of loads only touch what is shown, and end the reload.
<1>b. ASSUME UNCHANGED <<blob, queue>>,
             tab'[t].alone = s.alone, tab'[t].before = s.before, tab'[t].taps = s.taps,
             tab'[t].saved = s.saved, tab'[t].confirmed = s.confirmed,
             tab'[t].phase \in {s.phase, "idle"}
      PROVE  Goal
  BY <1>0, <1>b DEF OnlyMine
<1>1. CASE Fold
  <2> DEFINE e == Head(queue)
  <2>1. e \in Event /\ e = queue[1] /\ 1 \in DOMAIN queue
    BY <1>1 DEF Fold, TypeInv
  <2>2. CASE tab[e.tab].taps = e.tap
    <3>1. tab' = [tab EXCEPT ![e.tab].saved = TRUE]
      BY <1>1, <2>2 DEF Fold
    <3>2. CASE e.tab = t
      <4>1. tab'[t] = [s EXCEPT !.saved = TRUE]
        BY <2>1, <3>1, <3>2 DEF TypeInv, Event
      <4>2. /\ tab'[t].saved /\ tab'[t].alone = s.alone /\ tab'[t].phase = s.phase
            /\ tab'[t].confirmed = s.confirmed
        BY <4>1, <1>0 DEF TabState
      <4> QED
        BY <1>0, <1>1, <4>2 DEF Fold
    <3>3. CASE e.tab # t
      <4>1. tab'[t] = s
        BY <2>1, <3>1, <3>3 DEF TypeInv, Event
      <4> QED
        BY <1>0, <1>1, <2>1, <3>3, <4>1 DEF Fold, OnlyMine
    <3> QED
      BY <3>2, <3>3
  <2>3. CASE tab[e.tab].taps # e.tap
    <3>1. tab' = tab
      BY <1>1, <2>3 DEF Fold
    <3>2. ~OnlyMine(t)
      BY <2>1, <2>3 DEF OnlyMine
    <3> QED
      BY <1>0, <1>1, <3>1, <3>2 DEF Fold
  <2> QED
    BY <2>2, <2>3
<1>2. CASE Lose
  <2>1. queue # <<>> /\ queue' = Tail(queue) /\ tab' = tab /\ blob' = blob
    BY <1>2 DEF Lose
  <2>2. ASSUME NEW k \in DOMAIN queue' PROVE k + 1 \in DOMAIN queue /\ queue'[k] = queue[k + 1]
    BY <2>1 DEF TypeInv
  <2>3. OnlyMine(t) => OnlyMine(t)'
    BY <2>1, <2>2 DEF OnlyMine
  <2> QED
    BY <1>0, <2>1, <2>3
<1>3. ASSUME NEW q \in Tab, NEW i \in Item, NEW mark \in {"like", "skip"}, Tap(q, i, mark)
      PROVE  Goal
  <2>1. CASE q = t
    <3>1. tab'[t].alone = FALSE
      BY <1>0, <1>3, <2>1 DEF Tap, TypeInv, TabState
    <3> QED
      BY <3>1
  <2>2. CASE q # t
    BY <1>a, <1>3, <2>2 DEF Tap, TypeInv
  <2> QED
    BY <2>1, <2>2
<1>4. ASSUME NEW q \in Tab, Ask(q) PROVE Goal
  BY <1>a, <1>4 DEF Ask
<1>5. ASSUME NEW q \in Tab, NEW a \in answers[q], Arrive(q, a) PROVE Goal
  <2>1. CASE q = t
    <3>1. tab'[t] = [s EXCEPT !.shown = a.stamp, !.marks = a.marks, !.phase = AfterLoad(t, a)]
      BY <1>5, <2>1 DEF Arrive, TypeInv
    <3>2. AfterLoad(t, a) \in {s.phase, "idle"}
      BY DEF AfterLoad
    <3> HIDE DEF s
    <3>3. /\ tab'[t].alone = s.alone /\ tab'[t].before = s.before /\ tab'[t].taps = s.taps
          /\ tab'[t].saved = s.saved /\ tab'[t].confirmed = s.confirmed
          /\ tab'[t].phase = AfterLoad(t, a)
      BY <1>0, <3>1 DEF TabState
    <3> QED
      BY <1>5, <1>b, <3>2, <3>3 DEF Arrive
  <2>2. CASE q # t
    BY <1>a, <1>5, <2>2 DEF Arrive, TypeInv
  <2> QED
    BY <2>1, <2>2
<1>6. ASSUME NEW q \in Tab, NEW a \in answers[q], LoadFails(q, a) PROVE Goal
  <2>1. CASE q = t
    <3>1. tab'[t] = [s EXCEPT !.phase = AfterLoad(t, a)]
      BY <1>6, <2>1 DEF LoadFails, TypeInv
    <3>2. AfterLoad(t, a) \in {s.phase, "idle"}
      BY DEF AfterLoad
    <3> HIDE DEF s
    <3>3. /\ tab'[t].alone = s.alone /\ tab'[t].before = s.before /\ tab'[t].taps = s.taps
          /\ tab'[t].saved = s.saved /\ tab'[t].confirmed = s.confirmed
          /\ tab'[t].phase = AfterLoad(t, a)
      BY <1>0, <3>1 DEF TabState
    <3> QED
      BY <1>6, <1>b, <3>2, <3>3 DEF LoadFails
  <2>2. CASE q # t
    BY <1>a, <1>6, <2>2 DEF LoadFails, TypeInv
  <2> QED
    BY <2>1, <2>2
<1>7. ASSUME NEW q \in Tab, Read(q) PROVE Goal
  <2>1. CASE q = t
    <3>1. PICK stamp \in StampBefore(t) : tab' = [tab EXCEPT ![t] = Compare(t, stamp)]
      BY <1>7, <2>1 DEF Read
    <3> DEFINE free == stamp = blob.stamp /\ queue = <<>>
    <3>2. tab'[t] = [s EXCEPT !.phase = "post", !.before = stamp, !.alone = free]
      BY <3>1 DEF Compare, TypeInv
    <3>3. s.phase = "read" /\ UNCHANGED <<blob, queue>>
      BY <1>7, <2>1 DEF Read
    <3> HIDE DEF s, free
    <3>4. /\ tab'[t].phase = "post" /\ tab'[t].before = stamp /\ tab'[t].alone = free
          /\ tab'[t].confirmed = s.confirmed /\ tab'[t].saved = s.saved
      BY <1>0, <3>2 DEF TabState
    <3>5. ~s.confirmed
      BY <1>0, <3>3
    <3>6. free => OnlyMine(t)' /\ stamp = blob'.stamp /\ queue' = <<>>
      BY <3>3 DEF free, OnlyMine
    <3> QED
      BY <3>4, <3>5, <3>6
  <2>2. CASE q # t
    BY <1>a, <1>7, <2>2 DEF Read, TypeInv
  <2> QED
    BY <2>1, <2>2
<1>c. ASSUME tab' = [tab EXCEPT ![t] = RolledBack(t)]
      PROVE  tab'[t].phase = "idle" /\ tab'[t].confirmed = s.confirmed
  <2>1. tab'[t] = [s EXCEPT !.phase = "idle", !.marks = MarksWithout(t)]
    BY <1>c DEF RolledBack, TypeInv
  <2> HIDE DEF s
  <2> QED
    BY <1>0, <2>1 DEF TabState
<1>8. ASSUME NEW q \in Tab, Post(q) PROVE Goal
  <2>1. CASE q = t
    <3>1. s.phase = "post" /\ blob' = blob
      BY <1>8, <2>1 DEF Post
    <3>2. Disturbed(t)[t] = s
      BY DEF Disturbed
    <3>3. CASE Enqueue(t) /\ tab' = [Disturbed(t) EXCEPT ![t].phase = "poll"]
      <4>1. tab'[t] = [s EXCEPT !.phase = "poll"]
        BY <3>2, <3>3 DEF Disturbed
      <4> DEFINE e == [tab |-> t, tap |-> s.taps, item |-> s.item, mark |-> s.mark]
      <4>2. queue' = Append(queue, e)
        BY <3>3 DEF Enqueue
      <4>3. e.tab = t /\ e.tap = s.taps /\ e \in Event
        BY <1>0 DEF Event, TabState
      <4> HIDE DEF s, e
      <4>4. /\ tab'[t].alone = s.alone /\ tab'[t].before = s.before /\ tab'[t].taps = s.taps
            /\ tab'[t].confirmed = s.confirmed /\ tab'[t].phase = "poll"
        BY <1>0, <4>1 DEF TabState
      <4>5. s.alone => queue = <<>> /\ s.before = blob.stamp
        BY <1>0, <3>1
      <4>6. s.alone => OnlyMine(t)'
        BY <4>2, <4>3, <4>4, <4>5 DEF OnlyMine
      <4> QED
        BY <1>0, <3>1, <4>4, <4>5, <4>6
    <3>4. CASE tab' = [Disturbed(t) EXCEPT ![t] = RolledBack(t)]
      <4>1. tab'[t] = [s EXCEPT !.phase = "idle", !.marks = MarksWithout(t)]
        BY <3>4 DEF Disturbed, RolledBack
      <4> HIDE DEF s
      <4>2. tab'[t].phase = "idle" /\ tab'[t].confirmed = s.confirmed
        BY <1>0, <4>1 DEF TabState
      <4> QED
        BY <1>0, <3>1, <4>2
    <3>5. CASE tab' = [tab EXCEPT ![t] = RolledBack(t)]
      BY <1>0, <1>c, <3>1, <3>5
    <3> QED
      BY <1>8, <2>1, <3>3, <3>4, <3>5 DEF Post
  <2>2. CASE q # t
    <3>1. CASE tab' = [tab EXCEPT ![q] = RolledBack(q)] /\ UNCHANGED queue
      BY <1>8, <1>a, <2>2, <3>1 DEF Post, TypeInv
    <3>2. CASE tab' \in {[Disturbed(q) EXCEPT ![q].phase = "poll"],
                         [Disturbed(q) EXCEPT ![q] = RolledBack(q)]}
      <4>1. tab'[t] = [s EXCEPT !.alone = FALSE]
        BY <2>2, <3>2 DEF Disturbed
      <4> HIDE DEF s
      <4>2. tab'[t].alone = FALSE
        BY <1>0, <4>1 DEF TabState
      <4> QED
        BY <4>2
    <3> QED
      BY <1>8, <3>1, <3>2 DEF Post
  <2> QED
    BY <2>1, <2>2
<1>9. ASSUME NEW q \in Tab, Confirm(q) PROVE Goal
  <2>1. CASE q = t
    <3>1. s.phase = "poll" /\ Newer(t) /\ UNCHANGED <<blob, queue>>
      BY <1>9, <2>1 DEF Confirm
    <3>2. s.alone => s.saved
      BY <1>0, <3>1 DEF Newer, TypeInv, TabState
    <3>3. CASE Page[t] = "title"
      <4>1. tab'[t] = [[s EXCEPT !.confirmed = TRUE] EXCEPT !.phase = "idle", !.marks = blob.marks]
        BY <1>9, <2>1, <3>3 DEF Confirm, TypeInv
      <4> HIDE DEF s
      <4> QED
        BY <1>0, <3>2, <4>1 DEF TabState
    <3>4. CASE Page[t] # "title"
      <4>1. tab'[t] = [[s EXCEPT !.confirmed = TRUE] EXCEPT !.phase = "reload",
                            !.marks = IF Page[t] = "home" THEN blob.marks ELSE @]
        BY <1>9, <2>1, <3>4 DEF Confirm, TypeInv
      <4> HIDE DEF s
      <4>2. /\ tab'[t].alone = s.alone /\ tab'[t].saved = s.saved
            /\ tab'[t].phase = "reload"
        BY <1>0, <4>1 DEF TabState
      <4> QED
        BY <3>2, <4>2
    <3> QED
      BY <3>3, <3>4
  <2>2. CASE q # t
    BY <1>9, <1>a, <2>2 DEF Confirm, TypeInv
  <2> QED
    BY <2>1, <2>2
<1>10. ASSUME NEW q \in Tab, TimeOut(q) PROVE Goal
  <2>1. CASE q = t
    <3>1. s.phase = "poll" /\ tab' = [tab EXCEPT ![t] = RolledBack(t)]
      BY <1>10, <2>1 DEF TimeOut, Overdue
    <3> QED
      BY <1>0, <1>c, <3>1
  <2>2. CASE q # t
    BY <1>10, <1>a, <2>2 DEF TimeOut, TypeInv
  <2> QED
    BY <2>1, <2>2
<1>11. CASE UNCHANGED vars
  BY <1>11, <1>a DEF vars
<1> QED
  BY <1>1, <1>2, <1>3, <1>4, <1>5, <1>6, <1>7, <1>8, <1>9, <1>10, <1>11
  DEF Next, Act, LoadEnds

LEMMA BusyInvStep == ClientInv /\ [Next]_vars => BusyInv'
<1> SUFFICES ASSUME TypeInv, BusyInv, [Next]_vars,
                    NEW t \in Tab, tab'[t].phase \in {"read", "post", "poll"}
             PROVE  ~tab'[t].confirmed
  BY DEF ClientInv, BusyInv
<1>0. tab[t] \in TabState /\ (tab[t].phase \in {"read", "post", "poll"} => ~tab[t].confirmed)
  BY DEF TypeInv, BusyInv
<1> DEFINE s == tab[t]
<1>a. ASSUME tab'[t].confirmed = s.confirmed,
             s.phase \in {"read", "post", "poll"} \/ tab'[t].phase = s.phase
      PROVE  ~tab'[t].confirmed
  BY <1>0, <1>a
<1>1. CASE Fold
  <2>1. tab'[t] = s \/ tab'[t] = [s EXCEPT !.saved = TRUE]
    BY <1>1 DEF Fold, TypeInv
  <2> HIDE DEF s
  <2>2. tab'[t].confirmed = s.confirmed /\ tab'[t].phase = s.phase
    BY <1>0, <2>1 DEF TabState, s
  <2> QED
    BY <1>a, <2>2
<1>2. CASE Lose
  BY <1>2, <1>a DEF Lose
<1>3. ASSUME NEW q \in Tab, NEW i \in Item, NEW mark \in {"like", "skip"}, Tap(q, i, mark)
      PROVE  ~tab'[t].confirmed
  <2>1. CASE q = t
    BY <1>0, <1>3, <2>1 DEF Tap, TypeInv, TabState
  <2>2. CASE q # t
    BY <1>a, <1>3, <2>2 DEF Tap, TypeInv
  <2> QED
    BY <2>1, <2>2
<1>4. ASSUME NEW q \in Tab, Ask(q) PROVE ~tab'[t].confirmed
  BY <1>a, <1>4 DEF Ask
<1>5. ASSUME NEW q \in Tab, NEW a \in answers[q], Arrive(q, a) \/ LoadFails(q, a)
      PROVE  ~tab'[t].confirmed
  <2>1. CASE q = t
    <3>1. \/ tab'[t] = [s EXCEPT !.shown = a.stamp, !.marks = a.marks, !.phase = AfterLoad(t, a)]
          \/ tab'[t] = [s EXCEPT !.phase = AfterLoad(t, a)]
      BY <1>5, <2>1 DEF Arrive, LoadFails, TypeInv
    <3>2. AfterLoad(t, a) \in {s.phase, "idle"}
      BY DEF AfterLoad
    <3> HIDE DEF s
    <3>3. tab'[t].confirmed = s.confirmed /\ tab'[t].phase = AfterLoad(t, a)
      BY <1>0, <3>1 DEF TabState, s
    <3> QED
      BY <1>a, <3>2, <3>3
  <2>2. CASE q # t
    BY <1>a, <1>5, <2>2 DEF Arrive, LoadFails, TypeInv
  <2> QED
    BY <2>1, <2>2
<1>6. ASSUME NEW q \in Tab, Read(q) PROVE ~tab'[t].confirmed
  <2>1. CASE q = t
    <3>1. PICK stamp \in StampBefore(t) : tab' = [tab EXCEPT ![t] = Compare(t, stamp)]
      BY <1>6, <2>1 DEF Read
    <3> DEFINE free == stamp = blob.stamp /\ queue = <<>>
    <3>2. tab'[t] = [s EXCEPT !.phase = "post", !.before = stamp, !.alone = free]
      BY <3>1 DEF Compare, TypeInv
    <3>3. s.phase = "read"
      BY <1>6, <2>1 DEF Read
    <3> HIDE DEF s, free
    <3>4. tab'[t].confirmed = s.confirmed
      BY <1>0, <3>2 DEF TabState, s
    <3> QED
      BY <1>a, <3>3, <3>4
  <2>2. CASE q # t
    BY <1>a, <1>6, <2>2 DEF Read, TypeInv
  <2> QED
    BY <2>1, <2>2
<1>7. ASSUME NEW q \in Tab, Post(q) PROVE ~tab'[t].confirmed
  <2>1. CASE q = t
    <3>1. s.phase = "post"
      BY <1>7, <2>1 DEF Post
    <3>2. Disturbed(t)[t] = s
      BY DEF Disturbed
    <3>3. \/ tab'[t] = [s EXCEPT !.phase = "poll"]
          \/ tab'[t] = [s EXCEPT !.phase = "idle", !.marks = MarksWithout(t)]
      BY <1>7, <2>1, <3>2 DEF Post, Disturbed, RolledBack, TypeInv
    <3> HIDE DEF s
    <3>4. tab'[t].confirmed = s.confirmed
      BY <1>0, <3>3 DEF TabState, s
    <3> QED
      BY <1>a, <3>1, <3>4
  <2>2. CASE q # t
    <3>1. tab'[t] = s \/ tab'[t] = [s EXCEPT !.alone = FALSE]
      BY <1>7, <2>2 DEF Post, Disturbed, TypeInv
    <3> HIDE DEF s
    <3>2. tab'[t].confirmed = s.confirmed /\ tab'[t].phase = s.phase
      BY <1>0, <3>1 DEF TabState, s
    <3> QED
      BY <1>a, <3>2
  <2> QED
    BY <2>1, <2>2
<1>8. ASSUME NEW q \in Tab, Confirm(q) PROVE ~tab'[t].confirmed
  <2>1. CASE q = t
    <3>1. \/ tab'[t] = [[s EXCEPT !.confirmed = TRUE] EXCEPT !.phase = "idle", !.marks = blob.marks]
          \/ tab'[t] = [[s EXCEPT !.confirmed = TRUE] EXCEPT !.phase = "reload",
                            !.marks = IF Page[t] = "home" THEN blob.marks ELSE @]
      BY <1>8, <2>1 DEF Confirm, TypeInv
    <3> HIDE DEF s
    <3>2. tab'[t].phase \in {"idle", "reload"}
      BY <1>0, <3>1 DEF TabState, s
    <3> QED
      BY <3>2
  <2>2. CASE q # t
    BY <1>8, <1>a, <2>2 DEF Confirm, TypeInv
  <2> QED
    BY <2>1, <2>2
<1>9. ASSUME NEW q \in Tab, TimeOut(q) PROVE ~tab'[t].confirmed
  <2>1. CASE q = t
    <3>1. tab'[t].phase = "idle"
      BY <1>0, <1>9, <2>1 DEF TimeOut, RolledBack, TypeInv, TabState
    <3> QED
      BY <3>1
  <2>2. CASE q # t
    BY <1>9, <1>a, <2>2 DEF TimeOut, TypeInv
  <2> QED
    BY <2>1, <2>2
<1>10. CASE UNCHANGED vars
  BY <1>10, <1>a DEF vars
<1> QED
  BY <1>1, <1>2, <1>3, <1>4, <1>5, <1>6, <1>7, <1>8, <1>9, <1>10
  DEF Next, Act, LoadEnds

-----------------------------------------------------------------------------
\* An undisturbed tap that the page reports as saved is in the stored features
\* (api.ts, waitForFeatureUpdate), for any number of tabs, taps and titles.
THEOREM UndisturbedTapIsSaved == Spec => []ConfirmedTapIsSaved
<1>1. ClientInv /\ [Next]_vars => ClientInv'
  BY TypeInvStep, BusyInvStep, AloneInvStep DEF ClientInv
<1>2. ClientInv => ConfirmedTapIsSaved
  BY DEF ClientInv, AloneInv, ConfirmedTapIsSaved
<1> QED
  BY ClientInvInit, <1>1, <1>2, PTL DEF Spec

-----------------------------------------------------------------------------
(* Marks the stored features had.                                            *)

\* What the stored features may have shown: no mark, and those they have.
PastInv ==
    /\ DOMAIN past = Item
    /\ \A i \in Item : "none" \in past[i] /\ blob.marks[i] \in past[i]

\* The marks of an answer under way were once those of the features.
AnswersInv == \A t \in Tab : \A a \in answers[t] : \A i \in Item : a.marks[i] \in past[i]

\* The marks of a page were too, but for that of the tap under way.
HadAll(s) ==
    \A i \in Item : s.phase \in {"idle", "reload"} \/ i # s.item => s.marks[i] \in past[i]
MarksInv == \A t \in Tab : Page[t] # "bill" => HadAll(tab[t])

PhantomInv == PastInv /\ AnswersInv /\ MarksInv

LEMMA PhantomInvInit == Init => PhantomInv
<1> SUFFICES ASSUME Init PROVE PhantomInv
  OBVIOUS
<1>1. PastInv
  BY DEF Init, PastInv, NoMarks
<1>2. AnswersInv
  BY DEF Init, AnswersInv
<1>3. FreshTab.marks = NoMarks
  BY DEF FreshTab
<1>4. MarksInv
  BY <1>3 DEF Init, MarksInv, HadAll, NoMarks
<1> QED
  BY <1>1, <1>2, <1>4 DEF PhantomInv

\* The past only grows.
LEMMA PastGrows ==
    ASSUME TypeInv, PastInv, [Next]_vars
    PROVE  PastInv' /\ \A i \in Item : past[i] \subseteq past'[i]
<1>1. CASE Fold
  <2> DEFINE e == Head(queue)
  <2>1. e \in Event
    BY <1>1 DEF Fold, TypeInv
  <2>2. /\ past' = [past EXCEPT ![e.item] = @ \cup {e.mark}]
        /\ blob'.marks = [blob.marks EXCEPT ![e.item] = e.mark]
    BY <1>1 DEF Fold
  <2>3. e.item \in Item /\ blob.marks \in [Item -> Mark]
    BY <2>1 DEF Event, TypeInv
  <2> HIDE DEF e
  <2> QED
    BY <2>2, <2>3 DEF PastInv
<1>2. CASE UNCHANGED <<blob, past>>
  BY <1>2 DEF PastInv
<1> QED
  BY <1>1, <1>2 DEF Next, Act, LoadEnds, Lose, Tap, Ask, Read, Post, Confirm, TimeOut,
     Arrive, LoadFails, vars

\* An answer is made of the features of its time, or of none.
LEMMA AnswersHad ==
    ASSUME TypeInv, PastInv, NEW own, NEW a \in Answers(own), NEW i \in Item
    PROVE  a.marks[i] \in past[i]
  BY DEF Answers, PastInv, NoMarks

LEMMA AnswersInvStep ==
    ASSUME TypeInv, PastInv, AnswersInv, [Next]_vars
    PROVE  AnswersInv'
<1>1. \A i \in Item : past[i] \subseteq past'[i]
  BY PastGrows
<1>2. ASSUME NEW t \in Tab, NEW a \in answers'[t]
      PROVE  a \in answers[t] \/ a \in Answers(TRUE) \/ a \in Answers(FALSE)
  <2>1. ASSUME NEW q \in Tab, Ask(q) PROVE a \in answers[t] \/ a \in Answers(FALSE)
    BY <1>2, <2>1 DEF Ask, TypeInv
  <2>2. ASSUME NEW q \in Tab, Confirm(q) PROVE a \in answers[t] \/ a \in Answers(TRUE)
    <3>1. \/ answers' = answers
          \/ \E b \in Answers(TRUE) : answers' = [answers EXCEPT ![q] = @ \cup {b}]
      BY <2>2 DEF Confirm
    <3> QED
      BY <1>2, <3>1 DEF TypeInv
  <2>3. ASSUME NEW q \in Tab, NEW b \in answers[q], LoadEnds(q, b) PROVE a \in answers[t]
    BY <1>2, <2>3 DEF LoadEnds, Arrive, LoadFails, TypeInv
  <2>4. CASE UNCHANGED answers
    BY <1>2, <2>4
  <2> QED
    BY <2>1, <2>2, <2>3, <2>4 DEF Next, Act, Fold, Lose, Tap, Read, Post, TimeOut, vars
<1>3. \A a \in Answers(TRUE) \cup Answers(FALSE) : \A i \in Item : a.marks[i] \in past[i]
  BY AnswersHad
<1> QED
  BY <1>1, <1>2, <1>3 DEF AnswersInv

\* What rolling a tap back leaves.
LEMMA RolledBackHad ==
    ASSUME TypeInv, PastInv, NEW t \in Tab, HadAll(tab[t]), NEW i \in Item
    PROVE  RolledBack(t).marks[i] \in past[i]
<1>1. tab[t] \in TabState
  BY DEF TypeInv
<1>2. RolledBack(t).marks = MarksWithout(t)
  BY <1>1 DEF RolledBack, TabState
<1>3. MarksWithout(t)[i] = IF i = tab[t].item THEN "none" ELSE tab[t].marks[i]
  BY <1>1 DEF MarksWithout, TabState
<1> QED
  BY <1>2, <1>3 DEF HadAll, PastInv

LEMMA MarksInvStep ==
    ASSUME TypeInv, PhantomInv, [Next]_vars
    PROVE  MarksInv'
<1> SUFFICES ASSUME NEW t \in Tab, Page[t] # "bill", NEW i \in Item,
                    tab'[t].phase \in {"idle", "reload"} \/ i # tab'[t].item
             PROVE  tab'[t].marks[i] \in past[i]
  BY PastGrows DEF MarksInv, HadAll, PhantomInv
<1> DEFINE s == tab[t]
<1>0. /\ s \in TabState /\ HadAll(s) /\ PastInv
      /\ \A a \in answers[t] : a.marks[i] \in past[i]
  BY DEF TypeInv, PhantomInv, MarksInv, AnswersInv
<1> DEFINE Goal == tab'[t].marks[i] \in past[i]
\* Nothing of the tab's marks, its tap and its phase is touched.
<1>a. ASSUME tab'[t].marks = s.marks, tab'[t].item = s.item, tab'[t].phase = s.phase
      PROVE  Goal
  BY <1>0, <1>a DEF HadAll
<1>b. ASSUME tab'[t] = s \/ tab'[t] = [s EXCEPT !.alone = FALSE]
                         \/ tab'[t] = [s EXCEPT !.saved = TRUE]
      PROVE  Goal
  <2> HIDE DEF s
  <2>1. tab'[t].marks = s.marks /\ tab'[t].item = s.item /\ tab'[t].phase = s.phase
    BY <1>0, <1>b DEF TabState
  <2> QED
    BY <1>a, <2>1
<1>c. ASSUME tab'[t] = RolledBack(t) PROVE Goal
  BY <1>0, <1>c, RolledBackHad
<1>1. CASE Fold
  <2>1. tab'[t] = s \/ tab'[t] = [s EXCEPT !.saved = TRUE]
    BY <1>1 DEF Fold, TypeInv
  <2> QED
    BY <1>b, <2>1
<1>2. CASE Lose \/ UNCHANGED vars
  BY <1>2, <1>b DEF Lose, vars
<1>3. ASSUME NEW q \in Tab, NEW j \in Item, NEW mark \in {"like", "skip"}, Tap(q, j, mark)
      PROVE  Goal
  <2>1. CASE q = t
    <3>1. s.phase = "idle"
      BY <1>3, <2>1 DEF Tap
    <3>2. tab'[t] = [s EXCEPT !.phase = "read", !.item = j, !.mark = mark,
                              !.marks[j] = mark, !.taps = @ + 1,
                              !.saved = FALSE, !.confirmed = FALSE, !.alone = FALSE]
      BY <1>3, <2>1 DEF Tap, TypeInv
    <3> HIDE DEF s
    <3>3. /\ tab'[t].phase = "read" /\ tab'[t].item = j
          /\ i # j => tab'[t].marks[i] = s.marks[i]
      BY <1>0, <3>2 DEF TabState
    <3> QED
      BY <1>0, <3>1, <3>3 DEF HadAll
  <2>2. CASE q # t
    BY <1>b, <1>3, <2>2 DEF Tap, TypeInv
  <2> QED
    BY <2>1, <2>2
<1>4. ASSUME NEW q \in Tab, Ask(q) PROVE Goal
  BY <1>b, <1>4 DEF Ask
<1>5. ASSUME NEW q \in Tab, NEW a \in answers[q], Arrive(q, a) PROVE Goal
  <2>1. CASE q = t
    <3>1. tab'[t] = [s EXCEPT !.shown = a.stamp, !.marks = a.marks, !.phase = AfterLoad(t, a)]
      BY <1>5, <2>1 DEF Arrive, TypeInv
    <3> HIDE DEF s
    <3>2. tab'[t].marks = a.marks
      BY <1>0, <3>1 DEF TabState
    <3> QED
      BY <1>0, <2>1, <1>5, <3>2
  <2>2. CASE q # t
    BY <1>b, <1>5, <2>2 DEF Arrive, TypeInv
  <2> QED
    BY <2>1, <2>2
<1>6. ASSUME NEW q \in Tab, NEW a \in answers[q], LoadFails(q, a) PROVE Goal
  <2>1. CASE q = t
    <3>1. tab'[t] = [s EXCEPT !.phase = AfterLoad(t, a)]
      BY <1>6, <2>1 DEF LoadFails, TypeInv
    <3>2. AfterLoad(t, a) = s.phase \/ s.phase = "reload"
      BY DEF AfterLoad
    <3> HIDE DEF s
    <3>3. /\ tab'[t].marks = s.marks /\ tab'[t].item = s.item
          /\ tab'[t].phase = s.phase \/ s.phase = "reload"
      BY <1>0, <3>1, <3>2 DEF TabState
    <3> QED
      BY <1>0, <3>3 DEF HadAll
  <2>2. CASE q # t
    BY <1>b, <1>6, <2>2 DEF LoadFails, TypeInv
  <2> QED
    BY <2>1, <2>2
<1>7. ASSUME NEW q \in Tab, Read(q) PROVE Goal
  <2>1. CASE q = t
    <3>1. PICK stamp : tab' = [tab EXCEPT ![t] = Compare(t, stamp)]
      BY <1>7, <2>1 DEF Read
    <3> DEFINE free == stamp = blob.stamp /\ queue = <<>>
    <3>2. tab'[t] = [s EXCEPT !.phase = "post", !.before = stamp, !.alone = free]
      BY <3>1 DEF Compare, TypeInv
    <3>3. s.phase = "read"
      BY <1>7, <2>1 DEF Read
    <3> HIDE DEF s, free
    <3>4. tab'[t].marks = s.marks /\ tab'[t].item = s.item /\ tab'[t].phase = "post"
      BY <1>0, <3>2 DEF TabState
    <3> QED
      BY <1>0, <3>3, <3>4 DEF HadAll
  <2>2. CASE q # t
    BY <1>b, <1>7, <2>2 DEF Read, TypeInv
  <2> QED
    BY <2>1, <2>2
<1>8. ASSUME NEW q \in Tab, Post(q) PROVE Goal
  <2>1. CASE q = t
    <3>1. s.phase = "post" /\ Disturbed(t)[t] = s
      BY <1>8, <2>1 DEF Post, Disturbed
    <3>2. tab'[t] = [s EXCEPT !.phase = "poll"] \/ tab'[t] = RolledBack(t)
      BY <1>8, <2>1, <3>1 DEF Post, Disturbed, TypeInv
    <3>3. CASE tab'[t] = [s EXCEPT !.phase = "poll"]
      <4> HIDE DEF s
      <4>1. tab'[t].marks = s.marks /\ tab'[t].item = s.item /\ tab'[t].phase = "poll"
        BY <1>0, <3>3 DEF TabState
      <4> QED
        BY <1>0, <4>1 DEF HadAll
    <3> QED
      BY <1>c, <3>2, <3>3
  <2>2. CASE q # t
    <3>1. tab'[t] = s \/ tab'[t] = [s EXCEPT !.alone = FALSE]
      BY <1>8, <2>2 DEF Post, Disturbed, TypeInv
    <3> QED
      BY <1>b, <3>1
  <2> QED
    BY <2>1, <2>2
<1>9. ASSUME NEW q \in Tab, Confirm(q) PROVE Goal
  <2>1. CASE q = t
    <3>1. Page[t] \in {"home", "title"}
      BY ClientAssumption DEF Kind
    <3>2. \/ tab'[t] = [[s EXCEPT !.confirmed = TRUE] EXCEPT !.phase = "idle",
                            !.marks = blob.marks]
          \/ tab'[t] = [[s EXCEPT !.confirmed = TRUE] EXCEPT !.phase = "reload",
                            !.marks = blob.marks]
      BY <1>9, <2>1, <3>1 DEF Confirm, TypeInv
    <3> HIDE DEF s
    <3>3. tab'[t].marks = blob.marks
      BY <1>0, <3>2 DEF TabState
    <3> QED
      BY <1>0, <3>3 DEF PastInv
  <2>2. CASE q # t
    BY <1>b, <1>9, <2>2 DEF Confirm, TypeInv
  <2> QED
    BY <2>1, <2>2
<1>10. ASSUME NEW q \in Tab, TimeOut(q) PROVE Goal
  <2>1. CASE q = t
    <3>1. tab'[t] = RolledBack(t)
      BY <1>10, <2>1 DEF TimeOut, TypeInv
    <3> QED
      BY <1>c, <3>1
  <2>2. CASE q # t
    BY <1>10, <1>b, <2>2 DEF TimeOut, TypeInv
  <2> QED
    BY <2>1, <2>2
<1> QED
  BY <1>1, <1>2, <1>3, <1>4, <1>5, <1>6, <1>7, <1>8, <1>9, <1>10 DEF Next, Act, LoadEnds

\* A page at rest shows no mark that the stored features never had (the catch
\* branch of act, and the loads that arrive whenever they do), for any number
\* of tabs, taps, loads and lost events.
THEOREM MarksAreReal == Spec => []NoPhantomMarks
<1>1. Init => TypeInv /\ PhantomInv
  BY ClientInvInit, PhantomInvInit DEF ClientInv
<1>2. TypeInv /\ PhantomInv /\ [Next]_vars => TypeInv' /\ PhantomInv'
  BY TypeInvStep, PastGrows, AnswersInvStep, MarksInvStep DEF PhantomInv
<1>3. PhantomInv => NoPhantomMarks
  BY DEF PhantomInv, MarksInv, HadAll, NoPhantomMarks
<1> QED
  BY <1>1, <1>2, <1>3, PTL DEF Spec

-----------------------------------------------------------------------------
(* Finding a movie.                                                        *)

\* The filters, the field and the addresses are what they should be.
FilterTypes ==
    /\ filter \in Filter /\ wanted \in Filter /\ draft \in Draft
    /\ timer \in BOOLEAN /\ hasty \in BOOLEAN
    /\ url \in {BrowseQuery(f) : f \in Filter}
    /\ nav # NoNav => nav \in {BrowseQuery(f) : f \in Filter} /\ nav # url

\* The state is what the address says unless a navigation is to change it,
\* and what the field says unless its timer is to.
CopiesAgree ==
    /\ nav = NoNav => filter = Parsed(url)
    /\ ~timer => filter.q = Trim(draft)

\* Without haste the user's choice is the filters with the field's text, and a
\* navigation under way goes where the filters already are.
ChoiceIsKept ==
    ~hasty => /\ wanted = [filter EXCEPT !.q = Trim(draft)]
              /\ nav # NoNav => nav = BrowseQuery(filter) /\ filter.q = Trim(draft)

FilterInv == FilterTypes /\ CopiesAgree /\ ChoiceIsKept

\* The loads under way, the list and the catalog's version.
LoadTypes ==
    /\ filter \in Filter
    /\ version \in 1..Len(Catalog) /\ since \in 1..version
    /\ calm \in BOOLEAN
    /\ list.offset \in Nat
    /\ \A load \in pending : /\ load.filter \in Filter /\ load.offset \in Nat
                             /\ load.from \in 1..version

\* While all is calm there is one load at most, for the page's filters and of
\* the catalog the service still has.
OneLoad ==
    /\ \A x, y \in pending : x = y
    /\ \A load \in pending : load.filter = filter /\ load.from = version

\* The first page has not come ...
NoPageYet ==
    /\ list.items = <<>> /\ list.total = 0
    /\ \A load \in pending : ~load.append /\ load.offset = 0

\* ... or pages have, and the one under way, if any, is the next.
PagesSoFar ==
    /\ list.items = Slice(Result[version][filter], 0, list.offset + PageSize)
    /\ list.total = Len(Result[version][filter])
    /\ \A load \in pending : load.append /\ load.offset = list.offset + PageSize

CalmInv == LoadTypes /\ ((calm /\ since = version) => OneLoad /\ (NoPageYet \/ PagesSoFar))

LEMMA BrowserData ==
    /\ Text \subseteq Draft
    /\ \A d \in Draft : Trim(d) \in Text
    /\ \A x \in Text : Trim(x) = x
    /\ PageSize \in Nat
    /\ Len(Catalog) \in Nat \ {0}
    /\ DOMAIN Catalog = 1..Len(Catalog)
<1>1. Catalog \in Seq({Catalog[v] : v \in DOMAIN Catalog}) /\ Catalog # <<>>
  BY BrowserAssumption
<1>2. Len(Catalog) \in Nat \ {0} /\ DOMAIN Catalog = 1..Len(Catalog)
  BY <1>1
<1>3. PageSize \in Nat
  BY BrowserAssumption
<1>4. Text \subseteq Draft /\ (\A d \in Draft : Trim(d) \in Text) /\ (\A x \in Text : Trim(x) = x)
  BY BrowserAssumption, Zenon DEF Text
<1> QED
  BY <1>2, <1>3, <1>4

\* An address says all of the filters it was made from.
LEMMA ParsedQuery == \A f \in Filter : Parsed(BrowseQuery(f)) = f
<1> SUFFICES ASSUME NEW f \in Filter PROVE Parsed(BrowseQuery(f)) = f
  OBVIOUS
<1> DEFINE u == BrowseQuery(f)
<1>1. /\ f.sort # Implied /\ f.when # Implied
  BY BrowserAssumption DEF Filter
<1>2. u.q = f.q /\ u.genre = f.genre
  BY DEF BrowseQuery
<1>3. (IF u.sort = Implied THEN "year" ELSE u.sort) = f.sort
  BY <1>1 DEF BrowseQuery
<1>4. (IF u.when = Implied THEN ImplicitEra(u.q) ELSE u.when) = f.when
  BY <1>1, <1>2 DEF BrowseQuery
<1>5. Parsed(u) = [q |-> f.q, genre |-> f.genre, sort |-> f.sort, when |-> f.when]
  BY <1>2, <1>3, <1>4 DEF Parsed
<1>6. f = [q |-> f.q, genre |-> f.genre, sort |-> f.sort, when |-> f.when]
  BY DEF Filter
<1> QED
  BY <1>5, <1>6

LEMMA QueryIsAddress == \A f \in Filter : BrowseQuery(f) \in Address /\ BrowseQuery(f) # NoNav
<1> SUFFICES ASSUME NEW f \in Filter PROVE BrowseQuery(f) \in Address
  BY BrowserAssumption
<1> QED
  BY DEF Filter, Address, BrowseQuery

LEMMA FilterInvInit == BrowserInit => FilterInv
<1> SUFFICES ASSUME BrowserInit PROVE FilterInv
  OBVIOUS
<1>1. PICK f \in Entry : url = BrowseQuery(f)
  BY DEF BrowserInit
<1>2. f \in Filter
  BY BrowserAssumption
<1>3. filter = f
  BY <1>1, <1>2, ParsedQuery DEF BrowserInit
<1>4. f.q \in Text /\ f.q \in Draft /\ Trim(f.q) = f.q
  BY <1>2, BrowserData DEF Filter
<1>5. FilterTypes
  BY <1>1, <1>2, <1>3, <1>4 DEF BrowserInit, FilterTypes
<1>6. CopiesAgree
  BY <1>3, <1>4 DEF BrowserInit, CopiesAgree
<1>7. f = [f EXCEPT !.q = f.q]
  BY <1>2 DEF Filter
<1>8. ChoiceIsKept
  BY <1>3, <1>4, <1>7 DEF BrowserInit, ChoiceIsKept
<1> QED
  BY <1>5, <1>6, <1>8 DEF FilterInv

\* What a choice does to the filters and the navigation.
LEMMA ChoiceMade ==
    ASSUME NEW f \in Filter, Choose(f), FilterTypes
    PROVE  /\ filter' = f
           /\ nav' = nav \/ (nav' = BrowseQuery(f) /\ nav' # url /\ nav' # NoNav)
           /\ (nav' = nav) => f = filter \/ BrowseQuery(f) = url \/ nav = BrowseQuery(f)
<1> QED
  BY QueryIsAddress DEF Choose, Navigation

\* A choice that leaves the field and the address alone.
LEMMA FilterInvChoice ==
    ASSUME FilterInv, NEW f \in Filter, Choose(f), UNCHANGED <<draft, url>>,
           wanted' \in Filter, timer' \in BOOLEAN, hasty' \in BOOLEAN,
           ~timer' => f.q = Trim(draft),
           ~hasty' => /\ wanted' = [f EXCEPT !.q = Trim(draft)]
                      /\ nav # NoNav => f = filter /\ ~hasty
                      /\ f = filter \/ f.q = Trim(draft)
    PROVE  FilterInv'
<1>1. /\ filter' = f
      /\ nav' = nav \/ (nav' = BrowseQuery(f) /\ nav' # url /\ nav' # NoNav)
      /\ (nav' = nav) => f = filter \/ BrowseQuery(f) = url \/ nav = BrowseQuery(f)
  BY ChoiceMade DEF FilterInv
<1>2. FilterTypes'
  BY <1>1 DEF FilterInv, FilterTypes
<1>3. CopiesAgree'
  <2>1. ASSUME nav' = NoNav PROVE f = Parsed(url)
    <3>1. nav = NoNav /\ filter = Parsed(url) /\ nav # BrowseQuery(f)
      BY <1>1, <2>1, QueryIsAddress DEF FilterInv, CopiesAgree
    <3> QED
      BY <1>1, <2>1, <3>1, ParsedQuery
  <2> QED
    BY <1>1, <2>1 DEF CopiesAgree
<1>4. ChoiceIsKept'
  <2> SUFFICES ASSUME ~hasty', nav' # NoNav
               PROVE  nav' = BrowseQuery(f) /\ f.q = Trim(draft)
    BY <1>1 DEF ChoiceIsKept
  <2>1. CASE nav # NoNav
    <3>1. f = filter /\ nav = BrowseQuery(filter) /\ filter.q = Trim(draft)
      BY <2>1 DEF FilterInv, ChoiceIsKept
    <3> QED
      BY <3>1, <1>1
  <2>2. CASE nav = NoNav
    <3>1. nav' = BrowseQuery(f)
      BY <1>1, <2>2
    <3>2. f # filter
      BY <2>2 DEF Choose
    <3> QED
      BY <3>1, <3>2
  <2> QED
    BY <2>1, <2>2
<1> QED
  BY <1>2, <1>3, <1>4 DEF FilterInv

LEMMA FilterInvStep == FilterInv /\ [BrowserNext]_browserVars => FilterInv'
<1> SUFFICES ASSUME FilterInv, [BrowserNext]_browserVars PROVE FilterInv'
  OBVIOUS
<1> USE DEF FilterInv
<1>0. /\ filter \in Filter /\ wanted \in Filter /\ draft \in Draft
      /\ timer \in BOOLEAN /\ hasty \in BOOLEAN
      /\ filter.q \in Text /\ Trim(draft) \in Text
      /\ [filter EXCEPT !.q = Trim(draft)] \in Filter
  BY BrowserData DEF FilterTypes, Filter
<1>1. ASSUME NEW d \in Draft, Type(d) PROVE FilterInv'
  <2>1. /\ draft' = d /\ timer' = TRUE /\ wanted' = [wanted EXCEPT !.q = Trim(d)]
        /\ hasty' = (hasty \/ nav # NoNav) /\ UNCHANGED <<filter, url, nav>>
    BY <1>1 DEF Type
  <2>2. wanted' \in Filter
    BY <1>0, <2>1, BrowserData DEF Filter
  <2>3. FilterTypes'
    BY <2>1, <2>2 DEF FilterTypes
  <2>4. CopiesAgree'
    BY <2>1 DEF CopiesAgree
  <2>5. ASSUME ~hasty' PROVE wanted' = [filter EXCEPT !.q = Trim(d)] /\ nav = NoNav
    BY <1>0, <2>1, <2>5 DEF ChoiceIsKept, Filter
  <2>6. ChoiceIsKept'
    BY <2>1, <2>5 DEF ChoiceIsKept
  <2> QED
    BY <2>3, <2>4, <2>6
<1>2. CASE Debounce
  <2> DEFINE f == [filter EXCEPT !.q = Trim(draft)]
  <2>1. f \in Filter /\ f.q = Trim(draft) /\ f = [f EXCEPT !.q = Trim(draft)]
    BY <1>0 DEF Filter
  <2>2. Choose(f) /\ UNCHANGED <<draft, url, wanted, hasty>> /\ timer' = FALSE
    BY <1>2 DEF Debounce
  <2>3. ASSUME ~hasty' PROVE /\ wanted' = f
                             /\ nav # NoNav => f = filter /\ ~hasty
    BY <1>0, <2>2, <2>3 DEF ChoiceIsKept, Filter
  <2> HIDE DEF f
  <2> QED
    BY <1>0, <2>1, <2>2, <2>3, FilterInvChoice
<1>3. CASE Submit
  <2> DEFINE f == [filter EXCEPT !.q = Trim(draft)]
  <2>1. f \in Filter /\ f.q = Trim(draft) /\ f = [f EXCEPT !.q = Trim(draft)]
    BY <1>0 DEF Filter
  <2>2. Choose(f) /\ UNCHANGED <<draft, url, timer>> /\ wanted' = wanted /\ hasty' = (hasty \/ nav # NoNav)
    BY <1>3 DEF Submit, Pick
  <2>3. ASSUME ~hasty' PROVE wanted' = f /\ nav = NoNav
    BY <2>2, <2>3 DEF ChoiceIsKept
  <2> HIDE DEF f
  <2> QED
    BY <1>0, <2>1, <2>2, <2>3, FilterInvChoice
<1>4. ASSUME NEW f \in Filter, NEW w \in Filter, Pick(f, w, nav # NoNav \/ timer),
             f.q = filter.q,
             (~hasty /\ filter.q = Trim(draft)) => w = [f EXCEPT !.q = Trim(draft)]
      PROVE  FilterInv'
  <2>1. Choose(f) /\ UNCHANGED <<draft, url, timer>> /\ wanted' = w
        /\ hasty' = (hasty \/ nav # NoNav \/ timer)
    BY <1>4 DEF Pick
  <2>2. ~timer => f.q = Trim(draft)
    BY <1>4 DEF CopiesAgree
  <2>3. ASSUME ~hasty' PROVE /\ wanted' = [f EXCEPT !.q = Trim(draft)]
                             /\ nav = NoNav /\ f.q = Trim(draft)
    BY <1>4, <2>1, <2>2, <2>3
  <2> QED
    BY <1>0, <2>1, <2>2, <2>3, FilterInvChoice
<1>5. CASE Picks
  <2>0. (~hasty /\ filter.q = Trim(draft)) => wanted = filter
    BY <1>0 DEF ChoiceIsKept, Filter
  <2>1. ASSUME NEW x \in Genre \cup {NoGenre},
               Pick([filter EXCEPT !.genre = x], [wanted EXCEPT !.genre = x], nav # NoNav \/ timer)
        PROVE  FilterInv'
    <3> DEFINE f == [filter EXCEPT !.genre = x]
               w == [wanted EXCEPT !.genre = x]
    <3>1. f \in Filter /\ w \in Filter /\ f.q = filter.q
      BY <1>0 DEF Filter
    <3>2. (~hasty /\ filter.q = Trim(draft)) => w = [f EXCEPT !.q = Trim(draft)]
      BY <1>0, <2>0 DEF Filter
    <3> QED
      BY <1>4, <2>1, <3>1, <3>2
  <2>2. ASSUME NEW x \in Sort,
               Pick([filter EXCEPT !.sort = x], [wanted EXCEPT !.sort = x], nav # NoNav \/ timer)
        PROVE  FilterInv'
    <3> DEFINE f == [filter EXCEPT !.sort = x]
               w == [wanted EXCEPT !.sort = x]
    <3>1. f \in Filter /\ w \in Filter /\ f.q = filter.q
      BY <1>0 DEF Filter
    <3>2. (~hasty /\ filter.q = Trim(draft)) => w = [f EXCEPT !.q = Trim(draft)]
      BY <1>0, <2>0 DEF Filter
    <3> QED
      BY <1>4, <2>2, <3>1, <3>2
  <2>3. ASSUME NEW x \in Era,
               Pick([filter EXCEPT !.when = x], [wanted EXCEPT !.when = x], nav # NoNav \/ timer)
        PROVE  FilterInv'
    <3> DEFINE f == [filter EXCEPT !.when = x]
               w == [wanted EXCEPT !.when = x]
    <3>1. f \in Filter /\ w \in Filter /\ f.q = filter.q
      BY <1>0 DEF Filter
    <3>2. (~hasty /\ filter.q = Trim(draft)) => w = [f EXCEPT !.q = Trim(draft)]
      BY <1>0, <2>0 DEF Filter
    <3> QED
      BY <1>4, <2>3, <3>1, <3>2
  <2> QED
    BY <1>5, <2>1, <2>2, <2>3 DEF Picks
<1>6. CASE Commit
  <2>1. PICK f \in Filter : nav = BrowseQuery(f)
    BY <1>6 DEF Commit, FilterTypes
  <2>2. Parsed(nav) = f
    BY <2>1, ParsedQuery
  <2>3. PICK g \in Filter : url = BrowseQuery(g)
    BY DEF FilterTypes
  <2>4. Parsed(url) = g /\ f # g
    BY <2>1, <2>3, ParsedQuery, <1>6 DEF Commit, FilterTypes
  <2>5. /\ nav # NoNav /\ url' = nav /\ nav' = NoNav /\ UNCHANGED <<wanted, hasty>>
        /\ filter' = f /\ draft' = f.q /\ timer' = (timer \/ draft # f.q)
    BY <1>6, <2>2, <2>4 DEF Commit
  <2>6. f.q \in Text /\ f.q \in Draft /\ Trim(f.q) = f.q
    BY BrowserData DEF Filter
  <2>7. FilterTypes'
    BY <1>0, <2>1, <2>5, <2>6 DEF FilterTypes
  <2>8. CopiesAgree'
    BY <2>2, <2>5, <2>6 DEF CopiesAgree
  <2>9. ASSUME ~hasty PROVE f = filter /\ f.q = Trim(draft)
    <3>1. nav = BrowseQuery(filter) /\ filter.q = Trim(draft)
      BY <2>5, <2>9 DEF ChoiceIsKept
    <3> QED
      BY <1>0, <2>1, <3>1, <2>2, ParsedQuery
  <2>10. ChoiceIsKept'
    BY <2>5, <2>6, <2>9 DEF ChoiceIsKept
  <2> QED
    BY <2>7, <2>8, <2>10
<1>7. ASSUME UNCHANGED <<filter, draft, timer, url, nav, wanted, hasty>> PROVE FilterInv'
  BY <1>7 DEF FilterTypes, CopiesAgree, ChoiceIsKept
<1>8. CASE LoadMore \/ Refresh
  BY <1>7, <1>8 DEF LoadMore, Refresh
<1>9. ASSUME NEW load \in pending, PageArrives(load) \/ PageFails(load) PROVE FilterInv'
  BY <1>7, <1>9 DEF PageArrives, PageFails
<1>10. CASE UNCHANGED browserVars
  BY <1>7, <1>10 DEF browserVars
<1> QED
  BY <1>1, <1>2, <1>3, <1>5, <1>6, <1>8, <1>9, <1>10 DEF BrowserNext

\* At rest the filters, the field and the address agree, and a user who was not
\* hasty has what was chosen, for every text, genre, range and number of acts
\* (CatalogBrowser, RestIsConsistent).
THEOREM FiltersComeToAgree == BrowserSpec => []RestIsConsistent
<1>1. FilterInv => RestIsConsistent
  <2> SUFFICES ASSUME FilterInv, nav = NoNav, ~timer
               PROVE  /\ filter = Parsed(url) /\ filter.q = Trim(draft)
                      /\ ~hasty => filter = wanted
    BY DEF RestIsConsistent
  <2> QED
    BY DEF FilterInv, FilterTypes, CopiesAgree, ChoiceIsKept, Filter
<1> QED
  BY FilterInvInit, FilterInvStep, <1>1, PTL DEF BrowserSpec

LEMMA ResultIsSeq ==
    ASSUME NEW v \in DOMAIN Catalog, NEW f \in Filter
    PROVE  \E S : Result[v][f] \in Seq(S)
<1> DEFINE rows == Catalog[v]
           hits == {k \in DOMAIN rows : Matches(rows[k], f)}
           r == Result[v][f]
           S == {r[n] : n \in DOMAIN r}
<1>1. Cardinality(hits) \in Nat
  <2>1. IsFiniteSet(DOMAIN rows)
    BY BrowserAssumption
  <2> QED
    BY <2>1, FS_Subset, FS_CardinalityType
<1>2. r = [n \in 1..Cardinality(hits) |-> r[n]]
  BY DEF Result
<1> HIDE DEF hits, r
<1>3. DOMAIN r = 1..Cardinality(hits) /\ \A n \in 1..Cardinality(hits) : r[n] \in S
  BY <1>2
<1>4. r \in Seq(S)
  BY <1>1, <1>2, <1>3
<1> QED
  BY <1>4 DEF r

\* A page put behind what comes before it makes the list one page longer.
LEMMA PageFollows ==
    ASSUME NEW S, NEW s \in Seq(S), NEW o \in Nat, NEW n \in Nat
    PROVE  Slice(s, 0, o) \o Slice(s, o, n) = Slice(s, 0, o + n)
<1> DEFINE L == Len(s)
           a == IF o > L THEN L ELSE o
           b == IF o + n > L THEN L ELSE o + n
<1>1. L \in Nat
  OBVIOUS
<1>2. Slice(s, 0, o) = SubSeq(s, 1, a) /\ Slice(s, o, n) = SubSeq(s, o + 1, b)
      /\ Slice(s, 0, o + n) = SubSeq(s, 1, b)
  BY <1>1 DEF Slice
<1>3. CASE o <= L
  <2>1. a = o /\ b \in o..L /\ b \in Nat
    BY <1>1, <1>3
  <2> HIDE DEF a, b
  <2>2. SubSeq(s, 1, o) \o SubSeq(s, o + 1, b) = SubSeq(s, 1, b)
    BY <1>1, <2>1, <1>3, ConcatAdjacentSubSeq
  <2> QED
    BY <1>2, <2>1, <2>2 DEF a
<1>4. CASE o > L
  <2>1. a = L /\ b = L
    BY <1>1, <1>4
  <2>2. SubSeq(s, o + 1, L) = <<>>
    BY <1>1, <1>4
  <2>3. SubSeq(s, 1, L) \in Seq(S)
    BY <1>1
  <2>4. Slice(s, 0, o) \o Slice(s, o, n) = SubSeq(s, 1, L) \o <<>>
    BY <1>2, <2>1, <2>2
  <2> HIDE DEF a, b, L
  <2>5. SubSeq(s, 1, L) \o <<>> = SubSeq(s, 1, L)
    BY <2>3, ConcatEmptySeq
  <2> QED
    BY <1>2, <2>1, <2>4, <2>5
<1> QED
  BY <1>1, <1>3, <1>4

\* A load begun is the load asked for, with some number, beside the others.
LoadSet == [filter : Filter, offset : Nat, append : BOOLEAN, from : Nat, nr : {0}]

SameLoad(x, y) ==
    /\ x.filter = y.filter /\ x.offset = y.offset
    /\ (x.append <=> y.append) /\ x.from = y.from

LEMMA LoadBegun ==
    ASSUME NEW load \in LoadSet
    PROVE  /\ \A x \in Begun(load) : x \in pending \/ SameLoad(x, load)
           /\ pending = {} => \A x, y \in Begun(load) : x = y
<1> DEFINE n == CHOOSE k \in 0..Cardinality(pending) : [load EXCEPT !.nr = k] \notin pending
           new == [load EXCEPT !.nr = n]
<1>1. Begun(load) = pending \cup {new}
  BY DEF Begun
<1> HIDE DEF n
<1>2. SameLoad(new, load)
  BY DEF LoadSet, SameLoad
<1> HIDE DEF new
<1> QED
  BY <1>1, <1>2

LEMMA FirstPageFields ==
    ASSUME NEW f \in Filter, version \in Nat
    PROVE  /\ FirstPage(f) \in LoadSet
           /\ FirstPage(f).filter = f /\ FirstPage(f).offset = 0
           /\ ~FirstPage(f).append /\ FirstPage(f).from = version
<1> QED
  BY DEF FirstPage, LoadSet

LEMMA NextPageFields ==
    ASSUME NEW f \in Filter, NEW o \in Nat, version \in Nat
    PROVE  LET load == [FirstPage(f) EXCEPT !.offset = o, !.append = TRUE]
           IN  /\ load \in LoadSet
               /\ load.filter = f /\ load.offset = o
               /\ load.append /\ load.from = version
<1> DEFINE half == [FirstPage(f) EXCEPT !.offset = o]
<1>1. /\ half \in LoadSet /\ half.filter = f /\ half.offset = o /\ half.from = version
  BY DEF FirstPage, LoadSet
<1>2. [FirstPage(f) EXCEPT !.offset = o, !.append = TRUE] = [half EXCEPT !.append = TRUE]
  OBVIOUS
<1> HIDE DEF half
<1>3. /\ [half EXCEPT !.append = TRUE] \in LoadSet
      /\ [half EXCEPT !.append = TRUE].filter = f
      /\ [half EXCEPT !.append = TRUE].offset = o
      /\ [half EXCEPT !.append = TRUE].append
      /\ [half EXCEPT !.append = TRUE].from = version
  BY <1>1 DEF LoadSet
<1> QED
  BY <1>2, <1>3

LEMMA CalmInvInit == BrowserInit => CalmInv
<1> SUFFICES ASSUME BrowserInit PROVE CalmInv
  OBVIOUS
<1>1. filter \in Filter
  BY FilterInvInit DEF FilterInv, FilterTypes
<1>2. /\ pending = {[filter |-> filter, offset |-> 0, append |-> FALSE, from |-> 1, nr |-> 0]}
      /\ version = 1 /\ since = 1 /\ calm = TRUE
      /\ list.items = <<>> /\ list.total = 0 /\ list.offset = 0
  BY DEF BrowserInit, FirstPage, EmptyList
<1>3. LoadTypes
  BY <1>1, <1>2, BrowserData DEF LoadTypes
<1> QED
  BY <1>2, <1>3 DEF CalmInv, OneLoad, NoPageYet

\* A new first page: what is under way besides it ends the calm.
LEMMA FreshLoad ==
    ASSUME CalmInv, NEW f \in Filter, UNCHANGED version,
           filter' = f, list' = [EmptyList EXCEPT !.offset = list.offset],
           pending' = Begun(FirstPage(f)), calm' = (pending = {}), since' = version
    PROVE  CalmInv'
<1>0. version \in Nat /\ version \in 1..version
  BY BrowserData DEF CalmInv, LoadTypes
<1>1. /\ \A x \in pending' : \/ x \in pending
                            \/ /\ x.filter = f /\ x.offset = 0
                               /\ ~x.append /\ x.from = version
      /\ pending = {} => \A x, y \in pending' : x = y
  <2> DEFINE load == FirstPage(f)
  <2>1. /\ load \in LoadSet /\ load.filter = f /\ load.offset = 0
        /\ ~load.append /\ load.from = version
    BY <1>0, FirstPageFields
  <2>2. pending' = Begun(load)
    OBVIOUS
  <2> HIDE DEF load
  <2>3. /\ \A x \in Begun(load) : x \in pending \/ SameLoad(x, load)
        /\ pending = {} => \A x, y \in Begun(load) : x = y
    BY <2>1, LoadBegun
  <2> QED
    BY <2>1, <2>2, <2>3 DEF SameLoad
<1>2. list'.items = <<>> /\ list'.total = 0 /\ list'.offset = list.offset
  BY DEF EmptyList
<1>3. LoadTypes'
  <2>1. \A x \in pending' : /\ x.filter \in Filter /\ x.offset \in Nat /\ x.from \in 1..version
    BY <1>0, <1>1 DEF CalmInv, LoadTypes
  <2>2. calm' \in BOOLEAN
    OBVIOUS
  <2> QED
    BY <1>0, <1>2, <2>1, <2>2 DEF CalmInv, LoadTypes
<1>4. calm' => OneLoad' /\ NoPageYet'
  <2> SUFFICES ASSUME pending = {} PROVE OneLoad' /\ NoPageYet'
    OBVIOUS
  <2> QED
    BY <1>1, <1>2 DEF OneLoad, NoPageYet
<1> QED
  BY <1>3, <1>4 DEF CalmInv

LEMMA CalmInvChoice ==
    ASSUME CalmInv, NEW f \in Filter, Choose(f), UNCHANGED version
    PROVE  CalmInv'
<1>1. CASE f = filter
  <2>1. UNCHANGED <<filter, list, pending, version, calm, since>>
    BY <1>1 DEF Choose
  <2> QED
    BY <2>1 DEF CalmInv, LoadTypes, OneLoad, NoPageYet, PagesSoFar
<1>2. CASE f # filter
  <2>1. /\ filter' = f /\ list' = [EmptyList EXCEPT !.offset = list.offset]
        /\ pending' = Begun(FirstPage(f)) /\ calm' = (pending = {}) /\ since' = version
    BY <1>2 DEF Choose
  <2> QED
    BY <2>1, FreshLoad
<1> QED
  BY <1>1, <1>2

LEMMA CalmInvArrival ==
    ASSUME CalmInv, NEW load \in pending, PageArrives(load)
    PROVE  CalmInv'
<1>1. /\ load.filter \in Filter /\ load.offset \in Nat /\ load.from \in 1..version
      /\ version \in 1..Len(Catalog) /\ version \in DOMAIN Catalog /\ list.offset \in Nat
      /\ PageSize \in Nat
  BY BrowserData DEF CalmInv, LoadTypes
<1>2. PICK v \in load.from..version :
        list' = [items   |-> IF load.append THEN list.items \o PageOf(v, load.filter, load.offset)
                                            ELSE PageOf(v, load.filter, load.offset),
                 total   |-> Len(Result[v][load.filter]),
                 offset  |-> load.offset,
                 loading |-> FALSE]
  BY DEF PageArrives
<1>3. pending' = pending \ {load} /\ UNCHANGED <<filter, version, calm, since>>
  BY DEF PageArrives
<1>4. LoadTypes'
  BY <1>1, <1>2, <1>3 DEF CalmInv, LoadTypes
<1>5. ASSUME calm, since = version PROVE OneLoad' /\ PagesSoFar'
  <2>1. OneLoad /\ (NoPageYet \/ PagesSoFar)
    BY <1>5 DEF CalmInv
  <2>2. pending' = {} /\ load.filter = filter /\ load.from = version /\ v = version
    BY <1>1, <1>3, <2>1 DEF OneLoad
  <2>3. list'.total = Len(Result[version][filter]) /\ list'.offset = load.offset
    BY <1>2, <2>2
  <2> DEFINE r == Result[version][filter]
  <2>4. PICK S : r \in Seq(S)
    BY <1>1, <2>2, ResultIsSeq
  <2>5. list'.items = Slice(r, 0, load.offset + PageSize)
    <3>1. CASE NoPageYet
      <4>1. ~load.append /\ load.offset = 0
        BY <3>1 DEF NoPageYet
      <4>2. list'.items = Slice(r, 0, PageSize)
        BY <1>2, <2>2, <4>1 DEF PageOf
      <4> QED
        BY <4>1, <4>2, <1>1
    <3>2. CASE PagesSoFar
      <4>1. load.append /\ load.offset = list.offset + PageSize
            /\ list.items = Slice(r, 0, list.offset + PageSize)
        BY <3>2 DEF PagesSoFar
      <4>2. list'.items = Slice(r, 0, load.offset) \o Slice(r, load.offset, PageSize)
        BY <1>2, <2>2, <4>1 DEF PageOf
      <4> HIDE DEF r
      <4> QED
        BY <4>2, <2>4, <1>1, PageFollows
    <3> QED
      BY <2>1, <3>1, <3>2
  <2> QED
    BY <1>3, <2>2, <2>3, <2>5 DEF OneLoad, PagesSoFar
<1> QED
  BY <1>3, <1>4, <1>5 DEF CalmInv

LEMMA CalmInvStep == FilterInv /\ CalmInv /\ [BrowserNext]_browserVars => CalmInv'
<1> SUFFICES ASSUME FilterInv, CalmInv, [BrowserNext]_browserVars PROVE CalmInv'
  OBVIOUS
<1>0. /\ filter \in Filter /\ version \in 1..Len(Catalog) /\ since \in 1..version
      /\ Trim(draft) \in Text
      /\ [filter EXCEPT !.q = Trim(draft)] \in Filter
  BY BrowserData DEF CalmInv, LoadTypes, FilterInv, FilterTypes, Filter
<1>1. ASSUME UNCHANGED <<filter, list, pending, version, calm, since>> PROVE CalmInv'
  BY <1>1 DEF CalmInv, LoadTypes, OneLoad, NoPageYet, PagesSoFar
<1>2. ASSUME NEW d \in Draft, Type(d) PROVE CalmInv'
  BY <1>1, <1>2 DEF Type
<1>3. CASE Debounce
  BY <1>0, <1>3, CalmInvChoice DEF Debounce
<1>4. CASE Submit
  BY <1>0, <1>4, CalmInvChoice DEF Submit, Pick
<1>5. CASE Picks
  <2>1. \A x \in Genre \cup {NoGenre} : [filter EXCEPT !.genre = x] \in Filter
    BY <1>0 DEF Filter
  <2>2. \A x \in Sort : [filter EXCEPT !.sort = x] \in Filter
    BY <1>0 DEF Filter
  <2>3. \A x \in Era : [filter EXCEPT !.when = x] \in Filter
    BY <1>0 DEF Filter
  <2>4. PICK f \in Filter : Choose(f) /\ UNCHANGED version
    BY <1>5, <2>1, <2>2, <2>3 DEF Picks, Pick
  <2> QED
    BY <2>4, CalmInvChoice
<1>6. CASE Commit
  <2>1. PICK f \in Filter : nav = BrowseQuery(f)
    BY <1>6 DEF Commit, FilterInv, FilterTypes
  <2>2. Parsed(nav) = f
    BY <2>1, ParsedQuery
  <2>3. \/ UNCHANGED <<filter, list, pending, version, calm, since>>
        \/ /\ filter' = f /\ list' = [EmptyList EXCEPT !.offset = list.offset]
           /\ pending' = Begun(FirstPage(f)) /\ calm' = (pending = {}) /\ since' = version
           /\ UNCHANGED version
    BY <1>6, <2>2 DEF Commit
  <2> QED
    BY <1>1, <2>3, FreshLoad
<1>7. CASE LoadMore
  <2>1. /\ Len(list.items) < list.total
        /\ pending' = Begun([FirstPage(filter) EXCEPT !.offset = list.offset + PageSize, !.append = TRUE])
        /\ calm' = (calm /\ pending = {})
        /\ UNCHANGED <<filter, list, version, since>>
    BY <1>7 DEF LoadMore
  <2>2. list.offset + PageSize \in Nat /\ version \in Nat /\ version \in 1..version
    BY <1>0, BrowserData DEF CalmInv, LoadTypes
  <2>3. /\ \A x \in pending' : \/ x \in pending
                              \/ /\ x.filter = filter /\ x.offset = list.offset + PageSize
                                 /\ x.append /\ x.from = version
        /\ pending = {} => \A x, y \in pending' : x = y
    <3> DEFINE load == [FirstPage(filter) EXCEPT !.offset = list.offset + PageSize, !.append = TRUE]
    <3>1. /\ load \in LoadSet /\ load.filter = filter /\ load.offset = list.offset + PageSize
          /\ load.append /\ load.from = version
      BY <1>0, <2>2, NextPageFields
    <3>2. pending' = Begun(load)
      BY <2>1
    <3> HIDE DEF load
    <3>3. /\ \A x \in Begun(load) : x \in pending \/ SameLoad(x, load)
          /\ pending = {} => \A x, y \in Begun(load) : x = y
      BY <3>1, LoadBegun
    <3> QED
      BY <3>1, <3>2, <3>3 DEF SameLoad
  <2>4. LoadTypes'
    BY <2>1, <2>2, <2>3 DEF CalmInv, LoadTypes
  <2>5. ASSUME calm', since = version PROVE OneLoad' /\ PagesSoFar'
    <3>1. ~NoPageYet
      <4>1. Len(<<>>) = 0
        OBVIOUS
      <4> QED
        BY <2>1, <4>1 DEF NoPageYet
    <3>2. PagesSoFar /\ pending = {}
      BY <2>1, <2>5, <3>1 DEF CalmInv
    <3> QED
      BY <2>1, <2>3, <3>2 DEF OneLoad, PagesSoFar
  <2> QED
    BY <2>1, <2>4, <2>5 DEF CalmInv
<1>8. CASE Refresh
  <2>1. version' = version + 1 /\ version < Len(Catalog) /\ UNCHANGED <<filter, list, pending, calm, since>>
    BY <1>8 DEF Refresh
  <2>2. LoadTypes' /\ since' # version'
    BY <1>0, <2>1, BrowserData DEF CalmInv, LoadTypes
  <2> QED
    BY <2>2 DEF CalmInv
<1>9. ASSUME NEW load \in pending, PageArrives(load) PROVE CalmInv'
  BY <1>9, CalmInvArrival
<1>10. ASSUME NEW load \in pending, PageFails(load) PROVE CalmInv'
  <2>1. /\ list'.items = list.items /\ list'.total = list.total /\ list'.offset = list.offset
        /\ pending' = pending \ {load} /\ UNCHANGED <<filter, version, calm, since>>
    BY <1>10 DEF PageFails, OffsetAfterFailure
  <2> QED
    BY <2>1 DEF CalmInv, LoadTypes, OneLoad, NoPageYet, PagesSoFar
<1>11. CASE UNCHANGED browserVars
  BY <1>1, <1>11 DEF browserVars
<1> QED
  BY <1>2, <1>3, <1>4, <1>5, <1>6, <1>7, <1>8, <1>9, <1>10, <1>11 DEF BrowserNext

\* While loads do not overlap and no refresh comes between, the list is a
\* beginning of what the filters select, for every catalog, page size and
\* number of pages that fail (CatalogBrowser, CalmListIsPrefix).
THEOREM CalmListIsABeginning == BrowserSpec => []CalmListIsPrefix
<1>1. CalmInv => CalmListIsPrefix
  BY DEF CalmInv, CalmListIsPrefix, NoPageYet, PagesSoFar
<1> QED
  BY FilterInvInit, FilterInvStep, CalmInvInit, CalmInvStep, <1>1, PTL DEF BrowserSpec
=============================================================================
