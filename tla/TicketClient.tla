---------------------------- MODULE TicketClient ----------------------------
(***************************************************************************)
(* Judging a title in the browser: web/app (act and load of the pages) and *)
(* web/lib/api.ts (postEvent, waitForFeatureUpdate, actedFromFeatures).    *)
(*                                                                         *)
(* A tap marks the title at once, posts the event and polls the user's     *)
(* features until their stamp is newer than the one known before; then the *)
(* tap is confirmed, else after eight seconds it is rolled back.  All      *)
(* pages but "Watch next" read that stamp right before they post; Watch    *)
(* next (debug/page.tsx) takes the stamp of its last render.  Two pages    *)
(* also load recommendations, and mark titles by the features in those     *)
(* answers, whenever they arrive.                                          *)
(*                                                                         *)
(* Tabs of one user share the stored features.  Behind the API an event    *)
(* waits until it is folded, or is lost: the API, the topic and the        *)
(* processor are the subjects of EventIntake and EventPipeline.            *)
(***************************************************************************)
EXTENDS Naturals, Sequences, FiniteSets

CONSTANTS
    Tab,
    Page,       \* Page[t]: the page the tab shows
    Item,
    MaxTaps,    \* bound: MaxTaps[t] taps of tab t
    MaxLoads,   \* bound: loads a tab has under way
    MaxLosses   \* bound: events lost between the API and the features

\* page.tsx; debug/page.tsx; movie and browse (the profile marks nothing ahead
\* of a confirmation and is left out).
Kind == {"home", "bill", "title"}

ASSUME ClientAssumption ==
    /\ Page \in [Tab -> Kind] /\ Item # {}
    /\ MaxTaps \in [Tab -> Nat] /\ MaxLoads \in Nat /\ MaxLosses \in Nat

VARIABLES
    blob,       \* the stored features: their stamp, 0 before the first, and marks
    queue,      \* accepted events that are not folded yet
    tab,        \* tab[t]: the page's state and its act()
    answers,    \* answers[t]: answers under way to t's loads (equal ones are one)
    losses,     \* events lost so far
    past        \* past[i]: marks the stored features have had for i

vars == <<blob, queue, tab, answers, losses, past>>

Mark    == {"none", "like", "skip"}
Phase   == {"idle", "read", "post", "poll", "reload"}
NoMarks == [i \in Item |-> "none"]

\* before is the stamp to beat, shown the one last rendered, 0 for null.
\* alone says that nothing else of the user was under way since the stamp in
\* before was the current one, saved that the tap was folded.
FreshTab ==
    [phase |-> "idle", item |-> CHOOSE i \in Item : TRUE, mark |-> "none",
     before |-> 0, shown |-> 0, marks |-> NoMarks, taps |-> 0,
     alone |-> FALSE, saved |-> FALSE, confirmed |-> FALSE]

Init ==
    /\ blob = [stamp |-> 0, marks |-> NoMarks]
    /\ queue = <<>>
    /\ tab = [t \in Tab |-> FreshTab]
    /\ answers = [t \in Tab |-> {}]
    /\ losses = 0
    /\ past = [i \in Item |-> {"none"}]

-----------------------------------------------------------------------------
(* The service, seen from a tab.                                           *)

\* t's event is accepted; whatever else is under way is not alone any more.
Enqueue(t) ==
    queue' = Append(queue, [tab |-> t, tap |-> tab[t].taps,
                            item |-> tab[t].item, mark |-> tab[t].mark])

Disturbed(t) == [q \in Tab |-> IF q = t THEN tab[q] ELSE [tab[q] EXCEPT !.alone = FALSE]]

\* The oldest event reaches the features.
Fold ==
    LET e == Head(queue) IN
    /\ queue # <<>>
    /\ queue' = Tail(queue)
    /\ blob' = [stamp |-> blob.stamp + 1, marks |-> [blob.marks EXCEPT ![e.item] = e.mark]]
    /\ past' = [past EXCEPT ![e.item] = @ \cup {e.mark}]
    /\ tab' = IF tab[e.tab].taps = e.tap THEN [tab EXCEPT ![e.tab].saved = TRUE] ELSE tab
    /\ UNCHANGED <<answers, losses>>

\* The oldest event is lost between its claim and its fold.
Lose ==
    /\ queue # <<>>
    /\ losses < MaxLosses
    /\ losses' = losses + 1
    /\ queue' = Tail(queue)
    /\ UNCHANGED <<blob, tab, answers, past>>

-----------------------------------------------------------------------------
(* Loads: asked at one time, applied when the answer arrives.              *)

\* An answer holds the features of the time it was made, or none when the
\* orchestrator had to do without Redis.
Answers(own) ==
    {[stamp |-> blob.stamp, marks |-> blob.marks, own |-> own],
     [stamp |-> 0, marks |-> NoMarks, own |-> own]}

\* When a page loads besides the end of act(): all on opening; home when a
\* skip has dropped rows; bill when the window gets the focus.
LoadsNow(t) ==
    \/ tab[t].taps = 0
    \/ Page[t] = "home" /\ tab[t].phase \in {"read", "post"} /\ tab[t].mark = "skip"
    \/ Page[t] = "bill"

Ask(t) ==
    /\ LoadsNow(t)
    /\ Cardinality(answers[t]) < MaxLoads
    /\ \E a \in Answers(FALSE) : answers' = [answers EXCEPT ![t] = @ \cup {a}]
    /\ UNCHANGED <<blob, queue, tab, losses, past>>

\* act() awaits the load it started itself.
AfterLoad(t, a) == IF a.own /\ tab[t].phase = "reload" THEN "idle" ELSE tab[t].phase

Arrive(t, a) ==
    /\ a \in answers[t]
    /\ answers' = [answers EXCEPT ![t] = @ \ {a}]
    /\ tab' = [tab EXCEPT ![t] = [@ EXCEPT !.shown = a.stamp, !.marks = a.marks,
                                           !.phase = AfterLoad(t, a)]]
    /\ UNCHANGED <<blob, queue, losses, past>>

\* A load that fails changes no marks.
LoadFails(t, a) ==
    /\ a \in answers[t]
    /\ answers' = [answers EXCEPT ![t] = @ \ {a}]
    /\ tab' = [tab EXCEPT ![t].phase = AfterLoad(t, a)]
    /\ UNCHANGED <<blob, queue, losses, past>>

-----------------------------------------------------------------------------
(* act().                                                                  *)

\* The stamp a poll has to beat, and whether nothing newer is on its way.
Compare(t, stamp) ==
    [tab[t] EXCEPT !.phase = "post", !.before = stamp,
                   !.alone = (stamp = blob.stamp /\ queue = <<>>)]

\* A tap while none is under way marks the title at once; the bill offers
\* unmarked titles only.
Tap(t, i, mark) ==
    LET marked == [tab[t] EXCEPT !.phase = "read", !.item = i, !.mark = mark,
                                 !.marks[i] = mark, !.taps = @ + 1,
                                 !.saved = FALSE, !.confirmed = FALSE, !.alone = FALSE]
    IN  /\ tab[t].phase = "idle"
        /\ tab[t].taps < MaxTaps[t]
        /\ Page[t] = "bill" => tab[t].marks[i] = "none"
        /\ tab' = [tab EXCEPT ![t] = marked]
        /\ UNCHANGED <<blob, queue, answers, losses, past>>

\* The stamp before the post: read now, or unknown when that fails; the bill
\* takes the one of its last render.
StampBefore(t) == IF Page[t] = "bill" THEN {tab[t].shown} ELSE {blob.stamp, 0}

Read(t) ==
    /\ tab[t].phase = "read"
    /\ \E stamp \in StampBefore(t) : tab' = [tab EXCEPT ![t] = Compare(t, stamp)]
    /\ UNCHANGED <<blob, queue, answers, losses, past>>

\* Mutant: the mark stays.
KeptMarks(t) == tab[t].marks
\* The mark is taken away, whatever it was before the tap.
MarksWithout(t) == [tab[t].marks EXCEPT ![tab[t].item] = "none"]

RolledBack(t) == [tab[t] EXCEPT !.phase = "idle", !.marks = MarksWithout(t)]

Post(t) ==
    /\ tab[t].phase = "post"
    /\ \/ /\ Enqueue(t)
          /\ tab' = [Disturbed(t) EXCEPT ![t].phase = "poll"]
       \/ /\ Enqueue(t)                     \* the event is in, the answer is not
          /\ tab' = [Disturbed(t) EXCEPT ![t] = RolledBack(t)]
       \/ /\ tab' = [tab EXCEPT ![t] = RolledBack(t)]
          /\ UNCHANGED queue
    /\ UNCHANGED <<blob, answers, losses, past>>

\* Mutant: any stamp will do.
AnyStamp(t) == blob.stamp > 0
Newer(t) == blob.stamp > 0 /\ (tab[t].before = 0 \/ blob.stamp > tab[t].before)

\* A poll finds a newer stamp.  Home and title take its marks over at once,
\* home and bill load again before act() ends.
Confirm(t) ==
    LET confirmed == [tab[t] EXCEPT !.confirmed = TRUE]
    IN  /\ tab[t].phase = "poll"
        /\ Newer(t)
        /\ IF Page[t] = "title"
           THEN /\ tab' = [tab EXCEPT ![t] = [confirmed EXCEPT !.phase = "idle", !.marks = blob.marks]]
                /\ UNCHANGED answers
           ELSE /\ tab' = [tab EXCEPT ![t] = [confirmed EXCEPT
                            !.phase = "reload",
                            !.marks = IF Page[t] = "home" THEN blob.marks ELSE @]]
                /\ \E a \in Answers(TRUE) : answers' = [answers EXCEPT ![t] = @ \cup {a}]
        /\ UNCHANGED <<blob, queue, losses, past>>

\* Mutant: polls without end.
NeverOver(t) == FALSE
\* Eight seconds have passed; polls of a failing API do not extend them.
Overdue(t) == tab[t].phase = "poll"

TimeOut(t) ==
    /\ Overdue(t)
    /\ tab' = [tab EXCEPT ![t] = RolledBack(t)]
    /\ UNCHANGED <<blob, queue, answers, losses, past>>

-----------------------------------------------------------------------------
\* What the browser does on its own: act() goes on when a call of it ends,
\* and a load ends.
Act(t) == Read(t) \/ Post(t) \/ Confirm(t) \/ TimeOut(t)
LoadEnds(t, a) == Arrive(t, a) \/ LoadFails(t, a)

Next ==
    \/ Fold \/ Lose
    \/ \E t \in Tab :
        \/ \E i \in Item, mark \in {"like", "skip"} : Tap(t, i, mark)
        \/ Ask(t) \/ Act(t)
        \/ \E a \in answers[t] : LoadEnds(t, a)

Spec == Init /\ [][Next]_vars

\* Every call ends, by an answer, an error or its deadline in the API.
FairSpec ==
    /\ Spec
    /\ \A t \in Tab :
        /\ WF_vars(Act(t))
        /\ WF_vars(\E a \in answers[t] : a.own /\ LoadEnds(t, a))
-----------------------------------------------------------------------------
(* What must hold.                                                         *)

\* A tap the page reports as saved is in the stored features, when the stamp
\* to beat was the current one and no other event of the user was under way
\* (api.ts, waitForFeatureUpdate): neither a lost event, nor an earlier load,
\* nor a failed post leads to a false report.
ConfirmedTapIsSaved ==
    \A t \in Tab : (tab[t].confirmed /\ tab[t].alone) => tab[t].saved

\* A page at rest shows no mark that the stored features never had, although
\* it marks titles before anything is saved: a tap that fails leaves nothing,
\* in whatever order loads, folds and deadlines come (act, catch branch).  The
\* bill is left out: it keeps a mark after a confirmation by an older event,
\* when its load then fails.
NoPhantomMarks ==
    \A t \in Tab :
        (Page[t] # "bill" /\ tab[t].phase = "idle") =>
            \A i \in Item : tab[t].marks[i] \in past[i]

\* Every tap ends, and the page takes the next one, even if the event is lost
\* (api.ts, the deadline of waitForFeatureUpdate).
EveryTapEnds == \A t \in Tab : (tab[t].phase # "idle") ~> (tab[t].phase = "idle")
=============================================================================
