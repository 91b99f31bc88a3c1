-------------------------- MODULE MCTicketClient --------------------------
(* An instance of TicketClient for TLC: the lobby with two taps, or with   *)
(* one beside Watch next or beside a title.                                *)
EXTENDS TicketClient

CONSTANTS t1, t2, t3

ThreePages == [t \in Tab |-> CASE t = t1 -> "home" [] t = t2 -> "bill" [] t = t3 -> "title"]
Taps == [t \in Tab |-> IF t = t1 THEN 2 ELSE 1]

\* At most two of the three tabs are in use, and one if t1 taps twice.
Unused(t) == tab[t] = FreshTab /\ answers[t] = {}
Beside(t, other) == IF Unused(other) /\ tab[t1].taps < 2 THEN {t} ELSE {}
InUse  == {t1} \cup Beside(t2, t3) \cup Beside(t3, t2)
MayTap == {t \in InUse : t = t1 /\ tab[t].taps = 1 => Unused(t2) /\ Unused(t3)}

MCNext ==
    \/ Fold \/ Lose
    \/ \E t \in MayTap, i \in Item, mark \in {"like", "skip"} : Tap(t, i, mark)
    \/ \E t \in InUse :
        \/ Ask(t) \/ Act(t)
        \/ \E a \in answers[t] : LoadEnds(t, a)

\* The fairness of FairSpec.
MCSpec ==
    /\ Init /\ [][MCNext]_vars
    /\ \A t \in Tab :
        /\ WF_vars(Act(t))
        /\ WF_vars(\E a \in answers[t] : a.own /\ LoadEnds(t, a))
=============================================================================
