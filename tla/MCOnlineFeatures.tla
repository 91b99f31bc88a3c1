-------------------------- MODULE MCOnlineFeatures --------------------------
(* An instance of OnlineFeatures for TLC, of two kinds of history: signals *)
(* of every type at one instant, and plain events over time.               *)
EXTENDS OnlineFeatures

CONSTANTS i1, i2, a, b

\* Two titles that share a genre.
SharedGenre == [i \in Item |-> IF i = i1 THEN {a} ELSE {a, b}]

Signal == {e \in ClientEvents : e.at = 0 /\ e.type # "impression"}
Plain  == {e \in ClientEvents :
            e.item = i1 /\ e.tags = {} /\ e.type \in {"view", "like", "impression"}}

\* Up to three signals, while the clock stands still.
AtOneInstant ==
    /\ clock = 0
    /\ \A k \in DOMAIN tape : tape[k][1] \in Signal
    /\ \/ Len(tape) < 3 /\ \E event \in Signal : Process(event)
       \/ \E learned \in SUBSET (Item \ known) : Restart(learned)

\* Up to MaxEvents plain events, from late ones to ones ahead of the clock, in
\* a process that knows no genres.
OverTime ==
    /\ known = {}
    /\ \A k \in DOMAIN tape : tape[k][1] \in Plain
    /\ \/ \E event \in Plain : Process(event)
       \/ Tick

MCNext == AtOneInstant \/ OverTime
MCSpec == Init /\ [][MCNext]_vars
=============================================================================
