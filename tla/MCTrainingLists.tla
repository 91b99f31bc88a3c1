-------------------------- MODULE MCTrainingLists --------------------------
(* Instances of TrainingLists for TLC.                                     *)
EXTENDS TrainingLists

CONSTANTS u1, u2, i1, i2, i3, a, b

\* Two titles that share a genre, and one without genres.
Genres == [i \in Item |-> IF i = i1 THEN {a} ELSE IF i = i2 THEN {a, b} ELSE {}]

\* u1 likes or merely views, early on; u2 only likes, at two instants.
RatingFrom(u) == IF u = u1 THEN {3, 5} \X (1..4) ELSE {5} \X {2, 5}

MCNext ==
    \/ \E u \in User, i \in Item : \E p \in RatingFrom(u) : Rate(u, i, p[1], p[2])
    \/ Prepare
    \/ \E S \in SUBSET User : Sample(S)
    \/ \E row \in left : Walk(row)
    \/ \E u \in User : NextUser(u) \/ Evaluate(u)

MCSpec == Init /\ [][MCNext]_vars
=============================================================================
