--------------------------- MODULE MCEventIntake ---------------------------
(* Instances of EventIntake for TLC.                                       *)
EXTENDS EventIntake, TLC

CONSTANTS x, u, v

Usual == [id |-> x, user |-> u, item |-> x, version |-> 1, known |-> TRUE, at |-> "usual"]

\* Every field wrong, blank, left out or extreme in turn; a second user,
\* also under the first one's id; and white space under an id the server makes up.
AnyBody ==
    {NotJson, Usual,
     [Usual EXCEPT !.id = Absent, !.user = v], [Usual EXCEPT !.id = Absent, !.user = Blank]}
    \cup {[Usual EXCEPT !.id = odd] : odd \in {Absent, Blank}}
    \cup {[Usual EXCEPT !.user = odd] : odd \in {Absent, Blank, v}}
    \cup {[Usual EXCEPT !.version = odd] : odd \in {0, 2}}
    \cup {[Usual EXCEPT !.at = odd] : odd \in {"none", "extreme"}}
    \cup {[Usual EXCEPT !.known = FALSE]}

PostSymmetry == Permutations(Post)
=============================================================================
