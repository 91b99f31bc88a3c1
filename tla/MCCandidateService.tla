------------------------ MODULE MCCandidateService ------------------------
(* Instances of CandidateService for TLC.                                  *)
EXTENDS CandidateService

CONSTANTS m1, m2, m3, n1, n2, g, h

\* Three MovieLens titles, one of them recent, one without genres.
OnShelf ==
    << [id |-> m1, title |-> 1, year |-> -1, cats |-> {g}],
       [id |-> m2, title |-> 2, year |-> 10, cats |-> {g, h}],
       [id |-> m3, title |-> 5, year |-> -9, cats |-> {}] >>
PopOnShelf == [i \in {m1, m2, m3} |-> IF i = m1 THEN 4 ELSE 1]

\* A remake of m1 beside a new title; that title again under another name,
\* beside another film of its old name.
Frames ==
    { << [id |-> n1, title |-> 1, year |-> 20, cats |-> {g}, votes |-> 4],
         [id |-> n2, title |-> 3, year |-> 20, cats |-> {g}, votes |-> 2] >>,
      << [id |-> n1, title |-> 3, year |-> 21, cats |-> {h}, votes |-> 1],
         [id |-> n2, title |-> 4, year |-> 20, cats |-> {g, h}, votes |-> 2] >> }

ByAls  == <<m3, m1>>
ByPop  == <<m1, m2, m3>>
Exclusions == {{}, {m1}, {m2, n2}}
Affinities == {[c \in Category |-> 0], [c \in Category |-> IF c = h THEN Unit ELSE -Unit]}
=============================================================================
