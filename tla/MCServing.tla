----------------------------- MODULE MCServing -----------------------------
(* Instances of Serving and of the bill made of its responses, for TLC.    *)
EXTENDS TonightBill

CONSTANTS i1, i2, i3, g, h

\* i1 and i2 share a genre, i2 has two, i3 has none.
Genres == [i \in Item |-> IF i = i1 THEN {g} ELSE IF i = i2 THEN {g, h} ELSE {}]

\* Empty; in and out of order; a title twice, as when two sources are merged.
Lists == {<<>>,
          << <<i1, 3>>, <<i2, 2>>, <<i3, 1>> >>,
          << <<i3, 1>>, <<i1, 2>>, <<i3, 3>> >>,
          << <<i2, 2>>, <<i1, 2>> >>}

Popular == <<i2, i3>>

\* i1 and i3 are notable.  The catalog lists them by popularity, or only i2.
Popularities == [i \in Item |-> IF i = i1 THEN 9 ELSE IF i = i2 THEN 2 ELSE 5]
Shelves == {<<i1, i3, i2>>, <<i2>>}
Lobby   == {{}, {i3}}
=============================================================================
