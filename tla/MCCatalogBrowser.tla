-------------------------- MODULE MCCatalogBrowser --------------------------
(* Instances of CatalogBrowser for TLC.                                    *)
EXTENDS CatalogBrowser

CONSTANTS i1, i2, i3, i4, i5, g

\* A word, and the word with a blank behind it.
Drafts    == {"", "w", "w "}
Trimmed(d) == IF d = "w " THEN "w" ELSE d
Ranges    == [e \in Era |-> IF e = "recent" THEN <<2, 10>> ELSE <<0, 0>>]

Row(i, title, year, cats, pop, words) ==
    [id |-> i, title |-> title, year |-> year, cats |-> cats, pop |-> pop, words |-> words]

\* Two rows tie in each order; one has no year.  A refresh adds a title at the
\* head and raises another.
Before ==
    << Row(i1, 1, 9, {g}, 80, {"w"}), Row(i2, 2, 1, {g}, 60, {"w"}),
       Row(i3, 2, 9, {}, 60, {}), Row(i4, 3, 0, {g}, 20, {"w"}) >>
After ==
    << Row(i5, 4, 10, {g}, 90, {"w"}), Row(i1, 1, 9, {g}, 80, {"w"}),
       Row(i4, 3, 0, {g}, 70, {"w"}), Row(i2, 2, 1, {g}, 60, {"w"}), Row(i3, 2, 9, {}, 60, {}) >>
Catalogs == <<Before, After>>

\* The plain address, a search, and each with a range that is not its default.
Entries == {f \in Filter : f.genre = NoGenre /\ f.sort = "year"}
=============================================================================
