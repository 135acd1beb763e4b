----------------------------- MODULE MCROOTFile -----------------------------
(***************************************************************************)
(* Instances of ROOTFile.  "a", "c" and "d" have one letter, "bb" two.     *)
(***************************************************************************)
EXTENDS ROOTFile

MCSize == [a |-> 1, bb |-> 2, c |-> 1, d |-> 1]
MCRank == [a |-> 1, bb |-> 2, c |-> 3, d |-> 4]
MCNames == DOMAIN MCSize

\* The collections of three Frames: the second has a subset collection in the
\* place of a normal one, the third misses one and does not know its ID.
MCContents ==
    [f1 |-> [a |-> "normal", bb |-> "normal"],
     f2 |-> [a |-> "subset", bb |-> "normal"],
     f3 |-> [bb |-> "normal"]]
MCFrames == DOMAIN MCContents
MCKnown == [fr \in MCFrames |-> DOMAIN MCContents[fr]]
MCRequests == {{"a", "bb"}, {"bb"}}

\* Reads of all collections, of one of them, and of one that is not there.
MCLimits == [events |-> {{}, {"bb"}, {"d"}}]
MCCategories == DOMAIN MCLimits

\* All collections in every read.
MCOneLimit == [events |-> {{}}]

\* A Frame that has all collections, of which three are written.
MCFullContents == [f |-> [n \in MCNames |-> "normal"]]
MCFullKnown == [f |-> MCNames]
MCThreeOfFour == {{"a", "bb", "c"}, {"a", "bb", "d"}}
=============================================================================
