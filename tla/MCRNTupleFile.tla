--------------------------- MODULE MCRNTupleFile ---------------------------
(***************************************************************************)
(* An instance of RNTupleFile: the first Frame has all collections, the    *)
(* second one two of them, one as a subset.  The type of "e" has no        *)
(* dictionary, that of "dd" is not known to the reading program.           *)
(***************************************************************************)
EXTENDS RNTupleFile

MCSize == [a |-> 1, b |-> 1, dd |-> 2, e |-> 1]
MCRank == [a |-> 1, b |-> 2, dd |-> 3, e |-> 4]
MCNames == DOMAIN MCSize

MCContents ==
    [f1 |-> [n \in MCNames |-> "normal"],
     f2 |-> [a |-> "subset", b |-> "normal"]]
MCFrames == DOMAIN MCContents

\* Nothing is ever written to the second category.
MCRequests == [events |-> {{"a", "b"}, {"b", "dd"}, {"b", "e"}}, runs |-> {}]
MCCategories == DOMAIN MCRequests
MCLimits == {{}, {"a"}}
=============================================================================
