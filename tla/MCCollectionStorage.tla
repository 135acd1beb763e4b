------------------------ MODULE MCCollectionStorage ------------------------
(* Two objects of the collection's type and one of another collection, two *)
(* threads that write the Frame.                                           *)
EXTENDS CollectionStorage, TLC

CONSTANTS x, y, f, t1, t2

MCObj == {x, y}
MCForeign == {f}
MCThread == {t1, t2}
Alike == Permutations(MCThread)
=============================================================================
