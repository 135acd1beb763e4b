------------------------- MODULE MCMaybeSharedPtr -------------------------
(* Two objects, four MaybeSharedPtr and two collections.                  *)
EXTENDS MaybeSharedPtr

CONSTANTS o1, o2, h1, h2, h3, h4, c1, c2

MCObj == {o1, o2}
MCHandle == {h1, h2, h3, h4}
MCColl == {c1, c2}
=============================================================================
