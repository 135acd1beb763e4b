-------------------------- MODULE MCLinkCollection --------------------------
(* Two links between two objects, with two weights.                        *)
EXTENDS LinkCollection

CONSTANTS l1, l2, a1, b1

MCLink == {l1, l2}
MCFrom == {a1}
MCTo == {b1}
=============================================================================
