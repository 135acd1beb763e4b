----------------------------- MODULE MCSIOFile -----------------------------
(* Two categories, two Frames and a file of three entries.                 *)
EXTENDS SIOFile, TLC

CONSTANTS events, runs, f, g

MCCategory == {events, runs}
MCFrame == {f, g}
Alike == Permutations(MCCategory) \cup Permutations(MCFrame)
=============================================================================
