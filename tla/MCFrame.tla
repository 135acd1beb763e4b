------------------------------ MODULE MCFrame ------------------------------
(* Small Frames for TLC.  In the cyclic data a and b refer to each other    *)
(* (as particles and their parents do), a refers to itself and to a         *)
(* collection that was not written (c), b to an ID no table knows (d).      *)
EXTENDS Frame, TLC

CONSTANTS a, b, c, d, t1, t2

MCName == {a, b, c, d}
CyclicReferences == a :> <<b, c, a>> @@ b :> <<a, d>> @@ c :> <<>> @@ d :> <<>>
CyclicRaw == {a, b}
CyclicTable == {a, b, c}

\* Two collections that both refer to a third one, which refers back to one.
SharedReferences == a :> <<c>> @@ b :> <<c>> @@ c :> <<a>> @@ d :> <<>>
SharedRaw == {a, b, c}
SharedTable == {a, b, c}
=============================================================================
