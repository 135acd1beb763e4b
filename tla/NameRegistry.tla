---------------------------- MODULE NameRegistry ----------------------------
(***************************************************************************)
(* What a collection ID table promises its users: a growing set of known   *)
(* collection names, every one of which has an ID of its own.  The table   *)
(* of src/CollectionIDTable.cc implements it (CollectionIDTable.tla), and  *)
(* the Frame only relies on this much (Frame.tla).                         *)
(***************************************************************************)
CONSTANT Name

VARIABLE known

Init == known \in SUBSET Name

\* CollectionIDTable::add: a name that is known already stays as it is.
Register(n) == known' = known \cup {n}

Next == \E n \in Name : Register(n)

Spec == Init /\ [][Next]_known
=============================================================================
