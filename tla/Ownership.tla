------------------------------ MODULE Ownership ------------------------------
(***************************************************************************)
(* Who is responsible for an object of an event data model: nobody before  *)
(* it exists, then the handles user code holds or the collection that      *)
(* created it; handles may hand an object over to a collection, once; when *)
(* the owner is gone, so is the object.  MaybeSharedPtr.tla implements it. *)
(***************************************************************************)
CONSTANTS Obj, Coll

VARIABLE owner

Init == owner = [o \in Obj |-> "nobody"]

Become(o, from, to) == owner[o] = from /\ owner' = [owner EXCEPT ![o] = to]

\* Clearing a collection ends all of its objects at once.
Clear(c) ==
    /\ \E o \in Obj : owner[o] = c
    /\ owner' = [o \in Obj |-> IF owner[o] = c THEN "gone" ELSE owner[o]]

Next ==
    \/ \E o \in Obj :
          \/ Become(o, "nobody", "handles")
          \/ Become(o, "handles", "gone")
          \/ \E c \in Coll : Become(o, "nobody", c) \/ Become(o, "handles", c)
    \/ \E c \in Coll : Clear(c)

Spec == Init /\ [][Next]_owner
=============================================================================
