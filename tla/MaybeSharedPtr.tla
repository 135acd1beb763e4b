--------------------------- MODULE MaybeSharedPtr ---------------------------
(***************************************************************************)
(* The life of the objects of an event data model: the handles of user     *)
(* code share them through a MaybeSharedPtr with a control block, until    *)
(* push_back hands an object over to a collection                          *)
(* (include/podio/utilities/MaybeSharedPtr.h, the generated collections).  *)
(*                                                                         *)
(* Handles are copied and destroyed on any thread, so the destructor is    *)
(* two steps.  Objects are created, pushed into collections and cleared by *)
(* one thread at a time: "thread-safety is only guaranteed if data are     *)
(* considered read-only after creation" (doc/advanced_topics.md).          *)
(***************************************************************************)
EXTENDS Naturals, FiniteSets

CONSTANTS
    Obj,     \* the objects
    Handle,  \* the variables that can hold a MaybeSharedPtr
    Coll,    \* the collections (not subset collections)
    Nothing  \* what a handle that is not in use holds

ASSUME ConstantsAssumption ==
    /\ IsFiniteSet(Handle)
    /\ Nothing \notin Obj
    /\ Coll \cap {"nobody", "handles", "gone"} = {}

VARIABLES
    heap,       \* the Obj: "unborn", "live" or "deleted"
    tracked,    \* id.index of the Obj is not ObjectID::untracked
    relations,  \* its relation vectors: held by "obj" or "coll", or "deleted"
    ctrl,       \* the control block: its memory, its count and its owned flag
    handle,     \* per variable: the object, whether it has a control block,
                \* and the state of its destructor
    entries     \* per collection: the objects it owns

vars == <<heap, tracked, relations, ctrl, handle, entries>>

Free == [obj |-> Nothing, shared |-> FALSE, state |-> "free"]
Holding(o, shared) == [obj |-> o, shared |-> shared, state |-> "holds"]

Holds(h) == handle[h].state = "holds"

\* The MaybeSharedPtr instances that are counted by the control block of o.
Sharers(o) == {h \in Handle : Holds(h) /\ handle[h].obj = o /\ handle[h].shared}

\* Mutant: a copy is not counted.
Uncounted(count) == count

\* ++m_ctrlBlock->count
Counted(count) == count + 1

\* --m_ctrlBlock->count == 0
IsLast(count) == count = 1

\* Mutant: the handles keep the object too.
KeepOwned(block) == block

\* release
Disowned(block) == [block EXCEPT !.owned = FALSE]

\* Mutant: tracked objects are taken as well.
TakesAny(o) == heap[o] = "live"

\* push_back only takes an object that is in no collection.
Takes(o) == heap[o] = "live" /\ ~tracked[o]

-----------------------------------------------------------------------------
Init ==
    /\ heap = [o \in Obj |-> "unborn"]
    /\ tracked = [o \in Obj |-> FALSE]
    /\ relations = [o \in Obj |-> "obj"]
    /\ ctrl = [o \in Obj |-> [memory |-> "none", count |-> 0, owned |-> FALSE]]
    /\ handle = [h \in Handle |-> Free]
    /\ entries = [c \in Coll |-> {}]

\* The constructor of a mutable object: a new Obj with a control block.
MakeObject(h, o) ==
    /\ handle[h] = Free
    /\ heap[o] = "unborn"
    /\ heap' = [heap EXCEPT ![o] = "live"]
    /\ ctrl' = [ctrl EXCEPT ![o] = [memory |-> "live", count |-> 1, owned |-> TRUE]]
    /\ handle' = [handle EXCEPT ![h] = Holding(o, TRUE)]
    /\ UNCHANGED <<tracked, relations, entries>>

\* Collection::create: a new Obj of the collection, the handle it returns has
\* no control block.
Create(c, h, o) ==
    /\ handle[h] = Free
    /\ heap[o] = "unborn"
    /\ heap' = [heap EXCEPT ![o] = "live"]
    /\ entries' = [entries EXCEPT ![c] = @ \cup {o}]
    /\ relations' = [relations EXCEPT ![o] = "coll"]
    /\ tracked' = [tracked EXCEPT ![o] = TRUE]
    /\ handle' = [handle EXCEPT ![h] = Holding(o, FALSE)]
    /\ UNCHANGED ctrl

\* Collection::operator[]: a handle from the raw pointer.
Access(c, h, o) ==
    /\ handle[h] = Free
    /\ o \in entries[c]
    /\ handle' = [handle EXCEPT ![h] = Holding(o, FALSE)]
    /\ UNCHANGED <<heap, tracked, relations, ctrl, entries>>

\* The copy constructor increments the count of an existing control block; it
\* does not look at the Obj.
Copy(h, g) ==
    /\ Holds(h)
    /\ handle[g] = Free
    /\ handle' = [handle EXCEPT ![g] = handle[h]]
    /\ ctrl' = [ctrl EXCEPT ![handle[h].obj].count = IF handle[h].shared THEN Counted(@) ELSE @]
    /\ UNCHANGED <<heap, tracked, relations, entries>>

\* The move constructor leaves nothing behind.
Move(h, g) ==
    /\ Holds(h)
    /\ handle[g] = Free
    /\ handle' = [handle EXCEPT ![g] = handle[h], ![h] = Free]
    /\ UNCHANGED <<heap, tracked, relations, ctrl, entries>>

\* The destructor without a control block.
DropPlain(h) ==
    /\ Holds(h)
    /\ ~handle[h].shared
    /\ handle' = [handle EXCEPT ![h] = Free]
    /\ UNCHANGED <<heap, tracked, relations, ctrl, entries>>

\* The destructor: --count, which tells one thread that it was the last.
Drop(h) ==
    /\ Holds(h)
    /\ handle[h].shared
    /\ LET o == handle[h].obj IN
       /\ ctrl' = [ctrl EXCEPT ![o].count = @ - 1]
       /\ handle' = [handle EXCEPT ![h] = IF IsLast(ctrl[o].count)
                                          THEN [@ EXCEPT !.state = "last"]
                                          ELSE Free]
    /\ UNCHANGED <<heap, tracked, relations, entries>>

\* ~Obj deletes the relation vectors of an object outside of collections.
Destructed(o) == IF tracked[o] THEN relations[o] ELSE "deleted"

\* The destructor of the last one: delete the Obj if it is owned, delete the
\* control block.
Cleanup(h) ==
    /\ handle[h].state = "last"
    /\ LET o == handle[h].obj IN
       /\ heap' = [heap EXCEPT ![o] = IF ctrl[o].owned THEN "deleted" ELSE @]
       /\ relations' = [relations EXCEPT ![o] =
                           IF ctrl[o].owned THEN Destructed(o) ELSE @]
       /\ ctrl' = [ctrl EXCEPT ![o].memory = "deleted"]
    /\ handle' = [handle EXCEPT ![h] = Free]
    /\ UNCHANGED <<tracked, entries>>

\* push_back of an untracked object: a copy g of the handle is released, the
\* collection takes the Obj and its relation vectors.  The copy is destroyed
\* when push_back returns, by Drop.
PushBack(c, h, g) ==
    LET o == handle[h].obj IN
    /\ Holds(h)
    /\ handle[g] = Free
    /\ Takes(o)
    /\ tracked' = [tracked EXCEPT ![o] = TRUE]
    /\ ctrl' = [ctrl EXCEPT ![o] =
                   IF handle[h].shared
                   THEN Disowned([ctrl[o] EXCEPT !.count = Counted(ctrl[o].count)])
                   ELSE @]
    /\ handle' = [handle EXCEPT ![g] = handle[h]]
    /\ entries' = [entries EXCEPT ![c] = @ \cup {o}]
    /\ relations' = [relations EXCEPT ![o] = "coll"]
    /\ UNCHANGED heap

\* push_back of an object that is in a collection throws; the copy of the
\* handle is destroyed on the way out.
PushBackThrows(c, h, g) ==
    /\ Holds(h)
    /\ heap[handle[h].obj] = "live"
    /\ tracked[handle[h].obj]
    /\ Copy(h, g)

\* clear, and the destructor of the collection, delete all objects and the
\* relation vectors the collection holds.
Clear(c) ==
    /\ entries[c] # {}
    /\ heap' = [o \in Obj |-> IF o \in entries[c] THEN "deleted" ELSE heap[o]]
    /\ relations' = [o \in Obj |->
                        IF o \in entries[c] /\ relations[o] = "coll" THEN "deleted"
                        ELSE IF o \in entries[c] THEN Destructed(o)
                        ELSE relations[o]]
    /\ entries' = [entries EXCEPT ![c] = {}]
    /\ UNCHANGED <<tracked, ctrl, handle>>

Next ==
    \/ \E h \in Handle :
          \/ \E o \in Obj :
                \/ MakeObject(h, o)
                \/ \E c \in Coll : Create(c, h, o) \/ Access(c, h, o)
          \/ \E g \in Handle :
                \/ Copy(h, g)
                \/ Move(h, g)
                \/ \E c \in Coll : PushBack(c, h, g) \/ PushBackThrows(c, h, g)
          \/ DropPlain(h)
          \/ Drop(h)
          \/ Cleanup(h)
    \/ \E c \in Coll : Clear(c)

Spec == Init /\ [][Next]_vars

-----------------------------------------------------------------------------
\* The types of the objects, control blocks, handles and collections.
TypeOK ==
    /\ heap \in [Obj -> {"unborn", "live", "deleted"}]
    /\ tracked \in [Obj -> BOOLEAN]
    /\ relations \in [Obj -> {"obj", "coll", "deleted"}]
    /\ ctrl \in [Obj -> [memory : {"none", "live", "deleted"},
                         count : Nat, owned : BOOLEAN]]
    /\ handle \in [Handle -> [obj : Obj \cup {Nothing}, shared : BOOLEAN,
                              state : {"free", "holds", "last"}]]
    /\ entries \in [Coll -> SUBSET Obj]

\* The count of a control block is the number of MaybeSharedPtr that share it.
CountExact == \A o \in Obj : ctrl[o].count = Cardinality(Sharers(o))

\* No MaybeSharedPtr touches a control block that was deleted, on whichever
\* thread the last one but one is destroyed.
ControlBlockAlive ==
    \A h \in Handle :
        handle[h].state # "free" /\ handle[h].shared => ctrl[handle[h].obj].memory = "live"

\* An object is in one collection at most, and if it is, the handles that are
\* left will not delete it.
OneOwner ==
    \A o \in Obj :
        /\ \A c, d \in Coll : o \in entries[c] \cap entries[d] => c = d
        /\ (\E c \in Coll : o \in entries[c]) => heap[o] = "live" /\ ~ctrl[o].owned

\* Nothing is deleted twice: what a destructor or clear is about to delete is
\* still there.
NoDoubleDelete ==
    /\ \A h \in Handle :
          handle[h].state = "last" /\ ctrl[handle[h].obj].owned
              => heap[handle[h].obj] = "live" /\ relations[handle[h].obj] = "obj"
    /\ \A c \in Coll : \A o \in entries[c] : heap[o] = "live" /\ relations[o] = "coll"

\* No memory is lost: an object has a collection or a MaybeSharedPtr that will
\* delete it, its relation vectors are gone when it is, and a control block
\* nobody shares any more is gone.
NoLeak ==
    \A o \in Obj :
        LET users == {h \in Handle : handle[h].state # "free" /\ handle[h].obj = o
                                       /\ handle[h].shared} IN
        /\ heap[o] = "live" =>
              \/ \E c \in Coll : o \in entries[c]
              \/ ctrl[o].owned /\ users # {}
        /\ heap[o] = "deleted" => relations[o] = "deleted"
        /\ users = {} => ctrl[o].memory # "live"

\* The count of a control block is right and keeps it there as long as it is
\* shared, through every interleaving of copies and the two steps of the
\* destructor.
CountsRight == TypeOK /\ CountExact /\ ControlBlockAlive

\* An object has one owner at a time, the handles or a collection, which
\* deletes it and its relation vectors exactly once, whatever handles are left
\* when push_back or clear have run.
OwnershipRight == OneOwner /\ NoDoubleDelete /\ NoLeak

\* The pointer as the single-owner discipline describes it.
Owner(o) ==
    IF \E c \in Coll : o \in entries[c] THEN CHOOSE c \in Coll : o \in entries[c]
    ELSE CASE heap[o] = "unborn" -> "nobody"
           [] heap[o] = "live" -> "handles"
           [] heap[o] = "deleted" -> "gone"

Single == INSTANCE Ownership WITH owner <- [o \in Obj |-> Owner(o)]

SingleOwner == Single!Spec
=============================================================================
