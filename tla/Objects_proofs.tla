--------------------------- MODULE Objects_proofs ---------------------------
(***************************************************************************)
(* What MaybeSharedPtr.tla guarantees for any number of objects, handles   *)
(* and collections, and LinkCollection.tla for any links and objects.      *)
(*                                                                         *)
(* An object is in one of three places: unborn, owned by the flag of a     *)
(* control block that is shared, or in one collection.  Objects says which *)
(* of its parts are there in each, and Users ties the control block to the *)
(* handles: the destructor that is between its two steps is the only user. *)
(*                                                                         *)
(* Links are objects as well.  What is written of them and read again is   *)
(* right because the number of a link is its place in the collection       *)
(* (Numbered), and the buffers of a collection that is prepared are what   *)
(* they were then (BuffersMatch, SubsetMatches), also once it has been     *)
(* read.  The LinkNavigator is a fold over the links; an induction over    *)
(* their number gives its equation (NavigatorStep), and that each one is   *)
(* added in both directions (Complete).                                    *)
(***************************************************************************)
EXTENDS MaybeSharedPtr, LinkCollection, FiniteSetTheorems, SequenceTheorems,
        WellFoundedInduction, TLAPS

\* The handle h shares the control block of o, or is about to delete it.
Uses(h, o) == handle[h].state # "free" /\ handle[h].obj = o /\ handle[h].shared

\* A handle has an object; without a control block, it got the object from
\* the collection that tracks it.
Handles ==
    \A h \in Handle :
        handle[h].state # "free" =>
            /\ handle[h].obj \in Obj
            /\ heap[handle[h].obj] # "unborn"
            /\ IF handle[h].shared THEN ctrl[handle[h].obj].memory = "live"
               ELSE handle[h].state = "holds" /\ tracked[handle[h].obj]

\* A control block is there as long as it is used, and no longer; a destructor
\* between its two steps is the only one that uses it.
Users ==
    /\ \A o \in Obj : ctrl[o].memory = "live" => \E h \in Handle : Uses(h, o)
    /\ \A h, g \in Handle :
          handle[h].state = "last" /\ Uses(g, handle[h].obj) => g = h

\* The parts of an object that are there, and who will delete them.
Objects ==
    \A o \in Obj :
        /\ heap[o] = "unborn" =>
              /\ ~tracked[o] /\ relations[o] = "obj"
              /\ ctrl[o] = [memory |-> "none", count |-> 0, owned |-> FALSE]
        /\ heap[o] = "live" =>
              (\E c \in Coll : o \in entries[c]) \/ (ctrl[o].owned /\ ctrl[o].memory = "live")
        /\ ctrl[o].owned /\ ctrl[o].memory = "live" =>
              heap[o] = "live" /\ relations[o] = "obj" /\ ~tracked[o]
        /\ heap[o] = "deleted" => relations[o] = "deleted"

\* The objects in a collection are its own.
Collected ==
    \A c \in Coll : \A o \in entries[c] :
        /\ heap[o] = "live" /\ relations[o] = "coll" /\ ~ctrl[o].owned /\ tracked[o]
        /\ \A d \in Coll : o \in entries[d] => c = d

\* The types of a control block and of a MaybeSharedPtr.
Block == [memory : {"none", "live", "deleted"}, count : Nat, owned : BOOLEAN]
Pointer == [obj : Obj \cup {Nothing}, shared : BOOLEAN, state : {"free", "holds", "last"}]

IInv == TypeOK /\ CountExact /\ Handles /\ Users /\ Objects /\ Collected

-----------------------------------------------------------------------------
\* The sharers are handles, of which there are finitely many.
LEMMA SharersFinite == \A o \in Obj : IsFiniteSet(Sharers(o))
<1>1. \A o \in Obj : Sharers(o) \in SUBSET Handle
  BY DEF Sharers
<1> QED
  BY <1>1, ConstantsAssumption, FS_Subset

\* The count stays right when a free handle joins the sharers of an object.
LEMMA CountJoins ==
  ASSUME CountExact, TypeOK, NEW o \in Obj, NEW h \in Handle, h \notin Sharers(o),
         Sharers(o)' = Sharers(o) \cup {h}, ctrl'[o].count = ctrl[o].count + 1,
         \A p \in Obj \ {o} : Sharers(p)' = Sharers(p) /\ ctrl'[p].count = ctrl[p].count
  PROVE  CountExact'
<1>1. Cardinality(Sharers(o) \cup {h}) = Cardinality(Sharers(o)) + 1
  BY SharersFinite, FS_AddElement
<1>2. SUFFICES ASSUME NEW p \in Obj PROVE ctrl'[p].count = Cardinality(Sharers(p)')
  BY DEF CountExact
<1> QED
  BY <1>1 DEF CountExact

\* It stays right when no sharers and no count change.
LEMMA CountKept ==
  ASSUME CountExact,
         \A p \in Obj : Sharers(p)' = Sharers(p) /\ ctrl'[p].count = ctrl[p].count
  PROVE  CountExact'
BY DEF CountExact

-----------------------------------------------------------------------------
LEMMA InitIInv == Init => IInv
<1> SUFFICES ASSUME Init PROVE IInv
  OBVIOUS
<1>1. TypeOK
  BY DEF Init, TypeOK, Free
<1>2. CountExact
  <2>1. \A o \in Obj : Sharers(o) = {}
    BY DEF Init, Sharers, Holds, Free
  <2> QED
    BY <2>1, FS_EmptySet DEF Init, CountExact
<1>3. Handles /\ Users /\ Objects /\ Collected
  BY DEF Init, Handles, Users, Uses, Objects, Collected, Free
<1> QED
  BY <1>1, <1>2, <1>3 DEF IInv

\* A step that changes one control block and one MaybeSharedPtr, and nothing
\* else, keeps the types.
LEMMA TypesKept ==
  ASSUME TypeOK, NEW o \in Obj, NEW h \in Handle, NEW b \in Block, NEW p \in Pointer,
         ctrl' = [ctrl EXCEPT ![o] = b], handle' = [handle EXCEPT ![h] = p],
         UNCHANGED <<heap, tracked, relations, entries>>
  PROVE  TypeOK'
<1>1. ctrl' \in [Obj -> Block]
  BY DEF TypeOK, Block
<1>2. handle' \in [Handle -> Pointer]
  BY DEF TypeOK, Pointer
<1> QED
  BY <1>1, <1>2 DEF TypeOK, Block, Pointer

\* Nobody holds an object that was not made yet.
LEMMA UnbornUnused ==
  ASSUME IInv, NEW o \in Obj, heap[o] = "unborn"
  PROVE  /\ \A h \in Handle : handle[h].state # "free" => handle[h].obj # o
         /\ \A c \in Coll : o \notin entries[c]
         /\ Sharers(o) = {}
         /\ ctrl[o].count = 0
BY DEF IInv, Handles, Collected, Objects, Sharers, Holds

LEMMA MakeObjectIInv ==
  ASSUME IInv, NEW h \in Handle, NEW o \in Obj, MakeObject(h, o)
  PROVE  IInv'
<1> USE DEF MakeObject, Holding
<1>1. TypeOK'
  BY DEF IInv, TypeOK
<1>2. CountExact'
  <2>1. h \notin Sharers(o) /\ Sharers(o)' = Sharers(o) \cup {h}
    BY UnbornUnused DEF IInv, TypeOK, Sharers, Holds, Free
  <2>2. \A p \in Obj \ {o} : Sharers(p)' = Sharers(p) /\ ctrl'[p].count = ctrl[p].count
    BY DEF IInv, TypeOK, Sharers, Holds, Free
  <2>3. ctrl'[o].count = ctrl[o].count + 1
    BY UnbornUnused DEF IInv, TypeOK
  <2> QED
    BY <2>1, <2>2, <2>3, CountJoins DEF IInv
<1>3. Handles'
  BY UnbornUnused DEF IInv, TypeOK, Handles
<1>4. Users'
  BY UnbornUnused DEF IInv, TypeOK, Users, Uses, Handles, Free
<1>5. Objects'
  BY UnbornUnused DEF IInv, TypeOK, Objects
<1>6. Collected'
  BY UnbornUnused DEF IInv, TypeOK, Collected
<1> QED
  BY <1>1, <1>2, <1>3, <1>4, <1>5, <1>6 DEF IInv

LEMMA CreateIInv ==
  ASSUME IInv, NEW c \in Coll, NEW h \in Handle, NEW o \in Obj, Create(c, h, o)
  PROVE  IInv'
<1> USE DEF Create, Holding
<1>1. TypeOK'
  BY DEF IInv, TypeOK
<1>2. CountExact'
  <2>1. \A p \in Obj : Sharers(p)' = Sharers(p)
    BY DEF IInv, TypeOK, Sharers, Holds, Free
  <2> QED
    BY <2>1, CountKept DEF IInv
<1>3. Handles'
  BY UnbornUnused DEF IInv, TypeOK, Handles
<1>4. Users'
  BY UnbornUnused DEF IInv, TypeOK, Users, Uses, Handles, Free
<1>5. Objects'
  BY UnbornUnused DEF IInv, TypeOK, Objects
<1>6. Collected'
  BY UnbornUnused DEF IInv, TypeOK, Collected, Objects
<1> QED
  BY <1>1, <1>2, <1>3, <1>4, <1>5, <1>6 DEF IInv

LEMMA AccessIInv ==
  ASSUME IInv, NEW c \in Coll, NEW h \in Handle, NEW o \in Obj, Access(c, h, o)
  PROVE  IInv'
<1> USE DEF Access, Holding
<1>1. TypeOK'
  BY DEF IInv, TypeOK
<1>2. CountExact'
  <2>1. \A p \in Obj : Sharers(p)' = Sharers(p)
    BY DEF IInv, TypeOK, Sharers, Holds, Free
  <2> QED
    BY <2>1, CountKept DEF IInv
<1>3. Handles'
  BY DEF IInv, TypeOK, Handles, Collected
<1>4. Users'
  BY DEF IInv, TypeOK, Users, Uses, Free
<1>5. Objects' /\ Collected'
  BY DEF IInv, TypeOK, Objects, Collected
<1> QED
  BY <1>1, <1>2, <1>3, <1>4, <1>5 DEF IInv

LEMMA CopyIInv ==
  ASSUME IInv, NEW h \in Handle, NEW g \in Handle, Copy(h, g)
  PROVE  IInv'
<1>0. PICK o \in Obj : handle[h].obj = o
  BY DEF IInv, Handles, Copy, Holds
<1>1. g # h /\ Holds(h) /\ handle[g] = Free
  BY DEF Copy, Holds, Free
<1>2. TypeOK'
  <2>1. ctrl[o] \in Block /\ handle[h] \in Pointer
    BY <1>0 DEF IInv, TypeOK, Block, Pointer
  <2>2. ctrl' = [ctrl EXCEPT ![o] = [@ EXCEPT !.count = IF handle[h].shared
                                                        THEN ctrl[o].count + 1
                                                        ELSE ctrl[o].count]]
    BY <1>0 DEF Copy, Counted
  <2>3. [ctrl[o] EXCEPT !.count = IF handle[h].shared THEN ctrl[o].count + 1
                                  ELSE ctrl[o].count] \in Block
    BY <2>1 DEF Block
  <2> QED
    BY <2>1, <2>2, <2>3, TypesKept DEF IInv, Copy
<1>3. CountExact'
  <2>1. CASE handle[h].shared
    <3>1. g \notin Sharers(o) /\ Sharers(o)' = Sharers(o) \cup {g}
      BY <1>0, <1>1, <2>1 DEF IInv, TypeOK, Copy, Sharers, Holds, Free
    <3>2. \A p \in Obj \ {o} : Sharers(p)' = Sharers(p) /\ ctrl'[p].count = ctrl[p].count
      BY <1>0, <1>1, <2>1 DEF IInv, TypeOK, Copy, Sharers, Holds, Free
    <3>3. ctrl'[o].count = ctrl[o].count + 1
      BY <1>0, <1>1, <2>1 DEF IInv, TypeOK, Copy, Counted
    <3> QED
      BY <1>0, <1>1, <3>1, <3>2, <3>3, CountJoins DEF IInv
  <2>2. CASE ~handle[h].shared
    <3>1. \A p \in Obj : Sharers(p)' = Sharers(p) /\ ctrl'[p].count = ctrl[p].count
      BY <1>0, <1>1, <2>2 DEF IInv, TypeOK, Copy, Sharers, Holds, Free
    <3> QED
      BY <3>1, CountKept DEF IInv
  <2> QED
    BY <2>1, <2>2
<1>4. \A p \in Obj : ctrl'[p].memory = ctrl[p].memory /\ ctrl'[p].owned = ctrl[p].owned
  BY <1>0, <1>1 DEF IInv, TypeOK, Copy
<1>5. Handles'
  BY <1>0, <1>1, <1>4 DEF IInv, TypeOK, Handles, Copy
<1>6. Users'
  BY <1>0, <1>1, <1>4 DEF IInv, TypeOK, Users, Uses, Copy, Holds, Free
<1>7. Objects'
  <2>1. heap[o] # "unborn" /\ UNCHANGED <<heap, tracked, relations, entries>>
    BY <1>0, <1>1 DEF IInv, Handles, Copy, Holds
  <2>2. \A p \in Obj \ {o} : ctrl'[p] = ctrl[p]
    BY <1>0, <1>1 DEF IInv, TypeOK, Copy
  <2> QED
    BY <1>4, <2>1, <2>2 DEF IInv, Objects
<1>8. Collected'
  BY <1>4 DEF IInv, TypeOK, Collected, Copy
<1> QED
  BY <1>2, <1>3, <1>5, <1>6, <1>7, <1>8 DEF IInv

LEMMA MoveIInv ==
  ASSUME IInv, NEW h \in Handle, NEW g \in Handle, Move(h, g)
  PROVE  IInv'
<1>0. PICK o \in Obj : handle[h].obj = o
  BY DEF IInv, Handles, Move, Holds
<1>1. g # h /\ Holds(h) /\ handle[g] = Free
  BY DEF Move, Holds, Free
<1>m. /\ handle'[g] = handle[h] /\ handle'[h] = Free
      /\ \A k \in Handle \ {g, h} : handle'[k] = handle[k]
  BY <1>1 DEF IInv, TypeOK, Move
<1>2. TypeOK'
  BY <1>0, <1>1 DEF IInv, TypeOK, Move, Free
<1>3. CountExact'
  <2>1. SUFFICES ASSUME NEW p \in Obj PROVE Cardinality(Sharers(p)') = Cardinality(Sharers(p))
    BY DEF IInv, CountExact, Move
  <2>2. CASE p = o /\ handle[h].shared
    <3>1. Sharers(p)' = (Sharers(p) \cup {g}) \ {h} /\ h \in Sharers(p) /\ g \notin Sharers(p)
      BY <1>0, <1>1, <2>2 DEF IInv, TypeOK, Move, Sharers, Holds, Free
    <3>2. /\ IsFiniteSet(Sharers(p) \cup {g})
          /\ Cardinality(Sharers(p) \cup {g}) = Cardinality(Sharers(p)) + 1
      BY <3>1, SharersFinite, FS_AddElement
    <3>3. Cardinality(Sharers(p)') = Cardinality(Sharers(p) \cup {g}) - 1
      BY <1>0, <1>1, <3>1, <3>2, FS_RemoveElement
    <3> QED
      BY <3>2, <3>3, SharersFinite, FS_CardinalityType
  <2>3. CASE ~(p = o /\ handle[h].shared)
    <3>1. \A k \in Handle : k \in Sharers(p)' <=> k \in Sharers(p)
      BY <1>0, <1>1, <1>m, <2>3 DEF Sharers, Holds, Free
    <3>2. Sharers(p)' = Sharers(p)
      BY <3>1 DEF Sharers
    <3> QED
      BY <3>2
  <2> QED
    BY <2>2, <2>3
<1>4. Handles'
  BY <1>0, <1>1 DEF IInv, TypeOK, Handles, Move, Free
<1>5. Users'
  <2>1. \A p \in Obj : Uses(h, p) => Uses(g, p)'
    BY <1>0, <1>1 DEF IInv, TypeOK, Uses, Move
  <2>2. \A k \in Handle \ {g, h}, p \in Obj : Uses(k, p)' <=> Uses(k, p)
    BY <1>0, <1>1 DEF IInv, TypeOK, Uses, Move
  <2>3. \A p \in Obj : ~Uses(h, p)' /\ ~Uses(g, p)
    BY <1>0, <1>1 DEF IInv, TypeOK, Uses, Move, Free
  <2>4. \A p \in Obj : Uses(g, p)' => Uses(h, p)
    BY <1>0, <1>1 DEF IInv, TypeOK, Uses, Move
  <2>5. \A p \in Obj : ctrl'[p].memory = "live" => \E k \in Handle : Uses(k, p)'
    BY <2>1, <2>2, <2>3 DEF IInv, Users, Move
  <2>6. ASSUME NEW k \in Handle, NEW u \in Handle,
               handle'[k].state = "last", Uses(u, handle[k].obj)'
        PROVE  u = k
    <3>1. k \notin {g, h} /\ handle'[k] = handle[k] /\ handle[k].obj \in Obj
      BY <1>0, <1>1, <2>6 DEF IInv, TypeOK, Handles, Move, Holds, Free
    <3>2. u # g
      BY <1>0, <1>1, <2>4, <2>6, <3>1 DEF IInv, Users
    <3> QED
      BY <2>2, <2>3, <2>6, <3>1, <3>2 DEF IInv, Users
  <2>7. \A k \in Handle : handle'[k].state = "last" => handle'[k].obj = handle[k].obj
    BY <1>0, <1>1 DEF IInv, TypeOK, Move, Holds, Free
  <2> QED
    BY <2>5, <2>6, <2>7 DEF Users, Uses
<1>6. Objects' /\ Collected'
  BY DEF IInv, Objects, Collected, Move
<1> QED
  BY <1>2, <1>3, <1>4, <1>5, <1>6 DEF IInv

LEMMA DropPlainIInv ==
  ASSUME IInv, NEW h \in Handle, DropPlain(h)
  PROVE  IInv'
<1>1. TypeOK'
  BY DEF IInv, TypeOK, DropPlain, Free
<1>2. CountExact'
  <2>1. \A p \in Obj : Sharers(p)' = Sharers(p)
    BY DEF IInv, TypeOK, DropPlain, Sharers, Holds, Free
  <2> QED
    BY <2>1, CountKept DEF IInv, DropPlain
<1>3. Handles'
  BY DEF IInv, TypeOK, Handles, DropPlain, Free
<1>4. Users'
  BY DEF IInv, TypeOK, Users, Uses, DropPlain, Free
<1>5. Objects' /\ Collected'
  BY DEF IInv, Objects, Collected, DropPlain
<1> QED
  BY <1>1, <1>2, <1>3, <1>4, <1>5 DEF IInv

\* The last destructor is the only user left: no copy can be made meanwhile.
LEMMA DropIInv ==
  ASSUME IInv, NEW h \in Handle, Drop(h)
  PROVE  IInv'
<1>0. PICK o \in Obj : handle[h].obj = o
  BY DEF IInv, Handles, Drop, Holds
<1> DEFINE n == ctrl[o].count
           N == Cardinality(Sharers(o))
<1>1. /\ ctrl' = [ctrl EXCEPT ![o] = [@ EXCEPT !.count = n - 1]]
      /\ handle' = [handle EXCEPT ![h] = IF n = 1 THEN [@ EXCEPT !.state = "last"] ELSE Free]
      /\ UNCHANGED <<heap, tracked, relations, entries>>
      /\ Holds(h) /\ handle[h].shared
  BY <1>0 DEF Drop, IsLast
<1>2. h \in Sharers(o) /\ IsFiniteSet(Sharers(o)) /\ n = N /\ n \in Nat
  BY <1>0, <1>1, SharersFinite DEF IInv, CountExact, TypeOK, Sharers
<1>3. n # 0 /\ Cardinality(Sharers(o) \ {h}) = n - 1
  BY <1>2, FS_EmptySet, FS_RemoveElement
<1>4. n = 1 <=> Sharers(o) = {h}
  BY <1>2, FS_Singleton
<1>5. TypeOK'
  <2>1. ctrl[o] \in Block /\ handle[h] \in Pointer
    BY DEF IInv, TypeOK, Block, Pointer
  <2>2. [ctrl[o] EXCEPT !.count = n - 1] \in Block
    BY <1>2, <1>3, <2>1 DEF Block
  <2>3. (IF n = 1 THEN [handle[h] EXCEPT !.state = "last"] ELSE Free) \in Pointer
    BY <2>1 DEF Pointer, Free
  <2> QED
    BY <1>1, <2>2, <2>3, TypesKept DEF IInv
<1>6. CountExact'
  <2>1. \A p \in Obj \ {o} : Sharers(p)' = Sharers(p) /\ ctrl'[p].count = ctrl[p].count
    BY <1>0, <1>1 DEF IInv, TypeOK, Sharers, Holds, Free
  <2>2. Sharers(o)' = Sharers(o) \ {h} /\ ctrl'[o].count = n - 1
    BY <1>0, <1>1 DEF IInv, TypeOK, Sharers, Holds, Free
  <2> QED
    BY <1>3, <2>1, <2>2 DEF IInv, CountExact
<1>7. \A p \in Obj : ctrl'[p].memory = ctrl[p].memory /\ ctrl'[p].owned = ctrl[p].owned
  BY <1>1 DEF IInv, TypeOK
<1>8. Handles'
  <2>1. \A k \in Handle \ {h} : handle'[k] = handle[k]
    BY <1>1 DEF IInv, TypeOK
  <2>2. handle'[h].state # "free" =>
           handle'[h].obj = o /\ handle'[h].shared /\ ctrl'[o].memory = "live"
    BY <1>0, <1>1, <1>7 DEF IInv, TypeOK, Handles, Holds, Free
  <2>3. heap[o] # "unborn"
    BY <1>0, <1>1 DEF IInv, Handles, Holds
  <2> QED
    BY <1>1, <1>7, <2>1, <2>2, <2>3 DEF IInv, Handles
<1>9. Users'
  <2>1. CASE n = 1
    <3>1. \A k \in Handle, p \in Obj : Uses(k, p)' <=> Uses(k, p)
      BY <1>1, <2>1 DEF IInv, TypeOK, Uses, Holds
    <3>2. \A k \in Handle : handle'[k].obj = handle[k].obj
      BY <1>1, <2>1 DEF IInv, TypeOK
    <3>3. \A k \in Handle : handle[k].state # "free" => handle[k].obj \in Obj
      BY DEF IInv, Handles
    <3>4. ASSUME NEW k \in Handle, Uses(k, o) PROVE k = h
      <4>1. CASE handle[k].state = "holds"
        BY <1>4, <2>1, <3>4, <4>1 DEF Sharers, Uses, Holds
      <4>2. CASE handle[k].state = "last"
        BY <1>0, <1>1, <3>4, <4>2 DEF IInv, Users, Uses, Holds
      <4> QED
        BY <3>4, <4>1, <4>2 DEF IInv, TypeOK, Uses
    <3>5. ASSUME NEW k \in Handle, NEW g \in Handle,
                 handle'[k].state = "last", Uses(g, handle[k].obj)
          PROVE  g = k
      <4>1. CASE k = h
        BY <1>0, <3>4, <3>5, <4>1
      <4>2. CASE k # h
        BY <1>1, <3>5, <4>2 DEF IInv, TypeOK, Users
      <4> QED
        BY <4>1, <4>2
    <3>6. \A k, g \in Handle :
             handle'[k].state = "last" /\ Uses(g, handle[k].obj)' => Uses(g, handle[k].obj)
      BY <1>1, <2>1, <3>2 DEF IInv, TypeOK, Uses, Holds
    <3> QED
      BY <1>7, <3>1, <3>5, <3>6 DEF IInv, Users
  <2>2. CASE n # 1
    <3>1. handle'[h] = Free /\ \A k \in Handle \ {h} : handle'[k] = handle[k]
      BY <1>1, <2>2 DEF IInv, TypeOK
    <3>2. PICK g \in Sharers(o) : g # h
      BY <1>2, <1>4, <2>2
    <3>3. g \in Handle /\ Uses(g, o)'
      BY <3>1, <3>2 DEF Sharers, Uses, Holds
    <3>4. \A p \in Obj \ {o}, k \in Handle : Uses(k, p) => Uses(k, p)'
      BY <1>0, <3>1 DEF Uses
    <3>5. \A k, u \in Handle :
             handle'[k].state = "last" /\ Uses(u, handle[k].obj)' => u = k
      BY <3>1 DEF IInv, Users, Uses, Free
    <3> QED
      BY <1>7, <3>3, <3>4, <3>5 DEF IInv, Users
  <2> QED
    BY <2>1, <2>2
<1>10. Objects'
  <2>1. heap[o] # "unborn"
    BY <1>0, <1>1 DEF IInv, Handles, Holds
  <2>2. \A p \in Obj \ {o} : ctrl'[p] = ctrl[p]
    BY <1>1 DEF IInv, TypeOK
  <2> QED
    BY <1>1, <1>7, <2>1, <2>2 DEF IInv, Objects
<1>11. Collected'
  BY <1>1, <1>7 DEF IInv, TypeOK, Collected
<1> QED
  BY <1>5, <1>6, <1>8, <1>9, <1>10, <1>11 DEF IInv

LEMMA CleanupIInv ==
  ASSUME IInv, NEW h \in Handle, Cleanup(h)
  PROVE  IInv'
<1>0. PICK o \in Obj : handle[h].obj = o
  BY DEF IInv, Handles, Cleanup
<1>1. /\ handle[h].state = "last" /\ handle[h].shared /\ Uses(h, o)
      /\ \A g \in Handle : Uses(g, o) => g = h
  BY <1>0 DEF IInv, Handles, Users, Uses, Cleanup
<1>2. /\ ctrl' = [ctrl EXCEPT ![o] = [@ EXCEPT !.memory = "deleted"]]
      /\ handle' = [handle EXCEPT ![h] = Free]
      /\ UNCHANGED <<tracked, entries>>
  BY <1>0 DEF Cleanup
<1> DEFINE Rest == /\ TypeOK' /\ Objects' /\ Collected'
                   /\ \A p \in Obj : heap'[p] = "unborn" => heap[p] = "unborn"
<1>3. ASSUME ctrl[o].owned PROVE Rest
  <2>1. heap[o] = "live" /\ relations[o] = "obj" /\ ~tracked[o]
    BY <1>0, <1>1, <1>3 DEF IInv, Handles, Objects
  <2>2. /\ heap' = [heap EXCEPT ![o] = "deleted"]
        /\ relations' = [relations EXCEPT ![o] = "deleted"]
    BY <1>0, <1>3, <2>1 DEF Cleanup, Destructed
  <2>3. \A c \in Coll : o \notin entries[c]
    BY <2>1 DEF IInv, Collected
  <2>4. TypeOK'
    BY <1>2, <2>2 DEF IInv, TypeOK, Free
  <2>5. Objects'
    BY <1>2, <2>1, <2>2, <2>3 DEF IInv, TypeOK, Objects
  <2>6. Collected'
    BY <1>2, <2>2, <2>3 DEF IInv, TypeOK, Collected
  <2>7. \A p \in Obj : heap'[p] = "unborn" => heap[p] = "unborn"
    BY <2>2 DEF IInv, TypeOK
  <2> QED
    BY <2>4, <2>5, <2>6, <2>7

<1>4. ASSUME ~ctrl[o].owned PROVE Rest
  <2>1. heap' = heap /\ relations' = relations
    BY <1>0, <1>4 DEF IInv, TypeOK, Cleanup
  <2>2. TypeOK'
    BY <1>2, <2>1 DEF IInv, TypeOK, Free
  <2>3. Objects'
    <3>1. heap[o] # "unborn"
      BY <1>0, <1>1 DEF IInv, Handles
    <3>2. /\ \A p \in Obj \ {o} : ctrl'[p] = ctrl[p]
          /\ ctrl'[o].memory = "deleted" /\ ~ctrl'[o].owned
      BY <1>2, <1>4 DEF IInv, TypeOK
    <3>3. heap[o] = "live" => \E c \in Coll : o \in entries[c]
      BY <1>4 DEF IInv, Objects
    <3> QED
      BY <1>2, <2>1, <3>1, <3>2, <3>3 DEF IInv, Objects
  <2>4. Collected'
    BY <1>2, <1>4, <2>1 DEF IInv, TypeOK, Collected
  <2> QED
    BY <2>1, <2>2, <2>3, <2>4
<1>5. Rest
  BY <1>3, <1>4

<1>6. CountExact'
  <2>1. \A p \in Obj : Sharers(p)' = Sharers(p) /\ ctrl'[p].count = ctrl[p].count
    BY <1>1, <1>2 DEF IInv, TypeOK, Sharers, Holds, Free
  <2> QED
    BY <2>1, CountKept DEF IInv
<1>7. Handles'
  <2>1. SUFFICES ASSUME NEW g \in Handle, handle'[g].state # "free"
                 PROVE  /\ handle'[g].obj \in Obj
                        /\ heap'[handle'[g].obj] # "unborn"
                        /\ IF handle'[g].shared THEN ctrl'[handle'[g].obj].memory = "live"
                           ELSE handle'[g].state = "holds" /\ tracked'[handle'[g].obj]
    BY DEF Handles
  <2>2. g # h /\ handle'[g] = handle[g]
    BY <1>2, <2>1 DEF IInv, TypeOK, Free
  <2>3. handle[g].shared => handle[g].obj # o
    BY <1>1, <2>1, <2>2 DEF Uses
  <2> QED
    BY <1>2, <1>5, <2>1, <2>2, <2>3 DEF IInv, TypeOK, Handles
<1>8. Users'
  <2>1. \A g \in Handle, p \in Obj : Uses(g, p)' <=> Uses(g, p) /\ g # h
    BY <1>2 DEF IInv, TypeOK, Uses, Free
  <2>2. \A p \in Obj : ctrl'[p].memory = "live" => p # o /\ ctrl[p].memory = "live"
    BY <1>2 DEF IInv, TypeOK
  <2>3. \A p \in Obj : p # o => ~Uses(h, p)
    BY <1>0 DEF Uses
  <2>4. \A g, u \in Handle : handle'[g].state = "last" /\ Uses(u, handle[g].obj)' => u = g
    BY <1>2 DEF IInv, TypeOK, Users, Uses, Free
  <2> QED
    BY <2>1, <2>2, <2>3, <2>4 DEF IInv, Users
<1> QED
  BY <1>5, <1>6, <1>7, <1>8 DEF IInv

\* An object that is in no collection belongs to its handles.
LEMMA TakenFromHandles ==
  ASSUME IInv, NEW o \in Obj, Takes(o)
  PROVE  /\ \A c \in Coll : o \notin entries[c]
         /\ ctrl[o].owned /\ ctrl[o].memory = "live"
         /\ \A h \in Handle : handle[h].state # "free" /\ handle[h].obj = o => handle[h].shared
BY DEF IInv, Takes, Handles, Objects, Collected

LEMMA PushBackIInv ==
  ASSUME IInv, NEW c \in Coll, NEW h \in Handle, NEW g \in Handle, PushBack(c, h, g)
  PROVE  IInv'
<1>0. PICK o \in Obj : handle[h].obj = o
  BY DEF IInv, Handles, PushBack, Holds
<1>1. /\ g # h /\ Holds(h) /\ handle[g] = Free /\ handle[h].shared
      /\ heap[o] = "live" /\ ~tracked[o]
      /\ \A d \in Coll : o \notin entries[d]
  BY <1>0, TakenFromHandles DEF PushBack, Holds, Free, Takes
<1> DEFINE block == [[ctrl[o] EXCEPT !.count = ctrl[o].count + 1] EXCEPT !.owned = FALSE]
<1>2. /\ ctrl' = [ctrl EXCEPT ![o] = block]
      /\ handle' = [handle EXCEPT ![g] = handle[h]]
      /\ tracked' = [tracked EXCEPT ![o] = TRUE]
      /\ relations' = [relations EXCEPT ![o] = "coll"]
      /\ entries' = [entries EXCEPT ![c] = @ \cup {o}]
      /\ heap' = heap
  <2>1. ctrl' = [ctrl EXCEPT ![o] = IF handle[h].shared THEN block ELSE ctrl[o]]
    BY <1>0 DEF PushBack, Disowned, Counted
  <2>2. /\ handle' = [handle EXCEPT ![g] = handle[h]]
        /\ tracked' = [tracked EXCEPT ![o] = TRUE]
        /\ relations' = [relations EXCEPT ![o] = "coll"]
        /\ entries' = [entries EXCEPT ![c] = @ \cup {o}]
        /\ heap' = heap
    BY <1>0 DEF PushBack
  <2> QED
    BY <1>1, <2>1, <2>2
<1>b. /\ ctrl'[o].count = ctrl[o].count + 1 /\ ctrl'[o].memory = ctrl[o].memory
      /\ ~ctrl'[o].owned
      /\ \A p \in Obj \ {o} : ctrl'[p] = ctrl[p]
  BY <1>2 DEF IInv, TypeOK
<1>3. TypeOK'
  <2>1. ctrl[o] \in Block
    BY DEF IInv, TypeOK, Block
  <2>2. [ctrl[o] EXCEPT !.count = ctrl[o].count + 1] \in Block
    BY <2>1 DEF Block
  <2>3. \A b \in Block : [b EXCEPT !.owned = FALSE] \in Block
    BY DEF Block
  <2>4. block \in Block
    BY <2>2, <2>3
  <2>5. ctrl' \in [Obj -> Block]
    BY <1>2, <2>4 DEF IInv, TypeOK, Block
  <2> QED
    BY <1>2, <2>5 DEF IInv, TypeOK, Block
<1>4. CountExact'
  <2>1. g \notin Sharers(o) /\ Sharers(o)' = Sharers(o) \cup {g}
    BY <1>0, <1>1, <1>2 DEF IInv, TypeOK, Sharers, Holds, Free
  <2>2. \A p \in Obj \ {o} : Sharers(p)' = Sharers(p) /\ ctrl'[p].count = ctrl[p].count
    BY <1>0, <1>1, <1>2, <1>b DEF IInv, TypeOK, Sharers, Holds, Free
  <2>3. ctrl'[o].count = ctrl[o].count + 1
    BY <1>b
  <2> QED
    BY <2>1, <2>2, <2>3, CountJoins DEF IInv
<1>5. \A p \in Obj : ctrl'[p].memory = ctrl[p].memory
  BY <1>b
<1>6. Handles'
  BY <1>0, <1>1, <1>2, <1>5 DEF IInv, TypeOK, Handles, Holds
<1>7. Users'
  BY <1>0, <1>1, <1>2, <1>5 DEF IInv, TypeOK, Users, Uses, Holds, Free
<1>8. Objects'
  <2>1. o \in entries'[c] /\ heap[o] = "live"
    BY <1>1, <1>2 DEF IInv, TypeOK
  <2>2. \A p \in Obj \ {o} : tracked'[p] = tracked[p] /\ relations'[p] = relations[p]
    BY <1>2 DEF IInv, TypeOK
  <2>3. \A d \in Coll : entries[d] \subseteq entries'[d]
    BY <1>2 DEF IInv, TypeOK
  <2> QED
    BY <1>2, <1>b, <2>1, <2>2, <2>3 DEF IInv, Objects
<1>9. Collected'
  <2>1. ASSUME NEW d \in Coll, NEW p \in entries'[d]
        PROVE  p \in Obj /\ ((p = o /\ d = c) \/ (p # o /\ p \in entries[d]))
    <3>1. entries'[d] = IF d = c THEN entries[d] \cup {o} ELSE entries[d]
      BY <1>2 DEF IInv, TypeOK
    <3>2. entries[d] \subseteq Obj /\ o \notin entries[d]
      BY <1>1 DEF IInv, TypeOK
    <3> QED
      BY <1>0, <2>1, <3>1, <3>2
  <2>2. tracked'[o] /\ relations'[o] = "coll"
    BY <1>2 DEF IInv, TypeOK
  <2>3. \A p \in Obj \ {o} : tracked'[p] = tracked[p] /\ relations'[p] = relations[p]
    BY <1>2 DEF IInv, TypeOK
  <2> QED
    BY <1>1, <1>2, <1>b, <2>1, <2>2, <2>3 DEF IInv, TypeOK, Collected
<1> QED
  BY <1>3, <1>4, <1>6, <1>7, <1>8, <1>9 DEF IInv

LEMMA ClearIInv ==
  ASSUME IInv, NEW c \in Coll, Clear(c)
  PROVE  IInv'
<1>1. /\ \A o \in entries[c] : heap'[o] = "deleted" /\ relations'[o] = "deleted"
      /\ \A o \in Obj \ entries[c] : heap'[o] = heap[o] /\ relations'[o] = relations[o]
      /\ entries' = [entries EXCEPT ![c] = {}]
      /\ UNCHANGED <<tracked, ctrl, handle>>
  BY DEF IInv, TypeOK, Collected, Clear
<1>2. TypeOK'
  BY DEF IInv, TypeOK, Clear, Destructed
<1>3. CountExact'
  <2>1. \A p \in Obj : Sharers(p)' = Sharers(p)
    BY <1>1 DEF Sharers, Holds
  <2> QED
    BY <1>1, <2>1, CountKept DEF IInv
<1>4. Handles'
  BY <1>1 DEF IInv, Handles
<1>5. Users'
  BY <1>1 DEF IInv, Users, Uses
<1>6. Objects'
  <2>1. \A o \in entries[c] : heap[o] = "live" /\ ~ctrl[o].owned
    BY DEF IInv, Collected
  <2>2. \A o \in Obj \ entries[c], d \in Coll : o \in entries[d] => o \in entries'[d]
    BY <1>1 DEF IInv, TypeOK
  <2> QED
    BY <1>1, <2>1, <2>2 DEF IInv, Objects
<1>7. Collected'
  <2>1. \A d \in Coll : \A o \in entries'[d] : o \in entries[d] /\ o \in Obj \ entries[c]
    BY <1>1 DEF IInv, TypeOK, Collected
  <2> QED
    BY <1>1, <2>1 DEF IInv, Collected
<1> QED
  BY <1>2, <1>3, <1>4, <1>5, <1>6, <1>7 DEF IInv

LEMMA NextIInv == IInv /\ [Next]_vars => IInv'
<1> SUFFICES ASSUME IInv, [Next]_vars PROVE IInv'
  OBVIOUS
<1>1. CASE UNCHANGED vars
  <2>1. \A p \in Obj : Sharers(p)' = Sharers(p)
    BY <1>1 DEF vars, Sharers, Holds
  <2>2. CountExact'
    BY <1>1, <2>1, CountKept DEF IInv, vars
  <2> QED
    BY <1>1, <2>2 DEF vars, IInv, TypeOK, Handles, Users, Uses, Objects, Collected
<1>2. ASSUME NEW h \in Handle, NEW o \in Obj, MakeObject(h, o) PROVE IInv'
  BY <1>2, MakeObjectIInv
<1>3. ASSUME NEW h \in Handle, NEW o \in Obj, NEW c \in Coll, Create(c, h, o) PROVE IInv'
  BY <1>3, CreateIInv
<1>4. ASSUME NEW h \in Handle, NEW o \in Obj, NEW c \in Coll, Access(c, h, o) PROVE IInv'
  BY <1>4, AccessIInv
<1>5. ASSUME NEW h \in Handle, NEW g \in Handle, Copy(h, g) PROVE IInv'
  BY <1>5, CopyIInv
<1>6. ASSUME NEW h \in Handle, NEW g \in Handle, Move(h, g) PROVE IInv'
  BY <1>6, MoveIInv
<1>7. ASSUME NEW h \in Handle, NEW g \in Handle, NEW c \in Coll, PushBack(c, h, g) PROVE IInv'
  BY <1>7, PushBackIInv
<1>8. ASSUME NEW h \in Handle, NEW g \in Handle, NEW c \in Coll, PushBackThrows(c, h, g)
      PROVE  IInv'
  BY <1>8, CopyIInv DEF PushBackThrows
<1>9. ASSUME NEW h \in Handle, DropPlain(h) PROVE IInv'
  BY <1>9, DropPlainIInv
<1>10. ASSUME NEW h \in Handle, Drop(h) PROVE IInv'
  BY <1>10, DropIInv
<1>11. ASSUME NEW h \in Handle, Cleanup(h) PROVE IInv'
  BY <1>11, CleanupIInv
<1>12. ASSUME NEW c \in Coll, Clear(c) PROVE IInv'
  BY <1>12, ClearIInv
<1> QED
  BY <1>1, <1>2, <1>3, <1>4, <1>5, <1>6, <1>7, <1>8, <1>9, <1>10, <1>11, <1>12 DEF Next

-----------------------------------------------------------------------------
LEMMA Invariance == Spec => []IInv
<1> QED
  BY InitIInv, NextIInv, PTL DEF Spec

\* The count of every control block is the number of MaybeSharedPtr that share
\* it, and the block is there as long as they are (MaybeSharedPtr.h), for any
\* number of handles whose destructors interleave.
THEOREM CountsStayRight == Spec => []CountsRight
<1>1. IInv => CountsRight
  BY DEF IInv, CountsRight, ControlBlockAlive, Handles
<1> QED
  BY <1>1, Invariance, PTL

\* The handles and the collections never delete an object twice, forget one,
\* or own one both (MaybeSharedPtr.h, push_back and clear of the collections).
THEOREM OwnershipStaysRight == Spec => []OwnershipRight
<1>1. IInv => OneOwner
  BY DEF IInv, OneOwner, TypeOK, Collected
<1>2. IInv => NoDoubleDelete
  BY DEF IInv, NoDoubleDelete, Collected, Handles, Objects
<1>3. ASSUME IInv PROVE NoLeak
  <2>1. SUFFICES ASSUME NEW o \in Obj,
                        NEW users, users = {h \in Handle : Uses(h, o)}
                 PROVE  /\ heap[o] = "live" =>
                              \/ \E c \in Coll : o \in entries[c]
                              \/ ctrl[o].owned /\ users # {}
                        /\ heap[o] = "deleted" => relations[o] = "deleted"
                        /\ users = {} => ctrl[o].memory # "live"
    BY DEF NoLeak, Uses
  <2>2. ctrl[o].memory = "live" => users # {}
    BY <1>3, <2>1 DEF IInv, Users
  <2> QED
    BY <1>3, <2>2 DEF IInv, Objects
<1>4. IInv => OwnershipRight
  BY <1>1, <1>2, <1>3 DEF OwnershipRight
<1> QED
  BY <1>4, Invariance, PTL

-----------------------------------------------------------------------------
Owners == [o \in Obj |-> Owner(o)]

\* Who owns an object, without CHOOSE: it is in one collection at most.
LEMMA OwnerIs ==
  IInv => \A o \in Obj :
              /\ \A c \in Coll : o \in entries[c] => Owner(o) = c
              /\ (\A c \in Coll : o \notin entries[c]) =>
                    /\ heap[o] = "unborn" => Owner(o) = "nobody"
                    /\ heap[o] = "live" => Owner(o) = "handles"
                    /\ heap[o] = "deleted" => Owner(o) = "gone"
<1> SUFFICES ASSUME IInv, NEW o \in Obj
             PROVE  /\ \A c \in Coll : o \in entries[c] => Owner(o) = c
                    /\ (\A c \in Coll : o \notin entries[c]) =>
                          /\ heap[o] = "unborn" => Owner(o) = "nobody"
                          /\ heap[o] = "live" => Owner(o) = "handles"
                          /\ heap[o] = "deleted" => Owner(o) = "gone"
  OBVIOUS
<1>1. \A c, d \in Coll : o \in entries[c] /\ o \in entries[d] => c = d
  BY DEF IInv, Collected
<1> QED
  BY <1>1 DEF Owner

\* The owners change for one object only.
LEMMA OneChange ==
  ASSUME NEW o \in Obj, NEW from, NEW to, Owner(o) = from, Owner(o)' = to,
         \A p \in Obj \ {o} : Owner(p)' = Owner(p)
  PROVE  Single!Become(o, from, to)
BY DEF Single!Become

\* Where neither the objects nor the collections change, no owner does.
LEMMA NoChange ==
  ASSUME UNCHANGED <<heap, entries>> PROVE UNCHANGED Owners
BY DEF Owners, Owner

LEMMA StepRefines ==
  ASSUME IInv, IInv', [Next]_vars
  PROVE  [Single!Next]_Owners
<1>1. \A o \in Obj :
         /\ \A c \in Coll : o \in entries'[c] => Owner(o)' = c
         /\ (\A c \in Coll : o \notin entries'[c]) =>
               /\ heap'[o] = "unborn" => Owner(o)' = "nobody"
               /\ heap'[o] = "live" => Owner(o)' = "handles"
               /\ heap'[o] = "deleted" => Owner(o)' = "gone"
  <2>1. (IInv => \A o \in Obj :
              /\ \A c \in Coll : o \in entries[c] => Owner(o) = c
              /\ (\A c \in Coll : o \notin entries[c]) =>
                    /\ heap[o] = "unborn" => Owner(o) = "nobody"
                    /\ heap[o] = "live" => Owner(o) = "handles"
                    /\ heap[o] = "deleted" => Owner(o) = "gone")'
    BY OwnerIs, PTL
  <2> QED
    BY <2>1
<1>2. ASSUME UNCHANGED <<heap, entries>> PROVE [Single!Next]_Owners
  BY <1>2, NoChange
<1>u. ASSUME NEW p \in Obj, heap'[p] = heap[p],
             \A c \in Coll : p \in entries'[c] <=> p \in entries[c]
      PROVE  Owner(p)' = Owner(p)
  <2>1. CASE \E c \in Coll : p \in entries[c]
    BY <1>1, <1>u, <2>1, OwnerIs
  <2>2. CASE \A c \in Coll : p \notin entries[c]
    <3>1. heap[p] \in {"unborn", "live", "deleted"}
      BY DEF IInv, TypeOK
    <3> QED
      BY <1>1, <1>u, <2>2, <3>1, OwnerIs
  <2> QED
    BY <2>1, <2>2
<1>3. ASSUME NEW o \in Obj, \A p \in Obj \ {o} : heap'[p] = heap[p],
             \A p \in Obj \ {o}, c \in Coll : p \in entries'[c] <=> p \in entries[c]
      PROVE  \A p \in Obj \ {o} : Owner(p)' = Owner(p)
  BY <1>u, <1>3
<1>4. ASSUME NEW h \in Handle, NEW o \in Obj, MakeObject(h, o) PROVE Single!Next
  <2>1. Owner(o) = "nobody"
    BY <1>4, OwnerIs, UnbornUnused DEF MakeObject
  <2>2. heap'[o] = "live" /\ entries' = entries /\ \A p \in Obj \ {o} : heap'[p] = heap[p]
    BY <1>4 DEF MakeObject, IInv, TypeOK
  <2>3. Owner(o)' = "handles"
    BY <1>1, <1>4, <2>2, UnbornUnused DEF MakeObject
  <2> QED
    BY <1>3, <2>1, <2>2, <2>3, OneChange DEF Single!Next
<1>5. ASSUME NEW h \in Handle, NEW o \in Obj, NEW c \in Coll, Create(c, h, o)
      PROVE  Single!Next
  <2>1. Owner(o) = "nobody"
    BY <1>5, OwnerIs, UnbornUnused DEF Create
  <2>2. /\ o \in entries'[c] /\ \A p \in Obj \ {o} : heap'[p] = heap[p]
        /\ \A p \in Obj \ {o}, d \in Coll : p \in entries'[d] <=> p \in entries[d]
    BY <1>5 DEF Create, IInv, TypeOK
  <2>3. Owner(o)' = c
    BY <1>1, <2>2
  <2> QED
    BY <1>3, <2>1, <2>2, <2>3, OneChange DEF Single!Next
<1>6. ASSUME NEW h \in Handle, NEW g \in Handle, NEW c \in Coll, PushBack(c, h, g)
      PROVE  Single!Next
  <2>1. PICK o \in Obj : handle[h].obj = o
    BY <1>6 DEF IInv, Handles, PushBack, Holds
  <2>2. Takes(o) /\ entries' = [entries EXCEPT ![c] = @ \cup {o}] /\ heap' = heap
    BY <1>6, <2>1 DEF PushBack
  <2>3. Owner(o) = "handles"
    BY <2>2, OwnerIs, TakenFromHandles DEF Takes
  <2>4. o \in entries'[c]
    BY <2>2 DEF IInv, TypeOK
  <2>5. \A p \in Obj \ {o}, d \in Coll : p \in entries'[d] <=> p \in entries[d]
    BY <2>2 DEF IInv, TypeOK
  <2>6. Owner(o)' = c
    BY <1>1, <2>4
  <2> QED
    BY <1>3, <2>2, <2>3, <2>5, <2>6, OneChange DEF Single!Next
<1>7. ASSUME NEW h \in Handle, Cleanup(h) PROVE [Single!Next]_Owners
  <2>1. PICK o \in Obj : handle[h].obj = o
    BY <1>7 DEF IInv, Handles, Cleanup
  <2>2. CASE ~ctrl[o].owned
    <3>1. UNCHANGED <<heap, entries>>
      BY <1>7, <2>1, <2>2 DEF Cleanup, IInv, TypeOK
    <3> QED
      BY <1>2, <3>1
  <2>3. CASE ctrl[o].owned
    <3>1. heap[o] = "live" /\ ~tracked[o]
      BY <1>7, <2>1, <2>3 DEF IInv, Handles, Objects, Cleanup
    <3>2. \A c \in Coll : o \notin entries[c]
      BY <3>1 DEF IInv, Collected
    <3>3. heap' = [heap EXCEPT ![o] = "deleted"] /\ entries' = entries
      BY <1>7, <2>1, <2>3 DEF Cleanup
    <3>4. heap'[o] = "deleted" /\ \A p \in Obj \ {o} : heap'[p] = heap[p]
      BY <3>3 DEF IInv, TypeOK
    <3>5. Owner(o) = "handles" /\ Owner(o)' = "gone"
      BY <1>1, <3>1, <3>2, <3>3, <3>4, OwnerIs
    <3> QED
      BY <1>3, <3>3, <3>4, <3>5, OneChange DEF Single!Next
  <2> QED
    BY <2>2, <2>3
<1>8. ASSUME NEW c \in Coll, Clear(c) PROVE Single!Next
  <2>1. PICK o \in entries[c] : o \in Obj
    BY <1>8 DEF Clear, IInv, TypeOK
  <2>2. Owners[o] = c
    BY <2>1, OwnerIs DEF Owners
  <2>3. ASSUME NEW p \in Obj PROVE Owner(p)' = IF Owner(p) = c THEN "gone" ELSE Owner(p)
    <3>1. CASE p \in entries[c]
      <4>1. heap'[p] = "deleted"
        BY <1>8, <3>1 DEF Clear
      <4>2. \A d \in Coll : p \notin entries'[d]
        BY <4>1 DEF IInv, Collected
      <4> QED
        BY <1>1, <3>1, <4>1, <4>2, OwnerIs
    <3>2. CASE p \notin entries[c]
      <4>1. heap'[p] = heap[p] /\ \A d \in Coll : p \in entries'[d] <=> p \in entries[d]
        BY <1>8, <3>2 DEF Clear, IInv, TypeOK
      <4>2. Owner(p)' = Owner(p)
        BY <1>u, <4>1
      <4>3. Owner(p) # c
        <5>1. CASE \E d \in Coll : p \in entries[d]
          BY <3>2, <5>1, OwnerIs
        <5>2. CASE \A d \in Coll : p \notin entries[d]
          BY <5>2, OwnerIs, ConstantsAssumption DEF IInv, TypeOK
        <5> QED
          BY <5>1, <5>2
      <4> QED
        BY <4>2, <4>3
    <3> QED
      BY <3>1, <3>2
  <2>4. Owners' = [p \in Obj |-> IF Owners[p] = c THEN "gone" ELSE Owners[p]]
    BY <2>3 DEF Owners
  <2>5. Single!Clear(c)
    BY <2>1, <2>2, <2>4 DEF Single!Clear, Owners
  <2> QED
    BY <2>5 DEF Single!Next
<1>9. CASE \E h \in Handle : \/ \E o \in Obj, c \in Coll : Access(c, h, o)
                             \/ \E g \in Handle : Copy(h, g) \/ Move(h, g)
                             \/ \E g \in Handle, c \in Coll : PushBackThrows(c, h, g)
                             \/ DropPlain(h) \/ Drop(h)
  <2>1. UNCHANGED <<heap, entries>>
    BY <1>9 DEF Access, Copy, Move, PushBackThrows, DropPlain, Drop
  <2> QED
    BY <1>2, <2>1
<1>10. CASE UNCHANGED vars
  BY <1>2, <1>10 DEF vars
<1> QED
  BY <1>4, <1>5, <1>6, <1>7, <1>8, <1>9, <1>10 DEF Next

\* An object passes from owner to owner as the discipline allows: a collection
\* takes it over from its handles, once, and what is cleared or dropped is gone
\* (push_back, clear, the destructor of MaybeSharedPtr).
THEOREM ImplementsOwnership == Spec => SingleOwner
<1>1. Init => Single!Init
  <2>1. ASSUME Init PROVE \A o \in Obj : Owner(o) = "nobody"
    BY <2>1 DEF Init, Owner
  <2> QED
    BY <2>1 DEF Single!Init
<1>2. IInv /\ IInv' /\ [Next]_vars => [Single!Next]_Owners
  BY StepRefines
<1> QED
  BY <1>1, <1>2, Invariance, PTL DEF Spec, SingleOwner, Single!Spec, Owners

-----------------------------------------------------------------------------
\* The ObjectIDs of related objects, and those a subset collection writes.
RelatedIDs(S) == {<<"invalid">>, <<"untracked">>} \cup {<<"object", x>> : x \in S}
LinkIDs == {<<"untracked">>} \cup {<<"link", k>> : k \in Nat}

\* The types of the state.
LinkObj == [memory : {"none", "live", "deleted"}, index : Nat \cup {untracked}, hasID : BOOLEAN,
            weight : Weight, from : From \cup {Null}, to : To \cup {Null}]
LinkRow == [weight : Weight, from : RelatedIDs(From), to : RelatedIDs(To)]
LinkColl == [here : BOOLEAN, hasID : BOOLEAN, prepared : BOOLEAN, entries : Seq(Link),
             data : Seq(Weight), from : Seq(RelatedIDs(From)), to : Seq(RelatedIDs(To))]
LinkSubset == [prepared : BOOLEAN, entries : Seq(Link \cup {Null}), refs : Seq(LinkIDs)]

LinkTypes ==
    /\ obj \in [Link -> LinkObj]
    /\ placed \subseteq From \cup To
    /\ coll \in LinkColl
    /\ subset \in LinkSubset
    /\ written \in [coll : Seq(LinkRow), subset : Seq(LinkIDs)]
    /\ wild \in BOOLEAN /\ late \in BOOLEAN /\ fresh \in BOOLEAN

\* The links of a collection are numbered, and the other ones are untracked.
Numbered(o, c) ==
    /\ \A i \in 1..Len(c.entries) :
          o[c.entries[i]].memory = "live" /\ o[c.entries[i]].index = i - 1 /\ o[c.entries[i]].hasID = c.hasID
    /\ \A l \in Link :
          /\ o[l].index # untracked =>
                o[l].index + 1 \in 1..Len(c.entries) /\ c.entries[o[l].index + 1] = l
          /\ o[l].hasID => o[l].index # untracked
    /\ ~c.here => Len(c.entries) = 0

\* The buffers of a prepared collection are what was to be written; unless
\* links came later, they have a row for each of its links.
BuffersMatch(c, rows, more) ==
    /\ c.prepared =>
          /\ Len(c.data) = Len(rows) /\ Len(c.from) = Len(rows) /\ Len(c.to) = Len(rows)
          /\ \A i \in 1..Len(rows) :
                c.data[i] = rows[i].weight /\ c.from[i] = rows[i].from /\ c.to[i] = rows[i].to
    /\ ~c.prepared => Len(c.data) = 0
    /\ Len(c.data) <= Cardinality(Link)
    /\ c.here /\ c.prepared /\ ~more => Len(c.data) = Len(c.entries)

\* The ObjectIDs of a prepared subset lead to its links in the collection.
SubsetMatches(c, s, refs) ==
    /\ s.prepared => s.refs = refs
    /\ ~s.prepared => \A i \in 1..Len(s.entries) : s.entries[i] # Null
    /\ Len(s.refs) <= Len(s.entries)
    /\ \A i \in 1..Len(s.refs) : c.here /\ s.refs[i][1] = "link" =>
          s.refs[i][2] + 1 \in 1..Len(c.entries) /\ c.entries[s.refs[i][2] + 1] = s.entries[i]

\* What has just been read is prepared still.
FreshPrepared(c, s) == s.prepared /\ (c.here => c.prepared /\ c.hasID)

\* The inductive invariant of the links.
LinkInv ==
    /\ LinkTypes
    /\ Numbered(obj, coll)
    /\ BuffersMatch(coll, written.coll, late)
    /\ SubsetMatches(coll, subset, written.subset)
    /\ fresh => FreshPrepared(coll, subset)
    /\ RoundTrip

-----------------------------------------------------------------------------
\* A function on the first numbers is a sequence.
LEMMA RowsAreSeq ==
  ASSUME NEW S, NEW n \in Nat, NEW f \in [1..n -> S]
  PROVE  f \in Seq(S) /\ Len(f) = n
  BY LenProperties

\* The types of the parts of the collections.
LEMMA PartTypes ==
  ASSUME LinkTypes
  PROVE  /\ coll.entries \in Seq(Link) /\ Len(coll.entries) \in Nat
         /\ coll.data \in Seq(Weight) /\ Len(coll.data) \in Nat
         /\ coll.from \in Seq(RelatedIDs(From)) /\ coll.to \in Seq(RelatedIDs(To))
         /\ subset.entries \in Seq(Link \cup {Null}) /\ Len(subset.entries) \in Nat
         /\ subset.refs \in Seq(LinkIDs) /\ Len(subset.refs) \in Nat
         /\ \A i \in 1..Len(coll.entries) : coll.entries[i] \in Link
         /\ \A i \in 1..Len(subset.refs) : subset.refs[i] \in LinkIDs
         /\ \A l \in Link : obj[l] \in LinkObj
<1>1. coll \in LinkColl /\ subset \in LinkSubset /\ obj \in [Link -> LinkObj]
  BY DEF LinkTypes
<1>2. /\ coll.entries \in Seq(Link) /\ coll.data \in Seq(Weight)
      /\ coll.from \in Seq(RelatedIDs(From)) /\ coll.to \in Seq(RelatedIDs(To))
  BY <1>1 DEF LinkColl
<1>3. subset.entries \in Seq(Link \cup {Null}) /\ subset.refs \in Seq(LinkIDs)
  BY <1>1 DEF LinkSubset
<1> QED
  BY <1>1, <1>2, <1>3, ElementOfSeq, LenProperties

\* No link is twice in the collection.
LEMMA EntriesDistinct ==
  ASSUME LinkTypes, Numbered(obj, coll)
  PROVE  /\ \A i, j \in 1..Len(coll.entries) : coll.entries[i] = coll.entries[j] => i = j
         /\ Cardinality(Link) \in Nat /\ Len(coll.entries) <= Cardinality(Link)
<1> DEFINE n == Len(coll.entries)
<1>1. coll.entries \in [1..n -> Link] /\ n \in Nat
  BY PartTypes, LenProperties
<1>2. \A i \in 1..n : obj[coll.entries[i]].index = i - 1
  BY DEF Numbered
<1> HIDE DEF n
<1>3. \A i, j \in 1..n : coll.entries[i] = coll.entries[j] => i = j
  <2> SUFFICES ASSUME NEW i \in 1..n, NEW j \in 1..n, coll.entries[i] = coll.entries[j] PROVE i = j
    OBVIOUS
  <2>1. i - 1 = j - 1
    BY <1>2
  <2> QED
    BY <1>1, <2>1
<1>4. coll.entries \in Injection(1..n, Link)
  BY <1>1, <1>3 DEF Injection, IsInjective
<1>5. IsFiniteSet(Link) /\ Cardinality(Link) \in Nat
  BY LinkAssumption, FS_CardinalityType
<1>6. Cardinality(1..n) <= Cardinality(Link)
  BY <1>4, <1>5, FS_Injection
<1>7. Cardinality(1..n) = n
  <2>1. 1 \in Int /\ n \in Int
    BY <1>1
  <2>2. Cardinality(1..n) = IF 1 > n THEN 0 ELSE n - 1 + 1
    BY <2>1, FS_Interval, Zenon
  <2> QED
    BY <1>1, <2>2
<1> QED
  BY <1>3, <1>5, <1>6, <1>7 DEF n

\* The LinkObjs of a collection that is read are different ones.
LEMMA NewLinksDistinct ==
  ASSUME LinkTypes, Len(coll.data) <= Cardinality(Link)
  PROVE  /\ NewLinks \in Seq(Link) /\ Len(NewLinks) = Len(coll.data)
         /\ \A i \in 1..Len(coll.data) : NewLinks[i] \in Link
         /\ \A i, j \in 1..Len(coll.data) : NewLinks[i] = NewLinks[j] => i = j
<1> DEFINE m == Len(coll.data)
           c == Cardinality(Link)
<1>1. m \in Nat /\ c \in Nat /\ m <= c
  BY PartTypes, LinkAssumption, FS_CardinalityType
<1>2. \E f \in [1..c -> Link] : IsInjective(f)
  BY LinkAssumption, FS_CardinalityType DEF ExistsBijection, Bijection, Injection
<1>3. LinkOrder \in [1..c -> Link] /\ IsInjective(LinkOrder)
  BY <1>2 DEF LinkOrder, SetToSeq
<1>4. \A i, j \in 1..c : LinkOrder[i] = LinkOrder[j] => i = j
  BY <1>3 DEF IsInjective
<1> HIDE DEF m, c
<1>5. 1..m \subseteq 1..c /\ \A i \in 1..m : LinkOrder[i] \in Link
  BY <1>1, <1>3
<1>6. /\ SubSeq(LinkOrder, 1, m) \in Seq(Link) /\ Len(SubSeq(LinkOrder, 1, m)) = m
      /\ \A i \in 1..m : SubSeq(LinkOrder, 1, m)[i] = LinkOrder[i]
  BY <1>1, <1>5, SubSeqProperties
<1> QED
  BY <1>4, <1>5, <1>6 DEF NewLinks, m

\* Of collections that have changed, or not been read, nothing is said.
LEMMA NotFresh == ~fresh' /\ ~wild' => RoundTrip'
  BY DEF RoundTrip

-----------------------------------------------------------------------------
\* A link outside of collections is made or one that is there changes.
LEMMA SetObjInv ==
  ASSUME LinkInv, ~wild, NEW l \in Link, NEW o \in LinkObj, SetObj(l, o), o.memory = "live",
         o.index = obj[l].index, o.hasID = obj[l].hasID
  PROVE  LinkInv'
<1>1. /\ obj' = [obj EXCEPT ![l] = o] /\ fresh' = FALSE
      /\ UNCHANGED <<placed, coll, subset, wild, written, late>>
  BY DEF SetObj
<1>2. LinkTypes'
  BY <1>1 DEF LinkInv, LinkTypes
<1>3. \A k \in Link : /\ obj'[k].index = obj[k].index /\ obj'[k].hasID = obj[k].hasID
                      /\ obj[k].memory = "live" => obj'[k].memory = "live"
  <2>1. obj \in [Link -> LinkObj]
    BY DEF LinkInv, LinkTypes
  <2>2. obj'[l] = o /\ \A k \in Link : k # l => obj'[k] = obj[k]
    BY <1>1, <2>1
  <2> QED
    BY <2>2
<1>4. Numbered(obj', coll)
  <2>1. \A i \in 1..Len(coll.entries) : coll.entries[i] \in Link
    BY PartTypes DEF LinkInv
  <2>2. Numbered(obj, coll)
    BY DEF LinkInv
  <2> QED
    BY <1>3, <2>1, <2>2 DEF Numbered
<1>5. BuffersMatch(coll, written.coll, late)' /\ SubsetMatches(coll, subset, written.subset)'
  BY <1>1 DEF LinkInv, BuffersMatch, SubsetMatches
<1> QED
  BY <1>1, <1>2, <1>4, <1>5, NotFresh DEF LinkInv, Numbered

\* The collection takes a link that is in none.
LEMMA TakeInv ==
  ASSUME LinkInv, ~wild, NEW l \in Link, NEW o \in LinkObj, Take(l, o), o.memory = "live", ~Tracked(l)
  PROVE  LinkInv'
<1> DEFINE n == Len(coll.entries)
           p == [o EXCEPT !.index = n, !.hasID = coll.hasID]
           c == [coll EXCEPT !.entries = Append(@, l)]
<1>1. /\ coll.here /\ obj' = [obj EXCEPT ![l] = p] /\ coll' = c
      /\ late' = (late \/ coll.prepared) /\ fresh' = FALSE
      /\ UNCHANGED <<placed, subset, wild, written>>
  BY DEF Take
<1>2. LinkTypes /\ n \in Nat /\ coll.entries \in Seq(Link) /\ coll \in LinkColl /\ obj[l].index = untracked
  BY PartTypes DEF LinkInv, LinkTypes, Tracked
<1>3. /\ Append(coll.entries, l) \in Seq(Link) /\ Len(Append(coll.entries, l)) = n + 1
      /\ \A i \in 1..n : Append(coll.entries, l)[i] = coll.entries[i]
      /\ Append(coll.entries, l)[n + 1] = l
  BY <1>2, AppendProperties
<1>4. /\ c \in LinkColl /\ c.entries = Append(coll.entries, l) /\ c.here = coll.here /\ c.hasID = coll.hasID
      /\ c.prepared = coll.prepared /\ c.data = coll.data /\ c.from = coll.from /\ c.to = coll.to
  BY <1>2, <1>3 DEF LinkColl
<1>5. p \in LinkObj /\ p.index = n /\ p.hasID = coll.hasID /\ p.memory = "live"
  BY <1>2 DEF LinkObj, LinkColl
<1> HIDE DEF n, p, c
<1>6. LinkTypes'
  BY <1>1, <1>2, <1>4, <1>5 DEF LinkTypes
<1>7. obj'[l] = p /\ \A k \in Link : k # l => obj'[k] = obj[k]
  BY <1>1, <1>2 DEF LinkTypes
<1>8. Numbered(obj', c)
  <2>1. ASSUME NEW i \in 1..n
        PROVE  coll.entries[i] \in Link /\ coll.entries[i] # l
    <3>1. coll.entries[i] \in Link /\ obj[coll.entries[i]].index = i - 1
      BY <1>2, PartTypes DEF LinkInv, Numbered, n
    <3> QED
      BY <1>2, <3>1 DEF untracked
  <2>2. ASSUME NEW i \in 1..n + 1
        PROVE  /\ obj'[c.entries[i]].memory = "live" /\ obj'[c.entries[i]].index = i - 1
               /\ obj'[c.entries[i]].hasID = c.hasID
    <3>1. CASE i = n + 1
      BY <1>2, <1>3, <1>4, <1>5, <1>7, <3>1
    <3>2. CASE i # n + 1
      <4>1. i \in 1..n
        BY <1>2, <3>2
      <4>2. c.entries[i] = coll.entries[i] /\ obj'[coll.entries[i]] = obj[coll.entries[i]]
        BY <1>3, <1>4, <1>7, <2>1, <4>1
      <4> QED
        BY <1>4, <4>1, <4>2 DEF LinkInv, Numbered, n
    <3> QED
      BY <3>1, <3>2
  <2>3. ASSUME NEW k \in Link, k # l
        PROVE  /\ obj'[k].index # untracked =>
                     obj'[k].index + 1 \in 1..n + 1 /\ c.entries[obj'[k].index + 1] = k
               /\ obj'[k].hasID => obj'[k].index # untracked
    <3>1. obj'[k] = obj[k]
      BY <1>7, <2>3
    <3>2. obj[k].index # untracked => obj[k].index + 1 \in 1..n /\ coll.entries[obj[k].index + 1] = k
      BY DEF LinkInv, Numbered, n
    <3>3. obj[k].hasID => obj[k].index # untracked
      BY DEF LinkInv, Numbered
    <3> QED
      BY <1>2, <1>3, <1>4, <3>1, <3>2, <3>3
  <2>4. /\ obj'[l].index + 1 \in 1..n + 1 /\ c.entries[obj'[l].index + 1] = l
        /\ obj'[l].index # untracked
    BY <1>2, <1>3, <1>4, <1>5, <1>7 DEF untracked
  <2>5. Len(c.entries) = n + 1 /\ c.here
    BY <1>1, <1>3, <1>4
  <2> QED
    BY <2>2, <2>3, <2>4, <2>5 DEF Numbered
<1>9. BuffersMatch(c, written.coll, late')
  BY <1>1, <1>4 DEF LinkInv, BuffersMatch
<1>10. SubsetMatches(c, subset, written.subset)
  <2>1. ASSUME NEW i \in 1..Len(subset.refs), subset.refs[i][1] = "link"
        PROVE  subset.refs[i][2] + 1 \in 1..n + 1 /\ c.entries[subset.refs[i][2] + 1] = subset.entries[i]
    <3>1. subset.refs[i][2] + 1 \in 1..n /\ coll.entries[subset.refs[i][2] + 1] = subset.entries[i]
      BY <1>1, <2>1 DEF LinkInv, SubsetMatches, n
    <3> QED
      BY <1>2, <1>3, <1>4, <3>1
  <2>2. Len(c.entries) = n + 1
    BY <1>3, <1>4
  <2> QED
    BY <2>1, <2>2 DEF LinkInv, SubsetMatches
<1> QED
  BY <1>1, <1>6, <1>8, <1>9, <1>10, NotFresh DEF LinkInv, Numbered, BuffersMatch, SubsetMatches

\* The operations of user code on a single link.
LEMMA MakeLinkInv ==
  ASSUME LinkInv, ~wild, NEW l \in Link, MakeLink(l)
  PROVE  LinkInv'
<1>1. obj[l] = NoObj /\ SetObj(l, NewObj)
  BY DEF MakeLink
<1>2. NewObj \in LinkObj /\ NewObj.memory = "live" /\ NewObj.index = NoObj.index /\ NewObj.hasID = NoObj.hasID
  BY LinkAssumption DEF NewObj, NoObj, LinkObj
<1> QED
  BY <1>1, <1>2, SetObjInv

LEMMA CloneInv ==
  ASSUME LinkInv, ~wild, NEW l \in Link, NEW k \in Link, NEW cloneRelations \in BOOLEAN,
         Clone(l, k, cloneRelations)
  PROVE  LinkInv'
<1> DEFINE o == [NewObj EXCEPT
                     !.weight = obj[l].weight,
                     !.from = IF cloneRelations THEN obj[l].from ELSE Null,
                     !.to = IF cloneRelations THEN obj[l].to ELSE Null]
<1>1. obj[k] = NoObj /\ SetObj(k, o)
  BY DEF Clone
<1>2. obj[l] \in LinkObj
  BY PartTypes DEF LinkInv
<1>3. o \in LinkObj /\ o.memory = "live" /\ o.index = NoObj.index /\ o.hasID = NoObj.hasID
  BY <1>2, LinkAssumption DEF NewObj, NoObj, LinkObj
<1> QED
  BY <1>1, <1>3, SetObjInv

LEMMA SetRelationInv ==
  ASSUME LinkInv, ~wild, NEW l \in Link, NEW x \in From \cup To, SetRelation(l, x)
  PROVE  LinkInv'
<1>1. obj[l] \in LinkObj
  BY PartTypes DEF LinkInv
<1>2. CASE x \in From /\ SetFrom(l, x)
  <2> DEFINE o == [obj[l] EXCEPT !.from = x]
  <2>1. o \in LinkObj /\ o.memory = "live" /\ o.index = obj[l].index /\ o.hasID = obj[l].hasID /\ SetObj(l, o)
    BY <1>1, <1>2 DEF LinkObj, SetFrom, Live
  <2> HIDE DEF o
  <2> QED
    BY <2>1, SetObjInv
<1>3. CASE x \in To /\ SetTo(l, x)
  <2> DEFINE o == [obj[l] EXCEPT !.to = x]
  <2>1. o \in LinkObj /\ o.memory = "live" /\ o.index = obj[l].index /\ o.hasID = obj[l].hasID /\ SetObj(l, o)
    BY <1>1, <1>3 DEF LinkObj, SetTo, Live
  <2> HIDE DEF o
  <2> QED
    BY <2>1, SetObjInv
<1> QED
  BY <1>2, <1>3 DEF SetRelation

LEMMA SetWeightInv ==
  ASSUME LinkInv, ~wild, NEW l \in Link, NEW w \in Weight, SetWeight(l, w)
  PROVE  LinkInv'
<1> DEFINE o == [obj[l] EXCEPT !.weight = w]
<1>1. obj[l] \in LinkObj
  BY PartTypes DEF LinkInv
<1>2. o \in LinkObj /\ o.memory = "live" /\ o.index = obj[l].index /\ o.hasID = obj[l].hasID /\ SetObj(l, o)
  BY <1>1 DEF LinkObj, SetWeight, Live
<1> HIDE DEF o
<1> QED
  BY <1>2, SetObjInv

LEMMA CreateInv ==
  ASSUME LinkInv, ~wild, NEW l \in Link, CreateLink(l)
  PROVE  LinkInv'
<1>1. obj[l] = NoObj /\ Take(l, NewObj)
  BY DEF CreateLink
<1>2. NewObj \in LinkObj /\ NewObj.memory = "live" /\ NoObj.index = untracked
  BY LinkAssumption DEF NewObj, NoObj, LinkObj
<1> QED
  BY <1>1, <1>2, TakeInv DEF Tracked

LEMMA PushBackInv ==
  ASSUME LinkInv, ~wild, NEW l \in Link, PushBackLink(l)
  PROVE  LinkInv'
  BY TakeInv, PartTypes DEF PushBackLink, Live, LinkInv

LEMMA PlaceInv ==
  ASSUME LinkInv, ~wild, NEW x \in From \cup To, Place(x)
  PROVE  LinkInv'
<1>1. /\ placed' = placed \cup {x} /\ fresh' = FALSE
      /\ UNCHANGED <<obj, coll, subset, wild, written, late>>
  BY DEF Place
<1>2. LinkTypes'
  BY <1>1 DEF LinkInv, LinkTypes
<1> QED
  BY <1>1, <1>2, NotFresh DEF LinkInv, Numbered, BuffersMatch, SubsetMatches

\* The subset collection grows behind what was prepared.
LEMMA PushBackTrackedInv ==
  ASSUME LinkInv, ~wild, NEW l \in Link, PushBackTracked(l)
  PROVE  LinkInv'
<1> DEFINE n == Len(subset.entries)
           s == [subset EXCEPT !.entries = Append(@, l)]
<1>1. subset' = s /\ fresh' = FALSE /\ UNCHANGED <<obj, placed, coll, wild, written, late>>
  BY DEF PushBackTracked
<1>2. /\ n \in Nat /\ subset.entries \in Seq(Link \cup {Null}) /\ subset \in LinkSubset
      /\ Len(subset.refs) \in Nat /\ l # Null
  BY PartTypes, LinkAssumption DEF LinkInv, LinkTypes
<1>3. /\ Append(subset.entries, l) \in Seq(Link \cup {Null}) /\ Len(Append(subset.entries, l)) = n + 1
      /\ \A i \in 1..n : Append(subset.entries, l)[i] = subset.entries[i]
      /\ Append(subset.entries, l)[n + 1] = l
  BY <1>2, AppendProperties
<1>4. /\ s \in LinkSubset /\ s.entries = Append(subset.entries, l)
      /\ s.prepared = subset.prepared /\ s.refs = subset.refs
  BY <1>2, <1>3 DEF LinkSubset
<1> HIDE DEF n, s
<1>5. LinkTypes'
  BY <1>1, <1>4 DEF LinkInv, LinkTypes
<1>6. SubsetMatches(coll, s, written.subset)
  <2>1. ASSUME ~subset.prepared, NEW i \in 1..n + 1
        PROVE  s.entries[i] # Null
    <3>1. i \in 1..n \/ i = n + 1
      BY <1>2
    <3> QED
      BY <1>2, <1>3, <1>4, <2>1, <3>1 DEF LinkInv, SubsetMatches, n
  <2>2. Len(subset.refs) <= n
    BY DEF LinkInv, SubsetMatches, n
  <2>3. ASSUME NEW i \in 1..Len(subset.refs)
        PROVE  s.entries[i] = subset.entries[i]
    BY <1>2, <1>3, <1>4, <2>2
  <2>4. Len(s.entries) = n + 1 /\ Len(s.refs) <= Len(s.entries)
    BY <1>2, <1>3, <1>4, <2>2
  <2> QED
    BY <1>4, <2>1, <2>3, <2>4 DEF LinkInv, SubsetMatches
<1> QED
  BY <1>1, <1>5, <1>6, NotFresh DEF LinkInv, Numbered, BuffersMatch, SubsetMatches

\* The links of the collection get its ID.
LEMMA SetIDInv ==
  ASSUME LinkInv, ~wild, SetID
  PROVE  LinkInv'
<1> DEFINE n == Len(coll.entries)
           c == [coll EXCEPT !.hasID = TRUE]
<1>1. /\ coll.here /\ ~coll.hasID /\ coll' = c
      /\ obj' = [l \in Link |-> IF l \in Range(coll.entries) THEN Renamed(obj[l]) ELSE obj[l]]
      /\ UNCHANGED <<placed, subset, wild, written, late, fresh>>
  BY DEF SetID
<1>2. ~fresh
  BY <1>1 DEF LinkInv, FreshPrepared
<1>3. LinkTypes /\ n \in Nat /\ coll.entries \in Seq(Link) /\ coll \in LinkColl
  BY PartTypes DEF LinkInv, LinkTypes
<1>4. /\ c \in LinkColl /\ c.entries = coll.entries /\ c.here = coll.here /\ c.hasID = TRUE
      /\ c.prepared = coll.prepared /\ c.data = coll.data /\ c.from = coll.from /\ c.to = coll.to
  BY <1>3 DEF LinkColl
<1>5. ASSUME NEW l \in Link
      PROVE  /\ obj'[l] \in LinkObj /\ obj'[l].index = obj[l].index /\ obj'[l].memory = obj[l].memory
             /\ l \in Range(coll.entries) => obj'[l].hasID = TRUE
             /\ l \notin Range(coll.entries) => obj'[l].hasID = obj[l].hasID
  <2>1. obj[l] \in LinkObj
    BY <1>3, PartTypes
  <2>2. obj'[l] = IF l \in Range(coll.entries) THEN Renamed(obj[l]) ELSE obj[l]
    BY <1>1
  <2> DEFINE o == obj[l]
  <2> HIDE DEF o
  <2>3. o \in LinkObj
    BY <2>1 DEF o
  <2>4. /\ Renamed(o) \in LinkObj /\ Renamed(o).index = o.index /\ Renamed(o).memory = o.memory
        /\ Renamed(o).hasID = TRUE
    BY <2>3 DEF LinkObj, Renamed
  <2> QED
    BY <2>2, <2>3, <2>4 DEF o
<1> HIDE DEF n, c
<1>6. LinkTypes'
  <2>1. obj' \in [Link -> LinkObj]
    <3>1. obj' = [l \in Link |-> obj'[l]]
      BY <1>1
    <3> QED
      BY <3>1, <1>5
  <2> QED
    BY <1>1, <1>3, <1>4, <2>1 DEF LinkTypes
<1>7. \A i \in 1..n : coll.entries[i] \in Link /\ coll.entries[i] \in Range(coll.entries)
  <2>1. coll.entries \in [1..n -> Link]
    BY <1>3, LenProperties DEF n
  <2> QED
    BY <2>1 DEF Range
<1>8. Numbered(obj', c)
  <2>1. ASSUME NEW i \in 1..n
        PROVE  /\ obj'[coll.entries[i]].memory = "live" /\ obj'[coll.entries[i]].index = i - 1
               /\ obj'[coll.entries[i]].hasID = TRUE
    BY <1>5, <1>7 DEF LinkInv, Numbered, n
  <2>2. ASSUME NEW l \in Link
        PROVE  /\ obj'[l].index # untracked =>
                     obj'[l].index + 1 \in 1..n /\ coll.entries[obj'[l].index + 1] = l
               /\ obj'[l].hasID => obj'[l].index # untracked
    <3>1. /\ obj[l].index # untracked => obj[l].index + 1 \in 1..n /\ coll.entries[obj[l].index + 1] = l
          /\ obj[l].hasID => obj[l].index # untracked
      BY DEF LinkInv, Numbered, n
    <3>2. l \in Range(coll.entries) => obj[l].index # untracked
      <4> SUFFICES ASSUME l \in Range(coll.entries) PROVE obj[l].index # untracked
        OBVIOUS
      <4>1. PICK i \in 1..n : coll.entries[i] = l
        BY <1>3, LenProperties DEF Range, n
      <4> QED
        BY <1>3, <4>1 DEF LinkInv, Numbered, n, untracked
    <3> QED
      BY <1>5, <3>1, <3>2
  <2> QED
    <3>1. Len(c.entries) = n /\ c.entries = coll.entries /\ c.here /\ c.hasID = TRUE
      BY <1>1, <1>4 DEF n
    <3>2. \A i \in 1..Len(c.entries) :
            /\ obj'[c.entries[i]].memory = "live" /\ obj'[c.entries[i]].index = i - 1
            /\ obj'[c.entries[i]].hasID = c.hasID
      BY <2>1, <3>1
    <3>3. \A l \in Link :
            /\ obj'[l].index # untracked =>
                 obj'[l].index + 1 \in 1..Len(c.entries) /\ c.entries[obj'[l].index + 1] = l
            /\ obj'[l].hasID => obj'[l].index # untracked
      BY <2>2, <3>1
    <3> QED
      BY <3>1, <3>2, <3>3 DEF Numbered
<1>9. BuffersMatch(c, written.coll, late)
  BY <1>4 DEF LinkInv, BuffersMatch
<1>10. SubsetMatches(c, subset, written.subset)
  BY <1>4 DEF LinkInv, SubsetMatches
<1> QED
  BY <1>1, <1>2, <1>6, <1>8, <1>9, <1>10, NotFresh DEF LinkInv

\* The links of the collection are deleted; the subset refers to none of them.
LEMMA ClearInv ==
  ASSUME LinkInv, ~wild, ClearLinks
  PROVE  LinkInv'
<1> DEFINE n == Len(coll.entries)
           c == Cleared(coll)
<1>1. /\ coll.here /\ coll' = c
      /\ Range(subset.entries) \cap Range(coll.entries) = {}
      /\ obj' = [l \in Link |-> IF l \in Range(coll.entries)
                                THEN [NoObj EXCEPT !.memory = "deleted"] ELSE obj[l]]
      /\ written' = [written EXCEPT !.coll = <<>>]
      /\ late' = FALSE /\ fresh' = FALSE
      /\ UNCHANGED <<placed, subset, wild>>
  BY DEF ClearLinks
<1>2. /\ LinkTypes /\ n \in Nat /\ coll.entries \in Seq(Link) /\ coll \in LinkColl
      /\ written \in [coll : Seq(LinkRow), subset : Seq(LinkIDs)]
  BY PartTypes DEF LinkInv, LinkTypes
<1>3. \A S : <<>> \in Seq(S)
  BY EmptySeq
<1>4. /\ c \in LinkColl /\ c.entries = <<>> /\ c.data = <<>> /\ ~c.prepared
  BY <1>2, <1>3 DEF LinkColl, Cleared
<1>5. /\ written' \in [coll : Seq(LinkRow), subset : Seq(LinkIDs)] /\ written'.coll = <<>>
      /\ written'.subset = written.subset
  BY <1>1, <1>2, <1>3
<1>6. ASSUME NEW l \in Link
      PROVE  obj'[l] \in LinkObj /\ obj'[l].index = untracked /\ ~obj'[l].hasID
  <2>1. obj[l] \in LinkObj /\ (obj[l].hasID => obj[l].index # untracked) /\ obj[l].hasID \in BOOLEAN
    BY <1>2, PartTypes DEF LinkInv, Numbered, LinkObj
  <2>2. CASE l \in Range(coll.entries)
    <3>1. obj'[l] = [NoObj EXCEPT !.memory = "deleted"]
      BY <1>1, <2>2
    <3> QED
      BY <3>1, LinkAssumption DEF NoObj, NewObj, LinkObj
  <2>3. CASE l \notin Range(coll.entries)
    <3>1. obj[l].index = untracked
      <4> SUFFICES ASSUME obj[l].index # untracked PROVE FALSE
        OBVIOUS
      <4>1. obj[l].index + 1 \in 1..n /\ coll.entries[obj[l].index + 1] = l
        BY DEF LinkInv, Numbered, n
      <4>2. coll.entries \in [1..n -> Link]
        BY <1>2, LenProperties
      <4> QED
        BY <2>3, <4>1, <4>2 DEF Range
    <3> QED
      BY <1>1, <2>1, <2>3, <3>1
  <2> QED
    BY <2>2, <2>3
<1> HIDE DEF n, c
<1>7. LinkTypes'
  <2>1. obj' \in [Link -> LinkObj]
    <3>1. obj' = [l \in Link |-> obj'[l]]
      BY <1>1
    <3> QED
      BY <3>1, <1>6
  <2> QED
    BY <1>1, <1>2, <1>4, <1>5, <2>1 DEF LinkTypes
<1>8. Len(<<>>) = 0
  BY EmptySeq
<1>9. Numbered(obj', c)
  BY <1>4, <1>6, <1>8 DEF Numbered
<1>10. BuffersMatch(c, written'.coll, FALSE)
  <2>1. Cardinality(Link) \in Nat
    BY LinkAssumption, FS_CardinalityType
  <2> QED
    BY <1>4, <1>8, <2>1 DEF BuffersMatch
<1>11. SubsetMatches(c, subset, written.subset)
  <2>1. ASSUME NEW i \in 1..Len(subset.refs), subset.refs[i][1] = "link" PROVE FALSE
    <3>1. /\ subset.refs[i][2] + 1 \in 1..n /\ coll.entries[subset.refs[i][2] + 1] = subset.entries[i]
          /\ Len(subset.refs) <= Len(subset.entries)
      BY <1>1, <2>1 DEF LinkInv, SubsetMatches, n
    <3>2. coll.entries \in [1..n -> Link]
      BY <1>2, LenProperties DEF n
    <3>3. /\ subset.entries \in [1..Len(subset.entries) -> Link \cup {Null}]
          /\ Len(subset.entries) \in Nat /\ Len(subset.refs) \in Nat
      BY <1>2, PartTypes, LenProperties
    <3>4. i \in 1..Len(subset.entries)
      BY <3>1, <3>3
    <3> DEFINE j == subset.refs[i][2] + 1
               e == subset.entries[i]
    <3>5. coll.entries[j] \in Range(coll.entries) /\ e \in Range(subset.entries) /\ coll.entries[j] = e
      BY <3>1, <3>2, <3>3, <3>4 DEF Range
    <3> QED
      BY <1>1, <3>5
  <2> QED
    BY <2>1 DEF LinkInv, SubsetMatches
<1> QED
  BY <1>1, <1>5, <1>7, <1>9, <1>10, <1>11, NotFresh DEF LinkInv

LEMMA ClearSubsetInv ==
  ASSUME LinkInv, ~wild, ClearSubset
  PROVE  LinkInv'
<1>1. /\ subset' = NewSubset /\ written' = [written EXCEPT !.subset = <<>>] /\ fresh' = FALSE
      /\ UNCHANGED <<obj, placed, coll, wild, late>>
  BY DEF ClearSubset
<1>2. written \in [coll : Seq(LinkRow), subset : Seq(LinkIDs)]
  BY DEF LinkInv, LinkTypes
<1>3. \A S : <<>> \in Seq(S) /\ Len(<<>>) = 0
  BY EmptySeq
<1>4. /\ written' \in [coll : Seq(LinkRow), subset : Seq(LinkIDs)] /\ written'.coll = written.coll
      /\ written'.subset = <<>>
  BY <1>1, <1>2, <1>3
<1>5. /\ NewSubset \in LinkSubset /\ ~NewSubset.prepared
      /\ Len(NewSubset.entries) = 0 /\ Len(NewSubset.refs) = 0
  BY <1>3 DEF LinkSubset, NewSubset
<1>6. LinkTypes'
  BY <1>1, <1>4, <1>5 DEF LinkInv, LinkTypes
<1>7. SubsetMatches(coll, NewSubset, written'.subset)
  BY <1>5 DEF SubsetMatches
<1> QED
  BY <1>1, <1>4, <1>6, <1>7, NotFresh DEF LinkInv, Numbered, BuffersMatch

\* What is written of the links of the collection.
LEMMA RowsProperties ==
  ASSUME LinkTypes
  PROVE  Rows \in Seq(LinkRow) /\ Len(Rows) = Len(coll.entries)
<1> DEFINE n == Len(coll.entries)
<1>1. n \in Nat /\ \A i \in 1..n : coll.entries[i] \in Link
  BY PartTypes
<1>2. ASSUME NEW i \in 1..n PROVE Row(coll.entries[i]) \in LinkRow
  <2> DEFINE o == obj[coll.entries[i]]
  <2>1. o \in LinkObj
    BY <1>1, <1>2, PartTypes
  <2> HIDE DEF o
  <2>2. o.weight \in Weight /\ o.from \in From \cup {Null} /\ o.to \in To \cup {Null}
    BY <2>1 DEF LinkObj
  <2>3. ObjectID(o.from) \in RelatedIDs(From) /\ ObjectID(o.to) \in RelatedIDs(To)
    BY <2>2 DEF ObjectID, RelatedIDs
  <2>4. Row(coll.entries[i]) = [weight |-> o.weight, from |-> ObjectID(o.from), to |-> ObjectID(o.to)]
    BY DEF Row, o
  <2> QED
    BY <2>2, <2>3, <2>4 DEF LinkRow
<1>3. Rows \in [1..n -> LinkRow]
  BY <1>2 DEF Rows
<1> QED
  BY <1>1, <1>3, RowsAreSeq

\* The buffers get a row for each link of the collection.
LEMMA PrepareInv ==
  ASSUME LinkInv, ~wild, Prepare
  PROVE  LinkInv'
<1> DEFINE n == Len(coll.entries)
           W == [i \in 1..Len(Rows) |-> Rows[i].weight]
           F == [i \in 1..Len(Rows) |-> Rows[i].from]
           T == [i \in 1..Len(Rows) |-> Rows[i].to]
           D == coll.data \o W
           c == [coll EXCEPT !.prepared = TRUE, !.data = D, !.from = F, !.to = T]
<1>1. /\ coll.here /\ ~coll.prepared /\ coll' = c
      /\ written' = [written EXCEPT !.coll = Rows]
      /\ UNCHANGED <<obj, placed, subset, wild, late, fresh>>
  BY DEF Prepare
<1>2. ~fresh
  BY <1>1 DEF LinkInv, FreshPrepared
<1>3. /\ LinkTypes /\ n \in Nat /\ coll.entries \in Seq(Link) /\ coll \in LinkColl
      /\ coll.data \in Seq(Weight) /\ Len(coll.data) = 0
      /\ written \in [coll : Seq(LinkRow), subset : Seq(LinkIDs)]
  BY <1>1, PartTypes DEF LinkInv, LinkTypes, BuffersMatch
<1>4. Rows \in Seq(LinkRow) /\ Len(Rows) = n /\ \A i \in 1..n : Rows[i] \in LinkRow
  BY <1>3, RowsProperties, ElementOfSeq
<1>5. \A i \in 1..n : Rows[i].weight \in Weight /\ Rows[i].from \in RelatedIDs(From)
                      /\ Rows[i].to \in RelatedIDs(To)
  BY <1>4 DEF LinkRow
<1>6. W \in [1..n -> Weight] /\ F \in [1..n -> RelatedIDs(From)] /\ T \in [1..n -> RelatedIDs(To)]
  BY <1>4, <1>5
<1>7. \A i \in 1..n : W[i] = Rows[i].weight /\ F[i] = Rows[i].from /\ T[i] = Rows[i].to
  BY <1>4
<1> HIDE DEF W, F, T, n
<1>8. /\ W \in Seq(Weight) /\ Len(W) = n /\ F \in Seq(RelatedIDs(From)) /\ Len(F) = n
      /\ T \in Seq(RelatedIDs(To)) /\ Len(T) = n
  BY <1>3, <1>6, RowsAreSeq
<1>9. D \in Seq(Weight) /\ Len(D) = n /\ \A i \in 1..n : D[i] = W[i]
  <2>1. coll.data = <<>>
    BY <1>3, EmptySeq
  <2>2. D = W
    BY <1>8, <2>1, ConcatEmptySeq
  <2> QED
    BY <1>8, <2>2
<1> HIDE DEF D
<1>10. /\ c \in LinkColl /\ c.entries = coll.entries /\ c.here = coll.here /\ c.hasID = coll.hasID
       /\ c.prepared /\ c.data = D /\ c.from = F /\ c.to = T
  BY <1>3, <1>8, <1>9 DEF LinkColl
<1>11. /\ written' \in [coll : Seq(LinkRow), subset : Seq(LinkIDs)] /\ written'.coll = Rows
       /\ written'.subset = written.subset
  BY <1>1, <1>3, <1>4
<1> HIDE DEF c
<1>12. LinkTypes'
  BY <1>1, <1>3, <1>10, <1>11 DEF LinkTypes
<1>13. BuffersMatch(c, Rows, late)
  <2>1. n <= Cardinality(Link)
    BY EntriesDistinct DEF LinkInv, n
  <2>2. \A i \in 1..n : c.data[i] = Rows[i].weight /\ c.from[i] = Rows[i].from /\ c.to[i] = Rows[i].to
    BY <1>7, <1>9, <1>10
  <2>3. Len(c.data) = n /\ Len(c.from) = n /\ Len(c.to) = n /\ Len(Rows) = n /\ Len(c.entries) = n
    BY <1>4, <1>8, <1>9, <1>10 DEF n
  <2> QED
    BY <1>10, <2>1, <2>2, <2>3 DEF BuffersMatch
<1>14. Numbered(obj, c) /\ SubsetMatches(c, subset, written.subset)
  BY <1>10 DEF LinkInv, Numbered, SubsetMatches
<1> QED
  BY <1>1, <1>2, <1>11, <1>12, <1>13, <1>14, NotFresh DEF LinkInv

\* The subset refers to links by their numbers in the collection.
LEMMA PrepareSubsetInv ==
  ASSUME LinkInv, ~wild, PrepareSubset
  PROVE  LinkInv'
<1> DEFINE n == Len(coll.entries)
           m == Len(subset.entries)
           R == [i \in 1..m |-> LinkID(subset.entries[i])]
           s == [subset EXCEPT !.prepared = TRUE, !.refs = R]
<1>1. /\ ~subset.prepared /\ subset' = s /\ written' = [written EXCEPT !.subset = subset'.refs]
      /\ UNCHANGED <<obj, placed, coll, wild, late, fresh>>
  BY DEF PrepareSubset
<1>2. ~fresh
  BY <1>1 DEF LinkInv, FreshPrepared
<1>3. /\ LinkTypes /\ n \in Nat /\ m \in Nat /\ subset \in LinkSubset
      /\ written \in [coll : Seq(LinkRow), subset : Seq(LinkIDs)]
  BY PartTypes DEF LinkInv, LinkTypes
<1>4. \A i \in 1..m : subset.entries[i] \in Link
  <2>1. subset.entries \in [1..m -> Link \cup {Null}]
    BY <1>3, PartTypes, LenProperties
  <2>2. \A i \in 1..m : subset.entries[i] # Null
    BY <1>1 DEF LinkInv, SubsetMatches
  <2> QED
    BY <2>1, <2>2
<1>5. ASSUME NEW i \in 1..m
      PROVE  /\ R[i] \in LinkIDs
             /\ R[i][1] = "link" => R[i][2] + 1 \in 1..n /\ coll.entries[R[i][2] + 1] = subset.entries[i]
  <2> DEFINE l == subset.entries[i]
  <2>1. l \in Link /\ obj[l] \in LinkObj
    BY <1>3, <1>4, PartTypes
  <2>2. R[i] = LinkID(l)
    OBVIOUS
  <2> HIDE DEF l, R
  <2>3. obj[l].index \in Nat \cup {untracked} /\ obj[l].hasID \in BOOLEAN
    BY <2>1 DEF LinkObj
  <2>4. CASE obj[l].hasID
    <3>1. /\ obj[l].index # untracked
          /\ obj[l].index + 1 \in 1..n /\ coll.entries[obj[l].index + 1] = l
      BY <2>1, <2>4 DEF LinkInv, Numbered
    <3>2. R[i] = <<"link", obj[l].index>>
      BY <2>2, <2>4 DEF LinkID
    <3> QED
      BY <2>3, <3>1, <3>2 DEF LinkIDs, l
  <2>5. CASE ~obj[l].hasID
    <3>1. R[i] = <<"untracked">>
      BY <2>2, <2>5 DEF LinkID
    <3> QED
      BY <3>1 DEF LinkIDs
  <2> QED
    BY <2>4, <2>5
<1>6. R \in Seq(LinkIDs) /\ Len(R) = m
  <2>1. R \in [1..m -> LinkIDs]
    BY <1>5
  <2> QED
    BY <1>3, <2>1, RowsAreSeq
<1> HIDE DEF R
<1>7. s \in LinkSubset /\ s.prepared /\ s.refs = R /\ s.entries = subset.entries
  BY <1>3, <1>6 DEF LinkSubset
<1>8. /\ written' \in [coll : Seq(LinkRow), subset : Seq(LinkIDs)] /\ written'.coll = written.coll
      /\ written'.subset = R
  BY <1>1, <1>3, <1>6, <1>7
<1> HIDE DEF s
<1>9. LinkTypes'
  BY <1>1, <1>3, <1>7, <1>8 DEF LinkTypes
<1>10. SubsetMatches(coll, s, R)
  <2>1. Len(s.refs) = m /\ Len(s.entries) = m /\ m <= m
    BY <1>3, <1>6, <1>7
  <2> QED
    BY <1>5, <1>7, <2>1 DEF SubsetMatches
<1> QED
  BY <1>1, <1>2, <1>8, <1>9, <1>10, NotFresh DEF LinkInv

-----------------------------------------------------------------------------
\* What an ObjectID is resolved to.
LEMMA ResolvedProperties ==
  ASSUME NEW S, NEW id \in RelatedIDs(S), NEW available
  PROVE  /\ Resolved(id, available) \in S \cup {Null}
         /\ id[1] = "object" /\ id[2] \in available => id = <<"object", Resolved(id, available)>>
         /\ ~(id[1] = "object" /\ id[2] \in available) => Resolved(id, available) = Null
<1>1. CASE \E x \in S : id = <<"object", x>>
  BY <1>1 DEF Resolved
<1>2. CASE id = <<"invalid">> \/ id = <<"untracked">>
  <2>1. id[1] # "object"
    BY <1>2
  <2> QED
    BY <2>1 DEF Resolved
<1> QED
  BY <1>1, <1>2 DEF RelatedIDs

\* The links and the subset after reading, in terms of the buffers.
ReadLinks(available, here) ==
    /\ \A i \in 1..Len(coll.data) : here => obj'[NewLinks[i]] = ReadRow(i, available)
    /\ \A l \in Link : (here /\ l \in Range(NewLinks)) \/ obj'[l] = NoObj

LEMMA ReadBackLinks ==
  ASSUME LinkInv, ~wild, NEW available \in SUBSET placed, NEW here \in BOOLEAN, ReadBack(available, here)
  PROVE  ReadLinks(available, here)
<1> DEFINE m == Len(coll.data)
<1>1. /\ m \in Nat /\ NewLinks \in Seq(Link) /\ Len(NewLinks) = m
      /\ \A i \in 1..m : NewLinks[i] \in Link
      /\ \A i, j \in 1..m : NewLinks[i] = NewLinks[j] => i = j
  BY PartTypes, NewLinksDistinct DEF LinkInv, BuffersMatch
<1>2. \A i \in 1..m : NewLinks[i] \in Range(NewLinks)
  BY <1>1, LenProperties DEF Range
<1>3. obj' = [l \in Link |->
                  IF here /\ l \in Range(NewLinks)
                  THEN ReadRow(CHOOSE i \in 1..Len(NewLinks) : NewLinks[i] = l, available)
                  ELSE NoObj]
  BY DEF ReadBack
<1>4. ASSUME NEW i \in 1..m, here PROVE obj'[NewLinks[i]] = ReadRow(i, available)
  <2> DEFINE l == NewLinks[i]
             k == CHOOSE j \in 1..Len(NewLinks) : NewLinks[j] = l
  <2>1. l \in Link /\ l \in Range(NewLinks)
    BY <1>1, <1>2
  <2>2. k \in 1..m /\ NewLinks[k] = l
    BY <1>1
  <2>3. k = i
    BY <1>1, <2>2
  <2>4. obj'[l] = ReadRow(k, available)
    BY <1>3, <1>4, <2>1
  <2> QED
    BY <2>3, <2>4
<1>5. \A l \in Link : (here /\ l \in Range(NewLinks)) \/ obj'[l] = NoObj
  BY <1>3
<1> QED
  BY <1>4, <1>5 DEF ReadLinks

\* A row of the buffers is a link like the one that was written.
LEMMA ReadRowProperties ==
  ASSUME LinkInv, coll.here, coll.prepared, NEW available, NEW i \in 1..Len(coll.data)
  PROVE  LET o == ReadRow(i, available)
             w == written.coll[i]
             There(id) == id[1] = "object" /\ id[2] \in available
         IN /\ o \in LinkObj /\ o.memory = "live" /\ o.index = i - 1 /\ o.hasID = TRUE
            /\ o.weight = w.weight
            /\ IF There(w.from) THEN w.from = <<"object", o.from>> ELSE o.from = Null
            /\ IF There(w.to) THEN w.to = <<"object", o.to>> ELSE o.to = Null
<1> DEFINE F == Resolved(coll.from[i], available)
           T == Resolved(coll.to[i], available)
           w == written.coll[i]
<1>1. /\ LinkTypes /\ Len(coll.data) \in Nat
      /\ Len(coll.from) = Len(coll.data) /\ Len(coll.to) = Len(coll.data)
      /\ coll.data[i] = w.weight /\ coll.from[i] = w.from /\ coll.to[i] = w.to
  BY PartTypes DEF LinkInv, BuffersMatch
<1>2. /\ coll.data[i] \in Weight
      /\ coll.from[i] \in RelatedIDs(From) /\ coll.to[i] \in RelatedIDs(To)
  BY <1>1, PartTypes, ElementOfSeq
<1>3. /\ F \in From \cup {Null}
      /\ IF w.from[1] = "object" /\ w.from[2] \in available THEN w.from = <<"object", F>> ELSE F = Null
  BY <1>1, <1>2, ResolvedProperties
<1>4. /\ T \in To \cup {Null}
      /\ IF w.to[1] = "object" /\ w.to[2] \in available THEN w.to = <<"object", T>> ELSE T = Null
  BY <1>1, <1>2, ResolvedProperties
<1> HIDE DEF F, T, w
<1>5. ReadRow(i, available) = [NewObj EXCEPT !.index = i - 1, !.hasID = TRUE, !.weight = coll.data[i],
                                             !.from = F, !.to = T]
  BY DEF ReadRow, F, T
<1>6. /\ ReadRow(i, available) \in LinkObj /\ ReadRow(i, available).memory = "live"
      /\ ReadRow(i, available).index = i - 1 /\ ReadRow(i, available).hasID = TRUE
      /\ ReadRow(i, available).weight = coll.data[i]
      /\ ReadRow(i, available).from = F /\ ReadRow(i, available).to = T
  <2>1. ReadRow(i, available) = [memory |-> "live", index |-> i - 1, hasID |-> TRUE,
                                 weight |-> coll.data[i], from |-> F, to |-> T]
    BY <1>5 DEF NewObj
  <2>2. i - 1 \in Nat
    BY <1>1
  <2> QED
    BY <1>2, <1>3, <1>4, <2>1, <2>2 DEF LinkObj
<1> QED
  BY <1>1, <1>3, <1>4, <1>6 DEF w

\* The collections that are read: the links are numbered, the buffers still
\* match them, and the subset refers to them.
LEMMA ReadBackInv ==
  ASSUME LinkInv, ~wild, NEW available \in SUBSET placed, NEW here \in BOOLEAN, ReadBack(available, here)
  PROVE  LinkInv'
<1> DEFINE m == Len(coll.data)
           N == NewLinks
           E == IF here THEN N ELSE <<>>
           P == Len(subset.refs)
           S == [i \in 1..P |-> IF here /\ subset.refs[i][1] = "link"
                                THEN N[subset.refs[i][2] + 1] ELSE Null]
           c == [coll EXCEPT !.here = here, !.entries = E]
           s == [subset EXCEPT !.entries = S]
<1>1. /\ coll.here => coll.prepared /\ coll.hasID
      /\ subset.prepared
      /\ here => coll.here /\ InRange
      /\ placed' = available /\ coll' = c /\ subset' = s
      /\ obj' = [l \in Link |-> obj'[l]]
      /\ fresh' = TRUE /\ late' = FALSE
      /\ UNCHANGED <<wild, written>>
  BY DEF ReadBack, Written
<1>2. /\ LinkTypes /\ m \in Nat /\ P \in Nat /\ coll \in LinkColl /\ subset \in LinkSubset
      /\ subset.refs \in Seq(LinkIDs) /\ \A i \in 1..P : subset.refs[i] \in LinkIDs
      /\ placed \subseteq From \cup To
  BY PartTypes DEF LinkInv, LinkTypes
<1>3. /\ N \in Seq(Link) /\ Len(N) = m
      /\ \A i \in 1..m : N[i] \in Link /\ N[i] \in Range(N)
      /\ \A l \in Range(N) : \E i \in 1..m : l = N[i]
  <2>1. N \in Seq(Link) /\ Len(N) = m /\ \A i \in 1..m : N[i] \in Link
    BY <1>2, NewLinksDistinct DEF LinkInv, BuffersMatch
  <2>2. N \in [1..m -> Link]
    BY <2>1, LenProperties
  <2> HIDE DEF N
  <2> QED
    BY <2>1, <2>2 DEF Range
<1>4. here => coll.here /\ coll.prepared /\ coll.hasID
  BY <1>1
<1>5. /\ \A i \in 1..m : here => obj'[N[i]] = ReadRow(i, available)
      /\ \A l \in Link : (here /\ l \in Range(N)) \/ obj'[l] = NoObj
  BY ReadBackLinks DEF ReadLinks
<1>6. ASSUME NEW i \in 1..m, here
      PROVE  LET o == obj'[N[i]]
                 w == written.coll[i]
                 There(id) == id[1] = "object" /\ id[2] \in available
             IN /\ o \in LinkObj /\ o.memory = "live" /\ o.index = i - 1 /\ o.hasID = TRUE
                /\ o.weight = w.weight
                /\ IF There(w.from) THEN w.from = <<"object", o.from>> ELSE o.from = Null
                /\ IF There(w.to) THEN w.to = <<"object", o.to>> ELSE o.to = Null
  <2>1. obj'[N[i]] = ReadRow(i, available)
    BY <1>5, <1>6
  <2>2. coll.here /\ coll.prepared /\ i \in 1..Len(coll.data)
    BY <1>4, <1>6
  <2>3. LET o == ReadRow(i, available)
            w == written.coll[i]
            There(id) == id[1] = "object" /\ id[2] \in available
        IN /\ o \in LinkObj /\ o.memory = "live" /\ o.index = i - 1 /\ o.hasID = TRUE
           /\ o.weight = w.weight
           /\ IF There(w.from) THEN w.from = <<"object", o.from>> ELSE o.from = Null
           /\ IF There(w.to) THEN w.to = <<"object", o.to>> ELSE o.to = Null
    BY <2>2, ReadRowProperties
  <2> QED
    BY <2>1, <2>3
<1>7. ASSUME NEW l \in Link, ~(here /\ l \in Range(N))
      PROVE  obj'[l] \in LinkObj /\ obj'[l].index = untracked /\ ~obj'[l].hasID
  <2>1. obj'[l] = NoObj
    BY <1>5, <1>7
  <2> QED
    BY <2>1, LinkAssumption DEF NoObj, NewObj, LinkObj
<1> HIDE DEF N
<1>8. E \in Seq(Link) /\ Len(E) = (IF here THEN m ELSE 0)
  BY <1>3, EmptySeq
<1>9. ASSUME NEW i \in 1..P, here, subset.refs[i][1] = "link"
      PROVE  /\ subset.refs[i][2] \in Nat /\ subset.refs[i][2] + 1 \in 1..m
             /\ subset.refs[i] = <<"link", subset.refs[i][2]>>
  <2> DEFINE id == subset.refs[i]
  <2>1. id \in LinkIDs
    BY <1>2
  <2>2. id \in Range(subset.refs)
    <3>1. subset.refs \in [1..P -> LinkIDs]
      BY <1>2, LenProperties
    <3> QED
      BY <3>1 DEF Range
  <2>3. InRange
    BY <1>1, <1>9
  <2> HIDE DEF id
  <2>4. id[1] = "link"
    BY <1>9 DEF id
  <2>5. id # <<"untracked">> /\ \E k \in Nat : id = <<"link", k>>
    BY <2>1, <2>4 DEF LinkIDs
  <2>6. id[2] < m
    BY <2>2, <2>3, <2>5 DEF InRange
  <2>7. id[2] \in Nat /\ id[2] + 1 \in 1..m /\ id = <<"link", id[2]>>
    BY <1>2, <2>5, <2>6
  <2> QED
    BY <2>7 DEF id
<1>10. /\ S \in Seq(Link \cup {Null}) /\ Len(S) = P
       /\ \A i \in 1..P : S[i] = IF here /\ subset.refs[i][1] = "link"
                                 THEN N[subset.refs[i][2] + 1] ELSE Null
  <2>1. S \in [1..P -> Link \cup {Null}]
    BY <1>3, <1>9
  <2> QED
    BY <1>2, <2>1, RowsAreSeq
<1> HIDE DEF E, S
<1>11. /\ c \in LinkColl /\ c.entries = E /\ c.here = here /\ c.hasID = coll.hasID
       /\ c.prepared = coll.prepared /\ c.data = coll.data /\ c.from = coll.from /\ c.to = coll.to
  BY <1>2, <1>8 DEF LinkColl
<1>12. s \in LinkSubset /\ s.entries = S /\ s.prepared /\ s.refs = subset.refs
  BY <1>1, <1>2, <1>10 DEF LinkSubset
<1> HIDE DEF c, s
<1>13. LinkTypes'
  <2>1. ASSUME NEW l \in Link PROVE obj'[l] \in LinkObj
    <3>1. CASE here /\ l \in Range(N)
      BY <1>3, <1>6, <3>1
    <3>2. CASE ~(here /\ l \in Range(N))
      BY <1>7, <3>2
    <3> QED
      BY <3>1, <3>2
  <2>2. obj' \in [Link -> LinkObj]
    BY <1>1, <2>1
  <2> QED
    BY <1>1, <1>2, <1>11, <1>12, <2>2 DEF LinkTypes
<1>14. Numbered(obj', c)
  <2>1. CASE here
    <3>1. c.entries = N /\ Len(c.entries) = m /\ c.hasID = TRUE
      BY <1>3, <1>4, <1>11, <2>1 DEF E, LinkColl
    <3>2. \A i \in 1..m : /\ obj'[N[i]].memory = "live" /\ obj'[N[i]].index = i - 1
                          /\ obj'[N[i]].hasID = TRUE
      BY <1>6, <2>1
    <3>3. ASSUME NEW l \in Link
          PROVE  /\ obj'[l].index # untracked => obj'[l].index + 1 \in 1..m /\ N[obj'[l].index + 1] = l
                 /\ obj'[l].hasID => obj'[l].index # untracked
      <4>1. CASE l \in Range(N)
        <5>1. PICK i \in 1..m : l = N[i]
          BY <1>3, <4>1
        <5>2. obj'[l].index = i - 1
          BY <3>2, <5>1
        <5> QED
          BY <1>2, <5>1, <5>2 DEF untracked
      <4>2. CASE l \notin Range(N)
        BY <1>7, <4>2
      <4> QED
        BY <4>1, <4>2
    <3> QED
      BY <1>11, <2>1, <3>1, <3>2, <3>3 DEF Numbered
  <2>2. CASE ~here
    <3>1. Len(c.entries) = 0
      BY <1>8, <1>11, <2>2
    <3> QED
      BY <1>7, <2>2, <3>1 DEF Numbered
  <2> QED
    BY <2>1, <2>2
<1>15. BuffersMatch(c, written.coll, FALSE)
  <2>1. BuffersMatch(coll, written.coll, late)
    BY DEF LinkInv
  <2>2. here => Len(c.data) = Len(c.entries)
    BY <1>8, <1>11
  <2> QED
    BY <1>11, <2>1, <2>2 DEF BuffersMatch
<1>16. SubsetMatches(c, s, written.subset)
  <2>1. s.refs = written.subset
    BY <1>1, <1>12 DEF LinkInv, SubsetMatches
  <2>2. ASSUME NEW i \in 1..P, here, subset.refs[i][1] = "link"
        PROVE  subset.refs[i][2] + 1 \in 1..Len(E) /\ E[subset.refs[i][2] + 1] = S[i]
    <3>1. subset.refs[i][2] + 1 \in 1..m /\ Len(E) = m
      BY <1>8, <1>9, <2>2
    <3>2. E = N
      BY <2>2 DEF E
    <3>3. S[i] = N[subset.refs[i][2] + 1]
      BY <1>10, <2>2
    <3> QED
      BY <3>1, <3>2, <3>3
  <2>3. Len(s.refs) = P /\ Len(s.entries) = P /\ P <= P
    BY <1>2, <1>10, <1>12
  <2> QED
    BY <1>11, <1>12, <2>1, <2>2, <2>3 DEF SubsetMatches
<1>17. FreshPrepared(c, s)
  BY <1>4, <1>11, <1>12 DEF FreshPrepared
<1>18. RoundTrip'
  <2>1. here => Len(E) = Len(written.coll) /\ Len(written.coll) = m /\ E = N
    BY <1>4, <1>8 DEF LinkInv, BuffersMatch, E
  <2>2. subset.refs = written.subset
    BY <1>1 DEF LinkInv, SubsetMatches
  <2>3. Len(S) = Len(written.subset) /\ Len(written.subset) = P
    BY <1>10, <2>2
  <2>4. ASSUME NEW i \in 1..P
        PROVE  LET id == written.subset[i]
                   l == S[i]
               IN IF here /\ id[1] = "link"
                  THEN l \in Range(E) /\ obj'[l].hasID /\ <<"link", obj'[l].index>> = id
                  ELSE l = Null
    <3>1. CASE here /\ subset.refs[i][1] = "link"
      <4> DEFINE k == subset.refs[i][2]
      <4>1. k \in Nat /\ k + 1 \in 1..m /\ subset.refs[i] = <<"link", k>>
        BY <1>9, <3>1
      <4> HIDE DEF k
      <4>2. S[i] = N[k + 1]
        BY <1>10, <3>1 DEF k
      <4>3. obj'[N[k + 1]].index = (k + 1) - 1 /\ obj'[N[k + 1]].hasID = TRUE
        BY <1>6, <3>1, <4>1
      <4>4. N[k + 1] \in Range(E)
        BY <1>3, <2>1, <3>1, <4>1
      <4> QED
        BY <2>2, <3>1, <4>1, <4>2, <4>3, <4>4
    <3>2. CASE ~(here /\ subset.refs[i][1] = "link")
      BY <1>10, <2>2, <3>2
    <3> QED
      BY <3>1, <3>2
  <2>5. ASSUME here, NEW i \in 1..Len(written.coll)
        PROVE  LET o == obj'[E[i]]
                   w == written.coll[i]
                   There(id) == id[1] = "object" /\ id[2] \in available
               IN /\ o.weight = w.weight
                  /\ IF There(w.from) THEN w.from = <<"object", o.from>> ELSE o.from = Null
                  /\ IF There(w.to) THEN w.to = <<"object", o.to>> ELSE o.to = Null
    <3>1. i \in 1..m /\ E[i] = N[i]
      BY <2>1, <2>5
    <3>2. LET o == obj'[N[i]]
              w == written.coll[i]
              There(id) == id[1] = "object" /\ id[2] \in available
          IN /\ o.weight = w.weight
             /\ IF There(w.from) THEN w.from = <<"object", o.from>> ELSE o.from = Null
             /\ IF There(w.to) THEN w.to = <<"object", o.to>> ELSE o.to = Null
      BY <1>6, <2>5, <3>1
    <3> QED
      BY <3>1, <3>2
  <2>6. coll'.here = here /\ coll'.entries = E /\ subset'.entries = S /\ written' = written
        /\ placed' = available /\ ~wild'
    BY <1>1, <1>11, <1>12
  <2> QED
    BY <2>1, <2>3, <2>4, <2>5, <2>6 DEF RoundTrip, LinkID
<1> QED
  BY <1>1, <1>13, <1>14, <1>15, <1>16, <1>17, <1>18 DEF LinkInv

\* The subset only refers behind the end of the collection if links came late.
LEMMA ReadBackWildInv ==
  ASSUME LinkInv, ~wild, ReadBackWild
  PROVE  LinkInv'
<1>1. /\ coll.here /\ coll.prepared /\ ~InRange /\ wild' = TRUE
      /\ UNCHANGED <<obj, placed, coll, subset, written, late, fresh>>
  BY DEF ReadBackWild, Written
<1>2. late
  <2> SUFFICES ASSUME ~late PROVE FALSE
    OBVIOUS
  <2>1. Len(coll.data) = Len(coll.entries) /\ Len(coll.data) \in Nat
    BY <1>1, PartTypes DEF LinkInv, BuffersMatch
  <2>2. PICK id \in Range(subset.refs) \ {<<"untracked">>} : ~(id[2] < Len(coll.data))
    BY <1>1 DEF InRange
  <2>3. PICK i \in 1..Len(subset.refs) : id = subset.refs[i]
    BY <2>2, PartTypes, LenProperties DEF LinkInv, Range
  <2>4. id \in LinkIDs
    BY <2>3, PartTypes DEF LinkInv
  <2>5. PICK k \in Nat : id = <<"link", k>>
    BY <2>2, <2>4 DEF LinkIDs
  <2>6. k + 1 \in 1..Len(coll.entries)
    <3>1. subset.refs[i][1] = "link" /\ subset.refs[i][2] = k
      BY <2>3, <2>5
    <3>2. SubsetMatches(coll, subset, written.subset)
      BY DEF LinkInv
    <3> QED
      BY <1>1, <3>1, <3>2 DEF SubsetMatches
  <2> QED
    BY <2>1, <2>2, <2>5, <2>6
<1>3. LinkTypes'
  BY <1>1 DEF LinkInv, LinkTypes
<1>4. RoundTrip'
  BY <1>1, <1>2 DEF LinkInv, RoundTrip, LinkID
<1> QED
  BY <1>1, <1>3, <1>4 DEF LinkInv, Numbered, BuffersMatch, SubsetMatches, FreshPrepared

-----------------------------------------------------------------------------
\* The invariant holds of new collections, and every step keeps it.
LEMMA LinkInvStarts == LinkInit => LinkInv
<1> SUFFICES ASSUME LinkInit PROVE LinkInv
  OBVIOUS
<1>1. /\ obj = [l \in Link |-> NoObj] /\ placed = {} /\ coll = NewColl /\ subset = NewSubset
      /\ wild = FALSE /\ written = [coll |-> <<>>, subset |-> <<>>] /\ late = FALSE /\ fresh = FALSE
  BY DEF LinkInit
<1>2. \A S : <<>> \in Seq(S) /\ Len(<<>>) = 0
  BY EmptySeq
<1>3. NoObj \in LinkObj /\ NoObj.index = untracked /\ ~NoObj.hasID
  BY LinkAssumption DEF NoObj, NewObj, LinkObj
<1>4. NewColl \in LinkColl /\ NewSubset \in LinkSubset
  BY <1>2 DEF NewColl, NewSubset, LinkColl, LinkSubset
<1>5. LinkTypes
  BY <1>1, <1>2, <1>3, <1>4 DEF LinkTypes
<1>6. Numbered(obj, coll)
  BY <1>1, <1>2, <1>3 DEF Numbered, NewColl
<1>7. Cardinality(Link) \in Nat
  BY LinkAssumption, FS_CardinalityType
<1>8. BuffersMatch(coll, written.coll, late) /\ SubsetMatches(coll, subset, written.subset)
  BY <1>1, <1>2, <1>7 DEF BuffersMatch, SubsetMatches, NewColl, NewSubset
<1>9. RoundTrip
  BY <1>1 DEF RoundTrip
<1> QED
  BY <1>1, <1>5, <1>6, <1>8, <1>9 DEF LinkInv

LEMMA LinkInvStays == LinkInv /\ [LinkNext]_linkVars => LinkInv'
<1> SUFFICES ASSUME LinkInv, [LinkNext]_linkVars PROVE LinkInv'
  OBVIOUS
<1>1. CASE UNCHANGED linkVars
  <2>1. UNCHANGED <<obj, placed, coll, subset, wild, written, late, fresh>>
    BY <1>1 DEF linkVars
  <2>2. LinkTypes' /\ Numbered(obj, coll)'
    BY <2>1 DEF LinkInv, LinkTypes, Numbered
  <2>3. BuffersMatch(coll, written.coll, late)' /\ SubsetMatches(coll, subset, written.subset)'
    BY <2>1 DEF LinkInv, BuffersMatch, SubsetMatches
  <2>4. (fresh => FreshPrepared(coll, subset))'
    BY <2>1 DEF LinkInv, FreshPrepared
  <2>5. RoundTrip'
    BY <2>1 DEF LinkInv, RoundTrip, LinkID
  <2> QED
    BY <2>2, <2>3, <2>4, <2>5 DEF LinkInv
<1>2. CASE LinkNext
  <2>1. ~wild
    BY <1>2 DEF LinkNext
  <2>2. ASSUME NEW l \in Link,
               \/ MakeLink(l)
               \/ \E k \in Link, cloneRelations \in BOOLEAN : Clone(l, k, cloneRelations)
               \/ \E x \in From \cup To : SetRelation(l, x)
               \/ \E w \in Weight : SetWeight(l, w)
               \/ CreateLink(l)
               \/ PushBackLink(l)
               \/ PushBackTracked(l)
        PROVE  LinkInv'
    BY <2>1, <2>2, MakeLinkInv, CloneInv, SetRelationInv, SetWeightInv, CreateInv, PushBackInv,
       PushBackTrackedInv
  <2>3. ASSUME NEW x \in From \cup To, Place(x) PROVE LinkInv'
    BY <2>1, <2>3, PlaceInv
  <2>4. ASSUME NEW available \in SUBSET placed, NEW here \in BOOLEAN, ReadBack(available, here)
        PROVE  LinkInv'
    BY <2>1, <2>4, ReadBackInv
  <2>5. SetID \/ ClearLinks \/ ClearSubset \/ Prepare \/ PrepareSubset \/ ReadBackWild => LinkInv'
    BY <2>1, SetIDInv, ClearInv, ClearSubsetInv, PrepareInv, PrepareSubsetInv, ReadBackWildInv
  <2> QED
    BY <1>2, <2>2, <2>3, <2>4, <2>5 DEF LinkNext
<1> QED
  BY <1>1, <1>2

LEMMA LinkInvHolds == LinkSpec => []LinkInv
  BY LinkInvStarts, LinkInvStays, PTL DEF LinkSpec

\* The links of a collection are alive, numbered by their position and have
\* its ID (LinkCollectionImpl.h, setID and push_back), for any number of links
\* that are pushed before and after it got the ID, cleared or read.
THEOREM LinksStayNumbered == LinkSpec => []LinksNumbered
<1>1. LinkInv => LinksNumbered
  BY PartTypes DEF LinkInv, LinkTypes, LinkObj, Numbered, LinksNumbered
<1> QED
  BY <1>1, LinkInvHolds, PTL

\* What is read is what the link collection and its subset were prepared with,
\* whichever collections are missing (LinkCollectionData.h, setReferences), and
\* the subset only refers behind the end of the collection that is read if
\* links were added after it had been prepared.
THEOREM LinksReadBack == LinkSpec => []RoundTrip
<1>1. LinkInv => RoundTrip
  BY DEF LinkInv
<1> QED
  BY <1>1, LinkInvHolds, PTL

-----------------------------------------------------------------------------
\* A non-empty set of natural numbers has a least one.
LEMMA LeastNumber ==
  ASSUME NEW S \in SUBSET Nat, S # {}
  PROVE  \E m \in S : \A k \in S : m <= k
<1> DEFINE R == OpToRel(<, Nat)
<1>1. IsWellFoundedOn(R, Nat)
  BY NatLessThanWellFounded
<1>2. ASSUME NEW k \in Nat, NEW m \in Nat, k < m
      PROVE  <<k, m>> \in R
  BY <1>2 DEF OpToRel
<1> HIDE DEF R
<1>3. PICK m \in S : \A k \in S : <<k, m>> \notin R
  BY <1>1, WFMin
<1>4. \A k \in S : ~(k < m)
  BY <1>2, <1>3
<1>5. \A k \in S : m <= k
  BY <1>4
<1> QED
  BY <1>5

\* A set with 0 and the successors of its numbers has all natural numbers.
LEMMA Induction ==
  ASSUME NEW S, 0 \in S, \A n \in Nat : n \in S => n + 1 \in S
  PROVE  \A n \in Nat : n \in S
<1> SUFFICES ASSUME Nat \ S # {}
             PROVE  FALSE
  OBVIOUS
<1>1. PICK m \in Nat \ S : \A k \in Nat \ S : m <= k
  BY LeastNumber
<1>2. m # 0 /\ m - 1 \in Nat /\ m - 1 \in S
  BY <1>1
<1> QED
  BY <1>1, <1>2

\* The navigator without links, and the type of one.
NoLinks == [from2to |-> [x \in From \cup {Null} |-> <<>>],
            to2from |-> [x \in To \cup {Null} |-> <<>>]]
Navigators ==
    [from2to : [From \cup {Null} -> Seq((To \cup {Null}) \X Weight)],
     to2from : [To \cup {Null} -> Seq((From \cup {Null}) \X Weight)]]

\* Per set of the first n positions, the navigator of the links at these.
NavigatorsOf(links, n) ==
    CHOOSE g : g = [s \in SUBSET (1..n) |->
        IF s = {} THEN NoLinks ELSE AddLink(g[s \ {Max(s)}], links[Max(s)])]

LEMMA NavigatorIs ==
  ASSUME NEW links \in Seq(Link)
  PROVE  LinkNavigator(links) = NavigatorsOf(links, Len(links))[1..Len(links)]
<1>1. DOMAIN links = 1..Len(links)
  OBVIOUS
<1>2. LinkNavigator(links) =
           LET g == CHOOSE g : g = [s \in SUBSET (DOMAIN links) |->
                IF s = {} THEN NoLinks ELSE AddLink(g[s \ {Max(s)}], links[Max(s)])]
           IN g[DOMAIN links]
  BY DEF LinkNavigator, FoldLeft, MapThenFoldSet, NoLinks
<1> QED
  BY <1>1, <1>2, Zenon DEF NavigatorsOf

\* The last position is the largest.
LEMMA LastIsMax ==
  ASSUME NEW k \in Nat, NEW s \in SUBSET (1..k+1), k + 1 \in s
  PROVE  Max(s) = k + 1
<1>1. \A y \in s : k + 1 >= y
  OBVIOUS
<1>2. \E x \in s : \A y \in s : x >= y
  BY <1>1
<1>3. Max(s) \in s /\ \A y \in s : Max(s) >= y
  BY <1>2, Zenon DEF Max
<1>4. \A m \in s : (\A y \in s : m >= y) => m = k + 1
  OBVIOUS
<1> QED
  BY <1>3, <1>4, Zenon

\* The links are added one after the other.
LEMMA NavigatorStep ==
  ASSUME NEW links, NEW n \in Nat
  PROVE  LET g == NavigatorsOf(links, n) IN
         /\ g[1..0] = NoLinks
         /\ \A k \in 0..n-1 : g[1..k+1] = AddLink(g[1..k], links[k+1])
<1> DEFINE Is(g, k) == g = [s \in SUBSET (1..k) |->
                         IF s = {} THEN NoLinks ELSE AddLink(g[s \ {Max(s)}], links[Max(s)])]
           S == {k \in Nat : \E g : Is(g, k)}
           g == NavigatorsOf(links, n)
<1>1. 0 \in S
  <2>1. Is([s \in SUBSET (1..0) |-> NoLinks], 0)
    <3>1. \A s \in SUBSET (1..0) : s = {}
      OBVIOUS
    <3> QED
      BY <3>1
  <2> QED
    BY <2>1
<1>2. ASSUME NEW k \in Nat, k \in S
      PROVE  k + 1 \in S
  <2>1. PICK f : Is(f, k)
    BY <1>2
  <2> DEFINE h == [s \in SUBSET (1..k+1) |->
                     IF k + 1 \in s THEN AddLink(f[s \ {k+1}], links[k+1]) ELSE f[s]]
             R(s) == IF s = {} THEN NoLinks ELSE AddLink(h[s \ {Max(s)}], links[Max(s)])
  <2>2. ASSUME NEW s \in SUBSET (1..k+1), k + 1 \in s
        PROVE  h[s] = R(s)
    <3>1. Max(s) = k + 1
      BY <2>2, LastIsMax
    <3>2. h[s \ {k+1}] = f[s \ {k+1}]
      OBVIOUS
    <3>3. h[s] = AddLink(f[s \ {k+1}], links[k+1])
      BY <2>2
    <3> HIDE DEF h
    <3> QED
      BY <2>2, <3>1, <3>2, <3>3, Zenon
  <2>3. ASSUME NEW s \in SUBSET (1..k+1), k + 1 \notin s
        PROVE  h[s] = R(s)
    <3>1. s \in SUBSET (1..k) /\ s \ {Max(s)} \in SUBSET (1..k)
      <4>1. \A i \in s : i \in 1..k
        BY <2>3
      <4> QED
        BY <4>1
    <3>2. h[s] = f[s]
      BY <2>3
    <3>3. h[s \ {Max(s)}] = f[s \ {Max(s)}]
      BY <2>3
    <3>4. f[s] = IF s = {} THEN NoLinks ELSE AddLink(f[s \ {Max(s)}], links[Max(s)])
      BY <2>1, <3>1, Zenon
    <3> HIDE DEF h
    <3> QED
      BY <3>2, <3>3, <3>4, Zenon
  <2>4. h = [s \in SUBSET (1..k+1) |-> h[s]]
    OBVIOUS
  <2>5. Is(h, k+1)
    <3>1. \A s \in SUBSET (1..k+1) : h[s] = R(s)
      BY <2>2, <2>3
    <3> HIDE DEF h
    <3> QED
      BY <2>4, <3>1
  <2> HIDE DEF h, Is
  <2> QED
    BY <2>5
<1>3. n \in S
  <2> HIDE DEF S
  <2> QED
    BY <1>1, <1>2, Induction
<1>4. Is(g, n)
  <2>1. \E f : Is(f, n)
    BY <1>3
  <2> QED
    BY <2>1, Zenon DEF NavigatorsOf
<1> HIDE DEF g
<1>5. g[1..0] = NoLinks
  <2>1. 1..0 = {} /\ 1..0 \in SUBSET (1..n)
    OBVIOUS
  <2> QED
    BY <1>4, <2>1, Zenon
<1>6. ASSUME NEW k \in 0..n-1
      PROVE  g[1..k+1] = AddLink(g[1..k], links[k+1])
  <2>1. /\ 1..k+1 \in SUBSET (1..n) /\ 1..k+1 # {}
        /\ (1..k+1) \ {k+1} = 1..k
        /\ k \in Nat /\ 1..k+1 \in SUBSET (1..k+1) /\ k + 1 \in 1..k+1
    <3>1. k \in Nat /\ k + 1 \in 1..k+1 /\ \A i \in 1..k+1 : i \in 1..n
      OBVIOUS
    <3>2. ASSUME NEW i
          PROVE  i \in (1..k+1) \ {k+1} <=> i \in 1..k
      <4>1. CASE i \in Int
        BY <3>1, <4>1
      <4>2. CASE i \notin Int
        BY <3>1, <4>2
      <4> QED
        BY <4>1, <4>2
    <3> QED
      BY <3>1, <3>2
  <2>2. Max(1..k+1) = k + 1
    BY <2>1, LastIsMax
  <2> QED
    BY <1>4, <2>1, <2>2, Zenon
<1> QED
  BY <1>5, <1>6 DEF g

\* One more position: the matching ones are as many as before, or one more.
LEMMA OneMore ==
  ASSUME NEW n \in Nat, NEW A \in SUBSET (1..n), NEW B, NEW C,
         B = A \cup (IF C THEN {n+1} ELSE {})
  PROVE  Cardinality(B) = Cardinality(A) + IF C THEN 1 ELSE 0
<1>1. IsFiniteSet(1..n)
  <2>1. 1 \in Int /\ n \in Int
    OBVIOUS
  <2> QED
    BY <2>1, FS_Interval, Zenon
<1>2. IsFiniteSet(A)
  BY <1>1, FS_Subset, Zenon
<1>3. Cardinality(A) \in Nat
  BY <1>2, FS_CardinalityType, Zenon
<1>4. n + 1 \notin A
  OBVIOUS
<1>5. CASE C
  <2>1. B = A \cup {n+1}
    BY <1>5
  <2>2. Cardinality(B) = Cardinality(A) + 1
    BY <1>2, <1>4, <2>1, FS_AddElement, Zenon
  <2> QED
    BY <1>5, <2>2
<1>6. CASE ~C
  <2>1. B = A
    BY <1>6
  <2> QED
    BY <1>3, <1>6, <2>1
<1> QED
  BY <1>5, <1>6

\* Times counts the last element of a sequence once more.
LEMMA TimesOneMore ==
  ASSUME NEW T, NEW s \in Seq(T), NEW v \in T, NEW x
  PROVE  Times(Append(s, v), x) = Times(s, x) + IF v = x THEN 1 ELSE 0
<1> DEFINE A == {i \in 1..Len(s) : s[i] = x}
           B == {i \in 1..Len(Append(s, v)) : Append(s, v)[i] = x}
<1>1. Len(s) \in Nat /\ A \in SUBSET (1..Len(s))
  OBVIOUS
<1>2. B = A \cup (IF v = x THEN {Len(s) + 1} ELSE {})
  OBVIOUS
<1> HIDE DEF A, B
<1>3. Cardinality(B) = Cardinality(A) + IF v = x THEN 1 ELSE 0
  BY <1>1, <1>2, OneMore, ZenonT(40)
<1> QED
  BY <1>3 DEF Times, A, B

\* The links at the first n positions from f to t with the weight w.
Matching(links, n, f, t, w) ==
    {i \in 1..n : LET o == obj[links[i]] IN o.from = f /\ o.to = t /\ o.weight = w}

\* The navigator has the first n links in both directions.
Complete(nav, links, n) ==
    /\ nav \in Navigators
    /\ \A f \in From \cup {Null}, t \in To \cup {Null}, w \in Weight :
          LET m == Cardinality(Matching(links, n, f, t, w)) IN
          /\ Times(nav.from2to[f], <<t, w>>) = m
          /\ Times(nav.to2from[t], <<f, w>>) = m

LEMMA NoLinksComplete == ASSUME NEW links PROVE Complete(NoLinks, links, 0)
<1>1. NoLinks \in Navigators
  BY DEF NoLinks, Navigators
<1>2. \A x : Times(<<>>, x) = 0
  BY FS_EmptySet DEF Times
<1>3. \A f, t, w : Cardinality(Matching(links, 0, f, t, w)) = 0
  BY FS_EmptySet DEF Matching
<1> QED
  BY <1>1, <1>2, <1>3 DEF Complete, NoLinks

LEMMA AddLinkComplete ==
  ASSUME LinkTypes, NEW links \in Seq(Link), NEW n \in Nat, n < Len(links),
         NEW nav, Complete(nav, links, n)
  PROVE  Complete(AddLink(nav, links[n+1]), links, n+1)
<1> DEFINE o == obj[links[n+1]]
           new == AddLink(nav, links[n+1])
           To2 == (To \cup {Null}) \X Weight
           From2 == (From \cup {Null}) \X Weight
<1>1. o.from \in From \cup {Null} /\ o.to \in To \cup {Null} /\ o.weight \in Weight
  BY DEF LinkTypes, LinkObj
<1>2. new = [from2to |-> [nav.from2to EXCEPT ![o.from] = Append(@, <<o.to, o.weight>>)],
             to2from |-> [nav.to2from EXCEPT ![o.to] = Append(@, <<o.from, o.weight>>)]]
  BY DEF AddLink, Emplaced, Bound, GetFrom, GetTo
<1>3. /\ nav.from2to \in [From \cup {Null} -> Seq(To2)]
      /\ nav.to2from \in [To \cup {Null} -> Seq(From2)]
  BY DEF Complete, Navigators
<1> HIDE DEF new, o
<1>4. new \in Navigators
  BY <1>1, <1>2, <1>3 DEF Navigators
<1>5. ASSUME NEW f \in From \cup {Null}, NEW t \in To \cup {Null}, NEW w \in Weight
      PROVE  LET m == Cardinality(Matching(links, n+1, f, t, w)) IN
             /\ Times(new.from2to[f], <<t, w>>) = m
             /\ Times(new.to2from[t], <<f, w>>) = m
  <2> DEFINE C == o.from = f /\ o.to = t /\ o.weight = w
             A == Matching(links, n, f, t, w)
             B == Matching(links, n+1, f, t, w)
  <2>1. A \in SUBSET (1..n) /\ B = A \cup (IF C THEN {n+1} ELSE {})
    BY DEF Matching, o
  <2>2. Cardinality(B) = Cardinality(A) + IF C THEN 1 ELSE 0
    <3> HIDE DEF A, B, C
    <3> QED
      BY <2>1, OneMore
  <2>3. /\ Times(nav.from2to[f], <<t, w>>) = Cardinality(A)
        /\ Times(nav.to2from[t], <<f, w>>) = Cardinality(A)
    BY DEF Complete
  <2>4. Cardinality(A) \in Nat
    <3>1. 1 \in Int /\ n \in Int
      OBVIOUS
    <3> HIDE DEF A
    <3> QED
      BY <2>1, <3>1, FS_Interval, FS_Subset, FS_CardinalityType, Zenon
  <2> HIDE DEF A, B
  <2>5. Times(new.from2to[f], <<t, w>>) = Cardinality(A) + IF C THEN 1 ELSE 0
    <3>1. <<o.to, o.weight>> \in To2 /\ nav.from2to[f] \in Seq(To2)
      BY <1>1, <1>3
    <3>2. CASE o.from = f
      <4>1. new.from2to[f] = Append(nav.from2to[f], <<o.to, o.weight>>)
        BY <1>2, <1>3, <3>2
      <4>2. Times(new.from2to[f], <<t, w>>)
              = Cardinality(A) + IF <<o.to, o.weight>> = <<t, w>> THEN 1 ELSE 0
        <5> HIDE DEF To2
        <5> QED
          BY <2>3, <3>1, <4>1, TimesOneMore
      <4> QED
        BY <3>2, <4>2
    <3>3. CASE o.from # f
      BY <1>2, <1>3, <2>3, <2>4, <3>3
    <3> QED
      BY <3>2, <3>3
  <2>6. Times(new.to2from[t], <<f, w>>) = Cardinality(A) + IF C THEN 1 ELSE 0
    <3>1. <<o.from, o.weight>> \in From2 /\ nav.to2from[t] \in Seq(From2)
      BY <1>1, <1>3
    <3>2. CASE o.to = t
      <4>1. new.to2from[t] = Append(nav.to2from[t], <<o.from, o.weight>>)
        BY <1>2, <1>3, <3>2
      <4>2. Times(new.to2from[t], <<f, w>>)
              = Cardinality(A) + IF <<o.from, o.weight>> = <<f, w>> THEN 1 ELSE 0
        <5> HIDE DEF From2
        <5> QED
          BY <2>3, <3>1, <4>1, TimesOneMore
      <4> QED
        BY <3>2, <4>2
    <3>3. CASE o.to # t
      BY <1>2, <1>3, <2>3, <2>4, <3>3
    <3> QED
      BY <3>2, <3>3
  <2> QED
    BY <2>2, <2>5, <2>6 DEF A, B
<1> QED
  BY <1>4, <1>5 DEF Complete, new

\* The navigator of some links has them all, in both directions.
LEMMA NavigatorComplete ==
  ASSUME LinkTypes, NEW links \in Seq(Link)
  PROVE  Complete(LinkNavigator(links), links, Len(links))
<1> DEFINE n == Len(links)
           g == NavigatorsOf(links, n)
           S == {k \in Nat : k <= n => Complete(g[1..k], links, k)}
<1>1. n \in Nat
  OBVIOUS
<1>2. g[1..0] = NoLinks /\ \A k \in 0..n-1 : g[1..k+1] = AddLink(g[1..k], links[k+1])
  BY <1>1, NavigatorStep
<1> HIDE DEF g
<1>3. 0 \in S
  BY <1>2, NoLinksComplete
<1>4. ASSUME NEW k \in Nat, k \in S
      PROVE  k + 1 \in S
  <2> SUFFICES ASSUME k + 1 <= n
               PROVE  Complete(g[1..k+1], links, k+1)
    OBVIOUS
  <2>1. k < n /\ k \in 0..n-1 /\ Complete(g[1..k], links, k)
    BY <1>4
  <2>2. Complete(AddLink(g[1..k], links[k+1]), links, k+1)
    BY <2>1, AddLinkComplete
  <2> QED
    BY <1>2, <2>1, <2>2
<1>5. n \in S
  <2> HIDE DEF S
  <2> QED
    BY <1>1, <1>3, <1>4, Induction
<1> QED
  BY <1>1, <1>5, NavigatorIs DEF g

\* A link is found from its one end as often as from its other end, and as
\* often as it is in the collection the LinkNavigator was made of, with the
\* same weight (LinkNavigator.h, the constructor and getLinked), whatever the
\* collections hold: links that are there several times, or lead nowhere.
THEOREM NavigatorsInvert == LinkSpec => []NavigatorInverse
<1>1. ASSUME LinkTypes
      PROVE  NavigatorInverse
  <2> SUFFICES ASSUME NEW links \in {coll.entries} \cup {s \in {subset.entries} : Null \notin Range(s)}
               PROVE  Complete(LinkNavigator(links), links, Len(links))
    BY DEF NavigatorInverse, Complete, Matching, GetLinkedTo, GetLinkedFrom
  <2>1. links \in Seq(Link)
    <3>1. CASE links = coll.entries
      BY <1>1, <3>1 DEF LinkTypes, LinkColl
    <3>2. CASE links = subset.entries /\ Null \notin Range(subset.entries)
      <4>1. links \in Seq(Link \cup {Null}) /\ \A i \in 1..Len(links) : links[i] # Null
        BY <1>1, <3>2 DEF LinkTypes, LinkSubset, Range
      <4> QED
        BY <4>1
    <3> QED
      BY <3>1, <3>2
  <2> QED
    BY <1>1, <2>1, NavigatorComplete
<1> QED
  BY <1>1, LinkInvHolds, PTL DEF LinkInv
=============================================================================
