----------------------- MODULE GenericParameters_proofs -----------------------
(***************************************************************************)
(* What GenericParameters.tla guarantees for any threads, types, keys,     *)
(* values and calls: a reader's partial result stays true, and the four    *)
(* maps with their mutexes implement the store of ParameterStore.tla.      *)
(*                                                                         *)
(* That no two threads are inside the lock for the same type is what       *)
(* TypeOK says of the mutexes.  The invariant adds to it what a thread has *)
(* read or stored at each place in its call.                               *)
(***************************************************************************)
EXTENDS GenericParameters, Sequences, TLAPS

\* Before the lock a call has read nothing, whatever getKeys reserves.
Fresh(t) == pc[t] \in {"reserve", "lock"} => local[t] = Empty(call[t])

\* In the loops, what was read is a part of the maps, and as it is there.
Reads(t) ==
    LET c == call[t] IN
    pc[t] = "locked" =>
       /\ c.op \in {"set", "setVector"} => local[t] = None
       /\ c.op = "loadFrom" =>
             local[t] \subseteq DOMAIN map[c.type] /\ local[t] \subseteq DOMAIN c.batch
       /\ c.op = "getKeys" => local[t] \subseteq DOMAIN map[c.type]
       /\ c.op = "getKeysAndValues" =>
             /\ DOMAIN local[t] \subseteq DOMAIN map[c.type]
             /\ local[t] = [k \in DOMAIN local[t] |-> map[c.type][k]]
       /\ c.op = "copy" =>
             /\ DOMAIN local[t] \subseteq Type
             /\ local[t] = [ty \in DOMAIN local[t] |-> map[ty]]

\* The map has what the call was to store.
Stored(c) ==
    /\ c.op = "set" => c.key \in DOMAIN map[c.type] /\ map[c.type][c.key] = <<c.value>>
    /\ c.op = "setVector" => c.key \in DOMAIN map[c.type] /\ map[c.type][c.key] = c.value
    /\ c.op = "loadFrom" => DOMAIN c.batch \subseteq DOMAIN map[c.type]

\* Until the mutexes are given back, the result is that of the present maps.
Done(t) == pc[t] = "unlock" => local[t] = AnswerNow(call[t]) /\ Stored(call[t])

IInv == TypeOK /\ \A t \in Thread : Fresh(t) /\ Reads(t) /\ Done(t)

-----------------------------------------------------------------------------
\* A call has the fields its operation needs.
LEMMA CallShape ==
  ASSUME NEW c \in Call
  PROVE  /\ c.op \in {"set", "setVector", "get", "getVector", "getN", "getKeys",
                      "getKeysAndValues", "loadFrom", "copy"}
         /\ c.op # "copy" => c.type \in Type
         /\ c.op = "set" => c.key \in Key /\ c.value \in Value
         /\ c.op = "setVector" => c.key \in Key /\ c.value \in Vector
         /\ c.op = "loadFrom" => c.batch \in Batch
  BY DEF Call, SetCall, SetVectorCall, GetCall, IterateCall, LoadCall, CopyCall,
         Keyed, Iterating

LEMMA CallTypes ==
  ASSUME NEW c \in Call
  PROVE  TypesOf(c) \subseteq Type /\ (c.op # "copy" => TypesOf(c) = {c.type})
  BY CallShape DEF TypesOf

\* What it means to be a map of a type.
LEMMA MapShape ==
  ASSUME NEW m
  PROVE  m \in PartialMap <=> DOMAIN m \subseteq Key /\ m \in [DOMAIN m -> Vector]
<1>1. ASSUME m \in PartialMap PROVE DOMAIN m \subseteq Key /\ m \in [DOMAIN m -> Vector]
  <2>1. PICK ks \in SUBSET Key : m \in [ks -> Vector]
    BY <1>1 DEF PartialMap
  <2> QED
    BY <2>1
<1>2. ASSUME DOMAIN m \subseteq Key, m \in [DOMAIN m -> Vector] PROVE m \in PartialMap
  BY <1>2 DEF PartialMap
<1> QED
  BY <1>1, <1>2

\* insert_or_assign and emplace keep it one.
LEMMA InsertShape ==
  ASSUME NEW m \in PartialMap, NEW k \in Key, NEW v \in Vector
  PROVE  InsertOrAssign(m, k, v) \in PartialMap /\ Emplace(m, k, v) \in PartialMap
<1>1. DOMAIN m \subseteq Key /\ m \in [DOMAIN m -> Vector]
  BY MapShape
<1>2. InsertOrAssign(m, k, v) \in [DOMAIN m \cup {k} -> Vector]
  BY <1>1 DEF InsertOrAssign
<1>3. InsertOrAssign(m, k, v) \in PartialMap
  BY <1>1, <1>2 DEF PartialMap
<1> QED
  BY <1>3 DEF Emplace

\* The empty map is one.
LEMMA EmptyShape == <<>> \in PartialMap
<1>1. <<>> \in [{} -> Vector]
  OBVIOUS
<1> QED
  BY <1>1 DEF PartialMap

\* A thread between its call and its return is in one of its calls.
LEMMA InCall ==
  ASSUME TypeOK, NEW t \in Thread, pc[t] # "idle"
  PROVE  call[t] \in Call /\ call[t] # None
  BY ConstantsAssumption DEF TypeOK

\* No two threads are inside the lock of a type.
LEMMA Exclusive ==
  ASSUME TypeOK, NEW t \in Thread, NEW u \in Thread, t # u, InLock(t), InLock(u),
         NEW ty \in TypesOf(call[t])
  PROVE  ty \notin TypesOf(call[u])
<1>1. ty \in Type
  BY InCall, CallTypes DEF InLock
<1> QED
  BY <1>1 DEF TypeOK

-----------------------------------------------------------------------------
\* The types are preserved by each step.
LEMMA TypeInit == Init => TypeOK
<1> SUFFICES ASSUME Init PROVE TypeOK
  OBVIOUS
<1>1. map \in [Type -> PartialMap]
  BY EmptyShape DEF Init
<1> QED
  BY <1>1, ConstantsAssumption DEF Init, TypeOK, InLock

LEMMA TypeBegin ==
  ASSUME TypeOK, NEW t \in Thread, Begin(t) PROVE TypeOK'
<1>1. PICK c \in Calls[t] :
         /\ call' = [call EXCEPT ![t] = c]
         /\ local' = [local EXCEPT ![t] = Empty(c)]
         /\ pc' = [pc EXCEPT ![t] = IF c.op = "getKeys" THEN "reserve" ELSE "lock"]
  BY DEF Begin
<1>2. c \in Call /\ c # None
  BY ConstantsAssumption
<1>3. \A u \in Thread : u # t => call'[u] = call[u] /\ pc'[u] = pc[u]
  BY <1>1 DEF TypeOK
<1>4. call'[t] = c /\ pc'[t] \in {"reserve", "lock"} /\ pc[t] = "idle"
  BY <1>1 DEF TypeOK, Begin
<1>5. \A u \in Thread : call'[u] = None <=> pc'[u] = "idle"
  BY <1>2, <1>3, <1>4 DEF TypeOK
<1>6. \A u \in Thread, ty \in Type :
         mtx'[ty] = u <=> InLock(u)' /\ ty \in TypesOf(call'[u])
  <2> SUFFICES ASSUME NEW u \in Thread, NEW ty \in Type
               PROVE  mtx'[ty] = u <=> InLock(u)' /\ ty \in TypesOf(call'[u])
    OBVIOUS
  <2>1. mtx' = mtx
    BY DEF Begin
  <2>2. CASE u = t
    BY <1>4, <2>1, <2>2 DEF TypeOK, InLock
  <2>3. CASE u # t
    BY <1>3, <2>1, <2>3 DEF TypeOK, InLock
  <2> QED
    BY <2>2, <2>3
<1> QED
  BY <1>1, <1>2, <1>5, <1>6 DEF TypeOK, Begin

\* A step inside a call that neither takes nor gives back a mutex.
LEMMA TypeInside ==
  ASSUME TypeOK, NEW t \in Thread, NEW where,
         map' \in [Type -> PartialMap], UNCHANGED <<mtx, call>>,
         pc' = [pc EXCEPT ![t] = where],
         where \in {"lock", "locked", "unlock"},
         pc[t] # "idle",
         InLock(t) <=> where \in {"locked", "unlock"},
         DOMAIN local' = Thread, DOMAIN reserved' = Thread
  PROVE  TypeOK'
<1>1. \A u \in Thread : InLock(u)' <=> InLock(u)
  BY DEF TypeOK, InLock
<1>2. \A u \in Thread : pc'[u] = "idle" <=> pc[u] = "idle"
  BY DEF TypeOK
<1> QED
  BY <1>1, <1>2 DEF TypeOK

LEMMA TypeLock ==
  ASSUME TypeOK, NEW t \in Thread, Lock(t) PROVE TypeOK'
<1>1. /\ pc[t] = "lock" /\ AllFree(t)
      /\ mtx' = [ty \in Type |-> IF ty \in TypesOf(call[t]) THEN t ELSE mtx[ty]]
      /\ pc' = [pc EXCEPT ![t] = "locked"]
      /\ UNCHANGED <<map, call, reserved, local>>
  BY DEF Lock
<1>2. \A u \in Thread, ty \in Type :
         mtx'[ty] = u <=> InLock(u)' /\ ty \in TypesOf(call'[u])
  <2> SUFFICES ASSUME NEW u \in Thread, NEW ty \in Type
               PROVE  mtx'[ty] = u <=> InLock(u)' /\ ty \in TypesOf(call'[u])
    OBVIOUS
  <2>1. CASE u = t
    <3>1. InLock(u)' /\ call'[u] = call[t] /\ mtx[ty] # t
      BY <1>1, <2>1 DEF TypeOK, InLock
    <3> QED
      BY <1>1, <2>1, <3>1
  <2>2. CASE u # t
    <3>1. (InLock(u)' <=> InLock(u)) /\ call'[u] = call[u]
      BY <1>1, <2>2 DEF TypeOK, InLock
    <3>2. ty \in TypesOf(call[t]) => mtx[ty] # u
      BY <1>1, ConstantsAssumption DEF AllFree
    <3> QED
      BY <1>1, <2>2, <3>1, <3>2 DEF TypeOK
  <2> QED
    BY <2>1, <2>2
<1> QED
  BY <1>1, <1>2 DEF TypeOK

LEMMA TypeUnlock ==
  ASSUME TypeOK, NEW t \in Thread, Unlock(t) PROVE TypeOK'
<1>1. /\ pc[t] = "unlock"
      /\ mtx' = [ty \in Type |-> IF ty \in TypesOf(call[t]) THEN None ELSE mtx[ty]]
      /\ pc' = [pc EXCEPT ![t] = "return"]
      /\ UNCHANGED <<map, call, reserved, local>>
  BY DEF Unlock
<1>2. \A u \in Thread, ty \in Type :
         mtx'[ty] = u <=> InLock(u)' /\ ty \in TypesOf(call'[u])
  <2> SUFFICES ASSUME NEW u \in Thread, NEW ty \in Type
               PROVE  mtx'[ty] = u <=> InLock(u)' /\ ty \in TypesOf(call'[u])
    OBVIOUS
  <2>1. CASE u = t
    <3>1. ~InLock(u)' /\ (mtx[ty] = t => ty \in TypesOf(call[t]))
      BY <1>1, <2>1 DEF TypeOK, InLock
    <3> QED
      BY <1>1, <2>1, <3>1, ConstantsAssumption
  <2>2. CASE u # t
    <3>1. (InLock(u)' <=> InLock(u)) /\ call'[u] = call[u]
      BY <1>1, <2>2 DEF TypeOK, InLock
    <3>2. ty \in TypesOf(call[t]) => mtx[ty] = t
      BY <1>1 DEF TypeOK, InLock
    <3> QED
      BY <1>1, <2>2, <3>1, <3>2, ConstantsAssumption DEF TypeOK
  <2> QED
    BY <2>1, <2>2
<1> QED
  BY <1>1, <1>2 DEF TypeOK

LEMMA TypeReturn ==
  ASSUME TypeOK, NEW t \in Thread, Return(t) PROVE TypeOK'
<1>1. \A u \in Thread : u # t => call'[u] = call[u] /\ pc'[u] = pc[u]
  BY DEF TypeOK, Return
<1>2. call'[t] = None /\ pc'[t] = "idle" /\ pc[t] = "return"
  BY DEF TypeOK, Return
<1>3. \A u \in Thread : call'[u] = None <=> pc'[u] = "idle"
  BY <1>1, <1>2 DEF TypeOK
<1>4. \A u \in Thread, ty \in Type :
         mtx'[ty] = u <=> InLock(u)' /\ ty \in TypesOf(call'[u])
  <2> SUFFICES ASSUME NEW u \in Thread, NEW ty \in Type
               PROVE  mtx'[ty] = u <=> InLock(u)' /\ ty \in TypesOf(call'[u])
    OBVIOUS
  <2>1. mtx' = mtx
    BY DEF Return
  <2>2. CASE u = t
    BY <1>2, <2>1, <2>2 DEF TypeOK, InLock
  <2>3. CASE u # t
    BY <1>1, <2>1, <2>3 DEF TypeOK, InLock
  <2> QED
    BY <2>2, <2>3
<1> QED
  BY <1>3, <1>4 DEF TypeOK, Return

LEMMA TypeNext ==
  ASSUME TypeOK, NEW t \in Thread, Step(t) PROVE TypeOK'
<1>1. CASE Reserve(t)
  BY <1>1, TypeInside DEF Reserve, TypeOK, InLock
<1>2. CASE Set(t)
  <2> DEFINE c == call[t]
             v == IF c.op = "set" THEN <<c.value>> ELSE c.value
  <2>1. c \in Call /\ c.op \in {"set", "setVector"}
    BY <1>2, InCall DEF Set
  <2>2. c.type \in Type /\ c.key \in Key /\ v \in Vector
    BY <2>1, CallShape, ConstantsAssumption
  <2>3. map' = [map EXCEPT ![c.type] = InsertOrAssign(map[c.type], c.key, v)]
    BY <1>2 DEF Set
  <2>4. map' \in [Type -> PartialMap]
    BY <2>2, <2>3, InsertShape DEF TypeOK
  <2> QED
    BY <1>2, <2>4, TypeInside DEF Set, TypeOK, InLock
<1>3. CASE LoadPair(t)
  <2> DEFINE c == call[t]
  <2>1. PICK k \in DOMAIN c.batch \ local[t] :
           /\ map' = [map EXCEPT ![c.type] = Emplace(map[c.type], k, c.batch[k])]
           /\ local' = [local EXCEPT ![t] = local[t] \cup {k}]
    BY <1>3 DEF LoadPair
  <2>2. c \in Call /\ c.op = "loadFrom"
    BY <1>3, InCall DEF LoadPair
  <2>3. c.type \in Type /\ k \in Key /\ c.batch[k] \in Vector
    BY <2>2, CallShape, ConstantsAssumption
  <2>4. map' \in [Type -> PartialMap]
    BY <2>1, <2>3, InsertShape DEF TypeOK
  <2>5. pc' = [pc EXCEPT ![t] = "locked"]
    BY <1>3 DEF LoadPair, TypeOK
  <2> QED
    BY <1>3, <2>1, <2>4, <2>5, TypeInside DEF LoadPair, TypeOK, InLock
<1>4. CASE CollectKey(t) \/ CollectPair(t) \/ CopyMap(t)
  <2>1. /\ UNCHANGED <<map, mtx, call, pc, reserved>> /\ pc[t] = "locked"
        /\ DOMAIN local' = DOMAIN local
    BY <1>4 DEF CollectKey, CollectPair, CopyMap
  <2>2. pc' = [pc EXCEPT ![t] = "locked"]
    BY <2>1 DEF TypeOK
  <2> QED
    BY <2>1, <2>2, TypeInside DEF TypeOK, InLock
<1>5. CASE Get(t)
  BY <1>5, TypeInside DEF Get, TypeOK, InLock
<1>6. CASE EndLoop(t)
  BY <1>6, TypeInside DEF EndLoop, TypeOK, InLock
<1> QED
  BY <1>1, <1>2, <1>3, <1>4, <1>5, <1>6, TypeBegin, TypeLock, TypeUnlock, TypeReturn
  DEF Step

-----------------------------------------------------------------------------
\* A thread that takes no step keeps what it knows, if the maps of the types
\* it has locked do not change.
LEMMA Kept ==
  ASSUME TypeOK, TypeOK', NEW u \in Thread, Fresh(u) /\ Reads(u) /\ Done(u),
         call'[u] = call[u], pc'[u] = pc[u], local'[u] = local[u],
         InLock(u) => \A ty \in TypesOf(call[u]) : map'[ty] = map[ty]
  PROVE  (Fresh(u) /\ Reads(u) /\ Done(u))'
<1> DEFINE c == call[u]
<1>1. Fresh(u)'
  BY DEF Fresh
<1>2. ASSUME InLock(u)
      PROVE  IF c.op = "copy" THEN map' = map ELSE map'[c.type] = map[c.type]
  <2>1. CASE c.op = "copy"
    BY <1>2, <2>1 DEF TypesOf, TypeOK
  <2>2. CASE c.op # "copy"
    BY <1>2, <2>2 DEF TypesOf
  <2> QED
    BY <2>1, <2>2
<1>3. Reads(u)'
  <2> SUFFICES ASSUME pc[u] = "locked" PROVE Reads(u)'
    BY DEF Reads
  <2>1. CASE c.op = "copy"
    BY <1>2, <2>1 DEF Reads, InLock
  <2>2. CASE c.op # "copy"
    BY <1>2, <2>2 DEF Reads, InLock
  <2> QED
    BY <2>1, <2>2
<1>4. Done(u)'
  <2> SUFFICES ASSUME pc[u] = "unlock" PROVE Done(u)'
    BY DEF Done
  <2>1. CASE c.op = "copy"
    BY <1>2, <2>1 DEF Done, Stored, AnswerNow, InLock, Keyed
  <2>2. CASE c.op # "copy"
    <3>1. AnswerNow(c)' = AnswerNow(c)
      BY <1>2, <2>2 DEF AnswerNow, InLock, Keyed, LookedUp
    <3>2. Stored(c)' <=> Stored(c)
      BY <1>2, <2>2 DEF Stored, InLock
    <3> QED
      BY <3>1, <3>2 DEF Done
  <2> QED
    BY <2>1, <2>2
<1> QED
  BY <1>1, <1>3, <1>4

\* While a thread stores under its lock, the others' locked maps stay.
LEMMA Undisturbed ==
  ASSUME TypeOK, NEW t \in Thread, NEW u \in Thread, t # u, InLock(t), InLock(u),
         call[t].op # "copy", NEW m, map' = [map EXCEPT ![call[t].type] = m]
  PROVE  \A ty \in TypesOf(call[u]) : map'[ty] = map[ty]
<1> SUFFICES ASSUME NEW ty \in TypesOf(call[u]) PROVE map'[ty] = map[ty]
  OBVIOUS
<1>1. call[t].type \in TypesOf(call[t])
  BY DEF TypesOf
<1>2. ty # call[t].type
  BY <1>1, Exclusive
<1>3. ty \in Type
  BY InCall, CallTypes DEF InLock
<1> QED
  BY <1>2, <1>3 DEF TypeOK

\* The step of a thread leaves the invariant to the others.
LEMMA OthersKept ==
  ASSUME IInv, NEW t \in Thread, Step(t), NEW u \in Thread, u # t
  PROVE  (Fresh(u) /\ Reads(u) /\ Done(u))'
<1>1. call'[u] = call[u] /\ pc'[u] = pc[u] /\ local'[u] = local[u]
  BY DEF IInv, TypeOK, Step, Begin, Reserve, Lock, Set, Get, LoadPair, CollectKey,
         CollectPair, CopyMap, EndLoop, Unlock, Return
<1>2. InLock(u) => \A ty \in TypesOf(call[u]) : map'[ty] = map[ty]
  <2>1. CASE map' = map
    BY <2>1
  <2>2. CASE Set(t)
    <3>1. PICK m : map' = [map EXCEPT ![call[t].type] = m]
      BY <2>2 DEF Set
    <3>2. InLock(t) /\ call[t].op # "copy"
      BY <2>2 DEF Set, InLock
    <3> QED
      BY <3>1, <3>2, Undisturbed DEF IInv
  <2>3. CASE LoadPair(t)
    <3>1. PICK m : map' = [map EXCEPT ![call[t].type] = m]
      BY <2>3 DEF LoadPair
    <3>2. InLock(t) /\ call[t].op # "copy"
      BY <2>3 DEF LoadPair, InLock
    <3> QED
      BY <3>1, <3>2, Undisturbed DEF IInv
  <2> QED
    BY <2>1, <2>2, <2>3
    DEF Step, Begin, Reserve, Lock, Get, CollectKey, CollectPair, CopyMap, EndLoop,
        Unlock, Return
<1> QED
  BY <1>1, <1>2, Kept, TypeNext DEF IInv

\* A thread's own step.
LEMMA OwnStep ==
  ASSUME IInv, NEW t \in Thread, Step(t)
  PROVE  (Fresh(t) /\ Reads(t) /\ Done(t))'
<1> DEFINE c == call[t]
<1>0. TypeOK /\ TypeOK' /\ Fresh(t) /\ Reads(t) /\ Done(t)
  BY TypeNext DEF IInv
<1>1. CASE Begin(t)
  <2>1. PICK d \in Calls[t] :
           /\ call' = [call EXCEPT ![t] = d]
           /\ local' = [local EXCEPT ![t] = Empty(d)]
           /\ pc' = [pc EXCEPT ![t] = IF d.op = "getKeys" THEN "reserve" ELSE "lock"]
    BY <1>1 DEF Begin
  <2>2. call'[t] = d /\ local'[t] = Empty(d) /\ pc'[t] \in {"reserve", "lock"}
    BY <1>0, <2>1 DEF TypeOK
  <2> QED
    BY <2>2 DEF Fresh, Reads, Done, Empty
<1>2. CASE Reserve(t)
  <2>1. call'[t] = c /\ local'[t] = local[t] /\ pc'[t] = "lock" /\ pc[t] = "reserve"
    BY <1>0, <1>2 DEF Reserve, TypeOK
  <2> QED
    BY <1>0, <2>1 DEF Fresh, Reads, Done
<1>3. CASE Lock(t)
  <2>1. /\ call'[t] = c /\ local'[t] = local[t] /\ map' = map
        /\ pc'[t] = "locked" /\ pc[t] = "lock"
    BY <1>0, <1>3 DEF Lock, TypeOK
  <2>2. local[t] = Empty(c)
    BY <1>0, <2>1 DEF Fresh
  <2>3. Reads(t)'
    BY <2>1, <2>2 DEF Reads, Empty
  <2> QED
    BY <2>1, <2>3 DEF Fresh, Done
<1>4. CASE Set(t)
  <2> DEFINE v == IF c.op = "set" THEN <<c.value>> ELSE c.value
  <2>1. /\ call'[t] = c /\ local'[t] = local[t]
        /\ pc'[t] = "unlock" /\ pc[t] = "locked" /\ c.op \in {"set", "setVector"}
        /\ map' = [map EXCEPT ![c.type] = InsertOrAssign(map[c.type], c.key, v)]
    BY <1>0, <1>4 DEF Set, TypeOK
  <2>2. c.type \in Type
    BY <1>0, <2>1, InCall, CallShape
  <2>3. map'[c.type] = InsertOrAssign(map[c.type], c.key, v)
    BY <1>0, <2>1, <2>2 DEF TypeOK
  <2>4. local[t] = None
    BY <1>0, <2>1 DEF Reads
  <2>5. Stored(c)'
    BY <2>1, <2>3 DEF Stored, InsertOrAssign
  <2>6. AnswerNow(c)' = None
    BY <2>1 DEF AnswerNow, Keyed
  <2> QED
    BY <2>1, <2>4, <2>5, <2>6 DEF Fresh, Reads, Done
<1>5. CASE Get(t)
  <2>1. /\ call'[t] = c /\ map' = map /\ local'[t] = LookedUp(map[c.type], c)
        /\ pc'[t] = "unlock" /\ c.op \in Keyed
    BY <1>0, <1>5 DEF Get, TypeOK
  <2>2. Stored(c)' /\ local'[t] = AnswerNow(c)'
    BY <2>1 DEF Stored, AnswerNow, Keyed
  <2> QED
    BY <2>1, <2>2 DEF Fresh, Reads, Done
<1>6. CASE LoadPair(t)
  <2>1. PICK k \in DOMAIN c.batch \ local[t] :
           /\ map' = [map EXCEPT ![c.type] = Emplace(map[c.type], k, c.batch[k])]
           /\ local' = [local EXCEPT ![t] = local[t] \cup {k}]
    BY <1>6 DEF LoadPair
  <2>2. /\ call'[t] = c /\ pc'[t] = "locked" /\ pc[t] = "locked" /\ c.op = "loadFrom"
        /\ local'[t] = local[t] \cup {k}
    BY <1>0, <1>6, <2>1 DEF LoadPair, TypeOK
  <2>3. c.type \in Type
    BY <1>0, <2>2, InCall, CallShape
  <2>4. map'[c.type] = Emplace(map[c.type], k, c.batch[k])
    BY <1>0, <2>1, <2>3 DEF TypeOK
  <2>5. DOMAIN map'[c.type] = DOMAIN map[c.type] \cup {k}
    BY <2>4 DEF Emplace, InsertOrAssign
  <2>6. Reads(t)'
    BY <1>0, <2>2, <2>5 DEF Reads
  <2> QED
    BY <2>2, <2>6 DEF Fresh, Done
<1>7. CASE CollectKey(t)
  <2>1. PICK k \in DOMAIN map[c.type] \ local[t] :
           local' = [local EXCEPT ![t] = local[t] \cup {k}]
    BY <1>7 DEF CollectKey
  <2>2. /\ call'[t] = c /\ pc'[t] = "locked" /\ pc[t] = "locked" /\ c.op = "getKeys"
        /\ map' = map /\ local'[t] = local[t] \cup {k}
    BY <1>0, <1>7, <2>1 DEF CollectKey, TypeOK
  <2> QED
    BY <1>0, <2>1, <2>2 DEF Fresh, Reads, Done
<1>8. CASE CollectPair(t)
  <2>1. PICK k \in DOMAIN map[c.type] \ DOMAIN local[t] :
           local' = [local EXCEPT ![t] = Also(local[t], k, map[c.type][k])]
    BY <1>8 DEF CollectPair
  <2>2. /\ call'[t] = c /\ pc'[t] = "locked" /\ pc[t] = "locked"
        /\ c.op = "getKeysAndValues" /\ map' = map
        /\ local'[t] = Also(local[t], k, map[c.type][k])
    BY <1>0, <1>8, <2>1 DEF CollectPair, TypeOK
  <2>3. /\ DOMAIN local[t] \subseteq DOMAIN map[c.type]
        /\ local[t] = [x \in DOMAIN local[t] |-> map[c.type][x]]
    BY <1>0, <2>2 DEF Reads
  <2>4. /\ DOMAIN local'[t] = DOMAIN local[t] \cup {k}
        /\ local'[t] = [x \in DOMAIN local[t] \cup {k} |-> map[c.type][x]]
    BY <2>1, <2>2, <2>3 DEF Also, InsertOrAssign
  <2>5. Reads(t)'
    BY <2>1, <2>2, <2>3, <2>4 DEF Reads
  <2> QED
    BY <2>2, <2>5 DEF Fresh, Done
<1>9. CASE CopyMap(t)
  <2>1. PICK ty \in Type \ DOMAIN local[t] :
           local' = [local EXCEPT ![t] = Also(local[t], ty, map[ty])]
    BY <1>9 DEF CopyMap
  <2>2. /\ call'[t] = c /\ pc'[t] = "locked" /\ pc[t] = "locked" /\ c.op = "copy"
        /\ map' = map /\ local'[t] = Also(local[t], ty, map[ty]) /\ DOMAIN map = Type
    BY <1>0, <1>9, <2>1 DEF CopyMap, TypeOK
  <2>3. /\ DOMAIN local[t] \subseteq DOMAIN map
        /\ local[t] = [x \in DOMAIN local[t] |-> map[x]]
    BY <1>0, <2>2 DEF Reads
  <2>4. /\ DOMAIN local'[t] = DOMAIN local[t] \cup {ty}
        /\ local'[t] = [x \in DOMAIN local[t] \cup {ty} |-> map[x]]
    BY <2>1, <2>2, <2>3 DEF Also, InsertOrAssign
  <2>5. Reads(t)'
    BY <2>1, <2>2, <2>3, <2>4 DEF Reads
  <2> QED
    BY <2>2, <2>5 DEF Fresh, Done
<1>10. CASE EndLoop(t)
  <2>1. /\ call'[t] = c /\ map' = map /\ pc'[t] = "unlock" /\ pc[t] = "locked"
        /\ local'[t] = IF c.op = "loadFrom" THEN None ELSE local[t]
        /\ Complete(t)
    BY <1>0, <1>10 DEF EndLoop, TypeOK
  <2>2. DOMAIN map = Type /\ map = [ty \in Type |-> map[ty]]
    BY <1>0 DEF TypeOK
  <2>3. c.type \in Type \/ c.op = "copy"
    BY <1>0, <2>1, InCall, CallShape
  <2>4. Stored(c)'
    BY <1>0, <2>1 DEF Complete, Reads, Stored
  <2>5. local'[t] = AnswerNow(c)'
    <3>1. CASE c.op = "loadFrom"
      BY <2>1, <3>1 DEF AnswerNow, Keyed
    <3>2. CASE c.op = "getKeys"
      BY <2>1, <3>2 DEF AnswerNow, Keyed, Complete
    <3>3. CASE c.op = "getKeysAndValues"
      <4>1. map[c.type] \in PartialMap
        BY <1>0, <2>3, <3>3 DEF TypeOK
      <4>2. map[c.type] = [k \in DOMAIN map[c.type] |-> map[c.type][k]]
        BY <4>1, MapShape
      <4> QED
        BY <1>0, <2>1, <3>3, <4>2 DEF AnswerNow, Keyed, Complete, Reads
    <3>4. CASE c.op = "copy"
      BY <1>0, <2>1, <2>2, <3>4 DEF AnswerNow, Keyed, Complete, Reads
    <3> QED
      BY <2>1, <3>1, <3>2, <3>3, <3>4 DEF Complete
  <2> QED
    BY <2>1, <2>4, <2>5 DEF Fresh, Reads, Done
<1>11. CASE Unlock(t) \/ Return(t)
  <2>1. pc'[t] \in {"return", "idle"}
    BY <1>0, <1>11 DEF Unlock, Return, TypeOK
  <2> QED
    BY <2>1 DEF Fresh, Reads, Done
<1> QED
  BY <1>1, <1>2, <1>3, <1>4, <1>5, <1>6, <1>7, <1>8, <1>9, <1>10, <1>11 DEF Step

LEMMA InitIInv == Init => IInv
  BY TypeInit DEF Init, IInv, Fresh, Reads, Done

LEMMA NextIInv == IInv /\ [Next]_vars => IInv'
<1> SUFFICES ASSUME IInv, [Next]_vars PROVE IInv'
  OBVIOUS
<1>1. CASE UNCHANGED vars
  BY <1>1 DEF vars, IInv, TypeOK, InLock, Fresh, Reads, Done, Stored, AnswerNow
<1>2. CASE Next
  <2>1. PICK t \in Thread : Step(t)
    BY <1>2 DEF Next
  <2>2. \A u \in Thread : (Fresh(u) /\ Reads(u) /\ Done(u))'
    BY <2>1, OwnStep, OthersKept
  <2> QED
    BY <2>1, <2>2, TypeNext DEF IInv
<1> QED
  BY <1>1, <1>2

LEMMA Invariance == Spec => []IInv
  BY InitIInv, NextIInv, PTL DEF Spec

\* What a call reads stays true until it gives its mutexes back: a loop over
\* a map never sees it change.
THEOREM ReadsStayRight == Spec => []ReadsStayTrue
<1>1. IInv => ReadsStayTrue
  <2> SUFFICES ASSUME IInv PROVE ReadsStayTrue
    OBVIOUS
  <2>1. ASSUME NEW t \in Thread, pc[t] = "locked", call[t].op = "getKeysAndValues",
               NEW k \in DOMAIN local[t]
        PROVE  local[t][k] = map[call[t].type][k]
    <3>1. local[t] = [x \in DOMAIN local[t] |-> map[call[t].type][x]]
      BY <2>1 DEF IInv, Reads
    <3> QED
      BY <3>1
  <2>2. ASSUME NEW t \in Thread, pc[t] = "locked", call[t].op = "copy",
               NEW ty \in DOMAIN local[t]
        PROVE  local[t][ty] = map[ty]
    <3>1. local[t] = [x \in DOMAIN local[t] |-> map[x]]
      BY <2>2 DEF IInv, Reads
    <3> QED
      BY <3>1
  <2>3. ASSUME NEW t \in Thread, pc[t] = "locked"
        PROVE  LET c == call[t] IN
               /\ c.op \in {"getKeys", "loadFrom"} => local[t] \subseteq DOMAIN map[c.type]
               /\ c.op = "getKeysAndValues" => DOMAIN local[t] \subseteq DOMAIN map[c.type]
               /\ c.op = "copy" => DOMAIN local[t] \subseteq Type
    BY <2>3 DEF IInv, Reads
  <2>4. TypeOK
    BY DEF IInv
  <2> QED
    BY <2>1, <2>2, <2>3, <2>4 DEF ReadsStayTrue
<1> QED
  BY <1>1, Invariance, PTL

-----------------------------------------------------------------------------
\* The store the abstract specification sees of a type whose mutex is free,
\* or held for a call c.
Effect(m, c) ==
    IF c.op = "set" \/ c.op = "setVector"
    THEN InsertOrAssign(m, c.key, IF c.op = "set" THEN <<c.value>> ELSE c.value)
    ELSE IF c.op = "loadFrom"
    THEN [x \in DOMAIN m \cup DOMAIN c.batch |->
             IF x \in DOMAIN m THEN m[x] ELSE c.batch[x]]
    ELSE m

LEMMA StoreOf ==
  /\ StoreBar = [ty \in Type |-> IF mtx[ty] = None THEN map[ty]
                                 ELSE Effect(map[ty], call[mtx[ty]])]
  /\ StoreBar' = [ty \in Type |-> IF mtx'[ty] = None THEN map'[ty]
                                  ELSE Effect(map'[ty], call'[mtx'[ty]])]
  BY DEF StoreBar, Effect

\* Once a call has stored what it was to store, its effect is what is there.
LEMMA Settled ==
  ASSUME TypeOK, NEW c \in Call, Stored(c), NEW ty \in TypesOf(c)
  PROVE  Effect(map[ty], c) = map[ty]
<1>1. ty \in Type
  BY CallTypes
<1>2. DOMAIN map[ty] \subseteq Key /\ map[ty] = [x \in DOMAIN map[ty] |-> map[ty][x]]
  <2>1. map[ty] \in PartialMap
    BY <1>1 DEF TypeOK
  <2> QED
    BY <2>1, MapShape
<1>3. CASE c.op \in {"set", "setVector"}
  <2>1. ty = c.type
    BY <1>3, CallTypes
  <2> QED
    BY <1>2, <1>3, <2>1 DEF Stored, Effect, InsertOrAssign
<1>4. CASE c.op = "loadFrom"
  <2>1. ty = c.type
    BY <1>4, CallTypes
  <2>2. DOMAIN map[ty] \cup DOMAIN c.batch = DOMAIN map[ty]
    BY <1>4, <2>1 DEF Stored
  <2> QED
    BY <1>2, <1>4, <2>2 DEF Effect
<1>5. CASE c.op \notin {"set", "setVector", "loadFrom"}
  BY <1>5 DEF Effect
<1> QED
  BY <1>3, <1>4, <1>5

\* To store once more what the call was to store changes nothing.
LEMMA SetSettles ==
  ASSUME NEW c, NEW m, c.op \in {"set", "setVector"}
  PROVE  Effect(InsertOrAssign(m, c.key, IF c.op = "set" THEN <<c.value>> ELSE c.value), c)
           = Effect(m, c)
  BY DEF Effect, InsertOrAssign

LEMMA LoadSettles ==
  ASSUME NEW c, NEW m, c.op = "loadFrom", NEW k \in DOMAIN c.batch
  PROVE  Effect(Emplace(m, k, c.batch[k]), c) = Effect(m, c)
<1>1. CASE k \in DOMAIN m
  BY <1>1 DEF Emplace
<1>2. CASE k \notin DOMAIN m
  <2> DEFINE n == InsertOrAssign(m, k, c.batch[k])
  <2>1. DOMAIN n = DOMAIN m \cup {k} /\ n[k] = c.batch[k]
        /\ \A x \in DOMAIN m : n[x] = m[x]
    BY <1>2 DEF InsertOrAssign
  <2>2. DOMAIN n \cup DOMAIN c.batch = DOMAIN m \cup DOMAIN c.batch
    BY <2>1
  <2>3. \A x \in DOMAIN m \cup DOMAIN c.batch :
           (IF x \in DOMAIN n THEN n[x] ELSE c.batch[x])
             = (IF x \in DOMAIN m THEN m[x] ELSE c.batch[x])
    BY <2>1
  <2>4. Emplace(m, k, c.batch[k]) = n
    BY <1>2 DEF Emplace
  <2> HIDE DEF n
  <2>5. [x \in DOMAIN n \cup DOMAIN c.batch |-> IF x \in DOMAIN n THEN n[x] ELSE c.batch[x]]
          = [x \in DOMAIN m \cup DOMAIN c.batch |-> IF x \in DOMAIN m THEN m[x] ELSE c.batch[x]]
    BY <2>2, <2>3
  <2> QED
    BY <2>4, <2>5 DEF Effect
<1> QED
  BY <1>1, <1>2

\* What a call answers only depends on the maps of the types it has locked.
LEMMA AnswerKept ==
  ASSUME TypeOK, TypeOK', NEW u \in Thread, InLock(u), call'[u] = call[u],
         \A ty \in TypesOf(call[u]) : map'[ty] = map[ty]
  PROVE  AnswerNow(call[u])' = AnswerNow(call[u])
<1>1. CASE call[u].op = "copy"
  <2>1. map' = map
    BY <1>1 DEF TypesOf, TypeOK
  <2> QED
    BY <2>1 DEF AnswerNow
<1>2. CASE call[u].op # "copy"
  <2>1. map'[call[u].type] = map[call[u].type]
    BY <1>2 DEF TypesOf
  <2> QED
    BY <1>2, <2>1 DEF AnswerNow, Keyed, LookedUp
<1> QED
  BY <1>1, <1>2

\* The abstract operation on a map, and its result, are those of the code.
LEMMA SameEffect ==
  ASSUME NEW c \in Call, NEW m PROVE Store!Applied(m, c) = Effect(m, c)
<1>1. CASE c.op = "set"
  BY <1>1 DEF Store!Applied, Store!Assigned, Effect, InsertOrAssign
<1>2. CASE c.op = "setVector"
  BY <1>2 DEF Store!Applied, Store!Assigned, Effect, InsertOrAssign
<1>3. CASE c.op = "loadFrom"
  BY <1>3 DEF Store!Applied, Store!Emplaced, Effect
<1>4. CASE c.op \notin {"set", "setVector", "loadFrom"}
  BY <1>4 DEF Store!Applied, Effect
<1> QED
  BY <1>1, <1>2, <1>3, <1>4

LEMMA SameAnswer ==
  ASSUME NEW c \in Call, NEW s,
         IF c.op = "copy" THEN s = map ELSE s[c.type] = map[c.type]
  PROVE  Store!Result(s, c) = AnswerNow(c)
<1>1. CASE c.op \in Keyed
  BY <1>1 DEF Store!Result, Store!Found, AnswerNow, Keyed, LookedUp
<1>2. CASE c.op \notin Keyed
  BY <1>2, CallShape DEF Store!Result, AnswerNow, Keyed
<1> QED
  BY <1>1, <1>2

-----------------------------------------------------------------------------
\* The answers of the threads that take no step stay.
LEMMA OtherAnswers ==
  ASSUME IInv, NEW t \in Thread, Step(t), NEW u \in Thread, u # t
  PROVE  AnswerBar'[u] = AnswerBar[u]
<1>1. TypeOK /\ TypeOK'
  BY TypeNext DEF IInv
<1>2. call'[u] = call[u] /\ pc'[u] = pc[u] /\ local'[u] = local[u]
  BY DEF IInv, TypeOK, Step, Begin, Reserve, Lock, Set, Get, LoadPair, CollectKey,
         CollectPair, CopyMap, EndLoop, Unlock, Return
<1>3. CASE ~InLock(u)
  BY <1>2, <1>3 DEF AnswerBar, InLock
<1>4. CASE InLock(u)
  <2>1. \A ty \in TypesOf(call[u]) : map'[ty] = map[ty]
    <3>1. CASE map' = map
      BY <3>1
    <3>2. CASE Set(t) \/ LoadPair(t)
      <4>1. PICK m : map' = [map EXCEPT ![call[t].type] = m]
        BY <3>2 DEF Set, LoadPair
      <4>2. InLock(t) /\ call[t].op # "copy"
        BY <3>2 DEF Set, LoadPair, InLock
      <4> QED
        BY <1>1, <1>4, <4>1, <4>2, Undisturbed
    <3> QED
      BY <3>1, <3>2
      DEF Step, Begin, Reserve, Lock, Get, CollectKey, CollectPair, CopyMap, EndLoop,
          Unlock, Return
  <2>2. AnswerNow(call[u])' = AnswerNow(call[u])
    BY <1>1, <1>2, <1>4, <2>1, AnswerKept
  <2>3. InLock(u)'
    BY <1>2, <1>4 DEF InLock
  <2> QED
    BY <1>2, <1>4, <2>2, <2>3 DEF AnswerBar
<1> QED
  BY <1>3, <1>4

\* Steps of a thread inside the lock are not seen.
LEMMA InsideUnseen ==
  ASSUME IInv, NEW t \in Thread, Step(t), InLock(t), InLock(t)',
         UNCHANGED <<mtx, call>>
  PROVE  UNCHANGED <<StoreBar, call, AnswerBar>>
<1> DEFINE c == call[t]
<1>1. TypeOK /\ TypeOK' /\ c \in Call
  BY TypeNext, InCall DEF IInv, InLock
<1>2. ASSUME NEW ty \in Type
      PROVE  StoreBar'[ty] = StoreBar[ty]
  <2>1. CASE map' = map
    BY <2>1, StoreOf
  <2>2. CASE Set(t)
    <3>1. c.op \in {"set", "setVector"} /\ c.type \in Type /\ TypesOf(c) = {c.type}
      BY <1>1, <2>2, CallShape, CallTypes DEF Set
    <3>2. map' = [map EXCEPT ![c.type] = InsertOrAssign(map[c.type], c.key,
                                IF c.op = "set" THEN <<c.value>> ELSE c.value)]
      BY <2>2 DEF Set
    <3>3. CASE ty = c.type
      <4>1. mtx[ty] = t /\ t # None
        BY <1>1, <3>1, <3>3, ConstantsAssumption DEF TypeOK
      <4>2. StoreBar[ty] = Effect(map[ty], c) /\ StoreBar'[ty] = Effect(map'[ty], c)
        BY <4>1, StoreOf
      <4> QED
        BY <1>1, <3>1, <3>2, <3>3, <4>2, SetSettles DEF TypeOK
    <3>4. CASE ty # c.type
      <4>1. map'[ty] = map[ty]
        BY <1>1, <3>2, <3>4 DEF TypeOK
      <4> QED
        BY <4>1, StoreOf
    <3> QED
      BY <3>3, <3>4
  <2>3. CASE LoadPair(t)
    <3>1. PICK k \in DOMAIN c.batch \ local[t] :
             map' = [map EXCEPT ![c.type] = Emplace(map[c.type], k, c.batch[k])]
      BY <2>3 DEF LoadPair
    <3>2. c.op = "loadFrom" /\ c.type \in Type /\ TypesOf(c) = {c.type}
      BY <1>1, <2>3, CallShape, CallTypes DEF LoadPair
    <3>3. CASE ty = c.type
      <4>1. mtx[ty] = t /\ t # None
        BY <1>1, <3>2, <3>3, ConstantsAssumption DEF TypeOK
      <4>2. StoreBar[ty] = Effect(map[ty], c) /\ StoreBar'[ty] = Effect(map'[ty], c)
        BY <4>1, StoreOf
      <4> QED
        BY <1>1, <3>1, <3>2, <3>3, <4>2, LoadSettles DEF TypeOK
    <3>4. CASE ty # c.type
      <4>1. map'[ty] = map[ty]
        BY <1>1, <3>1, <3>4 DEF TypeOK
      <4> QED
        BY <4>1, StoreOf
    <3> QED
      BY <3>3, <3>4
  <2> QED
    BY <2>1, <2>2, <2>3
    DEF Step, Begin, Reserve, Lock, Get, CollectKey, CollectPair, CopyMap, EndLoop,
        Unlock, Return
<1>3. StoreBar' = StoreBar
  BY <1>2 DEF StoreBar
<1>4. AnswerBar'[t] = AnswerBar[t]
  <2>1. AnswerNow(c)' = AnswerNow(c)
    <3>1. CASE map' = map
      BY <3>1 DEF AnswerNow
    <3>2. CASE Set(t) \/ LoadPair(t)
      BY <3>2 DEF AnswerNow, Keyed, Set, LoadPair
    <3> QED
      BY <3>1, <3>2
      DEF Step, Begin, Reserve, Lock, Get, CollectKey, CollectPair, CopyMap, EndLoop,
          Unlock, Return
  <2> QED
    BY <2>1 DEF AnswerBar
<1>5. \A u \in Thread : AnswerBar'[u] = AnswerBar[u]
  BY <1>4, OtherAnswers
<1>6. AnswerBar' = AnswerBar
  BY <1>5 DEF AnswerBar
<1> QED
  BY <1>3, <1>6

\* Steps of a thread outside of the lock do not touch the store.
LEMMA OutsideStore ==
  ASSUME UNCHANGED <<map, mtx>>,
         \A ty \in Type : mtx[ty] # None => call'[mtx[ty]] = call[mtx[ty]]
  PROVE  StoreBar' = StoreBar
<1>1. ASSUME NEW ty \in Type PROVE StoreBar'[ty] = StoreBar[ty]
  BY StoreOf
<1> QED
  BY <1>1 DEF StoreBar

\* The abstract step of every step.
LEMMA StepSimulates ==
  ASSUME IInv, NEW t \in Thread, Step(t)
  PROVE  Store!Next \/ UNCHANGED <<StoreBar, call, AnswerBar>>
<1>1. TypeOK /\ TypeOK' /\ Fresh(t) /\ Done(t)
  BY TypeNext DEF IInv
<1>2. CASE Set(t) \/ Get(t) \/ LoadPair(t) \/ CollectKey(t) \/ CollectPair(t)
           \/ CopyMap(t) \/ EndLoop(t)
  <2>1. InLock(t) /\ InLock(t)' /\ UNCHANGED <<mtx, call>>
    BY <1>1, <1>2 DEF Set, Get, LoadPair, CollectKey, CollectPair, CopyMap, EndLoop,
                      TypeOK, InLock
  <2> QED
    BY <2>1, InsideUnseen
<1>3. ASSUME NEW b, AnswerBar'[t] = b
      PROVE  AnswerBar' = [AnswerBar EXCEPT ![t] = b]
  <2>1. \A u \in Thread : AnswerBar'[u] = [AnswerBar EXCEPT ![t] = b][u]
    BY <1>3, OtherAnswers DEF AnswerBar
  <2> QED
    BY <2>1 DEF AnswerBar
<1>4. CASE Begin(t)
  <2>1. PICK c \in Calls[t] :
           /\ call' = [call EXCEPT ![t] = c]
           /\ pc' = [pc EXCEPT ![t] = IF c.op = "getKeys" THEN "reserve" ELSE "lock"]
    BY <1>4 DEF Begin
  <2>2. pc[t] = "idle" /\ pc'[t] \in {"reserve", "lock"} /\ UNCHANGED <<map, mtx>>
    BY <1>1, <1>4, <2>1 DEF Begin, TypeOK
  <2>3. \A ty \in Type : mtx[ty] # None => call'[mtx[ty]] = call[mtx[ty]]
    <3>1. \A ty \in Type : mtx[ty] # t
      BY <1>1, <2>2 DEF TypeOK, InLock
    <3> QED
      BY <1>1, <2>1, <3>1 DEF TypeOK
  <2>4. StoreBar' = StoreBar
    BY <2>2, <2>3, OutsideStore
  <2>5. AnswerBar[t] = <<>> /\ AnswerBar'[t] = <<>>
    BY <2>2 DEF AnswerBar, InLock
  <2>6. AnswerBar' = AnswerBar
    <3>1. \A u \in Thread : AnswerBar'[u] = AnswerBar[u]
      BY <2>5, OtherAnswers
    <3> QED
      BY <3>1 DEF AnswerBar
  <2>7. call[t] = None
    BY <1>1, <2>2 DEF TypeOK
  <2> QED
    BY <2>1, <2>4, <2>6, <2>7 DEF Store!Next, Store!Invoke
<1>5. CASE Reserve(t)
  <2>1. UNCHANGED <<map, mtx, call>> /\ pc[t] = "reserve" /\ pc'[t] = "lock"
    BY <1>1, <1>5 DEF Reserve, TypeOK
  <2>2. StoreBar' = StoreBar
    BY <2>1, OutsideStore
  <2>3. \A u \in Thread : AnswerBar'[u] = AnswerBar[u]
    BY <2>1, OtherAnswers DEF AnswerBar, InLock
  <2> QED
    BY <2>1, <2>2, <2>3 DEF AnswerBar
<1>6. CASE Lock(t)
  <2> DEFINE c == call[t]
  <2>1. /\ pc[t] = "lock" /\ pc'[t] = "locked" /\ AllFree(t)
        /\ mtx' = [ty \in Type |-> IF ty \in TypesOf(c) THEN t ELSE mtx[ty]]
        /\ UNCHANGED <<map, call>>
    BY <1>1, <1>6 DEF Lock, TypeOK
  <2>2. c \in Call /\ c # None
    BY <1>1, <2>1, InCall
  <2>3. \A ty \in TypesOf(c) : StoreBar[ty] = map[ty]
    BY <2>1, <2>2, CallTypes, StoreOf DEF AllFree
  <2>4. \A ty \in Type : StoreBar'[ty] = IF ty \in TypesOf(c) THEN Effect(map[ty], c)
                                         ELSE StoreBar[ty]
    <3> SUFFICES ASSUME NEW ty \in Type
                 PROVE  StoreBar'[ty] = IF ty \in TypesOf(c) THEN Effect(map[ty], c)
                                        ELSE StoreBar[ty]
      OBVIOUS
    <3>1. CASE ty \in TypesOf(c)
      <4>1. mtx'[ty] = t /\ t # None
        BY <2>1, <3>1, ConstantsAssumption
      <4> QED
        BY <2>1, <3>1, <4>1, StoreOf
    <3>2. CASE ty \notin TypesOf(c)
      BY <2>1, <3>2, StoreOf
    <3> QED
      BY <3>1, <3>2
  <2>5. StoreBar' = [ty \in Type |-> IF ty \in Store!TypesOf(c)
                                     THEN Store!Applied(StoreBar[ty], c)
                                     ELSE StoreBar[ty]]
    <3>1. Store!TypesOf(c) = TypesOf(c)
      BY DEF Store!TypesOf, TypesOf
    <3>2. \A ty \in Type : Store!Applied(StoreBar[ty], c) = Effect(StoreBar[ty], c)
      BY <2>2, SameEffect
    <3>3. StoreBar' = [ty \in Type |-> StoreBar'[ty]]
      BY DEF StoreBar
    <3> QED
      BY <2>3, <2>4, <3>1, <3>2, <3>3
  <2>6. AnswerNow(c) = Store!Result(StoreBar, c)
    <3>1. IF c.op = "copy" THEN StoreBar = map ELSE StoreBar[c.type] = map[c.type]
      <4>1. CASE c.op = "copy"
        <5>1. \A ty \in Type : StoreBar[ty] = map[ty]
          BY <2>3, <4>1 DEF TypesOf
        <5>2. StoreBar = [ty \in Type |-> StoreBar[ty]]
          BY DEF StoreBar
        <5>3. map = [ty \in Type |-> map[ty]]
          BY <1>1 DEF TypeOK
        <5> QED
          BY <4>1, <5>1, <5>2, <5>3
      <4>2. CASE c.op # "copy"
        BY <2>3, <4>2 DEF TypesOf
      <4> QED
        BY <4>1, <4>2
    <3> QED
      BY <2>2, <3>1, SameAnswer
  <2>7. AnswerBar[t] = <<>> /\ AnswerBar'[t] = <<Store!Result(StoreBar, c)>>
    <3>1. AnswerNow(c)' = AnswerNow(c)
      BY <2>1 DEF AnswerNow
    <3>2. AnswerBar'[t] = <<AnswerNow(c)'>>
      BY <2>1 DEF AnswerBar, InLock
    <3>3. AnswerBar[t] = <<>>
      BY <2>1 DEF AnswerBar, InLock
    <3> QED
      BY <2>6, <3>1, <3>2, <3>3
  <2> QED
    BY <1>3, <2>1, <2>2, <2>5, <2>7 DEF Store!Next, Store!TakeEffect
<1>7. CASE Unlock(t)
  <2> DEFINE c == call[t]
  <2>1. /\ pc[t] = "unlock" /\ pc'[t] = "return"
        /\ mtx' = [ty \in Type |-> IF ty \in TypesOf(c) THEN None ELSE mtx[ty]]
        /\ UNCHANGED <<map, call, local>>
    BY <1>1, <1>7 DEF Unlock, TypeOK
  <2>2. c \in Call /\ local[t] = AnswerNow(c) /\ Stored(c)
    BY <1>1, <2>1, InCall DEF Done
  <2>3. \A ty \in Type : StoreBar'[ty] = StoreBar[ty]
    <3> SUFFICES ASSUME NEW ty \in Type PROVE StoreBar'[ty] = StoreBar[ty]
      OBVIOUS
    <3>1. CASE ty \in TypesOf(c)
      <4>1. mtx[ty] = t /\ t # None /\ mtx'[ty] = None
        BY <1>1, <2>1, <3>1, ConstantsAssumption DEF TypeOK, InLock
      <4>2. StoreBar[ty] = Effect(map[ty], c) /\ StoreBar'[ty] = map[ty]
        BY <2>1, <4>1, StoreOf
      <4> QED
        BY <1>1, <2>2, <3>1, <4>2, Settled
    <3>2. CASE ty \notin TypesOf(c)
      BY <2>1, <3>2, StoreOf
    <3> QED
      BY <3>1, <3>2
  <2>4. AnswerBar'[t] = AnswerBar[t]
    BY <2>1, <2>2 DEF AnswerBar, InLock
  <2>5. \A u \in Thread : AnswerBar'[u] = AnswerBar[u]
    BY <2>4, OtherAnswers
  <2> QED
    BY <2>1, <2>3, <2>5 DEF AnswerBar, StoreBar
<1>8. CASE Return(t)
  <2>1. /\ pc[t] = "return" /\ pc'[t] = "idle" /\ call' = [call EXCEPT ![t] = None]
        /\ UNCHANGED <<map, mtx>>
    BY <1>1, <1>8 DEF Return, TypeOK
  <2>2. \A ty \in Type : mtx[ty] # None => call'[mtx[ty]] = call[mtx[ty]]
    <3>1. \A ty \in Type : mtx[ty] # t
      BY <1>1, <2>1 DEF TypeOK, InLock
    <3> QED
      BY <1>1, <2>1, <3>1 DEF TypeOK
  <2>3. StoreBar' = StoreBar
    BY <2>1, <2>2, OutsideStore
  <2>4. AnswerBar[t] = <<local[t]>> /\ AnswerBar'[t] = <<>>
    BY <2>1 DEF AnswerBar, InLock
  <2>5. AnswerBar[t] # <<>>
    <3>1. Len(AnswerBar[t]) = 1 /\ Len(<<>>) = 0
      BY <2>4
    <3> QED
      BY <3>1
  <2>6. AnswerBar' = [AnswerBar EXCEPT ![t] = <<>>]
    BY <1>3, <2>4
  <2> QED
    BY <2>1, <2>3, <2>5, <2>6 DEF Store!Next, Store!Return
<1> QED
  BY <1>2, <1>4, <1>5, <1>6, <1>7, <1>8 DEF Step

\* Every operation takes effect at one moment between its call and its
\* return (ParameterStore.tla), for any number of threads and types.
THEOREM ImplementsStore == Spec => StoreSpec
<1>1. Init => Store!Init
  <2> SUFFICES ASSUME Init PROVE Store!Init
    OBVIOUS
  <2>1. \A ty \in Type : StoreBar[ty] = <<>>
    BY StoreOf DEF Init
  <2>2. \A t \in Thread : AnswerBar[t] = <<>>
    BY DEF Init, AnswerBar, InLock
  <2> QED
    BY <2>1, <2>2 DEF Init, Store!Init, StoreBar, AnswerBar
<1>2. IInv /\ [Next]_vars => [Store!Next]_Store!vars
  <2> SUFFICES ASSUME IInv, [Next]_vars PROVE [Store!Next]_Store!vars
    OBVIOUS
  <2>1. CASE Next
    BY <2>1, StepSimulates DEF Next, Store!vars
  <2>2. CASE UNCHANGED vars
    BY <2>2 DEF vars, Store!vars, StoreBar, AnswerBar, AnswerNow, InLock
  <2> QED
    BY <2>1, <2>2
<1> QED
  BY <1>1, <1>2, Invariance, PTL DEF StoreSpec, Store!Spec, Spec
=============================================================================
