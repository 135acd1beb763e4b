------------------------- MODULE GenericParameters -------------------------
(***************************************************************************)
(* The named parameters of a Frame (include/podio/GenericParameters.h and  *)
(* src/GenericParameters.cc): a map and a mutex for each supported type.   *)
(* Threads set and get parameters through the Frame while writers take     *)
(* the keys and values of one type after the other and ROOT copies the     *)
(* whole object.  A step is what happens between two points where other    *)
(* threads can interfere: the maps are read and filled pair by pair.       *)
(*                                                                         *)
(* clear, empty, print and the SIO writer use the maps without a lock and  *)
(* are right only while no other thread sets a parameter; they are not     *)
(* steps of this module.                                                   *)
(***************************************************************************)
EXTENDS Naturals, FiniteSets

CONSTANTS
    Thread,  \* the threads
    Type,    \* SupportedGenericDataTypes
    Key,     \* the names of parameters
    Value,   \* the single values
    Vector,  \* the vectors of values
    Batch,   \* the keys and vectors an entry of a file has
    Calls,   \* the calls each thread makes
    None     \* no thread, no call, std::nullopt

\* The calls of this interface.
Keyed == {"get", "getVector", "getN"}
Iterating == {"getKeys", "getKeysAndValues"}

\* putParameter(key, value)
SetCall == [op : {"set"}, type : Type, key : Key, value : Value]

\* putParameter(key, vector)
SetVectorCall == [op : {"setVector"}, type : Type, key : Key, value : Vector]

\* getParameter<T>(key), getParameter<std::vector<T>>(key), getN
GetCall == [op : Keyed, type : Type, key : Key]

\* getParameterKeys, and what the writers take
IterateCall == [op : Iterating, type : Type]

\* what the readers fill new parameters with
LoadCall == [op : {"loadFrom"}, type : Type, batch : Batch]

\* the copy constructor
CopyCall == [op : {"copy"}]

Call == SetCall \cup SetVectorCall \cup GetCall \cup IterateCall
        \cup LoadCall \cup CopyCall

ASSUME ConstantsAssumption ==
    /\ None \notin Thread
    /\ None \notin Call
    /\ Calls \in [Thread -> SUBSET Call]
    /\ \A b \in Batch : DOMAIN b \subseteq Key
    /\ \A b \in Batch : \A k \in DOMAIN b : b[k] \in Vector
    /\ \A x \in Value : <<x>> \in Vector

VARIABLES
    map,       \* per type: the vectors under their keys
    mtx,       \* per type: the thread that holds the mutex, or None
    call,      \* per thread: its running call, or None
    pc,        \* per thread: where it is in the call
    reserved,  \* per thread: the room getKeys made in its result
    local      \* per thread: what the call has read or loaded so far

vars == <<map, mtx, call, pc, reserved, local>>

-----------------------------------------------------------------------------
\* Mutant: a copy locks nothing.
Unlocked(c) == IF c.op = "copy" THEN {} ELSE {c.type}

\* getMap<T>, getMutex<T>: the types whose map and mutex the call uses.
TypesOf(c) == IF c.op = "copy" THEN Type ELSE {c.type}

\* map.insert_or_assign(key, value)
InsertOrAssign(m, k, v) ==
    [x \in DOMAIN m \cup {k} |-> IF x = k THEN v ELSE m[x]]

\* map.emplace(key, value): what is there stays
Emplace(m, k, v) == IF k \in DOMAIN m THEN m ELSE InsertOrAssign(m, k, v)

\* get and getN.  getN is answered by the vector whose size it returns.
LookedUp(m, c) ==
    IF c.key \notin DOMAIN m THEN IF c.op = "getN" THEN <<>> ELSE None
    ELSE IF c.op # "get" THEN m[c.key]
    ELSE IF m[c.key] = <<>> THEN None
    ELSE m[c.key][1]

\* What a call has collected before its first step under the lock.
Empty(c) ==
    IF c.op \in {"getKeys", "loadFrom"} THEN {}
    ELSE IF c.op \in {"getKeysAndValues", "copy"} THEN <<>>
    ELSE None

\* One more pair in the result.
Also(f, x, v) == InsertOrAssign(f, x, v)

-----------------------------------------------------------------------------
\* GenericParameters()
Init ==
    /\ map = [ty \in Type |-> <<>>]
    /\ mtx = [ty \in Type |-> None]
    /\ call = [t \in Thread |-> None]
    /\ pc = [t \in Thread |-> "idle"]
    /\ reserved = [t \in Thread |-> 0]
    /\ local = [t \in Thread |-> None]

\* A thread calls putParameter, getParameter, ...
Begin(t) ==
    /\ pc[t] = "idle"
    /\ \E c \in Calls[t] :
          /\ call' = [call EXCEPT ![t] = c]
          /\ local' = [local EXCEPT ![t] = Empty(c)]
          /\ pc' = [pc EXCEPT ![t] = IF c.op = "getKeys" THEN "reserve"
                                     ELSE "lock"]
    /\ UNCHANGED <<map, mtx, reserved>>

\* keys.reserve(map.size()), before the mutex is locked
Reserve(t) ==
    /\ pc[t] = "reserve"
    /\ reserved' = [reserved EXCEPT
                       ![t] = Cardinality(DOMAIN map[call[t].type])]
    /\ pc' = [pc EXCEPT ![t] = "lock"]
    /\ UNCHANGED <<map, mtx, call, local>>

\* All mutexes the call needs are free.
AllFree(t) == \A ty \in TypesOf(call[t]) : mtx[ty] = None

\* std::lock_guard, or std::scoped_lock for the four mutexes at once
Lock(t) ==
    /\ pc[t] = "lock"
    /\ AllFree(t)
    /\ mtx' = [ty \in Type |-> IF ty \in TypesOf(call[t]) THEN t ELSE mtx[ty]]
    /\ pc' = [pc EXCEPT ![t] = "locked"]
    /\ UNCHANGED <<map, call, reserved, local>>

\* set
Set(t) ==
    /\ pc[t] = "locked"
    /\ LET c == call[t] IN
          /\ c.op \in {"set", "setVector"}
          /\ map' = [map EXCEPT ![c.type] =
                        InsertOrAssign(@, c.key, IF c.op = "set" THEN <<c.value>>
                                                 ELSE c.value)]
    /\ pc' = [pc EXCEPT ![t] = "unlock"]
    /\ UNCHANGED <<mtx, call, reserved, local>>

\* get and getN
Get(t) ==
    /\ pc[t] = "locked"
    /\ call[t].op \in Keyed
    /\ local' = [local EXCEPT ![t] = LookedUp(map[call[t].type], call[t])]
    /\ pc' = [pc EXCEPT ![t] = "unlock"]
    /\ UNCHANGED <<map, mtx, call, reserved>>

\* One pair of loadFrom.
LoadPair(t) ==
    /\ pc[t] = "locked"
    /\ call[t].op = "loadFrom"
    /\ \E k \in DOMAIN call[t].batch \ local[t] :
          /\ map' = [map EXCEPT ![call[t].type] =
                        Emplace(@, k, call[t].batch[k])]
          /\ local' = [local EXCEPT ![t] = @ \cup {k}]
    /\ UNCHANGED <<mtx, call, pc, reserved>>

\* One key of getKeys.
CollectKey(t) ==
    /\ pc[t] = "locked"
    /\ call[t].op = "getKeys"
    /\ \E k \in DOMAIN map[call[t].type] \ local[t] :
          local' = [local EXCEPT ![t] = @ \cup {k}]
    /\ UNCHANGED <<map, mtx, call, pc, reserved>>

\* One pair of getKeysAndValues.
CollectPair(t) ==
    /\ pc[t] = "locked"
    /\ call[t].op = "getKeysAndValues"
    /\ \E k \in DOMAIN map[call[t].type] \ DOMAIN local[t] :
          local' = [local EXCEPT ![t] = Also(@, k, map[call[t].type][k])]
    /\ UNCHANGED <<map, mtx, call, pc, reserved>>

\* One of the four maps of the copy constructor.
CopyMap(t) ==
    /\ pc[t] = "locked"
    /\ call[t].op = "copy"
    /\ \E ty \in Type \ DOMAIN local[t] :
          local' = [local EXCEPT ![t] = Also(@, ty, map[ty])]
    /\ UNCHANGED <<map, mtx, call, pc, reserved>>

\* Mutant: getKeys fills the room it has reserved, and no more.
CompleteWhenFull(t) ==
    LET c == call[t] IN
    \/ c.op = "loadFrom" /\ local[t] = DOMAIN c.batch
    \/ c.op = "getKeys" /\ (\/ local[t] = DOMAIN map[c.type]
                            \/ Cardinality(local[t]) = reserved[t])
    \/ c.op = "getKeysAndValues" /\ DOMAIN local[t] = DOMAIN map[c.type]
    \/ c.op = "copy" /\ DOMAIN local[t] = Type

\* A loop has reached its end.
Complete(t) ==
    LET c == call[t] IN
    \/ c.op = "loadFrom" /\ local[t] = DOMAIN c.batch
    \/ c.op = "getKeys" /\ local[t] = DOMAIN map[c.type]
    \/ c.op = "getKeysAndValues" /\ DOMAIN local[t] = DOMAIN map[c.type]
    \/ c.op = "copy" /\ DOMAIN local[t] = Type

EndLoop(t) ==
    /\ pc[t] = "locked"
    /\ Complete(t)
    /\ local' = [local EXCEPT ![t] = IF call[t].op = "loadFrom" THEN None ELSE @]
    /\ pc' = [pc EXCEPT ![t] = "unlock"]
    /\ UNCHANGED <<map, mtx, call, reserved>>

\* The end of the guard's scope.
Unlock(t) ==
    /\ pc[t] = "unlock"
    /\ mtx' = [ty \in Type |-> IF ty \in TypesOf(call[t]) THEN None ELSE mtx[ty]]
    /\ pc' = [pc EXCEPT ![t] = "return"]
    /\ UNCHANGED <<map, call, reserved, local>>

Return(t) ==
    /\ pc[t] = "return"
    /\ pc' = [pc EXCEPT ![t] = "idle"]
    /\ call' = [call EXCEPT ![t] = None]
    /\ local' = [local EXCEPT ![t] = None]
    /\ reserved' = [reserved EXCEPT ![t] = 0]
    /\ UNCHANGED <<map, mtx>>

Step(t) ==
    \/ Begin(t) \/ Reserve(t) \/ Lock(t)
    \/ Set(t) \/ Get(t)
    \/ LoadPair(t) \/ CollectKey(t) \/ CollectPair(t) \/ CopyMap(t)
    \/ EndLoop(t) \/ Unlock(t) \/ Return(t)

Next == \E t \in Thread : Step(t)

Spec == Init /\ [][Next]_vars

-----------------------------------------------------------------------------
\* The maps a type can have.
PartialMap == UNION {[ks -> Vector] : ks \in SUBSET Key}

InLock(t) == pc[t] \in {"locked", "unlock"}

\* The variables have their types, and the mutexes are held by the threads
\* that are inside the scope of a lock_guard or scoped_lock, for the types
\* their call is about.
TypeOK ==
    /\ map \in [Type -> PartialMap]
    /\ mtx \in [Type -> Thread \cup {None}]
    /\ call \in [Thread -> Call \cup {None}]
    /\ pc \in [Thread -> {"idle", "reserve", "lock", "locked", "unlock", "return"}]
    /\ DOMAIN local = Thread
    /\ DOMAIN reserved = Thread
    /\ \A t \in Thread : call[t] = None <=> pc[t] = "idle"
    /\ \A t \in Thread, ty \in Type :
          mtx[ty] = t <=> InLock(t) /\ ty \in TypesOf(call[t])

\* What a call has read under its lock is what the maps hold still, pair by
\* pair and, for a copy, type by type: nobody changes a map under a reader.
ReadsStayTrue ==
    /\ TypeOK
    /\ \A t \in Thread :
       LET c == call[t] IN
       /\ pc[t] = "locked" =>
             /\ c.op = "getKeys" => local[t] \subseteq DOMAIN map[c.type]
             /\ c.op = "getKeysAndValues" =>
                   /\ DOMAIN local[t] \subseteq DOMAIN map[c.type]
                   /\ \A k \in DOMAIN local[t] : local[t][k] = map[c.type][k]
             /\ c.op = "copy" =>
                   /\ DOMAIN local[t] \subseteq Type
                   /\ \A ty \in DOMAIN local[t] : local[t][ty] = map[ty]
             /\ c.op = "loadFrom" => local[t] \subseteq DOMAIN map[c.type]

\* Every operation takes effect when it locks the mutexes of its types: what
\* it has not stored yet counts as stored, for nobody else can look.
StoreBar ==
    [ty \in Type |-> IF mtx[ty] = None THEN map[ty]
                     ELSE LET c == call[mtx[ty]] IN
                          IF c.op = "set" \/ c.op = "setVector"
                          THEN InsertOrAssign(map[ty], c.key,
                                  IF c.op = "set" THEN <<c.value>> ELSE c.value)
                          ELSE IF c.op = "loadFrom"
                          THEN [x \in DOMAIN map[ty] \cup DOMAIN c.batch |->
                                   IF x \in DOMAIN map[ty] THEN map[ty][x]
                                   ELSE c.batch[x]]
                          ELSE map[ty]]

\* What the call answers with the present maps.
AnswerNow(c) ==
    IF c.op \in Keyed THEN LookedUp(map[c.type], c)
    ELSE IF c.op = "getKeys" THEN DOMAIN map[c.type]
    ELSE IF c.op = "getKeysAndValues" THEN map[c.type]
    ELSE IF c.op = "copy" THEN map
    ELSE None

AnswerBar ==
    [t \in Thread |-> IF InLock(t) THEN <<AnswerNow(call[t])>>
                      ELSE IF pc[t] = "return" THEN <<local[t]>>
                      ELSE <<>>]

Store == INSTANCE ParameterStore
            WITH Call <- Calls, store <- StoreBar, call <- call,
                 answer <- AnswerBar

\* Every operation takes effect at one moment between its call and its
\* return, however the threads interleave: a get, the keys and values of a
\* type a writer takes, and the copy of all types are of one state.
StoreSpec == Store!Spec
=============================================================================
