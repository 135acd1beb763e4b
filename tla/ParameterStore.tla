--------------------------- MODULE ParameterStore ---------------------------
(***************************************************************************)
(* What GenericParameters promises the threads that use it: one map of     *)
(* named vectors per type, on which every operation takes effect at one    *)
(* moment between its call and its return.  A copy is of all types at the  *)
(* same moment.  The keys and values of two types are two operations.      *)
(***************************************************************************)
CONSTANTS
    Thread,  \* the threads
    Type,    \* the supported types: int, float, double, std::string
    Key,     \* the names of parameters
    Call,    \* the operations with their arguments, for each thread
    None     \* no call, no answer, std::nullopt

VARIABLES
    store,  \* per type: the vectors stored under the keys
    call,   \* per thread: its running call
    answer  \* per thread: <<>> until the call took effect, then <<its result>>

vars == <<store, call, answer>>

\* The types an operation is about: a copy is of all of them.
TypesOf(c) == IF c.op = "copy" THEN Type ELSE {c.type}

\* insert_or_assign
Assigned(m, k, v) ==
    [x \in DOMAIN m \cup {k} |-> IF x = k THEN v ELSE m[x]]

\* emplace, which keeps what is stored under a key
Emplaced(m, b) ==
    [x \in DOMAIN m \cup DOMAIN b |-> IF x \in DOMAIN m THEN m[x] ELSE b[x]]

\* The map m of a type after the operation.
Applied(m, c) ==
    CASE c.op = "setVector" -> Assigned(m, c.key, c.value)
      [] c.op = "set"       -> Assigned(m, c.key, <<c.value>>)
      [] c.op = "loadFrom"  -> Emplaced(m, c.batch)
      [] OTHER              -> m

\* What a look-up of the key answers: a single value is the first one of the
\* vector, if it has one.
Found(m, c) ==
    CASE c.op = "getN" -> IF c.key \in DOMAIN m THEN m[c.key] ELSE <<>>
      [] c.op = "getVector" -> IF c.key \in DOMAIN m THEN m[c.key] ELSE None
      [] c.op = "get" -> IF c.key \in DOMAIN m /\ m[c.key] # <<>>
                         THEN m[c.key][1] ELSE None

\* The result of the operation.
Result(s, c) ==
    CASE c.op \in {"get", "getVector", "getN"} -> Found(s[c.type], c)
      [] c.op = "getKeys"          -> DOMAIN s[c.type]
      [] c.op = "getKeysAndValues" -> s[c.type]
      [] c.op = "copy"             -> s
      [] OTHER                     -> None

Init ==
    /\ store = [ty \in Type |-> <<>>]
    /\ call = [t \in Thread |-> None]
    /\ answer = [t \in Thread |-> <<>>]

Invoke(t) ==
    /\ call[t] = None
    /\ \E c \in Call[t] : call' = [call EXCEPT ![t] = c]
    /\ UNCHANGED <<store, answer>>

TakeEffect(t) ==
    /\ call[t] # None
    /\ answer[t] = <<>>
    /\ store' = [ty \in Type |-> IF ty \in TypesOf(call[t])
                                 THEN Applied(store[ty], call[t])
                                 ELSE store[ty]]
    /\ answer' = [answer EXCEPT ![t] = <<Result(store, call[t])>>]
    /\ UNCHANGED call

Return(t) ==
    /\ answer[t] # <<>>
    /\ call' = [call EXCEPT ![t] = None]
    /\ answer' = [answer EXCEPT ![t] = <<>>]
    /\ UNCHANGED store

Next == \E t \in Thread : Invoke(t) \/ TakeEffect(t) \/ Return(t)

Spec == Init /\ [][Next]_vars
=============================================================================
