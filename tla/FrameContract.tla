--------------------------- MODULE FrameContract ---------------------------
(***************************************************************************)
(* What include/podio/Frame.h promises the threads that use a Frame.       *)
(*                                                                         *)
(* A Frame holds a growing set of collections.  get returns a collection   *)
(* "if it is available or a nullptr if it is not", put adds one or throws  *)
(* if the name is taken, getAvailableCollections lists "all collections,   *)
(* including those that might still need unpacking".                       *)
(*                                                                         *)
(* A get may take a while: it may return a nullptr if the collection was   *)
(* not available when it was called, and a collection if it is available   *)
(* when it returns.                                                        *)
(***************************************************************************)
CONSTANTS
    Name,      \* the collection names
    Thread,    \* the threads that use the Frame
    RawNames   \* the collections in the raw data the Frame is made from

VARIABLES
    present,   \* the collections that are available
    taken,     \* those that are in the collection map, whose names put refuses
    call       \* per thread: its last call and the answer

vars == <<present, taken, call>>

NoCall == [op |-> "none"]

Init ==
    /\ present = RawNames
    /\ taken = {}
    /\ call = [t \in Thread |-> NoCall]

Idle(t) == call[t].op # "get" \/ call[t].answer # "pending"

CallGet(t, n) ==
    /\ Idle(t)
    /\ call' = [call EXCEPT ![t] = [op |-> "get", name |-> n,
                                    absent |-> n \notin present,
                                    answer |-> "pending"]]
    /\ UNCHANGED <<present, taken>>

\* Unpacking moves available collections into the map, at any time.
Load ==
    /\ taken' \in SUBSET present
    /\ taken \subseteq taken'
    /\ UNCHANGED present

ReturnFound(t) ==
    /\ ~Idle(t)
    /\ call[t].name \in present
    /\ call' = [call EXCEPT ![t].answer = "found"]
    /\ UNCHANGED <<present, taken>>

ReturnNull(t) ==
    /\ ~Idle(t)
    /\ call[t].absent
    /\ call' = [call EXCEPT ![t].answer = "null"]
    /\ UNCHANGED <<present, taken>>

PutNew(t, n) ==
    /\ Idle(t)
    /\ n \notin taken
    /\ present' = present \cup {n}
    /\ taken' = taken \cup {n}
    /\ call' = [call EXCEPT ![t] = [op |-> "put", answer |-> "stored"]]

PutTaken(t, n) ==
    /\ Idle(t)
    /\ n \in taken
    /\ call' = [call EXCEPT ![t] = [op |-> "put", answer |-> "throws"]]
    /\ UNCHANGED <<present, taken>>

List(t) ==
    /\ Idle(t)
    /\ call' = [call EXCEPT ![t] = [op |-> "list", answer |-> present]]
    /\ UNCHANGED <<present, taken>>

Next ==
    \/ call' = call /\ Load
    \/ \E t \in Thread :
          \/ \E n \in Name : CallGet(t, n) \/ PutNew(t, n) \/ PutTaken(t, n)
          \/ ReturnFound(t)
          \/ ReturnNull(t)
          \/ List(t)

\* Every get returns.
Fairness == \A t \in Thread : WF_vars(ReturnFound(t) \/ ReturnNull(t))

Spec == Init /\ [][Next]_vars
FairSpec == Spec /\ Fairness
=============================================================================
