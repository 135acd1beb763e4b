---------------------------- MODULE SIOFrameData ----------------------------
(***************************************************************************)
(* One entry of an SIO file while its collections are taken out of it      *)
(* (src/SIOFrameData.cc), with the blocks the libraries have registered    *)
(* (include/podio/SIOBlock.h, SIOBlockUserData.h, detail/LinkSIOBlock.h    *)
(* and the generated blocks).  The Frame that owns the data calls it with  *)
(* m_dataMtx locked; user code may also call it directly, and may catch    *)
(* what it throws.                                                         *)
(*                                                                         *)
(* The buffers of a collection are pointers that are copied: "none" until  *)
(* the block is read, "partial" if that stopped in the middle, "filled",   *)
(* "handed" out, or "deleted".  Reading the record of an entry is sio's:   *)
(* it reads the blocks in their order, stops with an exception anywhere in *)
(* a damaged record, and looks at the name of every block in the list.     *)
(***************************************************************************)
EXTENDS Registries

CONSTANTS
    Entry,   \* the entries: sequences of name, type, subset and version
    Limits,  \* the sets of names that are asked for, {} for all
    Name,    \* the names that are asked for
    NoData   \* no SIOFrameData

\* What has become of the buffers of a block.
BufferState == {"none", "partial", "filled", "handed", "deleted"}

\* The ID table that a Frame is written with has each of its names once.
ASSUME EntriesAssumption ==
    /\ \A e \in Entry :
          /\ Len(e) \in Nat
          /\ \A i \in 1..Len(e) :
                /\ e[i].type \in Type /\ e[i].version \in Nat \ {0}
                /\ \A j \in 1..Len(e) : e[i].name = e[j].name => i = j
    /\ NoData \notin [entry : Entry, limit : Limits, unpacked : BOOLEAN, available : SUBSET Nat,
                      buffers : Seq(BufferState), failed : BOOLEAN]

VARIABLES
    data,    \* the SIOFrameData
    given,   \* history: the names buffers have been handed out for
    answer,  \* of the last call
    misused  \* buffers were handed out or deleted a second time

frameData == <<data, given, answer, misused>>
vars == <<registries, loading, writing, frameData>>

Indices(d) == 1..Len(d.entry)

\* m_idTable.names()
Names(d) == {d.entry[i].name : i \in Indices(d)}

Init ==
    /\ RegistriesInit
    /\ data = NoData
    /\ given = {}
    /\ answer = [is |-> "none"]
    /\ misused = FALSE

-----------------------------------------------------------------------------
\* SIOFrameData(...): the ID table is read, the limits are checked.
ReadEntry(e, limit) ==
    /\ Loaded
    /\ data = NoData
    /\ LET d == [entry |-> e, limit |-> limit, unpacked |-> FALSE, available |-> {},
                 buffers |-> [i \in 1..Len(e) |-> "none"], failed |-> FALSE]
       IN IF limit \subseteq Names(d)
          THEN data' = d /\ answer' = [is |-> "none"]
          ELSE data' = NoData /\ answer' = [is |-> "throws"]
    /\ given' = {}
    /\ UNCHANGED <<registries, loading, writing, misused>>

\* createBlocks: a type nobody has registered a block for gets a nullptr.
Created(d) == [d EXCEPT !.unpacked = TRUE, !.available = 0..Len(d.entry)]
Unknown(d) == {i \in Indices(d) : d.entry[i].type \notin DOMAIN m_map}

\* Blocks that get no buffers: the version is newer than the library's.
Newer(d) == {i \in Indices(d) : ~Creates(d.entry[i].type, d.entry[i].version)}

\* The blocks up to k have been read, and the next one may be read in part.
ReadUpTo(d, k, next) ==
    [d EXCEPT !.failed = TRUE,
              !.buffers = [i \in Indices(d) |-> IF i <= k THEN "filled"
                                                ELSE IF i = k + 1 THEN next ELSE "none"]]

\* Mutant: the buffers that are thrown away stay available.
OnlyDeleted(d) ==
    [d EXCEPT !.buffers = [i \in Indices(d) |->
                  IF d.limit = {} \/ d.entry[i].name \in d.limit THEN "filled" ELSE "deleted"]]

\* What is not asked for is thrown away.
Limited(d) ==
    LET dropped == {i \in Indices(d) : d.limit # {} /\ d.entry[i].name \notin d.limit}
    IN [d EXCEPT !.available = @ \ dropped,
                 !.buffers = [i \in Indices(d) |->
                                 IF i \in dropped THEN "deleted" ELSE "filled"]]

\* unpackBuffers, which does nothing once there are blocks.  A nullptr among
\* them, or the missing buffers of a generated block, are dereferenced; the
\* blocks written by hand throw instead.
Unpacked(d) ==
    LET c == Created(d)
        first == CHOOSE i \in Newer(d) : \A j \in Newer(d) : i <= j
        last == IF Newer(d) = {} THEN Len(d.entry) ELSE first
        Stopped == {[data |-> ReadUpTo(c, k, next), result |-> "throws"] :
                       k \in 0..last - 1, next \in {"none", "partial"}}
    IN IF d.unpacked THEN {[data |-> d, result |-> "ok"]}
       ELSE IF Unknown(d) # {} THEN {[data |-> c, result |-> "wild"]}
       ELSE {s \in Stopped : Newer(d) = {} \/ s.data.buffers[first] # "partial"} \cup
            {IF Newer(d) = {} THEN [data |-> Limited(c), result |-> "ok"]
             ELSE [data |-> ReadUpTo(c, first - 1, "none"),
                   result |-> IF d.entry[first].type \in UserData \cup Links THEN "throws" ELSE "wild"]}

Alive == data # NoData /\ answer.is \notin {"wild", "terminated"}

\* The call gets no further than unpackBuffers.
Stops(u) ==
    /\ u.result # "ok"
    /\ data' = u.data
    /\ answer' = [is |-> u.result]
    /\ UNCHANGED <<given, misused>>

\* Mutant: the block is not marked as consumed.
NotConsumed(d, i) == [d EXCEPT !.buffers[i] = "handed"]

\* A copy of the buffers of the block is handed out.
Consumed(d, i) ==
    [d EXCEPT !.available = @ \ {i},
              !.buffers[i] = IF d.buffers[i] = "none" THEN "none" ELSE "handed"]

GetCollectionBuffers(name) ==
    /\ Alive
    /\ \E u \in Unpacked(data) :
          \/ Stops(u)
          \/ /\ u.result = "ok"
             /\ \/ /\ \A i \in u.data.available \ {0} : u.data.entry[i].name # name
                   /\ data' = u.data
                   /\ answer' = [is |-> "nothing", name |-> name]
                   /\ UNCHANGED <<given, misused>>
                \/ \E i \in u.data.available \ {0} :
                      /\ u.data.entry[i].name = name
                      /\ data' = Consumed(u.data, i)
                      /\ answer' = [is |-> "buffers", index |-> i, state |-> u.data.buffers[i]]
                      /\ given' = given \cup {name}
                      /\ misused' = (misused \/ u.data.buffers[i] \in {"handed", "deleted"})
    /\ UNCHANGED <<registries, loading, writing>>

\* getParameters: they are moved out of the data.
GetParameters ==
    /\ Alive
    /\ \E u \in Unpacked(data) :
          \/ Stops(u)
          \/ /\ u.result = "ok"
             /\ data' = [u.data EXCEPT !.available = @ \ {0}]
             /\ answer' = [is |-> "parameters"]
             /\ UNCHANGED <<given, misused>>
    /\ UNCHANGED <<registries, loading, writing>>

GetAvailableCollections ==
    /\ Alive
    /\ \E u \in Unpacked(data) :
          \/ Stops(u)
          \/ /\ u.result = "ok"
             /\ data' = u.data
             /\ answer' = [is |-> "names",
                           names |-> {u.data.entry[i].name : i \in u.data.available \ {0}}]
             /\ UNCHANGED <<given, misused>>
    /\ UNCHANGED <<registries, loading, writing>>

\* ~SIOFrameData deletes the buffers that are still there.  Those of a block
\* that was not read have no function to delete them with, and what calling
\* it throws cannot leave the destructor.
Destroy ==
    /\ Alive
    /\ LET left == data.available \ {0} IN
       IF \E i \in left : data.buffers[i] = "none"
       THEN data' = data /\ answer' = [is |-> "terminated"] /\ UNCHANGED misused
       ELSE /\ data' = NoData
            /\ answer' = [is |-> "none"]
            /\ misused' = (misused \/ \E i \in left : data.buffers[i] \in {"handed", "deleted"})
    /\ UNCHANGED <<registries, loading, writing, given>>

Next ==
    \/ RegistriesNext /\ UNCHANGED frameData
    \/ \E e \in Entry, limit \in Limits : ReadEntry(e, limit)
    \/ \E name \in Name : GetCollectionBuffers(name)
    \/ GetParameters
    \/ GetAvailableCollections
    \/ Destroy

Spec == Init /\ [][Next]_vars

-----------------------------------------------------------------------------
\* The collections of the entry that user code is to see.
Wanted(d) == IF d.limit = {} THEN Names(d) ELSE d.limit

\* The buffers of a collection are with their block as long as they are
\* available, and only then: they are handed out once or deleted once, none
\* is deleted under who got it, and none is left behind.
BuffersOwnedOnce ==
    /\ ~misused
    /\ data # NoData /\ data.unpacked =>
          \A i \in Indices(data) :
             data.buffers[i] \in {"filled", "partial"} <=>
                i \in data.available /\ data.buffers[i] # "none"

\* Buffers that are handed out hold all the data of the collection, unless
\* the entry could not be unpacked; none is handed out for a second time or
\* against the limits; and the names that are offered are those it could
\* still be got for.
AnswersComplete ==
    data # NoData =>
        /\ answer.is = "buffers" /\ ~data.failed => answer.state = "filled"
        /\ answer.is = "nothing" => answer.name \notin Wanted(data) \ given
        /\ answer.is = "names" /\ ~data.failed => answer.names = Wanted(data) \ given
        /\ ~data.failed => given \subseteq Wanted(data)

\* The program only stops at an entry with collections of a type no loaded
\* library has a block for, or whose version is newer than its library; and
\* in the destructor only if the record could not be read.
StopsOnlyAtUnreadable ==
    /\ answer.is = "wild" =>
          \E i \in Indices(data) :
             \/ data.entry[i].type \notin UNION {TypesOf[l] : l \in m_loadedLibs}
             \/ data.entry[i].version > Current[data.entry[i].type]
    /\ answer.is = "terminated" => data.failed
=============================================================================
