------------------------------- MODULE Frame -------------------------------
(***************************************************************************)
(* podio::Frame (include/podio/Frame.h): a container that unpacks the      *)
(* collections of its raw data on demand, on any thread.                   *)
(*                                                                         *)
(* A step is one critical section of the code (m_mapMtx or m_dataMtx) or   *)
(* one access to the unsynchronised set m_retrievedIDs.  The calls of      *)
(* doGet that setReferences makes through get(collectionID) are a stack of *)
(* activations per thread, the innermost first.                            *)
(*                                                                         *)
(* A collection is its name; the hash that is its ID is taken to be        *)
(* injective (CollectionIDTable.tla has the collisions), so an ID is a     *)
(* name too.  A stored relation is the name of the target collection.      *)
(***************************************************************************)
EXTENDS Naturals, Sequences, FiniteSets

CONSTANTS
    Name,        \* the collection names
    Thread,      \* the threads that use the Frame
    RawNames,    \* the collections in the raw data
    TableNames,  \* the names in the ID table of the raw data
    References,  \* per collection of the raw data, the targets of its relations
    GetNames,    \* the names user code asks for
    PutNames     \* the names under which user code puts collections

ASSUME NamesAssumption ==
    /\ RawNames \subseteq TableNames
    /\ TableNames \subseteq Name
    /\ GetNames \subseteq Name
    /\ PutNames \subseteq Name
ASSUME ReferencesAssumption == References \in [Name -> Seq(Name)]

VARIABLES
    m_data,          \* the collections still in the raw data
    m_collections,   \* the map: what is stored under each name, if anything
    relations,       \* the relations setReferences has resolved so far:
                     \* TRUE for a pointer to the target, FALSE for an empty one
    known,           \* the names in m_idTable
    m_retrievedIDs,  \* the IDs get(collectionID) has seen
    stack,           \* per thread: its activations of doGet
    call             \* per thread: its last call and the answer

vars == <<m_data, m_collections, relations, known, m_retrievedIDs, stack, call>>

Entry == {"absent", "file", "user"}
PC == {"lookup", "unpack", "emplace", "relations", "insert"}
Activation == [name : Name, pc : PC, setReferences : BOOLEAN, seen : SUBSET Name]

Enter(n, setReferences) ==
    [name |-> n, pc |-> "lookup", setReferences |-> setReferences, seen |-> {}]

Idle(t) == stack[t] = <<>>
Top(t) == Head(stack[t])
At(t, pc) == ~Idle(t) /\ Top(t).pc = pc
Goto(t, pc) == stack' = [stack EXCEPT ![t] = <<[Top(t) EXCEPT !.pc = pc]>> \o Tail(@)]

InMap == {n \in Name : m_collections[n] # "absent"}

\* The collections a thread has taken out of the raw data and not yet put
\* into the map.
InFlight == {n \in Name : \E t \in Thread : At(t, "emplace") /\ Top(t).name = n}

\* What the Frame can deliver.
Present == m_data \cup InFlight \cup InMap

Registry == INSTANCE NameRegistry

\* Mutant: the buffers stay in the raw data.
KeepInData(n) == m_data

\* getCollectionBuffers moves the buffers out of the raw data.
TakeOut(n) == m_data \ {n}

\* Mutants: a moved-from pointer, insert_or_assign, or no insertion at all.
MovedFrom(entry) == IF entry = "absent" THEN "nullptr" ELSE entry
Assigned(entry) == "file"
NotEmplaced(entry) == entry

\* m_collections.emplace: what is there stays.
Emplaced(entry) == IF entry = "absent" THEN "file" ELSE entry

\* Mutant: a relation is set in any case.
Unchecked(found) == TRUE

\* setReferences stores the pointer or an empty relation.
Resolved(found) == found

-----------------------------------------------------------------------------
\* FrameModel(std::unique_ptr<FrameDataT>) takes the ID table from the data.
Init ==
    /\ m_data = RawNames
    /\ m_collections = [n \in Name |-> "absent"]
    /\ relations = [n \in Name |-> <<>>]
    /\ known = TableNames
    /\ m_retrievedIDs = {}
    /\ stack = [t \in Thread |-> <<>>]
    /\ call = [t \in Thread |-> [op |-> "none"]]

\* Frame::get(name).  The field absent is a history variable: whether the
\* Frame did not have the collection at the time of the call.
CallGet(t, n) ==
    /\ Idle(t)
    /\ stack' = [stack EXCEPT ![t] = <<Enter(n, TRUE)>>]
    /\ call' = [call EXCEPT ![t] = [op |-> "get", name |-> n,
                                    absent |-> n \notin Present,
                                    answer |-> "pending"]]
    /\ UNCHANGED <<m_data, m_collections, relations, known, m_retrievedIDs>>

\* doGet returns: to user code, or to the setReferences of the collection
\* below it, which stores the pointer or an empty relation.
Return(t, found) ==
    LET rest == Tail(stack[t]) IN
    /\ stack' = [stack EXCEPT ![t] = rest]
    /\ \/ /\ rest = <<>>
          /\ call' = [call EXCEPT ![t].answer = IF found THEN "found" ELSE "null"]
          /\ UNCHANGED relations
       \/ /\ rest # <<>>
          /\ relations' = [relations EXCEPT ![Head(rest).name] = Append(@, Resolved(found))]
          /\ UNCHANGED call

\* Mutant: doGet waits for the references of a collection in the map.
LookupComplete(t) ==
    /\ At(t, "lookup")
    /\ \/ /\ Top(t).name \in InMap
          /\ ~\E s \in Thread : \E i \in 1..Len(stack[s]) :
                stack[s][i].pc = "relations" /\ stack[s][i].name = Top(t).name
          /\ Return(t, TRUE)
       \/ Top(t).name \notin InMap /\ Goto(t, "unpack") /\ UNCHANGED <<relations, call>>
    /\ UNCHANGED <<m_data, m_collections, known, m_retrievedIDs>>

\* doGet, first critical section: the collection may be in the map already.
Lookup(t) ==
    /\ At(t, "lookup")
    /\ \/ Top(t).name \in InMap /\ Return(t, TRUE)
       \/ Top(t).name \notin InMap /\ Goto(t, "unpack") /\ UNCHANGED <<relations, call>>
    /\ UNCHANGED <<m_data, m_collections, known, m_retrievedIDs>>

\* doGet, second critical section: getCollectionBuffers takes the buffers out
\* of the raw data; without buffers doGet returns a nullptr.
Unpack(t) ==
    /\ At(t, "unpack")
    /\ \/ /\ Top(t).name \in m_data
          /\ m_data' = TakeOut(Top(t).name)
          /\ Goto(t, "emplace")
          /\ UNCHANGED <<relations, call>>
       \/ /\ Top(t).name \notin m_data
          /\ Return(t, FALSE)
          /\ UNCHANGED m_data
    /\ UNCHANGED <<m_collections, known, m_retrievedIDs>>

\* doGet, third critical section: the new collection goes into the map unless
\* a collection was put under its name meanwhile, which is then used instead.
Emplace(t) ==
    /\ At(t, "emplace")
    /\ m_collections' = [m_collections EXCEPT ![Top(t).name] =
                            Emplaced(@)]
    /\ \/ Top(t).setReferences /\ Goto(t, "relations") /\ UNCHANGED <<relations, call>>
       \/ ~Top(t).setReferences /\ Return(t, TRUE)
    /\ UNCHANGED <<m_data, known, m_retrievedIDs>>

\* The stored ObjectIDs setReferences goes through; a collection that was put
\* into the Frame has none.
Stored(n) == IF m_collections[n] = "file" THEN References[n] ELSE <<>>

NextTarget(t) == Stored(Top(t).name)[Len(relations[Top(t).name]) + 1]

\* Mutant: one relation too few.
MoreRelationsButLast(t) ==
    /\ At(t, "relations")
    /\ Len(relations[Top(t).name]) + 1 < Len(Stored(Top(t).name))

MoreRelations(t) ==
    /\ At(t, "relations")
    /\ Len(relations[Top(t).name]) < Len(Stored(Top(t).name))

\* get(collectionID): the ID table does not know the ID.
ResolveUnknown(t) ==
    /\ MoreRelations(t)
    /\ NextTarget(t) \notin known
    /\ relations' = [relations EXCEPT ![Top(t).name] = Append(@, Resolved(FALSE))]
    /\ UNCHANGED <<m_data, m_collections, known, m_retrievedIDs, stack, call>>

\* get(collectionID): insert finds the ID in m_retrievedIDs; the collection is
\* retrieved without setting its references.
ResolveSeen(t) ==
    /\ MoreRelations(t)
    /\ NextTarget(t) \in known \cap m_retrievedIDs
    /\ stack' = [stack EXCEPT ![t] = <<Enter(NextTarget(t), FALSE)>> \o @]
    /\ UNCHANGED <<m_data, m_collections, relations, known, m_retrievedIDs, call>>

\* get(collectionID): insert does not find the ID and goes on to link a node.
ResolveNew(t) ==
    /\ MoreRelations(t)
    /\ NextTarget(t) \in known \ m_retrievedIDs
    /\ stack' = [stack EXCEPT ![t] =
                    <<[Top(t) EXCEPT !.pc = "insert", !.seen = m_retrievedIDs]>> \o Tail(@)]
    /\ UNCHANGED <<m_data, m_collections, relations, known, m_retrievedIDs, call>>

\* The node is linked.  No mutex guards the set: a node another thread linked
\* at the same place since then may get lost.  The collection is retrieved and
\* its references are set.
InsertID(t) ==
    /\ At(t, "insert")
    /\ \E base \in {m_retrievedIDs, Top(t).seen} :
          m_retrievedIDs' = base \cup {NextTarget(t)}
    /\ stack' = [stack EXCEPT ![t] =
                    <<Enter(NextTarget(t), TRUE),
                      [Top(t) EXCEPT !.pc = "relations", !.seen = {}]>> \o Tail(@)]
    /\ UNCHANGED <<m_data, m_collections, relations, known, call>>

\* setReferences is through all stored ObjectIDs.
RelationsDone(t) ==
    /\ At(t, "relations")
    /\ ~MoreRelations(t)
    /\ Return(t, TRUE)
    /\ UNCHANGED <<m_data, m_collections, known, m_retrievedIDs>>

\* Frame::put.  Only the map is asked whether the name is free; the raw data
\* is not.
Put(t, n) ==
    /\ Idle(t)
    /\ n \notin InMap
    /\ m_collections' = [m_collections EXCEPT ![n] = "user"]
    /\ Registry!Register(n)
    /\ call' = [call EXCEPT ![t] = [op |-> "put", answer |-> "stored"]]
    /\ UNCHANGED <<m_data, relations, m_retrievedIDs, stack>>

\* Frame::put of a name that is in the map throws.
PutThrows(t, n) ==
    /\ Idle(t)
    /\ n \in InMap
    /\ call' = [call EXCEPT ![t] = [op |-> "put", answer |-> "throws"]]
    /\ UNCHANGED <<m_data, m_collections, relations, known, m_retrievedIDs, stack>>

\* Frame::getAvailableCollections holds both mutexes.
AvailableCollections(t) ==
    /\ Idle(t)
    /\ call' = [call EXCEPT ![t] = [op |-> "list", answer |-> m_data \cup InMap]]
    /\ UNCHANGED <<m_data, m_collections, relations, known, m_retrievedIDs, stack>>

\* A thread on its way through doGet.
Step(t) ==
    \/ Lookup(t)
    \/ Unpack(t)
    \/ Emplace(t)
    \/ ResolveUnknown(t)
    \/ ResolveSeen(t)
    \/ ResolveNew(t)
    \/ InsertID(t)
    \/ RelationsDone(t)

Next ==
    \E t \in Thread :
        \/ Step(t)
        \/ \E n \in GetNames : CallGet(t, n)
        \/ \E n \in PutNames : Put(t, n) \/ PutThrows(t, n)
        \/ AvailableCollections(t)

Spec == Init /\ [][Next]_vars

\* A thread inside doGet is scheduled again and again; no step waits for
\* anything but a mutex that its holder releases.
FairSpec == Spec /\ \A t \in Thread : WF_vars(Step(t))

-----------------------------------------------------------------------------
\* The types of the state of the Frame and of its threads.
TypeOK ==
    /\ m_data \in SUBSET Name
    /\ m_collections \in [Name -> Entry]
    /\ relations \in [Name -> Seq(BOOLEAN)]
    /\ known \in SUBSET Name
    /\ m_retrievedIDs \in SUBSET Name
    /\ stack \in [Thread -> Seq(Activation)]

\* The buffers of a collection are in one place: in the raw data, in the
\* hands of a single thread, or in the map.  A collection is never unpacked
\* twice.
BuffersOnce ==
    /\ m_data \cap InFlight = {}
    /\ \A s, t \in Thread :
          At(s, "emplace") /\ At(t, "emplace") /\ Top(s).name = Top(t).name => s = t
    /\ \A n \in Name : m_collections[n] = "file" => n \notin m_data \cup InFlight

\* A collection of the raw data never gets lost on its way into the map.
NothingLost == RawNames \subseteq Present

\* The activations, over all threads, that are in setReferences of a
\* collection; those below the top of a stack are too.
Setters(n) ==
    {x \in UNION {{t} \X (1..Len(stack[t])) : t \in Thread} :
        /\ stack[x[1]][x[2]].name = n
        /\ stack[x[1]][x[2]].pc \in {"relations", "insert"}}

\* setReferences of a collection is under way at most once, over all threads
\* and within the recursion of one thread over cyclic relations: two of them
\* would append to the same relation vectors.
OneSetter == \A n \in Name : \A x, y \in Setters(n) : x = y

\* A relation that was resolved to a pointer points to a collection that is
\* in the map, and there are no more relations than were stored.
RelationsValid ==
    \A n \in Name :
        /\ Len(relations[n]) <= Len(References[n])
        /\ \A i \in 1..Len(relations[n]) : relations[n][i] => References[n][i] \in InMap

\* What is in the map stays there, unchanged: the references user code got
\* from get and put, and the pointers in relations, stay valid.
KeepsEntries == \A n \in InMap : m_collections'[n] = m_collections[n]

EntriesStable == [][KeepsEntries]_vars

AllIdle == \A t \in Thread : Idle(t)

\* A relation is only left empty if the Frame did not have the collection the
\* relation points to when the data was read.
RelationsFound ==
    \A n \in Name : \A i \in 1..Len(relations[n]) :
        References[n][i] \in RawNames => relations[n][i]

\* Once no call is under way, all relations of an unpacked collection have
\* been resolved, and those that were left empty are so for a reason.
RelationsResolved ==
    /\ RelationsFound
    /\ AllIdle =>
        \A n \in Name :
            m_collections[n] = "file" => Len(relations[n]) = Len(References[n])

\* get returns a nullptr only for a collection that was not available when it
\* was called.
GetFindsAvailable ==
    \A t \in Thread :
        call[t].op = "get" /\ call[t].answer = "null" => call[t].absent

\* Every get returns, whatever cycles the relations have and whatever the
\* other threads do.
GetsReturn == \A t \in Thread : stack[t] # <<>> ~> stack[t] = <<>>

\* The Frame as its documentation describes it.
Contract == INSTANCE FrameContract WITH present <- Present, taken <- InMap

ContractSpec == Contract!FairSpec
=============================================================================
