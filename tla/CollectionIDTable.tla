-------------------------- MODULE CollectionIDTable --------------------------
(***************************************************************************)
(* The two parallel vectors that map collection names to collection IDs    *)
(* (include/podio/CollectionIDTable.h, src/CollectionIDTable.cc) and the   *)
(* copy FrameModel::getIDTable takes of them without the table's mutex.    *)
(*                                                                         *)
(* An ID is the 32 bit hash of the name, abstracted to a function Hash     *)
(* that need not be injective, or what the file says it is.  Copying a     *)
(* vector is not one step: a copy that another thread's emplace_back runs  *)
(* into (which moves the elements to a new buffer and frees the old one,   *)
(* or changes the end that is being read) is a data race.  It may still be *)
(* what the vector was when it started; otherwise it is "wild": nothing is *)
(* said of what it holds.                                                  *)
(***************************************************************************)
EXTENDS Naturals, Sequences, FiniteSets, Functions

CONSTANTS
    Name,       \* the collection names
    ID,         \* the 32 bit collection IDs
    Hash,       \* MurmurHash3_x86_32 with seed 0, as a function on Name
    FileNames,  \* the names of the table the constructor is given
    FileIDs,    \* their IDs, which need not be the hashes of the names
    Thread      \* the threads that use the table

Distinct(s) == \A i, j \in 1..Len(s) : s[i] = s[j] => i = j

ASSUME HashAssumption == Hash \in [Name -> ID]
ASSUME FileAssumption ==
    /\ FileNames \in Seq(Name) /\ Distinct(FileNames)
    /\ FileIDs \in Seq(ID) /\ Len(FileIDs) = Len(FileNames)

VARIABLES
    m_names,          \* the registered names
    m_collectionIDs,  \* their IDs, at the same positions
    inAdd,            \* the thread between the two emplace_back calls of add
    copy              \* per thread: the copy getIDTable is making

vars == <<m_names, m_collectionIDs, inAdd, copy>>

NoCopy == [state |-> "none", ids |-> <<>>, names |-> <<>>]

\* std::find on a vector: the first position of x, or one past the end.
IndexOf(s, x) ==
    IF x \in Range(s)
    THEN CHOOSE i \in 1..Len(s) : s[i] = x /\ \A j \in 1..(i-1) : s[j] # x
    ELSE Len(s) + 1

\* std::optional: the empty set or the singleton of the value.
\* name(): the position is looked up among the IDs and then compared with
\* the number of *names*.
NameOf(ids, names, id) ==
    LET i == IndexOf(ids, id) IN IF i > Len(names) THEN {} ELSE {names[i]}

\* collectionID(): the position is looked up among the names and then
\* compared with the number of *IDs*.
CollectionIDOf(ids, names, n) ==
    LET i == IndexOf(names, n) IN IF i > Len(ids) THEN {} ELSE {ids[i]}

\* The copies that are at this vector when it grows: each of them may be lost.
RunInto(at) == \E torn \in SUBSET {t \in Thread : copy[t].state = at} :
    copy' = [t \in Thread |-> IF t \in torn THEN [copy[t] EXCEPT !.state = "wild"]
                                             ELSE copy[t]]

\* Mutant: the vectors grow at the wrong end.
EmplaceFront(s, x) == <<x>> \o s

\* emplace_back
EmplaceBack(s, x) == Append(s, x)

\* Mutants: the name itself, or the hash of the wrong name.
NameAsID(names) == names[Len(names)]
FirstID(names) == Hash[names[1]]

\* The ID add computes for the name it has just appended.
NewID(names) == Hash[names[Len(names)]]

-----------------------------------------------------------------------------
\* The constructor from an existing mapping; the empty table is the case of
\* the empty sequence.
Init ==
    /\ m_names = FileNames
    /\ m_collectionIDs = FileIDs
    /\ inAdd = {}
    /\ copy = [t \in Thread |-> NoCopy]

\* Mutant: present is not asked.
AddAnyName(t, n) ==
    /\ inAdd = {}
    /\ m_names' = EmplaceBack(m_names, n)
    /\ inAdd' = {t}
    /\ RunInto("names")
    /\ UNCHANGED m_collectionIDs

\* add: the mutex is taken and a new name is appended.
AddName(t, n) ==
    /\ inAdd = {}
    /\ n \notin Range(m_names)
    /\ m_names' = EmplaceBack(m_names, n)
    /\ inAdd' = {t}
    /\ RunInto("names")
    /\ UNCHANGED m_collectionIDs

\* add: its hash follows and the mutex is released.
AddID(t) ==
    /\ t \in inAdd
    /\ m_collectionIDs' = EmplaceBack(m_collectionIDs, NewID(m_names))
    /\ inAdd' = {}
    /\ RunInto("ids")
    /\ UNCHANGED m_names

\* getIDTable: the constructor of the copy initialises its members in the
\* order of their declaration: it starts with the IDs ...
CopyIDs(t) ==
    /\ t \notin inAdd
    /\ copy[t].state = "none"
    /\ copy' = [copy EXCEPT ![t] =
                   [state |-> "ids", ids |-> m_collectionIDs, names |-> <<>>]]
    /\ UNCHANGED <<m_names, m_collectionIDs, inAdd>>

\* ... goes on with the names when it has them ...
CopyNames(t) ==
    /\ copy[t].state = "ids"
    /\ copy' = [copy EXCEPT ![t].state = "names", ![t].names = m_names]
    /\ UNCHANGED <<m_names, m_collectionIDs, inAdd>>

\* ... and has both; the mutex is taken at no time.
CopyDone(t) ==
    /\ copy[t].state = "names"
    /\ copy' = [copy EXCEPT ![t].state = "done"]
    /\ UNCHANGED <<m_names, m_collectionIDs, inAdd>>

\* The caller is done with its copy.
DropCopy(t) ==
    /\ copy[t].state \in {"done", "wild"}
    /\ copy' = [copy EXCEPT ![t] = NoCopy]
    /\ UNCHANGED <<m_names, m_collectionIDs, inAdd>>

\* A thread that is copying the table does nothing else.
Next ==
    \E t \in Thread :
        \/ copy[t].state = "none" /\ \E n \in Name : AddName(t, n)
        \/ AddID(t)
        \/ CopyIDs(t)
        \/ CopyNames(t)
        \/ CopyDone(t)
        \/ DropCopy(t)

Spec == Init /\ [][Next]_vars

-----------------------------------------------------------------------------
\* The types of the table, of its lock and of the copies.
TypeOK ==
    /\ m_names \in Seq(Name)
    /\ m_collectionIDs \in Seq(ID)
    /\ inAdd \in SUBSET Thread
    /\ copy \in [Thread -> [state : {"none", "ids", "names", "done", "wild"},
                            ids : Seq(ID), names : Seq(Name)]]

\* The ID a name has or will have: the one in the file, or else its hash.
IDOf(n) == IF n \in Range(FileNames) THEN FileIDs[IndexOf(FileNames, n)] ELSE Hash[n]

\* No name is registered twice, position i of the IDs is the ID of the name
\* at position i (the file's, if it has the name), and the vectors differ in
\* length exactly while a thread is inside add.
Consistent ==
    /\ Distinct(m_names)
    /\ Len(m_names) = Len(m_collectionIDs) + Cardinality(inAdd)
    /\ \A i \in 1..Len(m_collectionIDs) :
          i <= Len(m_names) /\ m_collectionIDs[i] = IDOf(m_names[i])

\* Outside add, a lookup by name and the lookup by the ID it returns lead to
\* a name with the same ID, and back to the very same name unless the IDs of
\* two registered names collide.
RoundTrip ==
    inAdd = {} =>
        \A n \in Range(m_names) :
            \A id \in CollectionIDOf(m_collectionIDs, m_names, n) :
                \A back \in NameOf(m_collectionIDs, m_names, id) :
                    /\ IDOf(back) = IDOf(n)
                    /\ (\A m \in Range(m_names) : IDOf(m) = IDOf(n) => m = n)
                          => back = n

\* A name that has an ID keeps it: lookups by a name that succeeded go on
\* returning the same ID, whatever is registered later.
KeepsIDs ==
    \A n \in Name :
        LET id == CollectionIDOf(m_collectionIDs, m_names, n) IN id # {} => id' = id

IDsStable == [][KeepsIDs]_vars

\* Looking up a name in a copy never gives a wrong ID, even if other threads
\* were inside add when it was taken or added names between its two vectors:
\* the copy has at least as many names as IDs, so a name without its ID is
\* reported as unknown.  This is said of the copies no emplace_back ran into:
\* of a "wild" one nothing can be.
CopyIDsRight ==
    \A t \in Thread :
        copy[t].state = "done" =>
            \A n \in Name :
                CollectionIDOf(copy[t].ids, copy[t].names, n) \subseteq {IDOf(n)}

-----------------------------------------------------------------------------
\* The table implements the registry: a name is known once it has its ID.
Registry == INSTANCE NameRegistry
                WITH known <- {m_names[i] : i \in 1..Len(m_collectionIDs)}

RegistrySpec == Registry!Spec
=============================================================================
