-------------------------- MODULE CollectionStorage --------------------------
(***************************************************************************)
(* The storage of one generated collection and how it is turned into I/O   *)
(* buffers and back (python/templates/Collection.cc.jinja2,                *)
(* CollectionData.cc.jinja2).  The type has one OneToMany relation and one *)
(* OneToOne relation; more of them, and vector members, are handled alike. *)
(*                                                                         *)
(* User code creates objects inside or outside of the collection, relates  *)
(* them to each other and to objects of other collections, turns the empty *)
(* collection into a subset collection of such objects, and prepares it    *)
(* for writing.  A Frame can be written on several threads at once, while   *)
(* nobody changes it.  The values of the members are left out.             *)
(***************************************************************************)
EXTENDS Integers, Sequences, FiniteSets, Functions

CONSTANTS
    Thread,   \* the threads that write the Frame of the collection
    Obj,      \* the objects of the type of this collection
    Foreign,  \* objects that other collections track
    MaxRel,   \* bound: the relations user code adds to an object, and the
              \* elements it adds to a subset collection
    MaxLeft,  \* bound: the rows left in m_data by calls of prepareForWrite
              \* that threw, when another one is called
    Null      \* a OneToOne relation that was not set

ASSUME StorageAssumption == MaxRel \in Nat /\ MaxLeft \in Nat /\ Null \notin Obj \cup Foreign

VARIABLES
    obj,              \* per object: its memory, id.index and its relations
    entries,          \* the objects in the collection
    m_isSubsetColl,
    m_rel_tmp,        \* the relation vectors the collection took over, named
                      \* by the object they belong to
    hasData,          \* m_data is not a nullptr
    m_data,           \* the data buffer: the object and its range of relations
    m_refCollections, \* the ObjectIDs of the OneToMany and of the OneToOne
                      \* relation, or those of the objects of a subset
    m_isPrepared,
    checked,          \* the threads in prepareForWrite, between its two locks
    outcome,          \* of the last prepareForWrite: "ok", "threw" or "wild",
                      \* when it used memory that is not there
    unchanged         \* history: no change since the last successful one

vars == <<obj, entries, m_isSubsetColl, m_rel_tmp, hasData, m_data,
          m_refCollections, m_isPrepared, checked, outcome, unchanged>>
buffers == <<hasData, m_data, m_refCollections, m_isPrepared, checked, outcome>>
contents == <<obj, entries, m_isSubsetColl, m_rel_tmp>>

Target == Obj \cup Foreign
untracked == -1

Alive == Foreign \cup {o \in Obj : obj[o].memory = "live"}
Related(o) == {obj[o].many[i] : i \in 1..Len(obj[o].many)} \cup {obj[o].one}

\* getObjectID
ObjectID(x) ==
    IF x = Null THEN <<"invalid">>
    ELSE IF x \in Foreign THEN <<"foreign", x>>
    ELSE IF obj[x].index = untracked THEN <<"untracked">>
    ELSE <<"own", obj[x].index>>

NewObj(i) == [memory |-> "live", index |-> i, many |-> <<>>, one |-> Null]

-----------------------------------------------------------------------------
Init ==
    /\ obj = [o \in Obj |-> [memory |-> "none", index |-> untracked,
                             many |-> <<>>, one |-> Null]]
    /\ entries = <<>>
    /\ m_isSubsetColl = FALSE
    /\ m_rel_tmp = <<>>
    /\ hasData = TRUE
    /\ m_data = <<>>
    /\ m_refCollections = <<<<>>, <<>>>>
    /\ m_isPrepared = FALSE
    /\ checked = {}
    /\ outcome = "ok"
    /\ unchanged = FALSE

\* The constructor of a mutable object.
MakeObject(o) ==
    /\ obj[o].memory = "none"
    /\ obj' = [obj EXCEPT ![o] = NewObj(untracked)]
    /\ UNCHANGED <<entries, m_isSubsetColl, m_rel_tmp, unchanged>>
    /\ UNCHANGED buffers

\* The collection takes an object and its relation vectors over.
Track(o) ==
    /\ obj' = [obj EXCEPT ![o] = [@ EXCEPT !.memory = "live", !.index = Len(entries)]]
    /\ entries' = Append(entries, o)
    /\ m_rel_tmp' = Append(m_rel_tmp, o)
    /\ unchanged' = FALSE
    /\ UNCHANGED m_isSubsetColl
    /\ UNCHANGED buffers

\* Collection::create; a subset collection throws.
Create(o) ==
    /\ ~m_isSubsetColl
    /\ obj[o].memory = "none"
    /\ Track(o)

\* Collection::push_back; an object that is in the collection already is
\* refused with an exception.
PushBack(o) ==
    /\ ~m_isSubsetColl
    /\ obj[o].memory = "live"
    /\ obj[o].index = untracked
    /\ Track(o)

\* push_back of a subset collection only takes objects that are tracked, here
\* those of another collection of the same type.
PushBackTracked(x) ==
    /\ m_isSubsetColl
    /\ Len(entries) < MaxRel
    /\ entries' = Append(entries, x)
    /\ unchanged' = FALSE
    /\ UNCHANGED <<obj, m_isSubsetColl, m_rel_tmp>>
    /\ UNCHANGED buffers

\* setSubsetCollection(true), which a normal collection with elements refuses;
\* a subset collection loses the ObjectIDs that were prepared for it.
MakeSubset ==
    /\ m_isSubsetColl \/ entries = <<>>
    /\ m_isSubsetColl' = TRUE
    /\ hasData' = FALSE
    /\ m_data' = <<>>
    /\ m_refCollections' = <<<<>>>>
    /\ unchanged' = FALSE
    /\ UNCHANGED <<obj, entries, m_rel_tmp, m_isPrepared, checked, outcome>>

\* setSubsetCollection(false) of a subset collection without elements.
MakeNormal ==
    /\ m_isSubsetColl
    /\ entries = <<>>
    /\ m_isSubsetColl' = FALSE
    /\ unchanged' = FALSE
    /\ UNCHANGED <<obj, entries, m_rel_tmp>>
    /\ UNCHANGED buffers

\* The adder of the OneToMany relation; data.end counts the vector's elements.
AddRelation(o, x) ==
    /\ obj[o].memory = "live"
    /\ x \in Alive
    /\ Len(obj[o].many) < MaxRel
    /\ obj' = [obj EXCEPT ![o].many = Append(@, x)]
    /\ unchanged' = FALSE
    /\ UNCHANGED <<entries, m_isSubsetColl, m_rel_tmp>>
    /\ UNCHANGED buffers

\* The setter of the OneToOne relation.
SetRelation(o, x) ==
    /\ obj[o].memory = "live"
    /\ x \in Alive
    /\ obj[o].one # x
    /\ obj' = [obj EXCEPT ![o].one = x]
    /\ unchanged' = FALSE
    /\ UNCHANGED <<entries, m_isSubsetColl, m_rel_tmp>>
    /\ UNCHANGED buffers

Elems == Range(entries)

\* Mutant: clear forgets the vectors.
NotEmptied(s) == s

\* clear of a vector
Emptied(s) == <<>>

\* Collection::clear; a subset collection does not own its objects.  User
\* code does not keep relations to the objects that are deleted here.
Clear ==
    /\ \A o \in Alive \cap (Obj \ Elems) : Related(o) \cap Elems \cap Obj = {}
    /\ obj' = [o \in Obj |-> IF o \in Elems THEN [obj[o] EXCEPT !.memory = "deleted"]
                             ELSE obj[o]]
    /\ entries' = <<>>
    /\ m_rel_tmp' = Emptied(m_rel_tmp)
    /\ m_data' = Emptied(m_data)
    /\ m_refCollections' = [k \in DOMAIN m_refCollections |-> <<>>]
    /\ m_isPrepared' = FALSE
    /\ outcome' = "ok"
    /\ unchanged' = FALSE
    /\ UNCHANGED <<m_isSubsetColl, hasData, checked>>

\* m_data->push_back(obj->data): appended to what the buffer holds.
Appended ==
    m_data \o [i \in 1..Len(entries) |->
                  [of |-> entries[i], begin |-> 0, end |-> Len(obj[entries[i]].many)]]

\* Where the range of row i ends, which is where that of the next one begins.
RangeEnd(rows) ==
    LET end[i \in 0..Len(rows)] == IF i = 0 THEN 0 ELSE end[i-1] + rows[i].end
    IN end

\* The rows that have got their range when the loop is left in row n.
Ranged(rows, n) ==
    [i \in 1..Len(rows) |->
        IF i > n THEN rows[i]
        ELSE [rows[i] EXCEPT !.begin = RangeEnd(rows)[i-1], !.end = RangeEnd(rows)[i]]]

\* The ObjectIDs that row i adds to the buffer of the OneToMany relation: all
\* of them, or those before the first untracked one.
RowIDs(i) == [j \in 1..Len(obj[m_rel_tmp[i]].many) |-> ObjectID(obj[m_rel_tmp[i]].many[j])]

WrittenIDs(i) ==
    LET n == Len(RowIDs(i))
        upto == CHOOSE k \in 0..n :
                    /\ \A j \in 1..k : RowIDs(i)[j] # <<"untracked">>
                    /\ k = n \/ RowIDs(i)[k+1] = <<"untracked">>
    IN SubSeq(RowIDs(i), 1, upto)

Flattened(n) ==
    LET flat[i \in 0..n] == IF i = 0 THEN <<>> ELSE flat[i-1] \o WrittenIDs(i)
    IN flat[n]

\* The rows prepareForWrite cannot get past: without a relation vector, or
\* related to an object that is in no collection.
Unwritable(i) ==
    \/ i > Len(m_rel_tmp)
    \/ <<"untracked">> \in {RowIDs(i)[j] : j \in 1..Len(RowIDs(i))}

\* The first row that cannot be written, or 0.
FirstUnwritable(rows) ==
    LET bad == {i \in 1..Len(rows) : Unwritable(i)}
    IN IF bad = {} THEN 0 ELSE CHOOSE i \in bad : \A j \in bad : i <= j

\* The first check of prepareForWrite, under a lock of its own: a collection
\* that is prepared is left alone.
Check(t) ==
    /\ t \notin checked
    /\ ~m_isPrepared
    /\ checked' = checked \cup {t}
    /\ UNCHANGED <<hasData, m_data, m_refCollections, m_isPrepared, outcome,
                   unchanged, contents>>

\* Mutant: the second check is left out.
Needed(t) == t \in checked

\* The second check: no other thread has prepared the collection meanwhile.
StillNeeded(t) == t \in checked /\ ~m_isPrepared

\* The threads that find it prepared when they get the second lock.
AlreadyPrepared(t) ==
    /\ t \in checked
    /\ ~StillNeeded(t)
    /\ checked' = checked \ {t}
    /\ UNCHANGED <<hasData, m_data, m_refCollections, m_isPrepared, outcome,
                   unchanged, contents>>

Prepared(t) ==
    /\ m_isPrepared' = TRUE
    /\ checked' = checked \ {t}
    /\ outcome' = "ok"
    /\ unchanged' = TRUE
    /\ UNCHANGED <<hasData, contents>>

\* A subset collection stores the ObjectIDs of its objects and nothing else.
PrepareSubset(t) ==
    /\ StillNeeded(t)
    /\ m_isSubsetColl
    /\ m_refCollections' = <<[i \in 1..Len(entries) |-> ObjectID(entries[i])]>>
    /\ Prepared(t)
    /\ UNCHANGED m_data

\* A normal collection: the data and its ranges, the relations behind them.
PrepareForWrite(t) ==
    /\ StillNeeded(t)
    /\ ~m_isSubsetColl
    /\ hasData
    /\ FirstUnwritable(Appended) = 0
    /\ m_data' = Ranged(Appended, Len(Appended))
    /\ m_refCollections' = <<Flattened(Len(entries)),
                             [i \in 1..Len(entries) |-> ObjectID(obj[entries[i]].one)]>>
    /\ Prepared(t)

Failed(t, how) ==
    /\ outcome' = how
    /\ checked' = checked \ {t}
    /\ UNCHANGED <<m_isPrepared, unchanged, hasData, contents>>

\* A relation to an untracked object: the rows before it have been written.
PrepareThrows(t) ==
    LET first == FirstUnwritable(Appended) IN
    /\ StillNeeded(t)
    /\ Len(m_data) <= MaxLeft
    /\ ~m_isSubsetColl
    /\ hasData
    /\ first \in 1..Len(m_rel_tmp)
    /\ m_data' = Ranged(Appended, first)
    /\ m_refCollections' = <<Flattened(first), <<>>>>
    /\ Failed(t, "threw")

\* There is no data buffer, or rows without a relation vector: the data buffer
\* is not emptied first, so after an exception it has too many rows.
PrepareWild(t) ==
    /\ StillNeeded(t)
    /\ ~m_isSubsetColl
    /\ ~hasData \/ FirstUnwritable(Appended) > Len(m_rel_tmp)
    /\ Failed(t, "wild")
    /\ UNCHANGED <<m_data, m_refCollections>>

\* What user code does while no thread writes the Frame.
Change ==
    /\ checked = {}
    /\ \/ \E o \in Obj :
             \/ MakeObject(o)
             \/ Create(o)
             \/ PushBack(o)
             \/ \E x \in Target : AddRelation(o, x) \/ SetRelation(o, x)
       \/ \E x \in Foreign : PushBackTracked(x)
       \/ MakeSubset
       \/ MakeNormal
       \/ Clear

\* After a wild access anything may happen, and nothing is said of it.
Next ==
    /\ outcome # "wild"
    /\ \/ Change
       \/ \E t \in Thread :
             \/ Check(t)
             \/ AlreadyPrepared(t)
             \/ PrepareSubset(t)
             \/ PrepareForWrite(t)
             \/ PrepareThrows(t)
             \/ PrepareWild(t)

Spec == Init /\ [][Next]_vars

-----------------------------------------------------------------------------
\* What a reader makes of the buffers (prepareAfterRead, setReferences): the
\* relations of row i, or the objects of a subset collection.  The ObjectID of
\* an object that is in no collection leads to none: a OneToOne relation to it
\* becomes a nullptr.
ReadMany(i) == SubSeq(m_refCollections[1], m_data[i].begin + 1, m_data[i].end)
ReadOne(i) == LET id == m_refCollections[2][i] IN
              IF id = <<"untracked">> THEN ObjectID(Null) ELSE id
ReadSubset == m_refCollections[1]

ObjectIDs ==
    {<<"invalid">>, <<"untracked">>} \cup ({"foreign"} \X Foreign) \cup ({"own"} \X Nat)

\* The types of the objects, of the collection and of its buffers.
TypeOK ==
    /\ obj \in [Obj -> [memory : {"none", "live", "deleted"}, index : {untracked} \cup Nat,
                        many : Seq(Target), one : Target \cup {Null}]]
    /\ entries \in Seq(Target)
    /\ m_isSubsetColl \in BOOLEAN
    /\ m_rel_tmp \in Seq(Obj)
    /\ hasData \in BOOLEAN
    /\ m_data \in Seq([of : Obj, begin : Nat, end : Nat])
    /\ m_refCollections \in Seq(Seq(ObjectIDs))
    /\ m_isPrepared \in BOOLEAN
    /\ unchanged \in BOOLEAN
    /\ checked \subseteq Thread
    /\ outcome \in {"ok", "threw", "wild"}

\* The objects of a normal collection are alive and numbered by their
\* position, and the relation vectors it took over are those of its objects
\* in the same order: prepareForWrite indexes one by the positions of the
\* other.  A subset collection holds no relation vectors.
Aligned ==
    /\ TypeOK
    /\ IF m_isSubsetColl THEN m_rel_tmp = <<>>
       ELSE /\ m_rel_tmp = entries
            /\ \A i \in 1..Len(entries) :
                  obj[entries[i]].memory = "live" /\ obj[entries[i]].index = i - 1

\* The ranges of the rows are laid end to end over the whole buffer of the
\* OneToMany relation: nothing in it is unreachable, nothing is shared.
RangesTile ==
    m_isPrepared /\ hasData =>
        /\ \A i \in 1..Len(m_data) :
              m_data[i].begin = IF i = 1 THEN 0 ELSE m_data[i-1].end
        /\ Len(m_refCollections[1]) = IF m_data = <<>> THEN 0 ELSE m_data[Len(m_data)].end

\* What is read back from the buffers of a prepared collection is what user
\* code put into it: the same objects in the same order, with the same
\* OneToMany relations and the same OneToOne relations - but for those to an
\* object that is in no collection: a OneToMany relation to one is never
\* written, a OneToOne relation to one is, and reads back as not set.  That
\* holds whatever was cleared, or failed to be prepared, before, and on however
\* many threads the Frame is written.  The ranges leave nothing out, and no
\* thread that is late uses memory that is not there.
RoundTrip ==
    /\ RangesTile
    /\ m_isPrepared /\ unchanged => outcome = "ok"
    /\ m_isPrepared /\ unchanged =>
          IF m_isSubsetColl
          THEN ReadSubset = [i \in 1..Len(entries) |-> ObjectID(entries[i])]
          ELSE /\ Len(m_data) = Len(entries)
               /\ Len(m_refCollections[2]) = Len(entries)
               /\ \A i \in 1..Len(entries) :
                     LET many == obj[entries[i]].many
                         one == obj[entries[i]].one
                     IN
                     /\ m_data[i].of = entries[i]
                     /\ ReadMany(i) = [j \in 1..Len(many) |-> ObjectID(many[j])]
                     /\ \A j \in 1..Len(many) : ObjectID(many[j]) # <<"untracked">>
                     /\ ReadOne(i) = IF ObjectID(one) = <<"untracked">>
                                     THEN ObjectID(Null) ELSE ObjectID(one)
=============================================================================
