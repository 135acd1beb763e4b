---------------------- MODULE CollectionIDTable_proofs ----------------------
(***************************************************************************)
(* What CollectionIDTable.tla guarantees for any names, hash function,     *)
(* initial table and number of threads.                                    *)
(*                                                                         *)
(* The lookups only make sense if the two vectors agree, and a copy taken  *)
(* without the mutex, if no emplace_back ran into it, agrees with itself   *)
(* because it reads the IDs first: what CopiesAgree says of a copy between *)
(* its two reads is what makes the invariant inductive.                    *)
(***************************************************************************)
EXTENDS CollectionIDTable, FiniteSetTheorems, WellFoundedInduction, TLAPS

\* The mutex is held by one thread at most.
LockFree == inAdd = {} \/ \E t \in Thread : inAdd = {t}

\* The vectors agree, without counting: position by position, and one name is
\* waiting for its ID exactly while the mutex is held.
VectorsAgree ==
    /\ Distinct(m_names)
    /\ Len(m_names) = Len(m_collectionIDs) + (IF inAdd = {} THEN 0 ELSE 1)
    /\ \A i \in 1..Len(m_collectionIDs) : m_collectionIDs[i] = IDOf(m_names[i])

\* The names from the file stay in front, and they have their IDs.
FileFirst ==
    /\ Len(FileNames) <= Len(m_collectionIDs)
    /\ \A i \in 1..Len(FileNames) : m_names[i] = FileNames[i]

\* A copy's IDs are, position by position, those of the names that follow.
Agree(ids, names) ==
    /\ Len(ids) <= Len(names)
    /\ \A i \in 1..Len(ids) : ids[i] = IDOf(names[i])

CopiesAgree ==
    \A t \in Thread :
        /\ copy[t].state = "ids" => Agree(copy[t].ids, m_names)
        /\ copy[t].state \in {"names", "done"} => Agree(copy[t].ids, copy[t].names)

IInv == TypeOK /\ LockFree /\ VectorsAgree /\ FileFirst /\ CopiesAgree

-----------------------------------------------------------------------------
\* std::find returns the first position of an element that is there.
LEMMA FirstIndex ==
  ASSUME NEW S, NEW s \in Seq(S), NEW x \in Range(s)
  PROVE  /\ IndexOf(s, x) \in 1..Len(s)
         /\ s[IndexOf(s, x)] = x
         /\ \A j \in 1..(IndexOf(s, x) - 1) : s[j] # x
<1> DEFINE At == {i \in 1..Len(s) : s[i] = x}
<1>1. At \subseteq Nat /\ At # {}
  BY DEF Range
<1>2. PICK i \in At : \A j \in At : ~(<<j, i>> \in OpToRel(<, Nat))
  BY <1>1, WFMin, NatLessThanWellFounded
<1>3. \A j \in At : ~(j < i)
  BY <1>1, <1>2 DEF OpToRel
<1>4. i \in 1..Len(s) /\ s[i] = x /\ \A j \in 1..(i-1) : s[j] # x
  BY <1>1, <1>3
<1> QED
  BY <1>4 DEF IndexOf

\* In a sequence without duplicates an element is found where it is.
LEMMA OnlyIndex ==
  ASSUME NEW S, NEW s \in Seq(S), Distinct(s), NEW i \in 1..Len(s)
  PROVE  IndexOf(s, s[i]) = i
BY FirstIndex DEF Distinct, Range

\* The constructor establishes the invariant.
LEMMA InitIInv == Init => IInv
<1> SUFFICES ASSUME Init PROVE IInv
  OBVIOUS
<1>1. /\ m_names = FileNames /\ m_names \in Seq(Name) /\ Distinct(m_names)
      /\ m_collectionIDs = FileIDs /\ m_collectionIDs \in Seq(ID)
      /\ Len(m_collectionIDs) = Len(m_names) /\ Len(m_names) \in Nat
  BY FileAssumption DEF Init
<1>2. \A i \in 1..Len(m_collectionIDs) : m_collectionIDs[i] = IDOf(m_names[i])
  <2> SUFFICES ASSUME NEW i \in 1..Len(FileNames)
               PROVE  FileIDs[i] = IDOf(FileNames[i])
    BY <1>1
  <2>1. IndexOf(FileNames, FileNames[i]) = i
    BY <1>1, OnlyIndex
  <2>2. FileNames[i] \in Range(FileNames)
    BY <1>1 DEF Range
  <2> QED
    BY <2>1, <2>2 DEF IDOf
<1>3. /\ copy \in [Thread -> [state : {"none", "ids", "names", "done", "wild"},
                              ids : Seq(ID), names : Seq(Name)]]
      /\ \A t \in Thread : copy[t].state = "none"
  BY DEF Init, NoCopy
<1>4. CopiesAgree
  BY <1>3 DEF CopiesAgree
<1>5. inAdd = {}
  BY DEF Init
<1>6. VectorsAgree /\ FileFirst
  BY <1>1, <1>2, <1>5 DEF VectorsAgree, FileFirst
<1>7. TypeOK
  BY <1>1, <1>3, <1>5 DEF TypeOK
<1> QED
  BY <1>4, <1>5, <1>6, <1>7 DEF IInv, LockFree

\* A growing vector leaves a copy alone or makes it wild.
LEMMA CopiesRunInto ==
  ASSUME TypeOK, NEW at, RunInto(at)
  PROVE  /\ copy' \in [Thread -> [state : {"none", "ids", "names", "done", "wild"},
                                  ids : Seq(ID), names : Seq(Name)]]
         /\ \A t \in Thread : copy'[t] = copy[t] \/ copy'[t].state = "wild"
<1>1. PICK torn \in SUBSET {t \in Thread : copy[t].state = at} :
        copy' = [t \in Thread |-> IF t \in torn THEN [copy[t] EXCEPT !.state = "wild"]
                                                ELSE copy[t]]
  BY DEF RunInto
<1> QED
  BY <1>1 DEF TypeOK

LEMMA AddNameIInv ==
  ASSUME IInv, NEW t \in Thread, NEW n \in Name, AddName(t, n)
  PROVE  IInv'
<1>1. /\ m_names \in Seq(Name) /\ Len(m_names) \in Nat
      /\ m_collectionIDs \in Seq(ID) /\ Len(m_collectionIDs) \in Nat
  BY DEF IInv, TypeOK
<1>2. /\ m_names' \in Seq(Name)
      /\ Len(m_names') = Len(m_names) + 1
      /\ \A i \in 1..Len(m_names) : m_names'[i] = m_names[i]
      /\ m_names'[Len(m_names) + 1] = n
  <2>1. m_names' = EmplaceBack(m_names, n)
    BY DEF AddName
  <2> QED
    BY <1>1, <2>1 DEF EmplaceBack
<1>3. UNCHANGED m_collectionIDs /\ inAdd = {} /\ inAdd' = {t} /\ RunInto("names")
  BY DEF AddName
<1>4. /\ copy' \in [Thread -> [state : {"none", "ids", "names", "done", "wild"},
                               ids : Seq(ID), names : Seq(Name)]]
      /\ \A u \in Thread : copy'[u] = copy[u] \/ copy'[u].state = "wild"
  BY <1>3, CopiesRunInto DEF IInv
<1>5. TypeOK' /\ LockFree'
  BY <1>2, <1>3, <1>4 DEF IInv, TypeOK, LockFree
<1>6. Distinct(m_names')
  <2>1. \A i \in 1..Len(m_names) : m_names[i] # n
    BY DEF AddName, Range
  <2>2. Distinct(m_names)
    BY DEF IInv, VectorsAgree
  <2> QED
    BY <1>1, <1>2, <2>1, <2>2 DEF Distinct
<1>7. /\ Len(m_names) = Len(m_collectionIDs)
      /\ \A i \in 1..Len(m_collectionIDs) : m_collectionIDs[i] = IDOf(m_names[i])
  BY <1>1, <1>3 DEF IInv, VectorsAgree
<1>8. \A i \in 1..Len(m_names) : IDOf(m_names'[i]) = IDOf(m_names[i])
  BY <1>2
<1>9. VectorsAgree'
  BY <1>1, <1>2, <1>3, <1>6, <1>7, <1>8 DEF VectorsAgree
<1>10. FileFirst'
  <2>1. Len(FileNames) \in Nat
    BY FileAssumption
  <2> QED
    BY <1>1, <1>2, <1>3, <1>7, <2>1 DEF IInv, FileFirst
<1>11. CopiesAgree'
  <2> SUFFICES ASSUME NEW u \in Thread, copy'[u] = copy[u], copy[u].state = "ids"
               PROVE  Agree(copy[u].ids, m_names')
    BY <1>4 DEF IInv, CopiesAgree
  <2>1. /\ Len(copy[u].ids) <= Len(m_names)
        /\ \A i \in 1..Len(copy[u].ids) : copy[u].ids[i] = IDOf(m_names[i])
    BY DEF IInv, CopiesAgree, Agree
  <2>2. Len(copy[u].ids) \in Nat
    BY DEF IInv, TypeOK
  <2> QED
    BY SMTT(30), <1>1, <1>2, <1>8, <2>1, <2>2 DEF Agree
<1> QED
  BY <1>5, <1>9, <1>10, <1>11 DEF IInv

\* The name that waits for its ID is not one from the file: its ID is its hash.
LEMMA NewIDRight ==
  ASSUME IInv, NEW t \in Thread, AddID(t)
  PROVE  NewID(m_names) = IDOf(m_names[Len(m_names)]) /\ NewID(m_names) \in ID
<1> DEFINE last == m_names[Len(m_names)]
<1>1. /\ m_names \in Seq(Name) /\ Len(m_names) = Len(m_collectionIDs) + 1
      /\ Len(m_collectionIDs) \in Nat /\ Distinct(m_names)
  BY DEF IInv, TypeOK, AddID, VectorsAgree
<1>2. last \notin Range(FileNames)
  <2> SUFFICES ASSUME NEW i \in 1..Len(FileNames), FileNames[i] = last PROVE FALSE
    BY DEF Range
  <2>1. /\ m_names[i] = last /\ i \in 1..Len(m_collectionIDs)
    BY <1>1, FileAssumption DEF IInv, FileFirst
  <2>2. i \in 1..Len(m_names) /\ Len(m_names) \in 1..Len(m_names) /\ i # Len(m_names)
    BY <1>1, <2>1
  <2> QED
    BY <1>1, <2>1, <2>2 DEF Distinct
<1>3. last \in Name
  BY <1>1
<1> QED
  BY <1>2, <1>3, HashAssumption DEF NewID, IDOf

LEMMA AddIDIInv ==
  ASSUME IInv, NEW t \in Thread, AddID(t)
  PROVE  IInv'
<1>1. /\ m_names \in Seq(Name) /\ m_collectionIDs \in Seq(ID)
      /\ Len(m_collectionIDs) \in Nat
  BY DEF IInv, TypeOK
<1>2. /\ Len(m_names) = Len(m_collectionIDs) + 1
      /\ \A i \in 1..Len(m_collectionIDs) : m_collectionIDs[i] = IDOf(m_names[i])
  BY <1>1 DEF IInv, AddID, VectorsAgree
<1>3. NewID(m_names) = IDOf(m_names[Len(m_names)]) /\ NewID(m_names) \in ID
  BY NewIDRight
<1>4. /\ m_collectionIDs' \in Seq(ID)
      /\ Len(m_collectionIDs') = Len(m_collectionIDs) + 1
      /\ \A i \in 1..Len(m_collectionIDs) : m_collectionIDs'[i] = m_collectionIDs[i]
      /\ m_collectionIDs'[Len(m_collectionIDs) + 1] = NewID(m_names)
  <2>1. m_collectionIDs' = EmplaceBack(m_collectionIDs, NewID(m_names))
    BY DEF AddID
  <2> QED
    BY <1>1, <1>3, <2>1 DEF EmplaceBack
<1>5. UNCHANGED m_names /\ inAdd' = {} /\ RunInto("ids")
  BY DEF AddID
<1>6. /\ copy' \in [Thread -> [state : {"none", "ids", "names", "done", "wild"},
                               ids : Seq(ID), names : Seq(Name)]]
      /\ \A u \in Thread : copy'[u] = copy[u] \/ copy'[u].state = "wild"
  BY <1>5, CopiesRunInto DEF IInv
<1>7. TypeOK' /\ LockFree'
  BY <1>4, <1>5, <1>6 DEF IInv, TypeOK, LockFree
<1>8. CopiesAgree'
  BY <1>5, <1>6 DEF IInv, CopiesAgree
<1>9. VectorsAgree'
  <2>1. Distinct(m_names)
    BY DEF IInv, VectorsAgree
  <2>2. \A i \in 1..Len(m_collectionIDs') : m_collectionIDs'[i] = IDOf(m_names[i])
    BY <1>1, <1>2, <1>3, <1>4
  <2> QED
    BY <1>1, <1>2, <1>4, <1>5, <2>1, <2>2 DEF VectorsAgree
<1>10. FileFirst'
  BY <1>1, <1>4, <1>5, FileAssumption DEF IInv, FileFirst
<1> QED
  BY <1>7, <1>8, <1>9, <1>10 DEF IInv

LEMMA CopyIDsIInv ==
  ASSUME IInv, NEW t \in Thread, CopyIDs(t)
  PROVE  IInv'
<1> USE DEF IInv
<1>1. TypeOK'
  BY DEF CopyIDs, TypeOK
<1>2. LockFree' /\ VectorsAgree' /\ FileFirst'
  BY DEF CopyIDs, LockFree, VectorsAgree, FileFirst
<1>3. Len(m_collectionIDs) <= Len(m_names)
  BY DEF VectorsAgree, TypeOK
<1>4. CopiesAgree'
  BY <1>3 DEF CopyIDs, CopiesAgree, Agree, VectorsAgree, TypeOK
<1> QED
  BY <1>1, <1>2, <1>4

LEMMA CopyNamesIInv ==
  ASSUME IInv, NEW t \in Thread, CopyNames(t)
  PROVE  IInv'
<1> USE DEF IInv
<1>1. TypeOK'
  BY DEF CopyNames, TypeOK
<1>2. LockFree' /\ VectorsAgree' /\ FileFirst'
  BY DEF CopyNames, LockFree, VectorsAgree, FileFirst
<1>3. CopiesAgree'
  BY SMTT(30) DEF CopyNames, CopiesAgree, VectorsAgree, TypeOK
<1> QED
  BY <1>1, <1>2, <1>3

LEMMA CopyDoneIInv ==
  ASSUME IInv, NEW t \in Thread, CopyDone(t)
  PROVE  IInv'
BY DEF IInv, CopyDone, TypeOK, LockFree, VectorsAgree, FileFirst, CopiesAgree

LEMMA DropCopyIInv ==
  ASSUME IInv, NEW t \in Thread, DropCopy(t)
  PROVE  IInv'
BY DEF IInv, DropCopy, NoCopy, TypeOK, LockFree, VectorsAgree, FileFirst, CopiesAgree

\* The invariant is inductive.
LEMMA NextIInv == IInv /\ [Next]_vars => IInv'
<1> SUFFICES ASSUME IInv, [Next]_vars PROVE IInv'
  OBVIOUS
<1>1. CASE UNCHANGED vars
  BY <1>1 DEF vars, IInv, TypeOK, LockFree, VectorsAgree, FileFirst, CopiesAgree
<1>2. CASE Next
  <2> PICK t \in Thread :
        \/ \E n \in Name : AddName(t, n)
        \/ AddID(t) \/ CopyIDs(t) \/ CopyNames(t) \/ CopyDone(t) \/ DropCopy(t)
    BY <1>2 DEF Next
  <2> QED
    BY AddNameIInv, AddIDIInv, CopyIDsIInv, CopyNamesIInv,
       CopyDoneIInv, DropCopyIInv
<1> QED
  BY <1>1, <1>2

LEMMA Invariance == Spec => []IInv
BY InitIInv, NextIInv, PTL DEF Spec

-----------------------------------------------------------------------------
\* The table, its lock and the copies keep their types.
THEOREM TypeCorrect == Spec => []TypeOK
<1>1. IInv => TypeOK
  BY DEF IInv
<1> QED
  BY <1>1, Invariance, PTL

\* The two vectors of the table always agree (CollectionIDTable::add).
THEOREM TableConsistent == Spec => []Consistent
<1>1. ASSUME IInv PROVE Consistent
  <2>1. Cardinality(inAdd) = IF inAdd = {} THEN 0 ELSE 1
    BY <1>1, FS_EmptySet, FS_Singleton DEF IInv, LockFree
  <2> QED
    BY <1>1, <2>1 DEF IInv, VectorsAgree, Consistent, TypeOK
<1> QED
  BY <1>1, Invariance, PTL

\* A lookup by name in two vectors that agree gives the ID of the name.
LEMMA LookupRight ==
  ASSUME NEW ids \in Seq(ID), NEW names \in Seq(Name), NEW n \in Name,
         Agree(ids, names)
  PROVE  CollectionIDOf(ids, names, n) \subseteq {IDOf(n)}
<1>1. CASE n \in Range(names)
  <2>1. IndexOf(names, n) \in 1..Len(names) /\ names[IndexOf(names, n)] = n
    BY <1>1, FirstIndex
  <2>2. CASE IndexOf(names, n) > Len(ids)
    BY <2>2 DEF CollectionIDOf
  <2>3. CASE ~(IndexOf(names, n) > Len(ids))
    <3>1. IndexOf(names, n) \in 1..Len(ids)
      BY <2>1, <2>3
    <3>2. ids[IndexOf(names, n)] = IDOf(n)
      BY <2>1, <3>1 DEF Agree
    <3> QED
      BY <2>3, <3>2 DEF CollectionIDOf
  <2> QED
    BY <2>2, <2>3
<1>2. CASE n \notin Range(names)
  <2>1. IndexOf(names, n) = Len(names) + 1
    BY <1>2 DEF IndexOf
  <2>2. IndexOf(names, n) > Len(ids)
    BY <2>1 DEF Agree
  <2> QED
    BY <2>2 DEF CollectionIDOf
<1> QED
  BY <1>1, <1>2

\* A copy of the table taken without its mutex gives no wrong ID, unless an
\* emplace_back destroyed it while it was made (FrameModel::getIDTable).
THEOREM CopiesGiveRightIDs == Spec => []CopyIDsRight
<1>1. ASSUME IInv PROVE CopyIDsRight
  <2> SUFFICES ASSUME NEW t \in Thread, copy[t].state = "done", NEW n \in Name
               PROVE  CollectionIDOf(copy[t].ids, copy[t].names, n) \subseteq {IDOf(n)}
    BY DEF CopyIDsRight
  <2>1. copy[t].ids \in Seq(ID) /\ copy[t].names \in Seq(Name)
    BY <1>1 DEF IInv, TypeOK
  <2> QED
    BY <1>1, <2>1, LookupRight DEF IInv, CopiesAgree
<1> QED
  BY <1>1, Invariance, PTL

\* Looking a name up and then its ID leads back to it, but for collisions.
THEOREM LookupsRoundTrip == Spec => []RoundTrip
<1>1. ASSUME IInv PROVE RoundTrip
  <2> SUFFICES ASSUME NEW n \in Range(m_names),
                      NEW id \in CollectionIDOf(m_collectionIDs, m_names, n),
                      NEW back \in NameOf(m_collectionIDs, m_names, id),
                      inAdd = {}
               PROVE  IDOf(back) = IDOf(n) /\ back \in Range(m_names)
    BY DEF RoundTrip
  <2>1. /\ m_collectionIDs \in Seq(ID) /\ m_names \in Seq(Name)
        /\ Len(m_names) = Len(m_collectionIDs)
        /\ \A i \in 1..Len(m_collectionIDs) : m_collectionIDs[i] = IDOf(m_names[i])
    BY <1>1 DEF IInv, TypeOK, VectorsAgree
  <2>2. id = IDOf(n) /\ id \in Range(m_collectionIDs)
    <3>1. IndexOf(m_names, n) \in 1..Len(m_names) /\ m_names[IndexOf(m_names, n)] = n
      BY <2>1, FirstIndex
    <3>2. id = m_collectionIDs[IndexOf(m_names, n)]
      BY <2>1, <3>1 DEF CollectionIDOf
    <3> QED
      BY <2>1, <3>1, <3>2 DEF Range
  <2>3. /\ IndexOf(m_collectionIDs, id) \in 1..Len(m_names)
        /\ m_collectionIDs[IndexOf(m_collectionIDs, id)] = id
    BY <2>1, <2>2, FirstIndex
  <2>4. back = m_names[IndexOf(m_collectionIDs, id)]
    BY <2>1, <2>3 DEF NameOf
  <2> QED
    BY <2>1, <2>2, <2>3, <2>4 DEF Range
<1> QED
  BY <1>1, Invariance, PTL

-----------------------------------------------------------------------------
\* What a step does to the two vectors: nothing, or one of them grows.
LEMMA VectorsGrow ==
  ASSUME IInv, [Next]_vars
  PROVE  \/ UNCHANGED <<m_names, m_collectionIDs>>
         \/ \E n \in Name : /\ m_names' = Append(m_names, n)
                            /\ UNCHANGED m_collectionIDs
                            /\ n \notin Range(m_names)
         \/ /\ Len(m_names) = Len(m_collectionIDs) + 1
            /\ m_collectionIDs' = Append(m_collectionIDs, Hash[m_names[Len(m_names)]])
            /\ UNCHANGED m_names
<1>1. Len(m_collectionIDs) \in Nat
  BY DEF IInv, TypeOK
<1>2. CASE UNCHANGED vars
  BY <1>2 DEF vars
<1>3. ASSUME NEW t \in Thread, NEW n \in Name, AddName(t, n)
      PROVE  m_names' = Append(m_names, n) /\ UNCHANGED m_collectionIDs /\ n \notin Range(m_names)
  BY <1>3 DEF AddName, EmplaceBack
<1>4. ASSUME NEW t \in Thread, AddID(t)
      PROVE  /\ Len(m_names) = Len(m_collectionIDs) + 1
             /\ m_collectionIDs' = Append(m_collectionIDs, Hash[m_names[Len(m_names)]])
             /\ UNCHANGED m_names
  BY <1>1, <1>4 DEF AddID, IInv, VectorsAgree, EmplaceBack, NewID
<1>5. ASSUME NEW t \in Thread, CopyIDs(t) \/ CopyNames(t) \/ CopyDone(t) \/ DropCopy(t)
      PROVE  UNCHANGED <<m_names, m_collectionIDs>>
  BY <1>5 DEF CopyIDs, CopyNames, CopyDone, DropCopy
<1> QED
  BY <1>2, <1>3, <1>4, <1>5 DEF Next

\* A name that has an ID keeps it.
THEOREM IDsNeverChange == Spec => IDsStable
<1>1. ASSUME IInv, [Next]_vars, NEW n \in Name,
             CollectionIDOf(m_collectionIDs, m_names, n) # {}
      PROVE  CollectionIDOf(m_collectionIDs, m_names, n)'
                = CollectionIDOf(m_collectionIDs, m_names, n)
  <2> DEFINE i == IndexOf(m_names, n)
  <2>1. /\ m_names \in Seq(Name) /\ m_collectionIDs \in Seq(ID) /\ Distinct(m_names)
        /\ Len(m_names) \in Nat /\ Len(m_collectionIDs) \in Nat
        /\ Len(m_collectionIDs) <= Len(m_names)
    BY <1>1 DEF IInv, TypeOK, VectorsAgree
  <2>2. n \in Range(m_names)
    BY <1>1, <2>1 DEF CollectionIDOf, IndexOf
  <2>3. i \in 1..Len(m_names) /\ m_names[i] = n
    BY <2>1, <2>2, FirstIndex
  <2>4. i \in 1..Len(m_collectionIDs)
    BY <1>1, <2>1, <2>3 DEF CollectionIDOf
  <2>5. IInv'
    BY <1>1, NextIInv
  <2>6. /\ m_names' \in Seq(Name) /\ Distinct(m_names')
        /\ m_names'[i] = n /\ i \in 1..Len(m_names')
        /\ m_collectionIDs'[i] = m_collectionIDs[i] /\ i \in 1..Len(m_collectionIDs')
        /\ Len(m_collectionIDs') \in Nat
    <3>1. m_names' \in Seq(Name) /\ Distinct(m_names') /\ m_collectionIDs' \in Seq(ID)
      BY <2>5 DEF IInv, TypeOK, VectorsAgree
    <3> QED
      BY <1>1, <2>1, <2>3, <2>4, <3>1, VectorsGrow
  <2>7. IndexOf(m_names', n) = i
    BY <2>6, OnlyIndex
  <2>8. CollectionIDOf(m_collectionIDs', m_names', n) = {m_collectionIDs'[i]}
    BY <2>6, <2>7 DEF CollectionIDOf
  <2>9. CollectionIDOf(m_collectionIDs, m_names, n) = {m_collectionIDs[i]}
    BY <2>1, <2>4 DEF CollectionIDOf
  <2> QED
    BY <2>6, <2>8, <2>9
<1>2. IInv /\ [Next]_vars => [KeepsIDs]_vars
  BY <1>1 DEF KeepsIDs
<1> QED
  BY <1>2, Invariance, PTL DEF IDsStable, Spec

\* The table implements the registry of names (NameRegistry.tla).
THEOREM ImplementsRegistry == Spec => RegistrySpec
<1> DEFINE registered == {m_names[i] : i \in 1..Len(m_collectionIDs)}
<1>1. ASSUME IInv
      PROVE  /\ m_names \in Seq(Name) /\ m_collectionIDs \in Seq(ID)
             /\ Len(m_names) \in Nat /\ Len(m_collectionIDs) \in Nat
             /\ Len(m_collectionIDs) <= Len(m_names)
  BY <1>1 DEF IInv, TypeOK, VectorsAgree
<1>2. Init => Registry!Init
  <2> SUFFICES ASSUME Init PROVE registered \in SUBSET Name
    BY DEF Registry!Init
  <2> QED
    BY <1>1, InitIInv
<1>3. ASSUME IInv, [Next]_vars PROVE [Registry!Next]_registered
  <2>1. CASE UNCHANGED <<m_names, m_collectionIDs>>
    BY <2>1
  <2>2. ASSUME NEW n \in Name, m_names' = Append(m_names, n), UNCHANGED m_collectionIDs
        PROVE  registered' = registered
    BY <1>1, <1>3, <2>2
  <2>3. CASE /\ Len(m_names) = Len(m_collectionIDs) + 1
             /\ m_collectionIDs' = Append(m_collectionIDs, Hash[m_names[Len(m_names)]])
             /\ UNCHANGED m_names
    <3>1. Len(m_collectionIDs') = Len(m_collectionIDs) + 1
      BY <1>1, <1>3, <2>3
    <3>2. m_names[Len(m_names)] \in Name
      BY <1>1, <1>3, <2>3
    <3>3. registered' = registered \cup {m_names[Len(m_names)]}
      BY <1>1, <1>3, <2>3, <3>1
    <3> QED
      BY <3>2, <3>3 DEF Registry!Next, Registry!Register
  <2> QED
    BY <1>3, <2>1, <2>2, <2>3, VectorsGrow
<1> QED
  BY <1>2, <1>3, Invariance, PTL DEF RegistrySpec, Registry!Spec, Spec
=============================================================================
