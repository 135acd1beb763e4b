--------------------------- MODULE Storage_proofs ---------------------------
(***************************************************************************)
(* What CollectionStorage.tla guarantees for any objects, any relations    *)
(* between them and any number of threads, and RNTupleFile.tla for any     *)
(* Frames, files and entries.  Both lay sequences end to end and have to   *)
(* find the parts again.                                                   *)
(*                                                                         *)
(* The argument for RoundTrip: prepareForWrite only reaches its end when   *)
(* m_data was empty (AllWritable), so the row with index i is that of the  *)
(* object at position i, whose relation vector is the i-th one (Parallel). *)
(* The relations of the rows then lie end to end in their buffer, and so   *)
(* do the ranges of the rows (WrittenBack, from Segments); what changes    *)
(* the contents afterwards resets "unchanged".  The recursive functions of *)
(* the model are given their equations, and are reasoned about, by an      *)
(* induction over the natural numbers that the well-founded order of       *)
(* numbers gives.                                                          *)
(*                                                                         *)
(* The argument for AnswersRight: the files that are open for a category   *)
(* are those with an RNTuple of it among the first ones that were opened   *)
(* (OpenedAs).  They have all the entries of these first files (KeptRows), *)
(* with which the entries of all files start (UptoStarts), so that the     *)
(* reader finds an entry (Located) where it is in all of them.             *)
(***************************************************************************)
EXTENDS CollectionStorage, RNTupleFile, FiniteSetTheorems, WellFoundedInduction, TLAPS

\* A non-empty set of natural numbers has a least one.
LEMMA LeastNumber ==
  ASSUME NEW S \in SUBSET Nat, S # {}
  PROVE  \E m \in S : \A k \in S : m <= k
<1> DEFINE R == OpToRel(<, Nat)
<1>1. IsWellFoundedOn(R, Nat)
  BY NatLessThanWellFounded
<1>2. ASSUME NEW k \in Nat, NEW m \in Nat, k < m
      PROVE  <<k, m>> \in R
  BY <1>2 DEF OpToRel
<1> HIDE DEF R
<1>3. PICK m \in S : \A k \in S : <<k, m>> \notin R
  BY <1>1, WFMin
<1>4. \A k \in S : ~(k < m)
  BY <1>2, <1>3
<1>5. \A k \in S : m <= k
  BY <1>4
<1> QED
  BY <1>5

\* A set with 0 and the successors of its numbers has all natural numbers.
LEMMA Induction ==
  ASSUME NEW S, 0 \in S, \A n \in Nat : n \in S => n + 1 \in S
  PROVE  \A n \in Nat : n \in S
<1> SUFFICES ASSUME Nat \ S # {}
             PROVE  FALSE
  OBVIOUS
<1>1. PICK m \in Nat \ S : \A k \in Nat \ S : m <= k
  BY LeastNumber
<1>2. m # 0 /\ m - 1 \in Nat /\ m - 1 \in S
  BY <1>1
<1> QED
  BY <1>1, <1>2

\* A function over 1..n is a sequence.
LEMMA IsASequence ==
  ASSUME NEW T, NEW n \in Nat, NEW s, s = [i \in 1..n |-> s[i]], \A i \in 1..n : s[i] \in T
  PROVE  s \in Seq(T) /\ Len(s) = n
  OBVIOUS

\* A row of m_data.
Row == [of : Obj, begin : Nat, end : Nat]

\* The recursive function RangeEnd is defined by its equation.
LEMMA RangeEndIs ==
  ASSUME NEW rows \in Seq(Row)
  PROVE  RangeEnd(rows) = [i \in 0..Len(rows) |->
                             IF i = 0 THEN 0 ELSE RangeEnd(rows)[i-1] + rows[i].end]
<1> DEFINE Is(f, m) == f = [i \in 0..m |-> IF i = 0 THEN 0 ELSE f[i-1] + rows[i].end]
           S == {m \in Nat : \E f : Is(f, m)}
<1>1. 0 \in S
  <2>1. Is([i \in 0..0 |-> 0], 0)
    OBVIOUS
  <2> QED
    BY <2>1
<1>2. ASSUME NEW m \in Nat, m \in S
      PROVE  m + 1 \in S
  <2>1. PICK f : Is(f, m)
    BY <1>2
  <2> DEFINE g == [i \in 0..m+1 |-> IF i <= m THEN f[i] ELSE f[m] + rows[m+1].end]
  <2>2. Is(g, m+1)
    BY <2>1
  <2> HIDE DEF g, Is
  <2> QED
    BY <2>2
<1>3. Len(rows) \in S
  <2> HIDE DEF S
  <2> QED
    BY <1>1, <1>2, Induction
<1>4. \E f : Is(f, Len(rows))
  BY <1>3
<1>5. Is(RangeEnd(rows), Len(rows))
  BY <1>4, Zenon DEF RangeEnd
<1> QED
  BY <1>5

\* The range of row i ends its number of relations after that of row i-1.
LEMMA RangeEndStep ==
  ASSUME NEW rows \in Seq(Row)
  PROVE  /\ RangeEnd(rows)[0] = 0
         /\ \A i \in 1..Len(rows) : RangeEnd(rows)[i] = RangeEnd(rows)[i-1] + rows[i].end
<1> DEFINE e == RangeEnd(rows)
           l == Len(rows)
<1>1. l \in Nat /\ e = [i \in 0..l |-> IF i = 0 THEN 0 ELSE e[i-1] + rows[i].end]
  BY RangeEndIs
<1> HIDE DEF e, l
<1>2. e[0] = 0 /\ \A i \in 1..l : e[i] = e[i-1] + rows[i].end
  BY <1>1
<1> QED
  BY <1>2 DEF e, l

\* The ends of the ranges are natural numbers.
LEMMA RangeEndType ==
  ASSUME NEW rows \in Seq(Row)
  PROVE  \A i \in 0..Len(rows) : RangeEnd(rows)[i] \in Nat
<1> DEFINE S == {i \in Nat : i <= Len(rows) => RangeEnd(rows)[i] \in Nat}
<1>1. 0 \in S
  BY RangeEndIs
<1>2. ASSUME NEW i \in Nat, i \in S
      PROVE  i + 1 \in S
  <2> SUFFICES ASSUME i + 1 <= Len(rows)
               PROVE  RangeEnd(rows)[i+1] \in Nat
    OBVIOUS
  <2>1. RangeEnd(rows)[i+1] = RangeEnd(rows)[i] + rows[i+1].end
    BY RangeEndIs
  <2>2. rows[i+1] \in Row
    OBVIOUS
  <2>3. rows[i+1].end \in Nat
    BY <2>2 DEF Row
  <2> QED
    BY <1>2, <2>1, <2>3
<1>3. \A i \in Nat : i \in S
  <2> HIDE DEF S
  <2> QED
    BY <1>1, <1>2, Induction
<1> QED
  BY <1>3

\* The rows stay rows, as many of them, when they get their ranges.
LEMMA RangedType ==
  ASSUME NEW rows \in Seq(Row), NEW n \in Nat
  PROVE  Ranged(rows, n) \in Seq(Row) /\ Len(Ranged(rows, n)) = Len(rows)
<1>1. ASSUME NEW i \in 1..Len(rows)
      PROVE  /\ rows[i] \in Row
             /\ [rows[i] EXCEPT !.begin = RangeEnd(rows)[i-1], !.end = RangeEnd(rows)[i]] \in Row
  <2>1. rows[i] \in Row
    OBVIOUS
  <2>2. RangeEnd(rows)[i-1] \in Nat /\ RangeEnd(rows)[i] \in Nat
    BY RangeEndType
  <2> QED
    BY <2>1, <2>2 DEF Row
<1>2. Ranged(rows, n) = [i \in 1..Len(rows) |->
        IF i > n THEN rows[i]
        ELSE [rows[i] EXCEPT !.begin = RangeEnd(rows)[i-1], !.end = RangeEnd(rows)[i]]]
  BY DEF Ranged
<1>3. ASSUME NEW i \in 1..Len(rows)
      PROVE  Ranged(rows, n)[i] \in Row
  BY <1>1, <1>2
<1>4. Ranged(rows, n) = [i \in 1..Len(rows) |-> Ranged(rows, n)[i]]
  BY <1>2
<1> QED
  BY <1>3, <1>4, IsASequence

\* Flattened, row by row.
LEMMA FlattenedIs ==
  /\ Flattened(0) = <<>>
  /\ \A n \in Nat : Flattened(n+1) = Flattened(n) \o WrittenIDs(n+1)
<1> DEFINE Cat(s, i) == s \o WrittenIDs(i)
           Is(f, m) == f = [i \in 0..m |-> IF i = 0 THEN <<>> ELSE Cat(f[i-1], i)]
           F(m) == CHOOSE f : Is(f, m)
           S == {m \in Nat : \E f : Is(f, m)}
<1>1. \A m \in Nat : Flattened(m) = F(m)[m]
  BY Zenon DEF Flattened
<1> HIDE DEF Cat
<1>2. 0 \in S
  <2>1. Is([i \in 0..0 |-> <<>>], 0)
    OBVIOUS
  <2> QED
    BY <2>1
<1>3. ASSUME NEW m \in Nat, m \in S
      PROVE  m + 1 \in S
  <2>1. PICK f : Is(f, m)
    BY <1>3
  <2> DEFINE g == [i \in 0..m+1 |-> IF i <= m THEN f[i] ELSE Cat(f[m], m+1)]
  <2>2. Is(g, m+1)
    BY <2>1
  <2> HIDE DEF g, Is
  <2> QED
    BY <2>2
<1>4. \A m \in Nat : Is(F(m), m)
  <2>1. \A m \in Nat : m \in S
    <3> HIDE DEF S
    <3> QED
      BY <1>2, <1>3, Induction
  <2> QED
    BY <2>1, Zenon
<1> HIDE DEF F
<1>5. \A m \in Nat : F(m)[0] = <<>> /\ \A i \in 0..m-1 : F(m)[i+1] = Cat(F(m)[i], i+1)
  BY <1>4
<1>6. ASSUME NEW n \in Nat
      PROVE  F(n)[n] = F(n+1)[n]
  <2> DEFINE T == {i \in Nat : i <= n => F(n)[i] = F(n+1)[i]}
  <2>1. 0 \in T
    BY <1>5
  <2>2. \A i \in Nat : i \in T => i + 1 \in T
    BY <1>5
  <2>3. n \in T
    <3> HIDE DEF T
    <3> QED
      BY <2>1, <2>2, Induction
  <2> QED
    BY <2>3
<1>7. Flattened(0) = <<>>
  BY <1>1, <1>5
<1>8. ASSUME NEW n \in Nat
      PROVE  Flattened(n+1) = Cat(Flattened(n), n+1)
  BY <1>1, <1>5, <1>6
<1> QED
  BY <1>7, <1>8 DEF Cat

\* getObjectID returns an ObjectID.
LEMMA ObjectIDType ==
  ASSUME TypeOK, NEW x \in Target \cup {Null}
  PROVE  ObjectID(x) \in ObjectIDs
  BY DEF ObjectID, ObjectIDs, TypeOK, Target, untracked

\* The ObjectIDs of the relations of row i.
LEMMA RowIDsType ==
  ASSUME TypeOK, NEW i \in 1..Len(m_rel_tmp)
  PROVE  /\ RowIDs(i) \in Seq(ObjectIDs)
         /\ Len(RowIDs(i)) = Len(obj[m_rel_tmp[i]].many)
         /\ \A j \in 1..Len(RowIDs(i)) : RowIDs(i)[j] = ObjectID(obj[m_rel_tmp[i]].many[j])
<1>1. m_rel_tmp[i] \in Obj
  BY DEF TypeOK
<1>2. obj[m_rel_tmp[i]].many \in Seq(Target)
  BY <1>1 DEF TypeOK
<1>3. \A j \in 1..Len(obj[m_rel_tmp[i]].many) : ObjectID(obj[m_rel_tmp[i]].many[j]) \in ObjectIDs
  BY <1>2, ObjectIDType
<1> QED
  BY <1>2, <1>3 DEF RowIDs

\* A row that can be written is written whole.
LEMMA WrittenIDsType ==
  ASSUME TypeOK, NEW i \in 1..Len(m_rel_tmp)
  PROVE  /\ WrittenIDs(i) \in Seq(ObjectIDs)
         /\ ~Unwritable(i) => WrittenIDs(i) = RowIDs(i)
<1> DEFINE s == RowIDs(i)
           n == Len(s)
           Upto(k) == (\A j \in 1..k : s[j] # <<"untracked">>) /\ (k = n \/ s[k+1] = <<"untracked">>)
           B == {k \in 0..n : k = n \/ s[k+1] = <<"untracked">>}
           upto == CHOOSE k \in 0..n : Upto(k)
<1>1. s \in Seq(ObjectIDs) /\ n \in Nat
  BY RowIDsType
<1>2. WrittenIDs(i) = SubSeq(s, 1, upto)
  BY DEF WrittenIDs
<1> HIDE DEF s
<1>3. \E k \in 0..n : Upto(k)
  <2>1. n \in B /\ B \subseteq Nat
    BY <1>1
  <2>2. PICK k \in B : \A j \in B : k <= j
    BY <2>1, LeastNumber
  <2>3. ASSUME NEW j \in 1..k
        PROVE  s[j] # <<"untracked">>
    <3>1. j - 1 \in 0..n /\ j - 1 \notin B
      BY <1>1, <2>2
    <3> QED
      BY <3>1
  <2> QED
    BY <2>2, <2>3
<1>4. upto \in 0..n /\ Upto(upto)
  BY <1>3
<1> HIDE DEF upto
<1>5. SubSeq(s, 1, upto) \in Seq(ObjectIDs)
  BY <1>1, <1>4
<1>6. ASSUME ~Unwritable(i)
      PROVE  SubSeq(s, 1, upto) = s
  <2>1. \A j \in 1..n : s[j] # <<"untracked">>
    BY <1>6 DEF Unwritable, s
  <2>2. upto = n
    BY <1>1, <1>4, <2>1
  <2> QED
    BY <1>1, <2>2
<1> QED
  BY <1>2, <1>5, <1>6 DEF s

\* The buffer of the OneToMany relation is one of ObjectIDs.
LEMMA FlattenedType ==
  ASSUME TypeOK, NEW n \in 0..Len(m_rel_tmp)
  PROVE  Flattened(n) \in Seq(ObjectIDs)
<1> DEFINE S == {i \in Nat : i <= Len(m_rel_tmp) => Flattened(i) \in Seq(ObjectIDs)}
<1>1. 0 \in S
  <2>1. Flattened(0) = <<>>
    BY FlattenedIs
  <2>2. <<>> \in Seq(ObjectIDs)
    OBVIOUS
  <2>3. Flattened(0) \in Seq(ObjectIDs)
    BY <2>1, <2>2, Zenon
  <2> QED
    BY <2>3
<1>2. ASSUME NEW i \in Nat, i \in S
      PROVE  i + 1 \in S
  <2> SUFFICES ASSUME i + 1 <= Len(m_rel_tmp)
               PROVE  Flattened(i+1) \in Seq(ObjectIDs)
    OBVIOUS
  <2>1. Flattened(i+1) = Flattened(i) \o WrittenIDs(i+1)
    BY FlattenedIs
  <2>2. WrittenIDs(i+1) \in Seq(ObjectIDs)
    BY WrittenIDsType DEF TypeOK
  <2> QED
    <3>1. Flattened(i) \in Seq(ObjectIDs)
      BY <1>2
    <3>2. Flattened(i) \o WrittenIDs(i+1) \in Seq(ObjectIDs)
      BY <2>2, <3>1
    <3> QED
      BY <2>1, <3>2, Zenon
<1>3. n \in S
  <2>1. n \in Nat
    BY DEF TypeOK
  <2> HIDE DEF S
  <2> QED
    BY <1>1, <1>2, <2>1, Induction
<1> QED
  BY <1>3

\* FirstUnwritable is 0 only when there is no such row.
LEMMA FirstUnwritableIs ==
  ASSUME NEW rows \in Seq(Row)
  PROVE  /\ FirstUnwritable(rows) \in 0..Len(rows)
         /\ FirstUnwritable(rows) = 0 => \A i \in 1..Len(rows) : ~Unwritable(i)
<1> DEFINE bad == {i \in 1..Len(rows) : Unwritable(i)}
           first == CHOOSE i \in bad : \A j \in bad : i <= j
<1>1. CASE bad = {}
  BY <1>1 DEF FirstUnwritable
<1>2. CASE bad # {}
  <2>1. \E i \in bad : \A j \in bad : i <= j
    <3>1. bad \in SUBSET Nat
      OBVIOUS
    <3> HIDE DEF bad
    <3> QED
      BY <1>2, <3>1, LeastNumber
  <2>2. first \in bad
    BY <2>1
  <2>3. FirstUnwritable(rows) = first
    BY <1>2 DEF FirstUnwritable
  <2> HIDE DEF first
  <2> QED
    BY <2>2, <2>3
<1> QED
  BY <1>1, <1>2

-----------------------------------------------------------------------------
\* What is stored of an object.
ObjType ==
    [memory : {"none", "live", "deleted"}, index : {untracked} \cup Nat,
     many : Seq(Target), one : Target \cup {Null}]

\* TypeOK, with names for the records of objects and of rows.
Typed ==
    /\ obj \in [Obj -> ObjType]
    /\ entries \in Seq(Target)
    /\ m_isSubsetColl \in BOOLEAN
    /\ m_rel_tmp \in Seq(Obj)
    /\ hasData \in BOOLEAN
    /\ m_data \in Seq(Row)
    /\ m_refCollections \in Seq(Seq(ObjectIDs))
    /\ m_isPrepared \in BOOLEAN
    /\ unchanged \in BOOLEAN
    /\ checked \subseteq Thread
    /\ outcome \in {"ok", "threw", "wild"}

\* Aligned, without its types.
Parallel ==
    IF m_isSubsetColl THEN m_rel_tmp = <<>>
    ELSE /\ m_rel_tmp = entries
         /\ \A i \in 1..Len(entries) :
               obj[entries[i]].memory = "live" /\ obj[entries[i]].index = i - 1

\* An object that was not made yet is untracked, and a subset collection has
\* no data buffer.
NoneIsNew == \A o \in Obj : obj[o].memory = "none" => obj[o].index = untracked
SubsetHasNoData == m_isSubsetColl => ~hasData

\* The relations of row i, and what the buffers say of them.
Relations(i) == obj[entries[i]].many
RelationIDs(i) == [j \in 1..Len(Relations(i)) |-> ObjectID(Relations(i)[j])]
OneID(i) == LET one == obj[entries[i]].one IN
            IF ObjectID(one) = <<"untracked">> THEN ObjectID(Null) ELSE ObjectID(one)

RowReadsBack(i) ==
    /\ m_data[i].of = entries[i]
    /\ ReadMany(i) = RelationIDs(i)
    /\ \A j \in 1..Len(Relations(i)) : ObjectID(Relations(i)[j]) # <<"untracked">>
    /\ ReadOne(i) = OneID(i)

\* What the buffers of a collection that did not change since hold.
ReadsBack ==
    IF m_isSubsetColl
    THEN ReadSubset = [i \in 1..Len(entries) |-> ObjectID(entries[i])]
    ELSE /\ Len(m_data) = Len(entries)
         /\ Len(m_refCollections[2]) = Len(entries)
         /\ \A i \in 1..Len(entries) : RowReadsBack(i)

\* The inductive invariant.
IInv == Typed /\ Parallel /\ NoneIsNew /\ SubsetHasNoData /\ RoundTrip

\* What Track and Clear make of an object.
LEMMA Changed ==
  ASSUME NEW r \in ObjType, NEW m \in {"none", "live", "deleted"},
         NEW i \in {untracked} \cup Nat
  PROVE  /\ [r EXCEPT !.memory = m] \in ObjType
         /\ [r EXCEPT !.memory = m, !.index = i] \in ObjType
  BY DEF ObjType

\* What the adder and the setter of a relation make of an object.
LEMMA RelatedType ==
  ASSUME NEW r \in ObjType, NEW x \in Target
  PROVE  /\ [r EXCEPT !.one = x] \in ObjType
         /\ [r EXCEPT !.many = Append(r.many, x)] \in ObjType
<1>1. Append(r.many, x) \in Seq(Target)
  BY DEF ObjType
<1> QED
  BY <1>1 DEF ObjType

\* The parts of Aligned and of RoundTrip have their names.
LEMMA AlignedIs ==
  Aligned <=> Typed /\ Parallel
  BY DEF Aligned, TypeOK, Typed, Parallel, ObjType, Row

\* See AlignedIs.
LEMMA RoundTripIs ==
  RoundTrip <=> /\ RangesTile
                /\ m_isPrepared /\ unchanged => outcome = "ok" /\ ReadsBack
  BY DEF RoundTrip, ReadsBack, RowReadsBack, RelationIDs, Relations, OneID

\* What prepareForWrite has in m_data before the ranges.
LEMMA AppendedType ==
  ASSUME Typed, Parallel, ~m_isSubsetColl
  PROVE  /\ Appended \in Seq(Row)
         /\ Len(Appended) = Len(m_data) + Len(entries)
         /\ m_data = <<>> => \A i \in 1..Len(entries) :
               Appended[i].of = entries[i] /\ Appended[i].end = Len(obj[entries[i]].many)
<1> DEFINE new == [i \in 1..Len(entries) |->
                     [of |-> entries[i], begin |-> 0, end |-> Len(obj[entries[i]].many)]]
<1>1. ASSUME NEW i \in 1..Len(entries)
      PROVE  new[i] \in Row
  <2>1. entries[i] \in Obj
    BY DEF Typed, Parallel
  <2>2. obj[entries[i]] \in ObjType
    BY <2>1 DEF Typed
  <2>3. Len(obj[entries[i]].many) \in Nat
    BY <2>2 DEF ObjType
  <2> QED
    BY <2>1, <2>3 DEF Row
<1>2. Len(entries) \in Nat /\ m_data \in Seq(Row)
  BY DEF Typed
<1>3. new \in Seq(Row) /\ Len(new) = Len(entries)
  <2>1. new = [i \in 1..Len(entries) |-> new[i]]
    OBVIOUS
  <2> HIDE DEF new
  <2> QED
    BY <1>1, <1>2, <2>1, IsASequence
<1>4. Appended = m_data \o new
  BY DEF Appended
<1>5. \A i \in 1..Len(entries) :
         new[i].of = entries[i] /\ new[i].end = Len(obj[entries[i]].many)
  OBVIOUS
<1> HIDE DEF new
<1>6. m_data \o new \in Seq(Row) /\ Len(m_data \o new) = Len(m_data) + Len(entries)
  BY <1>2, <1>3
<1>7. m_data = <<>> => m_data \o new = new
  BY <1>3
<1> QED
  BY <1>4, <1>5, <1>6, <1>7

\* An empty collection.
LEMMA InitIInv ==
  ASSUME Init
  PROVE  IInv
<1>1. Typed
  <2>1. [memory |-> "none", index |-> untracked, many |-> <<>>, one |-> Null] \in ObjType
    BY DEF ObjType
  <2>2. obj \in [Obj -> ObjType]
    BY <2>1 DEF Init
  <2>3. <<<<>>, <<>>>> \in Seq(Seq(ObjectIDs))
    <3>1. <<>> \in Seq(ObjectIDs)
      OBVIOUS
    <3> QED
      BY <3>1
  <2>4. <<>> \in Seq(Target) /\ <<>> \in Seq(Obj) /\ <<>> \in Seq(Row)
    OBVIOUS
  <2> QED
    BY <2>2, <2>3, <2>4 DEF Init, Typed
<1>2. Parallel /\ NoneIsNew /\ SubsetHasNoData
  BY <1>1 DEF Init, Parallel, NoneIsNew, SubsetHasNoData
<1>3. RoundTrip
  BY DEF Init, RoundTrip, RangesTile
<1> QED
  BY <1>1, <1>2, <1>3 DEF IInv

\* The buffers stay what they are, and nothing is said of how they relate to
\* the contents.
LEMMA BuffersStay ==
  ASSUME RoundTrip, UNCHANGED buffers, unchanged' = FALSE
  PROVE  RoundTrip'
  BY DEF RoundTrip, RangesTile, buffers

\* A new object is not in the collection, and nothing is related to it.
LEMMA MakeObjectKeeps ==
  ASSUME IInv, NEW o \in Obj, MakeObject(o)
  PROVE  IInv'
<1> USE DEF IInv
<1>1. /\ obj[o].memory = "none" /\ obj[o].index = untracked
      /\ obj' = [obj EXCEPT ![o] = NewObj(untracked)]
      /\ UNCHANGED <<entries, m_isSubsetColl, m_rel_tmp, unchanged>>
      /\ UNCHANGED <<hasData, m_data, m_refCollections, m_isPrepared, checked, outcome>>
  BY DEF MakeObject, NoneIsNew, buffers
<1>2. NewObj(untracked) \in ObjType
  <2>1. <<>> \in Seq(Target)
    OBVIOUS
  <2> QED
    BY <2>1 DEF NewObj, ObjType
<1>3. Typed'
  BY <1>1, <1>2 DEF Typed, Parallel
<1>4. ~m_isSubsetColl => \A i \in 1..Len(entries) : entries[i] \in Obj /\ entries[i] # o
  BY <1>1 DEF Typed, Parallel
<1>5. Parallel'
  BY <1>1, <1>3, <1>4 DEF Typed, Parallel
<1>6. NoneIsNew'
  BY <1>1 DEF NoneIsNew, NewObj, Typed, Parallel
<1>7. SubsetHasNoData'
  BY <1>1 DEF SubsetHasNoData
<1>8. \A x \in Obj : obj'[x].index = obj[x].index
  BY <1>1 DEF NewObj, Typed
<1>9. RangesTile'
  BY <1>1 DEF RoundTrip, RangesTile
<1>10. RoundTrip'
  <2> SUFFICES ASSUME m_isPrepared', unchanged'
               PROVE  outcome' = "ok" /\ ReadsBack'
    BY <1>9 DEF RoundTrip, ReadsBack, RowReadsBack, RelationIDs, Relations, OneID
  <2>1. CASE m_isSubsetColl
    <3>1. ASSUME NEW i \in 1..Len(entries)
          PROVE  ObjectID(entries[i])' = ObjectID(entries[i])
      <4>1. entries[i] \in Target
        BY DEF Typed
      <4> QED
        BY <1>1, <1>8, <4>1 DEF ObjectID, Target
    <3> QED
      BY <1>1, <2>1, <3>1 DEF RoundTrip, ReadsBack, ReadSubset
  <2>2. CASE ~m_isSubsetColl
    <3>1. ASSUME NEW i \in 1..Len(entries)
          PROVE  /\ entries[i] \in Obj /\ obj'[entries[i]] = obj[entries[i]]
                 /\ ObjectID(obj[entries[i]].one)' = ObjectID(obj[entries[i]].one)
                 /\ \A j \in 1..Len(obj[entries[i]].many) :
                      ObjectID(obj[entries[i]].many[j])' = ObjectID(obj[entries[i]].many[j])
      <4>1. entries[i] \in Obj /\ entries[i] # o
        BY <1>4, <2>2
      <4>2. obj[entries[i]] \in ObjType /\ obj'[entries[i]] = obj[entries[i]]
        BY <1>1, <4>1 DEF Typed
      <4>3. /\ obj[entries[i]].one \in Target \cup {Null}
            /\ \A j \in 1..Len(obj[entries[i]].many) : obj[entries[i]].many[j] \in Target
        BY <4>2 DEF ObjType
      <4>4. \A x \in Target \cup {Null} : ObjectID(x)' = ObjectID(x)
        BY <1>8 DEF ObjectID, Target
      <4>5. UNCHANGED entries
        BY <1>1
      <4>6. ObjectID(obj[entries[i]].one)' = ObjectID(obj[entries[i]].one)
        BY <4>2, <4>3, <4>5, <1>8 DEF ObjectID, Target
      <4>7. ASSUME NEW j \in 1..Len(obj[entries[i]].many)
            PROVE  ObjectID(obj[entries[i]].many[j])' = ObjectID(obj[entries[i]].many[j])
        <5>1. obj[entries[i]].many[j] \in Target
          BY <4>3
        <5> QED
          BY <4>2, <4>5, <5>1, <1>8 DEF ObjectID, Target
      <4> QED
        BY <4>1, <4>2, <4>6, <4>7
    <3>2. outcome = "ok" /\ ReadsBack
      BY <1>1, RoundTripIs
    <3>3. ASSUME NEW i \in 1..Len(entries)
          PROVE  RowReadsBack(i)'
      <4>1. RowReadsBack(i)
        BY <2>2, <3>2, <3>3 DEF ReadsBack
      <4>2. Relations(i)' = Relations(i)
        BY <1>1, <3>1 DEF Relations
      <4>3. \A j \in 1..Len(Relations(i)) :
               ObjectID(Relations(i)[j])' = ObjectID(Relations(i)[j])
        BY <1>1, <3>1 DEF Relations
      <4>4. RelationIDs(i)' = RelationIDs(i)
        BY <4>2, <4>3 DEF RelationIDs
      <4>5. OneID(i)' = OneID(i)
        BY <1>1, <3>1 DEF OneID, ObjectID
      <4>6. /\ ReadMany(i)' = ReadMany(i) /\ ReadOne(i)' = ReadOne(i)
            /\ (m_data[i].of = entries[i])' = (m_data[i].of = entries[i])
        BY <1>1 DEF ReadMany, ReadOne, ObjectID
      <4> QED
        BY <4>1, <4>2, <4>3, <4>4, <4>5, <4>6 DEF RowReadsBack
    <3> QED
      BY <1>1, <2>2, <3>2, <3>3 DEF ReadsBack
  <2> QED
    BY <2>1, <2>2
<1> QED
  BY <1>3, <1>5, <1>6, <1>7, <1>10

\* An object the collection takes gets its position as its index.
LEMMA TrackKeeps ==
  ASSUME IInv, NEW o \in Obj, ~m_isSubsetColl, Track(o),
         obj[o].memory = "none" \/ obj[o].index = untracked
  PROVE  IInv'
<1> USE DEF IInv
<1>1. /\ obj' = [obj EXCEPT ![o] = [@ EXCEPT !.memory = "live", !.index = Len(entries)]]
      /\ entries' = Append(entries, o) /\ m_rel_tmp' = Append(m_rel_tmp, o)
      /\ unchanged' = FALSE /\ UNCHANGED m_isSubsetColl
      /\ UNCHANGED <<hasData, m_data, m_refCollections, m_isPrepared, checked, outcome>>
  BY DEF Track, buffers
<1>2. Typed'
  <2>1. entries' \in Seq(Target) /\ m_rel_tmp' \in Seq(Obj)
    BY <1>1 DEF Typed, Parallel, Target
  <2>2. [obj[o] EXCEPT !.memory = "live", !.index = Len(entries)]
           \in ObjType
    <3>1. obj[o] \in ObjType /\ Len(entries) \in Nat
      BY DEF Typed
    <3> QED
      BY <3>1, Changed
  <2> QED
    BY <1>1, <2>1, <2>2 DEF Typed
<1>3. \A i \in 1..Len(entries) : entries[i] # o
  BY DEF Typed, Parallel, untracked
<1>4. Parallel'
  <2>1. ASSUME NEW i \in 1..Len(entries')
        PROVE  obj'[entries'[i]].memory = "live" /\ obj'[entries'[i]].index = i - 1
    <3>1. CASE i \in 1..Len(entries)
      <4>1. entries'[i] = entries[i] /\ entries[i] \in Obj /\ entries[i] # o
        BY <1>1, <1>3, <3>1 DEF Typed, Parallel
      <4> QED
        BY <1>1, <3>1, <4>1 DEF Typed, Parallel
    <3>2. CASE i = Len(entries) + 1
      <4>1. entries'[i] = o
        BY <1>1, <3>2 DEF Typed, Parallel
      <4> QED
        BY <1>1, <3>2, <4>1 DEF Typed, Parallel
    <3> QED
      BY <1>1, <3>1, <3>2 DEF Typed, Parallel
  <2>2. m_rel_tmp' = entries'
    BY <1>1 DEF Parallel
  <2> QED
    BY <1>1, <1>2, <2>1, <2>2 DEF Parallel
<1>5. NoneIsNew'
  BY <1>1 DEF NoneIsNew, Typed, Parallel
<1>6. SubsetHasNoData'
  BY <1>1 DEF SubsetHasNoData
<1>7. RoundTrip'
  BY <1>1, BuffersStay DEF buffers
<1> QED
  BY <1>2, <1>4, <1>5, <1>6, <1>7

\* push_back of a subset collection.
LEMMA PushBackTrackedKeeps ==
  ASSUME IInv, NEW x \in Foreign, PushBackTracked(x)
  PROVE  IInv'
<1> USE DEF IInv
<1>1. /\ m_isSubsetColl /\ entries' = Append(entries, x) /\ unchanged' = FALSE
      /\ UNCHANGED <<obj, m_isSubsetColl, m_rel_tmp>> /\ UNCHANGED buffers
  BY DEF PushBackTracked
<1>2. Parallel'
  BY <1>1 DEF Typed, Parallel, Target, buffers
<1>3. RoundTrip'
  BY <1>1, BuffersStay
<1>4. Typed'
  <2>1. entries' \in Seq(Target)
    <3>1. x \in Target /\ entries \in Seq(Target)
      BY DEF Typed, Target
    <3> QED
      BY <1>1, <3>1
  <2> QED
    BY <1>1, <2>1 DEF Typed, buffers
<1> QED
  BY <1>1, <1>2, <1>3, <1>4 DEF NoneIsNew, SubsetHasNoData, buffers

\* setSubsetCollection.
LEMMA SwitchKeeps ==
  ASSUME IInv, MakeSubset \/ MakeNormal
  PROVE  IInv'
<1> USE DEF IInv
<1>1. CASE MakeSubset
  <2>1. <<<<>>>> \in Seq(Seq(ObjectIDs))
    OBVIOUS
  <2>2. Typed'
    <3>1. <<>> \in Seq(Row)
      OBVIOUS
    <3> QED
      BY <1>1, <2>1, <3>1 DEF MakeSubset, Typed
  <2>3. Parallel'
    BY <1>1, <2>2 DEF MakeSubset, Parallel
  <2>4. NoneIsNew' /\ SubsetHasNoData'
    BY <1>1 DEF MakeSubset, NoneIsNew, SubsetHasNoData
  <2>5. RoundTrip'
    BY <1>1 DEF MakeSubset, RoundTrip, RangesTile
  <2> QED
    BY <2>2, <2>3, <2>4, <2>5
<1>2. CASE MakeNormal
  <2>1. Typed' /\ Parallel'
    <3>1. entries = <<>> /\ m_rel_tmp = <<>> /\ m_isSubsetColl' = FALSE /\ unchanged' = FALSE
      BY <1>2 DEF MakeNormal, Parallel
    <3>2. UNCHANGED <<obj, entries, m_rel_tmp>> /\ UNCHANGED buffers
      BY <1>2 DEF MakeNormal
    <3>3. Typed'
      BY <3>1, <3>2 DEF Typed, buffers
    <3> QED
      BY <3>1, <3>2, <3>3 DEF Parallel
  <2>2. NoneIsNew' /\ SubsetHasNoData'
    BY <1>2 DEF MakeNormal, NoneIsNew, SubsetHasNoData
  <2>3. RoundTrip'
    BY <1>2, BuffersStay DEF MakeNormal
  <2> QED
    BY <2>1, <2>2, <2>3
<1> QED
  BY <1>1, <1>2

\* The adder and the setter of relations leave the memory and the index.
LEMMA RelationKeeps ==
  ASSUME IInv, NEW o \in Obj, NEW x \in Target, AddRelation(o, x) \/ SetRelation(o, x)
  PROVE  IInv'
<1> USE DEF IInv
<1>1. PICK r : /\ r \in ObjType
               /\ r.memory = obj[o].memory /\ r.index = obj[o].index
               /\ obj' = [obj EXCEPT ![o] = r]
  <2>1. obj[o] \in ObjType
    BY DEF Typed, Parallel
  <2>2. CASE AddRelation(o, x)
    <3>2. obj' = [obj EXCEPT ![o] = [obj[o] EXCEPT !.many = Append(obj[o].many, x)]]
      BY <2>2 DEF AddRelation, Typed, Parallel
    <3>3. [obj[o] EXCEPT !.many = Append(obj[o].many, x)] \in ObjType
      BY <2>1, RelatedType
    <3>4. \A s : LET r == [obj[o] EXCEPT !.many = s]
                 IN r.memory = obj[o].memory /\ r.index = obj[o].index
      BY <2>1 DEF ObjType
    <3> QED
      BY <3>2, <3>3, <3>4
  <2>3. CASE SetRelation(o, x)
    <3>1. obj' = [obj EXCEPT ![o] = [obj[o] EXCEPT !.one = x]]
      BY <2>3 DEF SetRelation, Typed, Parallel
    <3>2. [obj[o] EXCEPT !.one = x] \in ObjType
      BY <2>1, RelatedType
    <3>3. LET r == [obj[o] EXCEPT !.one = x]
          IN r.memory = obj[o].memory /\ r.index = obj[o].index
      BY <2>1 DEF ObjType
    <3> QED
      BY <3>1, <3>2, <3>3
  <2> QED
    BY <2>2, <2>3
<1>2. /\ unchanged' = FALSE /\ UNCHANGED <<entries, m_isSubsetColl, m_rel_tmp>>
      /\ UNCHANGED buffers
  BY DEF AddRelation, SetRelation
<1>3. Typed'
  BY <1>1, <1>2 DEF Typed, Parallel, buffers
<1>4. \A p \in Obj : obj'[p].memory = obj[p].memory /\ obj'[p].index = obj[p].index
  BY <1>1 DEF Typed, Parallel
<1>5. Parallel'
  BY <1>2, <1>3, <1>4 DEF Typed, Parallel
<1>6. NoneIsNew' /\ SubsetHasNoData'
  BY <1>2, <1>4 DEF NoneIsNew, SubsetHasNoData, buffers
<1>7. RoundTrip'
  BY <1>2, BuffersStay
<1> QED
  BY <1>3, <1>5, <1>6, <1>7

\* clear empties everything that runs parallel.
LEMMA ClearKeeps ==
  ASSUME IInv, Clear
  PROVE  IInv'
<1> USE DEF IInv
<1>1. /\ obj' = [o \in Obj |-> IF o \in Elems THEN [obj[o] EXCEPT !.memory = "deleted"]
                               ELSE obj[o]]
      /\ entries' = <<>> /\ m_rel_tmp' = <<>> /\ m_data' = <<>>
      /\ m_refCollections' = [k \in DOMAIN m_refCollections |-> <<>>]
      /\ m_isPrepared' = FALSE /\ outcome' = "ok" /\ unchanged' = FALSE
      /\ UNCHANGED <<m_isSubsetColl, hasData, checked>>
  BY DEF Clear, Emptied
<1>2. m_refCollections' \in Seq(Seq(ObjectIDs))
  <2>1. m_refCollections' = [k \in 1..Len(m_refCollections) |-> <<>>]
    BY <1>1 DEF Typed, Parallel
  <2>2. <<>> \in Seq(ObjectIDs)
    OBVIOUS
  <2>3. Len(m_refCollections) \in Nat
    BY DEF Typed, Parallel
  <2> QED
    BY <2>1, <2>2, <2>3
<1>3. \A o \in Obj :
         /\ obj'[o] \in ObjType
         /\ obj'[o].memory = "none" => obj'[o].index = untracked
  <2> SUFFICES ASSUME NEW o \in Obj
               PROVE  /\ obj'[o] \in ObjType
                      /\ obj'[o].memory = "none" => obj'[o].index = untracked
    OBVIOUS
  <2>1. obj[o] \in ObjType /\ [obj[o] EXCEPT !.memory = "deleted"] \in ObjType
    BY Changed DEF Typed, untracked
  <2>2. [obj[o] EXCEPT !.memory = "deleted"].memory = "deleted"
    BY <2>1 DEF ObjType
  <2> QED
    BY <1>1, <2>1, <2>2 DEF NoneIsNew
<1>4. Typed'
  <2>1. obj' \in [Obj -> ObjType]
    BY <1>1, <1>3
  <2>2. <<>> \in Seq(Target) /\ <<>> \in Seq(Obj) /\ <<>> \in Seq(Row)
    OBVIOUS
  <2> QED
    BY <1>1, <1>2, <2>1, <2>2 DEF Typed
<1> QED
  BY <1>1, <1>3, <1>4 DEF Parallel, NoneIsNew, SubsetHasNoData, RoundTrip, RangesTile

\* RoundTrip is about the contents, the buffers and the history.
LEMMA SameBuffers ==
  ASSUME RoundTrip,
         UNCHANGED <<obj, entries, m_isSubsetColl, hasData, m_data,
                     m_refCollections, m_isPrepared, outcome, unchanged>>
  PROVE  RoundTrip'
<1>1. RangesTile'
  BY DEF RoundTrip, RangesTile
<1>2. ASSUME ReadsBack
      PROVE  ReadsBack'
  <2>1. CASE m_isSubsetColl
    <3>1. [i \in 1..Len(entries) |-> ObjectID(entries[i])]'
             = [i \in 1..Len(entries) |-> ObjectID(entries[i])]
      BY DEF ObjectID
    <3> QED
      BY <1>2, <2>1, <3>1 DEF ReadsBack, ReadSubset
  <2>2. CASE ~m_isSubsetColl
    <3>1. ASSUME NEW i \in 1..Len(entries), RowReadsBack(i)
          PROVE  RowReadsBack(i)'
      <4>1. Relations(i)' = Relations(i)
        BY DEF Relations
      <4>2. \A j : ObjectID(Relations(i)[j])' = ObjectID(Relations(i)[j])
        BY <4>1, Zenon DEF ObjectID
      <4>3. RelationIDs(i)' = RelationIDs(i)
        BY <4>1, <4>2, Zenon DEF RelationIDs
      <4>4. OneID(i)' = OneID(i)
        BY DEF OneID, ObjectID
      <4>5. ReadMany(i)' = ReadMany(i) /\ ReadOne(i)' = ReadOne(i)
        BY DEF ReadMany, ReadOne, ObjectID
      <4> QED
        BY <3>1, <4>1, <4>2, <4>3, <4>4, <4>5 DEF RowReadsBack
    <3> QED
      BY <1>2, <2>2, <3>1 DEF ReadsBack
  <2> QED
    BY <2>1, <2>2
<1>3. ASSUME m_isPrepared', unchanged'
      PROVE  outcome' = "ok" /\ ReadsBack'
  BY <1>2, <1>3, RoundTripIs
<1> QED
  BY <1>1, <1>3 DEF RoundTrip, ReadsBack, RowReadsBack, RelationIDs, Relations, OneID

\* A thread finds that there is something to do, or that another one did it.
LEMMA CheckKeeps ==
  ASSUME IInv, NEW t \in Thread, Check(t) \/ AlreadyPrepared(t)
  PROVE  IInv'
<1>1. /\ UNCHANGED <<obj, entries, m_isSubsetColl, m_rel_tmp, hasData, m_data,
                     m_refCollections, m_isPrepared, outcome, unchanged>>
      /\ checked' \subseteq Thread
  BY DEF Check, AlreadyPrepared, contents, IInv, Typed
<1>2. Typed' /\ Parallel' /\ NoneIsNew' /\ SubsetHasNoData'
  BY <1>1 DEF IInv, Typed, Parallel, NoneIsNew, SubsetHasNoData
<1>4. RoundTrip'
  BY <1>1, SameBuffers DEF IInv
<1> QED
  BY <1>2, <1>4 DEF IInv

\* prepareForWrite ends with an exception, or does not end well.
LEMMA FailedKeeps ==
  ASSUME IInv, NEW t \in Thread, PrepareThrows(t) \/ PrepareWild(t)
  PROVE  IInv'
<1> USE DEF IInv
<1>1. /\ ~m_isPrepared /\ m_isPrepared' = m_isPrepared /\ outcome' \in {"threw", "wild"}
      /\ checked' = checked \ {t}
      /\ UNCHANGED <<obj, entries, m_isSubsetColl, m_rel_tmp, hasData, unchanged>>
  BY DEF PrepareThrows, PrepareWild, StillNeeded, Failed, contents
<1>2. Parallel' /\ NoneIsNew' /\ SubsetHasNoData' /\ RoundTrip'
  BY <1>1 DEF Parallel, NoneIsNew, SubsetHasNoData, RoundTrip, RangesTile, Typed
<1>3. m_data' \in Seq(Row) /\ m_refCollections' \in Seq(Seq(ObjectIDs))
  <2>1. CASE PrepareWild(t)
    BY <2>1 DEF PrepareWild, Typed
  <2>2. CASE PrepareThrows(t)
    <3> DEFINE first == FirstUnwritable(Appended)
    <3>1. /\ ~m_isSubsetColl /\ first \in 1..Len(m_rel_tmp)
          /\ m_data' = Ranged(Appended, first)
          /\ m_refCollections' = <<Flattened(first), <<>>>>
      BY <2>2 DEF PrepareThrows
    <3>2. Appended \in Seq(Row) /\ Len(m_rel_tmp) \in Nat
      BY <3>1, AppendedType DEF Typed
    <3> HIDE DEF first
    <3>3. m_data' \in Seq(Row)
      BY <3>1, <3>2, RangedType
    <3>4. Flattened(first) \in Seq(ObjectIDs) /\ <<>> \in Seq(ObjectIDs)
      BY <3>1, <3>2, FlattenedType, AlignedIs DEF Aligned
    <3> QED
      BY <3>1, <3>3, <3>4
  <2> QED
    BY <2>1, <2>2
<1>4. Typed'
  BY <1>1, <1>3 DEF Typed
<1> QED
  BY <1>2, <1>4

\* prepareForWrite of a subset collection.
LEMMA PrepareSubsetKeeps ==
  ASSUME IInv, NEW t \in Thread, PrepareSubset(t)
  PROVE  IInv'
<1> USE DEF IInv
<1> DEFINE ids == [i \in 1..Len(entries) |-> ObjectID(entries[i])]
<1>1. /\ m_isSubsetColl /\ m_refCollections' = <<ids>> /\ m_isPrepared' = TRUE
      /\ checked' = checked \ {t} /\ outcome' = "ok" /\ unchanged' = TRUE
      /\ UNCHANGED <<obj, entries, m_isSubsetColl, m_rel_tmp, hasData, m_data>>
  BY DEF PrepareSubset, Prepared, contents
<1>2. Parallel' /\ NoneIsNew' /\ SubsetHasNoData'
  BY <1>1 DEF Parallel, NoneIsNew, SubsetHasNoData
<1>3. ids \in Seq(ObjectIDs)
  <2>1. \A i \in 1..Len(entries) : ObjectID(entries[i]) \in ObjectIDs
    BY ObjectIDType, AlignedIs DEF Aligned, Typed
  <2> QED
    BY <2>1 DEF Typed
<1>4. ids = [i \in 1..Len(entries) |-> ObjectID(entries[i])]'
  BY <1>1 DEF ObjectID
<1> HIDE DEF ids
<1>5. Typed'
  BY <1>1, <1>3 DEF Typed
<1>6. RoundTrip'
  <2>1. RangesTile'
    BY <1>1 DEF RangesTile, SubsetHasNoData
  <2>2. ReadsBack'
    BY <1>1, <1>4 DEF ReadsBack, ReadSubset
  <2> QED
    BY <1>1, <2>1, <2>2, RoundTripIs DEF ReadsBack, RoundTrip
<1> QED
  BY <1>2, <1>5, <1>6

-----------------------------------------------------------------------------
\* The elements of s \o p.
LEMMA Catenated ==
  ASSUME NEW T, NEW s \in Seq(T), NEW p \in Seq(T)
  PROVE  /\ s \o p \in Seq(T)
         /\ Len(s \o p) = Len(s) + Len(p)
         /\ \A j \in 1..Len(s) : (s \o p)[j] = s[j]
         /\ \A j \in 1..Len(p) : (s \o p)[Len(s) + j] = p[j]
  OBVIOUS

\* A part of s that has the elements of p is p.
LEMMA Segment ==
  ASSUME NEW T, NEW s \in Seq(T), NEW b \in Nat, NEW p \in Seq(T), b + Len(p) <= Len(s),
         \A j \in 1..Len(p) : s[b + j] = p[j]
  PROVE  SubSeq(s, b + 1, b + Len(p)) = p
<1> DEFINE c == Len(p)
           q == SubSeq(s, b + 1, b + c)
<1>1. c \in Nat /\ Len(s) \in Nat /\ b + c <= Len(s)
  OBVIOUS
<1> HIDE DEF c
<1>2. q = [j \in 1..c |-> s[b + j]]
  <2>1. (b + c) - (b + 1) + 1 = c /\ \A j \in 1..c : b + 1 + j - 1 = b + j
    BY <1>1
  <2> QED
    BY <1>1, <2>1
<1>3. p = [j \in 1..c |-> p[j]]
  BY DEF c
<1>4. q = p
  BY <1>2, <1>3 DEF c
<1> QED
  BY <1>4 DEF c

\* flat[i] is the first i parts laid end to end, e[i] where part i ends; they
\* are recovered when they can be told apart again.
EndToEnd(n, part, flat, e) ==
    /\ flat[0] = <<>> /\ e[0] = 0
    /\ \A i \in 1..n : flat[i] = flat[i-1] \o part[i] /\ e[i] = e[i-1] + Len(part[i])

Recovered(n, part, flat, e) ==
    /\ Len(flat[n]) = e[n]
    /\ \A i \in 1..n : SubSeq(flat[n], e[i-1] + 1, e[i]) = part[i]

\* Sequences laid end to end: each of them is where it was put.
LEMMA Segments ==
  ASSUME NEW T, NEW n \in Nat, NEW part \in [1..n -> Seq(T)], NEW flat \in [0..n -> Seq(T)],
         NEW e \in [0..n -> Nat], EndToEnd(n, part, flat, e)
  PROVE  Recovered(n, part, flat, e)
<1>1. \A i \in 1..n : /\ i - 1 \in 0..n /\ i \in 0..n
                      /\ part[i] \in Seq(T) /\ e[i-1] \in Nat /\ e[i] \in Nat
                      /\ e[i] = e[i-1] + Len(part[i]) /\ flat[i] = flat[i-1] \o part[i]
                      /\ flat[i-1] \in Seq(T)
  <2> SUFFICES ASSUME NEW i \in 1..n
               PROVE  /\ i - 1 \in 0..n /\ i \in 0..n
                      /\ part[i] \in Seq(T) /\ e[i-1] \in Nat /\ e[i] \in Nat
                      /\ e[i] = e[i-1] + Len(part[i]) /\ flat[i] = flat[i-1] \o part[i]
                      /\ flat[i-1] \in Seq(T)
    OBVIOUS
  <2>1. i - 1 \in 0..n /\ i \in 0..n
    OBVIOUS
  <2>2. e[i-1] \in Nat /\ e[i] \in Nat /\ part[i] \in Seq(T) /\ flat[i-1] \in Seq(T)
    BY <2>1
  <2> QED
    BY <2>1, <2>2 DEF EndToEnd
<1>2. \A k \in 0..n : flat[k] \in Seq(T) /\ e[k] \in Nat
  OBVIOUS
<1> DEFINE Inside(k, i) == /\ e[i] <= e[k]
                           /\ \A j \in 1..Len(part[i]) : flat[k][e[i-1] + j] = part[i][j]
           Placed(k) == Len(flat[k]) = e[k] /\ \A i \in 1..k : Inside(k, i)
           S == {k \in Nat : k <= n => Placed(k)}
<1>3. 0 \in S
  <2>1. Placed(0)
    BY DEF EndToEnd
  <2> QED
    BY <2>1
<1>4. ASSUME NEW k \in Nat, k \in S
      PROVE  k + 1 \in S
  <2> HIDE DEF Placed
  <2> SUFFICES ASSUME k + 1 <= n
               PROVE  Placed(k+1)
    OBVIOUS
  <2>1. Placed(k)
    BY <1>4
  <2> USE DEF Placed
  <2> HIDE DEF S
  <2> DEFINE m == k + 1
  <2>2. /\ m \in 1..n /\ m - 1 = k /\ k \in 0..n /\ m \in Nat
    OBVIOUS
  <2>3. /\ flat[k] \in Seq(T) /\ part[m] \in Seq(T) /\ e[k] \in Nat
        /\ flat[m] = flat[k] \o part[m] /\ e[m] = e[k] + Len(part[m])
    <3> HIDE DEF m
    <3> QED
      BY <1>1, <1>2, <2>2
  <2> HIDE DEF m
  <2>4. Len(flat[k]) = e[k]
    BY <2>1
  <2>5. /\ Len(flat[m]) = e[k] + Len(part[m])
        /\ \A j \in 1..e[k] : flat[m][j] = flat[k][j]
        /\ \A j \in 1..Len(part[m]) : flat[m][e[k] + j] = part[m][j]
    <3> DEFINE s == flat[k]
               p == part[m]
               q == flat[m]
    <3>1. s \in Seq(T) /\ p \in Seq(T) /\ q = s \o p
      BY <2>3
    <3> HIDE DEF s, p, q
    <3>2. /\ Len(q) = Len(s) + Len(p)
          /\ \A j \in 1..Len(s) : q[j] = s[j]
          /\ \A j \in 1..Len(p) : q[Len(s) + j] = p[j]
      BY <3>1, Catenated
    <3> QED
      BY <2>4, <3>2 DEF s, p, q
  <2>6. Len(part[m]) \in Nat
    BY <2>3
  <2>7. e[m] \in Nat /\ e[k] \in Nat /\ e[k] <= e[m]
    BY <2>3, <2>6
  <2>8. Inside(m, m)
    <3>1. \A j \in 1..Len(part[m]) : flat[m][e[m-1] + j] = part[m][j]
      BY <2>2, <2>5
    <3> QED
      BY <2>7, <3>1
  <2>9. ASSUME NEW i \in 1..k
        PROVE  Inside(m, i)
    <3>1. Inside(k, i)
      BY <2>1
    <3>2. i \in 1..n
      BY <2>2
    <3>3. /\ part[i] \in Seq(T) /\ e[i-1] \in Nat /\ e[i] = e[i-1] + Len(part[i])
      BY <1>1, <3>2
    <3>4. Len(part[i]) \in Nat
      BY <3>3
    <3>5. e[i] \in Nat /\ e[i] <= e[k]
      BY <3>1, <3>3, <3>4
    <3>6. \A j \in 1..Len(part[i]) : e[i-1] + j \in 1..e[k]
      <4>1. e[i-1] \in Nat /\ e[i-1] + Len(part[i]) <= e[k]
        BY <3>3, <3>5
      <4>2. \A b, l, c \in Nat : b + l <= c => \A j \in 1..l : b + j \in 1..c
        OBVIOUS
      <4> QED
        BY <2>7, <3>4, <4>1, <4>2
    <3>7. \A j \in 1..Len(part[i]) : flat[m][e[i-1] + j] = part[i][j]
      <4>1. \A j \in 1..e[k] : flat[m][j] = flat[k][j]
        BY <2>5
      <4>2. \A j \in 1..Len(part[i]) : flat[k][e[i-1] + j] = part[i][j]
        BY <3>1
      <4>3. ASSUME NEW j \in 1..Len(part[i])
            PROVE  flat[m][e[i-1] + j] = part[i][j]
        <5>1. e[i-1] + j \in 1..e[k]
          BY <3>6
        <5>2. flat[m][e[i-1] + j] = flat[k][e[i-1] + j]
          BY <4>1, <5>1, Zenon
        <5>3. flat[k][e[i-1] + j] = part[i][j]
          BY <4>2, Zenon
        <5> QED
          BY <5>2, <5>3, Zenon
      <4> QED
        BY <4>3, Zenon
    <3>8. e[i] <= e[m]
      <4>1. \A a, b, c \in Nat : a <= b /\ b <= c => a <= c
        OBVIOUS
      <4> QED
        BY <2>7, <3>5, <4>1, Zenon
    <3> QED
      BY <3>7, <3>8
  <2>10. \A i \in 1..m : i = m \/ i \in 1..k
    BY <2>2
  <2> QED
    <3> HIDE DEF Inside
    <3> QED
      BY <2>3, <2>5, <2>8, <2>9, <2>10 DEF m
<1>5. Placed(n)
  <2>1. n \in S
    <3> HIDE DEF S
    <3> QED
      BY <1>3, <1>4, Induction
  <2> QED
    BY <2>1
<1>6. ASSUME NEW i \in 1..n
      PROVE  SubSeq(flat[n], e[i-1] + 1, e[i]) = part[i]
  <2>1. /\ part[i] \in Seq(T) /\ e[i-1] \in Nat /\ e[i] \in Nat
        /\ e[i] = e[i-1] + Len(part[i])
    BY <1>1
  <2>2. flat[n] \in Seq(T) /\ Len(flat[n]) = e[n] /\ e[n] \in Nat /\ Inside(n, i)
    BY <1>2, <1>5
  <2>3. e[i-1] + Len(part[i]) <= Len(flat[n])
    BY <2>1, <2>2
  <2>4. \A j \in 1..Len(part[i]) : flat[n][e[i-1] + j] = part[i][j]
    BY <2>2
  <2>5. SubSeq(flat[n], e[i-1] + 1, e[i-1] + Len(part[i])) = part[i]
    BY <2>1, <2>2, <2>3, <2>4, Segment
  <2> QED
    BY <2>1, <2>5
<1> QED
  BY <1>5, <1>6 DEF Recovered

\* The loop over the rows reaches the end only when m_data was empty: the rows
\* that an earlier call left there have no relation vector.
LEMMA AllWritable ==
  ASSUME IInv, ~m_isSubsetColl, FirstUnwritable(Appended) = 0
  PROVE  /\ m_data = <<>> /\ Len(Appended) = Len(entries) /\ m_rel_tmp = entries
         /\ \A i \in 1..Len(entries) : ~Unwritable(i) /\ WrittenIDs(i) = RowIDs(i)
<1>1. /\ Appended \in Seq(Row) /\ Len(Appended) = Len(m_data) + Len(entries)
      /\ m_rel_tmp = entries /\ Len(entries) \in Nat /\ m_data \in Seq(Row)
  BY AppendedType DEF IInv, Typed, Parallel
<1>2. \A i \in 1..Len(Appended) : ~Unwritable(i)
  BY <1>1, FirstUnwritableIs
<1>3. \A i \in 1..Len(Appended) : i <= Len(entries)
  <2>1. \A i \in 1..Len(Appended) : ~(i > Len(m_rel_tmp))
    BY <1>2 DEF Unwritable
  <2>2. Len(m_rel_tmp) = Len(entries) /\ Len(entries) \in Nat
    BY <1>1
  <2> QED
    BY <2>1, <2>2
<1>4. Len(m_data) = 0
  BY <1>1, <1>3
<1>5. \A i \in 1..Len(entries) : ~Unwritable(i) /\ WrittenIDs(i) = RowIDs(i)
  BY <1>1, <1>2, <1>4, WrittenIDsType, AlignedIs DEF IInv, Aligned
<1> QED
  BY <1>1, <1>4, <1>5

\* The buffer of the OneToMany relation, row by row.
LEMMA WrittenBack ==
  ASSUME IInv, ~m_isSubsetColl, FirstUnwritable(Appended) = 0
  PROVE  /\ Len(Flattened(Len(entries))) = RangeEnd(Appended)[Len(entries)]
         /\ \A i \in 1..Len(entries) :
               SubSeq(Flattened(Len(entries)), RangeEnd(Appended)[i-1] + 1,
                      RangeEnd(Appended)[i]) = RowIDs(i)
<1> DEFINE n == Len(entries)
           part == [i \in 1..n |-> RowIDs(i)]
           flat == [i \in 0..n |-> Flattened(i)]
           e == [i \in 0..n |-> RangeEnd(Appended)[i]]
<1>1. /\ m_data = <<>> /\ Len(Appended) = n /\ m_rel_tmp = entries /\ n \in Nat
      /\ \A i \in 1..n : WrittenIDs(i) = RowIDs(i)
  BY AllWritable DEF IInv, Typed
<1>2. TypeOK
  BY AlignedIs DEF IInv, Aligned
<1>3. /\ Appended \in Seq(Row)
      /\ \A i \in 1..n : Appended[i].end = Len(obj[entries[i]].many)
  BY <1>1, AppendedType DEF IInv
<1>4. \A i \in 1..n : RowIDs(i) \in Seq(ObjectIDs) /\ Len(RowIDs(i)) = Appended[i].end
  BY <1>1, <1>2, <1>3, RowIDsType
<1>5. \A i \in 0..n : Flattened(i) \in Seq(ObjectIDs)
  BY <1>1, <1>2, FlattenedType
<1>6. \A i \in 0..n : RangeEnd(Appended)[i] \in Nat
  BY <1>1, <1>3, RangeEndType
<1>7. part \in [1..n -> Seq(ObjectIDs)] /\ flat \in [0..n -> Seq(ObjectIDs)] /\ e \in [0..n -> Nat]
  BY <1>4, <1>5, <1>6
<1>8. EndToEnd(n, part, flat, e)
  <2>1. flat[0] = <<>> /\ e[0] = 0
    BY <1>1, <1>3, FlattenedIs, RangeEndIs
  <2>2. ASSUME NEW i \in 1..n
        PROVE  flat[i] = flat[i-1] \o part[i] /\ e[i] = e[i-1] + Len(part[i])
    <3>1. i - 1 \in Nat /\ (i - 1) + 1 = i /\ i \in 0..n /\ i - 1 \in 0..n /\ i # 0
      BY <1>1
    <3>2. Flattened(i) = Flattened(i-1) \o RowIDs(i)
      <4>1. Flattened((i-1)+1) = Flattened(i-1) \o WrittenIDs((i-1)+1)
        BY <3>1, FlattenedIs
      <4> QED
        BY <1>1, <3>1, <4>1
    <3>3. RangeEnd(Appended)[i] = RangeEnd(Appended)[i-1] + Len(RowIDs(i))
      <4>1. i \in 1..Len(Appended)
        BY <1>1
      <4>2. RangeEnd(Appended)[i] = RangeEnd(Appended)[i-1] + Appended[i].end
        BY <1>3, <4>1, RangeEndStep
      <4>3. Appended[i].end = Len(RowIDs(i))
        BY <1>4
      <4> QED
        BY <4>2, <4>3, Zenon
    <3> QED
      BY <3>1, <3>2, <3>3
  <2> HIDE DEF flat, part, e
  <2> QED
    BY <2>1, <2>2 DEF EndToEnd
<1>9. Recovered(n, part, flat, e)
  <2>1. n \in Nat
    BY <1>1
  <2> HIDE DEF n, flat, part, e
  <2> QED
    BY <1>7, <1>8, <2>1, Segments, Zenon
<1>10. \A i \in 1..n : i \in 0..n /\ i - 1 \in 0..n
  BY <1>1
<1>11. n \in 0..n
  BY <1>1
<1> HIDE DEF n
<1> QED
  <2>1. Len(Flattened(n)) = RangeEnd(Appended)[n]
    BY <1>9, <1>11 DEF Recovered
  <2>2. ASSUME NEW i \in 1..n
        PROVE  SubSeq(Flattened(n), RangeEnd(Appended)[i-1] + 1, RangeEnd(Appended)[i]) = RowIDs(i)
    BY <1>9, <1>10, <1>11 DEF Recovered
  <2> QED
    BY <2>1, <2>2 DEF n

\* The rows and the buffers that prepareForWrite leaves.
LEMMA PrepareForWriteKeeps ==
  ASSUME IInv, NEW t \in Thread, PrepareForWrite(t)
  PROVE  IInv'
<1> DEFINE n == Len(entries)
           e == RangeEnd(Appended)
           ones == [i \in 1..n |-> ObjectID(obj[entries[i]].one)]
<1>1. /\ ~m_isSubsetColl /\ hasData /\ FirstUnwritable(Appended) = 0
      /\ m_data' = Ranged(Appended, Len(Appended))
      /\ m_refCollections' = <<Flattened(n), ones>>
      /\ m_isPrepared' = TRUE /\ checked' = checked \ {t}
      /\ outcome' = "ok" /\ unchanged' = TRUE
      /\ UNCHANGED <<obj, entries, m_isSubsetColl, m_rel_tmp, hasData>>
  BY DEF PrepareForWrite, Prepared, contents
<1>2. /\ m_data = <<>> /\ Len(Appended) = n /\ m_rel_tmp = entries /\ n \in Nat
      /\ \A i \in 1..n : ~Unwritable(i)
  BY <1>1, AllWritable DEF IInv, Typed
<1>3. /\ Appended \in Seq(Row)
      /\ \A i \in 1..n : Appended[i].of = entries[i]
  BY <1>1, <1>2, AppendedType DEF IInv
<1>4. TypeOK
  BY AlignedIs DEF IInv, Aligned
<1>5. Len(Flattened(n)) = e[n] /\ \A i \in 1..n : SubSeq(Flattened(n), e[i-1] + 1, e[i]) = RowIDs(i)
  BY <1>1, WrittenBack
<1>6. /\ m_data' \in Seq(Row) /\ Len(m_data') = n
      /\ \A i \in 1..n : m_data'[i].of = entries[i] /\ m_data'[i].begin = e[i-1] /\ m_data'[i].end = e[i]
  <2>1. m_data' \in Seq(Row) /\ Len(m_data') = n
    BY <1>1, <1>2, <1>3, RangedType
  <2>2. ASSUME NEW i \in 1..n
        PROVE  m_data'[i].of = entries[i] /\ m_data'[i].begin = e[i-1] /\ m_data'[i].end = e[i]
    <3> HIDE DEF e
    <3>1. m_data'[i] = [Appended[i] EXCEPT !.begin = e[i-1], !.end = e[i]]
      <4>1. m_data' = Ranged(Appended, n)
        BY <1>1, <1>2
      <4>2. Ranged(Appended, n)[i] = IF i > n THEN Appended[i]
                                     ELSE [Appended[i] EXCEPT !.begin = e[i-1], !.end = e[i]]
        BY <1>2 DEF Ranged, e
      <4> QED
        BY <1>2, <4>1, <4>2
    <3>2. Appended[i] \in Row
      BY <1>2, <1>3
    <3>3. /\ m_data'[i].of = Appended[i].of
          /\ m_data'[i].begin = e[i-1] /\ m_data'[i].end = e[i]
      <4> DEFINE r == Appended[i]
                 q == m_data'[i]
      <4>1. r \in Row /\ q = [r EXCEPT !.begin = e[i-1], !.end = e[i]]
        BY <3>1, <3>2
      <4> HIDE DEF r, q
      <4>2. q.of = r.of /\ q.begin = e[i-1] /\ q.end = e[i]
        BY <4>1 DEF Row
      <4> QED
        BY <4>2 DEF r, q
    <3> QED
      BY <1>3, <3>3
  <2> QED
    BY <2>1, <2>2
<1>7. m_refCollections' \in Seq(Seq(ObjectIDs)) /\ Len(ones) = n
  <2>1. Flattened(n) \in Seq(ObjectIDs)
    BY <1>2, <1>4, FlattenedType
  <2>2. ones \in Seq(ObjectIDs) /\ Len(ones) = n
    <3>1. \A i \in 1..n : ObjectID(obj[entries[i]].one) \in ObjectIDs
      <4>1. \A i \in 1..n : entries[i] \in Obj
        BY <1>2 DEF IInv, Typed
      <4>2. \A i \in 1..n : obj[entries[i]].one \in Target \cup {Null}
        BY <1>4, <4>1 DEF TypeOK
      <4> QED
        BY <1>4, <4>2, ObjectIDType
    <3> QED
      BY <1>2, <3>1
  <2> HIDE DEF ones
  <2> QED
    BY <1>1, <2>1, <2>2
<1>8. Typed'
  BY <1>1, <1>6, <1>7 DEF IInv, Typed
<1>9. Parallel' /\ NoneIsNew' /\ SubsetHasNoData'
  BY <1>1 DEF IInv, Parallel, NoneIsNew, SubsetHasNoData
<1>10. RangesTile'
  <2>1. e[0] = 0
    BY <1>3, RangeEndIs
  <2>2. \A i \in 1..n : m_data'[i].begin = IF i = 1 THEN 0 ELSE m_data'[i-1].end
    BY <1>2, <1>6, <2>1
  <2>3. m_refCollections'[1] = Flattened(n)
    BY <1>1
  <2>4. Len(Flattened(n)) = IF m_data' = <<>> THEN 0 ELSE m_data'[Len(m_data')].end
    <3>1. CASE n = 0
      BY <1>5, <1>6, <2>1, <3>1
    <3>2. CASE n # 0
      BY <1>2, <1>5, <1>6, <3>2
    <3> QED
      BY <3>1, <3>2
  <2> QED
    BY <1>6, <2>2, <2>3, <2>4 DEF RangesTile
<1>11. ASSUME NEW i \in 1..n
       PROVE  RowReadsBack(i)'
  <2>1. Relations(i)' = Relations(i) /\ Relations(i) = obj[m_rel_tmp[i]].many
    BY <1>1, <1>2 DEF Relations
  <2>2. \A x : ObjectID(x)' = ObjectID(x)
    BY <1>1 DEF ObjectID
  <2>3. RelationIDs(i)' = RowIDs(i)
    <3>1. RelationIDs(i)' = RelationIDs(i)
      BY <1>1 DEF RelationIDs, Relations, ObjectID
    <3>2. RelationIDs(i) = RowIDs(i)
      BY <2>1 DEF RelationIDs, RowIDs
    <3> QED
      BY <3>1, <3>2
  <2>4. ReadMany(i)' = RowIDs(i)
    <3>1. ReadMany(i)' = SubSeq(Flattened(n), e[i-1] + 1, e[i])
      BY <1>1, <1>6 DEF ReadMany
    <3> QED
      BY <1>5, <3>1
  <2>5. \A j \in 1..Len(Relations(i)) : ObjectID(Relations(i)[j]) # <<"untracked">>
    <3>1. /\ Len(RowIDs(i)) = Len(Relations(i))
          /\ \A j \in 1..Len(RowIDs(i)) : RowIDs(i)[j] = ObjectID(Relations(i)[j])
      BY <1>2, <1>4, <2>1, RowIDsType
    <3>2. <<"untracked">> \notin {RowIDs(i)[j] : j \in 1..Len(RowIDs(i))}
      BY <1>2 DEF Unwritable
    <3> QED
      BY <3>1, <3>2
  <2>6. (\A j \in 1..Len(Relations(i)) : ObjectID(Relations(i)[j]) # <<"untracked">>)'
    BY <1>1, <2>5 DEF Relations, ObjectID
  <2>7. ReadOne(i)' = OneID(i)'
    <3>1. m_refCollections'[2][i] = ObjectID(obj[entries[i]].one)
      BY <1>1
    <3> QED
      BY <1>1, <3>1 DEF ReadOne, OneID, ObjectID
  <2> QED
    BY <1>1, <1>6, <2>3, <2>4, <2>6, <2>7 DEF RowReadsBack
<1>12. ReadsBack'
  <2>1. Len(m_data') = Len(entries') /\ Len(m_refCollections'[2]) = Len(entries')
    BY <1>1, <1>6, <1>7
  <2> QED
    BY <1>1, <1>11, <2>1 DEF ReadsBack
<1>13. RoundTrip'
  BY <1>1, <1>10, <1>12 DEF RoundTrip, ReadsBack, RowReadsBack, RelationIDs, Relations, OneID
<1> QED
  BY <1>8, <1>9, <1>13 DEF IInv

-----------------------------------------------------------------------------
\* Every step keeps the inductive invariant.
LEMMA NextKeeps ==
  ASSUME IInv, [Next]_vars
  PROVE  IInv'
<1>1. CASE Change
  <2>1. ASSUME NEW o \in Obj, MakeObject(o)
        PROVE  IInv'
    BY <2>1, MakeObjectKeeps
  <2>2. ASSUME NEW o \in Obj, Create(o) \/ PushBack(o)
        PROVE  IInv'
    BY <2>2, TrackKeeps DEF Create, PushBack
  <2>3. ASSUME NEW o \in Obj, NEW x \in Target, AddRelation(o, x) \/ SetRelation(o, x)
        PROVE  IInv'
    BY <2>3, RelationKeeps
  <2>4. ASSUME NEW x \in Foreign, PushBackTracked(x)
        PROVE  IInv'
    BY <2>4, PushBackTrackedKeeps
  <2>5. ASSUME MakeSubset \/ MakeNormal
        PROVE  IInv'
    BY <2>5, SwitchKeeps
  <2>6. ASSUME Clear
        PROVE  IInv'
    BY <2>6, ClearKeeps
  <2> QED
    BY <1>1, <2>1, <2>2, <2>3, <2>4, <2>5, <2>6 DEF Change
<1>2. ASSUME NEW t \in Thread, Check(t) \/ AlreadyPrepared(t)
      PROVE  IInv'
  BY <1>2, CheckKeeps
<1>3. ASSUME NEW t \in Thread, PrepareSubset(t)
      PROVE  IInv'
  BY <1>3, PrepareSubsetKeeps
<1>4. ASSUME NEW t \in Thread, PrepareForWrite(t)
      PROVE  IInv'
  BY <1>4, PrepareForWriteKeeps
<1>5. ASSUME NEW t \in Thread, PrepareThrows(t) \/ PrepareWild(t)
      PROVE  IInv'
  BY <1>5, FailedKeeps
<1>6. CASE UNCHANGED vars
  <2>1. UNCHANGED <<obj, entries, m_isSubsetColl, m_rel_tmp, hasData, m_data, m_refCollections,
                    m_isPrepared, checked, outcome, unchanged>>
    BY <1>6 DEF vars
  <2>2. Typed' /\ Parallel' /\ NoneIsNew' /\ SubsetHasNoData'
    BY <2>1 DEF IInv, Typed, Parallel, NoneIsNew, SubsetHasNoData
  <2>3. RoundTrip'
    BY <2>1, SameBuffers DEF IInv
  <2> QED
    BY <2>2, <2>3 DEF IInv
<1> QED
  BY <1>1, <1>2, <1>3, <1>4, <1>5, <1>6 DEF Next

\* So it always holds.
LEMMA AlwaysIInv ==
  Spec => []IInv
<1>1. Init => IInv
  BY InitIInv
<1>2. IInv /\ [Next]_vars => IInv'
  BY NextKeeps
<1> QED
  BY <1>1, <1>2, PTL DEF Spec

\* In every state the objects of a normal collection are alive, numbered by
\* their positions, and parallel to the relation vectors the collection took
\* over (Collection::create, push_back, clear and setSubsetCollection).
THEOREM StorageStaysAligned == Spec => []Aligned
<1>1. IInv => Aligned
  BY AlignedIs DEF IInv
<1> QED
  BY <1>1, AlwaysIInv, PTL

\* What is read back from the buffers of a prepared collection is what user
\* code put into it, whatever was changed, cleared or failed to be prepared
\* before, and on however many threads prepareForWrite ran.
THEOREM BuffersReadBack == Spec => []RoundTrip
<1>1. IInv => RoundTrip
  BY DEF IInv
<1> QED
  BY <1>1, AlwaysIInv, PTL

-----------------------------------------------------------------------------
\* The first n parts of s, flattened.
Upto(s, n) == FlattenSeq([j \in 1..n |-> s[j]])

\* The recursive function in FlattenSeq is defined by its equation.
LEMMA FlattenSeqIs ==
  ASSUME NEW q, NEW n \in Nat \ {0}, Len(q) = n
  PROVE  \E f : FlattenSeq(q) = f[n] /\ f[1] = q[1] /\ \A i \in 1..n-1 : f[i+1] = f[i] \o q[i+1]
<1> DEFINE Cat(x, i) == x \o q[i]
           Is(f, m) == f = [i \in 1..m |-> IF i = 1 THEN q[i] ELSE Cat(f[i-1], i)]
           F == CHOOSE f : Is(f, n)
           S == {m \in Nat : \E f : Is(f, m)}
<1>1. FlattenSeq(q) = F[n]
  <2>1. Len(q) # 0
    OBVIOUS
  <2> QED
    BY <2>1, Zenon DEF FlattenSeq
<1> HIDE DEF Cat
<1>2. 0 \in S
  <2>1. Is([i \in 1..0 |-> <<>>], 0)
    OBVIOUS
  <2> QED
    BY <2>1
<1>3. ASSUME NEW m \in Nat, m \in S
      PROVE  m + 1 \in S
  <2>1. PICK f : Is(f, m)
    BY <1>3
  <2> DEFINE g == [i \in 1..m+1 |-> IF i <= m THEN f[i] ELSE IF i = 1 THEN q[i] ELSE Cat(f[m], m+1)]
  <2>2. Is(g, m+1)
    BY <2>1
  <2> HIDE DEF g, Is
  <2> QED
    BY <2>2
<1>4. Is(F, n)
  <2>1. n \in S
    <3> HIDE DEF S
    <3> QED
      BY <1>2, <1>3, Induction
  <2> QED
    BY <2>1, Zenon
<1> HIDE DEF F
<1>5. F[1] = q[1] /\ \A i \in 1..n-1 : F[i+1] = Cat(F[i], i+1)
  BY <1>4
<1> QED
  BY <1>1, <1>5, Zenon DEF Cat

LEMMA UptoIs ==
  ASSUME NEW T, NEW s, NEW N \in Nat, \A i \in 1..N : s[i] \in Seq(T)
  PROVE  /\ Upto(s, 0) = <<>>
         /\ \A n \in 0..N-1 : Upto(s, n+1) = Upto(s, n) \o s[n+1]
         /\ \A n \in 0..N : Upto(s, n) \in Seq(T)
<1> DEFINE Q(n) == [j \in 1..n |-> s[j]]
           Steps(f, n) == f[1] = s[1] /\ \A i \in 1..n-1 : f[i+1] = f[i] \o s[i+1]
<1>1. Upto(s, 0) = <<>>
  BY DEF Upto, FlattenSeq
<1>2. ASSUME NEW n \in Nat \ {0}
      PROVE  \E f : Upto(s, n) = f[n] /\ Steps(f, n)
  <2>1. Len(Q(n)) = n /\ \A i \in 1..n : Q(n)[i] = s[i]
    OBVIOUS
  <2>2. 1 \in 1..n /\ \A i \in 1..n-1 : i + 1 \in 1..n
    OBVIOUS
  <2>3. Upto(s, n) = FlattenSeq(Q(n))
    BY DEF Upto
  <2> HIDE DEF Q
  <2>4. PICK f : FlattenSeq(Q(n)) = f[n] /\ f[1] = Q(n)[1] /\ \A i \in 1..n-1 : f[i+1] = f[i] \o Q(n)[i+1]
    BY <2>1, FlattenSeqIs, Zenon
  <2>5. Steps(f, n)
    BY <2>1, <2>2, <2>4
  <2> QED
    BY <2>3, <2>4, <2>5
<1>3. ASSUME NEW n \in 0..N-1
      PROVE  Upto(s, n+1) = Upto(s, n) \o s[n+1]
  <2>1. PICK g : Upto(s, n+1) = g[n+1] /\ Steps(g, n+1)
    <3>1. n + 1 \in Nat \ {0}
      OBVIOUS
    <3> HIDE DEF Steps
    <3> QED
      BY <1>2, <3>1, Zenon
  <2>2. CASE n = 0
    <3>1. s[1] \in Seq(T)
      BY <2>2
    <3>2. Upto(s, 1) = s[1]
      BY <2>1, <2>2
    <3>3. <<>> \o s[1] = s[1]
      BY <3>1
    <3> QED
      BY <1>1, <2>2, <3>2, <3>3
  <2>3. CASE n # 0
    <3>1. PICK f : Upto(s, n) = f[n] /\ Steps(f, n)
      <4>1. n \in Nat \ {0}
        BY <2>3
      <4> HIDE DEF Steps
      <4> QED
        BY <1>2, <4>1, Zenon
    <3> DEFINE U == {i \in Nat : i + 1 <= n => f[i+1] = g[i+1]}
    <3>2. 0 \in U
      BY <2>1, <3>1
    <3>3. ASSUME NEW i \in Nat, i \in U
          PROVE  i + 1 \in U
      <4> SUFFICES ASSUME i + 1 + 1 <= n
                   PROVE  f[i+1+1] = g[i+1+1]
        OBVIOUS
      <4>1. i + 1 \in 1..n-1 /\ i + 1 \in 1..(n+1)-1 /\ f[i+1] = g[i+1]
        BY <3>3
      <4> QED
        BY <2>1, <3>1, <4>1
    <3>4. n - 1 \in U
      <4>1. n - 1 \in Nat
        BY <2>3
      <4> HIDE DEF U
      <4> QED
        BY <3>2, <3>3, <4>1, Induction
    <3>5. f[n] = g[n]
      BY <2>3, <3>4
    <3>6. g[n+1] = g[n] \o s[n+1]
      <4>1. n \in 1..(n+1)-1
        BY <2>3
      <4> QED
        BY <2>1, <4>1, Zenon
    <3> QED
      BY <2>1, <3>1, <3>5, <3>6
  <2> QED
    BY <2>2, <2>3
<1>4. \A n \in 0..N : Upto(s, n) \in Seq(T)
  <2> DEFINE U == {n \in Nat : n <= N => Upto(s, n) \in Seq(T)}
  <2>1. 0 \in U
    <3>1. <<>> \in Seq(T)
      OBVIOUS
    <3>2. Upto(s, 0) \in Seq(T)
      BY <1>1, <3>1, Zenon
    <3> QED
      BY <3>2
  <2>2. ASSUME NEW n \in Nat, n \in U
        PROVE  n + 1 \in U
    <3> SUFFICES ASSUME n + 1 <= N
                 PROVE  Upto(s, n+1) \in Seq(T)
      OBVIOUS
    <3>1. n \in 0..N-1 /\ s[n+1] \in Seq(T) /\ Upto(s, n) \in Seq(T)
      BY <2>2
    <3>2. Upto(s, n) \o s[n+1] \in Seq(T)
      BY <3>1
    <3> QED
      BY <1>3, <3>1, <3>2, Zenon
  <2>3. \A n \in Nat : n \in U
    <3> HIDE DEF U
    <3> QED
      BY <2>1, <2>2, Induction
  <2> QED
    BY <2>3
<1> QED
  BY <1>1, <1>3, <1>4

LEMMA UptoSame ==
  ASSUME NEW s, NEW t, NEW n \in Nat, \A i \in 1..n : s[i] = t[i]
  PROVE  Upto(s, n) = Upto(t, n)
<1>1. [j \in 1..n |-> s[j]] = [j \in 1..n |-> t[j]]
  OBVIOUS
<1> QED
  BY <1>1, Zenon DEF Upto

\* s starts with p.
StartsWith(s, p) == Len(p) <= Len(s) /\ \A i \in 1..Len(p) : s[i] = p[i]

\* What more parts give starts with what fewer give.
LEMMA UptoStarts ==
  ASSUME NEW T, NEW s, NEW N \in Nat, \A i \in 1..N : s[i] \in Seq(T), NEW p \in 0..N
  PROVE  StartsWith(Upto(s, N), Upto(s, p))
<1> DEFINE U == {k \in Nat : p + k <= N => StartsWith(Upto(s, p+k), Upto(s, p))}
<1>1. 0 \in U
  <2>1. p + 0 = p
    OBVIOUS
  <2>2. StartsWith(Upto(s, p), Upto(s, p))
    <3>1. Upto(s, p) \in Seq(T)
      BY UptoIs
    <3>2. \A q \in Seq(T) : Len(q) <= Len(q)
      OBVIOUS
    <3> QED
      BY <3>1, <3>2 DEF StartsWith
  <2> QED
    BY <2>1, <2>2
<1>2. ASSUME NEW k \in Nat, k \in U
      PROVE  k + 1 \in U
  <2> SUFFICES ASSUME p + (k + 1) <= N
               PROVE  StartsWith(Upto(s, p+(k+1)), Upto(s, p))
    OBVIOUS
  <2> DEFINE m == p + k
             a == Upto(s, p)
             b == Upto(s, m)
             q == s[m+1]
  <2>1. m \in 0..N-1 /\ m \in 0..N /\ m + 1 \in 1..N /\ p + (k + 1) = m + 1
    OBVIOUS
  <2>2. StartsWith(b, a)
    BY <1>2
  <2> HIDE DEF m
  <2>3. a \in Seq(T) /\ b \in Seq(T) /\ q \in Seq(T) /\ Upto(s, m+1) = b \o q
    BY <2>1, UptoIs
  <2> HIDE DEF a, b, q
  <2>4. Len(b \o q) = Len(b) + Len(q) /\ \A j \in 1..Len(b) : (b \o q)[j] = b[j]
    BY <2>3, Catenated
  <2>5. Len(a) \in Nat /\ Len(b) \in Nat /\ Len(q) \in Nat
    BY <2>3
  <2>6. StartsWith(b \o q, a)
    BY <2>2, <2>4, <2>5 DEF StartsWith
  <2> QED
    BY <2>1, <2>3, <2>6 DEF a
<1>3. N - p \in U
  <2>1. N - p \in Nat
    OBVIOUS
  <2> HIDE DEF U
  <2> QED
    BY <1>1, <1>2, <2>1, Induction
<1>4. p + (N - p) = N
  OBVIOUS
<1> QED
  BY <1>3, <1>4

\* A sequence starts with another one of the same length only if it is that.
LEMMA StartsWithAll ==
  ASSUME NEW T, NEW s \in Seq(T), NEW p \in Seq(T), StartsWith(s, p), Len(s) = Len(p)
  PROVE  s = p
BY DEF StartsWith

LEMMA UptoEmpty ==
  ASSUME NEW s, NEW N \in Nat, \A i \in 1..N : s[i] = <<>>
  PROVE  Upto(s, N) = <<>>
<1> DEFINE U == {n \in Nat : n <= N => Upto(s, n) = <<>>}
<1>0. \A i \in 1..N : s[i] \in Seq({})
  <2>1. <<>> \in Seq({})
    OBVIOUS
  <2> QED
    BY <2>1, Zenon
<1>1. 0 \in U
  BY <1>0, UptoIs
<1>2. ASSUME NEW n \in Nat, n \in U
      PROVE  n + 1 \in U
  <2> SUFFICES ASSUME n + 1 <= N
               PROVE  Upto(s, n+1) = <<>>
    OBVIOUS
  <2>1. n \in 0..N-1 /\ n + 1 \in 1..N /\ Upto(s, n) = <<>>
    BY <1>2
  <2>2. Upto(s, n+1) = Upto(s, n) \o s[n+1]
    BY <1>0, <2>1, UptoIs
  <2>3. s[n+1] = <<>>
    BY <2>1
  <2>4. <<>> \o <<>> = <<>>
    OBVIOUS
  <2> QED
    BY <2>1, <2>2, <2>3, <2>4, Zenon
<1>3. N \in U
  <2> HIDE DEF U
  <2> QED
    BY <1>1, <1>2, Induction
<1> QED
  BY <1>3

\* Parts of at most M elements are not more than M elements each together.
LEMMA UptoBound ==
  ASSUME NEW T, NEW s, NEW N \in Nat, \A i \in 1..N : s[i] \in Seq(T),
         NEW M \in Nat, \A i \in 1..N : Len(s[i]) <= M
  PROVE  Len(Upto(s, N)) <= M * N
<1> DEFINE U == {n \in Nat : n <= N => Len(Upto(s, n)) <= M * n}
<1>1. 0 \in U
  <2>1. Upto(s, 0) = <<>>
    BY UptoIs
  <2>2. M * 0 = 0 /\ Len(<<>>) = 0
    OBVIOUS
  <2> QED
    BY <2>1, <2>2
<1>2. ASSUME NEW n \in Nat, n \in U
      PROVE  n + 1 \in U
  <2> SUFFICES ASSUME n + 1 <= N
               PROVE  Len(Upto(s, n+1)) <= M * (n+1)
    OBVIOUS
  <2> DEFINE b == Upto(s, n)
             q == s[n+1]
  <2>1. n \in 0..N-1 /\ n \in 0..N /\ n + 1 \in 1..N /\ Len(b) <= M * n
    BY <1>2
  <2>2. b \in Seq(T) /\ q \in Seq(T) /\ Upto(s, n+1) = b \o q /\ Len(q) <= M
    BY <2>1, UptoIs
  <2> HIDE DEF b, q
  <2>3. Len(b \o q) = Len(b) + Len(q) /\ Len(b) \in Nat /\ Len(q) \in Nat
    BY <2>2
  <2>4. M * (n + 1) = M * n + M /\ M * n \in Nat
    OBVIOUS
  <2>5. \A x, y, z \in Nat : x <= y /\ z <= M => x + z <= y + M
    OBVIOUS
  <2> QED
    BY <2>1, <2>2, <2>3, <2>4, <2>5
<1>3. N \in U
  <2> HIDE DEF U
  <2> QED
    BY <1>1, <1>2, Induction
<1> QED
  BY <1>3

\* Element i of the parts, counted from 0, is in the last part that starts not
\* behind it, as many elements behind the start.
Located(s, N, i) ==
    LET K == Cardinality({k \in 1..N : Len(Upto(s, k-1)) <= i})
        j == i - Len(Upto(s, K-1))
    IN K \in 1..N /\ j \in Nat /\ j < Len(s[K]) /\ s[K][j+1] = Upto(s, N)[i+1]

LEMMA PartOfElement ==
  ASSUME NEW T, NEW s, NEW N \in Nat, \A k \in 1..N : s[k] \in Seq(T),
         NEW i \in Nat, i < Len(Upto(s, N))
  PROVE  Located(s, N, i)
<1> DEFINE e(k) == Len(Upto(s, k))
           B == {k \in 1..N : i < e(k)}
           A == {k \in 1..N : e(k-1) <= i}
<1>1. \A k \in 0..N : Upto(s, k) \in Seq(T) /\ e(k) \in Nat
  <2>1. \A k \in 0..N : Upto(s, k) \in Seq(T)
    BY UptoIs
  <2>2. \A q \in Seq(T) : Len(q) \in Nat
    OBVIOUS
  <2> QED
    BY <2>1, <2>2
<1>2. e(0) = 0
  BY UptoIs, SMTT(40)
<1>3. \A k \in 0..N : \A l \in 0..k : e(l) <= e(k)
  <2> SUFFICES ASSUME NEW k \in 0..N, NEW l \in 0..k
               PROVE  e(l) <= e(k)
    OBVIOUS
  <2>1. k \in Nat /\ \A x \in 1..k : s[x] \in Seq(T)
    OBVIOUS
  <2> QED
    BY <2>1, UptoStarts DEF StartsWith
<1>4. PICK m \in B : \A k \in B : m <= k
  <2>1. N \in 1..N
    BY <1>2
  <2>2. B # {} /\ B \in SUBSET Nat
    BY <2>1
  <2> HIDE DEF B
  <2> QED
    BY <2>2, LeastNumber
<1>5. m \in 1..N /\ i < e(m)
  OBVIOUS
<1>6. e(m-1) <= i
  <2>1. m - 1 \in 0..N /\ m - 1 \notin B
    BY <1>4, <1>5
  <2>2. CASE m - 1 = 0
    BY <1>2, <2>2
  <2>3. CASE m - 1 # 0
    <3>1. m - 1 \in 1..N
      BY <2>1, <2>3
    <3>2. e(m-1) \in Nat /\ ~(i < e(m-1))
      BY <1>1, <2>1, <3>1
    <3> HIDE DEF e
    <3> QED
      BY <3>2
  <2> QED
    BY <2>2, <2>3
<1> HIDE DEF e
<1>7. A = 1..m
  <2>1. ASSUME NEW k \in 1..m
        PROVE  k \in A
    <3>1. k \in 1..N /\ k - 1 \in 0..m-1 /\ k - 1 \in 0..N /\ m - 1 \in 0..N
      BY <1>5
    <3>2. e(k-1) <= e(m-1) /\ e(k-1) \in Nat /\ e(m-1) \in Nat
      BY <1>1, <1>3, <3>1
    <3>3. e(k-1) <= i
      BY <1>6, <3>2
    <3> QED
      BY <3>1, <3>3
  <2>2. ASSUME NEW k \in A
        PROVE  k \in 1..m
    <3>1. k \in 1..N /\ k - 1 \in 0..N /\ m \in 0..N /\ e(k-1) <= i
      BY <1>5
    <3>2. CASE k > m
      <4>1. m \in 0..k-1
        BY <1>5, <3>1, <3>2
      <4>2. e(m) <= e(k-1) /\ e(m) \in Nat /\ e(k-1) \in Nat
        BY <1>1, <1>3, <3>1, <4>1
      <4> QED
        BY <1>5, <3>1, <4>2
    <3>3. CASE ~(k > m)
      BY <1>5, <3>1, <3>3
    <3> QED
      BY <3>2, <3>3
  <2> QED
    BY <2>1, <2>2
<1>8. Cardinality(A) = m
  <2>1. m \in Nat /\ m \in Int /\ 1 \in Int /\ 1 <= m
    BY <1>5
  <2>2. Cardinality(1..m) = IF 1 > m THEN 0 ELSE m-1+1
    BY <2>1, FS_Interval, Zenon
  <2>3. Cardinality(1..m) = m
    BY <2>1, <2>2
  <2> HIDE DEF A
  <2> QED
    BY <1>7, <2>3
<1>9. /\ i - e(m-1) \in Nat /\ i - e(m-1) < Len(s[m])
      /\ s[m][i - e(m-1) + 1] = Upto(s, N)[i+1]
  <2> DEFINE a == Upto(s, m-1)
             q == s[m]
             j == i - e(m-1)
  <2>1. m - 1 \in 0..N-1 /\ m - 1 \in 0..N /\ (m - 1) + 1 = m /\ m \in 0..N /\ m \in 1..N
    BY <1>5
  <2>2. a \in Seq(T) /\ q \in Seq(T) /\ Upto(s, m) = a \o q
    <3> HIDE DEF a, q
    <3>1. Upto(s, (m-1)+1) = Upto(s, m-1) \o s[(m-1)+1]
      BY <2>1, UptoIs
    <3>2. Upto(s, m-1) \in Seq(T)
      BY <2>1, UptoIs
    <3> QED
      BY <2>1, <3>1, <3>2 DEF a, q
  <2>3. e(m-1) = Len(a) /\ e(m) = Len(a \o q)
    BY <2>2 DEF e
  <2>4. StartsWith(Upto(s, N), a \o q)
    BY <2>1, <2>2, UptoStarts
  <2> HIDE DEF a, q
  <2>5. Len(a \o q) = Len(a) + Len(q) /\ \A x \in 1..Len(q) : (a \o q)[Len(a) + x] = q[x]
    BY <2>2, Catenated
  <2>6. Len(a) \in Nat /\ Len(q) \in Nat
    BY <2>2
  <2>7. j \in Nat /\ j < Len(q)
    BY <1>5, <1>6, <2>3, <2>5, <2>6
  <2>8. j + 1 \in 1..Len(q) /\ Len(a) + (j + 1) = i + 1 /\ i + 1 \in 1..Len(a \o q)
    BY <2>3, <2>5, <2>6, <2>7
  <2>9. q[j+1] = (a \o q)[i+1]
    BY <2>5, <2>8
  <2>10. (a \o q)[i+1] = Upto(s, N)[i+1]
    BY <2>4, <2>8 DEF StartsWith
  <2> QED
    BY <2>7, <2>9, <2>10 DEF q
<1> QED
  BY <1>5, <1>8, <1>9 DEF e, A, Located

-----------------------------------------------------------------------------
\* The files and their parts.
TupleInfo == CategoryInfo \cup {None}
TupleFile == [readable : BOOLEAN, categories : [Category -> TupleInfo],
              tuples : [Category -> Seq(Frame)]]

\* The entries of a category in each of the files q of the disk d, and each of
\* the files that has an RNTuple of it.
TupleRows(d, q, c) == [j \in 1..Len(q) |-> d[q[j]].tuples[c]]
WithTuple(d, q, c) ==
    [j \in 1..Len(q) |-> IF d[q[j]].categories[c] # None /\ d[q[j]].categories[c].writer
                         THEN <<q[j]>> ELSE <<>>]

\* There are no entries where there is no RNTuple.
NoTupleNoRows(d, c) ==
    \A f \in DOMAIN d : d[f].categories[c] = None \/ ~d[f].categories[c].writer
                        => d[f].tuples[c] = <<>>

LEMMA TuplePartTypes ==
  ASSUME NEW d \in Seq(TupleFile), NEW q \in Seq(DOMAIN d), NEW c \in Category
  PROVE  \A i \in 1..Len(q) :
            /\ TupleRows(d, q, c)[i] = d[q[i]].tuples[c]
            /\ TupleRows(d, q, c)[i] \in Seq(Frame)
            /\ WithTuple(d, q, c)[i] \in Seq(DOMAIN d)
<1> SUFFICES ASSUME NEW i \in 1..Len(q)
             PROVE  /\ TupleRows(d, q, c)[i] = d[q[i]].tuples[c]
                    /\ TupleRows(d, q, c)[i] \in Seq(Frame)
                    /\ WithTuple(d, q, c)[i] \in Seq(DOMAIN d)
  OBVIOUS
<1>1. q[i] \in DOMAIN d /\ d[q[i]] \in TupleFile
  OBVIOUS
<1>2. d[q[i]].tuples[c] \in Seq(Frame)
  BY <1>1 DEF TupleFile
<1>3. <<>> \in Seq(DOMAIN d) /\ <<q[i]>> \in Seq(DOMAIN d)
  BY <1>1
<1>4. WithTuple(d, q, c)[i] \in {<<>>, <<q[i]>>}
  BY DEF WithTuple
<1> QED
  BY <1>2, <1>3, <1>4 DEF TupleRows

\* The files with an RNTuple have all the entries.
LEMMA KeptRows ==
  ASSUME NEW d \in Seq(TupleFile), NEW q \in Seq(DOMAIN d), NEW c \in Category,
         NoTupleNoRows(d, c), NEW n \in 0..Len(q)
  PROVE  LET k == Upto(WithTuple(d, q, c), n) IN
         /\ k \in Seq(DOMAIN d)
         /\ Upto(TupleRows(d, k, c), Len(k)) = Upto(TupleRows(d, q, c), n)
<1> DEFINE w == WithTuple(d, q, c)
           r == TupleRows(d, q, c)
           k(m) == Upto(w, m)
           Same(m) == Upto(TupleRows(d, k(m), c), Len(k(m))) = Upto(r, m)
           U == {m \in Nat : m <= Len(q) => Same(m)}
<1>1. \A i \in 1..Len(q) : r[i] = d[q[i]].tuples[c] /\ r[i] \in Seq(Frame) /\ w[i] \in Seq(DOMAIN d)
  BY TuplePartTypes
<1> HIDE DEF w, r
<1>2. \A m \in 0..Len(q) : k(m) \in Seq(DOMAIN d)
  <2>1. Len(q) \in Nat
    OBVIOUS
  <2> QED
    BY <1>1, <2>1, UptoIs
<1>3. 0 \in U
  <2>1. k(0) = <<>> /\ Upto(r, 0) = <<>>
    <3>1. Len(q) \in Nat
      OBVIOUS
    <3> QED
      BY <1>1, <3>1, UptoIs
  <2>2. Upto(TupleRows(d, <<>>, c), 0) = <<>> /\ Len(<<>>) = 0
    <3>1. 0 \in Nat /\ \A i \in 1..0 : TupleRows(d, <<>>, c)[i] = <<>>
      OBVIOUS
    <3> QED
      BY <3>1, UptoEmpty
  <2> QED
    BY <2>1, <2>2
<1>4. ASSUME NEW m \in Nat, m \in U
      PROVE  m + 1 \in U
  <2> SUFFICES ASSUME m + 1 <= Len(q)
               PROVE  Same(m + 1)
    OBVIOUS
  <2> DEFINE x == q[m+1]
             a == k(m)
             b == k(m+1)
             Has == d[x].categories[c] # None /\ d[x].categories[c].writer
  <2>1. /\ m \in 0..Len(q)-1 /\ m \in 0..Len(q) /\ m + 1 \in 1..Len(q) /\ m + 1 \in 0..Len(q)
        /\ Same(m) /\ x \in DOMAIN d /\ Len(q) \in Nat
    BY <1>4
  <2>2. b = a \o w[m+1] /\ Upto(r, m+1) = Upto(r, m) \o r[m+1] /\ Upto(r, m) \in Seq(Frame)
    <3>1. k(m+1) = k(m) \o w[m+1]
      <4>1. \A i \in 1..Len(q) : w[i] \in Seq(DOMAIN d)
        BY <1>1
      <4>2. \A j \in 0..Len(q)-1 : Upto(w, j+1) = Upto(w, j) \o w[j+1]
        BY <2>1, <4>1, UptoIs, ZenonT(40)
      <4> QED
        BY <2>1, <4>2
    <3>2. Upto(r, m+1) = Upto(r, m) \o r[m+1] /\ Upto(r, m) \in Seq(Frame)
      BY <1>1, <2>1, UptoIs, ZenonT(40)
    <3> QED
      BY <3>1, <3>2
  <2>3. a \in Seq(DOMAIN d)
    BY <1>2, <2>1
  <2>4. w[m+1] = IF Has THEN <<x>> ELSE <<>>
    BY <2>1 DEF WithTuple, w
  <2> HIDE DEF a, b, x
  <2>5. CASE Has
    <3>1. b = Append(a, x) /\ x \in DOMAIN d
      BY <2>1, <2>2, <2>3, <2>4, <2>5
    <3>2. /\ b \in Seq(DOMAIN d) /\ Len(b) = Len(a) + 1 /\ b[Len(a) + 1] = x /\ Len(a) \in Nat
          /\ \A i \in 1..Len(a) : b[i] = a[i]
      BY <2>3, <3>1
    <3> DEFINE ra == TupleRows(d, a, c)
               rb == TupleRows(d, b, c)
    <3>3. /\ \A i \in 1..Len(b) : rb[i] \in Seq(Frame)
          /\ \A i \in 1..Len(b) : rb[i] = d[b[i]].tuples[c]
          /\ \A i \in 1..Len(a) : ra[i] = d[a[i]].tuples[c]
      BY <2>3, <3>2, TuplePartTypes
    <3> HIDE DEF ra, rb
    <3>4. Upto(rb, Len(a)) = Upto(ra, Len(a))
      <4>1. ASSUME NEW i \in 1..Len(a)
            PROVE  rb[i] = ra[i]
        <5>1. i \in 1..Len(b)
          BY <3>2
        <5> QED
          BY <3>2, <3>3, <5>1
      <4> QED
        BY <3>2, <4>1, UptoSame
    <3>5. Upto(rb, Len(a) + 1) = Upto(rb, Len(a)) \o rb[Len(a) + 1]
      <4>1. Len(b) \in Nat /\ Len(a) \in 0..Len(b)-1
        BY <3>2
      <4>2. \A i \in 1..Len(b) : rb[i] \in Seq(Frame)
        BY <3>3
      <4> QED
        BY <4>1, <4>2, UptoIs
    <3>6. rb[Len(a) + 1] = r[m+1]
      <4>1. Len(a) + 1 \in 1..Len(b)
        BY <3>2
      <4>2. rb[Len(a) + 1] = d[x].tuples[c]
        BY <3>2, <3>3, <4>1
      <4> QED
        BY <1>1, <2>1, <4>2 DEF x
    <3> QED
      BY <2>1, <2>2, <3>2, <3>4, <3>5, <3>6 DEF ra, rb, a, b
  <2>6. CASE ~Has
    <3>1. b = a
      BY <2>2, <2>3, <2>4, <2>6
    <3>2. r[m+1] = <<>>
      BY <1>1, <2>1, <2>6 DEF NoTupleNoRows, x
    <3>3. Upto(r, m) \o <<>> = Upto(r, m)
      BY <2>2
    <3> QED
      BY <2>1, <2>2, <3>1, <3>2, <3>3 DEF a, b
  <2> QED
    BY <2>5, <2>6
<1>5. n \in U
  <2>1. n \in Nat
    OBVIOUS
  <2> HIDE DEF U
  <2> QED
    BY <1>3, <1>4, <2>1, Induction
<1> QED
  BY <1>2, <1>5 DEF r, w

-----------------------------------------------------------------------------
\* The metadata of a category describe the fields of its entries; there are
\* none without an RNTuple.
Described(info, rows) ==
    /\ info # None /\ info.writer =>
          /\ info.names = info.ids
          /\ info.model = [k \in 1..Len(info.ids) |-> <<info.ids[k], info.subsetCollections[k]>>]
          /\ \A j \in 1..Len(rows) : Bindable(info, rows[j])
    /\ info = None \/ ~info.writer => rows = <<>>

AllDescribed(cats, tups) ==
    \A c \in Category : Described(cats[c], tups[c]) /\ Len(tups[c]) <= MaxEntries

\* The writer.
WriterInv ==
    /\ m_categories \in [Category -> TupleInfo]
    /\ tuples \in [Category -> Seq(Frame)]
    /\ AllDescribed(m_categories, tuples)

\* A file on the disk; one that was not finished has nothing.
FileFits(file) ==
    /\ file \in TupleFile
    /\ AllDescribed(file.categories, file.tuples)
    /\ ~file.readable => file.categories = Unwritten /\ file.tuples = Empty

\* The files that are open for a category are those with an RNTuple of it
\* among the first ones of q; e and t are about their entries.
OpenedAs(d, q, c, r, e, t) ==
    /\ \E p \in 0..Len(q) : r = Upto(WithTuple(d, q, c), p)
    /\ e = [k \in 1..Len(r) |-> Len(Upto(TupleRows(d, r, c), k-1))]
    /\ t = Len(Upto(TupleRows(d, r, c), Len(r)))

\* Where no files are open, no entries are counted.
CachesFit(d, q, r, e, t) ==
    \A c \in Category :
        /\ r[c] # None => OpenedAs(d, q, c, r[c], e[c], t[c])
        /\ r[c] = None => t[c] \in {None, 0}

\* The metadata are those of a file that was opened, and of all of these.
FilesOpened(d, q, m) ==
    /\ q \in Seq(DOMAIN d) /\ Len(q) <= MaxOpened
    /\ m \in {0} \cup DOMAIN d
    /\ m # 0 => d[m].readable /\ \E j \in 1..Len(q) : q[j] = m
    /\ \A i, j \in 1..Len(q) :
          d[q[i]].readable /\ d[q[j]].readable => d[q[i]].categories = d[q[j]].categories

CacheTypes(d, r, e, t) ==
    /\ r \in [Category -> Seq(DOMAIN d) \cup {None}]
    /\ e \in [Category -> Seq(Nat)]
    /\ t \in [Category -> Nat \cup {None}]

ReaderInv ==
    /\ disk \in Seq(TupleFile) /\ \A f \in DOMAIN disk : FileFits(disk[f])
    /\ FilesOpened(disk, m_filenames, m_metadata)
    /\ CacheTypes(disk, m_readers, m_readerEntries, m_totalEntries)
    /\ CachesFit(disk, m_filenames, m_readers, m_readerEntries, m_totalEntries)
    /\ m_collectionInfo \in [Category -> TupleInfo]
    /\ m_entries \in [Category -> 0..MaxEntries * MaxOpened]
    /\ AnswersRight
    /\ answer.is = "wild" => m_filenames # <<>>

TupleInv == WriterInv /\ ReaderInv

\* A disk of such files has no entries where there is no RNTuple.
LEMMA DiskHasTuples ==
  ASSUME ReaderInv
  PROVE  \A c \in Category : NoTupleNoRows(disk, c)
BY DEF ReaderInv, FileFits, AllDescribed, Described, NoTupleNoRows

\* What the model flattens, in terms of Upto.
LEMMA FlattenedFiles ==
  ASSUME ReaderInv, NEW c
  PROVE  /\ FilesWith(c) = Upto(WithTuple(disk, m_filenames, c), Len(m_filenames))
         /\ Chain(c) = Upto(TupleRows(disk, m_filenames, c), Len(m_filenames))
         /\ \A r \in Seq(DOMAIN disk) : \A k \in 1..Len(r)+1 :
               EntriesBefore(c, r, k) = Len(Upto(TupleRows(disk, r, c), k-1))
<1>1. FilesWith(c) = Upto(WithTuple(disk, m_filenames, c), Len(m_filenames))
  <2> DEFINE s == WithTuple(disk, m_filenames, c)
  <2>1. s = [j \in 1..Len(m_filenames) |-> s[j]]
    BY DEF WithTuple
  <2>2. FilesWith(c) = FlattenSeq(s)
    BY Zenon DEF FilesWith, HasTuple, WithTuple
  <2> HIDE DEF s
  <2> QED
    BY <2>1, <2>2, Zenon DEF Upto, s
<1>2. Chain(c) = Upto(TupleRows(disk, m_filenames, c), Len(m_filenames))
  <2> DEFINE s == TupleRows(disk, m_filenames, c)
  <2>1. s = [j \in 1..Len(m_filenames) |-> s[j]]
    BY DEF TupleRows
  <2>2. Chain(c) = FlattenSeq(s)
    BY Zenon DEF Chain, TupleRows
  <2> HIDE DEF s
  <2> QED
    BY <2>1, <2>2, Zenon DEF Upto, s
<1>3. ASSUME NEW r \in Seq(DOMAIN disk), NEW k \in 1..Len(r)+1
      PROVE  EntriesBefore(c, r, k) = Len(Upto(TupleRows(disk, r, c), k-1))
  <2>1. \A j \in 1..k-1 : j \in 1..Len(r)
    OBVIOUS
  <2>2. [j \in 1..k-1 |-> disk[r[j]].tuples[c]] = [j \in 1..k-1 |-> TupleRows(disk, r, c)[j]]
    BY <2>1 DEF TupleRows
  <2> QED
    BY <2>2, Zenon DEF EntriesBefore, Upto
<1> QED
  BY <1>1, <1>2, <1>3

\* Files that are open for a category, by the types of what is known of them.
LEMMA OpenedTypes ==
  ASSUME ReaderInv, NEW c \in Category, NEW r, NEW e, NEW t,
         OpenedAs(disk, m_filenames, c, r, e, t)
  PROVE  /\ r \in Seq(DOMAIN disk) /\ e \in Seq(Nat) /\ t \in 0..MaxEntries * MaxOpened
         /\ \A k \in 1..Len(r) : TupleRows(disk, r, c)[k] = disk[r[k]].tuples[c]
                                 /\ TupleRows(disk, r, c)[k] \in Seq(Frame)
         /\ StartsWith(FilesWith(c), r)
         /\ StartsWith(Chain(c), Upto(TupleRows(disk, r, c), Len(r)))
<1> DEFINE q == m_filenames
           w == WithTuple(disk, q, c)
           rows == TupleRows(disk, q, c)
<1>1. PICK p \in 0..Len(q) : r = Upto(w, p)
  BY DEF OpenedAs
<1>2. /\ disk \in Seq(TupleFile) /\ q \in Seq(DOMAIN disk) /\ Len(q) <= MaxOpened /\ Len(q) \in Nat
      /\ MaxEntries \in Nat /\ MaxOpened \in Nat /\ NoTupleNoRows(disk, c)
  BY DiskHasTuples, BoundsAssumption DEF ReaderInv, FilesOpened
<1> HIDE DEF q
<1>3. \A i \in 1..Len(q) : rows[i] = disk[q[i]].tuples[c] /\ rows[i] \in Seq(Frame) /\ w[i] \in Seq(DOMAIN disk)
  BY <1>2, TuplePartTypes
<1>4. r \in Seq(DOMAIN disk) /\ Upto(TupleRows(disk, r, c), Len(r)) = Upto(rows, p)
  BY <1>1, <1>2, KeptRows
<1>5. \A k \in 1..Len(r) : TupleRows(disk, r, c)[k] = disk[r[k]].tuples[c]
                           /\ TupleRows(disk, r, c)[k] \in Seq(Frame)
  BY <1>2, <1>4, TuplePartTypes
<1> HIDE DEF w, rows
<1>6. StartsWith(Upto(w, Len(q)), r)
  <2>1. \A i \in 1..Len(q) : w[i] \in Seq(DOMAIN disk)
    BY <1>3
  <2> QED
    BY <1>1, <1>2, <2>1, UptoStarts, Zenon
<1>7. StartsWith(Upto(rows, Len(q)), Upto(TupleRows(disk, r, c), Len(r)))
  <2>1. \A i \in 1..Len(q) : rows[i] \in Seq(Frame)
    BY <1>3
  <2> QED
    BY <1>2, <1>4, <2>1, UptoStarts, Zenon
<1>8. FilesWith(c) = Upto(w, Len(q)) /\ Chain(c) = Upto(rows, Len(q))
  BY FlattenedFiles DEF q, w, rows
<1>9. e \in Seq(Nat)
  <2>1. \A k \in 0..Len(r) : Upto(TupleRows(disk, r, c), k) \in Seq(Frame)
    <3>1. Len(r) \in Nat
      BY <1>4
    <3>2. \A k \in 1..Len(r) : TupleRows(disk, r, c)[k] \in Seq(Frame)
      BY <1>5
    <3> QED
      BY <3>1, <3>2, UptoIs, Zenon
  <2>2. \A k \in 1..Len(r) : Len(Upto(TupleRows(disk, r, c), k-1)) \in Nat
    <3>1. \A k \in 1..Len(r) : k - 1 \in 0..Len(r)
      BY <1>4
    <3>2. \A s \in Seq(Frame) : Len(s) \in Nat
      OBVIOUS
    <3> QED
      BY <2>1, <3>1, <3>2
  <2>3. e = [k \in 1..Len(r) |-> Len(Upto(TupleRows(disk, r, c), k-1))] /\ Len(r) \in Nat
    BY <1>4 DEF OpenedAs
  <2>4. e = [k \in 1..Len(r) |-> e[k]] /\ \A k \in 1..Len(r) : e[k] \in Nat
    BY <2>2, <2>3
  <2> QED
    BY <2>3, <2>4, IsASequence
<1>10. t \in 0..MaxEntries * MaxOpened
  <2>1. t = Len(Upto(rows, p))
    BY <1>4 DEF OpenedAs
  <2>2. p \in Nat /\ p <= MaxOpened /\ \A i \in 1..p : i \in 1..Len(q)
    BY <1>2
  <2>3. \A i \in 1..p : rows[i] \in Seq(Frame) /\ Len(rows[i]) <= MaxEntries
    <3> SUFFICES ASSUME NEW i \in 1..p
                 PROVE  rows[i] \in Seq(Frame) /\ Len(rows[i]) <= MaxEntries
      OBVIOUS
    <3>1. q[i] \in DOMAIN disk /\ rows[i] = disk[q[i]].tuples[c] /\ rows[i] \in Seq(Frame)
      BY <1>2, <1>3, <2>2
    <3> QED
      BY <3>1 DEF ReaderInv, FileFits, AllDescribed
  <2>4. Len(Upto(rows, p)) <= MaxEntries * p
    BY <1>2, <2>2, <2>3, UptoBound
  <2>5. Len(Upto(rows, p)) \in Nat
    <3>1. p \in 0..p /\ \A i \in 1..p : rows[i] \in Seq(Frame)
      BY <2>2, <2>3
    <3>2. Upto(rows, p) \in Seq(Frame)
      BY <2>2, <3>1, UptoIs
    <3> QED
      BY <3>2
  <2>6. MaxEntries * p <= MaxEntries * MaxOpened /\ MaxEntries * p \in Nat /\ MaxEntries * MaxOpened \in Nat
    <3>1. PICK x \in Nat : MaxOpened = p + x
      <4>1. MaxOpened - p \in Nat /\ MaxOpened = p + (MaxOpened - p)
        BY <1>2, <2>2
      <4> QED
        BY <4>1
    <3>2. MaxEntries * (p + x) = MaxEntries * p + MaxEntries * x /\ MaxEntries * x \in Nat
          /\ MaxEntries * p \in Nat
      BY <1>2, <2>2
    <3> QED
      BY <3>1, <3>2
  <2> QED
    BY <2>1, <2>4, <2>5, <2>6
<1> QED
  BY <1>4, <1>5, <1>6, <1>7, <1>8, <1>9, <1>10

\* The files that getEntries counts the entries of.
CountedFiles(c) == IF m_readers[c] = None THEN FilesWith(c) ELSE m_readers[c]

\* They are open after getEntries, if there are any.
LEMMA Opened ==
  ASSUME ReaderInv, NEW c \in Category
  PROVE  OpenedAs(disk, m_filenames, c, CountedFiles(c), Starts(c), Total(c))
<1>1. CASE m_readers[c] # None
  BY <1>1 DEF CountedFiles, Starts, Total, ReaderInv, CachesFit
<1>2. CASE m_readers[c] = None
  <2> DEFINE r == FilesWith(c)
             n == Len(m_filenames)
  <2>1. /\ disk \in Seq(TupleFile) /\ m_filenames \in Seq(DOMAIN disk) /\ n \in Nat /\ n \in 0..n
        /\ NoTupleNoRows(disk, c)
    BY DiskHasTuples DEF ReaderInv, FilesOpened
  <2>2. r = Upto(WithTuple(disk, m_filenames, c), n)
    BY FlattenedFiles
  <2>3. r \in Seq(DOMAIN disk)
    <3> HIDE DEF r
    <3> QED
      BY <2>1, <2>2, KeptRows
  <2>4. /\ CountedFiles(c) = r /\ Total(c) = EntriesBefore(c, r, Len(r) + 1)
        /\ Starts(c) = [k \in 1..Len(r) |-> EntriesBefore(c, r, k)]
    BY <1>2 DEF CountedFiles, Starts, Total
  <2>5. \A k \in 1..Len(r)+1 : EntriesBefore(c, r, k) = Len(Upto(TupleRows(disk, r, c), k-1))
    BY <2>3, FlattenedFiles
  <2> HIDE DEF r
  <2>6. Total(c) = Len(Upto(TupleRows(disk, r, c), Len(r)))
    <3>1. Len(r) + 1 \in 1..Len(r)+1 /\ (Len(r) + 1) - 1 = Len(r)
      BY <2>3
    <3> QED
      BY <2>4, <2>5, <3>1
  <2>7. Starts(c) = [k \in 1..Len(r) |-> Len(Upto(TupleRows(disk, r, c), k-1))]
    <3>1. \A k \in 1..Len(r) : EntriesBefore(c, r, k) = Len(Upto(TupleRows(disk, r, c), k-1))
      BY <2>3, <2>5
    <3> QED
      BY <2>4, <3>1
  <2> QED
    BY <2>1, <2>2, <2>4, <2>6, <2>7 DEF OpenedAs
<1> QED
  BY <1>1, <1>2

LEMMA FilesKnown ==
  ASSUME ReaderInv, NEW c \in Category
  PROVE  FilesWith(c) # None
<1>1. disk \in Seq(TupleFile) /\ m_filenames \in Seq(DOMAIN disk) /\ NoTupleNoRows(disk, c)
  BY DiskHasTuples DEF ReaderInv, FilesOpened
<1>2. Len(m_filenames) \in 0..Len(m_filenames)
  BY <1>1
<1>3. FilesWith(c) \in Seq(DOMAIN disk)
  BY <1>1, <1>2, KeptRows, FlattenedFiles
<1>4. FilesWith(c) \in Seq(Nat)
  BY <1>1, <1>3
<1> QED
  BY <1>4, DistinctAssumption

\* Without a file there are no entries, and nothing is open.
LEMMA NothingOpened ==
  ASSUME ReaderInv, NEW c \in Category, Readers(c) = None
  PROVE  m_readers[c] = None /\ Total(c) = 0
<1>1. FilesWith(c) # None
  BY FilesKnown
<1>2. m_readers[c] = None /\ m_filenames = <<>>
  BY <1>1 DEF Readers
<1>3. OpenedAs(disk, <<>>, c, CountedFiles(c), Starts(c), Total(c))
  BY <1>2, Opened
<1>4. CountedFiles(c) = <<>>
  <2>1. PICK p \in 0..0 : CountedFiles(c) = Upto(WithTuple(disk, <<>>, c), p)
    BY <1>3 DEF OpenedAs
  <2>2. p = 0 /\ 0 \in Nat /\ \A i \in 1..0 : WithTuple(disk, <<>>, c)[i] = <<>>
    OBVIOUS
  <2>3. Upto(WithTuple(disk, <<>>, c), 0) = <<>>
    BY <2>2, UptoEmpty
  <2> QED
    BY <2>1, <2>2, <2>3
<1>5. Total(c) = Len(Upto(TupleRows(disk, <<>>, c), 0))
  <2>1. Total(c) = Len(Upto(TupleRows(disk, <<>>, c), Len(<<>>)))
    BY <1>3, <1>4 DEF OpenedAs
  <2>2. Len(<<>>) = 0
    OBVIOUS
  <2> QED
    BY <2>1, <2>2
<1>6. Upto(TupleRows(disk, <<>>, c), 0) = <<>>
  <2>1. 0 \in Nat /\ \A i \in 1..0 : TupleRows(disk, <<>>, c)[i] = <<>>
    OBVIOUS
  <2> QED
    BY <2>1, UptoEmpty
<1> QED
  BY <1>2, <1>5, <1>6

\* When all files with an RNTuple of the category are open, all its entries
\* are counted.
LEMMA AllEntries ==
  ASSUME ReaderInv, NEW c \in Category, CountedFiles(c) = FilesWith(c)
  PROVE  Total(c) = Len(Chain(c))
<1> DEFINE n == Len(m_filenames)
<1>1. /\ disk \in Seq(TupleFile) /\ m_filenames \in Seq(DOMAIN disk) /\ n \in 0..n
      /\ NoTupleNoRows(disk, c)
  BY DiskHasTuples DEF ReaderInv, FilesOpened
<1>2. FilesWith(c) = Upto(WithTuple(disk, m_filenames, c), n) /\ Chain(c) = Upto(TupleRows(disk, m_filenames, c), n)
  BY FlattenedFiles
<1>3. FilesWith(c) \in Seq(DOMAIN disk) /\ Upto(TupleRows(disk, FilesWith(c), c), Len(FilesWith(c))) = Chain(c)
  BY <1>1, <1>2, KeptRows
<1> QED
  BY <1>3, Opened DEF OpenedAs

\* Files that are opened, and files that are written, do not change what is
\* open.
LEMMA StaysOpened ==
  ASSUME NEW d \in Seq(TupleFile), NEW d2, \A f \in DOMAIN d : d2[f] = d[f],
         NEW q \in Seq(DOMAIN d), NEW q2, Len(q2) \in Nat, StartsWith(q2, q), NEW c \in Category,
         NEW r, NEW e, NEW t, r \in Seq(DOMAIN d), OpenedAs(d, q, c, r, e, t)
  PROVE  OpenedAs(d2, q2, c, r, e, t)
<1>1. PICK p \in 0..Len(q) : r = Upto(WithTuple(d, q, c), p)
  BY DEF OpenedAs
<1>2. \A j \in 1..Len(q) : q2[j] = q[j] /\ d2[q[j]] = d[q[j]] /\ j \in 1..Len(q2)
  BY DEF StartsWith
<1>3. \A j \in 1..p : WithTuple(d2, q2, c)[j] = WithTuple(d, q, c)[j]
  <2>1. \A j \in 1..p : j \in 1..Len(q)
    OBVIOUS
  <2> QED
    BY <1>2, <2>1 DEF WithTuple
<1>4. Upto(WithTuple(d2, q2, c), p) = Upto(WithTuple(d, q, c), p)
  BY <1>3, UptoSame
<1>5. p \in 0..Len(q2)
  BY DEF StartsWith
<1>6. TupleRows(d2, r, c) = TupleRows(d, r, c)
  BY DEF TupleRows
<1> QED
  BY <1>1, <1>4, <1>5, <1>6 DEF OpenedAs

-----------------------------------------------------------------------------
\* A writer changes nothing of the reader until it is gone.
LEMMA ReaderStays == ReaderInv /\ UNCHANGED <<disk, reading>> => ReaderInv'
BY DEF ReaderInv, reading, caches, AnswersRight, Chain, FilesWith, HasTuple

\* The CategoryInfo that writeFrame goes on with: without an RNTuple it may
\* have other names than before.
LEMMA NamedTypes ==
  ASSUME WriterInv, NEW c \in Category, NEW asked \in Requests[c], NEW info \in Named(c, asked)
  PROVE  /\ info \in CategoryInfo
         /\ info.writer => info = m_categories[c]
         /\ Described(info, tuples[c])
<1>1. getCategoryInfo(c) \in CategoryInfo
  BY DEF getCategoryInfo, WriterInv, TupleInfo, NewCategory, CategoryInfo
<1>2. CASE getCategoryInfo(c).writer
  <2>1. info = getCategoryInfo(c)
    BY <1>2 DEF Named
  <2>2. info = m_categories[c]
    BY <1>2, <2>1 DEF getCategoryInfo, NewCategory
  <2> QED
    BY <1>1, <2>1, <2>2 DEF WriterInv, AllDescribed
<1>3. CASE ~getCategoryInfo(c).writer
  <2>1. PICK s \in Sorted(asked) : info = [getCategoryInfo(c) EXCEPT !.names = s]
    BY <1>3 DEF Named
  <2>2. s \in Seq(Name)
    <3>1. asked \subseteq Name /\ IsFiniteSet(asked)
      BY CollectionsAssumption
    <3>2. Cardinality(asked) \in Nat
      BY <3>1, FS_CardinalityType
    <3>3. s \in [1..Cardinality(asked) -> asked]
      BY DEF Sorted
    <3> QED
      BY <3>1, <3>2, <3>3
  <2>3. info \in CategoryInfo /\ ~info.writer
    BY <1>1, <1>3, <2>1, <2>2 DEF CategoryInfo
  <2>4. tuples[c] = <<>>
    BY <1>3 DEF WriterInv, AllDescribed, Described, getCategoryInfo
  <2> QED
    BY <2>3, <2>4 DEF Described
<1> QED
  BY <1>2, <1>3

LEMMA ThrowKeeps ==
  ASSUME WriterInv, NEW c \in Category, NEW asked \in Requests[c], NEW info \in Named(c, asked),
         NEW why, Throw(c, info, why)
  PROVE  WriterInv'
<1>1. info \in CategoryInfo /\ Described(info, tuples[c])
  BY NamedTypes
<1>2. m_categories' \in [Category -> TupleInfo] /\ tuples' = tuples
  BY <1>1 DEF Throw, WriterInv, TupleInfo
<1>3. AllDescribed(m_categories', tuples')
  BY <1>1, <1>2 DEF Throw, WriterInv, AllDescribed
<1> QED
  BY <1>2, <1>3 DEF WriterInv

\* An entry that the fields of the CategoryInfo can be bound to is filled.
LEMMA FillKeeps ==
  ASSUME WriterInv, NEW c \in Category, NEW fr \in Frame, NEW info \in CategoryInfo,
         info.writer, Described(info, tuples[c]), Bindable(info, fr), Fill(c, info, fr)
  PROVE  WriterInv'
<1> DEFINE rows == Append(tuples[c], fr)
<1>1. m_categories' = [m_categories EXCEPT ![c] = info] /\ tuples' = [tuples EXCEPT ![c] = rows]
  BY DEF Fill, WriterInv
<1>2. tuples[c] \in Seq(Frame) /\ Len(tuples[c]) < MaxEntries
  BY DEF WriterInv, Fill
<1>3. rows \in Seq(Frame) /\ Len(rows) <= MaxEntries
  BY <1>2, BoundsAssumption
<1>4. Described(info, rows)
  <2>1. info # None
    BY DistinctAssumption
  <2>2. \A j \in 1..Len(rows) : Bindable(info, rows[j])
    <3>1. \A j \in 1..Len(tuples[c]) : Bindable(info, tuples[c][j])
      BY <2>1 DEF Described
    <3>2. \A j \in 1..Len(rows) : rows[j] = fr \/ (j \in 1..Len(tuples[c]) /\ rows[j] = tuples[c][j])
      BY <1>2
    <3> HIDE DEF rows
    <3> QED
      BY <3>1, <3>2
  <2> QED
    BY <2>1, <2>2 DEF Described
<1> HIDE DEF rows
<1>5. m_categories' \in [Category -> TupleInfo] /\ tuples' \in [Category -> Seq(Frame)]
  BY <1>1, <1>3 DEF WriterInv, TupleInfo
<1>6. AllDescribed(m_categories', tuples')
  <2> SUFFICES ASSUME NEW k \in Category
               PROVE  Described(m_categories'[k], tuples'[k]) /\ Len(tuples'[k]) <= MaxEntries
    BY DEF AllDescribed
  <2>1. CASE k = c
    BY <1>1, <1>3, <1>4, <2>1 DEF WriterInv
  <2>2. CASE k # c
    BY <1>1, <2>2 DEF WriterInv, AllDescribed
  <2> QED
    BY <2>1, <2>2
<1> QED
  BY <1>5, <1>6 DEF WriterInv

\* The CategoryInfo of the first Frame describes it.
LEMMA WriteFirstKeeps ==
  ASSUME TupleInv, NEW c \in Category, NEW fr \in Frame, NEW asked \in Requests[c],
         WriteFirst(c, fr, asked)
  PROVE  TupleInv'
<1>1. PICK info \in Named(c, asked) :
        LET kinds == [k \in 1..Len(info.names) |-> Contents[fr][info.names[k]]] IN
        /\ Available(info, fr)
        /\ ~info.writer
        /\ Fill(c, [info EXCEPT
                      !.writer = TRUE,
                      !.model = [k \in 1..Len(kinds) |-> <<info.names[k], kinds[k]>>],
                      !.ids = info.names,
                      !.subsetCollections = kinds], fr)
  BY DEF WriteFirst
<1> DEFINE kinds == [k \in 1..Len(info.names) |-> Contents[fr][info.names[k]]]
           model == [k \in 1..Len(kinds) |-> <<info.names[k], kinds[k]>>]
           new == [info EXCEPT !.writer = TRUE, !.model = model, !.ids = info.names,
                               !.subsetCollections = kinds]
<1>2. info \in CategoryInfo /\ Described(info, tuples[c])
  BY NamedTypes DEF TupleInv
<1>3. info.names \in Seq(Name) /\ tuples[c] = <<>>
  BY <1>1, <1>2 DEF CategoryInfo, Described
<1>4. \A k \in 1..Len(info.names) : kinds[k] = Contents[fr][info.names[k]] /\ kinds[k] \in {"normal", "subset"}
  BY <1>1, <1>3, FramesAssumption DEF Available, Range
<1>5. kinds \in Seq({"normal", "subset"}) /\ Len(kinds) = Len(info.names)
  <2>1. kinds = [k \in 1..Len(info.names) |-> kinds[k]] /\ Len(info.names) \in Nat
    BY <1>3
  <2> HIDE DEF kinds
  <2> QED
    BY <1>4, <2>1, IsASequence
<1> HIDE DEF kinds
<1>6. model \in Seq(Name \X {"normal", "subset"}) /\ Len(model) = Len(info.names)
  <2>1. /\ model = [k \in 1..Len(info.names) |-> model[k]] /\ Len(info.names) \in Nat
        /\ \A k \in 1..Len(info.names) : model[k] = <<info.names[k], kinds[k]>>
    BY <1>3, <1>5
  <2>2. \A k \in 1..Len(info.names) : model[k] \in Name \X {"normal", "subset"}
    BY <1>3, <1>4, <2>1
  <2> DEFINE Field == Name \X {"normal", "subset"}
  <2>3. \A k \in 1..Len(info.names) : model[k] \in Field
    BY <2>2
  <2> HIDE DEF model, Field
  <2>4. model \in Seq(Field) /\ Len(model) = Len(info.names)
    BY <2>1, <2>3, IsASequence
  <2> QED
    BY <2>4 DEF Field
<1>7. Described(new, tuples[c]) /\ new \in CategoryInfo /\ new.writer
  <2> HIDE DEF model
  <2>1. /\ new.writer = TRUE /\ new.names = info.names /\ new.ids = info.names
        /\ new.model = model /\ new.subsetCollections = kinds
    BY <1>2 DEF CategoryInfo
  <2>2. new \in CategoryInfo
    BY <1>2, <1>3, <1>5, <1>6 DEF CategoryInfo
  <2> HIDE DEF new
  <2>3. new.model = [k \in 1..Len(new.ids) |-> <<new.ids[k], new.subsetCollections[k]>>]
    BY <1>5, <2>1 DEF model
  <2>4. \A j \in 1..Len(tuples[c]) : Bindable(new, tuples[c][j])
    BY <1>3
  <2>5. new.writer /\ new.names = new.ids
    BY <2>1
  <2>6. Described(new, tuples[c])
    BY <1>3, <2>3, <2>4, <2>5, Zenon DEF Described
  <2> QED
    BY <2>2, <2>5, <2>6
<1>8. Bindable(new, fr)
  <2> SUFFICES ASSUME NEW n \in Range(new.names)
               PROVE  <<n, Contents[fr][n]>> \in Range(new.model)
    BY DEF Bindable
  <2>1. new.names = info.names /\ new.model = model
    BY <1>2 DEF CategoryInfo
  <2>2. PICK k \in 1..Len(info.names) : n = info.names[k]
    BY <1>3, <2>1 DEF Range
  <2>3. model[k] = <<n, Contents[fr][n]>> /\ k \in DOMAIN model
    BY <1>4, <1>5, <2>2
  <2> QED
    BY <2>1, <2>3 DEF Range
<1>9. Fill(c, new, fr)
  BY <1>1 DEF kinds
<1> HIDE DEF new
<1>10. WriterInv'
  BY <1>7, <1>8, <1>9, FillKeeps DEF TupleInv
<1> QED
  BY <1>10, ReaderStays DEF TupleInv, WriteFirst

\* writeFrame that throws.
LEMMA WriteFailsKeeps ==
  ASSUME TupleInv, NEW c \in Category, NEW fr \in Frame, NEW asked \in Requests[c],
         WriteUnavailable(c, fr, asked) \/ WriteNoField(c, fr, asked) \/ WriteThrows(c, fr, asked)
  PROVE  TupleInv'
<1>1. \E info \in Named(c, asked), why \in {"unavailable", "no field", "inconsistent", "no such field"} :
         Throw(c, info, why)
  BY DEF WriteUnavailable, WriteNoField, WriteThrows
<1>2. WriterInv'
  BY <1>1, ThrowKeeps DEF TupleInv
<1>3. UNCHANGED <<disk, reading>>
  BY DEF WriteUnavailable, WriteNoField, WriteThrows
<1> QED
  BY <1>2, <1>3, ReaderStays DEF TupleInv

\* An entry that has the fields of those before.
LEMMA WriteNextKeeps ==
  ASSUME TupleInv, NEW c \in Category, NEW fr \in Frame, NEW asked \in Requests[c],
         WriteNext(c, fr, asked)
  PROVE  TupleInv'
<1>1. PICK info \in Named(c, asked) : info.writer /\ Bindable(info, fr) /\ Fill(c, info, fr)
  BY DEF WriteNext
<1>2. WriterInv'
  BY <1>1, NamedTypes, FillKeeps DEF TupleInv
<1> QED
  BY <1>2, ReaderStays DEF TupleInv, WriteNext

-----------------------------------------------------------------------------
\* The answer a, given the entries of all files, those with an RNTuple and
\* those that are open, and the metadata of the category.
AnswerFits(a, chain, with, r, m, info, readable) ==
    /\ a.is \in Frame => a.entry < Len(chain) /\ a.is = chain[a.entry + 1]
    /\ a.is = "null" /\ r = with /\ m # 0 =>
          a.entry >= Len(chain) \/ Wanted(info, a.limit) \cap NoBuffers # {}
    /\ a.is = "wild" => ~readable

LEMMA AnswersRightIs ==
  AnswersRight <=> AnswerFits(answer, Chain(answer.category), FilesWith(answer.category),
                              m_readers[answer.category], m_metadata,
                              m_collectionInfo[answer.category], disk[m_filenames[1]].readable)
BY DEF AnswersRight, AnswerFits

\* The file of the writer is added to the disk.
LEMMA DiskGrows ==
  ASSUME ReaderInv, NEW file, FileFits(file), disk' = Append(disk, file), UNCHANGED reading
  PROVE  ReaderInv'
<1>1. disk \in Seq(TupleFile) /\ file \in TupleFile /\ m_filenames \in Seq(DOMAIN disk)
  BY DEF ReaderInv, FileFits, FilesOpened
<1>2. /\ disk' \in Seq(TupleFile) /\ DOMAIN disk \subseteq DOMAIN disk'
      /\ \A f \in DOMAIN disk : disk'[f] = disk[f]
      /\ \A f \in DOMAIN disk' : f \in DOMAIN disk \/ disk'[f] = file
  BY <1>1
<1>3. \A f \in DOMAIN disk' : FileFits(disk'[f])
  BY <1>2 DEF ReaderInv
<1>4. \A S : S \subseteq DOMAIN disk => S \subseteq DOMAIN disk'
  BY <1>2
<1>5. \A s \in Seq(DOMAIN disk) : s \in Seq(DOMAIN disk')
  BY <1>2
<1>6. FilesOpened(disk', m_filenames', m_metadata')
  <2>1. \A j \in 1..Len(m_filenames) : m_filenames[j] \in DOMAIN disk /\ disk'[m_filenames[j]] = disk[m_filenames[j]]
    BY <1>1, <1>2
  <2>2. m_filenames \in Seq(DOMAIN disk')
    BY <1>1, <1>5
  <2> QED
    BY <1>2, <2>1, <2>2 DEF FilesOpened, ReaderInv, reading
<1>7. CacheTypes(disk', m_readers', m_readerEntries', m_totalEntries')
  BY <1>5 DEF CacheTypes, ReaderInv, reading, caches
<1>8. CachesFit(disk', m_filenames', m_readers', m_readerEntries', m_totalEntries')
  <2> SUFFICES ASSUME NEW c \in Category, m_readers[c] # None
               PROVE  OpenedAs(disk', m_filenames, c, m_readers[c], m_readerEntries[c], m_totalEntries[c])
    BY DEF CachesFit, reading, caches, ReaderInv
  <2>1. OpenedAs(disk, m_filenames, c, m_readers[c], m_readerEntries[c], m_totalEntries[c])
    BY DEF ReaderInv, CachesFit
  <2>2. m_readers[c] \in Seq(DOMAIN disk)
    BY DEF ReaderInv, CacheTypes
  <2>3. Len(m_filenames) \in Nat /\ StartsWith(m_filenames, m_filenames)
    BY <1>1 DEF StartsWith
  <2> QED
    BY <1>1, <1>2, <2>1, <2>2, <2>3, StaysOpened
<1>9. AnswersRight' /\ (answer'.is = "wild" => m_filenames' # <<>>)
  <2>1. \A j \in 1..Len(m_filenames) : disk'[m_filenames[j]] = disk[m_filenames[j]]
    BY <1>1, <1>2
  <2>2. m_filenames' = m_filenames
    BY DEF reading
  <2>3. \A c : Chain(c)' = Chain(c)
    <3> SUFFICES ASSUME NEW c PROVE Chain(c)' = Chain(c)
      OBVIOUS
    <3>1. [j \in 1..Len(m_filenames') |-> disk'[m_filenames'[j]].tuples[c]]
            = [j \in 1..Len(m_filenames) |-> disk[m_filenames[j]].tuples[c]]
      BY <2>1, <2>2
    <3> QED
      BY <3>1, Zenon DEF Chain
  <2>4. \A c : FilesWith(c)' = FilesWith(c)
    <3> SUFFICES ASSUME NEW c PROVE FilesWith(c)' = FilesWith(c)
      OBVIOUS
    <3> DEFINE One(d, f) == IF d[f].categories[c] # None /\ d[f].categories[c].writer THEN <<f>> ELSE <<>>
    <3>1. [j \in 1..Len(m_filenames') |-> One(disk', m_filenames'[j])]
            = [j \in 1..Len(m_filenames) |-> One(disk, m_filenames[j])]
      BY <2>1, <2>2
    <3> QED
      BY <3>1, Zenon DEF FilesWith, HasTuple
  <2>5. m_filenames # <<>> => disk'[m_filenames[1]] = disk[m_filenames[1]]
    BY <1>1, <2>1
  <2> QED
    BY <2>2, <2>3, <2>4, <2>5, AnswersRightIs DEF ReaderInv, reading, caches, AnswersRight
<1> QED
  BY <1>2, <1>3, <1>6, <1>7, <1>8, <1>9 DEF ReaderInv, reading

LEMMA LeaveKeeps ==
  ASSUME TupleInv, Finish \/ Crash
  PROVE  TupleInv'
<1>1. ASSUME NEW file, FileFits(file), Leave(file)
      PROVE  TupleInv'
  <2>1. ReaderInv'
    BY <1>1, DiskGrows DEF Leave, TupleInv
  <2>2. WriterInv'
    BY <1>1, BoundsAssumption DEF Leave, WriterInv, TupleInfo, Unwritten, Empty, AllDescribed, Described
  <2> QED
    BY <2>1, <2>2 DEF TupleInv
<1>2. CASE Finish
  <2> DEFINE file == [readable |-> TRUE, categories |-> m_categories, tuples |-> tuples]
  <2>1. FileFits(file)
    BY DEF TupleInv, WriterInv, FileFits, TupleFile
  <2> QED
    BY <1>1, <1>2, <2>1 DEF Finish
<1>3. CASE Crash
  <2> DEFINE file == [readable |-> FALSE, categories |-> Unwritten, tuples |-> Empty]
  <2>1. file \in TupleFile
    BY DEF TupleFile, TupleInfo, Unwritten, Empty
  <2>2. AllDescribed(Unwritten, Empty)
    BY BoundsAssumption DEF AllDescribed, Described, Unwritten, Empty
  <2>3. FileFits(file)
    BY <2>1, <2>2 DEF FileFits
  <2> QED
    BY <1>1, <1>3, <2>3 DEF Crash
<1> QED
  BY <1>2, <1>3

LEMMA FilesJoined ==
  ASSUME NEW D, NEW q \in Seq(D), NEW n \in Nat, NEW files \in [1..n -> D]
  PROVE  /\ q \o files \in Seq(D) /\ Len(q \o files) = Len(q) + n
         /\ \A j \in 1..Len(q) : (q \o files)[j] = q[j]
         /\ \A j \in 1..n : (q \o files)[Len(q) + j] = files[j]
<1> DEFINE Is(p) == /\ q \o p \in Seq(D) /\ Len(q \o p) = Len(q) + Len(p)
                    /\ \A j \in 1..Len(q) : (q \o p)[j] = q[j]
                    /\ \A j \in 1..Len(p) : (q \o p)[Len(q) + j] = p[j]
<1>1. files \in Seq(D) /\ Len(files) = n
  OBVIOUS
<1>2. \A p \in Seq(D) : Is(p)
  BY Catenated
<1>3. Is(files)
  <2> HIDE DEF Is
  <2> QED
    BY <1>1, <1>2, Zenon
<1> QED
  BY <1>1, <1>3, Zenon

\* openFiles: the files join those that were opened, and are like them.
LEMMA OpenFilesKeeps ==
  ASSUME TupleInv, NEW n \in 1..MaxOpened, NEW files \in [1..n -> DOMAIN disk], OpenFiles(files)
  PROVE  TupleInv'
<1> DEFINE q == m_filenames
           q2 == q \o files
<1>1. /\ q \in Seq(DOMAIN disk) /\ files \in Seq(DOMAIN disk) /\ Len(files) = n /\ n \in Nat /\ n >= 1
      /\ disk \in Seq(TupleFile) /\ m_filenames' = q2 /\ disk' = disk
  BY DEF TupleInv, ReaderInv, FilesOpened, OpenFiles
<1>2. /\ q2 \in Seq(DOMAIN disk) /\ Len(q2) = Len(q) + n
      /\ \A j \in 1..Len(q) : q2[j] = q[j]
      /\ \A j \in 1..n : q2[Len(q) + j] = files[j]
  BY <1>1, FilesJoined
<1>3. FilesOpened(disk', m_filenames', m_metadata')
  <2>1. \A j \in 1..Len(q2) : q2[j] \in Range(q) \cup Range(files)
    <3> SUFFICES ASSUME NEW j \in 1..Len(q2)
                 PROVE  q2[j] \in Range(q) \cup Range(files)
      OBVIOUS
    <3>1. CASE j <= Len(q)
      <4>1. j \in 1..Len(q) /\ q2[j] = q[j] /\ j \in DOMAIN q
        BY <1>1, <1>2, <3>1
      <4> QED
        BY <4>1 DEF Range
    <3>2. CASE ~(j <= Len(q))
      <4>1. j - Len(q) \in 1..n /\ Len(q) + (j - Len(q)) = j
        BY <1>1, <1>2, <3>2
      <4>2. q2[j] = files[j - Len(q)]
        BY <1>2, <4>1
      <4> QED
        BY <4>1, <4>2 DEF Range
    <3> QED
      BY <3>1, <3>2
  <2>2. \A i, j \in 1..Len(q2) :
           disk[q2[i]].readable /\ disk[q2[j]].readable => disk[q2[i]].categories = disk[q2[j]].categories
    BY <2>1 DEF OpenFiles, Alike
  <2>3. Len(q2) <= MaxOpened
    BY <1>1, <1>2 DEF OpenFiles
  <2>4. CASE \A f \in Range(files) : disk[f].readable
    <3>1. files[1] \in DOMAIN disk /\ files[1] \in Range(files)
      <4>1. 1 \in 1..n /\ DOMAIN files = 1..n
        OBVIOUS
      <4>2. files[1] \in DOMAIN disk
        BY <4>1
      <4> QED
        BY <4>1, <4>2 DEF Range
    <3>2. m_metadata' = files[1]
      BY <2>4 DEF OpenFiles
    <3>3. Len(q) + 1 \in 1..Len(q2) /\ q2[Len(q) + 1] = files[1]
      BY <1>1, <1>2
    <3>4. disk[files[1]].readable
      BY <2>4, <3>1
    <3> HIDE DEF q, q2
    <3>5. \E j \in 1..Len(q2) : q2[j] = files[1]
      BY <3>3
    <3> QED
      BY <1>1, <1>2, <2>2, <2>3, <3>1, <3>2, <3>4, <3>5 DEF FilesOpened
  <2>5. CASE ~\A f \in Range(files) : disk[f].readable
    <3>1. m_metadata' = m_metadata
      BY <2>5, Zenon DEF OpenFiles
    <3>2. m_metadata \in {0} \cup DOMAIN disk
      BY DEF TupleInv, ReaderInv, FilesOpened
    <3>3. m_metadata # 0 => disk[m_metadata].readable /\ \E j \in 1..Len(q) : q[j] = m_metadata
      BY DEF TupleInv, ReaderInv, FilesOpened
    <3>4. \A j \in 1..Len(q) : j \in 1..Len(q2) /\ q2[j] = q[j]
      BY <1>1, <1>2
    <3> HIDE DEF q, q2
    <3> QED
      BY <1>1, <1>2, <2>2, <2>3, <3>1, <3>2, <3>3, <3>4 DEF FilesOpened
  <2> QED
    BY <2>4, <2>5
<1>4. CachesFit(disk', m_filenames', m_readers', m_readerEntries', m_totalEntries')
  <2> SUFFICES ASSUME NEW c \in Category, m_readers[c] # None
               PROVE  OpenedAs(disk, q2, c, m_readers[c], m_readerEntries[c], m_totalEntries[c])
    BY <1>1 DEF CachesFit, OpenFiles, caches, TupleInv, ReaderInv
  <2>1. OpenedAs(disk, q, c, m_readers[c], m_readerEntries[c], m_totalEntries[c])
    BY DEF TupleInv, ReaderInv, CachesFit
  <2>2. m_readers[c] \in Seq(DOMAIN disk)
    BY DEF TupleInv, ReaderInv, CacheTypes
  <2>3. Len(q2) \in Nat /\ StartsWith(q2, q)
    BY <1>1, <1>2 DEF StartsWith
  <2> HIDE DEF q, q2
  <2> QED
    BY <1>1, <2>1, <2>2, <2>3, StaysOpened
<1>5. answer'.is = "none"
  BY DEF OpenFiles, NoAnswer
<1>6. AnswersRight' /\ (answer'.is = "wild" => m_filenames' # <<>>)
  BY <1>5, DistinctAssumption DEF AnswersRight
<1>7. ReaderInv'
  BY <1>1, <1>3, <1>4, <1>6 DEF ReaderInv, TupleInv, OpenFiles, caches
<1>8. WriterInv'
  BY DEF TupleInv, WriterInv, OpenFiles, writing
<1> QED
  BY <1>7, <1>8 DEF TupleInv

\* The number of entries that readEntry compares with is that of the files that
\* are open after getEntries, or 0 where none are.
LEMMA KnownIs ==
  ASSUME ReaderInv, NEW c \in Category
  PROVE  /\ Known(c) = Total(c) \/ (m_readers[c] = None /\ Known(c) = 0)
         /\ m_readers[c] # None => m_totalEntries[c] # None
<1>1. ASSUME m_readers[c] # None
      PROVE  m_totalEntries[c] # None
  <2>1. OpenedAs(disk, m_filenames, c, m_readers[c], m_readerEntries[c], m_totalEntries[c])
    BY <1>1 DEF ReaderInv, CachesFit
  <2>2. m_totalEntries[c] \in Nat
    BY <2>1, OpenedTypes, BoundsAssumption
  <2> QED
    BY <2>2, DistinctAssumption
<1>2. m_readers[c] = None => m_totalEntries[c] \in {None, 0}
  BY DEF ReaderInv, CachesFit
<1> QED
  BY <1>1, <1>2 DEF Known, Total

\* getEntries, called by user code or by readEntry, opens the files of a
\* category; what is open of the others stays.
LEMMA GetEntriesKeeps ==
  ASSUME ReaderInv, NEW c \in Category, GetEntries(c) \/ Counted(c)
  PROVE  /\ CacheTypes(disk, m_readers', m_readerEntries', m_totalEntries')
         /\ CachesFit(disk, m_filenames, m_readers', m_readerEntries', m_totalEntries')
         /\ m_readers'[c] = Readers(c) \/ (m_readers'[c] = None /\ Known(c) = 0)
<1> DEFINE r == Readers(c)
           e == Starts(c)
           t == Total(c)
<1>1. OpenedAs(disk, m_filenames, c, CountedFiles(c), e, t)
  BY Opened
<1>2. CountedFiles(c) \in Seq(DOMAIN disk) /\ e \in Seq(Nat) /\ t \in 0..MaxEntries * MaxOpened
  BY <1>1, OpenedTypes
<1>3. r \in {None, CountedFiles(c)} /\ (r = None => t = 0)
  BY NothingOpened DEF Readers, CountedFiles
<1>4. CacheTypes(disk, m_readers, m_readerEntries, m_totalEntries)
  BY DEF ReaderInv
<1>5. CASE GetEntries(c)
  <2>1. /\ m_readers' = [m_readers EXCEPT ![c] = r]
        /\ m_readerEntries' = [m_readerEntries EXCEPT ![c] = e]
        /\ m_totalEntries' = [m_totalEntries EXCEPT ![c] = t]
    BY <1>5 DEF GetEntries
  <2> HIDE DEF r, e, t
  <2>2. t \in Nat
    BY <1>2, BoundsAssumption
  <2>3. CacheTypes(disk, m_readers', m_readerEntries', m_totalEntries')
    BY <1>2, <1>3, <1>4, <2>1, <2>2 DEF CacheTypes
  <2>4. m_readers'[c] = r /\ m_readerEntries'[c] = e /\ m_totalEntries'[c] = t
    BY <1>4, <2>1 DEF CacheTypes
  <2>5. CachesFit(disk, m_filenames, m_readers', m_readerEntries', m_totalEntries')
    <3> SUFFICES ASSUME NEW k \in Category
                 PROVE  /\ m_readers'[k] # None => OpenedAs(disk, m_filenames, k, m_readers'[k],
                                                            m_readerEntries'[k], m_totalEntries'[k])
                        /\ m_readers'[k] = None => m_totalEntries'[k] \in {None, 0}
      BY DEF CachesFit
    <3>1. CASE k = c
      BY <1>1, <1>3, <2>4, <3>1
    <3>2. CASE k # c
      <4>1. /\ m_readers'[k] = m_readers[k] /\ m_readerEntries'[k] = m_readerEntries[k]
            /\ m_totalEntries'[k] = m_totalEntries[k]
        BY <1>4, <2>1, <3>2 DEF CacheTypes
      <4> QED
        BY <4>1 DEF ReaderInv, CachesFit
    <3> QED
      BY <3>1, <3>2
  <2> QED
    BY <2>3, <2>4, <2>5 DEF r
<1>6. CASE ~GetEntries(c)
  <2>1. m_totalEntries[c] # None /\ UNCHANGED caches
    BY <1>6 DEF Counted
  <2>2. m_readers'[c] = m_readers[c]
    BY <2>1 DEF caches
  <2>3. m_readers[c] = None => Known(c) = 0
    BY <2>1 DEF ReaderInv, CachesFit, Known
  <2>4. m_readers[c] # None => Readers(c) = m_readers[c]
    BY DEF Readers
  <2> QED
    BY <1>4, <2>1, <2>2, <2>3, <2>4 DEF caches, ReaderInv
<1> QED
  BY <1>5, <1>6

\* A call that reads keeps the invariant if its answer fits.
LEMMA ReadKeeps ==
  ASSUME TupleInv, NEW c \in Category, GetEntries(c) \/ Counted(c),
         UNCHANGED <<m_filenames, m_metadata, writing, disk>>,
         m_collectionInfo' \in [Category -> TupleInfo],
         m_entries' \in [Category -> 0..MaxEntries * MaxOpened],
         AnswersRight', answer'.is = "wild" => m_filenames # <<>>
  PROVE  TupleInv'
<1>1. ReaderInv'
  BY GetEntriesKeeps DEF TupleInv, ReaderInv
<1>2. WriterInv'
  BY DEF TupleInv, WriterInv, writing
<1> QED
  BY <1>1, <1>2 DEF TupleInv

\* What the answer has to fit is what it was before the call.
LEMMA AnswerRight ==
  ASSUME NEW c \in Category, NEW is, NEW i, NEW limit, Answer(is, c, i, limit),
         UNCHANGED <<m_filenames, m_metadata, disk>>,
         AnswerFits([is |-> is, category |-> c, entry |-> i, limit |-> limit], Chain(c), FilesWith(c),
                    m_readers'[c], m_metadata, m_collectionInfo'[c], disk[m_filenames[1]].readable)
  PROVE  AnswersRight' /\ answer'.is = is
<1>1. /\ answer' = [is |-> is, category |-> c, entry |-> i, limit |-> limit]
      /\ answer'.category = c /\ answer'.is = is
  BY DEF Answer
<1>2. Chain(c)' = Chain(c) /\ FilesWith(c)' = FilesWith(c)
  BY DEF Chain, FilesWith, HasTuple
<1>3. AnswersRight' <=> AnswerFits(answer', Chain(c)', FilesWith(c)', m_readers'[c], m_metadata',
                                   m_collectionInfo'[c], disk'[m_filenames'[1]].readable)
  BY <1>1 DEF AnswersRight, AnswerFits, Chain, FilesWith, HasTuple
<1> QED
  BY <1>1, <1>2, <1>3

\* There are no entries of a category that the metadata do not have.
LEMMA NotAvailable ==
  ASSUME ReaderInv, NEW c \in Category, m_metadata # 0, c \notin availableCategories
  PROVE  Len(Chain(c)) = 0
<1> DEFINE q == m_filenames
           s == TupleRows(disk, q, c)
<1>1. /\ disk \in Seq(TupleFile) /\ q \in Seq(DOMAIN disk) /\ Len(q) \in Nat /\ m_metadata \in DOMAIN disk
      /\ disk[m_metadata].readable /\ disk[m_metadata].categories[c] = None
  BY DEF ReaderInv, FilesOpened, availableCategories
<1>2. PICK m \in 1..Len(q) : q[m] = m_metadata
  BY DEF ReaderInv, FilesOpened
<1>3. ASSUME NEW j \in 1..Len(q)
      PROVE  s[j] = <<>>
  <2>1. q[j] \in DOMAIN disk /\ FileFits(disk[q[j]]) /\ s[j] = disk[q[j]].tuples[c]
    BY <1>1 DEF ReaderInv, TupleRows
  <2>2. CASE disk[q[j]].readable
    <3>1. disk[q[j]].categories = disk[m_metadata].categories
      BY <1>1, <1>2, <2>2 DEF ReaderInv, FilesOpened
    <3>2. disk[q[j]].categories[c] = None
      BY <1>1, <3>1
    <3> QED
      BY <2>1, <3>2 DEF FileFits, AllDescribed, Described
  <2>3. CASE ~disk[q[j]].readable
    BY <2>1, <2>3 DEF FileFits, Empty
  <2> QED
    BY <2>2, <2>3
<1>4. Chain(c) = Upto(s, Len(q))
  BY FlattenedFiles
<1>5. Upto(s, Len(q)) = <<>>
  <2> HIDE DEF s
  <2> QED
    BY <1>1, <1>3, UptoEmpty
<1> QED
  BY <1>4, <1>5

\* The entry is in the file and the place that the starts say.
LEMMA EntryIs ==
  ASSUME ReaderInv, NEW c \in Category, NEW i \in Nat, i < Total(c)
  PROVE  EntryOf(c, i) \in Frame /\ i < Len(Chain(c)) /\ EntryOf(c, i) = Chain(c)[i+1]
<1> DEFINE r == CountedFiles(c)
           s == TupleRows(disk, r, c)
           n == Len(r)
           K == Cardinality({k \in 1..n : Len(Upto(s, k-1)) <= i})
           j == i - Len(Upto(s, K-1))
<1>1. OpenedAs(disk, m_filenames, c, r, Starts(c), Total(c))
  BY Opened
<1>2. /\ r \in Seq(DOMAIN disk) /\ n \in Nat /\ \A k \in 1..n : s[k] = disk[r[k]].tuples[c] /\ s[k] \in Seq(Frame)
      /\ StartsWith(Chain(c), Upto(s, n))
  BY <1>1, OpenedTypes
<1>3. Starts(c) = [k \in 1..n |-> Len(Upto(s, k-1))] /\ Total(c) = Len(Upto(s, n))
  BY <1>1 DEF OpenedAs
<1> HIDE DEF s, r, n
<1>4. K \in 1..n /\ j \in Nat /\ j < Len(s[K]) /\ s[K][j+1] = Upto(s, n)[i+1]
  <2>1. i < Len(Upto(s, n)) /\ \A k \in 1..n : s[k] \in Seq(Frame)
    BY <1>2, <1>3
  <2>2. Located(s, n, i)
    BY <1>2, <2>1, PartOfElement
  <2> QED
    BY <2>2 DEF Located
<1>5. readerIndex(c, i) = K
  <2>1. Len(Starts(c)) = n /\ \A k \in 1..n : Starts(c)[k] = Len(Upto(s, k-1))
    BY <1>2, <1>3
  <2>2. {k \in 1..Len(Starts(c)) : Starts(c)[k] <= i} = {k \in 1..n : Len(Upto(s, k-1)) <= i}
    BY <2>1
  <2> QED
    BY <2>2, Zenon DEF readerIndex
<1> HIDE DEF K
<1>6. localEntry(c, i, K) = j
  BY <1>3, <1>4 DEF localEntry
<1>7. EntryOf(c, i) = s[K][j+1]
  <2>1. Readers(c) = r
    <3>1. Readers(c) # None
      BY NothingOpened
    <3> QED
      BY <3>1 DEF Readers, CountedFiles, r
  <2>2. disk[Readers(c)[K]].tuples[c] = s[K]
    BY <1>2, <1>4, <2>1
  <2> HIDE DEF j
  <2> QED
    BY <1>4, <1>5, <1>6, <2>2 DEF EntryOf
<1>8. s[K][j+1] \in Frame
  <2> HIDE DEF j
  <2>1. s[K] \in Seq(Frame) /\ Len(s[K]) \in Nat
    BY <1>2, <1>4
  <2>2. j + 1 \in 1..Len(s[K])
    BY <1>4, <2>1
  <2> QED
    BY <2>1, <2>2
<1>9. i < Len(Chain(c)) /\ Chain(c)[i+1] = Upto(s, n)[i+1]
  <2>1. Upto(s, n) \in Seq(Frame)
    <3>1. n \in 0..n /\ \A k \in 1..n : s[k] \in Seq(Frame)
      BY <1>2
    <3> QED
      BY <1>2, <3>1, UptoIs
  <2>2. i + 1 \in 1..Len(Upto(s, n)) /\ Len(Upto(s, n)) \in Nat
    BY <1>3, <2>1
  <2>3. Chain(c) \in Seq(Frame)
    <3>1. /\ disk \in Seq(TupleFile) /\ m_filenames \in Seq(DOMAIN disk)
          /\ Len(m_filenames) \in Nat /\ Len(m_filenames) \in 0..Len(m_filenames)
      BY DEF ReaderInv, FilesOpened
    <3>2. \A k \in 1..Len(m_filenames) : TupleRows(disk, m_filenames, c)[k] \in Seq(Frame)
      BY <3>1, TuplePartTypes
    <3>3. Upto(TupleRows(disk, m_filenames, c), Len(m_filenames)) \in Seq(Frame)
      BY <3>1, <3>2, UptoIs
    <3> QED
      BY <3>3, FlattenedFiles
  <2>4. Len(Chain(c)) \in Nat
    BY <2>3
  <2> QED
    BY <1>2, <1>3, <2>2, <2>4 DEF StartsWith
<1> QED
  BY <1>4, <1>7, <1>8, <1>9

\* The metadata initCategory takes have the type of such.
LEMMA InfoTypes ==
  ASSUME ReaderInv, NEW c \in Category
  PROVE  CollectionInfo(c) \in TupleInfo
<1>1. CASE m_collectionInfo[c] # None
  BY <1>1 DEF CollectionInfo, ReaderInv
<1>2. CASE m_collectionInfo[c] = None /\ c \in availableCategories
  <2>1. m_metadata # 0
    BY <1>2 DEF availableCategories
  <2>2. m_filenames \in Seq(DOMAIN disk) /\ \E j \in 1..Len(m_filenames) : m_filenames[j] = m_metadata
    BY <2>1 DEF ReaderInv, FilesOpened
  <2>3. m_filenames[1] \in DOMAIN disk
    BY <2>2
  <2>4. disk[m_filenames[1]] \in TupleFile
    BY <2>3 DEF ReaderInv
  <2>5. CollectionInfo(c) = disk[m_filenames[1]].categories[c]
    BY <1>2 DEF CollectionInfo
  <2> QED
    BY <2>4, <2>5 DEF TupleFile
<1>3. CASE m_collectionInfo[c] = None /\ c \notin availableCategories
  BY <1>3 DEF CollectionInfo, TupleInfo
<1> QED
  BY <1>1, <1>2, <1>3

\* getEntries
LEMMA CallGetEntriesKeeps ==
  ASSUME TupleInv, NEW c \in Category, CallGetEntries(c)
  PROVE  TupleInv'
<1>1. answer'.is = "none"
  BY DEF CallGetEntries, NoAnswer
<1>2. AnswersRight' /\ (answer'.is = "wild" => m_filenames # <<>>)
  BY <1>1, DistinctAssumption DEF AnswersRight
<1>3. /\ m_collectionInfo' \in [Category -> TupleInfo]
      /\ m_entries' \in [Category -> 0..MaxEntries * MaxOpened]
  BY DEF CallGetEntries, TupleInv, ReaderInv
<1> QED
  BY <1>2, <1>3, ReadKeeps DEF CallGetEntries

\* A nullptr, beyond the entries or for a category that is not there.
LEMMA ReadNullKeeps ==
  ASSUME TupleInv, NEW c \in Category, NEW i \in Nat, NEW limit, ReadNull(c, i, limit)
  PROVE  TupleInv'
<1> DEFINE a == [is |-> "null", category |-> c, entry |-> i, limit |-> limit]
<1>1. ReaderInv /\ (m_readers'[c] = Readers(c) \/ m_readers'[c] = None)
  BY GetEntriesKeeps DEF TupleInv, ReadNull
<1>2. ASSUME m_readers'[c] = FilesWith(c), m_metadata # 0
      PROVE  i >= Len(Chain(c))
  <2>1. FilesWith(c) # None
    BY <1>1, FilesKnown
  <2>2. CountedFiles(c) = FilesWith(c)
    BY <1>1, <1>2, <2>1 DEF Readers, CountedFiles
  <2>3. CASE i >= Known(c)
    <3>1. Known(c) = Total(c)
      <4>1. CASE m_totalEntries[c] = None
        BY <4>1 DEF Known
      <4>2. CASE m_totalEntries[c] # None
        <5>1. m_readers[c] = FilesWith(c)
          BY <1>2, <4>2 DEF ReadNull, Counted, caches
        <5> QED
          BY <1>1, <2>1, <5>1, KnownIs
      <4> QED
        BY <4>1, <4>2
    <3> QED
      BY <1>1, <2>2, <2>3, <3>1, AllEntries
  <2>4. CASE c \notin availableCategories
    BY <1>1, <1>2, <2>4, NotAvailable
  <2> QED
    BY <2>3, <2>4 DEF ReadNull
<1>3. "null" \notin Frame
  BY DistinctAssumption
<1>4. AnswerFits(a, Chain(c), FilesWith(c), m_readers'[c], m_metadata, m_collectionInfo'[c],
                 disk[m_filenames[1]].readable)
  BY <1>2, <1>3 DEF AnswerFits
<1>5. AnswersRight' /\ answer'.is = "null"
  BY <1>4, AnswerRight DEF ReadNull
<1>6. /\ m_collectionInfo' \in [Category -> TupleInfo]
      /\ m_entries' \in [Category -> 0..MaxEntries * MaxOpened]
  BY <1>1 DEF ReadNull, ReaderInv
<1> QED
  BY <1>5, <1>6, ReadKeeps DEF ReadNull

\* A reader that is not there, of the metadata of the first file.
LEMMA ReadWildKeeps ==
  ASSUME TupleInv, NEW c \in Category, NEW i \in Nat, NEW limit, ReadWild(c, i, limit)
  PROVE  TupleInv'
<1>1. ReaderInv /\ "wild" \notin Frame
  BY DistinctAssumption DEF TupleInv
<1>2. m_metadata # 0 /\ ~disk[m_filenames[1]].readable
  BY DEF ReadWild, NoMetadataReader, availableCategories
<1>3. m_filenames # <<>>
  BY <1>1, <1>2 DEF ReaderInv, FilesOpened
<1>4. AnswerFits([is |-> "wild", category |-> c, entry |-> i, limit |-> limit], Chain(c), FilesWith(c),
                 m_readers'[c], m_metadata, m_collectionInfo'[c], disk[m_filenames[1]].readable)
  BY <1>1, <1>2 DEF AnswerFits
<1>5. AnswersRight'
  BY <1>4, AnswerRight DEF ReadWild
<1>6. /\ m_collectionInfo' \in [Category -> TupleInfo]
      /\ m_entries' \in [Category -> 0..MaxEntries * MaxOpened]
  BY <1>1 DEF ReadWild, ReaderInv
<1> QED
  BY <1>3, <1>5, <1>6, ReadKeeps DEF ReadWild

\* A collection that is not in the category.
LEMMA ReadThrowsKeeps ==
  ASSUME TupleInv, NEW c \in Category, NEW i \in Nat, NEW limit, ReadThrows(c, i, limit)
  PROVE  TupleInv'
<1>1. ReaderInv /\ "throws" \notin Frame
  BY DistinctAssumption DEF TupleInv
<1>2. AnswerFits([is |-> "throws", category |-> c, entry |-> i, limit |-> limit], Chain(c), FilesWith(c),
                 m_readers'[c], m_metadata, m_collectionInfo'[c], disk[m_filenames[1]].readable)
  BY <1>1 DEF AnswerFits
<1>3. AnswersRight' /\ answer'.is = "throws"
  BY <1>2, AnswerRight DEF ReadThrows
<1>4. m_collectionInfo' \in [Category -> TupleInfo]
  BY <1>1, InfoTypes DEF ReadThrows, ReaderInv
<1>5. m_entries' \in [Category -> 0..MaxEntries * MaxOpened]
  BY <1>1 DEF ReadThrows, ReaderInv
<1> QED
  BY <1>3, <1>4, <1>5, ReadKeeps DEF ReadThrows

\* The entries there can be are a number of them.
LEMMA EntriesBound == MaxEntries * MaxOpened \in Nat
<1>1. MaxEntries \in Nat /\ MaxOpened \in Nat
  BY BoundsAssumption
<1> QED
  BY <1>1

\* The Frame of an entry, or a nullptr if it has a collection whose type is not
\* known.
LEMMA ReadTupleKeeps ==
  ASSUME TupleInv, NEW c \in Category, NEW i \in Nat, NEW limit, ReadTuple(c, i, limit)
  PROVE  TupleInv'
<1> DEFINE info == CollectionInfo(c)
           Unknown == Wanted(info, limit) \cap NoBuffers # {}
           Fits(is) == AnswerFits([is |-> is, category |-> c, entry |-> i, limit |-> limit], Chain(c),
                                  FilesWith(c), m_readers'[c], m_metadata, m_collectionInfo'[c],
                                  disk[m_filenames[1]].readable)
<1>1. ReaderInv /\ Counted(c) /\ UNCHANGED <<m_filenames, m_metadata, writing, disk>>
  BY DEF TupleInv, ReadTuple
<1>2. i < Total(c)
  <2>1. i < Known(c)
    BY DEF ReadTuple
  <2>2. Known(c) # 0
    BY <2>1
  <2> QED
    BY <1>1, <2>1, <2>2, KnownIs
<1>3. i + 1 \in 0..MaxEntries * MaxOpened
  <2> DEFINE bound == MaxEntries * MaxOpened
  <2>1. OpenedAs(disk, m_filenames, c, CountedFiles(c), Starts(c), Total(c))
    BY <1>1, Opened
  <2>2. Total(c) \in 0..bound /\ bound \in Nat
    BY <1>1, <2>1, OpenedTypes, EntriesBound, Zenon
  <2> HIDE DEF bound
  <2>3. i + 1 \in 0..bound
    BY <1>2, <2>2
  <2> QED
    BY <2>3 DEF bound
<1>4. m_collectionInfo' \in [Category -> TupleInfo] /\ m_collectionInfo'[c] = info
  BY <1>1, InfoTypes DEF ReadTuple, ReaderInv
<1>5. Unknown => Fits("null") /\ "null" # "wild"
  <2> HIDE DEF info
  <2> QED
    BY <1>4, DistinctAssumption DEF AnswerFits
<1>6. Fits(EntryOf(c, i)) /\ EntryOf(c, i) # "wild"
  <2>1. EntryOf(c, i) \in Frame /\ i < Len(Chain(c)) /\ EntryOf(c, i) = Chain(c)[i+1]
    BY <1>1, <1>2, EntryIs
  <2>2. EntryOf(c, i) # "wild" /\ EntryOf(c, i) # "null"
    BY <2>1, DistinctAssumption
  <2> QED
    BY <2>1, <2>2 DEF AnswerFits
<1>7. PICK is : Answer(is, c, i, limit) /\ (is = EntryOf(c, i) \/ (is = "null" /\ Unknown))
  BY DEF ReadTuple
<1>8. Fits(is) /\ is # "wild"
  <2> HIDE DEF Fits, Unknown
  <2> QED
    BY <1>5, <1>6, <1>7
<1> HIDE DEF Fits
<1>9. AnswersRight' /\ answer'.is # "wild"
  BY <1>1, <1>7, <1>8, AnswerRight DEF Fits
<1>10. m_entries' \in [Category -> 0..MaxEntries * MaxOpened]
  BY <1>1, <1>3 DEF ReadTuple, ReaderInv
<1> QED
  BY <1>1, <1>4, <1>9, <1>10, ReadKeeps

LEMMA ReadEntryKeeps ==
  ASSUME TupleInv, NEW c \in Category, NEW i \in Nat, NEW limit, ReadEntry(c, i, limit)
  PROVE  TupleInv'
BY ReadNullKeeps, ReadWildKeeps, ReadThrowsKeeps, ReadTupleKeeps DEF ReadEntry

-----------------------------------------------------------------------------
LEMMA TupleInvStarts == TupleInit => TupleInv
<1> SUFFICES ASSUME TupleInit PROVE TupleInv
  OBVIOUS
<1>1. MaxEntries \in Nat /\ MaxOpened \in Nat /\ 0 \in 0..MaxEntries * MaxOpened
  <2>1. \A a, b \in Nat : 0 \in 0..a * b
    OBVIOUS
  <2> QED
    BY <2>1, BoundsAssumption
<1>2. WriterInv
  BY <1>1 DEF TupleInit, WriterInv, TupleInfo, AllDescribed, Described, Unwritten, Empty
<1>3. AnswersRight /\ answer.is = "none"
  BY DistinctAssumption DEF TupleInit, NoAnswer, AnswersRight
<1>4. FilesOpened(disk, m_filenames, m_metadata)
  BY <1>1 DEF TupleInit, FilesOpened
<1>5. ReaderInv
  BY <1>1, <1>3, <1>4 DEF TupleInit, ReaderInv, CacheTypes, CachesFit, TupleInfo, Empty
<1> QED
  BY <1>2, <1>5 DEF TupleInv

LEMMA TupleInvStays == TupleInv /\ [TupleNext]_tupleVars => TupleInv'
<1> SUFFICES ASSUME TupleInv, [TupleNext]_tupleVars PROVE TupleInv'
  OBVIOUS
<1>1. CASE UNCHANGED tupleVars
  <2>1. WriterInv'
    BY <1>1 DEF tupleVars, writing, TupleInv, WriterInv
  <2> QED
    BY <1>1, <2>1, ReaderStays DEF tupleVars, TupleInv
<1>2. ASSUME NEW c \in Category, NEW fr \in Frame, NEW asked \in Requests[c],
             \/ WriteUnavailable(c, fr, asked) \/ WriteNoField(c, fr, asked) \/ WriteThrows(c, fr, asked)
             \/ WriteFirst(c, fr, asked) \/ WriteNext(c, fr, asked)
      PROVE  TupleInv'
  BY <1>2, WriteFailsKeeps, WriteFirstKeeps, WriteNextKeeps
<1>3. ASSUME NEW c \in Category, NEW limit \in Limits,
             ReadNextEntry(c, limit) \/ \E i \in Index : ReadEntry(c, i, limit)
      PROVE  TupleInv'
  <2>1. PICK i : ReadEntry(c, i, limit) /\ (i = m_entries[c] \/ i \in Index)
    BY <1>3 DEF ReadNextEntry
  <2>2. m_entries[c] \in Nat
    BY DEF TupleInv, ReaderInv
  <2>3. i \in Nat
    BY <2>1, <2>2, BoundsAssumption
  <2> QED
    BY <2>1, <2>3, ReadEntryKeeps
<1>4. ASSUME NEW n \in 1..MaxOpened, NEW files \in [1..n -> DOMAIN disk], OpenFiles(files)
      PROVE  TupleInv'
  BY <1>4, OpenFilesKeeps
<1> QED
  BY <1>1, <1>2, <1>3, <1>4, CallGetEntriesKeeps, LeaveKeeps DEF TupleNext

LEMMA TupleInvHolds == TupleSpec => []TupleInv
  BY TupleInvStarts, TupleInvStays, PTL DEF TupleSpec

\* The metadata of a category fit the fields of every entry of its RNTuple
\* (src/RNTupleWriter.cc, writeFrame and finish), in every file, whichever
\* calls of writeFrame threw, for any Frames and any names that are asked for.
THEOREM MetadataDescribesEntries == TupleSpec => []MetadataFitsFields
<1>1. ASSUME TupleInv
      PROVE  MetadataFitsFields
  <2>1. \A f \in DOMAIN disk : disk[f] \in TupleFile /\ FileFits(disk[f])
    BY <1>1 DEF TupleInv, ReaderInv
  <2>2. TupleTypeOK
    BY <1>1, <2>1 DEF TupleTypeOK, TupleInv, WriterInv, ReaderInv, TupleInfo, TupleFile, FilesOpened, CacheTypes
  <2>3. ASSUME NEW f \in DOMAIN disk, NEW c \in Category, disk[f].tuples[c] # <<>>
        PROVE  LET info == disk[f].categories[c] IN
               /\ info.names = info.ids
               /\ info.model = [k \in 1..Len(info.ids) |-> <<info.ids[k], info.subsetCollections[k]>>]
               /\ \A j \in 1..Len(disk[f].tuples[c]) : Bindable(info, disk[f].tuples[c][j])
    BY <2>1, <2>3 DEF FileFits, AllDescribed, Described
  <2> QED
    BY <2>2, <2>3 DEF MetadataFitsFields
<1> QED
  BY <1>1, TupleInvHolds, PTL

\* What is returned for entry i is the i-th of all entries of the files openFiles
\* was called with.  Once all of them are open and their metadata are there, a
\* nullptr is returned only beyond the last entry, or for an entry with a
\* collection that is asked for and whose type the program does not know
\* (src/RNTupleReader.cc, readEntry and getEntries); for any number of files,
\* entries and calls of openFiles.
THEOREM EntriesReadAsOneFile == TupleSpec => []AnswersRight
<1>1. TupleInv => AnswersRight
  BY DEF TupleInv, ReaderInv
<1> QED
  BY <1>1, TupleInvHolds, PTL
=============================================================================
