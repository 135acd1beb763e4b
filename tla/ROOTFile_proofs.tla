--------------------------- MODULE ROOTFile_proofs ---------------------------
(***************************************************************************)
(* Proofs about one ROOT file with TTrees: the invariants of the run, for  *)
(* any categories, names, Frames, requests and bounds, and that the file   *)
(* implements EventLog with the entries and answers it says are possible.  *)
(*                                                                         *)
(* The invariants of the entries need to know what each CategoryInfo is    *)
(* after any sequence of calls that wrote or threw (CategoryOK): the names *)
(* of the first request in order, one branch and one entry of the metadata *)
(* for each of them once it is complete, and no entries before.  That no   *)
(* Frame is turned down is a property of the binary search, proved by      *)
(* induction over the length of the part that is searched.  The reader's   *)
(* part is ReaderOK: when the calls tell which file the last entry was in, *)
(* its tree is the one that is loaded, and the pointers to the branches    *)
(* that were read with the first entry since then lead to it.              *)
(***************************************************************************)
EXTENDS ROOTFile, FiniteSetTheorems, WellFoundedInduction, TLAPS

\* A non-empty set of natural numbers has a least one.
LEMMA LeastNumber ==
  ASSUME NEW S \in SUBSET Nat, S # {}
  PROVE  \E m \in S : \A k \in S : m <= k
<1> DEFINE R == OpToRel(<, Nat)
<1>1. IsWellFoundedOn(R, Nat)
  BY NatLessThanWellFounded
<1>2. ASSUME NEW k \in Nat, NEW m \in Nat, k < m
      PROVE  <<k, m>> \in R
  BY <1>2 DEF OpToRel
<1> HIDE DEF R
<1>3. PICK m \in S : \A k \in S : <<k, m>> \notin R
  BY <1>1, WFMin
<1>4. \A k \in S : ~(k < m)
  BY <1>2, <1>3
<1>5. \A k \in S : m <= k
  BY <1>4
<1> QED
  BY <1>5

\* A set with 0 and the successors of its numbers has all natural numbers.
LEMMA Induction ==
  ASSUME NEW S, 0 \in S, \A n \in Nat : n \in S => n + 1 \in S
  PROVE  \A n \in Nat : n \in S
<1> SUFFICES ASSUME Nat \ S # {}
             PROVE  FALSE
  OBVIOUS
<1>1. PICK m \in Nat \ S : \A k \in Nat \ S : m <= k
  BY LeastNumber
<1>2. m # 0 /\ m - 1 \in Nat /\ m - 1 \in S
  BY <1>1
<1> QED
  BY <1>1, <1>2

\* A part that is searched further is smaller.
LEMMA Halves ==
  ASSUME NEW len \in Nat \ {0}
  PROVE  len \div 2 \in 0..len - 1 /\ len - (len \div 2) - 1 \in 0..len - 1
  OBVIOUS

-----------------------------------------------------------------------------
\* One round of the search for x, with the results of shorter ones.
Round(bound, s, x, len) ==
    [first \in 0..Len(s) - len |->
        IF len = 0 THEN first
        ELSE IF Less(s[first + (len \div 2) + 1], x)
             THEN bound[len - (len \div 2) - 1][first + (len \div 2) + 1]
             ELSE bound[len \div 2][first]]

\* The rounds up to a length.
Rounds(bound, s, x, n) == bound = [len \in 0..n |-> Round(bound, s, x, len)]

\* The search is defined by its rounds.
LEMMA LowerBoundIs ==
  ASSUME NEW s, Len(s) \in Nat, NEW x
  PROVE  \E bound : Rounds(bound, s, x, Len(s)) /\ LowerBound(s, x) = bound[Len(s)][0]
<1> DEFINE S == {n \in Nat : \E bound : Rounds(bound, s, x, n)}
<1>1. 0 \in S
  <2> DEFINE f == [len \in 0..0 |-> [first \in 0..Len(s) |-> first]]
  <2>1. \A g : Round(g, s, x, 0) = [first \in 0..Len(s) |-> first]
    BY DEF Round
  <2>2. f = [len \in 0..0 |-> Round(f, s, x, len)]
    BY <2>1
  <2> QED
    BY <2>2 DEF Rounds
<1>2. ASSUME NEW n \in Nat, n \in S
      PROVE  n + 1 \in S
  <2>1. PICK f : Rounds(f, s, x, n)
    BY <1>2
  <2> DEFINE g == [len \in 0..n+1 |-> IF len <= n THEN f[len] ELSE Round(f, s, x, n+1)]
  <2>2. \A len \in 0..n : g[len] = f[len]
    OBVIOUS
  <2>3. ASSUME NEW len \in 0..n+1
        PROVE  Round(g, s, x, len) = Round(f, s, x, len)
    <3>1. CASE len = 0
      BY <3>1 DEF Round
    <3>2. CASE len # 0
      <4>1. len \div 2 \in 0..n /\ len - (len \div 2) - 1 \in 0..n
        BY <3>2, Halves
      <4> HIDE DEF g
      <4>2. g[len \div 2] = f[len \div 2] /\ g[len - (len \div 2) - 1] = f[len - (len \div 2) - 1]
        BY <2>2, <4>1
      <4> QED
        BY <3>2, <4>2, Zenon DEF Round
    <3> QED
      BY <3>1, <3>2
  <2>4. ASSUME NEW len \in 0..n+1
        PROVE  g[len] = Round(g, s, x, len)
    <3>1. CASE len <= n
      BY <2>1, <2>3, <3>1 DEF Rounds
    <3>2. CASE len = n + 1
      BY <2>3, <3>2
    <3> QED
      BY <3>1, <3>2
  <2>5. g = [len \in 0..n+1 |-> g[len]]
    OBVIOUS
  <2> HIDE DEF g
  <2>6. g = [len \in 0..n+1 |-> Round(g, s, x, len)]
    BY <2>4, <2>5
  <2> QED
    BY <2>6 DEF Rounds
<1>3. Len(s) \in S
  <2> HIDE DEF S
  <2> QED
    BY <1>1, <1>2, Induction
<1> DEFINE bound == CHOOSE f : Rounds(f, s, x, Len(s))
<1>4. Rounds(bound, s, x, Len(s))
  BY <1>3, Zenon
<1>5. LowerBound(s, x) = bound[Len(s)][0]
  BY Zenon DEF LowerBound, Rounds, Round
<1> QED
  BY <1>4, <1>5

\* The names are in the case-insensitive order.
Ordered(s) == \A i, j \in 1..Len(s) : i < j => Rank[s[i]] <= Rank[s[j]]

\* The search for a name ends at or before its place, whatever the lengths of
\* the names it looks at on its way.
LEMMA SearchStopsBefore ==
  ASSUME NEW s \in Seq(Name), Ordered(s), NEW p \in 1..Len(s)
  PROVE  LowerBound(s, s[p]) \in 0..p - 1
<1>1. PICK bound : Rounds(bound, s, s[p], Len(s)) /\ LowerBound(s, s[p]) = bound[Len(s)][0]
  BY LowerBoundIs
<1> DEFINE P(len) == \A first \in 0..Len(s) - len : first <= p - 1 => bound[len][first] \in 0..p - 1
           S == {n \in Nat : n <= Len(s) => \A len \in 0..n : P(len)}
<1>2. ASSUME NEW len \in 0..Len(s)
      PROVE  bound[len] = Round(bound, s, s[p], len)
  BY <1>1 DEF Rounds
<1>8. ASSUME NEW len \in 0..Len(s), NEW first \in 0..Len(s) - len
      PROVE  bound[len][first] =
                IF len = 0 THEN first
                ELSE IF Less(s[first + (len \div 2) + 1], s[p])
                     THEN bound[len - (len \div 2) - 1][first + (len \div 2) + 1]
                     ELSE bound[len \div 2][first]
  <2> DEFINE R == Round(bound, s, s[p], len)
  <2>1. R[first] = IF len = 0 THEN first
                ELSE IF Less(s[first + (len \div 2) + 1], s[p])
                     THEN bound[len - (len \div 2) - 1][first + (len \div 2) + 1]
                     ELSE bound[len \div 2][first]
    BY Zenon DEF Round
  <2> HIDE DEF R
  <2>2. bound[len] = R
    BY <1>2 DEF R
  <2> QED
    BY <2>1, <2>2, Zenon
<1>3. ASSUME NEW i \in 1..Len(s), Less(s[i], s[p])
      PROVE  i <= p - 1
  <2>1. s[i] \in Name /\ s[p] \in Name
    OBVIOUS
  <2>2. Rank[s[i]] \in Nat /\ Rank[s[p]] \in Nat
    BY <2>1, NamesAssumption
  <2>3. Rank[s[i]] < Rank[s[p]]
    BY <1>3 DEF Less
  <2>4. ~(p < i) /\ p # i
    BY <2>2, <2>3 DEF Ordered
  <2> QED
    BY <2>4
<1>4. 0 \in S
  <2>1. P(0)
    <3>1. ASSUME NEW first \in 0..Len(s) - 0, first <= p - 1
          PROVE  bound[0][first] \in 0..p - 1
      <4>1. bound[0][first] = first
        BY <1>8
      <4> QED
        BY <3>1, <4>1
    <3> QED
      BY <3>1
  <2> QED
    BY <2>1
<1>5. ASSUME NEW n \in Nat, n \in S
      PROVE  n + 1 \in S
  <2> SUFFICES ASSUME n + 1 <= Len(s)
               PROVE  \A len \in 0..n+1 : P(len)
    OBVIOUS
  <2>1. \A len \in 0..n : P(len)
    BY <1>5
  <2> DEFINE len == n + 1
             half == len \div 2
  <2>2. half \in 0..n /\ len - half - 1 \in 0..n
    BY Halves
  <2>3. ASSUME NEW first \in 0..Len(s) - len, first <= p - 1
        PROVE  bound[len][first] \in 0..p - 1
    <3> HIDE DEF half
    <3>1. first + half + 1 \in 1..Len(s) /\ first + half + 1 \in 0..Len(s) - (len - half - 1)
          /\ first \in 0..Len(s) - half
      BY <2>2
    <3>2. bound[len][first] = IF Less(s[first + half + 1], s[p]) THEN bound[len - half - 1][first + half + 1]
                              ELSE bound[half][first]
      <4>1. len \in 0..Len(s) /\ len # 0
        OBVIOUS
      <4> HIDE DEF len
      <4> QED
        BY <1>8, <2>3, <4>1, Zenon DEF half
    <3>3. CASE Less(s[first + half + 1], s[p])
      <4>1. first + half + 1 <= p - 1
        BY <1>3, <3>1, <3>3
      <4> QED
        BY <2>1, <2>2, <3>1, <3>2, <3>3, <4>1
    <3>4. CASE ~Less(s[first + half + 1], s[p])
      BY <2>1, <2>2, <2>3, <3>1, <3>2, <3>4
    <3> QED
      BY <3>3, <3>4
  <2>4. P(n + 1)
    BY <2>3
  <2> HIDE DEF P
  <2> QED
    BY <2>1, <2>4
<1>6. Len(s) \in S
  <2> HIDE DEF S
  <2> QED
    BY <1>4, <1>5, Induction
<1>7. P(Len(s))
  BY <1>6
<1> QED
  BY <1>1, <1>7

\* Names in order are consistent with themselves.
LEMMA FindsItself ==
  ASSUME NEW s \in Seq(Name), Ordered(s), Len(s) = Cardinality(Range(s))
  PROVE  checkConsistentColls(s, Range(s))
<1>1. ASSUME NEW x \in Range(s)
      PROVE  BinarySearch(s, x)
  <2>1. PICK p \in DOMAIN s : x = s[p]
    BY Zenon DEF Range
  <2> DEFINE i == LowerBound(s, x)
  <2>2. p \in 1..Len(s) /\ i \in 0..p - 1
    BY <2>1, SearchStopsBefore
  <2> HIDE DEF i
  <2>3. i < Len(s) /\ i + 1 \in 1..Len(s) /\ i + 1 <= p
    BY <2>2
  <2>4. Rank[s[i + 1]] <= Rank[s[p]] /\ Rank[s[i + 1]] \in Nat /\ Rank[s[p]] \in Nat
    <3>1. s[i + 1] \in Name /\ s[p] \in Name
      BY <2>3
    <3>2. Rank[s[i + 1]] \in Nat /\ Rank[s[p]] \in Nat
      BY <3>1, NamesAssumption
    <3> QED
      BY <2>3, <3>2 DEF Ordered
  <2>5. ~Less(x, s[i + 1])
    BY <2>1, <2>4 DEF Less
  <2> QED
    BY <2>3, <2>5 DEF BinarySearch, i
<1> QED
  BY <1>1 DEF checkConsistentColls

-----------------------------------------------------------------------------
\* A function on 1..n is a sequence of that length.
LEMMA IsASequence ==
  ASSUME NEW T, NEW n \in Nat, NEW s, s = [i \in 1..n |-> s[i]], \A i \in 1..n : s[i] \in T
  PROVE  s \in Seq(T) /\ Len(s) = n
  OBVIOUS

\* The CategoryInfo of the writer.
CategoryType ==
    [tree : BOOLEAN, idTable : SUBSET Name, collsToWrite : Seq(Name), branches : Seq(BranchType),
     params : BOOLEAN, collInfo : Seq(Name \X {"normal", "subset"})]

\* An entry of a tree.
RowType == [frame : Frame, branches : Seq(BranchType)]

\* The types of the writer.
WriterType ==
    /\ m_categories \in [Category -> CategoryType]
    /\ trees \in [Category -> Seq(RowType)]
    /\ writer \in {"open", "closed", "gone"}
    /\ result.asked \in SUBSET Name /\ result.first \in BOOLEAN

\* The chain of a category in the reader, and what the calls say of it.
ChainType ==
    [table : BOOLEAN, counted : BOOLEAN, loaded : 0..MaxFiles, fresh : SUBSET AllBranches]
VisitType == [file : 0..MaxFiles, names : SUBSET AllBranches]

\* The types of the reader.
ReaderType ==
    /\ files \in 0..MaxFiles
    /\ entry \in [Category -> Nat]
    /\ chain \in [Category -> ChainType]
    /\ answer \in Frame \cup {Torn, "none", "null", "throws", "wild"}
    /\ visit \in [Category -> VisitType]
    /\ lapse \in BOOLEAN

\* A collection that is no subset collection in some Frame.
NormalSomewhere(n) == \E fr \in Frame : n \in DOMAIN Contents[fr] /\ Contents[fr][n] = "normal"

\* A category has the names it was first asked to write, in order; once it is
\* complete, a branch and an entry of the metadata for each of them.
CategoryOK(info) ==
    /\ ~info.tree => NoBranches(info)
    /\ info.tree => Range(info.collsToWrite) \in Requests
    /\ Ordered(info.collsToWrite)
    /\ Len(info.collsToWrite) = Cardinality(Range(info.collsToWrite))
    /\ \A k \in 1..Len(info.branches) :
          LET b == info.branches[k] IN
          /\ b.kind = "subset" => b.data = NoAddress
          /\ b.kind = "normal" => NormalSomewhere(b.name)
    /\ \A k \in 1..Len(info.collInfo) : info.collInfo[k][1] \in Range(info.collsToWrite)
    /\ info.params =>
          /\ Len(info.branches) = Len(info.collsToWrite)
          /\ Len(info.collInfo) = Len(info.collsToWrite)
          /\ \A k \in 1..Len(info.collsToWrite) :
                /\ info.branches[k].name = info.collsToWrite[k]
                /\ info.collInfo[k] = <<info.collsToWrite[k], info.branches[k].kind>>

\* An entry has the branches of the category, with the references of its Frame
\* and with its data unless the Frame has none.
RowOK(info, row) ==
    /\ Len(row.branches) = Len(info.collInfo)
    /\ \A k \in 1..Len(row.branches) :
          LET b == row.branches[k] IN
          /\ <<b.name, b.kind>> = info.collInfo[k]
          /\ b.refs = row.frame /\ b.name \in DOMAIN Contents[row.frame]
          /\ Contents[row.frame][b.name] = "normal" => b.data = row.frame
          /\ b.kind = "subset" => b.data = NoAddress
          /\ b.kind = "normal" => NormalSomewhere(b.name)

\* Entries are filled once the category is complete.
Describes(info, rows) ==
    /\ rows # <<>> => info.params
    /\ \A i \in 1..Len(rows) : RowOK(info, rows[i])

\* All categories and the trees that belong to them.
WriterOK ==
    \A c \in Category : CategoryOK(m_categories[c]) /\ Describes(m_categories[c], trees[c])

\* The inductive invariant.
IInv == WriterType /\ ReaderType /\ WriterOK

-----------------------------------------------------------------------------
\* The names that are asked for in an order that sortAlphabeticaly may leave.
LEMMA SortedIs ==
  ASSUME NEW asked \in Requests, NEW s \in Sorted(asked)
  PROVE  s \in Seq(Name) /\ Range(s) = asked /\ Ordered(s) /\ Len(s) = Cardinality(Range(s))
<1>1. Cardinality(asked) \in Nat /\ asked \subseteq Name
  BY CollectionsAssumption, FS_CardinalityType
<1>2. s \in [1..Cardinality(asked) -> asked] /\ Range(s) = asked
      /\ \A i, j \in 1..Len(s) : i < j => Rank[s[i]] <= Rank[s[j]]
  BY Zenon DEF Sorted
<1>3. s \in Seq(Name) /\ Len(s) = Cardinality(asked)
  BY <1>1, <1>2
<1> QED
  BY <1>2, <1>3 DEF Ordered

\* A new category has the names in order and nothing else.
LEMMA NewCategory ==
  ASSUME NEW s \in Seq(Name), Range(s) \in Requests, Ordered(s), Len(s) = Cardinality(Range(s)), NEW ids \in SUBSET Name
  PROVE  LET info == [NoCategory EXCEPT !.tree = TRUE, !.idTable = ids, !.collsToWrite = s]
         IN info \in CategoryType /\ CategoryOK(info) /\ info.tree
<1> DEFINE info == [NoCategory EXCEPT !.tree = TRUE, !.idTable = ids, !.collsToWrite = s]
<1>1. /\ info \in CategoryType /\ info.tree /\ info.collsToWrite = s /\ info.branches = <<>>
      /\ ~info.params /\ info.collInfo = <<>>
  <2>1. /\ NoCategory \in CategoryType /\ NoCategory.branches = <<>>
        /\ ~NoCategory.params /\ NoCategory.collInfo = <<>>
    BY DEF NoCategory, CategoryType
  <2> QED
    BY <2>1 DEF CategoryType
<1> HIDE DEF info
<1>2. CategoryOK(info)
  BY <1>1 DEF CategoryOK
<1> QED
  BY <1>1, <1>2 DEF info

\* What writeFrame goes on with, and that it does not forget a category that
\* has entries.
LEMMA PreparedIs ==
  ASSUME IInv, NEW c \in Category, NEW fr \in Frame, NEW asked \in Requests, NEW info \in Prepared(c, fr, asked)
  PROVE  /\ info \in CategoryType /\ CategoryOK(info) /\ info.tree
         /\ Describes(info, trees[c])
<1>1. m_categories[c] \in CategoryType /\ CategoryOK(m_categories[c]) /\ Describes(m_categories[c], trees[c])
      /\ trees[c] \in Seq(RowType)
  BY DEF IInv, WriterType, WriterOK
<1>2. CASE m_categories[c].tree
  BY <1>1, <1>2 DEF Prepared
<1>3. CASE ~m_categories[c].tree
  <2>1. trees[c] = <<>>
    BY <1>1, <1>3 DEF CategoryOK, Describes, NoBranches
  <2>2. Known[fr] \in SUBSET Name
    BY FramesAssumption
  <2>3. PICK s \in Sorted(asked) : info = [NoCategory EXCEPT !.tree = TRUE, !.idTable = Known[fr], !.collsToWrite = s]
    BY <1>3, Zenon DEF Prepared
  <2>4. s \in Seq(Name) /\ Range(s) = asked /\ Ordered(s) /\ Len(s) = Cardinality(Range(s))
    BY SortedIs
  <2>5. info \in CategoryType /\ CategoryOK(info) /\ info.tree
    BY <2>2, <2>3, <2>4, NewCategory
  <2>6. Describes(info, trees[c])
    BY <2>1 DEF Describes
  <2> QED
    BY <2>5, <2>6
<1> QED
  BY <1>2, <1>3

\* A category changes, and an entry of it may be filled.
LEMMA CategoryKeeps ==
  ASSUME IInv, NEW c \in Category, NEW info \in CategoryType, CategoryOK(info), NEW rows \in Seq(RowType), Describes(info, rows),
         m_categories' = [m_categories EXCEPT ![c] = info],
         trees' = [trees EXCEPT ![c] = rows],
         writer' = writer, result'.asked \in SUBSET Name, result'.first \in BOOLEAN, UNCHANGED reading
  PROVE  IInv'
<1>1. m_categories \in [Category -> CategoryType] /\ trees \in [Category -> Seq(RowType)]
  BY DEF IInv, WriterType
<1>2. WriterType'
  BY <1>1 DEF IInv, WriterType
<1>3. ReaderType'
  BY DEF IInv, ReaderType, reading, history
<1>4. ASSUME NEW d \in Category
      PROVE  CategoryOK(m_categories'[d]) /\ Describes(m_categories'[d], trees'[d])
  <2>1. CASE d = c
    BY <1>1, <2>1
  <2>2. CASE d # c
    <3>1. m_categories'[d] = m_categories[d] /\ trees'[d] = trees[d]
      BY <1>1, <2>2
    <3> QED
      BY <3>1 DEF IInv, WriterOK
  <2> QED
    BY <2>1, <2>2
<1>5. WriterOK'
  BY <1>4 DEF WriterOK
<1> QED
  BY <1>2, <1>3, <1>5 DEF IInv

-----------------------------------------------------------------------------
\* A Frame that misses a collection may leave a new category, without branches.
LEMMA WriteUnavailableKeeps ==
  ASSUME IInv, NEW c \in Category, NEW fr \in Frame, NEW asked \in Requests, WriteUnavailable(c, fr, asked)
  PROVE  IInv'
<1>1. PICK info \in Prepared(c, fr, asked) :
         /\ m_categories' = [m_categories EXCEPT ![c] = info]
         /\ Result("unavailable", c, fr, asked, NoBranches(info))
  BY DEF WriteUnavailable
<1>2. info \in CategoryType /\ CategoryOK(info) /\ Describes(info, trees[c])
  BY PreparedIs
<1>3. /\ UNCHANGED <<trees, writer, reading>> /\ trees[c] \in Seq(RowType)
      /\ trees' = [trees EXCEPT ![c] = trees[c]]
  BY DEF WriteUnavailable, IInv, WriterType
<1>4. result'.asked \in SUBSET Name /\ result'.first \in BOOLEAN
  BY <1>1, CollectionsAssumption DEF Result, NoBranches
<1> QED
  BY <1>1, <1>2, <1>3, <1>4, CategoryKeeps

\* A branch of the first Frame.
LEMMA BranchIs ==
  ASSUME NEW fr \in Frame, NEW n \in DOMAIN Contents[fr]
  PROVE  LET b == Branch(n, fr)
         IN /\ b \in BranchType /\ b.name = n /\ b.kind = Contents[fr][n] /\ b.refs = fr
            /\ Contents[fr][n] = "normal" => b.data = fr
            /\ b.kind = "subset" => b.data = NoAddress
            /\ b.kind = "normal" => NormalSomewhere(b.name)
<1>1. n \in Name /\ Contents[fr][n] \in {"normal", "subset"}
  BY FramesAssumption
<1> QED
  BY <1>1 DEF Branch, BranchType, NormalSomewhere

\* The branches of the first Frame are those of its collections.
LEMMA InitBranches ==
  ASSUME NEW info \in CategoryType, CategoryOK(info), info.tree, NEW fr \in Frame, Available(info, fr),
         NEW k \in 0..Len(info.collsToWrite), NEW l \in 0..Len(info.collsToWrite), NEW complete \in BOOLEAN,
         complete => k = Len(info.collsToWrite) /\ l = k
  PROVE  LET colls == info.collsToWrite
             bs == [i \in 1..k |-> Branch(colls[i], fr)]
             ci == [i \in 1..l |-> <<colls[i], Contents[fr][colls[i]]>>]
             row == [frame |-> fr, branches |-> bs]
         IN /\ bs \in Seq(BranchType) /\ ci \in Seq(Name \X {"normal", "subset"}) /\ row \in RowType
            /\ \A new \in CategoryType :
                  new.tree /\ new.collsToWrite = colls /\ new.branches = bs /\ new.collInfo = ci /\ new.params = complete
                  => CategoryOK(new) /\ (complete => RowOK(new, row))
<1> DEFINE colls == info.collsToWrite
           bs == [i \in 1..k |-> Branch(colls[i], fr)]
           ci == [i \in 1..l |-> <<colls[i], Contents[fr][colls[i]]>>]
           row == [frame |-> fr, branches |-> bs]
<1>1. colls \in Seq(Name) /\ Len(colls) \in Nat /\ k \in Nat /\ l \in Nat
  BY DEF CategoryType
<1>2. ASSUME NEW i \in 1..Len(colls)
      PROVE  /\ colls[i] \in DOMAIN Contents[fr] /\ colls[i] \in Name /\ colls[i] \in Range(colls)
             /\ Contents[fr][colls[i]] \in {"normal", "subset"}
  <2>1. colls[i] \in Range(colls)
    BY <1>1 DEF Range
  <2>2. colls[i] \in DOMAIN Contents[fr]
    BY <2>1 DEF Available
  <2> QED
    BY <1>1, <2>1, <2>2, FramesAssumption
<1>3. ASSUME NEW i \in 1..k
      PROVE  /\ bs[i] \in BranchType /\ bs[i].name = colls[i] /\ bs[i].kind = Contents[fr][colls[i]]
             /\ bs[i].refs = fr /\ colls[i] \in DOMAIN Contents[fr]
             /\ Contents[fr][colls[i]] = "normal" => bs[i].data = fr
             /\ bs[i].kind = "subset" => bs[i].data = NoAddress
             /\ bs[i].kind = "normal" => NormalSomewhere(bs[i].name)
  <2>1. i \in 1..Len(colls)
    BY <1>1
  <2>2. colls[i] \in DOMAIN Contents[fr]
    BY <1>2, <2>1
  <2>3. bs[i] = Branch(colls[i], fr)
    OBVIOUS
  <2> HIDE DEF bs, colls
  <2> QED
    BY <2>2, <2>3, BranchIs
<1>4. ASSUME NEW i \in 1..l
      PROVE  /\ ci[i] \in Name \X {"normal", "subset"} /\ ci[i] = <<colls[i], Contents[fr][colls[i]]>>
             /\ ci[i][1] = colls[i] /\ colls[i] \in Range(colls)
  <2>1. i \in 1..Len(colls)
    BY <1>1
  <2> HIDE DEF colls
  <2> QED
    BY <1>2, <2>1
<1>5. bs = [i \in 1..k |-> bs[i]] /\ ci = [i \in 1..l |-> ci[i]]
  OBVIOUS
<1>6. bs \in Seq(BranchType) /\ Len(bs) = k
  <2> HIDE DEF bs
  <2> QED
    BY <1>1, <1>3, <1>5, IsASequence
<1>7. ci \in Seq(Name \X {"normal", "subset"}) /\ Len(ci) = l
  <2> HIDE DEF ci
  <2> QED
    BY <1>1, <1>4, <1>5, IsASequence
<1> HIDE DEF bs, ci
<1>9. row \in RowType /\ row.frame = fr /\ row.branches = bs
  BY <1>6 DEF RowType
<1> HIDE DEF row
<1>10. /\ Range(colls) \in Requests /\ Ordered(colls) /\ Len(colls) = Cardinality(Range(colls))
  BY DEF CategoryOK
<1>11. ASSUME complete, NEW i \in 1..Len(colls)
       PROVE  bs[i].name = colls[i] /\ ci[i] = <<colls[i], bs[i].kind>>
  BY <1>3, <1>4, <1>11
<1> HIDE DEF colls
<1> SUFFICES ASSUME NEW new \in CategoryType,
                    new.tree, new.collsToWrite = colls, new.branches = bs, new.collInfo = ci, new.params = complete
             PROVE  CategoryOK(new) /\ (complete => RowOK(new, row))
  BY <1>6, <1>7, <1>9 DEF row, bs, ci, colls
<1>12. CategoryOK(new)
  <2>1. \A i \in 1..Len(bs) : /\ bs[i].kind = "subset" => bs[i].data = NoAddress
                              /\ bs[i].kind = "normal" => NormalSomewhere(bs[i].name)
    BY <1>3, <1>6
  <2>2. \A i \in 1..Len(ci) : ci[i][1] \in Range(colls)
    BY <1>4, <1>7
  <2>3. new.params => /\ Len(bs) = Len(colls) /\ Len(ci) = Len(colls)
                      /\ \A i \in 1..Len(colls) : bs[i].name = colls[i] /\ ci[i] = <<colls[i], bs[i].kind>>
    BY <1>6, <1>7, <1>11 DEF colls
  <2> QED
    BY <1>10, <2>1, <2>2, <2>3 DEF CategoryOK
<1>13. ASSUME complete
       PROVE  RowOK(new, row)
  <2>1. Len(bs) = Len(ci) /\ Len(bs) = k /\ k = Len(colls)
    BY <1>6, <1>7, <1>13 DEF colls
  <2>2. \A i \in 1..k : <<bs[i].name, bs[i].kind>> = ci[i]
    BY <1>11, <1>13, <2>1
  <2> QED
    BY <1>3, <1>9, <2>1, <2>2 DEF RowOK
<1> QED
  BY <1>12, <1>13

\* An entry can only be filled into a category that has none if there are no
\* branches yet.
LEMMA NoEntriesYet ==
  ASSUME NEW info, NEW rows, NoBranches(info), Describes(info, rows)
  PROVE  rows = <<>> /\ ~info.params
  BY DEF NoBranches, Describes

\* The first Frame that is written completes the category.
LEMMA WriteFirstKeeps ==
  ASSUME IInv, NEW c \in Category, NEW fr \in Frame, NEW asked \in Requests, WriteFirst(c, fr, asked)
  PROVE  IInv'
<1>1. PICK info \in Prepared(c, fr, asked) :
         LET colls == info.collsToWrite IN
         /\ Available(info, fr)
         /\ NoBranches(info)
         /\ Fill(c, [info EXCEPT !.branches = [i \in 1..Len(colls) |-> Branch(colls[i], fr)],
                                 !.collInfo = [i \in 1..Len(colls) |->
                                                  <<colls[i], Contents[fr][colls[i]]>>],
                                 !.params = TRUE], fr)
         /\ Result("written", c, fr, asked, TRUE)
  BY Zenon DEF WriteFirst
<1> DEFINE colls == info.collsToWrite
           bs == [i \in 1..Len(colls) |-> Branch(colls[i], fr)]
           ci == [i \in 1..Len(colls) |-> <<colls[i], Contents[fr][colls[i]]>>]
           new == [info EXCEPT !.branches = bs, !.collInfo = ci, !.params = TRUE]
           row == [frame |-> fr, branches |-> new.branches]
<1>2. info \in CategoryType /\ CategoryOK(info) /\ info.tree /\ Describes(info, trees[c])
  BY PreparedIs
<1>3. trees[c] = <<>>
  BY <1>1, <1>2, NoEntriesYet
<1>4. Len(colls) \in 0..Len(colls)
  BY <1>2 DEF CategoryType
<1>5. /\ bs \in Seq(BranchType) /\ ci \in Seq(Name \X {"normal", "subset"}) /\ [frame |-> fr, branches |-> bs] \in RowType
      /\ \A n \in CategoryType :
            n.tree /\ n.collsToWrite = colls /\ n.branches = bs /\ n.collInfo = ci /\ n.params = TRUE
            => CategoryOK(n) /\ RowOK(n, [frame |-> fr, branches |-> bs])
  BY <1>1, <1>2, <1>4, InitBranches
<1>6. Result("written", c, fr, asked, TRUE) /\ Fill(c, new, fr)
  BY <1>1
<1> HIDE DEF bs, ci, colls
<1>7. /\ new \in CategoryType /\ new.tree /\ new.collsToWrite = info.collsToWrite /\ new.branches = bs
      /\ new.collInfo = ci /\ new.params = TRUE
  BY <1>2, <1>5 DEF CategoryType
<1> HIDE DEF new
<1>8. row = [frame |-> fr, branches |-> bs] /\ row \in RowType
  BY <1>5, <1>7
<1>9. CategoryOK(new) /\ RowOK(new, row)
  BY <1>5, <1>7, <1>8, Zenon DEF colls
<1> HIDE DEF row
<1>10. <<row>> \in Seq(RowType) /\ Len(<<row>>) = 1 /\ <<row>>[1] = row
  BY <1>8
<1>11. Describes(new, <<row>>)
  BY <1>7, <1>9, <1>10 DEF Describes
<1>12. m_categories' = [m_categories EXCEPT ![c] = new] /\ trees' = [trees EXCEPT ![c] = <<row>>]
  <2>1. m_categories' = [m_categories EXCEPT ![c] = new] /\ trees' = [trees EXCEPT ![c] = Append(@, row)]
    BY <1>6, Zenon DEF Fill, row
  <2>2. trees' = [trees EXCEPT ![c] = Append(trees[c], row)]
    BY <2>1
  <2>3. Append(trees[c], row) = <<row>>
    BY <1>3
  <2> QED
    BY <2>1, <2>2, <2>3
<1>13. UNCHANGED <<writer, reading>> /\ result'.asked \in SUBSET Name /\ result'.first \in BOOLEAN
  BY <1>6, CollectionsAssumption DEF WriteFirst, Result
<1> QED
  BY <1>7, <1>9, <1>10, <1>11, <1>12, <1>13, CategoryKeeps

\* An exception in initBranches leaves fewer branches than names and no entry:
\* the category is not complete.
LEMMA WriteFirstThrowsKeeps ==
  ASSUME IInv, NEW c \in Category, NEW fr \in Frame, NEW asked \in Requests, WriteFirstThrows(c, fr, asked)
  PROVE  IInv'
<1>1. PICK info \in Prepared(c, fr, asked) :
         LET colls == info.collsToWrite IN
         /\ Available(info, fr)
         /\ NoBranches(info)
         /\ \E k \in 1..Len(colls) :
               m_categories' = [m_categories EXCEPT ![c] =
                  [info EXCEPT !.branches = [i \in 1..k |-> Branch(colls[i], fr)],
                               !.collInfo = [i \in 1..k-1 |-> <<colls[i], Contents[fr][colls[i]]>>]]]
         /\ Result("no ID", c, fr, asked, TRUE)
  BY Zenon DEF WriteFirstThrows
<1> DEFINE colls == info.collsToWrite
<1>2. PICK k \in 1..Len(colls) :
          m_categories' = [m_categories EXCEPT ![c] =
                  [info EXCEPT !.branches = [i \in 1..k |-> Branch(colls[i], fr)],
                               !.collInfo = [i \in 1..k-1 |-> <<colls[i], Contents[fr][colls[i]]>>]]]
  BY <1>1
<1> DEFINE bs == [i \in 1..k |-> Branch(colls[i], fr)]
           ci == [i \in 1..k-1 |-> <<colls[i], Contents[fr][colls[i]]>>]
           new == [info EXCEPT !.branches = bs, !.collInfo = ci]
<1>3. info \in CategoryType /\ CategoryOK(info) /\ info.tree /\ Describes(info, trees[c])
  BY PreparedIs
<1>4. trees[c] = <<>> /\ info.params = FALSE
  BY <1>1, <1>3, NoEntriesYet DEF CategoryType
<1>5. k \in 0..Len(colls) /\ k - 1 \in 0..Len(colls)
  BY <1>3 DEF CategoryType
<1>6. /\ bs \in Seq(BranchType) /\ ci \in Seq(Name \X {"normal", "subset"})
      /\ \A n \in CategoryType :
            n.tree /\ n.collsToWrite = colls /\ n.branches = bs /\ n.collInfo = ci /\ n.params = FALSE
            => CategoryOK(n)
  <2> DEFINE row == [frame |-> fr, branches |-> bs]
  <2>1. Available(info, fr)
    BY <1>1
  <2> HIDE DEF colls
  <2>2. /\ bs \in Seq(BranchType) /\ ci \in Seq(Name \X {"normal", "subset"}) /\ row \in RowType
        /\ \A n \in CategoryType :
              n.tree /\ n.collsToWrite = colls /\ n.branches = bs /\ n.collInfo = ci /\ n.params = FALSE
              => CategoryOK(n) /\ (FALSE => RowOK(n, row))
    BY <1>3, <1>5, <2>1, InitBranches DEF colls
  <2> QED
    BY <2>2
<1>7. m_categories' = [m_categories EXCEPT ![c] = new]
  BY <1>2
<1> HIDE DEF bs, ci, colls
<1>8. /\ new \in CategoryType /\ new.tree /\ new.collsToWrite = info.collsToWrite /\ new.branches = bs
      /\ new.collInfo = ci /\ new.params = FALSE
  BY <1>3, <1>4, <1>6 DEF CategoryType
<1> HIDE DEF new
<1>9. CategoryOK(new)
  BY <1>6, <1>8, Zenon DEF colls
<1>10. Describes(new, trees[c])
  BY <1>4 DEF Describes
<1>11. /\ UNCHANGED <<trees, writer, reading>> /\ trees[c] \in Seq(RowType)
       /\ trees' = [trees EXCEPT ![c] = trees[c]]
  BY DEF WriteFirstThrows, IInv, WriterType
<1>12. result'.asked \in SUBSET Name /\ result'.first \in BOOLEAN
  BY <1>1, CollectionsAssumption DEF Result
<1> QED
  BY <1>7, <1>8, <1>9, <1>10, <1>11, <1>12, CategoryKeeps

\* A branch with the addresses of the next Frame.
LEMMA AddressesSet ==
  ASSUME NEW fr \in Frame, NEW b \in BranchType, b.name \in DOMAIN Contents[fr], ~NoSuchBranch(b, fr),
         b.kind = "subset" => b.data = NoAddress
  PROVE  LET a == SetAddresses(b, fr)
         IN /\ a \in BranchType /\ a.name = b.name /\ a.kind = b.kind /\ a.refs = fr
            /\ Contents[fr][a.name] = "normal" => a.data = fr
            /\ a.kind = "subset" => a.data = NoAddress
<1> DEFINE d == IF Contents[fr][b.name] = "subset" THEN b.data ELSE fr
           a == [b EXCEPT !.refs = fr, !.data = d]
<1>1. Contents[fr][b.name] \in {"normal", "subset"}
  BY FramesAssumption
<1>2. d \in Frame \cup {NoAddress}
  BY DEF BranchType
<1>3. b.kind = "subset" => Contents[fr][b.name] = "subset"
  BY <1>1 DEF NoSuchBranch
<1>4. /\ Contents[fr][b.name] = "normal" => d = fr
      /\ b.kind = "subset" => d = NoAddress
  BY <1>1, <1>3
<1>5. SetAddresses(b, fr) = a
  BY DEF SetAddresses
<1> HIDE DEF d
<1>6. a \in BranchType /\ a.name = b.name /\ a.kind = b.kind /\ a.refs = fr /\ a.data = d
  BY <1>2 DEF BranchType
<1> QED
  BY <1>4, <1>5, <1>6

\* The next Frame changes the addresses of the branches, not what they are
\* branches of; the entries that were filled before are copies.
LEMMA WriteNextKeeps ==
  ASSUME IInv, NEW c \in Category, NEW fr \in Frame, NEW asked \in Requests, WriteNext(c, fr, asked)
  PROVE  IInv'
<1> DEFINE info == m_categories[c]
           old == info.branches
           bs == [i \in 1..Len(old) |-> SetAddresses(old[i], fr)]
           new == [info EXCEPT !.branches = bs]
           row == [frame |-> fr, branches |-> bs]
<1>1. /\ Available(info, fr) /\ Resettable(info, fr)
      /\ Fill(c, [info EXCEPT !.branches = [i \in 1..Len(@) |-> SetAddresses(@[i], fr)]], fr)
      /\ Result("written", c, fr, asked, FALSE) /\ UNCHANGED <<writer, reading>>
  BY Zenon DEF WriteNext
<1>2. /\ info \in CategoryType /\ CategoryOK(info) /\ Describes(info, trees[c])
      /\ trees \in [Category -> Seq(RowType)] /\ trees[c] \in Seq(RowType)
  BY DEF IInv, WriterType, WriterOK
<1>3. Fill(c, new, fr)
  BY <1>1
<1> HIDE DEF info
<1>4. /\ old \in Seq(BranchType) /\ Len(old) \in Nat /\ info.params /\ info.collsToWrite \in Seq(Name)
      /\ Len(old) = Len(info.collsToWrite) /\ Len(info.collInfo) = Len(old)
  BY <1>1, <1>2 DEF CategoryType, Resettable, CategoryOK
<1>5. ASSUME NEW i \in 1..Len(old)
      PROVE  /\ old[i] \in BranchType /\ old[i].name \in DOMAIN Contents[fr]
             /\ ~NoSuchBranch(old[i], fr)
             /\ old[i].kind = "subset" => old[i].data = NoAddress
             /\ old[i].kind = "normal" => NormalSomewhere(old[i].name)
             /\ old[i].name = info.collsToWrite[i]
             /\ info.collInfo[i] = <<info.collsToWrite[i], old[i].kind>>
  <2>1. old[i].name = info.collsToWrite[i] /\ info.collInfo[i] = <<info.collsToWrite[i], old[i].kind>>
        /\ (old[i].kind = "subset" => old[i].data = NoAddress)
        /\ (old[i].kind = "normal" => NormalSomewhere(old[i].name))
    BY <1>2, <1>4 DEF CategoryOK
  <2>2. info.collsToWrite[i] \in Range(info.collsToWrite)
    BY <1>4 DEF Range
  <2>3. old[i].name \in DOMAIN Contents[fr]
    BY <1>1, <2>1, <2>2 DEF Available
  <2>4. ~NoSuchBranch(old[i], fr)
    BY <1>1 DEF Resettable
  <2>5. old[i] \in BranchType
    BY <1>4
  <2> QED
    BY <2>1, <2>3, <2>4, <2>5
<1>6. ASSUME NEW i \in 1..Len(old)
      PROVE  /\ bs[i] \in BranchType /\ bs[i].name = old[i].name /\ bs[i].kind = old[i].kind /\ bs[i].refs = fr
             /\ bs[i].name \in DOMAIN Contents[fr]
             /\ Contents[fr][bs[i].name] = "normal" => bs[i].data = fr
             /\ bs[i].kind = "subset" => bs[i].data = NoAddress
             /\ bs[i].kind = "normal" => NormalSomewhere(bs[i].name)
  <2>1. bs[i] = SetAddresses(old[i], fr)
    OBVIOUS
  <2> HIDE DEF bs
  <2> QED
    BY <1>5, <2>1, AddressesSet
<1>7. bs = [i \in 1..Len(old) |-> bs[i]]
  OBVIOUS
<1> HIDE DEF bs
<1>8. bs \in Seq(BranchType) /\ Len(bs) = Len(old)
  <2> DEFINE n == Len(old)
  <2>1. n \in Nat /\ \A i \in 1..n : bs[i] \in BranchType
    BY <1>4, <1>6
  <2>2. bs = [i \in 1..n |-> bs[i]]
    BY <1>7
  <2> HIDE DEF n
  <2>3. bs \in Seq(BranchType) /\ Len(bs) = n
    BY <2>1, <2>2, IsASequence
  <2> QED
    BY <2>3 DEF n
<1>9. /\ new \in CategoryType /\ new.tree = info.tree /\ new.collsToWrite = info.collsToWrite /\ new.branches = bs
      /\ new.collInfo = info.collInfo /\ new.params
  BY <1>2, <1>4, <1>8 DEF CategoryType
<1>10. row \in RowType /\ row.frame = fr /\ row.branches = bs
  BY <1>8 DEF RowType
<1>11. trees' = [trees EXCEPT ![c] = Append(trees[c], row)] /\ m_categories' = [m_categories EXCEPT ![c] = new]
  <2>1. new.branches = bs
    BY <1>9
  <2> HIDE DEF new
  <2> QED
    BY <1>3, <2>1 DEF Fill
<1> HIDE DEF new, row, old
<1>12. CategoryOK(new)
  <2>1. /\ info.tree => Range(info.collsToWrite) \in Requests
        /\ Ordered(info.collsToWrite) /\ Len(info.collsToWrite) = Cardinality(Range(info.collsToWrite))
        /\ \A k \in 1..Len(info.collInfo) : info.collInfo[k][1] \in Range(info.collsToWrite)
        /\ info.tree
    BY <1>2, <1>4 DEF CategoryOK, NoBranches
  <2>2. \A k \in 1..Len(bs) : /\ bs[k].kind = "subset" => bs[k].data = NoAddress
                              /\ bs[k].kind = "normal" => NormalSomewhere(bs[k].name)
    BY <1>6, <1>8
  <2>3. \A k \in 1..Len(info.collsToWrite) :
           bs[k].name = info.collsToWrite[k] /\ info.collInfo[k] = <<info.collsToWrite[k], bs[k].kind>>
    BY <1>4, <1>5, <1>6
  <2>4. Len(bs) = Len(info.collsToWrite) /\ Len(info.collInfo) = Len(info.collsToWrite)
    BY <1>4, <1>8
  <2> QED
    BY <1>9, <2>1, <2>2, <2>3, <2>4 DEF CategoryOK
<1>13. RowOK(new, row)
  <2>1. Len(bs) = Len(new.collInfo)
    BY <1>4, <1>8, <1>9
  <2>2. \A k \in 1..Len(bs) : <<bs[k].name, bs[k].kind>> = new.collInfo[k]
    BY <1>5, <1>6, <1>8, <1>9
  <2> QED
    BY <1>6, <1>8, <1>10, <2>1, <2>2 DEF RowOK
<1>14. Append(trees[c], row) \in Seq(RowType) /\ Describes(new, Append(trees[c], row))
  <2> DEFINE rows == Append(trees[c], row)
  <2>1. rows \in Seq(RowType) /\ Len(rows) = Len(trees[c]) + 1 /\ rows[Len(trees[c]) + 1] = row
        /\ \A i \in 1..Len(trees[c]) : rows[i] = trees[c][i]
    BY <1>2, <1>10
  <2>2. \A i \in 1..Len(trees[c]) : RowOK(new, trees[c][i])
    <3>1. \A r : RowOK(info, r) => RowOK(new, r)
      BY <1>9 DEF RowOK
    <3> QED
      BY <1>2, <3>1 DEF Describes
  <2>3. \A i \in 1..Len(rows) : i \in 1..Len(trees[c]) \/ i = Len(trees[c]) + 1
    BY <1>2, <2>1
  <2> HIDE DEF rows
  <2>4. \A i \in 1..Len(rows) : RowOK(new, rows[i])
    BY <1>13, <2>1, <2>2, <2>3
  <2> QED
    BY <1>9, <2>1, <2>4 DEF Describes, rows
<1>15. result'.asked \in SUBSET Name /\ result'.first \in BOOLEAN
  BY <1>1, CollectionsAssumption DEF Result
<1> QED
  BY <1>1, <1>9, <1>11, <1>12, <1>14, <1>15, CategoryKeeps

\* A Frame that is turned down, the end of the program, and finish, which the
\* categories and trees outlive.
LEMMA EndsKeep ==
  ASSUME IInv, UNCHANGED <<m_categories, trees, reading>>, writer' \in {"open", "closed", "gone"},
         result'.asked \in SUBSET Name, result'.first \in BOOLEAN
  PROVE  IInv'
<1>1. WriterType'
  BY DEF IInv, WriterType
<1>2. ReaderType'
  BY DEF IInv, ReaderType, reading, history
<1>3. WriterOK'
  BY DEF IInv, WriterOK
<1> QED
  BY <1>1, <1>2, <1>3 DEF IInv

\* The reader does not disturb what was written.
LEMMA ReadersKeep ==
  ASSUME IInv, UNCHANGED writing, ReaderType'
  PROVE  IInv'
<1>1. WriterType'
  BY DEF IInv, WriterType, writing
<1>2. WriterOK'
  BY DEF IInv, WriterOK, writing
<1> QED
  BY <1>1, <1>2 DEF IInv

-----------------------------------------------------------------------------
\* Entry i of a chain of n copies of a tree of l entries is in one of them.
LEMMA EntryOfChain ==
  ASSUME NEW n \in Nat, NEW l \in Nat, NEW i \in Nat, i < n * l
  PROVE  i \div l + 1 \in 1..n /\ i % l \in 0..l - 1 /\ l # 0
<1>1. l # 0
  <2>1. n * 0 = 0
    OBVIOUS
  <2> QED
    BY <2>1
<1>2. i % l \in 0..l - 1 /\ i \div l \in Nat
  BY <1>1
<1>3. i \div l < n
  BY <1>1
<1> QED
  BY <1>1, <1>2, <1>3

\* An entry that is read is a Frame, or a torn one.
LEMMA FrameOfIs ==
  ASSUME NEW row \in RowType
  PROVE  FrameOf(row) \in Frame \cup {Torn}
  BY DEF FrameOf, RowType

\* What is filled is the Frame, unless it has a subset collection where another
\* Frame has a normal one.
LEMMA FilledIs ==
  ASSUME NEW info, NEW row \in RowType, RowOK(info, row)
  PROVE  FrameOf(row) = row.frame \/ (row.frame \in TurnedSubset /\ FrameOf(row) = Torn)
<1> SUFFICES ASSUME row.frame \notin TurnedSubset
             PROVE  FrameOf(row) = row.frame
  BY DEF FrameOf
<1>1. ASSUME NEW k \in 1..Len(row.branches)
      PROVE  row.branches[k].refs = row.frame /\ row.branches[k].data \in {NoAddress, row.frame}
  <2> DEFINE b == row.branches[k]
  <2>1. /\ b.refs = row.frame /\ b.name \in DOMAIN Contents[row.frame]
        /\ Contents[row.frame][b.name] = "normal" => b.data = row.frame
        /\ b.kind = "subset" => b.data = NoAddress
        /\ b.kind = "normal" => NormalSomewhere(b.name)
    BY DEF RowOK
  <2>2. row.frame \in Frame /\ b.kind \in {"normal", "subset"}
    <3>1. row.frame \in Frame /\ row.branches \in Seq(BranchType)
      BY DEF RowType
    <3>2. b \in BranchType
      BY <3>1
    <3> QED
      BY <3>1, <3>2 DEF BranchType
  <2> HIDE DEF b
  <2>3. Contents[row.frame][b.name] \in {"normal", "subset"}
    BY <2>1, <2>2, FramesAssumption
  <2>4. Contents[row.frame][b.name] = "subset" => b.kind = "subset"
    BY <2>1, <2>2 DEF TurnedSubset, NormalSomewhere
  <2>5. b.data \in {NoAddress, row.frame}
    BY <2>1, <2>3, <2>4
  <2> QED
    BY <2>1, <2>5 DEF b
<1> QED
  BY <1>1 DEF FrameOf

\* A read of a category that is not in the files only moves the cursor.
LEMMA ReadNoCategoryKeeps ==
  ASSUME IInv, NEW c \in Category, NEW i \in Nat, NEW limit, ReadNoCategory(c, i, limit)
  PROVE  IInv'
<1>1. ReaderType'
  BY DEF IInv, ReaderType, ReadNoCategory
<1> QED
  BY <1>1, ReadersKeep DEF ReadNoCategory

\* The metadata only has names the category was asked to write.
LEMMA StoredIs ==
  ASSUME IInv, NEW c \in Category
  PROVE  StoredClasses(c) \subseteq Name
<1>1. m_categories[c] \in CategoryType /\ CategoryOK(m_categories[c])
  BY DEF IInv, WriterType, WriterOK
<1>2. StoredClasses(c) \subseteq Range(m_categories[c].collsToWrite)
  BY <1>1 DEF StoredClasses, CategoryOK
<1>3. Range(m_categories[c].collsToWrite) \subseteq Name
  BY <1>1 DEF CategoryType, Range
<1> QED
  BY <1>2, <1>3

\* What is left when a category is initialized and its entries are counted.
LEMMA CountedIs ==
  ASSUME NEW info \in ChainType, files \in 0..MaxFiles, files # 0
  PROVE  /\ InitCategory(info) \in ChainType /\ InitCategory(info).table
         /\ \A new \in CountEntries(info) : new \in ChainType /\ new.counted /\ new.table = info.table
<1>1. 1 \in 0..MaxFiles /\ MaxFiles \in Nat
  BY BoundsAssumption
<1>2. InitCategory(info) \in ChainType /\ InitCategory(info).table
  BY <1>1 DEF InitCategory, ChainType
<1>3. ASSUME NEW new \in CountEntries(info)
      PROVE  new \in ChainType /\ new.counted /\ new.table = info.table
  BY <1>3 DEF CountEntries, ChainType
<1> QED
  BY <1>2, <1>3

\* The entries of a category are counted.
LEMMA GetEntriesKeeps ==
  ASSUME IInv, NEW c \in Category, GetEntries(c)
  PROVE  IInv'
<1>1. PICK info \in CountEntries(chain[c]) : chain' = [chain EXCEPT ![c] = info]
  BY DEF GetEntries
<1>2. files # 0 /\ UNCHANGED <<files, entry, answer, history, writing>>
  BY DEF GetEntries
<1>3. chain \in [Category -> ChainType] /\ files \in 0..MaxFiles
  BY DEF IInv, ReaderType
<1>4. info \in ChainType
  BY <1>2, <1>3, CountedIs
<1>5. chain' \in [Category -> ChainType]
  BY <1>1, <1>3, <1>4
<1>6. ReaderType'
  BY <1>2, <1>5 DEF IInv, ReaderType, history
<1> QED
  BY <1>2, <1>6, ReadersKeep

\* A read that returns nothing may initialise the category.
LEMMA ReadNothingKeeps ==
  ASSUME IInv, NEW c \in Category, NEW i \in Nat, NEW limit, ReadNothing(c, i, limit)
  PROVE  IInv'
<1>1. PICK info \in CountEntries(InitCategory(chain[c])) : chain' = [chain EXCEPT ![c] = info]
  BY DEF ReadNothing
<1>2. /\ answer' \in {"null", "throws"} /\ entry' = [entry EXCEPT ![c] = i] /\ lapse' = FALSE
      /\ files # 0 /\ UNCHANGED <<files, visit, writing>>
  BY DEF ReadNothing
<1>3. chain \in [Category -> ChainType] /\ files \in 0..MaxFiles
  BY DEF IInv, ReaderType
<1>4. info \in ChainType
  BY <1>2, <1>3, CountedIs
<1>5. chain' \in [Category -> ChainType]
  BY <1>1, <1>3, <1>4
<1>6. ReaderType'
  BY <1>2, <1>5 DEF IInv, ReaderType
<1> QED
  BY <1>2, <1>6, ReadersKeep

\* The tree of an entry is one of the chain, and the entry one of the tree.
LEMMA RowRead ==
  ASSUME IInv, NEW c \in Category, NEW i \in Nat, i < Entries(c)
  PROVE  /\ Len(trees[c]) \in Nat \ {0} /\ files \in Nat
         /\ i \div Len(trees[c]) + 1 \in 1..files /\ i \div Len(trees[c]) + 1 \in 0..MaxFiles
         /\ i % Len(trees[c]) \in Nat /\ (i % Len(trees[c])) + 1 \in 1..Len(trees[c])
         /\ trees[c][(i % Len(trees[c])) + 1] \in RowType
         /\ FrameOf(trees[c][(i % Len(trees[c])) + 1]) \in Frame \cup {Torn}
<1> DEFINE l == Len(trees[c])
<1>1. trees[c] \in Seq(RowType) /\ l \in Nat /\ files \in Nat /\ files <= MaxFiles /\ MaxFiles \in Nat
  BY BoundsAssumption DEF IInv, WriterType, ReaderType
<1>2. i < files * l
  BY DEF Entries
<1> HIDE DEF l
<1>3. i \div l + 1 \in 1..files /\ i % l \in 0..l - 1 /\ l # 0
  BY <1>1, <1>2, EntryOfChain
<1>4. i % l \in Nat /\ (i % l) + 1 \in 1..l /\ i \div l + 1 \in 0..MaxFiles
  BY <1>1, <1>3
<1>5. trees[c][(i % l) + 1] \in RowType
  <2>1. \A j \in 1..Len(trees[c]) : trees[c][j] \in RowType
    BY <1>1
  <2>2. (i % l) + 1 \in 1..Len(trees[c])
    BY <1>4 DEF l
  <2> QED
    BY <2>1, <2>2
<1> QED
  BY <1>1, <1>3, <1>4, <1>5, FrameOfIs DEF l

\* The branches that are read with some limit.
ToRead(c, limit) == (IF limit = {} THEN StoredClasses(c) ELSE limit) \cup {ParamBranches}

\* Entry i is read: it is a row of one of the trees of the chain.
ReadsRow(c, i, treeNo, localEntry, row, toRead) ==
    /\ files # 0 /\ i < Entries(c) /\ entry' = [entry EXCEPT ![c] = i + 1] /\ UNCHANGED <<files, writing>>
    /\ treeNo \in 1..files /\ treeNo \in 0..MaxFiles /\ localEntry \in Nat
    /\ FrameOf(row) \in Frame \cup {Torn}
    /\ toRead \in SUBSET AllBranches
    /\ visit' = [visit EXCEPT ![c] = Visit(visit[c], treeNo, localEntry, toRead)]
    /\ lapse' = Lapse(visit[c], treeNo, localEntry, toRead)
    /\ \E info \in CountEntries(InitCategory(chain[c])) :
          /\ chain' = [chain EXCEPT ![c] = LoadTree(info, treeNo, localEntry, toRead)]
          /\ answer' = ReadBranchesData(LoadTree(info, treeNo, localEntry, toRead), toRead, row)

\* A read loads the tree of the entry.
LEMMA ReadBranchesIs ==
  ASSUME IInv, NEW c \in Category, NEW i \in Nat, NEW limit, ReadBranches(c, i, limit)
  PROVE  ReadsRow(c, i, i \div Len(trees[c]) + 1, i % Len(trees[c]), trees[c][(i % Len(trees[c])) + 1],
                  ToRead(c, limit))
<1> DEFINE treeNo == i \div Len(trees[c]) + 1
           localEntry == i % Len(trees[c])
           toRead == ToRead(c, limit)
<1>1. /\ files # 0 /\ i < Entries(c) /\ entry' = [entry EXCEPT ![c] = i + 1] /\ UNCHANGED <<files, writing>>
      /\ limit \subseteq StoredClasses(c)
      /\ visit' = [visit EXCEPT ![c] = Visit(@, treeNo, localEntry, toRead)]
      /\ lapse' = Lapse(visit[c], treeNo, localEntry, toRead)
      /\ \E info \in CountEntries(InitCategory(chain[c])) :
                  /\ chain' = [chain EXCEPT ![c] = LoadTree(info, treeNo, localEntry, toRead)]
                  /\ answer' = ReadBranchesData(LoadTree(info, treeNo, localEntry, toRead), toRead, trees[c][localEntry + 1])
  BY Zenon DEF ReadBranches, ToRead
<1>2. toRead \in SUBSET AllBranches
  BY <1>1, StoredIs DEF ToRead, AllBranches
<1>3. /\ treeNo \in 1..files /\ treeNo \in 0..MaxFiles /\ localEntry \in Nat
      /\ FrameOf(trees[c][localEntry + 1]) \in Frame \cup {Torn}
  BY <1>1, RowRead
<1> HIDE DEF treeNo, localEntry, toRead
<1>4. visit' = [visit EXCEPT ![c] = Visit(visit[c], treeNo, localEntry, toRead)]
  BY <1>1
<1> QED
  BY <1>1, <1>2, <1>3, <1>4 DEF treeNo, localEntry, toRead, ReadsRow

\* What is remembered of a read, and what it leaves in the chain.
LEMMA ReadLeaves ==
  ASSUME NEW info \in ChainType, NEW last \in VisitType, NEW treeNo \in 0..MaxFiles, NEW localEntry \in Nat,
         NEW toRead \in SUBSET AllBranches
  PROVE  /\ LoadTree(info, treeNo, localEntry, toRead) \in ChainType
         /\ Visit(last, treeNo, localEntry, toRead) \in VisitType
<1> DEFINE fresh == LET treeChange == treeNo # info.loaded
                        kept == IF treeChange THEN {} ELSE info.fresh
                    IN IF reloadBranches(treeChange, localEntry) THEN kept \cup toRead ELSE kept
<1>1. fresh \in SUBSET AllBranches
  BY DEF ChainType
<1>2. LoadTree(info, treeNo, localEntry, toRead) = [info EXCEPT !.loaded = treeNo, !.fresh = fresh]
  BY DEF LoadTree
<1> HIDE DEF fresh
<1>3. LoadTree(info, treeNo, localEntry, toRead) \in ChainType
  BY <1>1, <1>2 DEF ChainType
<1>4. Visit(last, treeNo, localEntry, toRead) \in VisitType
  BY DEF Visit, VisitType
<1> QED
  BY <1>3, <1>4

\* The reader's state has its type after a read.
LEMMA ReadBranchesKeeps ==
  ASSUME IInv, NEW c \in Category, NEW i \in Nat, NEW limit, ReadBranches(c, i, limit)
  PROVE  IInv'
<1> DEFINE treeNo == i \div Len(trees[c]) + 1
           localEntry == i % Len(trees[c])
           row == trees[c][localEntry + 1]
           toRead == ToRead(c, limit)
<1>0. ReadsRow(c, i, treeNo, localEntry, row, toRead)
  BY ReadBranchesIs
<1> HIDE DEF treeNo, localEntry, row, toRead
<1>1. /\ files # 0 /\ entry' = [entry EXCEPT ![c] = i + 1] /\ UNCHANGED <<files, writing>>
      /\ treeNo \in 0..MaxFiles /\ localEntry \in Nat /\ FrameOf(row) \in Frame \cup {Torn}
      /\ toRead \in SUBSET AllBranches
      /\ visit' = [visit EXCEPT ![c] = Visit(visit[c], treeNo, localEntry, toRead)]
      /\ lapse' = Lapse(visit[c], treeNo, localEntry, toRead)
  BY <1>0 DEF ReadsRow
<1>2. PICK info \in CountEntries(InitCategory(chain[c])) :
         /\ chain' = [chain EXCEPT ![c] = LoadTree(info, treeNo, localEntry, toRead)]
         /\ answer' = ReadBranchesData(LoadTree(info, treeNo, localEntry, toRead), toRead, row)
  BY <1>0 DEF ReadsRow
<1>3. /\ files \in 0..MaxFiles /\ entry \in [Category -> Nat]
      /\ chain \in [Category -> ChainType] /\ visit \in [Category -> VisitType]
  BY DEF IInv, ReaderType
<1>4. info \in ChainType
  BY <1>1, <1>3, CountedIs
<1>5. /\ LoadTree(info, treeNo, localEntry, toRead) \in ChainType
      /\ Visit(visit[c], treeNo, localEntry, toRead) \in VisitType
  BY <1>1, <1>3, <1>4, ReadLeaves
<1>6. chain' \in [Category -> ChainType] /\ visit' \in [Category -> VisitType]
  BY <1>1, <1>2, <1>3, <1>5
<1>7. answer' \in Frame \cup {Torn, "wild"}
  BY <1>1, <1>2 DEF ReadBranchesData
<1>8. lapse' \in BOOLEAN
  BY <1>1 DEF Lapse
<1>9. entry' \in [Category -> Nat] /\ files' \in 0..MaxFiles
  BY <1>1, <1>3
<1>10. ReaderType'
  BY <1>6, <1>7, <1>8, <1>9 DEF ReaderType
<1> QED
  BY <1>1, <1>10, ReadersKeep

\* The chains of files that are opened, and those that stay, are there.
LEMMA OpenFilesKeeps ==
  ASSUME IInv, OpenFiles
  PROVE  IInv'
<1>1. /\ files' \in 0..MaxFiles
      /\ chain' = [c \in Category |-> [chain[c] EXCEPT !.counted = FALSE]]
      /\ visit' = [c \in Category |-> IF files' = 1 THEN [file |-> 1, names |-> AllBranches] ELSE NoVisit]
      /\ UNCHANGED <<entry, answer, lapse, writing>>
  BY BoundsAssumption DEF OpenFiles, IInv, ReaderType
<1>2. chain \in [Category -> ChainType]
  BY DEF IInv, ReaderType
<1>3. \A info \in ChainType : [info EXCEPT !.counted = FALSE] \in ChainType
  BY DEF ChainType
<1>4. chain' \in [Category -> ChainType]
  BY <1>1, <1>2, <1>3
<1>5. visit' \in [Category -> VisitType]
  BY <1>1, BoundsAssumption DEF VisitType, NoVisit
<1>6. ReaderType'
  BY <1>1, <1>4, <1>5 DEF IInv, ReaderType
<1> QED
  BY <1>1, <1>6, ReadersKeep

\* Reads from the cursor and from an entry that is asked for.
LEMMA ReadsKeep ==
  ASSUME IInv, NEW c \in Category, NEW limit, ReadNextEntry(c, limit) \/ \E i \in Index : ReadEntry(c, i, limit)
  PROVE  IInv'
<1>1. PICK i \in Nat : ReadFrom(c, i, limit)
  BY BoundsAssumption DEF ReadNextEntry, ReadEntry, IInv, ReaderType
<1> QED
  BY <1>1, ReadNoCategoryKeeps, ReadNothingKeeps, ReadBranchesKeeps DEF ReadFrom

-----------------------------------------------------------------------------
\* A file without categories.
LEMMA Start == Init => IInv
<1> SUFFICES ASSUME Init
             PROVE  IInv
  OBVIOUS
<1>1. /\ m_categories = [c \in Category |-> NoCategory] /\ trees = [c \in Category |-> <<>>]
      /\ result.asked = {} /\ result.first = FALSE /\ writer = "open"
  BY DEF Init
<1>2. /\ NoCategory \in CategoryType /\ NoCategory.branches = <<>> /\ ~NoCategory.tree
      /\ ~NoCategory.params /\ NoCategory.collInfo = <<>> /\ NoCategory.collsToWrite = <<>>
  BY DEF NoCategory, CategoryType
<1>3. WriterType
  <2>1. <<>> \in Seq(RowType) /\ {} \in SUBSET Name /\ FALSE \in BOOLEAN
    OBVIOUS
  <2>2. m_categories \in [Category -> CategoryType] /\ trees \in [Category -> Seq(RowType)]
    BY <1>1, <1>2, <2>1
  <2> QED
    BY <1>1, <2>1, <2>2 DEF WriterType
<1>4. ReaderType
  <2>1. 0 \in 0..MaxFiles /\ NoChain \in ChainType /\ NoVisit \in VisitType
    BY BoundsAssumption DEF NoChain, ChainType, NoVisit, VisitType
  <2>2. chain \in [Category -> ChainType] /\ visit \in [Category -> VisitType] /\ entry \in [Category -> Nat]
    BY <2>1 DEF Init
  <2> QED
    BY <2>1, <2>2 DEF Init, ReaderType
<1>5. CategoryOK(NoCategory)
  <2>1. Range(<<>>) = {} /\ Cardinality({}) = 0
    BY FS_EmptySet DEF Range
  <2>2. Ordered(<<>>) /\ Len(<<>>) = 0
    BY DEF Ordered
  <2>3. NoBranches(NoCategory)
    BY <1>2 DEF NoBranches
  <2>4. \A k \in 1..Len(<<>>) : FALSE
    BY <2>2
  <2> HIDE DEF NoCategory
  <2> QED
    BY <1>2, <2>1, <2>2, <2>3, <2>4 DEF CategoryOK
<1>6. Describes(NoCategory, <<>>)
  BY DEF Describes
<1>7. WriterOK
  BY <1>1, <1>5, <1>6 DEF WriterOK
<1> QED
  BY <1>3, <1>4, <1>7 DEF IInv

\* No step leaves the invariant.
LEMMA EveryStep == IInv /\ [Next]_vars => IInv'
<1> SUFFICES ASSUME IInv, [Next]_vars
             PROVE  IInv'
  OBVIOUS
<1>1. ASSUME NEW c \in Category, NEW fr \in Frame, NEW asked \in Requests,
             \/ WriteUnavailable(c, fr, asked) \/ WriteFirst(c, fr, asked)
             \/ WriteFirstThrows(c, fr, asked) \/ WriteNext(c, fr, asked)
      PROVE  IInv'
  BY <1>1, WriteUnavailableKeeps, WriteFirstKeeps, WriteFirstThrowsKeeps, WriteNextKeeps
<1>2. ASSUME NEW c \in Category, NEW fr \in Frame, NEW asked \in Requests,
             WriteInconsistent(c, fr, asked) \/ WriteWild(c, fr, asked)
      PROVE  IInv'
  <2>1. /\ UNCHANGED <<m_categories, trees, reading>> /\ writer' \in {"open", "gone"}
        /\ result'.asked = asked /\ result'.first = FALSE
    BY <1>2 DEF WriteInconsistent, WriteWild, Result
  <2> QED
    BY <2>1, CollectionsAssumption, EndsKeep
<1>3. ASSUME NEW c \in Category, NEW limit \in Limits[c],
             ReadNextEntry(c, limit) \/ \E i \in Index : ReadEntry(c, i, limit)
      PROVE  IInv'
  BY <1>3, ReadsKeep
<1>4. CASE Finish \/ Crash
  <2>1. UNCHANGED <<m_categories, trees, result, reading>> /\ writer' \in {"closed", "gone"}
    BY <1>4 DEF Finish, Crash
  <2> QED
    BY <2>1, EndsKeep DEF IInv, WriterType
<1>5. CASE OpenFiles
  BY <1>5, OpenFilesKeeps
<1>6. CASE UNCHANGED vars
  BY <1>6, ReadersKeep DEF vars, writing, IInv, ReaderType
<1>7. ASSUME NEW c \in Category, GetEntries(c)
      PROVE  IInv'
  BY <1>7, GetEntriesKeeps
<1> QED
  BY <1>1, <1>2, <1>3, <1>4, <1>5, <1>6, <1>7 DEF Next

\* It holds in every state of the file.
LEMMA Inductive == Spec => []IInv
  BY Start, EveryStep, PTL DEF Spec

-----------------------------------------------------------------------------
\* The metadata and the trees of a category say the same, for any categories,
\* names and Frames, and whichever calls of writeFrame failed.
THEOREM InfoStaysRight == Spec => []InfoMatchesEntries
<1>1. IInv => InfoMatchesEntries
  <2> SUFFICES ASSUME IInv
               PROVE  InfoMatchesEntries
    OBVIOUS
  <2>1. TypeOK
    BY DEF IInv, WriterType, ReaderType, TypeOK, CategoryType, RowType, ChainType, VisitType
  <2>2. ASSUME NEW c \in Category, NEW i \in 1..Len(trees[c])
        PROVE  LET info == m_categories[c].collInfo
                   row == trees[c][i].branches
               IN /\ Len(row) = Len(info)
                  /\ \A k \in 1..Len(row) : <<row[k].name, row[k].kind>> = info[k]
                  /\ Range(m_categories[c].collsToWrite) = StoredClasses(c)
    <3> DEFINE m == m_categories[c]
               colls == m.collsToWrite
               info == m.collInfo
    <3>1. /\ CategoryOK(m) /\ Describes(m, trees[c])
          /\ trees[c] \in Seq(RowType) /\ m \in CategoryType
      BY DEF IInv, WriterOK, WriterType
    <3>2. RowOK(m, trees[c][i]) /\ trees[c] # <<>>
      BY <3>1 DEF Describes
    <3>3. m.params
      BY <3>1, <3>2 DEF Describes
    <3>4. colls \in Seq(Name) /\ Len(info) = Len(colls) /\ \A k \in 1..Len(colls) : info[k][1] = colls[k]
      BY <3>1, <3>3 DEF CategoryOK, CategoryType
    <3>5. Range(colls) = {colls[k] : k \in 1..Len(colls)}
      BY <3>4 DEF Range
    <3>6. StoredClasses(c) = {info[k][1] : k \in 1..Len(colls)}
      BY <3>4 DEF StoredClasses
    <3> HIDE DEF info, colls, m
    <3>7. Range(colls) = StoredClasses(c)
      BY <3>4, <3>5, <3>6
    <3>8. RowOK(m, trees[c][i])
      BY <3>2
    <3> QED
      BY <3>7, <3>8 DEF RowOK, info, colls, m
  <2> QED
    BY <2>1, <2>2 DEF InfoMatchesEntries
<1> QED
  BY <1>1, Inductive, PTL

\* However long the names are, a Frame with the collections of the category is
\* not turned down.
THEOREM NoneTurnedDown == Spec => []NoFalseAlarm
<1>1. IInv => NoFalseAlarm
  <2> SUFFICES ASSUME IInv, NEW c \in Category
               PROVE  checkConsistentColls(m_categories[c].collsToWrite, Range(m_categories[c].collsToWrite))
    BY DEF NoFalseAlarm
  <2>1. m_categories[c] \in CategoryType /\ CategoryOK(m_categories[c])
    BY DEF IInv, WriterType, WriterOK
  <2>2. m_categories[c].collsToWrite \in Seq(Name)
    BY <2>1 DEF CategoryType
  <2> QED
    BY <2>1, <2>2, FindsItself DEF CategoryOK
<1> QED
  BY <1>1, Inductive, PTL

-----------------------------------------------------------------------------
\* A category that was not initialized and whose file is the only one.
FirstFile(info) == files = 1 /\ info.loaded \in {0, 1} /\ (info.loaded # 0 => info.counted)

\* What the calls say of a category whose entries are counted holds for its
\* chain.
Follows(info, last) ==
    last.file # 0 => info.counted /\ info.loaded = last.file /\ last.names \subseteq info.fresh

\* It also does once the category is initialized, and before that if there is
\* only one file.
ChainOK(info, last) ==
    /\ info.table => Follows(info, last)
    /\ ~info.table /\ last.file # 0 => last.file = 1 /\ FirstFile(info)

\* The chains are those of the calls, a pointer that was not reassigned is only
\* used after a lapse, and files are only read when they are finished.
ReaderOK ==
    /\ files # 0 => writer = "closed"
    /\ files = 0 => chain = [c \in Category |-> NoChain] /\ visit = [c \in Category |-> NoVisit]
    /\ \A c \in Category : ChainOK(chain[c], visit[c])
    /\ StaleOnlyAfterLapse

\* The inductive invariant with the reader's part.
RInv == IInv /\ ReaderOK

\* Once a category is initialized and its entries are counted, its chain is
\* what the calls say.
LEMMA CountedFollows ==
  ASSUME NEW info \in ChainType, NEW last \in VisitType, ChainOK(info, last), files \in 0..MaxFiles, files # 0,
         NEW new \in CountEntries(InitCategory(info))
  PROVE  new \in ChainType /\ new.table /\ new.counted /\ Follows(new, last)
<1> DEFINE first == InitCategory(info)
<1>1. first \in ChainType /\ first.table
  BY CountedIs
<1>2. Follows(first, last)
  <2>1. CASE info.table
    BY <2>1 DEF InitCategory, ChainOK
  <2>2. CASE ~info.table
    <3> SUFFICES ASSUME last.file # 0
                 PROVE  first.counted /\ first.loaded = last.file /\ last.names \subseteq first.fresh
      BY DEF Follows
    <3>1. last.file = 1 /\ files = 1 /\ info.loaded \in {0, 1} /\ (info.loaded # 0 => info.counted)
      BY <2>2 DEF ChainOK, FirstFile
    <3>2. last.names \subseteq AllBranches
      BY DEF VisitType
    <3>3. first = [table |-> TRUE, fresh |-> AllBranches,
                   counted |-> info.counted \/ (info.loaded = 0 /\ files = 1),
                   loaded |-> IF info.loaded = 0 THEN 1 ELSE info.loaded]
      BY <2>2 DEF InitCategory
    <3> HIDE DEF first
    <3> QED
      BY <3>1, <3>2, <3>3
  <2> QED
    BY <2>1, <2>2
<1> HIDE DEF first
<1>3. new \in ChainType /\ new.table /\ new.counted
  BY <1>1, CountedIs DEF first
<1>4. last.file # 0 => new = first
  BY <1>2 DEF Follows, CountEntries, first
<1> QED
  BY <1>2, <1>3, <1>4 DEF Follows

\* The calls say the same after a read as the chain, and it only returns what
\* is none of the entry after a lapse.
LEMMA ReadFollows ==
  ASSUME NEW info \in ChainType, NEW last \in VisitType, info.table, info.counted, Follows(info, last),
         NEW treeNo \in 1..files, files \in 0..MaxFiles, NEW localEntry \in Nat, NEW toRead \in SUBSET AllBranches
  PROVE  LET now == LoadTree(info, treeNo, localEntry, toRead)
         IN /\ ChainOK(now, Visit(last, treeNo, localEntry, toRead))
            /\ toRead \subseteq now.fresh \/ Lapse(last, treeNo, localEntry, toRead)
<1> DEFINE now == LoadTree(info, treeNo, localEntry, toRead)
           kept == IF treeNo # info.loaded THEN {} ELSE info.fresh
           reload == treeNo # info.loaded \/ localEntry = 0
           fresh == IF reload THEN kept \cup toRead ELSE kept
           names == (IF last.file = treeNo THEN last.names ELSE {})
                    \cup (IF localEntry = 0 \/ last.file \notin {0, treeNo} THEN toRead ELSE {})
<1>1. treeNo # 0
  BY BoundsAssumption
<1>2. now = [info EXCEPT !.loaded = treeNo, !.fresh = fresh]
  BY DEF LoadTree, reloadBranches
<1>3. Visit(last, treeNo, localEntry, toRead) = [file |-> treeNo, names |-> names]
  BY DEF Visit
<1>4. last.file # 0 => info.loaded = last.file /\ last.names \subseteq info.fresh
  BY DEF Follows
<1>5. names \subseteq fresh
  <2>1. last.file = treeNo => kept = info.fresh /\ last.names \subseteq kept
    BY <1>1, <1>4
  <2>2. localEntry = 0 \/ last.file \notin {0, treeNo} => reload
    BY <1>4
  <2>3. kept \subseteq fresh /\ (reload => toRead \subseteq fresh)
    OBVIOUS
  <2> HIDE DEF kept, reload, fresh
  <2> QED
    BY <2>1, <2>2, <2>3
<1>6. toRead \subseteq fresh \/ Lapse(last, treeNo, localEntry, toRead)
  <2> SUFFICES ASSUME ~Lapse(last, treeNo, localEntry, toRead)
               PROVE  toRead \subseteq fresh
    OBVIOUS
  <2>1. localEntry = 0 \/ (last.file # 0 /\ (last.file = treeNo => toRead \subseteq last.names))
    BY DEF Lapse
  <2>2. CASE localEntry = 0
    BY <2>2
  <2>3. CASE last.file # 0 /\ last.file # treeNo
    BY <1>4, <2>3
  <2>4. CASE last.file # 0 /\ last.file = treeNo /\ toRead \subseteq last.names
    BY <1>4, <2>4
  <2> QED
    BY <2>1, <2>2, <2>3, <2>4
<1> HIDE DEF fresh, names
<1>7. now.table /\ now.counted /\ now.loaded = treeNo /\ now.fresh = fresh
  BY <1>2 DEF ChainType
<1> HIDE DEF now
<1>8. ChainOK(now, Visit(last, treeNo, localEntry, toRead))
  BY <1>3, <1>5, <1>7 DEF ChainOK, Follows
<1> QED
  BY <1>6, <1>7, <1>8 DEF now

-----------------------------------------------------------------------------
\* The writer does not disturb a reader, which has not opened the files yet.
LEMMA WriterLeavesReader ==
  ASSUME RInv, writer = "open", UNCHANGED reading
  PROVE  ReaderOK'
<1>1. files = 0 /\ files' = 0 /\ UNCHANGED <<chain, visit, answer, lapse>>
  BY DEF RInv, ReaderOK, reading, history
<1>2. \A c \in Category : ChainOK(chain[c], visit[c])'
  BY <1>1 DEF RInv, ReaderOK, ChainOK, Follows, FirstFile
<1> QED
  BY <1>1, <1>2 DEF RInv, ReaderOK, StaleOnlyAfterLapse

\* Files that are opened are told from those that were open before.
LEMMA OpeningFollows ==
  ASSUME RInv, OpenFiles
  PROVE  ReaderOK'
<1>1. /\ writer = "closed" /\ files' # 0 /\ (files' = 1 => files = 0)
      /\ chain' = [c \in Category |-> [chain[c] EXCEPT !.counted = FALSE]]
      /\ visit' = [c \in Category |-> IF files' = 1 THEN [file |-> 1, names |-> AllBranches] ELSE NoVisit]
      /\ UNCHANGED <<answer, lapse, writing>>
  <2>1. files \in Nat
    BY BoundsAssumption DEF RInv, IInv, ReaderType
  <2>2. PICK more \in 1..MaxFiles : files' = files + more
    BY DEF OpenFiles
  <2>3. more \in Nat /\ more # 0
    BY BoundsAssumption
  <2>4. files' # 0 /\ (files' = 1 => files = 0)
    BY <2>1, <2>2, <2>3
  <2> QED
    BY <2>4, Zenon DEF OpenFiles
<1>2. ASSUME NEW c \in Category
      PROVE  ChainOK(chain[c], visit[c])'
  <2>1. CASE files' = 1
    <3>1. chain[c] = NoChain
      BY <1>1, <2>1 DEF RInv, ReaderOK
    <3>2. chain'[c] = [NoChain EXCEPT !.counted = FALSE] /\ visit'[c].file = 1
      BY <1>1, <2>1, <3>1
    <3>3. ~chain'[c].table /\ chain'[c].loaded = 0
      BY <3>2 DEF NoChain
    <3> QED
      BY <2>1, <3>2, <3>3 DEF ChainOK, FirstFile
  <2>2. CASE files' # 1
    <3>1. visit'[c].file = 0
      BY <1>1, <2>2 DEF NoVisit
    <3> QED
      BY <3>1 DEF ChainOK, Follows
  <2> QED
    BY <2>1, <2>2
<1> QED
  BY <1>1, <1>2 DEF RInv, ReaderOK, StaleOnlyAfterLapse, writing

\* A call that leaves the chain of its own category right leaves those of the
\* others alone.
LEMMA OneCategoryRead ==
  ASSUME RInv, NEW c \in Category, files # 0, UNCHANGED <<files, writing>>, NEW info, NEW last, ChainOK(info, last),
         chain' = [chain EXCEPT ![c] = info], visit' = [visit EXCEPT ![c] = last], StaleOnlyAfterLapse'
  PROVE  ReaderOK'
<1>1. writer' = "closed" /\ files' # 0
  BY DEF RInv, ReaderOK, writing
<1>2. chain \in [Category -> ChainType] /\ visit \in [Category -> VisitType]
  BY DEF RInv, IInv, ReaderType
<1>3. ASSUME NEW d \in Category
      PROVE  ChainOK(chain[d], visit[d])'
  <2>1. ChainOK(chain'[d], visit'[d])
    <3>1. CASE d = c
      BY <1>2, <3>1
    <3>2. CASE d # c
      <4>1. chain'[d] = chain[d] /\ visit'[d] = visit[d]
        BY <1>2, <3>2
      <4> QED
        BY <4>1 DEF RInv, ReaderOK
    <3> QED
      BY <3>1, <3>2
  <2> QED
    BY <2>1 DEF ChainOK, Follows, FirstFile
<1> QED
  BY <1>1, <1>3 DEF ReaderOK

\* Counting the entries of a category that was read changes nothing.
LEMMA CountingFollows ==
  ASSUME RInv, NEW c \in Category, GetEntries(c)
  PROVE  ReaderOK'
<1>1. PICK info \in CountEntries(chain[c]) : chain' = [chain EXCEPT ![c] = info]
  BY DEF GetEntries
<1>2. files # 0 /\ UNCHANGED <<files, writing, answer, lapse, visit>>
  BY DEF GetEntries, history
<1>3. visit' = [visit EXCEPT ![c] = visit[c]]
  BY <1>2 DEF RInv, IInv, ReaderType
<1>4. chain[c] \in ChainType /\ ChainOK(chain[c], visit[c])
  BY DEF RInv, IInv, ReaderType, ReaderOK
<1>5. ChainOK(info, visit[c])
  <2>1. CASE chain[c].counted
    BY <1>4, <2>1 DEF CountEntries
  <2>2. CASE ~chain[c].counted
    <3>1. PICK k \in {files, chain[c].loaded} :
             info = [chain[c] EXCEPT !.counted = TRUE, !.loaded = k, !.fresh = {}]
      BY <2>2, Zenon DEF CountEntries
    <3>2. info.counted /\ info.loaded = k /\ info.table = chain[c].table
      BY <1>4, <3>1 DEF ChainType
    <3> HIDE DEF CountEntries
    <3>3. chain[c].table => visit[c].file = 0
      BY <1>4, <2>2 DEF ChainOK, Follows
    <3> QED
      BY <1>4, <3>1, <3>2, <3>3 DEF ChainOK, Follows, FirstFile
  <2> QED
    BY <2>1, <2>2
<1>6. StaleOnlyAfterLapse'
  BY <1>2 DEF RInv, ReaderOK, StaleOnlyAfterLapse
<1> QED
  BY <1>1, <1>2, <1>3, <1>5, <1>6, OneCategoryRead

\* Whatever a read returns, its chain is what the calls say.
LEMMA ReadsKeepReader ==
  ASSUME RInv, NEW c \in Category, NEW i \in Nat, NEW limit, ReadFrom(c, i, limit)
  PROVE  ReaderOK'
<1>0. /\ chain \in [Category -> ChainType] /\ visit \in [Category -> VisitType] /\ files \in 0..MaxFiles
      /\ ChainOK(chain[c], visit[c]) /\ chain[c] \in ChainType /\ visit[c] \in VisitType
  BY DEF RInv, IInv, ReaderType, ReaderOK
<1>1. CASE ReadNoCategory(c, i, limit)
  <2>1. /\ files # 0 /\ UNCHANGED <<files, writing>> /\ answer' = "null"
        /\ chain' = [chain EXCEPT ![c] = chain[c]] /\ visit' = [visit EXCEPT ![c] = visit[c]]
    BY <1>0, <1>1 DEF ReadNoCategory
  <2>2. StaleOnlyAfterLapse'
    BY <2>1 DEF StaleOnlyAfterLapse
  <2> QED
    BY <1>0, <2>1, <2>2, OneCategoryRead
<1>2. CASE ReadNothing(c, i, limit)
  <2>1. /\ files # 0 /\ UNCHANGED <<files, writing>> /\ answer' \in {"null", "throws"}
        /\ visit' = [visit EXCEPT ![c] = visit[c]]
    BY <1>0, <1>2 DEF ReadNothing
  <2>2. PICK info \in CountEntries(InitCategory(chain[c])) : chain' = [chain EXCEPT ![c] = info]
    BY <1>2 DEF ReadNothing
  <2>3. info.table /\ Follows(info, visit[c])
    BY <1>0, <2>1, CountedFollows
  <2>4. ChainOK(info, visit[c])
    BY <2>3 DEF ChainOK
  <2>5. StaleOnlyAfterLapse'
    BY <2>1 DEF StaleOnlyAfterLapse
  <2> QED
    BY <2>1, <2>2, <2>4, <2>5, OneCategoryRead
<1>3. CASE ReadBranches(c, i, limit)
  <2> DEFINE treeNo == i \div Len(trees[c]) + 1
             localEntry == i % Len(trees[c])
             row == trees[c][localEntry + 1]
             toRead == ToRead(c, limit)
  <2>0. ReadsRow(c, i, treeNo, localEntry, row, toRead)
    BY <1>3, ReadBranchesIs DEF RInv
  <2> HIDE DEF treeNo, localEntry, row, toRead
  <2>1. /\ files # 0 /\ UNCHANGED <<files, writing>> /\ treeNo \in 1..files /\ localEntry \in Nat
        /\ FrameOf(row) \in Frame \cup {Torn} /\ toRead \in SUBSET AllBranches
        /\ visit' = [visit EXCEPT ![c] = Visit(visit[c], treeNo, localEntry, toRead)]
        /\ lapse' = Lapse(visit[c], treeNo, localEntry, toRead)
    BY <2>0 DEF ReadsRow
  <2>2. PICK info \in CountEntries(InitCategory(chain[c])) :
           /\ chain' = [chain EXCEPT ![c] = LoadTree(info, treeNo, localEntry, toRead)]
           /\ answer' = ReadBranchesData(LoadTree(info, treeNo, localEntry, toRead), toRead, row)
    BY <2>0 DEF ReadsRow
  <2> DEFINE now == LoadTree(info, treeNo, localEntry, toRead)
             last == Visit(visit[c], treeNo, localEntry, toRead)
  <2>3. info \in ChainType /\ info.table /\ info.counted /\ Follows(info, visit[c])
    BY <1>0, <2>1, CountedFollows
  <2>4. ChainOK(now, last) /\ (toRead \subseteq now.fresh \/ Lapse(visit[c], treeNo, localEntry, toRead))
    BY <1>0, <2>1, <2>3, ReadFollows
  <2>5. StaleOnlyAfterLapse'
    BY <2>1, <2>2, <2>4, AnswersAssumption DEF StaleOnlyAfterLapse, ReadBranchesData
  <2> HIDE DEF now, last
  <2> QED
    BY <2>1, <2>2, <2>4, <2>5, OneCategoryRead DEF now, last
<1> QED
  BY <1>1, <1>2, <1>3 DEF ReadFrom

\* A read is one from the cursor or from an entry that is asked for.
LEMMA SomeRead ==
  ASSUME IInv, NEW c \in Category, NEW limit,
         ReadNextEntry(c, limit) \/ \E i \in Index : ReadEntry(c, i, limit)
  PROVE  \E i \in Nat : (i = entry[c] \/ i \in Index) /\ ReadFrom(c, i, limit)
  BY BoundsAssumption DEF ReadNextEntry, ReadEntry, IInv, ReaderType

\* No step leaves it.
LEMMA ReaderStaysRight ==
  ASSUME RInv, Next
  PROVE  RInv'
<1> SUFFICES ReaderOK'
  BY EveryStep DEF RInv
<1>2. ASSUME NEW c \in Category, NEW fr \in Frame, NEW asked \in Requests,
             \/ WriteUnavailable(c, fr, asked) \/ WriteFirst(c, fr, asked) \/ WriteFirstThrows(c, fr, asked)
             \/ WriteInconsistent(c, fr, asked) \/ WriteNext(c, fr, asked) \/ WriteWild(c, fr, asked)
      PROVE  ReaderOK'
  <2>1. writer = "open" /\ UNCHANGED reading
    BY Zenon, <1>2 DEF WriteUnavailable, WriteFirst, WriteFirstThrows, WriteInconsistent, WriteNext, WriteWild
  <2> QED
    BY <2>1, WriterLeavesReader
<1>3. ASSUME NEW c \in Category, NEW limit \in Limits[c],
             ReadNextEntry(c, limit) \/ \E i \in Index : ReadEntry(c, i, limit)
      PROVE  ReaderOK'
  BY <1>3, SomeRead, ReadsKeepReader DEF RInv
<1>4. CASE Finish \/ Crash
  BY <1>4, WriterLeavesReader DEF Finish, Crash
<1>5. CASE OpenFiles
  BY <1>5, OpeningFollows
<1>6. ASSUME NEW c \in Category, GetEntries(c)
      PROVE  ReaderOK'
  BY <1>6, CountingFollows
<1> QED
  BY <1>2, <1>3, <1>4, <1>5, <1>6 DEF Next

\* It holds at the start.
LEMMA ReaderStart == Init => RInv
<1> SUFFICES ASSUME Init
             PROVE  RInv
  OBVIOUS
<1>1. /\ files = 0 /\ chain = [c \in Category |-> NoChain] /\ visit = [c \in Category |-> NoVisit]
      /\ answer = "none"
  BY DEF Init
<1>2. \A c \in Category : ChainOK(chain[c], visit[c])
  BY <1>1 DEF ChainOK, Follows, NoVisit
<1> QED
  BY <1>1, <1>2, Start DEF RInv, ReaderOK, StaleOnlyAfterLapse

\* And it is left by no step, those that change nothing included.
LEMMA ReaderInductive == RInv /\ [Next]_vars => RInv'
<1>1. RInv /\ Next => RInv'
  BY ReaderStaysRight
<1>2. ASSUME RInv, UNCHANGED vars
      PROVE  RInv'
  <2>1. IInv'
    BY <1>2, EveryStep DEF RInv
  <2>2. UNCHANGED <<files, chain, visit, answer, lapse, writer>>
    BY <1>2 DEF vars
  <2>3. ReaderOK'
    BY <1>2, <2>2 DEF RInv, ReaderOK, ChainOK, Follows, FirstFile, StaleOnlyAfterLapse
  <2> QED
    BY <2>1, <2>3 DEF RInv
<1> QED
  BY <1>1, <1>2

\* Whatever files are opened when, whatever is counted in between and whichever
\* collections are read from whichever entries: branch pointers to another tree
\* are only used where the calls before have left them.
THEOREM StaleReadsAreLapses == Spec => []StaleOnlyAfterLapse
<1>1. RInv => StaleOnlyAfterLapse
  BY DEF RInv, ReaderOK
<1> QED
  BY <1>1, ReaderStart, ReaderInductive, PTL DEF Spec

-----------------------------------------------------------------------------
\* A step the log does not see.
LogSame == UNCHANGED <<LogBar, WroteBar, State, ViewBar, entry, answer>>

\* The Frames of a tree.
LEMMA FramesAre ==
  ASSUME NEW tree \in Seq(RowType)
  PROVE  /\ Frames(tree) \in Seq(Frame \cup {Torn}) /\ Len(Frames(tree)) = Len(tree)
         /\ \A i \in 1..Len(tree) : Frames(tree)[i] = FrameOf(tree[i])
<1> DEFINE e == Frames(tree)
<1>1. Len(tree) \in Nat /\ e = [i \in 1..Len(tree) |-> FrameOf(tree[i])]
  BY DEF Frames
<1>2. \A i \in 1..Len(tree) : tree[i] \in RowType /\ e[i] = FrameOf(tree[i])
  BY <1>1
<1>3. \A i \in 1..Len(tree) : e[i] \in Frame \cup {Torn}
  BY <1>2, FrameOfIs
<1>4. e = [i \in 1..Len(tree) |-> e[i]]
  BY <1>1
<1> HIDE DEF e
<1>5. e \in Seq(Frame \cup {Torn}) /\ Len(e) = Len(tree)
  BY <1>1, <1>3, <1>4, IsASequence
<1> QED
  BY <1>2, <1>5 DEF e

\* A Frame that is filled is the last one of the tree.
LEMMA OneMore ==
  ASSUME NEW tree \in Seq(RowType), NEW row \in RowType
  PROVE  Frames(Append(tree, row)) = Append(Frames(tree), FrameOf(row))
<1> DEFINE new == Append(tree, row)
<1>1. new \in Seq(RowType) /\ Len(new) = Len(tree) + 1 /\ Len(tree) \in Nat
      /\ \A i \in 1..Len(tree) + 1 : new[i] = IF i = Len(tree) + 1 THEN row ELSE tree[i]
  OBVIOUS
<1> HIDE DEF new
<1> DEFINE e == Frames(tree)
           f == Frames(new)
<1>2. /\ e \in Seq(Frame \cup {Torn}) /\ Len(e) = Len(tree) /\ \A i \in 1..Len(tree) : e[i] = FrameOf(tree[i])
      /\ f \in Seq(Frame \cup {Torn}) /\ Len(f) = Len(new) /\ \A i \in 1..Len(new) : f[i] = FrameOf(new[i])
  BY <1>1, FramesAre
<1> HIDE DEF e, f
<1>3. \A i \in 1..Len(tree) + 1 : f[i] = IF i = Len(tree) + 1 THEN FrameOf(row) ELSE e[i]
  BY <1>1, <1>2
<1>4. Append(e, FrameOf(row)) = f
  BY <1>1, <1>2, <1>3
<1> QED
  BY <1>4 DEF e, f, new

\* The Frames of the trees of a chain, one tree after the other.
LEMMA ChainedAre ==
  ASSUME IInv, NEW c \in Category
  PROVE  /\ Entries(c) \in Nat /\ Chained(c) \in Seq(Frame \cup {Torn}) /\ Len(Chained(c)) = Entries(c)
         /\ \A i \in Nat : i < Entries(c) => Chained(c)[i + 1] = FrameOf(trees[c][(i % Len(trees[c])) + 1])
<1> DEFINE l == Len(trees[c])
           n == Entries(c)
           ch == Chained(c)
<1>1. trees[c] \in Seq(RowType) /\ l \in Nat /\ files \in Nat
  BY BoundsAssumption DEF IInv, WriterType, ReaderType
<1>2. n \in Nat
  BY <1>1 DEF Entries
<1>3. ch = [i \in 1..n |-> Frames(trees[c])[((i - 1) % l) + 1]]
  BY DEF Chained
<1> HIDE DEF n, l, ch
<1>4. ASSUME NEW i \in Nat, i < n
      PROVE  ch[i + 1] = FrameOf(trees[c][(i % l) + 1]) /\ ch[i + 1] \in Frame \cup {Torn}
  <2>1. (i % l) + 1 \in 1..Len(trees[c]) /\ FrameOf(trees[c][(i % l) + 1]) \in Frame \cup {Torn}
    BY <1>4, RowRead DEF n, l
  <2>2. i + 1 \in 1..n /\ (i + 1) - 1 = i
    BY <1>2, <1>4
  <2>3. ch[i + 1] = Frames(trees[c])[(i % l) + 1]
    BY <1>3, <2>2
  <2>4. Frames(trees[c])[(i % l) + 1] = FrameOf(trees[c][(i % l) + 1])
    BY <1>1, <2>1, FramesAre
  <2> QED
    BY <2>1, <2>3, <2>4
<1>5. ASSUME NEW i \in 1..n
      PROVE  ch[i] \in Frame \cup {Torn}
  <2>1. i - 1 \in Nat /\ i - 1 < n /\ (i - 1) + 1 = i
    BY <1>2
  <2> QED
    BY <1>4, <2>1
<1>6. ch = [i \in 1..n |-> ch[i]]
  BY <1>3
<1>7. ch \in Seq(Frame \cup {Torn}) /\ Len(ch) = n
  BY <1>2, <1>5, <1>6, IsASequence
<1> QED
  BY <1>2, <1>4, <1>7 DEF ch, n, l

\* Files that were opened are never taken for unopened ones.
LEMMA Opened ==
  ASSUME IInv, files # 0
  PROVE  ViewBar = [c \in Category |-> Chained(c)] /\ ViewBar # Unopened
<1>1. ViewBar = [c \in Category |-> Chained(c)]
  BY DEF ViewBar
<1>2. ViewBar \in [Category -> Seq(Frame \cup {Torn})]
  BY <1>1, ChainedAre
<1> QED
  BY <1>1, <1>2, AnswersAssumption

\* What the writer does is not seen before the files are opened, and what the
\* reader does changes nothing that is seen.
LEMMA SameView ==
  ASSUME UNCHANGED files, files = 0 \/ trees' = trees
  PROVE  ViewBar' = ViewBar
<1>1. CASE files = 0
  BY <1>1 DEF ViewBar
<1>2. CASE trees' = trees
  <2>1. \A c \in Category : Chained(c)' = Chained(c)
    BY <1>2 DEF Chained, Entries, Frames, FrameOf
  <2> QED
    BY <2>1 DEF ViewBar
<1> QED
  BY <1>1, <1>2

\* The log only depends on the trees and on whether the writer is gone.
LEMMA SameLog ==
  ASSUME UNCHANGED <<trees, writer>>
  PROVE  LogBar' = LogBar /\ State' = State
  BY DEF LogBar, State, Frames, FrameOf

-----------------------------------------------------------------------------
\* An entry that is filled is written to the log.
LEMMA FillWrites ==
  ASSUME RInv, IInv', writer = "open", UNCHANGED <<writer, reading>>,
         NEW c \in Category, NEW info, NEW fr \in Frame, Fill(c, info, fr),
         result'.is = "written", result'.call = <<c, fr>>
  PROVE  Log!Write(c, fr)
<1> DEFINE row == [frame |-> fr, branches |-> info.branches]
<1>0. trees' = [trees EXCEPT ![c] = Append(@, row)] /\ row.frame = fr
  BY Zenon DEF Fill
<1> HIDE DEF row
<1>1. files = 0 /\ UNCHANGED <<files, entry, answer>>
  BY DEF RInv, ReaderOK, reading
<1>2. ViewBar' = ViewBar
  BY <1>1, SameView
<1>3. State = "open" /\ State' = "open"
  BY DEF State
<1>4. trees \in [Category -> Seq(RowType)]
  BY DEF RInv, IInv, WriterType
<1>11. row \in RowType /\ \E new : RowOK(new, row)
  <2>1. trees' \in [Category -> Seq(RowType)]
    BY DEF IInv, WriterType
  <2>2. trees'[c] = Append(trees[c], row) /\ trees'[c] \in Seq(RowType) /\ Len(trees[c]) \in Nat
    BY <1>0, <1>4, <2>1
  <2> DEFINE last == Len(trees[c]) + 1
  <2>3. Len(trees'[c]) = last /\ trees'[c][last] = row /\ last \in 1..Len(trees'[c])
    BY <1>4, <2>2
  <2>4. \A i \in 1..Len(trees'[c]) : RowOK(m_categories'[c], trees'[c][i])
    BY DEF IInv, WriterOK, Describes
  <2> HIDE DEF last
  <2>5. RowOK(m_categories'[c], row)
    BY <2>3, <2>4
  <2>6. row \in RowType
    BY <2>2, <2>3
  <2> QED
    BY <2>5, <2>6
<1>5. Frames(trees[c])' = Append(Frames(trees[c]), FrameOf(row))
  <2>1. trees'[c] = Append(trees[c], row)
    BY <1>0, <1>4
  <2>2. Frames(trees[c])' = Frames(trees'[c])
    BY DEF Frames, FrameOf
  <2>3. Frames(trees'[c]) = Append(Frames(trees[c]), FrameOf(row))
    BY <1>4, <1>11, <2>1, OneMore
  <2> QED
    BY <2>2, <2>3
<1>6. \A d \in Category \ {c} : trees'[d] = trees[d]
  BY <1>0, <1>4
<1>7. \A d \in Category \ {c} : Frames(trees[d])' = Frames(trees[d])
  BY <1>6 DEF Frames, FrameOf
<1>8. /\ LogBar = [d \in Category |-> Frames(trees[d])]
      /\ LogBar' = [d \in Category |-> Frames(trees[d])']
  BY DEF LogBar
<1>9. LogBar' = [LogBar EXCEPT ![c] = Append(@, FrameOf(row))]
  BY <1>5, <1>7, <1>8
<1>10. FrameOf(row) = fr \/ (fr \in TurnedSubset /\ FrameOf(row) = Torn)
  BY <1>0, <1>11, FilledIs
<1>12. Log!Extend(c, fr) \/ (fr \in TurnedSubset /\ Log!Extend(c, Torn))
  BY <1>9, <1>10 DEF Log!Extend
<1>13. WroteBar' = <<"written", c, fr>>
  BY DEF WroteBar
<1> QED
  BY <1>1, <1>2, <1>3, <1>12, <1>13 DEF Log!Write

\* Every entry that is filled, the first one of a category or another, is
\* written to the log; calls that throw leave it as it is.
LEMMA FramesAreWritten ==
  ASSUME RInv, IInv', NEW c \in Category, NEW fr \in Frame, NEW asked \in Requests,
         WriteFirst(c, fr, asked) \/ WriteNext(c, fr, asked)
  PROVE  Log!Write(c, fr)
<1>1. writer = "open" /\ UNCHANGED <<writer, reading>>
  BY Zenon DEF WriteFirst, WriteNext
<1>3. result'.is = "written" /\ result'.call = <<c, fr>>
  <2>1. \E first : Result("written", c, fr, asked, first)
    BY Zenon DEF WriteFirst, WriteNext
  <2> QED
    BY <2>1 DEF Result
<1>2. \E info : Fill(c, info, fr)
  <2>1. CASE WriteFirst(c, fr, asked)
    BY Zenon, <2>1 DEF WriteFirst
  <2>2. CASE WriteNext(c, fr, asked)
    BY Zenon, <2>2 DEF WriteNext
  <2> QED
    BY <2>1, <2>2
<1> QED
  BY <1>1, <1>2, <1>3, FillWrites

\* A writeFrame that throws leaves the log as it is.
LEMMA NothingWritten ==
  ASSUME UNCHANGED <<trees, writer, reading>>, result'.is \in {"unavailable", "no ID", "inconsistent"}, NEW c \in Category
  PROVE  Log!WriteThrows(c)
<1>1. ViewBar' = ViewBar /\ LogBar' = LogBar /\ State' = State /\ UNCHANGED <<entry, answer>>
  BY SameView, SameLog DEF reading
<1>2. WroteBar' = <<"throws">>
  BY DEF WroteBar
<1> QED
  BY <1>1, <1>2 DEF Log!WriteThrows

\* Without the metadata, which is written last, nothing is left of the file.
LEMMA LosesAll ==
  ASSUME RInv, writer = "open", writer' = "gone", UNCHANGED <<trees, reading>>, result' = result \/ result'.is = "wild"
  PROVE  Log!Lose
<1>1. State = "open" /\ State' = "lost"
  BY DEF State
<1>2. LogBar' = Log!Empty
  BY DEF LogBar, Log!Empty
<1>3. ViewBar' = ViewBar /\ UNCHANGED <<entry, answer>>
  BY SameView DEF reading
<1>4. WroteBar' \in {WroteBar, <<"lost">>}
  BY DEF WroteBar
<1> QED
  BY <1>1, <1>2, <1>3, <1>4 DEF Log!Lose

\* finish writes the metadata, and the file is closed.
LEMMA FinishCloses ==
  ASSUME Finish, writer' = "closed"
  PROVE  Log!Close
<1>1. State = "open" /\ State' = "closed" /\ UNCHANGED <<trees, files, entry, answer, result>>
  BY DEF Finish, State, reading
<1>2. LogBar' = LogBar
  <2>1. writer # "gone" /\ writer' # "gone"
    BY DEF Finish
  <2>2. \A c \in Category : Frames(trees[c])' = Frames(trees[c])
    BY <1>1 DEF Frames, FrameOf
  <2> QED
    BY <2>1, <2>2 DEF LogBar
<1>3. ViewBar' = ViewBar
  BY <1>1, SameView
<1>4. WroteBar' = WroteBar
  BY <1>1 DEF WroteBar
<1> QED
  BY <1>1, <1>2, <1>3, <1>4 DEF Log!Close

\* A chain of n files repeats the entries of one n times.
LEMMA ViewRepeats ==
  ASSUME RInv, files # 0
  PROVE  ViewBar = Log!Files(files)
<1>1. writer = "closed"
  BY DEF RInv, ReaderOK
<1>2. ASSUME NEW c \in Category
      PROVE  Chained(c) = Log!Repeated(LogBar[c], files)
  <2>1. trees[c] \in Seq(RowType) /\ LogBar[c] = Frames(trees[c])
    BY <1>1 DEF RInv, IInv, WriterType, LogBar
  <2>2. Len(LogBar[c]) = Len(trees[c])
    BY <2>1, FramesAre
  <2>3. Chained(c) = [i \in 1..files * Len(trees[c]) |-> Frames(trees[c])[((i - 1) % Len(trees[c])) + 1]]
    BY DEF Chained, Entries
  <2> QED
    BY <2>1, <2>2, <2>3 DEF Log!Repeated
<1>3. ViewBar = [c \in Category |-> Chained(c)]
  BY DEF ViewBar
<1> QED
  BY <1>2, <1>3 DEF Log!Files

\* Files that are opened are seen completely, after those that were open.
LEMMA OpeningShowsAll ==
  ASSUME RInv, OpenFiles
  PROVE  Log!OpenFile \/ Log!OpenMore
<1>1. /\ writer = "closed" /\ UNCHANGED <<entry, answer, trees, writer, result>>
      /\ files' \in 1..MaxFiles /\ files' > files /\ files \in Nat
  <2>1. files \in Nat /\ MaxFiles \in Nat
    BY BoundsAssumption DEF RInv, IInv, ReaderType
  <2>2. PICK more \in 1..MaxFiles : files + more <= MaxFiles /\ files' = files + more
    BY DEF OpenFiles
  <2> QED
    BY <2>1, <2>2 DEF OpenFiles, writing
<1>2. LogBar' = LogBar /\ State' = State /\ State = "closed" /\ WroteBar' = WroteBar
  BY <1>1, SameLog DEF State, WroteBar
<1>3. ViewBar' = Log!Files(files')
  <2>1. ASSUME NEW c \in Category
        PROVE  Chained(c)' = Log!Repeated(LogBar[c], files')
    <3>1. trees[c] \in Seq(RowType) /\ LogBar[c] = Frames(trees[c])
      BY <1>1 DEF RInv, IInv, WriterType, LogBar
    <3>2. Len(LogBar[c]) = Len(trees[c])
      BY <3>1, FramesAre
    <3>3. Chained(c)' = [i \in 1..files' * Len(trees[c]) |-> Frames(trees[c])[((i - 1) % Len(trees[c])) + 1]]
      BY <1>1 DEF Chained, Entries, Frames, FrameOf
    <3> QED
      BY <3>1, <3>2, <3>3 DEF Log!Repeated
  <2>2. ViewBar' = [c \in Category |-> Chained(c)']
    BY <1>1 DEF ViewBar
  <2> QED
    BY <2>1, <2>2 DEF Log!Files
<1>4. CASE files = 0
  <2>1. ViewBar = Unopened
    BY <1>4 DEF ViewBar
  <2> QED
    BY <1>1, <1>2, <1>3, <2>1 DEF Log!OpenFile
<1>5. CASE files # 0
  <2>1. ViewBar = Log!Files(files)
    BY <1>5, ViewRepeats
  <2>2. files \in 1..MaxFiles /\ files < files'
    BY <1>1, <1>5, BoundsAssumption
  <2> QED
    BY <1>1, <1>2, <1>3, <2>1, <2>2 DEF Log!OpenMore
<1> QED
  BY <1>4, <1>5

\* A read returns the entry the cursor was set to, and moves on, or it throws
\* or returns nothing because there is none.
LEMMA ReadsSeeTheLog ==
  ASSUME RInv, NEW c \in Category, NEW i \in Nat, NEW limit, ReadFrom(c, i, limit)
  PROVE  Log!ReadFrom(c, i)
<1>1. files # 0 /\ UNCHANGED <<files, trees, writer, result>>
  BY Zenon DEF ReadFrom, ReadNoCategory, ReadNothing, ReadBranches, writing
<1>2. UNCHANGED <<LogBar, WroteBar, State, ViewBar>>
  BY <1>1, SameLog, SameView DEF WroteBar
<1>3. /\ ViewBar # Unopened /\ ViewBar[c] = Chained(c) /\ Entries(c) \in Nat
      /\ Len(ViewBar[c]) = Entries(c)
      /\ i < Entries(c) => ViewBar[c][i + 1] = FrameOf(trees[c][(i % Len(trees[c])) + 1])
  <2>1. /\ Entries(c) \in Nat /\ Len(Chained(c)) = Entries(c)
        /\ i < Entries(c) => Chained(c)[i + 1] = FrameOf(trees[c][(i % Len(trees[c])) + 1])
    BY ChainedAre DEF RInv
  <2>2. ViewBar[c] = Chained(c) /\ ViewBar # Unopened
    BY <1>1, Opened DEF RInv
  <2> QED
    BY <2>1, <2>2
<1>4. CASE ReadNoCategory(c, i, limit)
  <2>1. answer' = "null" /\ entry' = [entry EXCEPT ![c] = i] /\ ~m_categories[c].tree
    BY <1>4 DEF ReadNoCategory
  <2>2. CategoryOK(m_categories[c]) /\ Describes(m_categories[c], trees[c])
    BY DEF RInv, IInv, WriterOK
  <2>3. trees[c] = <<>> /\ files \in Nat
    BY <2>1, <2>2, NoEntriesYet DEF CategoryOK, RInv, IInv, ReaderType
  <2>4. Entries(c) = 0
    BY <2>3 DEF Entries
  <2>5. i >= Len(ViewBar[c])
    BY <1>3, <2>4
  <2> QED
    BY <1>2, <1>3, <2>1, <2>5 DEF Log!ReadFrom
<1>5. CASE ReadNothing(c, i, limit)
  <2>1. /\ (i >= Entries(c) /\ answer' = "null") \/ (i < Entries(c) /\ answer' = "throws")
        /\ entry' = [entry EXCEPT ![c] = i]
    BY <1>5 DEF ReadNothing
  <2> QED
    BY <1>2, <1>3, <2>1 DEF Log!ReadFrom
<1>6. CASE ReadBranches(c, i, limit)
  <2>1. i < Entries(c) /\ entry' = [entry EXCEPT ![c] = i + 1]
    BY <1>6, Zenon DEF ReadBranches
  <2>2. answer' \in {FrameOf(trees[c][(i % Len(trees[c])) + 1]), "wild"}
    BY <1>6, ReadBranchesIs DEF RInv, ReadsRow, ReadBranchesData
  <2> QED
    BY <1>2, <1>3, <2>1, <2>2 DEF Log!ReadFrom
<1> QED
  BY <1>4, <1>5, <1>6 DEF ReadFrom

-----------------------------------------------------------------------------
\* A file without entries has the log of one.
LEMMA LogStart == Init => Log!Init
<1> SUFFICES ASSUME Init
             PROVE  Log!Init
  OBVIOUS
<1>1. LogBar = Log!Empty
  <2>1. Frames(<<>>) = <<>>
    BY DEF Frames
  <2>2. \A c \in Category : trees[c] = <<>>
    BY DEF Init
  <2>3. \A c \in Category : Frames(trees[c]) = <<>>
    BY <2>1, <2>2
  <2>4. writer # "gone"
    BY DEF Init
  <2> QED
    BY <2>3, <2>4 DEF LogBar, Log!Empty
<1>2. State = "open" /\ ViewBar = Unopened /\ WroteBar = <<"none">>
  BY DEF Init, State, ViewBar, WroteBar
<1> QED
  BY <1>1, <1>2 DEF Log!Init, Init

\* Every step of the file is a step of the log, or none.
LEMMA StepsAreLogged ==
  ASSUME RInv, [Next]_vars
  PROVE  Log!Next \/ LogSame
<1>1. CASE UNCHANGED vars
  BY <1>1, SameView, SameLog DEF LogSame, vars, WroteBar
<1>2. CASE Next
  <2>1. RInv' /\ IInv'
    BY <1>2, ReaderStaysRight DEF RInv
  <2>2. ASSUME NEW c \in Category, NEW fr \in Frame, NEW asked \in Requests,
               WriteFirst(c, fr, asked) \/ WriteNext(c, fr, asked)
        PROVE  Log!Next
    BY <2>1, <2>2, FramesAreWritten DEF Log!Next
  <2>3. ASSUME NEW c \in Category, NEW fr \in Frame, NEW asked \in Requests,
               \/ WriteUnavailable(c, fr, asked) \/ WriteFirstThrows(c, fr, asked)
               \/ WriteInconsistent(c, fr, asked)
        PROVE  Log!Next
    <3>1. UNCHANGED <<trees, writer, reading>>
      BY Zenon, <2>3 DEF WriteUnavailable, WriteFirstThrows, WriteInconsistent
    <3>2. \/ \E first : Result("unavailable", c, fr, asked, first)
          \/ \E first : Result("no ID", c, fr, asked, first)
          \/ \E first : Result("inconsistent", c, fr, asked, first)
      BY Zenon, <2>3 DEF WriteUnavailable, WriteFirstThrows, WriteInconsistent
    <3>3. \A is, first : Result(is, c, fr, asked, first) => result'.is = is
      BY DEF Result
    <3>4. result'.is \in {"unavailable", "no ID", "inconsistent"}
      BY <3>2, <3>3, Zenon
    <3> QED
      BY <3>1, <3>4, NothingWritten DEF Log!Next
  <2>4. ASSUME NEW c \in Category, NEW fr \in Frame, NEW asked \in Requests, WriteWild(c, fr, asked)
        PROVE  Log!Next
    <3>1. writer = "open" /\ writer' = "gone" /\ UNCHANGED <<trees, reading>> /\ Result("wild", c, fr, asked, FALSE)
      BY Zenon, <2>4 DEF WriteWild
    <3>2. result'.is = "wild"
      BY <3>1 DEF Result
    <3> QED
      BY <3>1, <3>2, LosesAll DEF Log!Next
  <2>5. ASSUME NEW c \in Category, NEW limit \in Limits[c],
               ReadNextEntry(c, limit) \/ \E i \in Index : ReadEntry(c, i, limit)
        PROVE  Log!Next
    <3>1. PICK i \in Nat : (i = entry[c] \/ i \in Index) /\ ReadFrom(c, i, limit)
      BY <2>5, SomeRead DEF RInv
    <3>2. Log!ReadFrom(c, i)
      BY <3>1, ReadsSeeTheLog
    <3> QED
      BY <3>1, <3>2 DEF Log!Next
  <2>6. CASE Finish
    BY <2>6, FinishCloses, LosesAll DEF Log!Next, Finish
  <2>7. CASE Crash
    BY <2>7, LosesAll DEF Log!Next, Crash
  <2>8. CASE OpenFiles
    BY <2>8, OpeningShowsAll DEF Log!Next
  <2>9. ASSUME NEW c \in Category, GetEntries(c)
        PROVE  LogSame
    <3>1. UNCHANGED <<files, trees, writer, result, entry, answer>>
      BY <2>9 DEF GetEntries, writing
    <3> QED
      BY <3>1, SameView, SameLog DEF LogSame, WroteBar
  <2> QED
    BY <1>2, <2>2, <2>3, <2>4, <2>5, <2>6, <2>7, <2>8, <2>9 DEF Next
<1> QED
  BY <1>1, <1>2

\* A file of TTrees implements the log of Writer and Reader, for any Frames,
\* names, limits and number of files, whatever calls fail and whether the
\* writer finishes or not.  It is the log of a format in which a Frame with a
\* collection that has become a subset collection may be written without an
\* exception and leave a torn entry, and in which reads may answer with
\* garbage; StaleReadsAreLapses says when.
THEOREM FileIsALog == Spec => LogSpec
<1>1. RInv /\ [Next]_vars => [Log!Next]_<<LogBar, WroteBar, State, ViewBar, entry, answer>>
  BY StepsAreLogged DEF LogSame
<1> QED
  BY <1>1, LogStart, ReaderStart, ReaderInductive, PTL DEF Spec, LogSpec, Log!Spec, Log!vars
=============================================================================
