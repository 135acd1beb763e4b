------------------------- MODULE SIOFrameData_proofs -------------------------
(***************************************************************************)
(* Proofs of the invariants of the registries and of an entry of an SIO    *)
(* file, for any libraries, types, datamodels, directories, entries and    *)
(* limits.  The invariants of the registries are proved of the             *)
(* specification of SIOFrameData, whose steps they take part in.           *)
(*                                                                         *)
(* That a buffer of any version can be evolved needs to know that the      *)
(* functions of a type are as many as its version and none of them empty,  *)
(* whatever user code registers before or after the library does; that the *)
(* definitions are complete needs that an index stays with the datamodel   *)
(* it was given to.  That the program only stops at an unreadable entry    *)
(* relates the two: each type that a loaded library has blocks for has the *)
(* buffers of a library it is linked with.                                 *)
(***************************************************************************)
EXTENDS SIOFrameData, WellFoundedInduction, TLAPS

\* A non-empty set of natural numbers has a least one.
LEMMA LeastNumber ==
  ASSUME NEW S \in SUBSET Nat, S # {}
  PROVE  \E m \in S : \A k \in S : m <= k
<1> DEFINE R == OpToRel(<, Nat)
<1>1. IsWellFoundedOn(R, Nat)
  BY NatLessThanWellFounded
<1>2. ASSUME NEW k \in Nat, NEW m \in Nat, k < m
      PROVE  <<k, m>> \in R
  BY <1>2 DEF OpToRel
<1> HIDE DEF R
<1>3. PICK m \in S : \A k \in S : <<k, m>> \notin R
  BY <1>1, WFMin
<1>4. \A k \in S : ~(k < m)
  BY <1>2, <1>3
<1>5. \A k \in S : m <= k
  BY <1>4
<1> QED
  BY <1>5

\* A set with 0 and the successors of its numbers has all natural numbers.
LEMMA Induction ==
  ASSUME NEW S, 0 \in S, \A n \in Nat : n \in S => n + 1 \in S
  PROVE  \A n \in Nat : n \in S
<1> SUFFICES ASSUME Nat \ S # {}
             PROVE  FALSE
  OBVIOUS
<1>1. PICK m \in Nat \ S : \A k \in Nat \ S : m <= k
  BY LeastNumber
<1>2. m # 0 /\ m - 1 \in Nat /\ m - 1 \in S
  BY <1>1
<1> QED
  BY <1>1, <1>2

\* The libraries that register types, not their blocks.
TypeLibraries == Library \ SIOLibrary

\* The initializer that registers a type, or its block.
TypeInitializer(l, t) == [library |-> l, what |-> "type", type |-> t]

\* The evolution functions.
Funcs == {NoOp} \cup {e.func : e \in Evolution}

\* The SIO libraries that are loaded are those the loader has loaded, with all
\* that they are linked with.
LibrariesOK ==
    /\ present \subseteq Library
    /\ pending \subseteq UNION {Initializers(l) : l \in present}
    /\ libs \in Seq(SIOLibrary)
    /\ m_loadedLibs = present \cap SIOLibrary
    /\ \A l \in m_loadedLibs : Needs[l] \subseteq present

\* Each type of a library is registered, or its initializer still runs.
TypesRegistered ==
    \A l \in present : \A t \in TypesOf[l] :
        \/ TypeInitializer(l, t) \in pending
        \/ t \in DOMAIN (IF l \in SIOLibrary THEN m_map ELSE m_funcMap)

\* A type has one function per version, that of its library.
CreationOK ==
    \A t \in DOMAIN m_funcMap :
        /\ \E l \in TypeLibraries : t \in TypesOf[l]
        /\ m_funcMap[t] = [v \in 1..Current[t] |-> LibraryOf(t)]

\* A type has an evolution function or an empty slot per version; none is empty
\* once the library of the type has registered it.
EvolutionOK ==
    /\ DOMAIN m_funcMap \subseteq DOMAIN m_evolutionFuncs
    /\ \A t \in DOMAIN m_evolutionFuncs :
          /\ t \in Type
          /\ \E f \in [1..Current[t] -> Funcs \cup {None}] :
                /\ m_evolutionFuncs[t] = [current |-> Current[t], funcs |-> f]
                /\ t \in DOMAIN m_funcMap => \A v \in 1..Current[t] - 1 : f[v] \in Funcs

\* A datamodel is registered with its own definition.
DefinitionsOK ==
    /\ m_definitions \in Seq([name : Package, definition : {Definition[p] : p \in Package}])
    /\ \A i \in 1..Len(m_definitions) :
          m_definitions[i] = [name |-> m_definitions[i].name,
                              definition |-> Definition[m_definitions[i].name]]

\* The index a library was given leads to its datamodel.
IndicesOK ==
    \A l \in DOMAIN indexOf :
        /\ l \in Library /\ PackageOf[l] # None
        /\ indexOf[l] \in 0..Len(m_definitions) - 1
        /\ m_definitions[indexOf[l] + 1].name = PackageOf[l]

\* A writer has the indices of the datamodels it has used.
CollectedOK ==
    /\ \A t \in usedTypes : PackageOf[LibraryOf(t)] # None => LibraryOf(t) \in DOMAIN indexOf
    /\ collected = {indexOf[LibraryOf(t)] : t \in {u \in usedTypes : PackageOf[LibraryOf(u)] # None}}
    /\ usedTypes \subseteq DOMAIN m_funcMap

\* The registries and the loader.
RegInv == LibrariesOK /\ TypesRegistered /\ CreationOK /\ EvolutionOK /\ DefinitionsOK
          /\ IndicesOK /\ CollectedOK

\* The entries that can be read.
Data == [entry : Entry, limit : Limits, unpacked : BOOLEAN, available : SUBSET Nat,
         buffers : Seq(BufferState), failed : BOOLEAN]

\* There are buffers for each collection, and limits only of what there is.
Fits(d) == d \in Data /\ Len(d.buffers) = Len(d.entry) /\ d.limit \subseteq Names(d)

\* An entry whose blocks were not created yet.
Untouched(d) ==
    /\ ~d.unpacked /\ d.available = {} /\ ~d.failed
    /\ \A i \in Indices(d) : d.buffers[i] = "none"

\* The buffers are with their blocks as long as they are available.
Owned(d) ==
    \A i \in Indices(d) :
       d.buffers[i] \in {"filled", "partial"} <=> i \in d.available /\ d.buffers[i] # "none"

\* What was handed out is what is no longer available.
Tracked(d, names, how) ==
    /\ d.unpacked /\ d.available \subseteq 0..Len(d.entry)
    /\ Owned(d)
    /\ \A i \in Indices(d) : d.entry[i].name \in Wanted(d) \ names => i \in d.available
    /\ ~d.failed /\ how # "wild" =>
          \A i \in Indices(d) \cap d.available :
             d.buffers[i] = "filled" /\ d.entry[i].name \in Wanted(d) \ names
    /\ ~d.failed => names \subseteq Wanted(d)

\* An entry was not looked at yet, or is accounted for.
DataOK ==
    data # NoData =>
        /\ Loaded /\ Fits(data)
        /\ \/ Tracked(data, given, answer.is)
           \/ Untouched(data) /\ given = {} /\ answer.is = "none"

\* A type without a block, or a version that no loaded library knows.
Unreadable(d) ==
    \E i \in Indices(d) :
       \/ d.entry[i].type \notin UNION {TypesOf[l] : l \in m_loadedLibs}
       \/ d.entry[i].version > Current[d.entry[i].type]

\* The program has only stopped for a reason.
AnswerOK ==
    /\ ~misused
    /\ answer.is \in {"wild", "terminated"} => data # NoData
    /\ answer.is = "wild" => Unreadable(data)
    /\ answer.is = "terminated" => data.failed

\* The entry, and what was answered of it.
FrameInv == DataOK /\ AnswerOK /\ AnswersComplete

\* The inductive invariant.
IInv == RegInv /\ FrameInv

-----------------------------------------------------------------------------
\* g is f with x mapped to v.
IsWith(g, f, x, v) ==
    /\ DOMAIN g = DOMAIN f \cup {x}
    /\ g[x] = v
    /\ \A y \in DOMAIN f : y # x => g[y] = f[y]

\* With adds one mapping and leaves the others.
LEMMA WithIs ==
  ASSUME NEW f, NEW x, NEW v
  PROVE  IsWith(With(f, x, v), f, x, v)
  BY DEF With, IsWith

\* The library of a type is the only one that registers it.
LEMMA LibraryOfIs ==
  ASSUME NEW l \in TypeLibraries, NEW t \in TypesOf[l]
  PROVE  LibraryOf(t) = l
<1>1. \A k \in TypeLibraries : t \in TypesOf[k] => k = l
  BY LibrariesAssumption DEF TypeLibraries
<1> QED
  BY <1>1 DEF LibraryOf, TypeLibraries

\* What a library registers are types with a version.
LEMMA TypesAreTypes ==
  ASSUME NEW l \in Library, NEW t \in TypesOf[l]
  PROVE  t \in Type /\ Current[t] \in Nat \ {0}
<1>1. t \in Type
  BY LibrariesAssumption
<1> QED
  BY <1>1, VersionsAssumption

\* An initializer registers a type of its library, or its datamodel.
LEMMA PendingIs ==
  ASSUME LibrariesOK, NEW i \in pending
  PROVE  /\ i.library \in present /\ i.library \in Library
         /\ i.what = "type" => /\ i.type \in TypesOf[i.library]
                               /\ i = TypeInitializer(i.library, i.type)
         /\ i.what # "type" => \A l, t : i # TypeInitializer(l, t)
<1>1. PICK l \in present : i \in Initializers(l)
  BY DEF LibrariesOK
<1>2. CASE \E t \in TypesOf[l] : i = TypeInitializer(l, t)
  <2>1. PICK t \in TypesOf[l] : i = TypeInitializer(l, t)
    BY <1>2
  <2>2. i.library = l /\ i.what = "type" /\ i.type = t
    BY <2>1 DEF TypeInitializer
  <2> QED
    BY <1>1, <2>1, <2>2 DEF LibrariesOK
<1>3. CASE i = [library |-> l, what |-> "datamodel", type |-> None]
  <2>1. i.library = l /\ i.what = "datamodel"
    BY <1>3
  <2>2. \A k, t : TypeInitializer(k, t).what = "type"
    BY DEF TypeInitializer
  <2> QED
    BY <1>1, <2>1, <2>2 DEF LibrariesOK
<1> QED
  BY <1>1, <1>2, <1>3 DEF Initializers, TypeInitializer

\* Registered for the first time or again, all versions have the function.
LEMMA CreationFuncsIs ==
  ASSUME NEW n \in Nat \ {0}, NEW f
  PROVE  /\ CreationFuncs(<<>>, n, f) = [v \in 1..n |-> f]
         /\ CreationFuncs([v \in 1..n |-> f], n, f) = [v \in 1..n |-> f]
<1>1. Len(<<>>) = 0 /\ Len([v \in 1..n |-> f]) = n
  OBVIOUS
<1>2. CreationFuncs(<<>>, n, f) = [v \in 1..n |-> f]
  BY <1>1 DEF CreationFuncs
<1>3. [[v \in 1..n |-> f] EXCEPT ![n] = f] = [v \in 1..n |-> f]
  OBVIOUS
<1> QED
  BY <1>1, <1>2, <1>3 DEF CreationFuncs

\* new are the evolution functions, with func for these versions of the type.
Evolves(new, t, versions, func) ==
    \E f \in [1..Current[t] -> Funcs \cup {None}] :
       /\ new = With(m_evolutionFuncs, t, [current |-> Current[t], funcs |-> f])
       /\ \A v \in versions : f[v] = func
       /\ t \in DOMAIN m_evolutionFuncs =>
             \A v \in 1..Current[t] : v \notin versions => f[v] = m_evolutionFuncs[t].funcs[v]

\* Registration neither loses a slot nor moves the current version.
LEMMA RegisteredEvolutionIs ==
  ASSUME EvolutionOK, NEW t \in Type, NEW versions \in SUBSET (1..Current[t]), NEW func \in Funcs
  PROVE  Evolves(RegisteredEvolution(t, versions, Current[t], func), t, versions, func)
<1> DEFINE n == Current[t]
           old == IF t \in DOMAIN m_evolutionFuncs THEN m_evolutionFuncs[t]
                  ELSE [current |-> n, funcs |-> <<>>]
           g == old.funcs
           size == IF Len(g) < n THEN n ELSE Len(g)
           f == [i \in 1..n |-> IF i \in versions THEN func
                                ELSE IF i <= Len(g) THEN g[i] ELSE None]
<1>1. n \in Nat \ {0}
  BY VersionsAssumption
<1>0. RegisteredEvolution(t, versions, n, func)
         = With(m_evolutionFuncs, t,
                [old EXCEPT !.funcs = [i \in 1..size |-> IF i \in versions THEN func
                                                        ELSE IF i <= Len(g) THEN g[i] ELSE None]])
  BY Zenon DEF RegisteredEvolution
<1>2. CASE t \in DOMAIN m_evolutionFuncs
  <2>1. PICK h \in [1..n -> Funcs \cup {None}] :
             m_evolutionFuncs[t] = [current |-> n, funcs |-> h]
    BY <1>2 DEF EvolutionOK
  <2>2. old = [current |-> n, funcs |-> h]
    BY <1>2, <2>1
  <2>3. g = h
    BY <2>2
  <2>4. Len(h) = n
    BY <1>1
  <2>5. \A i \in 1..n : g[i] \in Funcs \cup {None}
    BY <2>3
  <2>6. Len(g) = n /\ old = [current |-> n, funcs |-> g]
    BY <2>2, <2>3, <2>4
  <2>7. g = m_evolutionFuncs[t].funcs
    BY <1>2
  <2> HIDE DEF old, g
  <2>8. f \in [1..n -> Funcs \cup {None}]
    BY <2>5
  <2>9. RegisteredEvolution(t, versions, n, func) = With(m_evolutionFuncs, t, [old EXCEPT !.funcs = f])
    <3>1. size = n
      BY <1>1, <2>6
    <3> HIDE DEF size
    <3> QED
      BY <1>0, <3>1, Zenon
  <2>10. [old EXCEPT !.funcs = f] = [current |-> n, funcs |-> f]
    <3> HIDE DEF f, n
    <3> QED
      BY <2>6
  <2>11. \A v \in versions : f[v] = func
    OBVIOUS
  <2>12. \A v \in 1..n : v \notin versions => f[v] = g[v]
    BY <1>1, <2>6
  <2> HIDE DEF f, n
  <2> QED
    BY <2>7, <2>8, <2>9, <2>10, <2>11, <2>12 DEF n, Evolves
<1>3. CASE t \notin DOMAIN m_evolutionFuncs
  <2>1. old = [current |-> n, funcs |-> <<>>]
    BY <1>3
  <2>2. g = <<>>
    BY <2>1
  <2>3. Len(g) = 0 /\ old = [current |-> n, funcs |-> g]
    BY <2>1, <2>2
  <2> HIDE DEF old, g
  <2>4. f \in [1..n -> Funcs \cup {None}]
    BY <2>3
  <2>5. RegisteredEvolution(t, versions, n, func) = With(m_evolutionFuncs, t, [old EXCEPT !.funcs = f])
    <3>1. size = n
      BY <1>1, <2>3
    <3> HIDE DEF size
    <3> QED
      BY <1>0, <3>1, Zenon
  <2>6. [old EXCEPT !.funcs = f] = [current |-> n, funcs |-> f]
    <3> HIDE DEF f, n
    <3> QED
      BY <2>3
  <2>7. \A v \in versions : f[v] = func
    OBVIOUS
  <2> HIDE DEF f, n
  <2> QED
    BY <1>3, <2>4, <2>5, <2>6, <2>7 DEF n, Evolves
<1> QED
  BY <1>2, <1>3

\* Nothing is registered in the beginning.
LEMMA RegistriesStart ==
  ASSUME RegistriesInit
  PROVE  RegInv
<1>1. LibrariesOK
  <2>1. present \subseteq Library /\ present \cap SIOLibrary = {} /\ m_loadedLibs = {} /\ libs = <<>>
        /\ pending = UNION {Initializers(l) : l \in present}
    BY DEF RegistriesInit
  <2>2. <<>> \in Seq(SIOLibrary)
    OBVIOUS
  <2> QED
    BY <2>1, <2>2 DEF LibrariesOK
<1>2. TypesRegistered
  <2>1. \A l \in present : \A t \in TypesOf[l] : TypeInitializer(l, t) \in Initializers(l)
    BY DEF TypeInitializer, Initializers
  <2>2. pending = UNION {Initializers(l) : l \in present}
    BY DEF RegistriesInit
  <2> QED
    BY <2>1, <2>2 DEF TypesRegistered
<1>3. DOMAIN m_funcMap = {} /\ DOMAIN m_evolutionFuncs = {} /\ DOMAIN indexOf = {}
  BY DEF RegistriesInit
<1>4. m_definitions = <<>> /\ collected = {} /\ usedTypes = {}
  BY DEF RegistriesInit
<1>5. <<>> \in Seq([name : Package, definition : {Definition[p] : p \in Package}])
  OBVIOUS
<1>6. DefinitionsOK
  BY <1>4, <1>5 DEF DefinitionsOK
<1> QED
  BY <1>1, <1>2, <1>3, <1>4, <1>6 DEF RegInv, CreationOK, EvolutionOK, IndicesOK, CollectedOK

\* A library has run one of its initializers.
LEMMA InitializedKeeps ==
  ASSUME LibrariesOK, NEW i \in pending, Initialized(i)
  PROVE  LibrariesOK' /\ pending' = pending \ {i} /\ UNCHANGED <<present, m_loadedLibs, writing>>
  BY DEF Initialized, LibrariesOK

\* What a writer has collected outlives other registrations.
LEMMA CollectedStays ==
  ASSUME CollectedOK, UNCHANGED <<collected, usedTypes>>,
         DOMAIN m_funcMap \subseteq DOMAIN m_funcMap',
         \A l \in DOMAIN indexOf : l \in DOMAIN indexOf' /\ indexOf'[l] = indexOf[l]
  PROVE  CollectedOK'
<1> DEFINE Used == {u \in usedTypes : PackageOf[LibraryOf(u)] # None}
<1>1. \A t \in Used : LibraryOf(t) \in DOMAIN indexOf'
                      /\ indexOf'[LibraryOf(t)] = indexOf[LibraryOf(t)]
  BY DEF CollectedOK
<1>2. collected = {indexOf'[LibraryOf(t)] : t \in Used}
  BY <1>1 DEF CollectedOK
<1> QED
  BY <1>1, <1>2 DEF CollectedOK

\* The registration of a type: its creation function, its evolution functions.
LEMMA RegisterTypeKeeps ==
  ASSUME RegInv, NEW i \in pending,
         RegisterCollection(i) \/ RegisterUserData(i) \/ RegisterLinks(i)
  PROVE  RegInv'
<1> DEFINE l == i.library
           t == i.type
           n == Current[t]
<1>0. n \in Nat
  <2>1. i.what = "type" /\ l \notin SIOLibrary
    BY DEF RegisterCollection, RegisterUserData, RegisterLinks, Registered
  <2> QED
    BY <2>1, PendingIs, TypesAreTypes DEF RegInv
<1>1. PICK versions \in SUBSET (1..n) : 1..n-1 \subseteq versions /\ Registered(i, versions)
  <2>1. CASE RegisterCollection(i)
    <3>1. Registered(i, 1..n)
      BY <2>1 DEF RegisterCollection
    <3>2. 1..n \in SUBSET (1..n) /\ 1..n-1 \subseteq 1..n
      BY <1>0
    <3> HIDE DEF n
    <3> QED
      BY <3>1, <3>2
  <2>2. CASE RegisterUserData(i) \/ RegisterLinks(i)
    <3>1. t \in UserData \cup Links /\ Registered(i, {n})
      BY <2>2 DEF RegisterUserData, RegisterLinks
    <3>2. n = 1
      BY <3>1, VersionsAssumption
    <3>3. {n} \in SUBSET (1..n) /\ 1..n-1 \subseteq {n}
      BY <3>2
    <3> QED
      BY <3>1, <3>3
  <2> QED
    BY <2>1, <2>2
<1>2. /\ i.what = "type" /\ l \notin SIOLibrary /\ Initialized(i)
      /\ m_funcMap' = RegisteredCreation(t, n, l)
      /\ m_evolutionFuncs' = RegisteredEvolution(t, versions, n, NoOp)
      /\ UNCHANGED <<m_definitions, indexOf, m_map>>
  BY <1>1 DEF Registered
<1>3. LibrariesOK' /\ pending' = pending \ {i} /\ UNCHANGED <<present, m_loadedLibs, writing>>
  BY <1>2, InitializedKeeps DEF RegInv
<1>4. l \in TypeLibraries /\ t \in TypesOf[l] /\ i = TypeInitializer(l, t)
  BY <1>2, PendingIs DEF RegInv, TypeLibraries
<1>5. t \in Type /\ n \in Nat \ {0} /\ LibraryOf(t) = l
  BY <1>4, TypesAreTypes, LibraryOfIs DEF TypeLibraries
<1>6. /\ DOMAIN m_funcMap' = DOMAIN m_funcMap \cup {t}
      /\ m_funcMap'[t] = [v \in 1..n |-> l]
      /\ \A s \in DOMAIN m_funcMap : s # t => m_funcMap'[s] = m_funcMap[s]
  <2> DEFINE old == IF t \in DOMAIN m_funcMap THEN m_funcMap[t] ELSE <<>>
  <2>1. old = <<>> \/ old = [v \in 1..n |-> l]
    BY <1>5 DEF RegInv, CreationOK
  <2>2. m_funcMap' = With(m_funcMap, t, CreationFuncs(old, n, l))
    BY <1>2 DEF RegisteredCreation
  <2> HIDE DEF old, n, t, l
  <2>3. CreationFuncs(old, n, l) = [v \in 1..n |-> l]
    <3>1. n \in Nat \ {0}
      BY <1>5
    <3>2. CASE old = <<>>
      BY <3>1, <3>2, CreationFuncsIs, Zenon
    <3>3. CASE old = [v \in 1..n |-> l]
      BY <3>1, <3>3, CreationFuncsIs, Zenon
    <3> QED
      BY <2>1, <3>2, <3>3
  <2>4. IsWith(m_funcMap', m_funcMap, t, [v \in 1..n |-> l])
    BY <2>2, <2>3, WithIs, Zenon
  <2> QED
    BY <2>4 DEF IsWith
<1>7. TypesRegistered'
  <2> SUFFICES ASSUME NEW k \in present, NEW s \in TypesOf[k]
               PROVE  \/ TypeInitializer(k, s) \in pending'
                      \/ s \in DOMAIN (IF k \in SIOLibrary THEN m_map ELSE m_funcMap')
    BY <1>2, <1>3 DEF TypesRegistered
  <2>1. \/ TypeInitializer(k, s) \in pending
        \/ s \in DOMAIN (IF k \in SIOLibrary THEN m_map ELSE m_funcMap)
    BY DEF RegInv, TypesRegistered
  <2>2. CASE TypeInitializer(k, s) = i
    <3>1. k = l /\ s = t
      BY <2>2 DEF TypeInitializer
    <3> QED
      BY <1>2, <1>6, <3>1
  <2>3. CASE TypeInitializer(k, s) # i
    BY <1>3, <1>6, <2>1, <2>3
  <2> QED
    BY <2>2, <2>3
<1>8. CreationOK'
  <2> SUFFICES ASSUME NEW s \in DOMAIN m_funcMap'
               PROVE  /\ \E k \in TypeLibraries : s \in TypesOf[k]
                      /\ m_funcMap'[s] = [v \in 1..Current[s] |-> LibraryOf(s)]
    BY DEF CreationOK
  <2>1. CASE s = t
    BY <1>4, <1>5, <1>6, <2>1
  <2>2. CASE s # t
    BY <1>6, <2>2 DEF RegInv, CreationOK
  <2> QED
    BY <2>1, <2>2
<1>9. EvolutionOK'
  <2>1. PICK f \in [1..n -> Funcs \cup {None}] :
             /\ m_evolutionFuncs' = With(m_evolutionFuncs, t, [current |-> n, funcs |-> f])
             /\ \A v \in versions : f[v] = NoOp
    <3>1. NoOp \in Funcs /\ EvolutionOK
      BY DEF Funcs, RegInv
    <3>2. Evolves(m_evolutionFuncs', t, versions, NoOp)
      BY <1>1, <1>2, <1>5, <3>1, RegisteredEvolutionIs, Zenon
    <3> QED
      BY <3>2 DEF Evolves
  <2>2. /\ DOMAIN m_evolutionFuncs' = DOMAIN m_evolutionFuncs \cup {t}
        /\ m_evolutionFuncs'[t] = [current |-> n, funcs |-> f]
        /\ \A s \in DOMAIN m_evolutionFuncs : s # t => m_evolutionFuncs'[s] = m_evolutionFuncs[s]
    <3>1. IsWith(m_evolutionFuncs', m_evolutionFuncs, t, [current |-> n, funcs |-> f])
      BY <2>1, WithIs, Zenon
    <3> QED
      BY <3>1 DEF IsWith
  <2>3. \A v \in 1..n-1 : f[v] \in Funcs
    BY <1>1, <2>1 DEF Funcs
  <2>4. ASSUME NEW s \in DOMAIN m_evolutionFuncs'
        PROVE  /\ s \in Type
               /\ \E h \in [1..Current[s] -> Funcs \cup {None}] :
                     /\ m_evolutionFuncs'[s] = [current |-> Current[s], funcs |-> h]
                     /\ s \in DOMAIN m_funcMap' => \A v \in 1..Current[s] - 1 : h[v] \in Funcs
    <3>1. CASE s = t
      <4>1. m_evolutionFuncs'[s] = [current |-> Current[s], funcs |-> f]
        BY <2>2, <3>1, Zenon
      <4> QED
        BY <1>5, <2>1, <2>3, <3>1, <4>1
    <3>2. CASE s # t
      <4>1. s \in DOMAIN m_evolutionFuncs /\ m_evolutionFuncs'[s] = m_evolutionFuncs[s]
        BY <1>6, <2>2, <3>2
      <4>2. s \in DOMAIN m_funcMap' => s \in DOMAIN m_funcMap
        BY <1>6, <2>2, <3>2
      <4>3. s \in Type /\ \E h \in [1..Current[s] -> Funcs \cup {None}] :
               /\ m_evolutionFuncs[s] = [current |-> Current[s], funcs |-> h]
               /\ s \in DOMAIN m_funcMap => \A v \in 1..Current[s] - 1 : h[v] \in Funcs
        BY <4>1 DEF RegInv, EvolutionOK
      <4> QED
        BY <4>1, <4>2, <4>3, Zenon
    <3> QED
      BY <3>1, <3>2
  <2>5. DOMAIN m_funcMap' \subseteq DOMAIN m_evolutionFuncs'
    BY <1>6, <2>2 DEF RegInv, EvolutionOK
  <2> QED
    BY <2>4, <2>5 DEF EvolutionOK
<1>10. DefinitionsOK' /\ IndicesOK'
  BY <1>2 DEF RegInv, DefinitionsOK, IndicesOK
<1>11. CollectedOK'
  BY <1>2, <1>3, <1>6, CollectedStays DEF RegInv, writing
<1> QED
  BY <1>3, <1>7, <1>8, <1>9, <1>10, <1>11 DEF RegInv

\* The registration of a block.
LEMMA RegisterBlockKeeps ==
  ASSUME RegInv, NEW i \in pending, RegisterBlock(i)
  PROVE  RegInv'
<1> DEFINE l == i.library
           t == i.type
<1>1. /\ i.what = "type" /\ l \in SIOLibrary /\ Initialized(i)
      /\ m_map' = With(m_map, t, l)
      /\ UNCHANGED <<m_funcMap, m_evolutionFuncs, m_definitions, indexOf>>
  BY DEF RegisterBlock
<1>2. LibrariesOK' /\ pending' = pending \ {i} /\ UNCHANGED <<present, m_loadedLibs, writing>>
  BY <1>1, InitializedKeeps DEF RegInv
<1>3. DOMAIN m_map' = DOMAIN m_map \cup {t}
  <2>1. IsWith(m_map', m_map, t, l)
    BY <1>1, WithIs, Zenon
  <2> QED
    BY <2>1 DEF IsWith
<1>4. TypesRegistered'
  <2> SUFFICES ASSUME NEW k \in present, NEW s \in TypesOf[k]
               PROVE  \/ TypeInitializer(k, s) \in pending'
                      \/ s \in DOMAIN (IF k \in SIOLibrary THEN m_map' ELSE m_funcMap)
    BY <1>1, <1>2 DEF TypesRegistered
  <2>1. \/ TypeInitializer(k, s) \in pending
        \/ s \in DOMAIN (IF k \in SIOLibrary THEN m_map ELSE m_funcMap)
    BY DEF RegInv, TypesRegistered
  <2>2. CASE TypeInitializer(k, s) = i
    <3>1. k = l /\ s = t
      BY <2>2 DEF TypeInitializer
    <3> QED
      BY <1>1, <1>3, <3>1
  <2>3. CASE TypeInitializer(k, s) # i
    BY <1>2, <1>3, <2>1, <2>3
  <2> QED
    BY <2>2, <2>3
<1>5. CreationOK' /\ EvolutionOK' /\ DefinitionsOK' /\ IndicesOK'
  BY <1>1 DEF RegInv, CreationOK, EvolutionOK, DefinitionsOK, IndicesOK
<1>6. CollectedOK'
  BY <1>1, <1>2, CollectedStays DEF RegInv, writing
<1> QED
  BY <1>2, <1>4, <1>5, <1>6 DEF RegInv

\* The registration of an evolution function by user code.
LEMMA RegisterEvolutionKeeps ==
  ASSUME RegInv, NEW e \in Evolution, RegisterEvolution(e)
  PROVE  RegInv'
<1> DEFINE t == e.type
           n == Current[t]
<1>1. /\ m_evolutionFuncs' = RegisteredEvolution(t, {e.from}, n, e.func)
      /\ UNCHANGED <<m_funcMap, m_definitions, indexOf, m_map>>
      /\ UNCHANGED <<present, pending, libs, m_loadedLibs, program, collected, usedTypes>>
  BY DEF RegisterEvolution, loading, writing
<1>2. t \in Type /\ e.from \in 1..n-1 /\ n \in Nat \ {0} /\ e.func \in Funcs
  BY VersionsAssumption DEF Funcs
<1>3. PICK f \in [1..n -> Funcs \cup {None}] :
           /\ m_evolutionFuncs' = With(m_evolutionFuncs, t, [current |-> n, funcs |-> f])
           /\ \A v \in {e.from} : f[v] = e.func
           /\ t \in DOMAIN m_evolutionFuncs =>
                 \A v \in 1..n : v \notin {e.from} => f[v] = m_evolutionFuncs[t].funcs[v]
  <2>1. {e.from} \in SUBSET (1..n)
    BY <1>2
  <2>2. EvolutionOK
    BY DEF RegInv
  <2>3. Evolves(m_evolutionFuncs', t, {e.from}, e.func)
    BY <1>1, <1>2, <2>1, <2>2, RegisteredEvolutionIs, Zenon
  <2> QED
    BY <2>3 DEF Evolves
<1>4. /\ DOMAIN m_evolutionFuncs' = DOMAIN m_evolutionFuncs \cup {t}
      /\ m_evolutionFuncs'[t] = [current |-> n, funcs |-> f]
      /\ \A s \in DOMAIN m_evolutionFuncs : s # t => m_evolutionFuncs'[s] = m_evolutionFuncs[s]
  <2>1. IsWith(m_evolutionFuncs', m_evolutionFuncs, t, [current |-> n, funcs |-> f])
    BY <1>3, WithIs, Zenon
  <2> QED
    BY <2>1 DEF IsWith
<1>5. t \in DOMAIN m_funcMap => \A v \in 1..n-1 : f[v] \in Funcs
  <2> SUFFICES ASSUME t \in DOMAIN m_funcMap, NEW v \in 1..n-1, v # e.from
               PROVE  f[v] \in Funcs
    BY <1>2, <1>3
  <2>1. t \in DOMAIN m_evolutionFuncs
    BY DEF RegInv, EvolutionOK
  <2>2. PICK h \in [1..n -> Funcs \cup {None}] :
             /\ m_evolutionFuncs[t] = [current |-> n, funcs |-> h]
             /\ \A w \in 1..n-1 : h[w] \in Funcs
    BY <2>1 DEF RegInv, EvolutionOK
  <2>3. m_evolutionFuncs[t].funcs = h
    BY <2>2
  <2>4. f[v] = h[v]
    BY <1>2, <1>3, <2>1, <2>3
  <2> QED
    BY <2>2, <2>4
<1>6. EvolutionOK'
  <2>1. ASSUME NEW s \in DOMAIN m_evolutionFuncs'
        PROVE  /\ s \in Type
               /\ \E h \in [1..Current[s] -> Funcs \cup {None}] :
                     /\ m_evolutionFuncs'[s] = [current |-> Current[s], funcs |-> h]
                     /\ s \in DOMAIN m_funcMap' => \A v \in 1..Current[s] - 1 : h[v] \in Funcs
    <3>1. CASE s = t
      <4>1. m_evolutionFuncs'[s] = [current |-> Current[s], funcs |-> f]
        BY <1>4, <3>1, Zenon
      <4> QED
        BY <1>1, <1>2, <1>3, <1>5, <3>1, <4>1
    <3>2. CASE s # t
      <4>1. s \in DOMAIN m_evolutionFuncs /\ m_evolutionFuncs'[s] = m_evolutionFuncs[s]
        BY <1>1, <1>4, <3>2
      <4>2. s \in DOMAIN m_funcMap' => s \in DOMAIN m_funcMap
        BY <1>1, <1>4, <3>2
      <4>3. s \in Type /\ \E h \in [1..Current[s] -> Funcs \cup {None}] :
               /\ m_evolutionFuncs[s] = [current |-> Current[s], funcs |-> h]
               /\ s \in DOMAIN m_funcMap => \A v \in 1..Current[s] - 1 : h[v] \in Funcs
        BY <4>1 DEF RegInv, EvolutionOK
      <4> QED
        BY <4>1, <4>2, <4>3, Zenon
    <3> QED
      BY <3>1, <3>2
  <2>2. DOMAIN m_funcMap' \subseteq DOMAIN m_evolutionFuncs'
    BY <1>1, <1>4 DEF RegInv, EvolutionOK
  <2> QED
    BY <2>1, <2>2 DEF EvolutionOK
<1>7. LibrariesOK' /\ TypesRegistered' /\ CreationOK' /\ DefinitionsOK' /\ IndicesOK'
  BY <1>1 DEF RegInv, LibrariesOK, TypesRegistered, CreationOK, DefinitionsOK, IndicesOK
<1>8. CollectedOK'
  BY <1>1, CollectedStays DEF RegInv
<1> QED
  BY <1>6, <1>7, <1>8 DEF RegInv

\* The index of a name is that of a definition with the name, or the next one.
LEMMA IndexForIs ==
  ASSUME DefinitionsOK, NEW name
  PROVE  \/ /\ IndexFor(name) \in 0..Len(m_definitions) - 1
            /\ m_definitions[IndexFor(name) + 1].name = name
         \/ IndexFor(name) = Len(m_definitions)
<1> DEFINE P(i) == i \in 1..Len(m_definitions) /\ m_definitions[i].name = name
           c == CHOOSE i \in 1..Len(m_definitions) : m_definitions[i].name = name
<1>1. CASE \E i \in 1..Len(m_definitions) : m_definitions[i].name = name
  <2>1. P(c)
    BY <1>1, Zenon
  <2>2. IndexFor(name) = c - 1
    BY <1>1, Zenon DEF IndexFor
  <2> HIDE DEF c
  <2>3. Len(m_definitions) \in Nat
    BY DEF DefinitionsOK
  <2>4. c \in 1..Len(m_definitions) /\ c \in Nat /\ (c - 1) + 1 = c
    BY <2>1, <2>3
  <2>5. c - 1 \in 0..Len(m_definitions) - 1
    BY <2>3, <2>4
  <2> QED
    BY <2>1, <2>2, <2>4, <2>5
<1>2. CASE ~\E i \in 1..Len(m_definitions) : m_definitions[i].name = name
  BY <1>2, Zenon DEF IndexFor
<1> QED
  BY <1>1, <1>2

\* registerDatamodel keeps the indices that were given.
LEMMA IndexedKeeps ==
  ASSUME DefinitionsOK, IndicesOK, NEW l \in Library, IndexedDatamodel(l)
  PROVE  /\ DefinitionsOK' /\ IndicesOK'
         /\ \A k \in DOMAIN indexOf : k \in DOMAIN indexOf' /\ indexOf'[k] = indexOf[k]
         /\ PackageOf[l] # None => l \in DOMAIN indexOf'
<1> DEFINE name == PackageOf[l]
           index == IndexFor(name)
           n == Len(m_definitions)
           new == [name |-> name, definition |-> Definition[name]]
<1>1. CASE l \in DOMAIN indexOf \/ name = None
  <2>1. UNCHANGED <<m_definitions, indexOf>>
    BY <1>1 DEF IndexedDatamodel
  <2> QED
    BY <1>1, <2>1 DEF DefinitionsOK, IndicesOK
<1>2. CASE ~(l \in DOMAIN indexOf \/ name = None)
  <2>1. /\ m_definitions' = IF index < n THEN m_definitions ELSE Append(m_definitions, new)
        /\ indexOf' = With(indexOf, l, index)
    BY <1>2, Zenon DEF IndexedDatamodel
  <2>2. \/ index \in 0..n-1 /\ m_definitions[index + 1].name = name
        \/ index = n
    BY IndexForIs
  <2>3. name \in Package
    BY <1>2, LibrariesAssumption
  <2>4. new \in [name : Package, definition : {Definition[p] : p \in Package}] /\ new.name = name
        /\ new = [name |-> new.name, definition |-> Definition[new.name]]
    BY <2>3
  <2>5. n \in Nat
    BY DEF DefinitionsOK
  <2> HIDE DEF index, new, name
  <2>6. \/ m_definitions' = m_definitions /\ index \in 0..n-1 /\ m_definitions[index + 1].name = name
        \/ m_definitions' = Append(m_definitions, new) /\ index = n
    <3>1. CASE index \in 0..n-1 /\ m_definitions[index + 1].name = name
      <4>1. index < n
        BY <2>5, <3>1
      <4> QED
        BY <2>1, <3>1, <4>1
    <3>2. CASE index = n
      <4>1. ~(index < n)
        BY <2>5, <3>2
      <4> QED
        BY <2>1, <3>2, <4>1
    <3> QED
      BY <2>2, <3>1, <3>2
  <2>7. /\ DefinitionsOK' /\ n <= Len(m_definitions')
        /\ \A i \in 1..n : m_definitions'[i] = m_definitions[i]
        /\ index \in 0..Len(m_definitions') - 1 /\ m_definitions'[index + 1].name = name
    <3>1. CASE m_definitions' = m_definitions /\ index \in 0..n-1 /\ m_definitions[index + 1].name = name
      BY <2>5, <3>1 DEF DefinitionsOK
    <3>2. CASE m_definitions' = Append(m_definitions, new) /\ index = n
      <4>0. m_definitions \in Seq([name : Package, definition : {Definition[p] : p \in Package}])
        BY DEF DefinitionsOK
      <4>1. /\ m_definitions' \in Seq([name : Package, definition : {Definition[p] : p \in Package}])
            /\ Len(m_definitions') = n + 1 /\ m_definitions'[n+1] = new
            /\ \A i \in 1..n : m_definitions'[i] = m_definitions[i]
        BY <2>4, <3>2, <4>0
      <4>2. ASSUME NEW i \in 1..Len(m_definitions')
            PROVE  m_definitions'[i] = [name |-> m_definitions'[i].name,
                                        definition |-> Definition[m_definitions'[i].name]]
        <5>1. CASE i \in 1..n
          BY <4>1, <5>1 DEF DefinitionsOK
        <5>2. CASE i = n + 1
          BY <2>4, <4>1, <5>2, Zenon
        <5> QED
          BY <2>5, <4>1, <5>1, <5>2
      <4>3. DefinitionsOK'
        BY <4>1, <4>2 DEF DefinitionsOK
      <4>4. n <= Len(m_definitions') /\ index \in 0..Len(m_definitions') - 1
        BY <2>5, <3>2, <4>1
      <4> QED
        BY <2>4, <3>2, <4>1, <4>3, <4>4
    <3> QED
      BY <2>6, <3>1, <3>2
  <2>8. /\ DOMAIN indexOf' = DOMAIN indexOf \cup {l} /\ indexOf'[l] = index
        /\ \A k \in DOMAIN indexOf : k # l => indexOf'[k] = indexOf[k]
    <3>1. IsWith(indexOf', indexOf, l, index)
      BY <2>1, WithIs, Zenon
    <3> QED
      BY <3>1 DEF IsWith
  <2>9. ASSUME NEW k \in DOMAIN indexOf'
        PROVE  /\ k \in Library /\ PackageOf[k] # None
               /\ indexOf'[k] \in 0..Len(m_definitions') - 1
               /\ m_definitions'[indexOf'[k] + 1].name = PackageOf[k]
    <3>1. CASE k = l
      BY <1>2, <2>7, <2>8, <3>1 DEF name
    <3>2. CASE k # l
      <4>1. k \in DOMAIN indexOf /\ indexOf'[k] = indexOf[k]
        BY <2>8, <3>2
      <4>2. /\ k \in Library /\ PackageOf[k] # None
            /\ indexOf[k] \in 0..n-1 /\ m_definitions[indexOf[k] + 1].name = PackageOf[k]
        BY <4>1 DEF IndicesOK
      <4>3. indexOf[k] + 1 \in 1..n
        BY <2>5, <4>2
      <4>4. m_definitions'[indexOf[k] + 1] = m_definitions[indexOf[k] + 1]
        BY <2>7, <4>3
      <4>5. indexOf[k] \in 0..Len(m_definitions') - 1
        <5>1. Len(m_definitions') \in Nat
          BY <2>7 DEF DefinitionsOK
        <5> QED
          BY <2>5, <2>7, <4>2, <5>1
      <4> QED
        BY <4>1, <4>2, <4>4, <4>5
    <3> QED
      BY <3>1, <3>2
  <2>10. IndicesOK'
    BY <2>9 DEF IndicesOK
  <2>11. l \notin DOMAIN indexOf
    BY <1>2
  <2> QED
    BY <2>7, <2>8, <2>10, <2>11
<1> QED
  BY <1>1, <1>2

\* The registration of a datamodel, by each of its libraries.
LEMMA RegisterDatamodelKeeps ==
  ASSUME RegInv, NEW i \in pending, RegisterDatamodel(i)
  PROVE  RegInv'
<1>1. /\ i.what = "datamodel" /\ Initialized(i) /\ IndexedDatamodel(i.library)
      /\ UNCHANGED <<m_funcMap, m_evolutionFuncs, m_map>>
  BY DEF RegisterDatamodel
<1>2. LibrariesOK' /\ pending' = pending \ {i} /\ UNCHANGED <<present, m_loadedLibs, writing>>
  BY <1>1, InitializedKeeps DEF RegInv
<1>3. i.library \in Library /\ \A l, t : i # TypeInitializer(l, t)
  BY <1>1, PendingIs DEF RegInv
<1>4. /\ DefinitionsOK' /\ IndicesOK'
      /\ \A l \in DOMAIN indexOf : l \in DOMAIN indexOf' /\ indexOf'[l] = indexOf[l]
  BY <1>1, <1>3, IndexedKeeps DEF RegInv
<1>5. TypesRegistered'
  BY <1>1, <1>2, <1>3 DEF RegInv, TypesRegistered
<1>6. CreationOK' /\ EvolutionOK'
  BY <1>1 DEF RegInv, CreationOK, EvolutionOK
<1>7. CollectedOK'
  BY <1>1, <1>2, <1>4, CollectedStays DEF RegInv, writing
<1> QED
  BY <1>2, <1>4, <1>5, <1>6, <1>7 DEF RegInv

\* What the writers collect stays complete when it grows by a type.
LEMMA CollectKeeps ==
  ASSUME RegInv, NEW t \in Type, Collect(t)
  PROVE  RegInv'
<1> DEFINE l == LibraryOf(t)
<1>1. /\ t \in DOMAIN m_funcMap /\ IndexedDatamodel(l)
      /\ collected' = IF PackageOf[l] = None THEN collected ELSE collected \cup {indexOf'[l]}
      /\ usedTypes' = usedTypes \cup {t}
      /\ UNCHANGED <<m_funcMap, m_evolutionFuncs, m_map>>
      /\ UNCHANGED <<present, pending, libs, m_loadedLibs, program>>
  BY DEF Collect, loading
<1>2. l \in Library
  <2>1. PICK k \in TypeLibraries : t \in TypesOf[k]
    BY <1>1 DEF RegInv, CreationOK
  <2> QED
    BY <2>1, LibraryOfIs DEF TypeLibraries
<1>3. /\ DefinitionsOK' /\ IndicesOK'
      /\ \A k \in DOMAIN indexOf : k \in DOMAIN indexOf' /\ indexOf'[k] = indexOf[k]
      /\ PackageOf[l] # None => l \in DOMAIN indexOf'
  BY <1>1, <1>2, IndexedKeeps DEF RegInv
<1>4. LibrariesOK' /\ TypesRegistered' /\ CreationOK' /\ EvolutionOK'
  BY <1>1 DEF RegInv, LibrariesOK, TypesRegistered, CreationOK, EvolutionOK
<1>5. CollectedOK'
  <2> DEFINE Used == {u \in usedTypes : PackageOf[LibraryOf(u)] # None}
             Used2 == {u \in usedTypes' : PackageOf[LibraryOf(u)] # None}
  <2>1. \A u \in Used : LibraryOf(u) \in DOMAIN indexOf'
                        /\ indexOf'[LibraryOf(u)] = indexOf[LibraryOf(u)]
    BY <1>3 DEF RegInv, CollectedOK
  <2>2. collected = {indexOf'[LibraryOf(u)] : u \in Used}
    BY <2>1 DEF RegInv, CollectedOK
  <2>3. Used2 = IF PackageOf[l] = None THEN Used ELSE Used \cup {t}
    BY <1>1
  <2>4. collected' = {indexOf'[LibraryOf(u)] : u \in Used2}
    <3> HIDE DEF Used, Used2
    <3>1. CASE PackageOf[l] = None
      BY <1>1, <2>2, <2>3, <3>1
    <3>2. CASE PackageOf[l] # None
      <4>1. Used2 = Used \cup {t}
        BY <2>3, <3>2
      <4>2. collected' = collected \cup {indexOf'[LibraryOf(t)]}
        BY <1>1, <3>2
      <4> QED
        BY <2>2, <4>1, <4>2
    <3> QED
      BY <3>1, <3>2
  <2>5. usedTypes' \subseteq DOMAIN m_funcMap'
    BY <1>1 DEF RegInv, CollectedOK
  <2>6. \A u \in usedTypes' : PackageOf[LibraryOf(u)] # None => LibraryOf(u) \in DOMAIN indexOf'
    BY <1>1, <1>3, <2>1
  <2> QED
    BY <2>4, <2>5, <2>6 DEF CollectedOK
<1> QED
  BY <1>3, <1>4, <1>5 DEF RegInv

\* The loader finds SIO libraries.
LEMMA LibNamesType ==
  ASSUME NEW path \in Paths
  PROVE  LibNames(path) \in Seq(SIOLibrary)
<1> DEFINE dirs == path.dirs
           m == Len(dirs)
           Cat(s, i) == s \o dirs[i]
           Is(f, k) == f = [i \in 0..k |-> IF i = 0 THEN <<>> ELSE Cat(f[i - 1], i)]
           F == CHOOSE f : Is(f, m)
           S == {k \in Nat : \E f : Is(f, k)}
<1>1. dirs \in Seq(Seq(SIOLibrary)) /\ m \in Nat
  BY PathsAssumption
<1>2. LibNames(path) = F[m]
  BY Zenon DEF LibNames
<1>3. \A s \in Seq(SIOLibrary), i \in 1..m : Cat(s, i) \in Seq(SIOLibrary)
  BY <1>1
<1> HIDE DEF Cat, dirs, m
<1>4. 0 \in S
  <2>1. Is([i \in 0..0 |-> <<>>], 0)
    OBVIOUS
  <2> QED
    BY <2>1
<1>5. ASSUME NEW k \in Nat, k \in S
      PROVE  k + 1 \in S
  <2>1. PICK f : Is(f, k)
    BY <1>5
  <2> DEFINE g == [i \in 0..k+1 |-> IF i <= k THEN f[i] ELSE Cat(f[k], k+1)]
  <2>2. Is(g, k+1)
    BY <2>1
  <2> HIDE DEF g, Is
  <2> QED
    BY <2>2
<1>6. Is(F, m)
  <2>1. m \in S
    <3> HIDE DEF S
    <3> QED
      BY <1>1, <1>4, <1>5, Induction
  <2> QED
    BY <2>1, Zenon
<1> HIDE DEF F
<1>7. F[0] = <<>> /\ \A i \in 0..m-1 : F[i+1] = Cat(F[i], i+1)
  BY <1>1, <1>6
<1> DEFINE T == {k \in Nat : k <= m => F[k] \in Seq(SIOLibrary)}
<1>8. 0 \in T
  <2>1. <<>> \in Seq(SIOLibrary)
    OBVIOUS
  <2> QED
    BY <1>7, <2>1
<1>9. ASSUME NEW k \in Nat, k \in T
      PROVE  k + 1 \in T
  <2> SUFFICES ASSUME k + 1 <= m
               PROVE  F[k+1] \in Seq(SIOLibrary)
    OBVIOUS
  <2>1. k \in 0..m-1 /\ k + 1 \in 1..m /\ F[k] \in Seq(SIOLibrary)
    BY <1>1, <1>9
  <2>2. F[k+1] = Cat(F[k], k+1)
    BY <1>7, <2>1
  <2> QED
    BY <1>3, <2>1, <2>2
<1>10. m \in T
  <2> HIDE DEF T
  <2> QED
    BY <1>1, <1>8, <1>9, Induction
<1> QED
  BY <1>1, <1>2, <1>10

\* The loader finds the SIO libraries and loads them.
LEMMA LoaderKeeps ==
  ASSUME RegInv, (\E path \in Paths : FindLibraries(path)) \/ LoadLib
  PROVE  RegInv'
<1>1. ASSUME NEW path \in Paths, FindLibraries(path)
      PROVE  RegInv'
  <2>1. libs' \in Seq(SIOLibrary)
    <3>1. <<>> \in Seq(SIOLibrary)
      OBVIOUS
    <3> QED
      BY <1>1, <3>1, LibNamesType DEF FindLibraries
  <2>2. /\ UNCHANGED <<present, pending, m_loadedLibs>> /\ UNCHANGED registries /\ UNCHANGED writing
    BY <1>1 DEF FindLibraries
  <2>3. LibrariesOK'
    BY <2>1, <2>2 DEF RegInv, LibrariesOK
  <2>4. TypesRegistered' /\ CreationOK' /\ EvolutionOK' /\ DefinitionsOK' /\ IndicesOK'
    BY <2>2 DEF RegInv, TypesRegistered, CreationOK, EvolutionOK, DefinitionsOK, IndicesOK, registries
  <2>5. CollectedOK'
    BY <2>2, CollectedStays DEF RegInv, registries, writing
  <2> QED
    BY <2>3, <2>4, <2>5 DEF RegInv
<1>2. ASSUME LoadLib
      PROVE  RegInv'
  <2> DEFINE h == Head(libs)
  <2>1. /\ libs # <<>> /\ pending = {} /\ libs' = Tail(libs)
        /\ UNCHANGED <<m_funcMap, m_evolutionFuncs, m_definitions, indexOf, m_map>>
        /\ UNCHANGED writing
    BY <1>2 DEF LoadLib, registries
  <2>2. libs \in Seq(SIOLibrary)
    BY DEF RegInv, LibrariesOK
  <2>3. libs' \in Seq(SIOLibrary) /\ h \in SIOLibrary
    BY <2>1, <2>2
  <2> HIDE DEF h
  <2>4. CreationOK' /\ EvolutionOK' /\ DefinitionsOK' /\ IndicesOK'
    BY <2>1 DEF RegInv, CreationOK, EvolutionOK, DefinitionsOK, IndicesOK
  <2>5. CollectedOK'
    BY <2>1, CollectedStays DEF RegInv, writing
  <2>6. CASE UNCHANGED <<present, pending, m_loadedLibs>>
    <3>1. LibrariesOK' /\ TypesRegistered'
      BY <2>1, <2>3, <2>6 DEF RegInv, LibrariesOK, TypesRegistered
    <3> QED
      BY <2>4, <2>5, <3>1 DEF RegInv
  <2>7. CASE /\ h \notin m_loadedLibs
             /\ m_loadedLibs' = m_loadedLibs \cup {h}
             /\ present' = present \cup {h} \cup Needs[h]
             /\ pending' = UNION {Initializers(l) : l \in present' \ present}
    <3>1. h \in Library /\ h \notin present /\ Needs[h] \subseteq Library \ SIOLibrary
      BY <2>3, <2>7, LibrariesAssumption DEF RegInv, LibrariesOK
    <3>2. LibrariesOK'
      <4>1. present' \subseteq Library
        BY <2>7, <3>1 DEF RegInv, LibrariesOK
      <4>2. m_loadedLibs' = present' \cap SIOLibrary
        BY <2>3, <2>7, <3>1 DEF RegInv, LibrariesOK
      <4>3. \A l \in m_loadedLibs' : Needs[l] \subseteq present'
        BY <2>7 DEF RegInv, LibrariesOK
      <4>4. pending' \subseteq UNION {Initializers(l) : l \in present'}
        BY <2>7
      <4> QED
        BY <2>3, <4>1, <4>2, <4>3, <4>4 DEF LibrariesOK
    <3>3. TypesRegistered'
      <4> SUFFICES ASSUME NEW k \in present', NEW s \in TypesOf[k]
                   PROVE  \/ TypeInitializer(k, s) \in pending'
                          \/ s \in DOMAIN (IF k \in SIOLibrary THEN m_map ELSE m_funcMap)
        BY <2>1 DEF TypesRegistered
      <4>1. CASE k \in present
        BY <2>1, <4>1 DEF RegInv, TypesRegistered
      <4>2. CASE k \notin present
        <5>1. TypeInitializer(k, s) \in Initializers(k)
          BY DEF TypeInitializer, Initializers
        <5> QED
          BY <2>7, <4>2, <5>1
      <4> QED
        BY <4>1, <4>2
    <3> QED
      BY <2>4, <2>5, <3>2, <3>3 DEF RegInv
  <2> QED
    BY <1>2, <2>6, <2>7 DEF LoadLib, h
<1> QED
  BY <1>1, <1>2

\* Each step of the registries.
LEMMA RegistriesKeep ==
  ASSUME RegInv, RegistriesNext \/ UNCHANGED <<registries, loading, writing>>
  PROVE  RegInv'
<1>1. CASE RegistriesNext
  BY <1>1, RegisterTypeKeeps, RegisterDatamodelKeeps, RegisterBlockKeeps, RegisterEvolutionKeeps,
     LoaderKeeps, CollectKeeps DEF RegistriesNext
<1>2. CASE UNCHANGED <<registries, loading, writing>>
  <2>1. /\ UNCHANGED <<m_funcMap, m_evolutionFuncs, m_definitions, indexOf, m_map>>
        /\ UNCHANGED <<present, pending, libs, m_loadedLibs, program>>
        /\ UNCHANGED <<collected, usedTypes>>
    BY <1>2 DEF registries, loading, writing
  <2>2. /\ LibrariesOK' /\ TypesRegistered' /\ CreationOK' /\ EvolutionOK' /\ DefinitionsOK'
        /\ IndicesOK'
    BY <2>1 DEF RegInv, LibrariesOK, TypesRegistered, CreationOK, EvolutionOK, DefinitionsOK, IndicesOK
  <2>3. CollectedOK'
    BY <2>1, CollectedStays DEF RegInv
  <2> QED
    BY <2>2, <2>3 DEF RegInv
<1> QED
  BY <1>1, <1>2

\* RegInv says that a function can be called for every version.
LEMMA CreatedCanEvolveIs ==
  ASSUME RegInv
  PROVE  CreatedCanEvolve
<1> SUFFICES ASSUME NEW t \in DOMAIN m_funcMap
             PROVE  /\ Len(m_funcMap[t]) = Current[t]
                    /\ \A v \in 1..Current[t] :
                          /\ Creates(t, v) /\ m_funcMap[t][v] = LibraryOf(t)
                          /\ Evolved(t, v) \notin {"unknown", None}
                    /\ Evolved(t, Current[t]) = "unchanged"
  BY DEF CreatedCanEvolve
<1> DEFINE n == Current[t]
<1>1. n \in Nat \ {0} /\ m_funcMap[t] = [v \in 1..n |-> LibraryOf(t)]
  <2>1. \E l \in Library : t \in TypesOf[l]
    BY DEF RegInv, CreationOK, TypeLibraries
  <2> QED
    BY <2>1, TypesAreTypes DEF RegInv, CreationOK
<1>2. PICK f \in [1..n -> Funcs \cup {None}] :
           /\ t \in DOMAIN m_evolutionFuncs
           /\ m_evolutionFuncs[t] = [current |-> n, funcs |-> f]
           /\ \A v \in 1..n-1 : f[v] \in Funcs
  BY DEF RegInv, EvolutionOK
<1>3. m_evolutionFuncs[t].current = n /\ m_evolutionFuncs[t].funcs = f
  BY <1>2
<1>4. Len(f) = n
  BY <1>1
<1>5. Len(m_funcMap[t]) = n
  BY <1>1
<1>6. "unchanged" \notin {"unknown", None} /\ \A x \in Funcs : x # "unknown" /\ x # None
  <2>1. "unchanged" # "unknown"
    OBVIOUS
  <2>2. (Funcs \cup {None}) \cap {"unknown", "unchanged"} = {} /\ None \notin Funcs
    BY FunctionsAssumption DEF Funcs
  <2> QED
    BY <2>1, <2>2
<1>7. Evolved(t, n) = "unchanged"
  BY <1>2, <1>3 DEF Evolved
<1>8. ASSUME NEW v \in 1..n
      PROVE  /\ Creates(t, v) /\ m_funcMap[t][v] = LibraryOf(t)
             /\ Evolved(t, v) \notin {"unknown", None}
  <2>1. Creates(t, v) /\ m_funcMap[t][v] = LibraryOf(t)
    <3>1. v <= Len(m_funcMap[t])
      BY <1>1, <1>5
    <3> QED
      BY <1>1, <3>1 DEF Creates
  <2>2. CASE v = n
    <3>1. Evolved(t, v) = "unchanged"
      BY <1>7, <2>2, Zenon
    <3> QED
      BY <1>6, <2>1, <3>1, Zenon
  <2>3. CASE v # n
    <3>1. v < Len(f) /\ v \in 1..n-1
      BY <1>1, <1>4, <2>3
    <3>2. Evolved(t, v) = f[v]
      BY <1>2, <1>3, <2>3, <3>1 DEF Evolved
    <3> QED
      <4>1. f[v] # "unknown" /\ f[v] # None
        BY <1>2, <1>6, <3>1
      <4> QED
        BY <2>1, <3>2, <4>1, Zenon
  <2> QED
    BY <2>1, <2>2, <2>3
<1> QED
  BY <1>5, <1>7, <1>8

\* The index of a datamodel leads to its definition.
LEMMA DefinitionsCompleteIs ==
  ASSUME RegInv
  PROVE  DefinitionsComplete
<1> DEFINE Used == {t \in usedTypes : PackageOf[LibraryOf(t)] # None}
           Def(p) == [name |-> p, definition |-> Definition[p]]
<1>1. ASSUME NEW t \in Used
      PROVE  DefinitionAt(indexOf[LibraryOf(t)]) = Def(PackageOf[LibraryOf(t)])
  <2> DEFINE k == indexOf[LibraryOf(t)]
  <2>1. LibraryOf(t) \in DOMAIN indexOf
    BY DEF RegInv, CollectedOK
  <2>2. k \in 0..Len(m_definitions) - 1 /\ m_definitions[k + 1].name = PackageOf[LibraryOf(t)]
    BY <2>1 DEF RegInv, IndicesOK
  <2>3. Len(m_definitions) \in Nat
    BY DEF RegInv, DefinitionsOK
  <2> HIDE DEF k
  <2>4. k < Len(m_definitions) /\ k + 1 \in 1..Len(m_definitions)
    BY <2>2, <2>3
  <2>5. m_definitions[k + 1] = Def(m_definitions[k + 1].name)
    BY <2>4 DEF RegInv, DefinitionsOK
  <2>6. DefinitionAt(k) = m_definitions[k + 1]
    BY <2>4 DEF DefinitionAt
  <2> QED
    BY <2>2, <2>5, <2>6, Zenon DEF k
<1>2. collected = {indexOf[LibraryOf(t)] : t \in Used}
  BY DEF RegInv, CollectedOK
<1>3. DefinitionsToWrite = {DefinitionAt(indexOf[LibraryOf(t)]) : t \in Used}
  BY <1>2 DEF DefinitionsToWrite
<1> HIDE DEF Def
<1>4. {PackageOf[LibraryOf(t)] : t \in usedTypes} \ {None} = {PackageOf[LibraryOf(t)] : t \in Used}
  OBVIOUS
<1>5. DefinitionsToWrite = {Def(p) : p \in {PackageOf[LibraryOf(t)] : t \in Used}}
  <2> HIDE DEF Used
  <2> QED
    BY <1>1, <1>3
<1> QED
  BY <1>4, <1>5 DEF DefinitionsComplete, Def

-----------------------------------------------------------------------------
\* A function on 1..n is a sequence.
LEMMA IsASequence ==
  ASSUME NEW T, NEW n \in Nat, NEW s, s = [i \in 1..n |-> s[i]], \A i \in 1..n : s[i] \in T
  PROVE  s \in Seq(T)
  OBVIOUS

\* NoData is not an entry, and an entry has so many collections.
LEMMA FitsIs ==
  ASSUME NEW d, Fits(d)
  PROVE  /\ d # NoData /\ d.entry \in Entry /\ Len(d.entry) \in Nat /\ Indices(d) = 1..Len(d.entry)
         /\ d.buffers \in Seq(BufferState) /\ DOMAIN d.buffers = Indices(d)
         /\ Wanted(d) \subseteq Names(d)
         /\ \A i, j \in Indices(d) : d.entry[i].name = d.entry[j].name => i = j
         /\ \A i \in Indices(d) : d.entry[i].type \in Type /\ d.entry[i].version \in Nat
<1>1. d \in Data /\ d # NoData
  BY EntriesAssumption DEF Fits, Data
<1>2. d.entry \in Entry /\ d.buffers \in Seq(BufferState)
  BY <1>1 DEF Data
<1>3. Len(d.entry) \in Nat
  BY <1>2, EntriesAssumption
<1>4. DOMAIN d.buffers = Indices(d)
  BY <1>2 DEF Fits, Indices
<1>5. Wanted(d) \subseteq Names(d)
  BY DEF Fits, Wanted
<1>6. \A i \in Indices(d) : /\ d.entry[i].type \in Type /\ d.entry[i].version \in Nat \ {0}
                            /\ \A j \in Indices(d) : d.entry[i].name = d.entry[j].name => i = j
  BY <1>2, EntriesAssumption DEF Indices
<1> QED
  BY <1>1, <1>2, <1>3, <1>4, <1>5, <1>6 DEF Indices

\* The same entry, of which other buffers are available.
LEMMA Having ==
  ASSUME NEW d, Fits(d), NEW r \in Data, r.entry = d.entry, r.limit = d.limit,
         DOMAIN r.buffers = Indices(d)
  PROVE  Fits(r) /\ Indices(r) = Indices(d) /\ Wanted(r) = Wanted(d) /\ Names(r) = Names(d)
<1>1. Len(d.entry) \in Nat /\ Indices(d) = 1..Len(d.entry) /\ d.limit \subseteq Names(d)
  BY FitsIs DEF Fits
<1>2. Indices(r) = Indices(d) /\ Names(r) = Names(d) /\ Wanted(r) = Wanted(d)
  BY DEF Indices, Names, Wanted
<1>3. r.buffers \in Seq(BufferState)
  BY DEF Data
<1>4. Len(r.buffers) = Len(r.entry)
  BY <1>1, <1>3
<1> QED
  BY <1>1, <1>2, <1>4 DEF Fits

\* The blocks are created.
LEMMA CreatedIs ==
  ASSUME NEW d, Fits(d)
  PROVE  /\ Created(d) \in Data /\ Created(d).unpacked /\ Created(d).available = 0..Len(d.entry)
         /\ Created(d).entry = d.entry /\ Created(d).limit = d.limit
         /\ Created(d).buffers = d.buffers /\ Created(d).failed = d.failed
         /\ Indices(Created(d)) = Indices(d) /\ Fits(Created(d)) /\ Wanted(Created(d)) = Wanted(d)
<1> DEFINE a == 0..Len(d.entry)
           r == Created(d)
<1>1. d \in Data /\ a \in SUBSET Nat /\ DOMAIN d.buffers = Indices(d)
  BY FitsIs DEF Fits
<1>2. r = [d EXCEPT !.unpacked = TRUE, !.available = a]
  BY DEF Created
<1> HIDE DEF a, r
<1>3. /\ r \in Data /\ r.unpacked /\ r.available = a /\ r.entry = d.entry /\ r.limit = d.limit
      /\ r.buffers = d.buffers /\ r.failed = d.failed
  BY <1>1, <1>2 DEF Data
<1>4. Indices(r) = Indices(d) /\ Fits(r) /\ Wanted(r) = Wanted(d)
  BY <1>1, <1>3, Having
<1> QED
  BY <1>3, <1>4 DEF a, r

\* The blocks of an entry that could not be read to the end.
LEMMA ReadUpToTracked ==
  ASSUME NEW d, Fits(d), NEW k, NEW next \in {"none", "partial"}, NEW how
  PROVE  LET r == ReadUpTo(Created(d), k, next)
         IN Fits(r) /\ Tracked(r, {}, how) /\ r.failed /\ r.entry = d.entry
<1> DEFINE r == ReadUpTo(Created(d), k, next)
           c == Created(d)
           b == [i \in Indices(d) |-> IF i <= k THEN "filled"
                                      ELSE IF i = k + 1 THEN next ELSE "none"]
<1>1. /\ c \in Data /\ c.unpacked /\ c.available = 0..Len(d.entry) /\ c.entry = d.entry
      /\ Indices(c) = Indices(d) /\ Fits(c)
  BY CreatedIs
<1>2. r = [c EXCEPT !.failed = TRUE, !.buffers = b]
  BY <1>1, Zenon DEF ReadUpTo
<1>3. b \in Seq(BufferState) /\ DOMAIN b = Indices(d) /\ \A i \in Indices(d) : b[i] \in {"filled", "partial", "none"}
  <2>1. Len(d.entry) \in Nat /\ Indices(d) = 1..Len(d.entry)
    BY FitsIs
  <2>2. b = [i \in Indices(d) |-> b[i]] /\ \A i \in Indices(d) : b[i] \in {"filled", "partial", "none"}
    OBVIOUS
  <2> HIDE DEF b
  <2>3. b = [i \in 1..Len(d.entry) |-> b[i]]
    BY <2>1, <2>2, Zenon
  <2>5. \A i \in 1..Len(d.entry) : b[i] \in BufferState
    BY <2>1, <2>2 DEF BufferState
  <2>4. b \in Seq(BufferState)
    BY <2>1, <2>3, <2>5, IsASequence
  <2> QED
    BY <2>2, <2>4
<1> HIDE DEF r, c, b
<1>4. /\ r \in Data /\ r.unpacked /\ r.available = c.available /\ r.entry = c.entry
      /\ r.limit = c.limit /\ r.buffers = b /\ r.failed
  BY <1>1, <1>2, <1>3 DEF Data
<1>5. Fits(r) /\ Indices(r) = Indices(d)
  BY <1>1, <1>3, <1>4, Having
<1>6. \A i \in Indices(r) : i \in r.available
  BY <1>1, <1>4, <1>5, FitsIs
<1>7. Owned(r)
  BY <1>3, <1>4, <1>5, <1>6 DEF Owned
<1>8. Tracked(r, {}, how)
  BY <1>1, <1>4, <1>6, <1>7 DEF Tracked
<1> QED
  BY <1>1, <1>4, <1>5, <1>8 DEF r

\* The blocks have been created, and one of them is a nullptr.
LEMMA CreatedTracked ==
  ASSUME NEW d, Fits(d), Untouched(d)
  PROVE  Fits(Created(d)) /\ Tracked(Created(d), {}, "wild") /\ Created(d).entry = d.entry
<1> DEFINE r == Created(d)
<1>1. /\ Fits(r) /\ r.unpacked /\ r.available = 0..Len(d.entry) /\ r.entry = d.entry
      /\ Indices(r) = Indices(d) /\ r.buffers = d.buffers
  BY CreatedIs
<1> HIDE DEF r
<1>2. \A i \in Indices(r) : i \in r.available /\ r.buffers[i] = "none"
  BY <1>1, FitsIs DEF Untouched
<1>3. Owned(r)
  BY <1>2 DEF Owned
<1>4. Tracked(r, {}, "wild")
  BY <1>1, <1>2, <1>3 DEF Tracked
<1> QED
  BY <1>1, <1>4 DEF r

\* All the blocks have been read, and what is not asked for was thrown away.
LEMMA LimitedTracked ==
  ASSUME NEW d, Fits(d), Untouched(d), NEW how
  PROVE  Fits(Limited(Created(d))) /\ Tracked(Limited(Created(d)), {}, how)
         /\ Limited(Created(d)).entry = d.entry
<1> DEFINE r == Limited(Created(d))
           c == Created(d)
           dropped == {i \in Indices(c) : c.limit # {} /\ c.entry[i].name \notin c.limit}
           b == [i \in Indices(c) |-> IF i \in dropped THEN "deleted" ELSE "filled"]
           a == c.available \ dropped
<1>1. /\ c \in Data /\ c.unpacked /\ c.available = 0..Len(d.entry) /\ c.entry = d.entry
      /\ c.limit = d.limit /\ c.failed = FALSE
      /\ Indices(c) = Indices(d) /\ Fits(c) /\ Wanted(c) = Wanted(d)
  BY CreatedIs DEF Untouched
<1>2. r = [c EXCEPT !.available = @ \ dropped, !.buffers = b]
  BY Zenon DEF Limited
<1>3. /\ b \in Seq(BufferState) /\ DOMAIN b = Indices(d)
      /\ \A i \in Indices(d) : b[i] = IF i \in dropped THEN "deleted" ELSE "filled"
  <2>1. Len(d.entry) \in Nat /\ Indices(d) = 1..Len(d.entry)
    BY FitsIs
  <2> HIDE DEF dropped, c
  <2>2. b = [i \in Indices(c) |-> b[i]]
        /\ \A i \in Indices(c) : b[i] = IF i \in dropped THEN "deleted" ELSE "filled"
    OBVIOUS
  <2> HIDE DEF b
  <2>3. b = [i \in 1..Len(d.entry) |-> b[i]]
    BY <1>1, <2>1, <2>2, Zenon
  <2>5. \A i \in 1..Len(d.entry) : b[i] \in BufferState
    BY <1>1, <2>1, <2>2 DEF BufferState
  <2>4. b \in Seq(BufferState)
    BY <2>1, <2>3, <2>5, IsASequence
  <2> QED
    BY <1>1, <2>2, <2>4
<1>4. \A i \in Indices(d) : i \notin dropped <=> d.entry[i].name \in Wanted(d)
  BY <1>1 DEF Wanted, Names
<1> HIDE DEF r, c, b, dropped
<1>5. r = [c EXCEPT !.available = a, !.buffers = b]
  BY <1>2
<1>6. a \in SUBSET Nat /\ a \subseteq 0..Len(d.entry)
  BY <1>1 DEF Data
<1>7. \A i \in Indices(d) : i \in a <=> i \notin dropped
  BY <1>1, FitsIs
<1> HIDE DEF a
<1>8. /\ r \in Data /\ r.unpacked /\ r.available = a /\ r.entry = c.entry
      /\ r.limit = c.limit /\ r.buffers = b /\ ~r.failed
  BY <1>1, <1>3, <1>5, <1>6 DEF Data
<1>9. Fits(r) /\ Indices(r) = Indices(d) /\ Wanted(r) = Wanted(d)
  BY <1>1, <1>3, <1>8, Having
<1>10. Owned(r)
  BY <1>3, <1>7, <1>8, <1>9 DEF Owned
<1>11. Tracked(r, {}, how)
  BY <1>1, <1>3, <1>4, <1>6, <1>7, <1>8, <1>9, <1>10 DEF Tracked
<1> QED
  BY <1>1, <1>8, <1>9, <1>11 DEF r

\* A block is missing only if no loaded library has one.
LEMMA UnknownUnreadable ==
  ASSUME RegInv, Loaded, NEW d, Unknown(d) # {}
  PROVE  Unreadable(d)
<1>1. PICK i \in Indices(d) : d.entry[i].type \notin DOMAIN m_map
  BY DEF Unknown
<1>2. ASSUME NEW l \in m_loadedLibs, d.entry[i].type \in TypesOf[l]
      PROVE  FALSE
  <2>1. l \in present /\ l \in SIOLibrary /\ pending = {}
    BY DEF RegInv, LibrariesOK, Loaded
  <2> QED
    BY <1>1, <1>2, <2>1 DEF RegInv, TypesRegistered
<1> QED
  BY <1>1, <1>2 DEF Unreadable

\* A type of a loaded library has the buffers of each version up to its
\* current one.
LEMMA LoadedCreates ==
  ASSUME RegInv, Loaded, NEW l \in m_loadedLibs, NEW t \in TypesOf[l],
         NEW version \in Nat, ~Creates(t, version)
  PROVE  version > Current[t]
<1>1. l \in SIOLibrary /\ l \in Library /\ Needs[l] \subseteq present /\ pending = {}
  BY LibrariesAssumption DEF RegInv, LibrariesOK, Loaded
<1>2. PICK k \in Needs[l] : t \in TypesOf[k]
  BY <1>1, LibrariesAssumption
<1>3. k \in present /\ k \notin SIOLibrary
  BY <1>1, LibrariesAssumption
<1>4. t \in DOMAIN m_funcMap
  BY <1>1, <1>2, <1>3 DEF RegInv, TypesRegistered
<1>5. Current[t] \in Nat \ {0}
  BY <1>1, TypesAreTypes
<1>6. m_funcMap[t] = [v \in 1..Current[t] |-> LibraryOf(t)]
  BY <1>4 DEF RegInv, CreationOK
<1>7. Len(m_funcMap[t]) = Current[t]
  BY <1>5, <1>6
<1> QED
  BY <1>4, <1>5, <1>7 DEF Creates

\* A block without buffers is newer than its library, or of none.
LEMMA NewerUnreadable ==
  ASSUME RegInv, Loaded, NEW d, Fits(d), Newer(d) # {}
  PROVE  Unreadable(d)
<1>1. PICK i \in Indices(d) : ~Creates(d.entry[i].type, d.entry[i].version)
  BY DEF Newer
<1>2. d.entry[i].version \in Nat
  BY <1>1, FitsIs
<1>3. ASSUME NEW l \in m_loadedLibs, d.entry[i].type \in TypesOf[l]
      PROVE  d.entry[i].version > Current[d.entry[i].type]
  BY <1>1, <1>2, <1>3, LoadedCreates
<1> QED
  BY <1>1, <1>3 DEF Unreadable

\* What is left of the call when the blocks are unpacked.
UnpackedOK(u) ==
    /\ Fits(u.data)
    /\ Tracked(u.data, given, u.result)
    /\ u.result \in {"ok", "throws", "wild"}
    /\ u.result = "wild" => Unreadable(u.data)

\* Whichever way unpackBuffers ends.
LEMMA UnpackedIs ==
  ASSUME RegInv, DataOK, Alive, NEW u \in Unpacked(data)
  PROVE  UnpackedOK(u)
<1> DEFINE c == Created(data)
           first == CHOOSE i \in Newer(data) : \A j \in Newer(data) : i <= j
<1>1. Loaded /\ Fits(data)
  BY DEF DataOK, Alive
<1>2. CASE data.unpacked
  <2>1. u.data = data /\ u.result = "ok"
    BY <1>2 DEF Unpacked
  <2>2. Tracked(data, given, answer.is) /\ answer.is # "wild"
    BY <1>2 DEF DataOK, Alive, Untouched
  <2>3. Tracked(data, given, u.result)
    BY <2>1, <2>2 DEF Tracked
  <2> QED
    BY <1>1, <2>1, <2>3 DEF UnpackedOK
<1>3. CASE ~data.unpacked
  <2>1. Untouched(data) /\ given = {}
    BY <1>3 DEF DataOK, Alive, Tracked
  <2>2. CASE Unknown(data) # {} /\ u = [data |-> c, result |-> "wild"]
    <3>1. Fits(c) /\ Tracked(c, {}, "wild")
      BY <1>1, <2>1, CreatedTracked
    <3>2. Unreadable(data) /\ c.entry = data.entry
      BY <1>1, <2>2, CreatedIs, UnknownUnreadable
    <3>3. Unreadable(c)
      BY <3>2 DEF Unreadable, Indices
    <3> QED
      BY <2>1, <2>2, <3>1, <3>3 DEF UnpackedOK
  <2>3. CASE \E k, next : next \in {"none", "partial"} /\ u = [data |-> ReadUpTo(c, k, next), result |-> "throws"]
    <3>1. PICK k, next : next \in {"none", "partial"} /\ u = [data |-> ReadUpTo(c, k, next), result |-> "throws"]
      BY <2>3
    <3>2. Fits(ReadUpTo(c, k, next)) /\ Tracked(ReadUpTo(c, k, next), {}, "throws")
      BY <1>1, <3>1, ReadUpToTracked
    <3> QED
      BY <2>1, <3>1, <3>2 DEF UnpackedOK
  <2>4. CASE u = [data |-> Limited(c), result |-> "ok"]
    <3>1. Fits(Limited(c)) /\ Tracked(Limited(c), {}, "ok")
      BY <1>1, <2>1, LimitedTracked
    <3> QED
      BY <2>1, <2>4, <3>1 DEF UnpackedOK
  <2>5. CASE Newer(data) # {} /\ \E k, r : r \in {"throws", "wild"} /\ u = [data |-> ReadUpTo(c, k, "none"), result |-> r]
    <3>1. PICK k, r : r \in {"throws", "wild"} /\ u = [data |-> ReadUpTo(c, k, "none"), result |-> r]
      BY <2>5
    <3>2. Fits(ReadUpTo(c, k, "none")) /\ Tracked(ReadUpTo(c, k, "none"), {}, r)
          /\ ReadUpTo(c, k, "none").entry = data.entry
      BY <1>1, ReadUpToTracked
    <3>3. Unreadable(data)
      BY <1>1, <2>5, NewerUnreadable
    <3>4. Unreadable(ReadUpTo(c, k, "none"))
      BY <3>2, <3>3 DEF Unreadable, Indices
    <3> QED
      BY <2>1, <3>1, <3>2, <3>4 DEF UnpackedOK
  <2> DEFINE last == IF Newer(data) = {} THEN Len(data.entry) ELSE first
             Stopped == {[data |-> ReadUpTo(c, k, next), result |-> "throws"] :
                            k \in 0..last - 1, next \in {"none", "partial"}}
             End == IF Newer(data) = {} THEN [data |-> Limited(c), result |-> "ok"]
                    ELSE [data |-> ReadUpTo(c, first - 1, "none"),
                          result |-> IF data.entry[first].type \in UserData \cup Links
                                     THEN "throws" ELSE "wild"]
  <2>6. \/ Unknown(data) # {} /\ u = [data |-> c, result |-> "wild"]
        \/ u \in Stopped
        \/ u = End
    <3> HIDE DEF Stopped, End
    <3>1. u \in (IF Unknown(data) # {} THEN {[data |-> c, result |-> "wild"]}
                 ELSE {s \in Stopped : Newer(data) = {} \/ s.data.buffers[first] # "partial"} \cup {End})
      BY <1>3 DEF Unpacked, Stopped, End
    <3> QED
      BY <3>1
  <2>7. u \in Stopped => \E k, next : next \in {"none", "partial"} /\ u = [data |-> ReadUpTo(c, k, next), result |-> "throws"]
    <3> HIDE DEF c, last
    <3> SUFFICES ASSUME u \in Stopped
                 PROVE  \E k, next : next \in {"none", "partial"} /\ u = [data |-> ReadUpTo(c, k, next), result |-> "throws"]
      OBVIOUS
    <3>1. \E k \in 0..last - 1, next \in {"none", "partial"} : u = [data |-> ReadUpTo(c, k, next), result |-> "throws"]
      OBVIOUS
    <3> QED
      BY <3>1, Zenon
  <2>8. CASE u = End
    <3>1. CASE Newer(data) = {}
      BY <2>4, <2>8, <3>1
    <3>2. CASE Newer(data) # {}
      <4> DEFINE res == IF data.entry[first].type \in UserData \cup Links THEN "throws" ELSE "wild"
      <4>1. res \in {"throws", "wild"}
        OBVIOUS
      <4>2. u = [data |-> ReadUpTo(c, first - 1, "none"), result |-> res]
        BY <2>8, <3>2
      <4> HIDE DEF res, c, first
      <4>3. \E k, r : r \in {"throws", "wild"} /\ u = [data |-> ReadUpTo(c, k, "none"), result |-> r]
        BY <4>1, <4>2
      <4> QED
        BY <2>5, <3>2, <4>3
    <3> QED
      BY <3>1, <3>2
  <2> QED
    BY <2>2, <2>3, <2>6, <2>7, <2>8
<1> QED
  BY <1>2, <1>3

-----------------------------------------------------------------------------
\* Once the loader is ready nothing is loaded any more.
LEMMA LoadedStays ==
  ASSUME Loaded, RegistriesNext \/ UNCHANGED <<registries, loading, writing>>
  PROVE  UNCHANGED loading
<1>1. pending = {} /\ program = "running" /\ libs = <<>>
  BY DEF Loaded
<1>2. CASE \E e \in Evolution : RegisterEvolution(e)
  BY <1>2 DEF RegisterEvolution
<1>3. CASE \E path \in Paths : FindLibraries(path)
  BY <1>1, <1>3 DEF FindLibraries
<1>4. CASE LoadLib
  BY <1>1, <1>4 DEF LoadLib
<1>5. CASE \E t \in Type : Collect(t)
  BY <1>5 DEF Collect
<1>6. CASE UNCHANGED <<registries, loading, writing>>
  BY <1>6
<1> QED
  BY <1>1, <1>2, <1>3, <1>4, <1>5, <1>6 DEF RegistriesNext

\* What is registered later does not concern the entry.
LEMMA RegistriesKeepFrame ==
  ASSUME FrameInv, UNCHANGED frameData,
         RegistriesNext \/ UNCHANGED <<registries, loading, writing>>
  PROVE  FrameInv'
<1>1. data' = data /\ given' = given /\ answer' = answer /\ misused' = misused
  BY DEF frameData
<1>2. AnswersComplete'
  BY <1>1 DEF FrameInv, AnswersComplete
<1>3. CASE data = NoData
  <2>1. DataOK'
    BY <1>1, <1>3 DEF DataOK
  <2>2. AnswerOK'
    BY <1>1, <1>3 DEF FrameInv, AnswerOK
  <2> QED
    BY <1>2, <2>1, <2>2 DEF FrameInv
<1>4. CASE data # NoData
  <2>1. Loaded
    BY <1>4 DEF FrameInv, DataOK
  <2>2. Loaded' /\ m_loadedLibs' = m_loadedLibs
    BY <2>1, LoadedStays DEF loading, Loaded
  <2>3. DataOK'
    BY <1>1, <2>2 DEF FrameInv, DataOK
  <2>4. AnswerOK'
    BY <1>1, <2>2 DEF FrameInv, AnswerOK, Unreadable
  <2> QED
    BY <1>2, <2>3, <2>4 DEF FrameInv
<1> QED
  BY <1>3, <1>4

\* Only that it was "wild" matters of the last answer.
LEMMA HowTracked ==
  ASSUME NEW d, NEW names, NEW how, how # "wild", Tracked(d, names, how), NEW other
  PROVE  Tracked(d, names, other)
  BY DEF Tracked

\* A call that leaves an entry as it was unpacked.
LEMMA AnsweredKeeps ==
  ASSUME FrameInv, Loaded, NEW d, Fits(d), NEW names, Tracked(d, names, answer'.is),
         data' = d, given' = names, misused' => misused, UNCHANGED loading,
         answer'.is # "terminated", answer'.is = "wild" => Unreadable(d), AnswersComplete'
  PROVE  FrameInv'
<1>1. Loaded' /\ m_loadedLibs' = m_loadedLibs
  BY DEF loading, Loaded
<1>2. d # NoData
  BY FitsIs
<1>3. DataOK'
  BY <1>1 DEF DataOK
<1>4. AnswerOK'
  BY <1>1, <1>2 DEF FrameInv, AnswerOK, Unreadable
<1> QED
  BY <1>3, <1>4 DEF FrameInv

\* A call that ends in unpackBuffers.
LEMMA StopsKeeps ==
  ASSUME RegInv, FrameInv, Alive, NEW u \in Unpacked(data), Stops(u), UNCHANGED loading
  PROVE  FrameInv'
<1>1. Fits(u.data) /\ Tracked(u.data, given, u.result) /\ u.result \in {"throws", "wild"}
      /\ (u.result = "wild" => Unreadable(u.data))
  BY UnpackedIs DEF UnpackedOK, FrameInv, Stops
<1>2. data' = u.data /\ answer' = [is |-> u.result] /\ given' = given /\ misused' = misused
  BY DEF Stops
<1>3. answer'.is = u.result
  BY <1>2
<1>4. Loaded
  BY DEF FrameInv, DataOK, Alive
<1>5. AnswersComplete'
  BY <1>1, <1>2, <1>3 DEF AnswersComplete, Tracked
<1> QED
  BY <1>1, <1>2, <1>3, <1>4, <1>5, AnsweredKeeps

\* What holds when the blocks could be unpacked.
LEMMA UnpackedWell ==
  ASSUME RegInv, FrameInv, Alive, NEW u \in Unpacked(data), u.result = "ok", NEW how
  PROVE  /\ Loaded /\ Fits(u.data) /\ Tracked(u.data, given, how)
         /\ Owned(u.data) /\ u.data.unpacked
         /\ u.data.available \ {0} \subseteq Indices(u.data)
         /\ \A i \in Indices(u.data) : u.data.entry[i].name \in Wanted(u.data) \ given =>
               i \in u.data.available \ {0}
         /\ ~u.data.failed => /\ given \subseteq Wanted(u.data)
                              /\ \A i \in u.data.available \ {0} :
                                    u.data.buffers[i] = "filled"
                                    /\ u.data.entry[i].name \in Wanted(u.data) \ given
<1>1. Fits(u.data) /\ Tracked(u.data, given, "ok")
  BY UnpackedIs DEF UnpackedOK, FrameInv
<1>2. Indices(u.data) = 1..Len(u.data.entry) /\ Len(u.data.entry) \in Nat
  BY <1>1, FitsIs
<1>3. u.data.available \ {0} \subseteq Indices(u.data)
  BY <1>1, <1>2 DEF Tracked
<1>4. \A i \in Indices(u.data) : i # 0
  BY <1>2
<1>5. Tracked(u.data, given, how)
  BY <1>1, HowTracked
<1>6. Loaded
  BY DEF FrameInv, DataOK, Alive
<1> QED
  BY <1>1, <1>3, <1>4, <1>5, <1>6 DEF Tracked

\* A call that finds no buffers.
LEMMA NothingKeeps ==
  ASSUME RegInv, FrameInv, Alive, NEW u \in Unpacked(data), u.result = "ok", NEW name,
         \A i \in u.data.available \ {0} : u.data.entry[i].name # name,
         data' = u.data, answer' = [is |-> "nothing", name |-> name],
         UNCHANGED <<given, misused>>, UNCHANGED loading
  PROVE  FrameInv'
<1>1. answer'.is = "nothing" /\ answer'.name = name
  OBVIOUS
<1>2. Loaded /\ Fits(u.data) /\ Tracked(u.data, given, "nothing")
  BY UnpackedWell
<1>3. name \notin Wanted(u.data) \ given
  <2> SUFFICES ASSUME name \in Wanted(u.data) \ given
               PROVE  FALSE
    OBVIOUS
  <2>1. PICK i \in Indices(u.data) : u.data.entry[i].name = name
    BY <1>2, FitsIs DEF Names
  <2> QED
    BY <2>1, UnpackedWell
<1>4. AnswersComplete'
  BY <1>1, <1>2, <1>3 DEF AnswersComplete, Tracked
<1> QED
  BY <1>1, <1>2, <1>4, AnsweredKeeps

\* The names of the collections that can still be got.
LEMMA GetAvailableCollectionsKeeps ==
  ASSUME RegInv, FrameInv, GetAvailableCollections
  PROVE  FrameInv'
<1>1. PICK u \in Unpacked(data) :
          \/ Stops(u)
          \/ /\ u.result = "ok" /\ data' = u.data
             /\ answer' = [is |-> "names",
                           names |-> {u.data.entry[i].name : i \in u.data.available \ {0}}]
             /\ UNCHANGED <<given, misused>>
  BY DEF GetAvailableCollections
<1>2. Alive /\ UNCHANGED loading
  BY DEF GetAvailableCollections
<1>3. CASE Stops(u)
  BY <1>2, <1>3, StopsKeeps
<1>4. CASE ~Stops(u)
  <2> DEFINE names == {u.data.entry[i].name : i \in u.data.available \ {0}}
  <2>1. /\ u.result = "ok" /\ data' = u.data /\ answer'.is = "names" /\ answer'.names = names
        /\ given' = given /\ misused' = misused
    BY <1>1, <1>4
  <2>2. Loaded /\ Fits(u.data) /\ Tracked(u.data, given, "names")
    BY <1>2, <2>1, UnpackedWell
  <2>3. ASSUME ~u.data.failed
        PROVE  names = Wanted(u.data) \ given
    <3>1. names \subseteq Wanted(u.data) \ given
      BY <1>2, <2>1, <2>3, UnpackedWell
    <3>2. ASSUME NEW name \in Wanted(u.data) \ given
          PROVE  name \in names
      <4>1. PICK i \in Indices(u.data) : u.data.entry[i].name = name
        BY <2>2, FitsIs DEF Names
      <4>2. i \in u.data.available \ {0}
        BY <1>2, <2>1, <4>1, UnpackedWell
      <4> QED
        BY <4>1, <4>2
    <3> QED
      BY <3>1, <3>2
  <2> HIDE DEF names
  <2>4. AnswersComplete'
    BY <2>1, <2>2, <2>3 DEF AnswersComplete, Tracked
  <2> QED
    BY <1>2, <2>1, <2>2, <2>4, AnsweredKeeps
<1> QED
  BY <1>3, <1>4

\* The parameters are taken out of the entry.
LEMMA GetParametersKeeps ==
  ASSUME RegInv, FrameInv, GetParameters
  PROVE  FrameInv'
<1>1. PICK u \in Unpacked(data) :
          \/ Stops(u)
          \/ /\ u.result = "ok" /\ data' = [u.data EXCEPT !.available = @ \ {0}]
             /\ answer' = [is |-> "parameters"]
             /\ UNCHANGED <<given, misused>>
  BY DEF GetParameters
<1>2. Alive /\ UNCHANGED loading
  BY DEF GetParameters
<1>3. CASE Stops(u)
  BY <1>2, <1>3, StopsKeeps
<1>4. CASE ~Stops(u)
  <2> DEFINE d == u.data
             r == [d EXCEPT !.available = @ \ {0}]
  <2>1. u.result = "ok" /\ data' = r /\ answer'.is = "parameters" /\ given' = given /\ misused' = misused
    BY <1>1, <1>4
  <2>2. Loaded /\ Fits(d) /\ Tracked(d, given, "parameters")
    BY <1>2, <2>1, UnpackedWell
  <2> HIDE DEF d
  <2>3. /\ r \in Data /\ r.entry = d.entry /\ r.limit = d.limit /\ r.buffers = d.buffers
        /\ r.failed = d.failed /\ r.unpacked = d.unpacked /\ r.available = d.available \ {0}
    BY <2>2 DEF Fits, Data
  <2> HIDE DEF r
  <2>4. Fits(r) /\ Indices(r) = Indices(d) /\ Wanted(r) = Wanted(d)
    BY <2>2, <2>3, FitsIs, Having
  <2>5. \A i \in Indices(d) : i \in r.available <=> i \in d.available
    BY <2>2, <2>3, FitsIs
  <2>6. Owned(r)
    BY <2>2, <2>3, <2>4, <2>5 DEF Owned, Tracked
  <2>7. Tracked(r, given, "parameters")
    BY <2>2, <2>3, <2>4, <2>5, <2>6 DEF Tracked
  <2>8. AnswersComplete'
    BY <2>1, <2>7 DEF AnswersComplete, Tracked
  <2> QED
    BY <1>2, <2>1, <2>2, <2>4, <2>7, <2>8, AnsweredKeeps
<1> QED
  BY <1>3, <1>4

\* The buffers of a block are handed out.
LEMMA ConsumedTracked ==
  ASSUME NEW d, NEW names, Fits(d), Tracked(d, names, "buffers"), NEW i \in Indices(d), i \in d.available
  PROVE  /\ Fits(Consumed(d, i))
         /\ Tracked(Consumed(d, i), names \cup {d.entry[i].name}, "buffers")
         /\ Consumed(d, i).failed = d.failed
         /\ d.buffers[i] \notin {"handed", "deleted"}
<1> DEFINE name == d.entry[i].name
           state == IF d.buffers[i] = "none" THEN "none" ELSE "handed"
           b == [d.buffers EXCEPT ![i] = state]
           a == d.available \ {i}
           r == Consumed(d, i)
<1>1. /\ DOMAIN d.buffers = Indices(d) /\ d.buffers \in Seq(BufferState) /\ Indices(d) = 1..Len(d.entry)
      /\ Len(d.entry) \in Nat /\ d.available \in SUBSET Nat /\ d \in Data
  BY FitsIs DEF Fits, Data
<1>2. d.unpacked /\ Owned(d) /\ d.available \subseteq 0..Len(d.entry)
  BY DEF Tracked
<1>3. state \in BufferState /\ state \notin {"filled", "partial"}
  BY DEF BufferState
<1>4. r = [d EXCEPT !.available = a, !.buffers = b]
  BY DEF Consumed
<1> HIDE DEF state
<1>5. /\ b \in Seq(BufferState) /\ DOMAIN b = Indices(d) /\ b[i] = state
      /\ \A j \in Indices(d) : j # i => b[j] = d.buffers[j]
  BY <1>1, <1>3
<1> HIDE DEF b, a, r
<1>6. a \in SUBSET Nat /\ a \subseteq 0..Len(d.entry) /\ i \notin a /\ \A j \in Indices(d) : j # i => (j \in a <=> j \in d.available)
  BY <1>1, <1>2 DEF a
<1>7. /\ r \in Data /\ r.entry = d.entry /\ r.limit = d.limit /\ r.buffers = b
      /\ r.failed = d.failed /\ r.unpacked = d.unpacked /\ r.available = a
  BY <1>1, <1>4, <1>5, <1>6 DEF Data
<1>8. Fits(r) /\ Indices(r) = Indices(d) /\ Wanted(r) = Wanted(d)
  BY <1>5, <1>7, Having
<1>9. \A j \in Indices(d) : d.entry[j].name = name <=> j = i
  BY FitsIs
<1> HIDE DEF name
<1>10. Owned(r)
  BY <1>2, <1>3, <1>5, <1>6, <1>7, <1>8 DEF Owned
<1>11. \A j \in Indices(r) : r.entry[j].name \in Wanted(r) \ (names \cup {name}) => j \in r.available
  BY <1>6, <1>7, <1>8, <1>9 DEF Tracked
<1>12. ASSUME ~d.failed
       PROVE  /\ \A j \in Indices(d) \cap d.available :
                    d.buffers[j] = "filled" /\ d.entry[j].name \in Wanted(d) \ names
              /\ names \subseteq Wanted(d)
  BY <1>12 DEF Tracked
<1>13. ASSUME ~r.failed
       PROVE  /\ \A j \in Indices(r) \cap r.available :
                    r.buffers[j] = "filled" /\ r.entry[j].name \in Wanted(r) \ (names \cup {name})
              /\ names \cup {name} \subseteq Wanted(r)
  BY <1>5, <1>6, <1>7, <1>8, <1>9, <1>12, <1>13
<1>14. Tracked(r, names \cup {name}, "buffers")
  BY <1>2, <1>6, <1>7, <1>10, <1>11, <1>13 DEF Tracked
<1>15. d.buffers[i] \notin {"handed", "deleted"}
  BY <1>2 DEF Owned
<1> QED
  BY <1>7, <1>8, <1>14, <1>15 DEF r, name

\* The buffers of a collection are asked for.
LEMMA GetCollectionBuffersKeeps ==
  ASSUME RegInv, FrameInv, NEW name, GetCollectionBuffers(name)
  PROVE  FrameInv'
<1>1. PICK u \in Unpacked(data) :
          \/ Stops(u)
          \/ /\ u.result = "ok"
             /\ \/ /\ \A i \in u.data.available \ {0} : u.data.entry[i].name # name
                   /\ data' = u.data
                   /\ answer' = [is |-> "nothing", name |-> name]
                   /\ UNCHANGED <<given, misused>>
                \/ \E i \in u.data.available \ {0} :
                      /\ u.data.entry[i].name = name
                      /\ data' = Consumed(u.data, i)
                      /\ answer' = [is |-> "buffers", index |-> i, state |-> u.data.buffers[i]]
                      /\ given' = given \cup {name}
                      /\ misused' = (misused \/ u.data.buffers[i] \in {"handed", "deleted"})
  BY DEF GetCollectionBuffers
<1>2. Alive /\ UNCHANGED loading
  BY DEF GetCollectionBuffers
<1>3. CASE Stops(u)
  BY <1>2, <1>3, StopsKeeps
<1>4. CASE u.result = "ok" /\ \A i \in u.data.available \ {0} : u.data.entry[i].name # name
  <2>1. data' = u.data /\ answer' = [is |-> "nothing", name |-> name] /\ UNCHANGED <<given, misused>>
    BY <1>1, <1>4 DEF Stops
  <2> QED
    BY <1>2, <1>4, <2>1, NothingKeeps
<1>5. CASE u.result = "ok" /\ \E i \in u.data.available \ {0} : u.data.entry[i].name = name
  <2> DEFINE d == u.data
  <2>1. PICK i \in d.available \ {0} :
            /\ d.entry[i].name = name /\ data' = Consumed(d, i)
            /\ answer' = [is |-> "buffers", index |-> i, state |-> d.buffers[i]]
            /\ given' = given \cup {name}
            /\ misused' = (misused \/ d.buffers[i] \in {"handed", "deleted"})
    BY <1>1, <1>5 DEF Stops
  <2>2. Loaded /\ Fits(d) /\ Tracked(d, given, "buffers") /\ i \in Indices(d)
        /\ (~d.failed => d.buffers[i] = "filled")
    BY <1>2, <1>5, <2>1, UnpackedWell
  <2> HIDE DEF d
  <2>3. /\ Fits(Consumed(d, i)) /\ Tracked(Consumed(d, i), given \cup {name}, "buffers")
        /\ Consumed(d, i).failed = d.failed /\ d.buffers[i] \notin {"handed", "deleted"}
    BY <2>1, <2>2, ConsumedTracked
  <2>4. answer'.is = "buffers" /\ answer'.state = d.buffers[i]
    BY <2>1
  <2>5. misused' => misused
    BY <2>1, <2>3
  <2>6. AnswersComplete'
    BY <2>1, <2>2, <2>3, <2>4 DEF AnswersComplete, Tracked
  <2> QED
    BY <1>2, <2>1, <2>2, <2>3, <2>4, <2>5, <2>6, AnsweredKeeps
<1> QED
  BY <1>1, <1>3, <1>4, <1>5

\* The destructor deletes what was not handed out, and only that.
LEMMA DestroyKeeps ==
  ASSUME RegInv, FrameInv, Destroy
  PROVE  FrameInv'
<1> DEFINE left == data.available \ {0}
<1>1. Alive /\ UNCHANGED loading /\ given' = given
  BY DEF Destroy
<1>2. data # NoData /\ answer.is # "wild" /\ Loaded /\ Fits(data)
  BY <1>1 DEF Alive, FrameInv, DataOK
<1>3. Indices(data) = 1..Len(data.entry) /\ Len(data.entry) \in Nat
  BY <1>2, FitsIs
<1>4. \/ Tracked(data, given, answer.is)
      \/ left = {}
  BY <1>2 DEF FrameInv, DataOK, Untouched
<1>5. Tracked(data, given, answer.is) => left \subseteq Indices(data)
  BY <1>3 DEF Tracked
<1>6. CASE \E i \in left : data.buffers[i] = "none"
  <2>1. data' = data /\ answer' = [is |-> "terminated"] /\ UNCHANGED misused
    BY <1>6 DEF Destroy
  <2>2. answer'.is = "terminated"
    BY <2>1
  <2>3. Tracked(data, given, answer.is)
    BY <1>4, <1>6
  <2>4. data.failed
    BY <1>2, <1>5, <1>6, <2>3 DEF Tracked
  <2>5. Tracked(data, given, "terminated")
    BY <1>2, <2>3, HowTracked
  <2>6. Loaded'
    BY <1>1, <1>2 DEF Loaded, loading
  <2>7. DataOK'
    BY <1>1, <1>2, <2>1, <2>2, <2>5, <2>6 DEF DataOK
  <2>8. AnswerOK'
    BY <1>2, <2>1, <2>2, <2>4 DEF FrameInv, AnswerOK
  <2>9. AnswersComplete'
    BY <2>1, <2>2, <2>4 DEF AnswersComplete
  <2> QED
    BY <2>7, <2>8, <2>9 DEF FrameInv
<1>7. CASE ~\E i \in left : data.buffers[i] = "none"
  <2>1. /\ data' = NoData /\ answer' = [is |-> "none"]
        /\ misused' = (misused \/ \E i \in left : data.buffers[i] \in {"handed", "deleted"})
    BY <1>7 DEF Destroy
  <2>2. answer'.is = "none"
    BY <2>1
  <2>3. ASSUME NEW i \in left
        PROVE  data.buffers[i] \notin {"handed", "deleted"}
    <3>1. Owned(data) /\ i \in Indices(data)
      BY <1>4, <1>5 DEF Tracked
    <3>2. data.buffers[i] \in {"filled", "partial"}
      BY <1>7, <3>1 DEF Owned
    <3> QED
      BY <3>2
  <2>4. ~misused'
    BY <2>1, <2>3 DEF FrameInv, AnswerOK
  <2> QED
    BY <2>1, <2>2, <2>4 DEF FrameInv, DataOK, AnswerOK, AnswersComplete
<1> QED
  BY <1>6, <1>7

\* An entry is read.
LEMMA ReadEntryKeeps ==
  ASSUME FrameInv, NEW e \in Entry, NEW limit \in Limits, ReadEntry(e, limit)
  PROVE  FrameInv'
<1> DEFINE b == [i \in 1..Len(e) |-> "none"]
           d == [entry |-> e, limit |-> limit, unpacked |-> FALSE, available |-> {},
                 buffers |-> b, failed |-> FALSE]
<1>1. Loaded /\ given' = {} /\ misused' = misused /\ UNCHANGED loading
  BY DEF ReadEntry
<1>2. Len(e) \in Nat
  BY EntriesAssumption
<1>3. b \in Seq(BufferState) /\ Len(b) = Len(e) /\ \A i \in 1..Len(e) : b[i] = "none"
  BY <1>2 DEF BufferState
<1>4. CASE limit \subseteq Names(d)
  <2>1. data' = d /\ answer' = [is |-> "none"]
    BY <1>4 DEF ReadEntry
  <2>2. answer'.is = "none"
    BY <2>1
  <2> HIDE DEF b
  <2>3. /\ d \in Data /\ d.entry = e /\ d.limit = limit /\ d.buffers = b
        /\ ~d.unpacked /\ d.available = {} /\ ~d.failed
    BY <1>3 DEF Data
  <2> HIDE DEF d
  <2>4. Fits(d)
    BY <1>3, <1>4, <2>3 DEF Fits
  <2>5. Untouched(d)
    BY <1>3, <2>3 DEF Untouched, Indices
  <2>6. Loaded' /\ d # NoData
    BY <1>1, <2>4, FitsIs DEF Loaded, loading
  <2>7. DataOK'
    BY <1>1, <2>1, <2>2, <2>4, <2>5, <2>6 DEF DataOK
  <2>8. AnswerOK' /\ AnswersComplete'
    BY <1>1, <2>1, <2>2 DEF FrameInv, AnswerOK, AnswersComplete
  <2> QED
    BY <2>7, <2>8 DEF FrameInv
<1>5. CASE ~(limit \subseteq Names(d))
  <2>1. data' = NoData /\ answer' = [is |-> "throws"]
    BY <1>5 DEF ReadEntry
  <2>2. answer'.is = "throws"
    BY <2>1
  <2> QED
    BY <1>1, <2>1, <2>2 DEF FrameInv, DataOK, AnswerOK, AnswersComplete
<1> QED
  BY <1>4, <1>5

-----------------------------------------------------------------------------
\* The initial states have the inductive invariant.
LEMMA Start == Init => IInv
<1> SUFFICES ASSUME Init
             PROVE  IInv
  OBVIOUS
<1>1. RegInv
  BY RegistriesStart DEF Init
<1>2. answer.is = "none" /\ data = NoData /\ misused = FALSE
  BY DEF Init
<1>3. DataOK /\ AnswerOK /\ AnswersComplete
  BY <1>2 DEF DataOK, AnswerOK, AnswersComplete
<1> QED
  BY <1>1, <1>3 DEF IInv, FrameInv

\* Each step keeps the inductive invariant.
LEMMA EveryStep == IInv /\ [Next]_vars => IInv'
<1> SUFFICES ASSUME IInv, [Next]_vars
             PROVE  IInv'
  OBVIOUS
<1>1. RegInv /\ FrameInv
  BY DEF IInv
<1>2. RegistriesNext \/ UNCHANGED <<registries, loading, writing>>
  BY DEF Next, vars, ReadEntry, GetCollectionBuffers, GetParameters, GetAvailableCollections, Destroy
<1>3. RegInv'
  BY <1>1, <1>2, RegistriesKeep
<1>4. CASE (RegistriesNext \/ UNCHANGED <<registries, loading, writing>>) /\ UNCHANGED frameData
  BY <1>1, <1>3, <1>4, RegistriesKeepFrame DEF IInv
<1>5. CASE \E e \in Entry, limit \in Limits : ReadEntry(e, limit)
  BY <1>1, <1>3, <1>5, ReadEntryKeeps DEF IInv
<1>6. CASE \E name \in Name : GetCollectionBuffers(name)
  BY <1>1, <1>3, <1>6, GetCollectionBuffersKeeps DEF IInv
<1>7. CASE GetParameters
  BY <1>1, <1>3, <1>7, GetParametersKeeps DEF IInv
<1>8. CASE GetAvailableCollections
  BY <1>1, <1>3, <1>8, GetAvailableCollectionsKeeps DEF IInv
<1>9. CASE Destroy
  BY <1>1, <1>3, <1>9, DestroyKeeps DEF IInv
<1> QED
  BY <1>2, <1>4, <1>5, <1>6, <1>7, <1>8, <1>9 DEF Next, vars

\* The inductive invariant always holds.
LEMMA Inductive == Spec => []IInv
  BY Start, EveryStep, PTL DEF Spec

-----------------------------------------------------------------------------
\* Buffers can be evolved from every version they can be created with, in
\* whatever order libraries and user code register their functions.
THEOREM CreatedBuffersEvolve == Spec => []CreatedCanEvolve
<1>1. IInv => CreatedCanEvolve
  BY CreatedCanEvolveIs DEF IInv
<1> QED
  BY <1>1, Inductive, PTL

\* A file gets the definitions of the datamodels of its collections, each of
\* them once, however many libraries have registered the datamodel.
THEOREM WrittenDefinitions == Spec => []DefinitionsComplete
<1>1. IInv => DefinitionsComplete
  BY DefinitionsCompleteIs DEF IInv
<1> QED
  BY <1>1, Inductive, PTL

\* The buffers of a collection are handed out once or deleted once, and none
\* is left behind.
THEOREM BuffersHaveOneOwner == Spec => []BuffersOwnedOnce
<1>1. IInv => BuffersOwnedOnce
  <2> SUFFICES ASSUME IInv
               PROVE  BuffersOwnedOnce
    OBVIOUS
  <2>1. ~misused
    BY DEF IInv, FrameInv, AnswerOK
  <2>2. ASSUME data # NoData, data.unpacked
        PROVE  Owned(data)
    BY <2>2 DEF IInv, FrameInv, DataOK, Untouched, Tracked
  <2> QED
    BY <2>1, <2>2 DEF BuffersOwnedOnce, Owned
<1> QED
  BY <1>1, Inductive, PTL

\* Buffers that are handed out are complete, not handed out for a second time
\* or against the limits, and the names on offer are those still to be got.
THEOREM AnswersStayComplete == Spec => []AnswersComplete
<1>1. IInv => AnswersComplete
  BY DEF IInv, FrameInv
<1> QED
  BY <1>1, Inductive, PTL

\* Only an entry with a type no loaded library has a block for, or with a
\* version newer than its library, stops the program.
THEOREM StopsAtUnreadable == Spec => []StopsOnlyAtUnreadable
<1>1. IInv => StopsOnlyAtUnreadable
  BY DEF IInv, FrameInv, AnswerOK, StopsOnlyAtUnreadable, Unreadable
<1> QED
  BY <1>1, Inductive, PTL
==============================================================================
