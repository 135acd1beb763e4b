----------------------------- MODULE Registries -----------------------------
(***************************************************************************)
(* What shared libraries register with podio while they are loaded: the    *)
(* functions that create and evolve the buffers of their collection types  *)
(* (src/CollectionBufferFactory.cc, src/SchemaEvolution.cc), the           *)
(* definition of their datamodel (src/DatamodelRegistry.cc) and the blocks *)
(* that read their collections with SIO (SIOBlockFactory in                *)
(* src/SIOBlock.cc, loaded by SIOBlockLibraryLoader), and what writers     *)
(* collect of the definitions (src/DatamodelRegistryIOHelpers.cc).         *)
(*                                                                         *)
(* The initializers of a library run one at a time, in an order the linker *)
(* chose, after those of the libraries it needs.  Libraries that are       *)
(* loaded by nobody but the loader of SIO blocks are SIO libraries.  Every *)
(* library that includes the header of a datamodel registers it.           *)
(***************************************************************************)
EXTENDS Naturals, Sequences, FiniteSets

CONSTANTS
    Library,     \* the shared libraries
    Needs,       \* per library: the libraries it is linked with
    SIOLibrary,  \* those with SIO blocks
    Type,        \* the types of collections
    UserData,    \* those that are UserDataCollections
    Links,       \* those that are LinkCollections
    TypesOf,     \* per library: the types it registers, or has blocks for
    Current,     \* per type: its schema version
    Package,     \* the names of the datamodels
    PackageOf,   \* per library: the datamodel it registers, or None
    Definition,  \* per datamodel: its definition
    Evolution,   \* the evolution functions user code registers
    Paths,       \* the values of PODIO_SIOBLOCK_PATH and LD_LIBRARY_PATH
    Broken,      \* the libraries dlopen may fail to load
    NoOp,        \* noOpSchemaEvolution
    None         \* no function, no datamodel

ASSUME LibrariesAssumption ==
    /\ SIOLibrary \subseteq Library
    /\ Needs \in [Library -> SUBSET (Library \ SIOLibrary)]
    /\ TypesOf \in [Library -> SUBSET Type]
    /\ PackageOf \in [Library -> Package \cup {None}]
    /\ Broken \subseteq SIOLibrary
    /\ None \notin Package
    \* A block is of a type its library needs, which only one registers.
    /\ \A l \in SIOLibrary : TypesOf[l] \subseteq UNION {TypesOf[k] : k \in Needs[l]}
    /\ \A k, l \in Library \ SIOLibrary : k # l => TypesOf[k] \cap TypesOf[l] = {}

\* "The current version has to be the same for all invocations."
ASSUME VersionsAssumption ==
    /\ UserData \cup Links \subseteq Type
    /\ Current \in [Type -> Nat \ {0}]
    /\ \A t \in UserData \cup Links : Current[t] = 1
    /\ \A e \in Evolution : e.type \in Type /\ e.from \in 1..Current[e.type] - 1

\* Evolution functions are told from none, and from what evolveBuffers does
\* without one.
ASSUME FunctionsAssumption ==
    LET Funcs == {NoOp} \cup {e.func : e \in Evolution}
    IN (Funcs \cup {None}) \cap {"unknown", "unchanged"} = {} /\ None \notin Funcs

\* The directories are searched for SIO libraries only.
ASSUME PathsAssumption == \A path \in Paths : path.dirs \in Seq(Seq(SIOLibrary))

VARIABLES
    m_funcMap,        \* per type: the creation function of each version
    m_evolutionFuncs, \* per type: its current version, the functions of others
    m_definitions,    \* the names and definitions of the datamodels
    indexOf,          \* per library: the index its datamodel was given
    m_map,            \* per type: the library that has its block
    present,          \* the libraries that are loaded
    pending,          \* their initializers still to run
    libs,             \* the libraries the loader has yet to load
    m_loadedLibs,     \* those it has loaded
    program,          \* "start", "running", or "failed" without SIO
    collected,        \* the indices a writer has collected
    usedTypes         \* history: the types of the collections it has written

registries == <<m_funcMap, m_evolutionFuncs, m_definitions, indexOf, m_map>>
loading == <<present, pending, libs, m_loadedLibs, program>>
writing == <<collected, usedTypes>>

-----------------------------------------------------------------------------
\* f with x mapped to v
With(f, x, v) == [y \in DOMAIN f \cup {x} |-> IF y = x THEN v ELSE f[y]]

\* Mutant: only the slot of the version itself gets the function.
CreationFuncsOfVersionOnly(funcs, version, func) ==
    [i \in 1..version |-> IF i = version THEN func ELSE None]

\* registerCreationFunc: the slots that are missing up to the version get the
\* function; if there are none missing the version's own slot does.
CreationFuncs(funcs, version, func) ==
    IF Len(funcs) < version
    THEN [i \in 1..version |-> IF i <= Len(funcs) THEN funcs[i] ELSE func]
    ELSE [funcs EXCEPT ![version] = func]

RegisteredCreation(t, version, func) ==
    With(m_funcMap, t,
         CreationFuncs(IF t \in DOMAIN m_funcMap THEN m_funcMap[t] ELSE <<>>,
                       version, func))

\* Mutant: the newest version is out of bounds.
CreatesOlder(t, version) == t \in DOMAIN m_funcMap /\ version < Len(m_funcMap[t])

\* createBuffers(t, version) has a function; it is given versions from 1 on.
Creates(t, version) == t \in DOMAIN m_funcMap /\ version <= Len(m_funcMap[t])

\* registerEvolutionFunc for each of the versions: the first registration of a
\* type fixes its current version, the last one of a version its function,
\* whatever its priority.
RegisteredEvolution(t, versions, current, func) ==
    LET old == IF t \in DOMAIN m_evolutionFuncs THEN m_evolutionFuncs[t]
               ELSE [current |-> current, funcs |-> <<>>]
        size == IF Len(old.funcs) < current THEN current ELSE Len(old.funcs)
    IN With(m_evolutionFuncs, t,
            [old EXCEPT !.funcs = [i \in 1..size |->
                IF i \in versions THEN func
                ELSE IF i <= Len(old.funcs) THEN old.funcs[i] ELSE None]])

\* What evolveBuffers does with buffers of a version: nothing for the current
\* one, else it calls the function, which may be empty, or only warns.
Evolved(t, from) ==
    IF t \notin DOMAIN m_evolutionFuncs THEN "unknown"
    ELSE LET e == m_evolutionFuncs[t] IN
         IF from = e.current THEN "unchanged"
         ELSE IF from < Len(e.funcs) THEN e.funcs[from]
         ELSE "unknown"

\* Mutant: the size is taken after the definition was added.
IndexAfterwards(name) ==
    IF \E i \in 1..Len(m_definitions) : m_definitions[i].name = name
    THEN (CHOOSE i \in 1..Len(m_definitions) : m_definitions[i].name = name) - 1
    ELSE Len(m_definitions) + 1

\* registerDatamodel: the index of the name, which may be a new one.
IndexFor(name) ==
    IF \E i \in 1..Len(m_definitions) : m_definitions[i].name = name
    THEN (CHOOSE i \in 1..Len(m_definitions) : m_definitions[i].name = name) - 1
    ELSE Len(m_definitions)

\* DatamodelRegistryIndex::value registers once, in each library.
IndexedDatamodel(l) ==
    LET name == PackageOf[l]
        index == IndexFor(name)
    IN IF l \in DOMAIN indexOf \/ name = None THEN UNCHANGED <<m_definitions, indexOf>>
       ELSE /\ m_definitions' =
                  IF index < Len(m_definitions) THEN m_definitions
                  ELSE Append(m_definitions, [name |-> name, definition |-> Definition[name]])
            /\ indexOf' = With(indexOf, l, index)

-----------------------------------------------------------------------------
\* The static objects of a library: one per type, and its datamodel.
Initializers(l) ==
    {[library |-> l, what |-> "type", type |-> t] : t \in TypesOf[l]}
    \cup {[library |-> l, what |-> "datamodel", type |-> None] :
            p \in {PackageOf[l]} \ {None}}

RegistriesInit ==
    /\ m_funcMap = <<>>
    /\ m_evolutionFuncs = <<>>
    /\ m_definitions = <<>>
    /\ indexOf = <<>>
    /\ m_map = <<>>
    /\ present \in {linked \in SUBSET (Library \ SIOLibrary) :
                      \A l \in linked : Needs[l] \subseteq linked}
    /\ pending = UNION {Initializers(l) : l \in present}
    /\ libs = <<>>
    /\ m_loadedLibs = {}
    /\ program = "start"
    /\ collected = {}
    /\ usedTypes = {}

\* The initializers of the libraries this one needs have run before.
Initialized(i) ==
    /\ i \in pending
    /\ \A j \in pending : j.library \notin Needs[i.library]
    /\ pending' = pending \ {i}
    /\ UNCHANGED <<present, libs, m_loadedLibs, program, writing>>

\* The creation function of the current version, a noOp for the versions.
Registered(i, versions) ==
    /\ i.what = "type" /\ i.library \notin SIOLibrary
    /\ Initialized(i)
    /\ m_funcMap' = RegisteredCreation(i.type, Current[i.type], i.library)
    /\ m_evolutionFuncs' = RegisteredEvolution(i.type, versions, Current[i.type], NoOp)
    /\ UNCHANGED <<m_definitions, indexOf, m_map>>

\* registerCollection of a generated type
RegisterCollection(i) ==
    /\ i.type \notin UserData \cup Links
    /\ Registered(i, 1..Current[i.type])

\* registerUserDataCollection
RegisterUserData(i) ==
    /\ i.type \in UserData
    /\ Registered(i, {Current[i.type]})

\* registerLinkCollection
RegisterLinks(i) ==
    /\ i.type \in Links
    /\ Registered(i, {Current[i.type]})

\* ensureRegistration
RegisterDatamodel(i) ==
    /\ i.what = "datamodel"
    /\ Initialized(i)
    /\ IndexedDatamodel(i.library)
    /\ UNCHANGED <<m_funcMap, m_evolutionFuncs, m_map>>

\* registerBlockForCollection, from the constructor of a static block
RegisterBlock(i) ==
    /\ i.what = "type" /\ i.library \in SIOLibrary
    /\ Initialized(i)
    /\ m_map' = With(m_map, i.type, i.library)
    /\ UNCHANGED <<m_funcMap, m_evolutionFuncs, m_definitions, indexOf>>

\* User code registers an evolution function, when it is loaded or later.
RegisterEvolution(e) ==
    /\ m_evolutionFuncs' =
          RegisteredEvolution(e.type, {e.from}, Current[e.type], e.func)
    /\ UNCHANGED <<m_funcMap, m_definitions, indexOf, m_map, loading, writing>>

\* getLibNames: the SIO libraries in the directories, in their order; none
\* in those that do not exist.
LibNames(path) ==
    LET Add[n \in 0..Len(path.dirs)] ==
            IF n = 0 THEN <<>> ELSE Add[n - 1] \o path.dirs[n]
    IN Add[Len(path.dirs)]

\* With PODIO_SIOBLOCK_PATH, the first directory that exists has to have some.
Misconfigured(path) ==
    /\ path.explicit
    /\ \E n \in 1..Len(path.dirs) :
          /\ n \in path.existing
          /\ \A k \in 1..n : path.dirs[k] = <<>>

\* The constructor of the loader finds the libraries.
FindLibraries(path) ==
    /\ program = "start" /\ pending = {}
    /\ IF Misconfigured(path)
       THEN program' = "failed" /\ libs' = <<>>
       ELSE program' = "running" /\ libs' = LibNames(path)
    /\ UNCHANGED <<registries, present, pending, m_loadedLibs, writing>>

\* loadLib, and the initializers of what is loaded with the library
LoadLib ==
    /\ libs # <<>> /\ pending = {}
    /\ libs' = Tail(libs)
    /\ \/ /\ Head(libs) \in m_loadedLibs \cup Broken
          /\ UNCHANGED <<present, pending, m_loadedLibs>>
       \/ /\ Head(libs) \notin m_loadedLibs
          /\ m_loadedLibs' = m_loadedLibs \cup {Head(libs)}
          /\ present' = present \cup {Head(libs)} \cup Needs[Head(libs)]
          /\ pending' = UNION {Initializers(l) : l \in present' \ present}
    /\ UNCHANGED <<registries, program, writing>>

\* The loader is ready.
Loaded == program = "running" /\ libs = <<>> /\ pending = {}

LibraryOf(t) == CHOOSE l \in Library \ SIOLibrary : t \in TypesOf[l]

\* registerDatamodelDefinition of a collection that is written: its library
\* answers with the index of its datamodel, user data and links with none.
Collect(t) ==
    /\ pending = {}
    /\ t \in DOMAIN m_funcMap
    /\ IndexedDatamodel(LibraryOf(t))
    /\ collected' = IF PackageOf[LibraryOf(t)] = None THEN collected
                    ELSE collected \cup {indexOf'[LibraryOf(t)]}
    /\ usedTypes' = usedTypes \cup {t}
    /\ UNCHANGED <<m_funcMap, m_evolutionFuncs, m_map, loading>>

RegistriesNext ==
    \/ \E i \in pending :
          \/ RegisterCollection(i) \/ RegisterUserData(i) \/ RegisterLinks(i)
          \/ RegisterDatamodel(i) \/ RegisterBlock(i)
    \/ \E e \in Evolution : RegisterEvolution(e)
    \/ \E path \in Paths : FindLibraries(path)
    \/ LoadLib
    \/ \E t \in Type : Collect(t)

-----------------------------------------------------------------------------
\* getDatamodelName and getDatamodelDefinition of an index
DefinitionAt(index) ==
    IF index < Len(m_definitions) THEN m_definitions[index + 1]
    ELSE [name |-> "", definition |-> "{}"]

\* What the writers put into the file, and the readers make available.
DefinitionsToWrite == {DefinitionAt(index) : index \in collected}

\* Buffers can be evolved from every version they can be created with, in
\* whatever order the libraries and the user code have registered: there is
\* a function for each, and the current version is known.
CreatedCanEvolve ==
    \A t \in DOMAIN m_funcMap :
       /\ Len(m_funcMap[t]) = Current[t]
       /\ \A v \in 1..Current[t] :
             /\ Creates(t, v) /\ m_funcMap[t][v] = LibraryOf(t)
             /\ Evolved(t, v) \notin {"unknown", None}
       /\ Evolved(t, Current[t]) = "unchanged"

\* The definitions in a file are those of the datamodels of its collections,
\* each of them once, however many libraries have registered the datamodel.
DefinitionsComplete ==
    DefinitionsToWrite =
        {[name |-> p, definition |-> Definition[p]] :
            p \in {PackageOf[LibraryOf(t)] : t \in usedTypes} \ {None}}
=============================================================================
