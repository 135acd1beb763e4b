# Specifications of podio

TLA+ models of podio, the event-data-model toolkit in this repository: the
`Frame` that holds the collections of an event, the generated collections and
the handles to their objects, and the files Frames are written to and read from.
TLC checks the models on small instances; TLAPS proves the most important
properties for all instances: of the Frame, its ID table and its parameters, which
threads share, of the handles to objects and the collections they are in, of what
libraries register, and of the files of all three backends and the entries in them.

Run a check with `tlc -config X.cfg M`, a proof with `tlapm M.tla`, both in this
directory. `PROJECT.json` lists the runs, a mutant of the code for every
property, the source lines every definition stands for, the hazards the
properties are for, and the findings.

## 1. The system

An *event data model* is a YAML file. The code generator turns it into C++
classes: a *collection* per datatype, and *handles* to the objects in it. A
program puts collections into a *Frame* (an event, a run, ...), a *Writer* stores
Frames by category, a *Reader* hands out the raw data of a Frame, and the Frame
unpacks the collections when they are first asked for.

    user code ──get/put──▶ Frame ──ids, names──▶ CollectionIDTable
                            │  ▲
             createBuffers, │  │ setReferences → get(collectionID)
             prepareForWrite▼  │
                        collections ──own──▶ objects ◀──MaybeSharedPtr── handles
                            ▲ buffers
    Writer ──writeFrame──▶ SIO | TTree | RNTuple file ──▶ Reader ──raw data──▶ Frame

| component | state | operations | what is hard | what makes it correct |
|---|---|---|---|---|
| Frame (`include/podio/Frame.h`) | the raw data, the map of collections, two mutexes, `m_retrievedIDs` | get, put, getAvailableCollections, getCollectionForWrite | two threads in `doGet`; the mutexes are released between taking buffers out and emplacing the collection; recursion over cyclic relations | nothing unpacked twice or lost, references set once, pointers stay valid, every get returns |
| CollectionIDTable | two parallel vectors, a mutex | add, name, collectionID | copied by `Frame::getIDTable` without the mutex; 32 bit hashes collide | the vectors agree, IDs are stable, lookups lead back |
| handles (`MaybeSharedPtr`, `Obj`, the object templates) | a pointer and a control block with a count and an `owned` flag | construct, copy, move, destroy, push_back | the last destructor has two steps; `push_back` changes the owner under other handles | no double deletion, no leak, one owner |
| generated collections (`Collection`, `CollectionData`) | entries, relation vectors, data and ObjectID buffers, flags | create, push_back, setSubsetCollection, clear, prepareForWrite, setReferences | index arithmetic over several vectors, preparation that throws or runs on two threads, changes of the character of a collection | what is prepared reads back as it was |
| LinkCollection, LinkNavigator | as a collection with two relations and a weight; two multimaps | as above; getLinked | links pushed before and after the collection has its ID, related collections that are missing when a file is read, links without an end | what is prepared reads back; a link is found from both ends |
| UserDataCollection | a vector of numbers | push_back, prepareForWrite | nothing | - |
| GenericParameters | four maps with a mutex each | set, get, getKeys, getKeysAndValues, loadFrom, copy | a size read before the lock; a copy of all four maps; some accesses are unlocked | every operation takes effect at one moment |
| SchemaEvolution, CollectionBufferFactory | functions by type and version | register, evolveBuffers, createBuffers | the order in which libraries register | there is a function for every version buffers are made with |
| DatamodelRegistry | definitions by name | register, get | every library of a datamodel registers it | one definition each, and an index that leads to it |
| SIO backend | a record stream, a table of contents, a cursor per category; the blocks of an entry | writeFrame, finish, openFile, readNextEntry, readEntry, getCollectionBuffers | crash before the table is written, failure between the two records of a Frame, reopening; blocks that cannot be unpacked, buffers that are copied pointers | a reader sees all Frames or none; buffers are handed out or deleted once |
| ROOT TTree backend | per category a tree, branches with addresses, collection info; a chain with branch pointers | the same | initialisation by the first Frame, also if it fails; addresses of earlier Frames; branch pointers of earlier trees | an entry is the Frame that was written, with the contents of the category |
| RNTuple backend | as above; the readers of a category, its metadata and where each file starts are cached | the same | caches made at the first read, opening more files or trying again, initialisation that fails | metadata and fields agree; several files read as one |
| Reader, Writer | a backend | forward to it | - | the same for every backend |
| legacy readers, DataSource, Glob, Python, code generator, tools | - | - | - | - |

`PROJECT.json` has the state of each in `components`, and 40 hazards in
`hazards`, each at its line.

## 2. The modules

| module | models | implements |
|---|---|---|
| `NameRegistry` | a set of names that only grows | |
| `CollectionIDTable` | the two vectors, the two halves of `add`, the unlocked copy | `NameRegistry` |
| `FrameContract` | what `Frame.h` documents: a growing set of available collections, get, put, list | |
| `Frame` | `doGet`, `get(collectionID)`, `put`, `availableCollections`; uses `NameRegistry` for the table | `FrameContract` (one thread) |
| `Ownership` | an object has one owner after another | |
| `MaybeSharedPtr` | control blocks, handles, collections as sets | `Ownership` |
| `CollectionStorage` | one collection and its buffers, prepared for writing by several threads | |
| `LinkCollection` | a collection of links, a subset of it, the navigator | |
| `ParameterStore` | parameters on which every operation takes effect at one moment | |
| `GenericParameters` | the four maps and their mutexes, pair by pair | `ParameterStore` |
| `Registries` | what libraries register while they are loaded, and the loader of SIO blocks | |
| `SIOFrameData` | one entry of an SIO file, on top of `Registries` | |
| `EventLog` | what `Writer.h` and `Reader.h` promise: a log of Frames per category, seen completely or not at all | |
| `SIOFile` | the SIO writer, the stream, the reader | `EventLog` |
| `ConsistentColls` | the sort and the comparison of collection names both ROOT writers use | |
| `ROOTFile` | the TTree writer and a reader of a chain | `EventLog` |
| `RNTupleFile` | RNTuple writers, one file after the other, and a reader of several files | |
| `CollectionIDTable_proofs`, `Frame_proofs`, `Objects_proofs` (`MaybeSharedPtr` and `LinkCollection`), `GenericParameters_proofs`, `Storage_proofs` (`CollectionStorage` and `RNTupleFile`), `SIOFrameData_proofs` (with `Registries`), `SIOFile_proofs`, `ROOTFile_proofs` | the theorems of section 5 | |

The `MC*` modules give the constants their values.

### CollectionIDTable

`add` holds the mutex and appends to `m_names` (`AddName`) and then to
`m_collectionIDs` (`AddID`); an `add` of a name that is there changes nothing.
Between the two steps only unlocked readers can look: `Frame::getIDTable` copies
the IDs (from `CopyIDs` to `CopyNames`) and then the names (from `CopyNames` to
`CopyDone`). Copying a `std::vector` takes its time: an `emplace_back` meanwhile may move
the elements and free the old buffer, or write where the copy reads. `AddName` and `AddID`
therefore may turn the copies of their vector that are under way into `"wild"` ones
(`RunInto`), any subset of them, of which nothing is said any more; the others have what was
in the vector when they started. The lookups are operators on two sequences and apply to
the table and to a copy. The hash is a constant function, injective or not, and the IDs
of the names from a file (`FileIDs`) are whatever the file says.

### Frame

A step is one critical section of `doGet`. `m_data` is what is left of the raw
data, `m_collections` the map, `stack[t]` the activations of `doGet` of a thread:
`Lookup` (the map), `Unpack` (the raw data), `Emplace` (the map again), then
`setReferences`, which goes through the stored ObjectIDs of the collection and
calls `get(collectionID)` for each: `ResolveUnknown`, `ResolveSeen`, `ResolveNew`
and `InsertID` for the unsynchronised `m_retrievedIDs`. The insertion has two
steps, and the second one may lose what another thread has inserted since. `Return`
pops an activation and stores the result in the relation the activation below
waits for. IDs are names here: the collisions are in `CollectionIDTable`.

Raw data hand out the buffers of a collection once, as those of the ROOT backends
do; SIO's unpack all blocks at the first call and then do the same.

### MaybeSharedPtr

`heap` and `relations` say whether the `Obj` and the relation vectors it may own
are still there; `ctrl` is the control block of an object, `handle` the
`MaybeSharedPtr`s. The decrement of the last destructor (`Drop`) and its deletions
(`Cleanup`) are separate steps. User code does what C++ allows without using a
handle whose object is gone. An assignment is a copy or move and a destruction.

### CollectionStorage

Two objects of the type of the collection and one of another collection, related in
any way with one OneToMany and one OneToOne relation. `prepareForWrite` appends to
the data buffer, computes the ranges of relations and flattens them; it throws at a
relation to an object that is in no collection (`PrepareThrows`), and what it leaves
in the buffers is what the next call starts with. A OneToOne relation to such an object is
written like any other. `ReadMany`, `ReadOne` and
`ReadSubset` are what `setReferences` makes of the buffers after reading: an ID of a
collection that is not there, which the one of an untracked object is, becomes a relation
that is not set. Once memory
that is not there is used (`PrepareWild`) the model stops.

A Frame may be written by several threads, each of which prepares its collections. The
call looks at `m_isPrepared` under the mutex (`Check`), gives the mutex back, and looks
again when it has it a second time: it goes on (`StillNeeded`) or finds that another
thread was faster (`AlreadyPrepared`). User code changes nothing while a thread writes.

### LinkCollection

A link is a `LinkObj` with its two related objects, which are in a collection with an ID
or not (`placed`), and a weight. `coll` is a link collection with its buffers, `subset` a
subset collection of its links. `SetID` is the collection being put into a Frame, after
which links that are pushed later get its ID from `Take`. `ReadBack` replaces both
collections by what a reader makes of the buffers when some of the related
collections, or the link collection itself, are missing; the result can be changed and
written again. `LinkNavigator` is an operator: two functions to sequences, filled link
by link as the multimaps are. The operations have their own names (`LinkInit`, `LinkNext`,
`CreateLink`, `PushBackLink`, `ClearLinks`) because `Objects_proofs` takes this module together with
`MaybeSharedPtr`. The history variables `written`, `late` and `fresh` keep what
was prepared.

### GenericParameters

`map` and `mtx` are the map and the mutex of each type; a call of a thread goes through
`Begin`, `Reserve` (the size `getKeys` reads before it locks), `Lock`, its steps under the
lock - one per pair that is read or stored - `Unlock` and `Return`. A copy holds all
four mutexes, which `std::scoped_lock` takes without deadlock. Values are model values: they
are never looked at. `ParameterStore` is the same interface with one step per operation;
in the refinement a call takes effect when it gets its lock: `StoreBar` has what a thread
inside the lock is about to store, and `AnswerBar` what it is going to answer.

### Registries and SIOFrameData

`Registries` is a program with libraries that are linked with it and libraries of SIO
blocks that `SIOBlockLibraryLoader` finds in a path (`FindLibraries`) and loads one by one
(`LoadLib`). The initializers of what is loaded are `pending` and run in any order that
respects `Needs`: creation and evolution functions by type and version, the definition of
the datamodel, the blocks. User code may register evolution functions before or after
(`RegisterEvolution`). `Collect` is a writer that takes the definitions of what it writes.

`SIOFrameData` takes one entry of the file: `GetCollectionBuffers` unpacks all blocks
at the first call (`Unpacked`), as far as the record can be read, throws away those outside
of the limits (`Limited`) and hands out a copy of the pointers (`Consumed`). A block
or buffers that are a nullptr end the program (`"wild"`), and so does an exception in the
destructor (`"terminated"`).

### SIOFile

A record has the length 1 and positions are taken modulo `PositionRange`. Each write
of a record is a step and may fail, in part or completely, which throws (`WriteFails`) -
but for the marker, whose `write` nobody checks (`MarkerFails`: `finish` goes on). What is
written is buffered and reaches the disk at any time (`Flush`) and when the file is closed, if
that works: `Close` loses any part of what is still in the buffer, and again nobody is told. A
crash keeps what is on the disk. In the log a file that was finished without its marker
is lost (`EventLog!Lose`). The reader may open the file at any of these
moments. A Frame read from a position is `Torn` if the two records there do not
belong together. `LogBar` is the log the file stands for: the Frames at the positions in
the table of contents, without the one whose data record is still to come. `result`
remembers what the last `writeFrame` did and of which Frame and category, so that the log
is asked for the Frame that was given (`EventLog!wrote`).

### ROOTFile

A branch is known by its collection and has, instead of addresses, the Frame its
references and its data point to; filling the tree copies the branches. `writeFrame`
is one of six actions: a collection is missing, the first Frame, the first Frame with
an ID the table does not know, other collections than those of the category, another
Frame, or a branch that is not there. `checkConsistentColls` (in `ConsistentColls`) is the binary search of
the C++ library with the comparison of the code; names have a length and a place in
the case-insensitive order.

`chain` is what the reader has of a category: whether it was initialized, whether the
`TChain` knows how many entries it has, the tree that is loaded, and the branches whose
pointers lead to that tree (`fresh`); those of the parameters are one of them. The files are added to
a chain without their numbers of entries (`ROOTReader.cc:304`), so that
`TChain::GetEntries` has to load their trees when it is first called, by `getEntries` or by
the first read, after `initCategory` has looked the branches up. What that leaves loaded is
ROOT's business and external here: `CountEntries` allows the last tree or the one that was loaded
before, in either case with new branches. It is the nondeterministic choice a reader of this
repository has to reckon with. A read whose branches are not all `fresh` answers
`"wild"`. `openFiles` may be called again; it adds the files to the chains that are there.
The files of a chain are copies of one, which is the assumption `openFiles` states
("written with the same settings").

`visit` and `lapse` are history. They are computed from the calls alone - which entry, which
file, which collections - and say when a call reads what the calls before it have not
made sure of: `StaleOnlyAfterLapse` ties `"wild"` to them.

An entry written through the address of an earlier Frame, whose buffers may be gone, is
`Torn`. `writeFrame` returns when it writes one, if a collection was a normal one
before and is a subset now (`SetAddresses`). The log says of which Frames (`TurnedSubset`),
and of no others; it also says that a read may answer with garbage (`"wild"`), where
`StaleOnlyAfterLapse` says when.

### RNTupleFile

`m_categories` is the writer's, `tuples` what it has filled; `Finish` and `Crash` put the
file on the `disk` and the next writer starts. Unlike the TTree writer, the RNTuple
writer takes the names of the collections anew with every call until there is an
RNTuple (`Named`), and binds every entry to the buffers of its Frame, so that an entry is
a Frame. `writeFrame` throws if a collection is missing (`WriteUnavailable`), if ROOT has
no field for a type (`WriteNoField`), or for other collections or kinds of them
(`WriteThrows`).

The reader keeps the names of all files it was ever asked to open (`m_filenames`), the
metadata of the first one of the last call (`m_metadata`), and per category what
`getEntries` and `initCategory` cache: `Readers`, `Starts`, `Total` and `CollectionInfo` are
what these members are after `getEntries`; `readEntry` calls it only if the number of entries is not there
(`Counted`), which it is, as 0, if the category was read before any file was opened. An entry that exists and has a collection of a type
the reading program has no buffers for is answered with a nullptr, after the cursor was moved
(`ReadTuple`). `OpenFiles` may be called at any
time, with any files, also with one that has no metadata; then it throws after the names
were added. The files have the same metadata, as its comment assumes, but not the same
number of entries. `EventLog` is not the specification of this module: there a reader
opens copies of one file, here it may open different ones. What they have in
common, entry `i` of the files read as one, is `AnswersRight`.

What is known of ROOT here: a file of a writer that did not finish holds nothing, and
opening an RNTuple that is not in a file throws. A `writeFrame` after `finish` is left out.
The specification is `TupleSpec`, with `TupleInit` and `TupleNext`, because `Storage_proofs`
takes this module together with `CollectionStorage`.

## 3. The runs

| run | instance | shows |
|---|---|---|
| `id_table` | 3 names, one from a file with an ID that is not its hash and collides with the hash of another; 2 threads | the vectors agree (`Consistent`), lookups lead back (`RoundTrip`), copies no `emplace_back` ran into give no wrong ID (`CopyIDsRight`), IDs never change (`IDsStable`), the table is a `NameRegistry` (`RegistrySpec`) |
| `frame_threads` | 2 threads get, put and list; two collections refer to a third one that refers back | a collection is unpacked once (`BuffersOnce`) and never lost (`NothingLost`), one `setReferences` at a time (`OneSetter`), pointers in relations lead into the map (`RelationsValid`), entries stay (`EntriesStable`), every get returns (`GetsReturn`) |
| `frame_sequential` | 1 thread; cyclic relations, a relation to itself, to a collection that was not written and to an unknown ID | after a call all relations are resolved and none is empty without reason (`RelationsResolved`), the Frame implements `FrameContract` (`ContractSpec`, with fairness) |
| `parameters` | 3 threads: one sets, one loads, one reads and copies; 2 types, 2 keys, vectors of length 0 to 2 | what was read of a map stays true as long as its mutex is held (`ReadsStayTrue`), the four maps are a `ParameterStore` (`StoreSpec`) |
| `shared_ptr` | 2 objects, 4 handles, 2 collections | counts and the life of control blocks (`CountsRight`), one owner, no double deletion and no leak (`OwnershipRight`), the ownership discipline (`SingleOwner`) |
| `storage` | 2 objects and a foreign one, 2 relations each, 2 threads that write | relation vectors and objects stay in step (`Aligned`), buffers read back as the collection, but for OneToOne relations to untracked objects, with ranges laid end to end (`RoundTrip`) |
| `links` | 2 links, an object at each end, 2 weights, a subset of 1 | links have the index and the ID of their collection (`LinksNumbered`), what was written reads back, as far as the related collections are there (`RoundTrip`), a link is found from both ends equally often (`NavigatorInverse`) |
| `sio_file` | 2 categories, 2 Frames, up to 5 records, seeking to entry 1 | the table of contents leads to headers in order (`TOCLeadsToHeaders`), a reader has the whole table of a file that will not change or none, with all categories and entries (`ReaderSeesAll`), the file is an `EventLog` (`LogSpec`) |
| `sio_data` | 6 libraries (podio, two datamodels, their blocks), one of which may not load; 3 search paths; entries of two collections of the present, an older and a newer version, 4 limits | a function for every version buffers are made with (`CreatedCanEvolve`), definitions once and complete (`DefinitionsComplete`), buffers handed out or deleted once (`BuffersOwnedOnce`), nothing wrong or too little is answered (`AnswersComplete`), the program stops at unreadable data only (`StopsOnlyAtUnreadable`) |
| `root_file` | 1 category, 3 Frames (all collections; one of them a subset; one missing), up to 3 entries in a tree, up to 3 files, seeking to entries 1, 3 and 5, reads of all collections, of one, and of one that is not there | metadata and entries agree after any failures (`InfoMatchesEntries`), a Frame with the collections of the category is never turned down (`NoFalseAlarm`), stale branches are read by a call only that asks inside a file for what was not read before (`StaleOnlyAfterLapse`), the file is an `EventLog` (`LogSpec`) |
| `rntuple_file` | 3 Frames (all collections; one of them a subset; one missing), one type ROOT has no field for and one the reading program does not know, 2 files of up to 2 entries, up to 3 opened, a category that is never written | the metadata fits the fields of the RNTuple after any failures (`MetadataFitsFields`), an entry is the right one of all files and, once they are open, a nullptr comes beyond the last one or for an entry with an unknown type only (`AnswersRight`) |
| `frame_lost_get` | 2 threads | a get answers with a nullptr for an available collection |

The last one is violated: section 6. The type invariant of a module is a run of its own only
in `id_table` and `frame_threads`; elsewhere another invariant includes it.

**Bounds.** Two threads are enough for each race here, which are all between two
critical sections of one thread and one or two of another; the proofs are for any
number. Cyclic data of two collections reach every branch of `get(collectionID)`,
including the second visit of a collection through a cycle and through itself. Two
objects with two relations each give ranges that start at 0, in the middle and at
the end; `MaxLeft` = 1 leaves at most two rows from failed preparations and one more
retry; two threads are all that can be between the two locks with different results. Four
handles to two objects allow a handle on its way out, one that is made
meanwhile and one for `push_back`. Five records are three entries in two categories
and one that is cut off; `PositionRange` is just large enough for the file, which is
the assumption of `SIOBlock.h`. Three entries in three files have
entries inside each tree, and seeking to 5, 3 and 1 crosses a boundary in both
directions, from one file to the next or beyond it. One category is enough there: the writer and the reader
keep nothing that two categories share, and the proof is for any number. Three threads are one that writes a map, one that fills it pair by pair and one
that reads it; two keys make a loop that can be seen half done, two types a copy that can
be. Two links are two between the same objects, or one with and one without an end. The
libraries are the smallest set with a datamodel that needs another one, a type in its second
version, and a library with blocks that is found twice. Three opened files, of which two may
be the same, have a first, a
middle and a last reader, and seeking to 1 and 2 reaches each of them. Names of two lengths
are what tells the order of the search from that of
the sort.

Deadlock is checked where the system never stops: a Frame or a table can always be
asked again, and so can an SIO reader, and a call of the parameters always comes back.
`shared_ptr`, `storage`, `links`, `sio_data`, `root_file` and `rntuple_file` may stop - all
objects used up, memory lost or used after it is gone, a program that could not load its
libraries, or a writer that is gone with no file to read - and say so.

Each property has a mutant in `PROJECT.json`: a change of one definition, such as a
dropped guard or reset or a step in another order, with which TLC finds it violated.

## 4. Fairness

Only `Frame` has liveness properties (`GetsReturn`, and the fairness of the contract in
`ContractSpec`). `FairSpec` assumes weak fairness of each thread's `Step`, the next
critical section inside `doGet`: a thread that runs is scheduled again, and no step waits
for anything but a `std::mutex` whose holder is inside a critical section without calls
of other code that blocks. Nothing is assumed of user code, which need not call
anything. Handles, collections and files are driven by user code alone and have safety
properties only.

## 5. The proofs

The modules of proofs hold for all values of the constants: any sets of names,
threads, objects, handles, libraries, categories and Frames, any hash function, any raw data,
any relations and any bounds. The assumptions are those named in the modules:

- the names of the raw data are in its table, and relations are sequences of names;
- an ID table that a Frame is written with has each name once (files and entries);
- there are finitely many handles, and a request names finitely many collections;
- the positions of an SIO file fit into `PositionRange` (`SIOBlock.h`);
- the version of a type is the same for all who register it (`SchemaEvolution.h:99`), evolution
  functions are told from none, and a block library is linked with the libraries of its
  types, each of which has one;
- the values that stand for no data, no file and no object are none (`NoData`, `Unopened`,
  `Null`), and no Frame is the value of an answer without a Frame (`DistinctAssumption`).

**CollectionIDTable.** `IInv` adds to the type invariant that one thread at most is
inside `add`, that the vectors agree position by position with one name ahead exactly
then, and, for a copy, that its IDs are those of the names *that follow*: the IDs are
read first and the names only grow, so the names read later begin with those the IDs
belong to. `CopiesAgree` is what `CopyIDsRight` needs and what fails if the order of
the two reads is changed. Neither says anything of a copy an `emplace_back` ran into. From it follow `TypeCorrect`, `TableConsistent`,
`CopiesGiveRightIDs`, `LookupsRoundTrip`, `IDsNeverChange` and, as a refinement,
`ImplementsRegistry`.

**Frame.** `BuffersOnce` and `OneSetter` are not inductive: they look at the top of a
stack or at activations in `setReferences`. `IInv` says of *all* activations on *all*
stacks that a collection has at most one that got its buffers (`Exclusive`), that these
are not in the raw data any more (`Taken`), that activations below the top are in
`setReferences` (`Shape`) of a collection in the map (`Entered`), that a collection from a
file has no activation about to emplace it (`FromFile`), and that each activation was
called for the next unresolved relation of the one below it (`Linked`), which is what
makes `Return` store the result at the right place (`RelationsValid`). One lemma per
action, over lemmas on what pushing, popping and replacing the top of a stack do. The
theorems: `TypeCorrect`, `UnpackedOnce`, `NoneLost`, `SetOnce`, `NoDanglingRelation`,
`EntriesNeverChange`.

More is true of a Frame that one thread uses (`OneThread`, any two threads are the same), and
false with two, as the runs named in section 6 show. `OneInv` says what the thread can
rely on because nobody interferes: what it unpacks and emplaces is not in the map
(`ActivationsOK`), so that `setReferences` works on collections from the file, and what it
looks up without setting references is in the map or not there at all. The latter is why
the recursion over cyclic relations leaves nothing out: an ID is in `m_retrievedIDs` only if
its collection is in the map, not there, or about to be unpacked by the top of the stack
(`RetrievedOK`), and a collection from the file whose relations are not complete has an
activation that will go on with them (`Completing`). For the contract, `CallsOK` ties the call
to the bottom of the stack. The theorems: `OneThreadResolves` and
the refinement `OneThreadImplements`, the safety part of `ContractSpec`.

**MaybeSharedPtr.** The count of a control block is the number of its handles
(`CountExact`, over finite sets), but that does not say who deletes what. `IInv` adds what a
handle leads to (`Handles`), that a control block is there exactly as long as a handle or a
destructor between its two steps uses it, and that such a destructor is alone (`Users`),
which parts of an object exist while it is unborn, owned by its handles or tracked by a
collection (`Objects`), and that no two collections have the same object (`Collected`).
The last fails if `push_back` also took an object that is not owned any more, `Users` if the
decrement and its test were two steps. The theorems: `CountsStayRight`,
`OwnershipStaysRight`, and the refinement `ImplementsOwnership`.

**GenericParameters.** Mutual exclusion per type is in the types (`mtx` names one thread).
The invariant says what a call has read before its lock - nothing, whatever room `getKeys`
made - (`Fresh`), inside a loop - a part of the present map - (`Reads`), and before it
unlocks - the answer of the present maps, with what it stores in them - (`Done`). A lock
is then a step of `ParameterStore` and every step inside one is none: what the thread
still has to store is counted as stored, for nobody else can look. The theorems:
`ReadsStayRight` and the refinement `ImplementsStore`.

**SIOFile.** A reader trusts the last record of the file. `MarkerLast` says why it may: a
marker is the last record, nothing but `Close` and `Crash` follows it, and the table it
leads to is the final one. Before, the writer's table has every header of its category and
nothing else, in order (`InFile`, with a count of the headers, `Counts`), `TOCWritten`
carries it from `WriteTOC` to `WriteMarker`, and `Room` says that positions do not wrap:
with `PositionAssumption` each place in `finish` leaves room for the records that are still to come.
A crash cuts the file, and so does closing it when the disk is full: either it loses the marker
or nothing. `RInv` adds, for the log, that
the header of the Frame being written is the last record (`HeaderLast`) and that no entry is
at position 0 (`NoneAtZero`). That a finished file has its marker is not among them: it is
false, and such a file is a lost one in the log. A record
that is appended changes no Frame but the one it completes (`FrameStable`). The theorems:
`TOCStaysRight`, `ReadersSeeAll`, and the refinement `ImplementsEventLog`, one lemma per
step of the log.

**CollectionStorage.** That object `i` has index `i - 1` and the `i`-th relation vectors
(`Aligned`) is nearly inductive; it also needs that an object that does not exist yet is
untracked. `RoundTrip` is about what `prepareForWrite` computes from ranges and flattened
vectors: the rows then lie end to end in the buffer of the ObjectIDs, so that the range of
row `i` holds the relations of object `i` (`WrittenBack`, from lemmas on concatenated segments).
It is inductive together with `Aligned`, because every step that changes the contents
resets `unchanged`, and it holds only because a preparation that gets to its end found
`m_data` empty. The theorems: `StorageStaysAligned`, `BuffersReadBack`.

**LinkCollection.** `RoundTrip` speaks of collections that have just been read; that they are
right then is decided long before. `LinkInv` keeps what was written on its way: the links
are numbered and nothing else has a number or an ID (`Numbered`), the buffers of a prepared
collection are the rows it was prepared with, and as many as its links unless links came
later (`BuffersMatch`), and what a subset wrote leads to its links in the collection
(`SubsetMatches`) - which `clear` would break if the subset still had one of them. The data
buffer, to which the weights are appended, is empty before a preparation. A collection that was read
is prepared still (`FreshPrepared`), so it can be neither prepared twice nor renamed.
A new collection can be no longer than there are LinkObjs: the links of a collection are
different ones (`EntriesDistinct`). The `LinkNavigator` is a fold over the links: an induction over
their number shows that it is a function with an equation per link (`NavigatorStep`), another one
that a multimap has a link as often as it is among those that were added (`Complete`). `NavigatorInverse`
holds for any sequence of links, whatever their numbers. The theorems: `LinksStayNumbered`,
`LinksReadBack`, `NavigatorsInvert`.

**Registries and SIOFrameData.** The registries have no order to rely on: `RegInv` says of
each library that is loaded that each of its types is registered or its initializer is still
pending, that a type has one creation function per version of its library, that the slots of
the evolution functions are as many and none is empty once the library has registered the type
(user code may have filled some before), and that the index a library was given still leads to
its datamodel. An entry that was looked at satisfies `Tracked`: the state of each buffer follows
from the limits, from what was handed out, and from where the record broke off. The two are one
induction, for that the program does not stop at a readable entry needs that a loaded block
library has brought the creation functions of its types. The theorems: `CreatedBuffersEvolve`,
`WrittenDefinitions`, `BuffersHaveOneOwner`, `AnswersStayComplete`, `StopsAtUnreadable`.

**ROOTFile.** `InfoMatchesEntries` does not say what a `CategoryInfo` looks like after a
`writeFrame` that threw. `CategoryOK` does: it has the names of the first request in order,
and `params` tells whether `initBranches` got to its end; only then does it have a branch and
an entry of the metadata for each name, and only then is anything filled. `RowOK` keeps
for each entry what its branches pointed to. `NoFalseAlarm` is about the binary search alone:
the search for a name never passes the name (`SearchStopsBefore`), which is proved by induction
over the length of the part that is searched, and the place it stops at has an equal one.
What the reader reads is right if the branch pointers lead to the tree
that is loaded. This is false in general - it is the finding `NoStaleBranch` of section 6 -
and the invariant says when it is true, from the history of the calls: what `visit` has of
a category is `fresh` as long as its file is the loaded one (`ReaderOK`), from which
`StaleReadsAreLapses` follows. `FileIsALog` has no hypothesis on what is asked for or when files are
opened; what the log allows beyond Writer.h and Reader.h is in two of its constants, the
Frames whose entries are torn without an exception and `"wild"` as an answer. The theorems:
`InfoStaysRight`, `NoneTurnedDown`, `StaleReadsAreLapses`, and the refinement `FileIsALog`, one lemma per step of
the log.

**RNTupleFile.** `MetadataFitsFields` speaks of files, `WriterInv` of the writer as well: from the
first entry on, when `names` is not taken anew any more, the vectors of a category agree and each
entry can be bound to its fields (`Described`), and without an RNTuple there is no entry; a
file that was not finished has nothing (`FileFits`). `AnswersRight` is about the last answer, and
the answers of a reader hang on caches that were made at different times. `OpenedAs` says what
these have in common: the files that are open for a category are those with an RNTuple of
it among *the first ones* of the files that were opened, with the entries where each starts and their
total. A failed `OpenFiles` adds to the names, which keeps this true. The files without an
RNTuple have no entries, so that the open ones have all the entries of these first files
(`KeptRows`), with which the entries of all files start (`UptoStarts`); an entry the search finds in a file is
then the one at this place in all of them (`Located`), and if all files are open there is none
behind the total, so that a nullptr for an entry before it is one for an unknown type (`KnownIs`,
`CountedFiles`: the total is that of the open files, or was taken when there were none). The theorems: `MetadataDescribesEntries`, `EntriesReadAsOneFile`.

The inductive invariants were checked with TLC on the instances of the runs before they were
proved. Recursive functions (`RangeEnd`, `LowerBound`, and those inside the folds and `FlattenSeq` of the
community modules) are proved about by an induction
over the natural numbers that follows from their well-founded order: a set of numbers that
has 0 and the successors of its members is all of them (`Induction`), and the sets are those
of the lengths for which the equations of the function have a solution, or for which it
computes the right thing.

Every safety property of the passing runs is proved, with the hypotheses of the runs where more
would be false (`OneThread`). Out of the prover's reach, and only
model-checked: liveness (`GetsReturn`, and the fairness of `ContractSpec`, whose safety part is
`OneThreadImplements`), for which ENABLED would be needed.

## 6. Where code and documents differ

With a run: `frame_lost_get`; between `unpack` and `emplace` a collection is in neither
place.

Among the findings (`findings` has the lines), with the change of a run that shows them:

- `setSubsetCollection(false)` does not bring the buffers back: `outcome # "wild"` as an
  invariant of `MCCollectionStorage.cfg`.
- Branch pointers are renewed only for the collections of the call that changes the tree:
  `NoStaleBranch` as an invariant of `MCROOTFile.cfg`.
- Even a reader that always reads everything may use stale branches: counting the entries
  loads trees between `initCategory` and `preTreeNo`. The same with `Limits <- MCOneLimit`.
- The comparison of the binary search is not the order of the vector; it lets `{a, bb, d}`
  pass for `{a, bb, c}`: `OnlyConsistent` in `MCROOTFile.cfg` with
  `Frame = {"f"}`, `Contents <- MCFullContents`, `Known <- MCFullKnown`,
  `Requests <- MCThreeOfFour`. `NoFalseAlarm` shows that it does not turn down a Frame that is
  right.
- A collection that turns from a normal one into a subset leaves the data branch at the buffer
  of an earlier Frame, and `writeFrame` returns: `LogSpec` of `MCROOTFile.cfg` fails with
  `Tearable <- {}`.
- The marker and the close at the end of an SIO file are not checked: `finish` returns and the
  file has no table of contents. `writer # "finished" \/ Complete` fails as an invariant of
  `MCSIOFile.cfg`.
- A OneToOne relation to an object in no collection is written and read back as not set, where a
  OneToMany relation makes `prepareForWrite` throw: `RoundTrip` fails if `ReadOne` has to be
  what was set.
- `getIDTable` copies vectors that another thread may be growing: `copy[t].state # "wild"`
  fails as an invariant of `MCCollectionIDTable.cfg`.
- An `RNTupleReader` answers with a nullptr for an entry that exists but has a type it does not
  know, and moves on: `AnswersRight` fails without its last disjunct.

Without an entry among the findings:

- `SIOReader::openFile` on a reader that has a file open (`OpenAgain`): opening an open
  stream sets its failbit and keeps the old file, `is_open()` is true, and
  `readFileTOCRecord` clears the failbit, so that the call reports success and the reader
  goes on with the old file, although it is to "Open the passed file for reading."
  (`include/podio/SIOReader.h:81`).
- `RNTupleReader::openFiles` adds the names of the files before it opens them
  (`RNTupleReader.cc:82`). After a call that threw, a second one with the files that are
  good reads them twice if they were among those of the first call, and if the first file
  of all has no metadata the first read uses a reader that does not exist (`ReadWild`:
  `RNTupleReader.cc:49-53`). `answer.is # "wild"` as an invariant of `MCRNTupleFile.cfg` shows
  the latter.
- Files an `RNTupleReader` opens after a category was first read are never seen for that
  category: it answers with a nullptr for their entries, although
  "FrameData from which a podio::Frame can be constructed if the category and the desired
  entry exist" is promised (`RNTupleReader.h:77-78`). That is why `AnswersRight` asks for
  `allOpen`. A category that is read before any file was opened is taken to have no
  entries until `getEntries` is called for it.
- With two threads a relation to a collection in flight is set to empty
  (`RelationsFound`, a part of `RelationsResolved`, fails), a collection may be left with
  relations that nobody
  resolves (`RelationsResolved` fails), and a `put` that overtakes a get of the same name
  makes `setReferences` work on a collection that was never read: `Emplace` then finds the name
  in the map, and the activation goes on with a collection that does not come from the file.
  All three come from the window of `frame_lost_get`; `RelationsResolved` added to
  `FrameThreads.cfg`, and `Thread = {t1, t2}` in `FrameSequential.cfg`, show the first two.
- `getAvailableCollections` joins two lists and names a collection twice that was put under the
  name of one of the raw data before that was unpacked (`Frame.h:536-541`). The model has the set
  of the names. A writer would store such a collection twice, or turn the Frame down.
- `CollectionIDTable::name` on a copy torn between the IDs and the names: an unknown ID is
  at position `size()` of the IDs, which is smaller than the number of names, so it gets a
  name.
- After a `prepareForWrite` that threw, the data buffer keeps its rows; a retry has more
  rows than relation vectors and reads beyond their end (`PrepareWild`).
- A first `writeFrame` of a category that throws because a collection is missing has
  fixed the contents of the category and its ID table, although `ROOTWriter.h` says this of
  the first Frame "that is written"; if that table does not know a collection later on,
  `initBranches` throws as well and the next Frame uses branches that are not there
  (`WriteFirstThrows`, `WriteWild`).
- The priority of an evolution function has no effect: it is looked up by version in a
  vector, and the last registration wins (`SchemaEvolution.cc:65-68`), although
  `SchemaEvolution.h:113-114` speaks of priorities.
- Creation functions make buffers of the current version of the library, so that
  `evolveBuffers` (`Frame.h:455`) never gets to call an evolution function.
- Version 0, which is what a file without type information gives, leads to the index -1 in
  `SchemaEvolution.cc:30` and `CollectionBufferFactory.cc:19`.
- An entry with a type no library has a block for, or a version newer than that of the
  library, makes `SIOFrameData` dereference a nullptr (`SIOFrameData.cc:114`,
  `SIOBlock.cc.jinja2:23`); `StopsOnlyAtUnreadable` shows that nothing else does.
- After an exception while an entry is unpacked, later calls hand out buffers that are empty
  or half read, and the destructor may end the program (`SIOFrameData.cc:140`).
- `DatamodelRegistry::getRelationNames` compares 24 characters with a literal of 25
  (`DatamodelRegistry.cc:77`), so that a UserDataCollection is never recognised there; it
  falls through to the look-up of the relations, which finds none either.
- A subset of links that is read without its collection has nullptr entries, and the index
  into the collection is not checked (`LinkCollectionData.h:138`): links that were added
  after the collection was prepared are in the subset and not in the buffers
  (`ReadBackWild`).

## 7. Not modelled, and the plan

In this order:

1. `Frame` with `getCollectionForWrite`, composed with `CollectionStorage`; its parameters are
   independent of its collections and have a module of their own.
2. An abstract specification of reading several files that `RNTupleFile` and `ROOTFile` both
   implement.

Left out of what is modelled: an SIO write that throws and leaves the stream good (an exception
of the compression inside `finish`), after which `finish` could be called again; `clear`, `empty`, `print` and the SIO writer of
`GenericParameters`, which take no lock and are right only while no thread sets a parameter;
version 0 of a type; iterators, vector members and assignments of collections.

Not planned: the encoding of blocks and their compression, ROOT and SIO themselves
(external, modelled from how they are used), the relation names in the datamodel registry
(introspection only), the numbers in a UserDataCollection, legacy readers (old files),
DataSource and Glob (driven by ROOT), the Python
bindings and tools (wrappers), the code generator (sequential text output; what it
generates is modelled from the templates).
