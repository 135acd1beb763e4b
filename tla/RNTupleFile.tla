---------------------------- MODULE RNTupleFile ----------------------------
(***************************************************************************)
(* ROOT files with an RNTuple per category: the RNTupleWriters that fill   *)
(* one file after the other (src/RNTupleWriter.cc) and an RNTupleReader    *)
(* that reads several of them as one (src/RNTupleReader.cc).               *)
(*                                                                         *)
(* Each entry is bound to the buffers of its Frame anew, so that an entry  *)
(* is the Frame.  A collection stands for its ID.  A file whose writer did *)
(* not finish has nothing in it that can be read.                          *)
(***************************************************************************)
EXTENDS ConsistentColls, SequencesExt

CONSTANTS
    Category,   \* the categories of Frames
    Frame,      \* the Frames
    Contents,   \* per Frame: its collections, each "normal" or a "subset"
    NoField,    \* the names of collections ROOT can make no field for
    NoBuffers,  \* the names of collections whose type the reading program
                \* does not know
    Requests,   \* per category: the sets of names user code asks to be written
    Limits,     \* the sets of names it asks to be read, {} for all
    Index,      \* the entries it asks for
    MaxEntries, \* bound: the entries of an RNTuple
    MaxFiles,   \* bound: the files that are written
    MaxOpened,  \* bound: the files that are opened, counting each time
    None        \* what is not there yet

\* The struct of RNTupleWriter.h and, as far as it is written, of the reader.
CategoryInfo ==
    [writer : BOOLEAN, model : Seq(Name \X {"normal", "subset"}), names : Seq(Name),
     ids : Seq(Name), subsetCollections : Seq({"normal", "subset"})]

ASSUME CollectionsAssumption ==
    /\ NoField \subseteq Name /\ NoBuffers \subseteq Name
    /\ Requests \in [Category -> SUBSET SUBSET Name]
    /\ \A c \in Category : \A asked \in Requests[c] : IsFiniteSet(asked)
    /\ Limits \subseteq SUBSET Name
ASSUME FramesAssumption ==
    \A fr \in Frame :
        /\ DOMAIN Contents[fr] \subseteq Name
        /\ \A n \in DOMAIN Contents[fr] : Contents[fr][n] \in {"normal", "subset"}
\* None is no CategoryInfo, no vector of files and no number, a Frame none of the answers
\* that are not a Frame.
ASSUME DistinctAssumption ==
    /\ None \notin CategoryInfo \cup Seq(Nat) \cup Nat
    /\ Frame \cap {"none", "null", "wild", "throws"} = {}
ASSUME BoundsAssumption ==
    Index \subseteq Nat /\ MaxEntries \in Nat /\ MaxFiles \in Nat /\ MaxOpened \in Nat

VARIABLES
    m_categories,     \* of the writer: per category, its CategoryInfo, or None
    tuples,           \* per category, the entries of its RNTuple
    result,           \* of the last writeFrame
    disk,             \* the files, each with its metadata and its RNTuples
    m_filenames,      \* of the reader: the files openFiles was called with
    m_metadata,       \* the file whose metadata it has, 0 for none
    m_readers,        \* per category, the files whose RNTuples are open, or None
    m_readerEntries,  \* per category, the first entry of each of them
    m_totalEntries,   \* per category, how many entries they have together, or None
    m_collectionInfo, \* per category, its metadata, or None
    m_entries,        \* per category, the next entry
    answer            \* of the reader's last call

writing == <<m_categories, tuples, result>>
caches == <<m_readers, m_readerEntries, m_totalEntries>>
reading == <<m_filenames, m_metadata, caches, m_collectionInfo, m_entries, answer>>
tupleVars == <<writing, disk, reading>>

\* A category that has no RNTuple yet: writer is a nullptr.
NewCategory == [writer |-> FALSE, model |-> <<>>, names |-> <<>>, ids |-> <<>>,
                subsetCollections |-> <<>>]

Unwritten == [c \in Category |-> None]
Empty == [c \in Category |-> <<>>]
NoAnswer == [is |-> "none"]

TupleInit ==
    /\ m_categories = Unwritten /\ tuples = Empty /\ result = "none"
    /\ disk = <<>>
    /\ m_filenames = <<>> /\ m_metadata = 0
    /\ m_readers = [c \in Category |-> None]
    /\ m_readerEntries = Empty
    /\ m_totalEntries = [c \in Category |-> None]
    /\ m_collectionInfo = [c \in Category |-> None]
    /\ m_entries = [c \in Category |-> 0]
    /\ answer = NoAnswer

-----------------------------------------------------------------------------
\* There is a writer, with another file, until all files are written.
Writing == Len(disk) < MaxFiles

getCategoryInfo(c) == IF m_categories[c] = None THEN NewCategory ELSE m_categories[c]

\* Mutant: whether the category is new is not asked.
NamedAnew(c, asked) == {[getCategoryInfo(c) EXCEPT !.names = s] : s \in Sorted(asked)}

\* The CategoryInfo writeFrame goes on with: as long as there is no RNTuple,
\* each call decides anew what is written.
Named(c, asked) ==
    IF getCategoryInfo(c).writer THEN {getCategoryInfo(c)}
    ELSE {[getCategoryInfo(c) EXCEPT !.names = s] : s \in Sorted(asked)}

Available(info, fr) == Range(info.names) \subseteq DOMAIN Contents[fr]

\* The entry has the fields of the model; a field for a subset collection is
\* not one for a normal collection, nor the other way round.
Bindable(info, fr) ==
    \A n \in Range(info.names) : <<n, Contents[fr][n]>> \in Range(info.model)

Fill(c, info, fr) ==
    /\ Len(tuples[c]) < MaxEntries
    /\ m_categories' = [m_categories EXCEPT ![c] = info]
    /\ tuples' = [tuples EXCEPT ![c] = Append(@, fr)]
    /\ result' = "written"

Throw(c, info, why) ==
    /\ m_categories' = [m_categories EXCEPT ![c] = info]
    /\ result' = why
    /\ UNCHANGED tuples

\* The Frame does not have one of the collections.
WriteUnavailable(c, fr, asked) ==
    /\ Writing
    /\ \E info \in Named(c, asked) :
          /\ ~Available(info, fr)
          /\ Throw(c, info, "unavailable")
    /\ UNCHANGED <<disk, reading>>

\* createModels throws, and there is still no RNTuple.
WriteNoField(c, fr, asked) ==
    /\ Writing
    /\ \E info \in Named(c, asked) :
          /\ Available(info, fr)
          /\ ~info.writer
          /\ Range(info.names) \cap NoField # {}
          /\ Throw(c, info, "no field")
    /\ UNCHANGED <<disk, reading>>

\* The first Frame of the category.
WriteFirst(c, fr, asked) ==
    /\ Writing
    /\ \E info \in Named(c, asked) :
          LET kinds == [k \in 1..Len(info.names) |-> Contents[fr][info.names[k]]] IN
          /\ Available(info, fr)
          /\ ~info.writer
          /\ Range(info.names) \cap NoField = {}
          /\ Fill(c, [info EXCEPT
                        !.writer = TRUE,
                        !.model = [k \in 1..Len(kinds) |-> <<info.names[k], kinds[k]>>],
                        !.ids = info.names,
                        !.subsetCollections = kinds], fr)
    /\ UNCHANGED <<disk, reading>>

\* Not the collections of the first Frame, or not their kinds: the fields of
\* the model and the metadata stay as they are.
WriteThrows(c, fr, asked) ==
    /\ Writing
    /\ \E info \in Named(c, asked) :
          /\ Available(info, fr)
          /\ info.writer
          /\ \/ ~checkConsistentColls(info.names, asked) /\ Throw(c, info, "inconsistent")
             \/ /\ checkConsistentColls(info.names, asked)
                /\ ~Bindable(info, fr)
                /\ Throw(c, info, "no such field")
    /\ UNCHANGED <<disk, reading>>

WriteNext(c, fr, asked) ==
    /\ Writing
    /\ \E info \in Named(c, asked) :
          /\ Available(info, fr)
          /\ info.writer
          /\ checkConsistentColls(info.names, asked)
          /\ Bindable(info, fr)
          /\ Fill(c, info, fr)
    /\ UNCHANGED <<disk, reading>>

\* The writer is gone; what is left of its file is added to the disk.
Leave(file) ==
    /\ Writing
    /\ disk' = Append(disk, file)
    /\ m_categories' = Unwritten
    /\ tuples' = Empty
    /\ result' = "none"
    /\ UNCHANGED reading

\* finish and the destructor: all categories are listed, those without an
\* RNTuple as well.
Finish == Leave([readable |-> TRUE, categories |-> m_categories, tuples |-> tuples])

\* The process dies before it has written the metadata.
Crash == Leave([readable |-> FALSE, categories |-> Unwritten, tuples |-> Empty])

-----------------------------------------------------------------------------
\* The reader has not used memory that is not there.
Reading == answer.is # "wild"

\* "The files have been written with the same settings", as openFiles assumes.
Alike(files) ==
    \A f, g \in files :
        disk[f].readable /\ disk[g].readable => disk[f].categories = disk[g].categories

\* The files are remembered first; the metadata is that of the first new one,
\* if it is found in all of them.  The readers of a category that was read
\* before are not touched.
OpenFiles(files) ==
    /\ Reading
    /\ Len(m_filenames) + Len(files) <= MaxOpened
    /\ Range(files) \subseteq DOMAIN disk
    /\ Alike(Range(m_filenames) \cup Range(files))
    /\ m_filenames' = m_filenames \o files
    /\ m_metadata' = IF \A f \in Range(files) : disk[f].readable
                     THEN files[1] ELSE m_metadata
    /\ answer' = NoAnswer
    /\ UNCHANGED <<caches, m_collectionInfo, m_entries, writing, disk>>

HasTuple(f, c) == disk[f].categories[c] # None /\ disk[f].categories[c].writer

\* The files with an RNTuple of the category.
FilesWith(c) ==
    FlattenSeq([j \in 1..Len(m_filenames) |->
                  IF HasTuple(m_filenames[j], c) THEN <<m_filenames[j]>> ELSE <<>>])

EntriesBefore(c, files, k) == Len(FlattenSeq([j \in 1..k-1 |-> disk[files[j]].tuples[c]]))

\* What the members are for a category after getEntries: unless they are there,
\* the RNTuples are opened, where there is one.  Without any file that was to
\* be opened there are no readers afterwards, but the number of entries is.
Readers(c) ==
    IF m_readers[c] # None THEN m_readers[c]
    ELSE IF m_filenames = <<>> THEN None
    ELSE FilesWith(c)
Starts(c) ==
    IF m_readers[c] = None
    THEN [k \in 1..Len(FilesWith(c)) |-> EntriesBefore(c, FilesWith(c), k)]
    ELSE m_readerEntries[c]
Total(c) ==
    IF m_readers[c] = None
    THEN EntriesBefore(c, FilesWith(c), Len(FilesWith(c)) + 1)
    ELSE m_totalEntries[c]

GetEntries(c) ==
    /\ m_readers' = [m_readers EXCEPT ![c] = Readers(c)]
    /\ m_readerEntries' = [m_readerEntries EXCEPT ![c] = Starts(c)]
    /\ m_totalEntries' = [m_totalEntries EXCEPT ![c] = Total(c)]

\* readEntry asks for the entries if their number is not there.
Counted(c) == IF m_totalEntries[c] = None THEN GetEntries(c) ELSE UNCHANGED caches
Known(c) == IF m_totalEntries[c] = None THEN Total(c) ELSE m_totalEntries[c]

Answer(is, c, i, limit) == answer' = [is |-> is, category |-> c, entry |-> i, limit |-> limit]

\* getEntries as user code calls it.
CallGetEntries(c) ==
    /\ Reading
    /\ GetEntries(c)
    /\ answer' = NoAnswer
    /\ UNCHANGED <<m_filenames, m_metadata, m_collectionInfo, m_entries, writing, disk>>

availableCategories ==
    IF m_metadata = 0 THEN {}
    ELSE {c \in Category : disk[m_metadata].categories[c] # None}

\* initCategory takes the metadata of the first file, readable or not.
CollectionInfo(c) ==
    IF m_collectionInfo[c] # None THEN m_collectionInfo[c]
    ELSE IF c \in availableCategories THEN disk[m_filenames[1]].categories[c]
    ELSE None

\* There is no reader for the metadata of a file that has none.
NoMetadataReader(c) ==
    /\ m_collectionInfo[c] = None
    /\ c \in availableCategories
    /\ ~disk[m_filenames[1]].readable

\* Beyond the last entry, and for a category that is not there.
ReadNull(c, i, limit) ==
    /\ Reading
    /\ Counted(c)
    /\ \/ i >= Known(c)
       \/ m_collectionInfo[c] = None /\ c \notin availableCategories
    /\ Answer("null", c, i, limit)
    /\ UNCHANGED <<m_filenames, m_metadata, m_collectionInfo, m_entries, writing, disk>>

ReadWild(c, i, limit) ==
    /\ Reading
    /\ i < Known(c)
    /\ NoMetadataReader(c)
    /\ Counted(c)
    /\ Answer("wild", c, i, limit)
    /\ UNCHANGED <<m_filenames, m_metadata, m_collectionInfo, m_entries, writing, disk>>

\* The category is initialized, and a collection that is not in it asked for.
ReadThrows(c, i, limit) ==
    LET info == CollectionInfo(c) IN
    /\ Reading
    /\ i < Known(c)
    /\ ~NoMetadataReader(c)
    /\ info # None
    /\ ~(limit \subseteq Range(info.names))
    /\ Counted(c)
    /\ m_collectionInfo' = [m_collectionInfo EXCEPT ![c] = info]
    /\ Answer("throws", c, i, limit)
    /\ UNCHANGED <<m_filenames, m_metadata, m_entries, writing, disk>>

\* Mutant: the number of the entry is taken for the one in its file.
GlobalEntry(c, i, k) == i

\* The entry in the file of the k-th reader, from 0.
localEntry(c, i, k) == i - Starts(c)[k]

\* The reader that has the entry.
readerIndex(c, i) == Cardinality({k \in 1..Len(Starts(c)) : Starts(c)[k] <= i})

\* The Frame of an entry, unless the file does not have that entry.
EntryOf(c, i) ==
    LET k == readerIndex(c, i)
        rows == disk[Readers(c)[k]].tuples[c]
    IN IF localEntry(c, i, k) < Len(rows) THEN rows[localEntry(c, i, k) + 1] ELSE "wild"

\* The collections that are read
Wanted(info, limit) == IF limit = {} THEN Range(info.names) ELSE limit

\* The cursor moves on before the buffers are made.  A nullptr is returned if
\* the type of a collection that is to be read is not known.
ReadTuple(c, i, limit) ==
    LET info == CollectionInfo(c) IN
    /\ Reading
    /\ i < Known(c)
    /\ ~NoMetadataReader(c)
    /\ info # None
    /\ limit \subseteq Range(info.names)
    /\ Counted(c)
    /\ m_collectionInfo' = [m_collectionInfo EXCEPT ![c] = info]
    /\ m_entries' = [m_entries EXCEPT ![c] = i + 1]
    /\ Answer(IF Wanted(info, limit) \cap NoBuffers = {} THEN EntryOf(c, i) ELSE "null", c, i, limit)
    /\ UNCHANGED <<m_filenames, m_metadata, writing, disk>>

ReadEntry(c, i, limit) ==
    \/ ReadNull(c, i, limit)
    \/ ReadWild(c, i, limit)
    \/ ReadThrows(c, i, limit)
    \/ ReadTuple(c, i, limit)

ReadNextEntry(c, limit) == ReadEntry(c, m_entries[c], limit)

TupleNext ==
    \/ \E c \in Category :
          \/ \E fr \in Frame, asked \in Requests[c] :
                \/ WriteUnavailable(c, fr, asked)
                \/ WriteNoField(c, fr, asked)
                \/ WriteFirst(c, fr, asked)
                \/ WriteThrows(c, fr, asked)
                \/ WriteNext(c, fr, asked)
          \/ CallGetEntries(c)
          \/ \E limit \in Limits :
                \/ ReadNextEntry(c, limit)
                \/ \E i \in Index : ReadEntry(c, i, limit)
    \/ Finish
    \/ Crash
    \/ \E n \in 1..MaxOpened : \E files \in [1..n -> DOMAIN disk] : OpenFiles(files)

TupleSpec == TupleInit /\ [][TupleNext]_tupleVars

-----------------------------------------------------------------------------
\* The types of the writer, the files and the reader; the cursor of a category
\* never goes beyond the entries that can be there.
TupleTypeOK ==
    /\ m_categories \in [Category -> CategoryInfo \cup {None}]
    /\ tuples \in [Category -> Seq(Frame)]
    /\ \A f \in DOMAIN disk :
          /\ disk[f].readable \in BOOLEAN
          /\ disk[f].categories \in [Category -> CategoryInfo \cup {None}]
          /\ disk[f].tuples \in [Category -> Seq(Frame)]
    /\ m_filenames \in Seq(DOMAIN disk)
    /\ m_metadata \in {0} \cup DOMAIN disk
    /\ m_readers \in [Category -> Seq(DOMAIN disk) \cup {None}]
    /\ m_readerEntries \in [Category -> Seq(Nat)]
    /\ m_totalEntries \in [Category -> Nat \cup {None}]
    /\ m_collectionInfo \in [Category -> CategoryInfo \cup {None}]
    /\ m_entries \in [Category -> 0..MaxEntries * MaxOpened]

\* The vectors of a category with an RNTuple "are assumed to run in parallel"
\* (include/podio/RNTupleWriter.h), and describe the fields of the RNTuple, in
\* each file that was finished, whatever calls of writeFrame threw before the
\* first entry or in between: the reader uses a position in one of them for
\* all, and binds the fields the metadata promises.
MetadataFitsFields ==
    /\ TupleTypeOK
    /\ \A f \in DOMAIN disk, c \in Category :
        LET info == disk[f].categories[c] IN
        disk[f].tuples[c] # <<>> =>
            /\ info.names = info.ids
            /\ info.model = [k \in 1..Len(info.ids) |-> <<info.ids[k], info.subsetCollections[k]>>]
            /\ \A j \in 1..Len(disk[f].tuples[c]) : Bindable(info, disk[f].tuples[c][j])

\* The entries of all files openFiles was called with, one after the other:
\* those of a call that threw as well, and those of a file as often as it was
\* named.
Chain(c) == FlattenSeq([j \in 1..Len(m_filenames) |-> disk[m_filenames[j]].tuples[c]])

\* The reader treats the files "as if they are one file"
\* (include/podio/RNTupleReader.h): what is returned for entry i is the i-th of
\* all their entries, and a nullptr only comes if there is no such entry, or
\* for one with a collection whose type the reading program does not know.
\* Files are those of Chain.  A nullptr may also come while the reader has not
\* opened some of them, and no metadata; what it does for a first file that has
\* none is undefined.
AnswersRight ==
    LET c == answer.category
        chain == Chain(c)
        allOpen == m_readers[c] = FilesWith(c) /\ m_metadata # 0
    IN
    /\ answer.is \in Frame =>
          answer.entry < Len(chain) /\ answer.is = chain[answer.entry + 1]
    /\ answer.is = "null" /\ allOpen =>
          \/ answer.entry >= Len(chain)
          \/ Wanted(m_collectionInfo[c], answer.limit) \cap NoBuffers # {}
    /\ answer.is = "wild" => ~disk[m_filenames[1]].readable
=============================================================================
