------------------------------ MODULE ROOTFile ------------------------------
(***************************************************************************)
(* One ROOT file with a TTree per category: the ROOTWriter that fills the  *)
(* trees (src/ROOTWriter.cc) and a ROOTReader that reads them as TChains   *)
(* (src/ROOTReader.cc).                                                    *)
(*                                                                         *)
(* A branch is known by its collection and has, instead of an address, the *)
(* Frame whose buffers it points to; an entry of a tree is a copy of the   *)
(* branches when it was filled.  The parameters are always written and     *)
(* read: of them only the branches of the reader are modelled.  Files that *)
(* are read together "were written with the same settings": they are       *)
(* copies of one.                                                          *)
(*                                                                         *)
(* The chains are told the names of the files and not how many entries     *)
(* they have.  What TChain does to find that out, and which tree it has    *)
(* loaded afterwards, is external to the repository (CountEntries).        *)
(***************************************************************************)
EXTENDS ConsistentColls

CONSTANTS
    Category,   \* the categories of Frames
    Related,    \* the names of collections whose type has relations
    Frame,      \* the Frames
    Contents,   \* per Frame: its collections, each "normal" or a "subset"
    Known,      \* per Frame: the names in its ID table
    Requests,   \* the sets of names user code asks to be written
    Limits,     \* per category: the sets of names it asks to be read, {} for all
    ParamBranches, \* the branches of the parameters
    Index,      \* the entries it asks for
    MaxEntries, \* bound: the entries of a tree
    MaxFiles,   \* bound: the files that are read together
    Torn,       \* an entry that is no Frame
    Unopened    \* the view of a reader that has not opened the files

ASSUME CollectionsAssumption ==
    /\ Related \subseteq Name
    /\ \A asked \in Requests : asked \subseteq Name /\ IsFiniteSet(asked)
    /\ Limits \in [Category -> SUBSET SUBSET Name]
    /\ ParamBranches \notin Name
\* The ID table of a Frame knows all of its collections.
ASSUME FramesAssumption ==
    \A fr \in Frame :
        /\ DOMAIN Contents[fr] \subseteq Known[fr] /\ Known[fr] \subseteq Name
        /\ \A n \in DOMAIN Contents[fr] : Contents[fr][n] \in {"normal", "subset"}
ASSUME BoundsAssumption ==
    Index \subseteq Nat /\ MaxEntries \in Nat /\ MaxFiles \in Nat \ {0}
ASSUME AnswersAssumption ==
    Unopened \notin [Category -> Seq(Frame \cup {Torn})] /\ "wild" \notin Frame \cup {Torn}

VARIABLES
    m_categories,  \* per category, the CategoryInfo of the writer
    trees,         \* per category, the entries filled into its TTree
    writer,        \* "open", "closed" or "gone"
    result,        \* of the last writeFrame, its category and Frame, and what
                   \* it was asked to write
    files,         \* the files the reader has opened
    entry,         \* of the reader, per category: CategoryInfo::entry
    chain,         \* of the reader, per category: whether it is initialized
                   \* (table), whether the TChain knows how many entries it
                   \* has (counted), the tree that is loaded in it, and the
                   \* branches whose pointers lead to this tree (fresh)
    answer,        \* of the reader's last call
    visit,         \* the calls, per category: the file of the last entry and
                   \* what was read since the reader came to this file
    lapse          \* the last call read what the calls before it had not

vars == <<m_categories, trees, writer, result, files, entry, chain, answer, visit, lapse>>
writing == <<m_categories, trees, writer, result>>
history == <<visit, lapse>>
reading == <<files, entry, chain, answer, history>>

NoCategory == [tree |-> FALSE, idTable |-> {}, collsToWrite |-> <<>>,
               branches |-> <<>>, params |-> FALSE, collInfo |-> <<>>]
NoAddress == "none"
AllBranches == Name \cup {ParamBranches}
NoChain == [table |-> FALSE, counted |-> FALSE, loaded |-> 0, fresh |-> {}]
NoVisit == [file |-> 0, names |-> {}]

-----------------------------------------------------------------------------
Init ==
    /\ m_categories = [c \in Category |-> NoCategory]
    /\ trees = [c \in Category |-> <<>>]
    /\ writer = "open"
    /\ result = [is |-> "none", call |-> <<>>, asked |-> {}, first |-> FALSE]
    /\ files = 0
    /\ entry = [c \in Category |-> 0]
    /\ chain = [c \in Category |-> NoChain]
    /\ answer = "none"
    /\ visit = [c \in Category |-> NoVisit]
    /\ lapse = FALSE

\* Mutant: whether the category is new is not asked.
PreparedAnew(c, fr, asked) ==
    {[m_categories[c] EXCEPT !.tree = TRUE, !.idTable = Known[fr], !.collsToWrite = s] :
        s \in Sorted(asked)}

\* The CategoryInfo writeFrame goes on with: the first call for a category
\* decides what is written.
Prepared(c, fr, asked) ==
    IF m_categories[c].tree THEN {m_categories[c]}
    ELSE {[NoCategory EXCEPT !.tree = TRUE, !.idTable = Known[fr], !.collsToWrite = s] :
            s \in Sorted(asked)}

Available(info, fr) == Range(info.collsToWrite) \subseteq DOMAIN Contents[fr]
NoBranches(info) == info.branches = <<>> /\ ~info.params

Result(is, c, fr, asked, first) ==
    result' = [is |-> is, call |-> <<c, fr>>, asked |-> asked, first |-> first]

\* A new branch of a collection; one of a subset collection has no data.
Branch(n, fr) ==
    [name |-> n, kind |-> Contents[fr][n], refs |-> fr,
     data |-> IF Contents[fr][n] = "subset" THEN NoAddress ELSE fr]

\* Mutant: the references stay where they are.
SetDataAddress(b, fr) ==
    [b EXCEPT !.data = IF Contents[fr][b.name] = "subset" THEN @ ELSE fr]

\* setCollectionAddresses: buffers that a collection does not have do not
\* change the branch.
SetAddresses(b, fr) ==
    [b EXCEPT !.refs = fr, !.data = IF Contents[fr][b.name] = "subset" THEN @ ELSE fr]

\* setCollectionAddresses dereferences pointers to branches: there is no data
\* branch for a normal collection if the first one was a subset collection,
\* and no references branch for a subset collection of a type without relations.
NoSuchBranch(b, fr) ==
    \/ b.kind = "subset" /\ Contents[fr][b.name] = "normal"
    \/ b.kind = "normal" /\ Contents[fr][b.name] = "subset" /\ b.name \notin Related

Fill(c, info, fr) ==
    /\ Len(trees[c]) < MaxEntries
    /\ m_categories' = [m_categories EXCEPT ![c] = info]
    /\ trees' = [trees EXCEPT ![c] = Append(@, [frame |-> fr, branches |-> info.branches])]

\* writeFrame throws: the Frame does not have one of the collections.  The
\* category remembers the collections all the same.
WriteUnavailable(c, fr, asked) ==
    /\ writer = "open"
    /\ \E info \in Prepared(c, fr, asked) :
          /\ ~Available(info, fr)
          /\ m_categories' = [m_categories EXCEPT ![c] = info]
          /\ Result("unavailable", c, fr, asked, NoBranches(info))
    /\ UNCHANGED <<trees, writer, reading>>

\* writeFrame with initBranches.
WriteFirst(c, fr, asked) ==
    /\ writer = "open"
    /\ \E info \in Prepared(c, fr, asked) :
          LET colls == info.collsToWrite IN
          /\ Available(info, fr)
          /\ NoBranches(info)
          /\ Range(colls) \subseteq info.idTable
          /\ Fill(c, [info EXCEPT !.branches = [i \in 1..Len(colls) |-> Branch(colls[i], fr)],
                                  !.collInfo = [i \in 1..Len(colls) |->
                                                   <<colls[i], Contents[fr][colls[i]]>>],
                                  !.params = TRUE], fr)
          /\ Result("written", c, fr, asked, TRUE)
    /\ UNCHANGED <<writer, reading>>

\* initBranches throws at the first collection the ID table of the category
\* does not know; its branches are there already.
WriteFirstThrows(c, fr, asked) ==
    /\ writer = "open"
    /\ \E info \in Prepared(c, fr, asked) :
          LET colls == info.collsToWrite IN
          /\ Available(info, fr)
          /\ NoBranches(info)
          /\ \E k \in 1..Len(colls) :
                /\ colls[k] \notin info.idTable
                /\ \A i \in 1..k-1 : colls[i] \in info.idTable
                /\ m_categories' = [m_categories EXCEPT ![c] =
                      [info EXCEPT !.branches = [i \in 1..k |-> Branch(colls[i], fr)],
                                   !.collInfo = [i \in 1..k-1 |->
                                                    <<colls[i], Contents[fr][colls[i]]>>]]]
          /\ Result("no ID", c, fr, asked, TRUE)
    /\ UNCHANGED <<trees, writer, reading>>

\* writeFrame throws: not the collections of the first Frame.
WriteInconsistent(c, fr, asked) ==
    LET info == m_categories[c] IN
    /\ writer = "open"
    /\ Available(info, fr)
    /\ ~NoBranches(info)
    /\ ~checkConsistentColls(info.collsToWrite, asked)
    /\ Result("inconsistent", c, fr, asked, FALSE)
    /\ UNCHANGED <<m_categories, trees, writer, reading>>

\* The branches writeFrame needs are all there.
Resettable(info, fr) ==
    /\ info.params
    /\ \A i \in 1..Len(info.branches) : ~NoSuchBranch(info.branches[i], fr)

\* writeFrame with resetBranches.
WriteNext(c, fr, asked) ==
    LET info == m_categories[c] IN
    /\ writer = "open"
    /\ Available(info, fr)
    /\ ~NoBranches(info)
    /\ checkConsistentColls(info.collsToWrite, asked)
    /\ Resettable(info, fr)
    /\ Fill(c, [info EXCEPT !.branches = [i \in 1..Len(@) |-> SetAddresses(@[i], fr)]], fr)
    /\ Result("written", c, fr, asked, FALSE)
    /\ UNCHANGED <<writer, reading>>

\* resetBranches uses branches that are not there: the program is lost.
WriteWild(c, fr, asked) ==
    LET info == m_categories[c] IN
    /\ writer = "open"
    /\ Available(info, fr)
    /\ ~NoBranches(info)
    /\ checkConsistentColls(info.collsToWrite, asked)
    /\ ~Resettable(info, fr)
    /\ writer' = "gone"
    /\ Result("wild", c, fr, asked, FALSE)
    /\ UNCHANGED <<m_categories, trees, reading>>

\* finish, called by user code or by the destructor, writes the metadata of
\* the categories and closes the file.  Nobody asks how that went.
Finish ==
    /\ writer = "open"
    /\ writer' \in {"closed", "gone"}
    /\ UNCHANGED <<m_categories, trees, result, reading>>

\* The process dies, and with it the metadata.
Crash ==
    /\ writer = "open"
    /\ writer' = "gone"
    /\ UNCHANGED <<m_categories, trees, result, reading>>

-----------------------------------------------------------------------------
\* openFiles; without the metadata it throws.  The files are added to those
\* that are open, whose chains stay, and have their entries to be counted.
OpenFiles ==
    /\ writer = "closed"
    /\ \E more \in 1..MaxFiles : files + more <= MaxFiles /\ files' = files + more
    /\ chain' = [c \in Category |-> [chain[c] EXCEPT !.counted = FALSE]]
    /\ visit' = [c \in Category |-> IF files' = 1 THEN [file |-> 1, names |-> AllBranches]
                                                ELSE NoVisit]
    /\ UNCHANGED <<entry, answer, lapse, writing>>

\* Names of the collections of a category in the metadata
StoredClasses(c) == {m_categories[c].collInfo[i][1] : i \in 1..Len(m_categories[c].collInfo)}

Entries(c) == files * Len(trees[c])

\* TChain::GetEntries: to count the entries of the files it loads their trees.
\* Then the last of them is loaded, or the one that was loaded is again; the
\* branches are new ones.
CountEntries(info) ==
    IF info.counted THEN {info}
    ELSE {[info EXCEPT !.counted = TRUE, !.loaded = k, !.fresh = {}] : k \in {files, info.loaded}}

\* getEntries
GetEntries(c) ==
    /\ files # 0
    /\ m_categories[c].tree
    /\ \E info \in CountEntries(chain[c]) : chain' = [chain EXCEPT ![c] = info]
    /\ UNCHANGED <<files, entry, answer, history, writing>>

\* The Frame of an entry, unless its buffers are from several.
FrameOf(row) ==
    IF \A i \in 1..Len(row.branches) :
          row.branches[i].refs = row.frame /\ row.branches[i].data \in {NoAddress, row.frame}
    THEN row.frame ELSE Torn

\* Mutant: the branches are only looked up at the start of a tree.
AtFirstEntry(treeChange, localEntry) == localEntry = 0

reloadBranches(treeChange, localEntry) == treeChange \/ localEntry = 0

\* A category that is not in the files: a nullptr.
ReadNoCategory(c, i, limit) ==
    /\ files # 0
    /\ ~m_categories[c].tree
    /\ answer' = "null"
    /\ entry' = [entry EXCEPT ![c] = i]
    /\ lapse' = FALSE
    /\ UNCHANGED <<files, chain, visit, writing>>

\* initCategory looks the branches up in the tree that is loaded, which is the
\* first if there is none; if that is the only one its entries are counted.
InitCategory(info) ==
    IF info.table THEN info
    ELSE [table |-> TRUE, fresh |-> AllBranches,
          counted |-> info.counted \/ (info.loaded = 0 /\ files = 1),
          loaded |-> IF info.loaded = 0 THEN 1 ELSE info.loaded]

\* Beyond the last entry a nullptr, for collections that are not there an
\* exception; the cursor does not move on.
ReadNothing(c, i, limit) ==
    /\ files # 0
    /\ m_categories[c].tree
    /\ \/ i >= Entries(c) /\ answer' = "null"
       \/ i < Entries(c) /\ ~(limit \subseteq StoredClasses(c)) /\ answer' = "throws"
    /\ \E info \in CountEntries(InitCategory(chain[c])) : chain' = [chain EXCEPT ![c] = info]
    /\ entry' = [entry EXCEPT ![c] = i]
    /\ lapse' = FALSE
    /\ UNCHANGED <<files, visit, writing>>

\* LoadTree, and resetBranches of those that are read if it has to be
LoadTree(info, treeNo, localEntry, toRead) ==
    LET treeChange == treeNo # info.loaded
        kept == IF treeChange THEN {} ELSE info.fresh
    IN [info EXCEPT !.loaded = treeNo,
                    !.fresh = IF reloadBranches(treeChange, localEntry) THEN kept \cup toRead
                              ELSE kept]

\* readBranchesData: what the branches fill the buffers with, if they are those
\* of the tree that is loaded, and otherwise whatever is there.
ReadBranchesData(info, toRead, row) == IF toRead \subseteq info.fresh THEN FrameOf(row) ELSE "wild"

\* What is known of an entry from the calls alone.  An entry that is not the
\* first one of its file is read right if the entry before was in another file,
\* or if all that is read now was read with the first entry of this visit.
Lapse(last, treeNo, localEntry, toRead) ==
    /\ localEntry # 0
    /\ last.file = 0 \/ (last.file = treeNo /\ ~(toRead \subseteq last.names))

Visit(last, treeNo, localEntry, toRead) ==
    [file |-> treeNo,
     names |-> (IF last.file = treeNo THEN last.names ELSE {})
               \cup (IF localEntry = 0 \/ last.file \notin {0, treeNo} THEN toRead ELSE {})]

\* The tree of the entry is loaded and the branches of what is read are looked
\* up again if it is another one.
ReadBranches(c, i, limit) ==
    LET toRead == (IF limit = {} THEN StoredClasses(c) ELSE limit) \cup {ParamBranches}
        treeNo == i \div Len(trees[c]) + 1
        localEntry == i % Len(trees[c])
    IN
    /\ files # 0
    /\ m_categories[c].tree
    /\ i < Entries(c)
    /\ limit \subseteq StoredClasses(c)
    /\ \E info \in CountEntries(InitCategory(chain[c])) :
          LET now == LoadTree(info, treeNo, localEntry, toRead) IN
          /\ chain' = [chain EXCEPT ![c] = now]
          /\ answer' = ReadBranchesData(now, toRead, trees[c][localEntry + 1])
    /\ entry' = [entry EXCEPT ![c] = i + 1]
    /\ visit' = [visit EXCEPT ![c] = Visit(@, treeNo, localEntry, toRead)]
    /\ lapse' = Lapse(visit[c], treeNo, localEntry, toRead)
    /\ UNCHANGED <<files, writing>>

ReadFrom(c, i, limit) ==
    \/ ReadNoCategory(c, i, limit)
    \/ ReadNothing(c, i, limit)
    \/ ReadBranches(c, i, limit)

ReadNextEntry(c, limit) == ReadFrom(c, entry[c], limit)

\* readEntry sets the cursor first.
ReadEntry(c, i, limit) == ReadFrom(c, i, limit)

Next ==
    \/ \E c \in Category :
          \/ \E fr \in Frame, asked \in Requests :
                \/ WriteUnavailable(c, fr, asked)
                \/ WriteFirst(c, fr, asked)
                \/ WriteFirstThrows(c, fr, asked)
                \/ WriteInconsistent(c, fr, asked)
                \/ WriteNext(c, fr, asked)
                \/ WriteWild(c, fr, asked)
          \/ \E limit \in Limits[c] :
                \/ ReadNextEntry(c, limit)
                \/ \E i \in Index : ReadEntry(c, i, limit)
          \/ GetEntries(c)
    \/ Finish
    \/ Crash
    \/ OpenFiles

Spec == Init /\ [][Next]_vars

-----------------------------------------------------------------------------
BranchType ==
    [name : Name, kind : {"normal", "subset"}, refs : Frame, data : Frame \cup {NoAddress}]

\* The types of the writer, the trees and the reader.
TypeOK ==
    /\ m_categories \in [Category -> [tree : BOOLEAN, idTable : SUBSET Name,
                                      collsToWrite : Seq(Name), branches : Seq(BranchType),
                                      params : BOOLEAN,
                                      collInfo : Seq(Name \X {"normal", "subset"})]]
    /\ trees \in [Category -> Seq([frame : Frame, branches : Seq(BranchType)])]
    /\ writer \in {"open", "closed", "gone"}
    /\ result.asked \in SUBSET Name /\ result.first \in BOOLEAN
    /\ files \in 0..MaxFiles
    /\ entry \in [Category -> Nat]
    /\ chain \in [Category -> [table : BOOLEAN, counted : BOOLEAN, loaded : 0..MaxFiles,
                                fresh : SUBSET AllBranches]]
    /\ answer \in Frame \cup {Torn, "none", "null", "throws", "wild"}
    /\ visit \in [Category -> [file : 0..MaxFiles, names : SUBSET AllBranches]]
    /\ lapse \in BOOLEAN

\* The metadata and the tree of a category say the same: each entry has the
\* branches of the collections in the collection info, in that order and of
\* that kind, however many calls of writeFrame failed before or in between.
\* The reader takes the one as an index into the other.
InfoMatchesEntries ==
    /\ TypeOK
    /\ \A c \in Category : \A i \in 1..Len(trees[c]) :
        LET info == m_categories[c].collInfo
            row == trees[c][i].branches
        IN /\ Len(row) = Len(info)
           /\ \A k \in 1..Len(row) : <<row[k].name, row[k].kind>> = info[k]
           /\ Range(m_categories[c].collsToWrite) = StoredClasses(c)

\* A Frame with the collections of the category is never turned down, although
\* the binary search of checkConsistentColls and the order it searches use
\* different comparisons.
NoFalseAlarm ==
    \A c \in Category :
        LET info == m_categories[c] IN
        ~NoBranches(info) => checkConsistentColls(info.collsToWrite, Range(info.collsToWrite))

\* writeFrame only writes Frames with the collections of the first one:
\* checkConsistentColls "returns false if the two vectors differ in content"
\* (src/rootUtils.h).
OnlyConsistent ==
    result.is = "written" /\ ~result.first =>
        result.asked = Range(m_categories[result.call[1]].collsToWrite)

\* "After switching trees in the chain, branch pointers get invalidated so they
\* need to be reassigned" (src/ROOTReader.cc): none is used that was not.
NoStaleBranch == answer # "wild"

\* Branch pointers that were not reassigned are only used by a call for an
\* entry inside a file that is either the first one since files were opened
\* together, or that asks for something the calls since the reader came to
\* this file have not read with its first entry.
StaleOnlyAfterLapse == answer = "wild" => lapse

-----------------------------------------------------------------------------
State == IF writer = "gone" THEN "lost" ELSE writer

\* The Frames of a tree, and those of the trees of a chain.
Frames(tree) == [i \in 1..Len(tree) |-> FrameOf(tree[i])]
Chained(c) == [i \in 1..Entries(c) |-> Frames(trees[c])[((i - 1) % Len(trees[c])) + 1]]

LogBar == [c \in Category |-> IF writer = "gone" THEN <<>> ELSE Frames(trees[c])]
WroteBar ==
    CASE result.is = "written" -> <<"written", result.call[1], result.call[2]>>
      [] result.is = "none" -> <<"none">>
      [] result.is = "wild" -> <<"lost">>
      [] OTHER -> <<"throws">>
ViewBar == IF files = 0 THEN Unopened ELSE [c \in Category |-> Chained(c)]

\* The Frames with a subset collection that is a normal one in another Frame.
TurnedSubset ==
    {fr \in Frame : \E n \in DOMAIN Contents[fr], other \in Frame :
        /\ n \in DOMAIN Contents[other]
        /\ Contents[other][n] = "normal" /\ Contents[fr][n] = "subset"}

\* The file as Writer and Reader describe it, but for two things: a collection
\* that has become a subset collection leaves the branch of its data where it
\* was, so that writeFrame returns and the entry is none of the Frame; and a
\* read may answer with what StaleOnlyAfterLapse is about.
Log == INSTANCE EventLog WITH
    Tearable <- TurnedSubset, Garbage <- {"wild"},
    log <- LogBar, wrote <- WroteBar, state <- State, view <- ViewBar, next <- entry

LogSpec == Log!Spec
=============================================================================
