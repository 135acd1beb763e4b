------------------------------ MODULE SIOFile ------------------------------
(***************************************************************************)
(* One SIO file: the SIOWriter that writes Frames to it record by record   *)
(* (src/SIOWriter.cc) and an SIOReader that finds them with the table of   *)
(* contents at the end of the file (src/SIOReader.cc, src/SIOBlock.cc).    *)
(*                                                                         *)
(* A step of the writer appends one record.  The output is buffered: what  *)
(* is on disk is a prefix of what was written, until the file is closed.   *)
(* A record has the length 1, a Frame is a model value, and of the records *)
(* only the kind, the Frame and the positions are kept.                    *)
(***************************************************************************)
EXTENDS Naturals, Sequences, FiniteSets

CONSTANTS
    Category,        \* the categories of Frames
    EDMDefinitions,  \* the reserved name of the record with the definitions
    Frame,           \* the Frames
    None,            \* no Frame, no category
    Torn,            \* an entry whose two records do not belong together
    Unopened,        \* the table of a reader that has not opened the file
    PositionRange,   \* 2^32: positions are of type uint32_t
    MaxRecords,      \* bound: the records up to those of the last Frame
    Index            \* the entry numbers user code asks for

ASSUME CategoryAssumption == Category # {} /\ EDMDefinitions \notin Category
\* "should hopefully be enough for all practical purposes" (SIOBlock.h): the
\* podio header, the Frames, the definitions, the table and the marker fit.
ASSUME PositionAssumption ==
    /\ MaxRecords \in Nat /\ PositionRange \in Nat
    /\ MaxRecords + 4 <= PositionRange
ASSUME IndexAssumption == Index \subseteq Nat

VARIABLES
    file,         \* the records written to the file
    flushed,      \* how many of them are on disk
    stream,       \* of the writer: "good", "bad" or "closed"
    m_tocRecord,  \* of the writer: per name, the positions of the records
    writer,       \* the record it writes next: "header", "data", "edm",
                  \* "toc", "marker", or "close", "finished", "gone"
    current,      \* the category and the Frame writeFrame is working on
    result,       \* of the last writeFrame: <<"written", ...>> with the category
                  \* and the Frame, <<"throws">>, or <<"none">> yet
    readTOC,      \* of the reader: m_tocRecord
    m_nameCtr,    \* of the reader: the entry of each category to read next
    answer        \* of the reader's last readNextEntry or readEntry

vars == <<file, flushed, stream, m_tocRecord, writer, current, result,
          readTOC, m_nameCtr, answer>>
writing == <<file, flushed, stream, m_tocRecord, writer, current, result>>
reading == <<readTOC, m_nameCtr, answer>>

RecordName == Category \cup {EDMDefinitions}
ASSUME UnopenedAssumption ==
    /\ Unopened \notin [RecordName -> Seq(0..PositionRange - 1)]
    /\ Unopened \notin [Category -> Seq(Frame \cup {Torn})]
EmptyTOC == [n \in RecordName |-> <<>>]
NoFrame == [cat |-> None, frame |-> None]

\* A record, and what it says: a Frame, or a table of contents or a position.
Record(kind, content) == [kind |-> kind, content |-> content]

\* createCollIDBlock: the names, IDs and types of the collections of a Frame
Header(c, fr) == Record("header", [cat |-> c, frame |-> fr])

\* createBlocks: its parameters and its collections
Data(c, fr) == Record("data", [cat |-> c, frame |-> fr])

\* Mutant: where the record before it starts.
StartBefore(f) == (Len(f) - 2) % PositionRange

\* recInfo._file_start of the last record, converted to PositionType
FileStart(f) == (Len(f) - 1) % PositionRange

\* Mutant: the last position is replaced.
KeepLast(toc, name, pos) == [toc EXCEPT ![name] = <<pos>>]

\* SIOFileTOCRecord::addRecord
AddRecord(toc, name, pos) == [toc EXCEPT ![name] = Append(@, pos)]

\* SIOFileTOCRecord::getPosition, 0 if there is no such record
GetPosition(toc, name, i) == IF i < Len(toc[name]) THEN toc[name][i+1] ELSE 0

\* getNRecords, getRecordNames
GetNRecords(toc, name) == Len(toc[name])
GetRecordNames(toc) == {n \in RecordName : toc[n] # <<>>}

\* getAvailableCategories leaves the definitions out.
GetAvailableCategories(toc) == GetRecordNames(toc) \ {EDMDefinitions}

\* readRecord at a position of the file
At(f, pos) == f[pos + 1]

\* The two records from a position on make a Frame if they were written for
\* the same one.
FrameAt(f, pos) ==
    IF /\ pos + 2 <= Len(f)
       /\ At(f, pos).kind = "header"
       /\ At(f, pos + 1) = Data(At(f, pos).content.cat, At(f, pos).content.frame)
    THEN At(f, pos).content.frame
    ELSE Torn

-----------------------------------------------------------------------------
\* The constructor of the writer has written the podio header.
Init ==
    /\ file = <<Record("podio_header", None)>>
    /\ flushed = 0
    /\ stream = "good"
    /\ m_tocRecord = EmptyTOC
    /\ writer = "header"
    /\ current = NoFrame
    /\ result = <<"none">>
    /\ readTOC = Unopened
    /\ m_nameCtr = [n \in RecordName |-> 0]
    /\ answer = "none"

\* writeRecord
AppendRecord(record) ==
    /\ stream = "good"
    /\ file' = Append(file, record)
    /\ UNCHANGED <<flushed, stream>>

\* writeFrame: the header, whose position goes into the table of contents.
WriteHeader(c, fr) ==
    /\ writer = "header"
    /\ Len(file) + 1 <= MaxRecords
    /\ current' = [cat |-> c, frame |-> fr]
    /\ AppendRecord(Header(c, fr))
    /\ m_tocRecord' = AddRecord(m_tocRecord, c, FileStart(file'))
    /\ writer' = "data"
    /\ UNCHANGED <<result, reading>>

\* writeFrame: the data record follows the header.
WriteData ==
    /\ writer = "data"
    /\ AppendRecord(Data(current.cat, current.frame))
    /\ writer' = "header"
    /\ current' = NoFrame
    /\ result' = <<"written", current.cat, current.frame>>
    /\ UNCHANGED <<m_tocRecord, reading>>

\* writeFrame: an exception before the data record is written, when its blocks
\* are created or compressed.  The table of contents is not told.
DataThrows ==
    /\ writer = "data"
    /\ stream = "good"
    /\ writer' = "header"
    /\ current' = NoFrame
    /\ result' = <<"throws">>
    /\ UNCHANGED <<file, flushed, stream, m_tocRecord, reading>>

\* What is in the file when a write fails: possibly a part of the record.
PartOfRecord ==
    /\ stream = "good"
    /\ stream' = "bad"
    /\ \/ UNCHANGED file
       \/ file' = Append(file, Record("partial", None))

\* writeRecord throws.  The stream stays bad and every later record throws.
WriteFails ==
    /\ writer \in {"header", "data", "edm", "toc"}
    /\ PartOfRecord
    /\ writer' = IF writer = "data" THEN "header" ELSE writer
    /\ current' = NoFrame
    /\ result' = IF writer \in {"header", "data"} THEN <<"throws">> ELSE result
    /\ UNCHANGED <<flushed, m_tocRecord, reading>>

\* writeFrame when the stream is bad or closed throws at the header.
WriteRefused ==
    /\ writer \in {"header", "edm", "toc", "finished"}
    /\ stream # "good"
    /\ result' = <<"throws">>
    /\ UNCHANGED <<file, flushed, stream, m_tocRecord, writer, current, reading>>

\* The marker is written to the stream itself, and nobody asks the stream how
\* that went: finish goes on.
MarkerFails ==
    /\ writer = "marker"
    /\ PartOfRecord
    /\ writer' = "close"
    /\ UNCHANGED <<flushed, m_tocRecord, current, result, reading>>

\* finish, called by user code or by the destructor.
Finish ==
    /\ writer = "header"
    /\ writer' = "edm"
    /\ UNCHANGED <<file, flushed, stream, m_tocRecord, current, result, reading>>

WriteEDMDefinitions ==
    /\ writer = "edm"
    /\ AppendRecord(Record("edm", None))
    /\ m_tocRecord' = AddRecord(m_tocRecord, EDMDefinitions, FileStart(file'))
    /\ writer' = "toc"
    /\ UNCHANGED <<current, result, reading>>

WriteTOC ==
    /\ writer = "toc"
    /\ AppendRecord(Record("toc", m_tocRecord))
    /\ writer' = "marker"
    /\ UNCHANGED <<m_tocRecord, current, result, reading>>

\* The final words: the marker and the position of the table of contents.
WriteMarker ==
    /\ writer = "marker"
    /\ AppendRecord(Record("marker", FileStart(file)))
    /\ writer' = "close"
    /\ UNCHANGED <<m_tocRecord, current, result, reading>>

\* Mutant: frames can still be written.
CloseAndGoOn ==
    /\ writer = "close"
    /\ flushed' = Len(file)
    /\ writer' = "header"
    /\ UNCHANGED <<file, stream, m_tocRecord, current, result, reading>>

\* The stream is closed, which flushes it, as far as that works: what it could
\* not write is lost, and finish returns all the same.
Close ==
    /\ writer = "close"
    /\ stream' = "closed"
    /\ \E n \in flushed..Len(file) : flushed' = n /\ file' = SubSeq(file, 1, n)
    /\ writer' = "finished"
    /\ UNCHANGED <<m_tocRecord, current, result, reading>>

\* The stream writes some of its buffer to the disk.
Flush ==
    /\ writer \notin {"finished", "gone"}
    /\ \E n \in flushed + 1..Len(file) : flushed' = n
    /\ UNCHANGED <<file, stream, m_tocRecord, writer, current, result, reading>>

\* The process dies, and the buffer with it.  The destructor dies too if finish
\* throws.
Crash ==
    /\ writer \notin {"finished", "gone"}
    /\ file' = SubSeq(file, 1, flushed)
    /\ writer' = "gone"
    /\ UNCHANGED <<flushed, stream, m_tocRecord, current, result, reading>>

-----------------------------------------------------------------------------
\* readFileTOCRecord: the last words of the file say where the table of
\* contents is; a file that does not end with the marker has none.
TOCOf(f) ==
    IF f # <<>> /\ f[Len(f)].kind = "marker"
    THEN At(f, f[Len(f)].content).content
    ELSE EmptyTOC

\* openFile reads what is on disk.
OpenFile ==
    /\ readTOC = Unopened
    /\ readTOC' = TOCOf(SubSeq(file, 1, flushed))
    /\ UNCHANGED <<m_nameCtr, answer, writing>>

\* openFile on a reader that has a file open already: the stream refuses to be
\* opened again and reports nothing once clear() was called, so the file is
\* still the one it was and so is the table of contents.
OpenAgain ==
    /\ readTOC # Unopened
    /\ UNCHANGED vars

\* readNextEntry with the counter at i.  It moves on after the two records were
\* read, which may throw, and before the SIOFrameData is constructed, which
\* throws if it does not have the collections asked for.
ReadFrom(c, i) ==
    LET pos == GetPosition(readTOC, c, i) IN
    /\ readTOC # Unopened
    /\ \/ /\ pos = 0
          /\ answer' = "null"
          /\ m_nameCtr' = [m_nameCtr EXCEPT ![c] = i]
       \/ /\ pos # 0
          /\ \/ /\ answer' \in {FrameAt(file, pos), "throws"}
                /\ m_nameCtr' = [m_nameCtr EXCEPT ![c] = i + 1]
             \/ /\ answer' = "throws"
                /\ m_nameCtr' = [m_nameCtr EXCEPT ![c] = i]
    /\ UNCHANGED <<readTOC, writing>>

ReadNextEntry(c) == ReadFrom(c, m_nameCtr[c])

\* readEntry sets the counter first.
ReadEntry(c, i) == ReadFrom(c, i)

Next ==
    \/ \E c \in Category :
          \/ \E fr \in Frame : WriteHeader(c, fr)
          \/ ReadNextEntry(c)
          \/ \E i \in Index : ReadEntry(c, i)
    \/ WriteData
    \/ DataThrows
    \/ WriteFails
    \/ WriteRefused
    \/ MarkerFails
    \/ Finish
    \/ WriteEDMDefinitions
    \/ WriteTOC
    \/ WriteMarker
    \/ Close
    \/ Flush
    \/ Crash
    \/ OpenFile
    \/ OpenAgain

Spec == Init /\ [][Next]_vars

-----------------------------------------------------------------------------
Kinds == {"podio_header", "header", "data", "edm", "toc", "marker", "partial"}
Results == {<<"none">>, <<"throws">>} \cup ({"written"} \X Category \X Frame)

\* The types of the file, its writer and its reader.
TypeOK ==
    /\ \A i \in 1..Len(file) : file[i].kind \in Kinds
    /\ flushed \in 0..Len(file)
    /\ stream \in {"good", "bad", "closed"}
    /\ m_tocRecord \in [RecordName -> Seq(0..PositionRange - 1)]
    /\ writer \in {"header", "data", "edm", "toc", "marker", "close", "finished", "gone"}
    /\ current \in [cat : Category \cup {None}, frame : Frame \cup {None}]
    /\ result \in Results
    /\ readTOC = Unopened \/ readTOC \in [RecordName -> Seq(0..PositionRange - 1)]
    /\ m_nameCtr \in [RecordName -> Nat]
    /\ answer \in Frame \cup {Torn, "none", "null", "throws"}

Complete == file # <<>> /\ file[Len(file)].kind = "marker"

\* As long as the writer writes, and in a file that got to the disk, the table
\* of contents leads to the headers of its category, in the order they were
\* written; none of them is at position 0, which means that there is no such
\* record.
TOCLeadsToHeaders ==
    /\ TypeOK
    /\ writer \notin {"finished", "gone"} \/ Complete =>
        \A c \in Category : \A i \in 1..Len(m_tocRecord[c]) :
            LET pos == m_tocRecord[c][i] IN
            /\ pos # 0
            /\ At(file, pos).kind = "header" /\ At(file, pos).content.cat = c
            /\ i > 1 => m_tocRecord[c][i-1] < pos

\* A reader that has a table of contents has the complete one, of a file that
\* will not change any more: no crash is left that would take it away.  It
\* offers the categories and the entries whose headers are in the file.
ReaderSeesAll ==
    readTOC # Unopened /\ readTOC # EmptyTOC =>
        /\ writer \in {"close", "finished", "gone"}
        /\ readTOC = m_tocRecord
        /\ LET headers(c) == {i \in 1..Len(file) : file[i].kind = "header" /\ file[i].content.cat = c}
           IN /\ GetAvailableCategories(readTOC) = {c \in Category : headers(c) # {}}
              /\ \A c \in Category : GetNRecords(readTOC, c) = Cardinality(headers(c))

-----------------------------------------------------------------------------
\* The Frames at these positions of a file
FramesAt(f, positions) == [i \in 1..Len(positions) |-> FrameAt(f, positions[i])]

\* Where the entries of a category start; the one being written is not yet
\* among them.
Written(c) ==
    IF writer = "data" /\ current.cat = c
    THEN SubSeq(m_tocRecord[c], 1, Len(m_tocRecord[c]) - 1)
    ELSE m_tocRecord[c]

State ==
    CASE writer \in {"finished", "gone"} -> IF Complete THEN "closed" ELSE "lost"
      [] OTHER -> IF Complete THEN "written" ELSE "open"

LogBar == [c \in Category |-> IF State = "lost" THEN <<>> ELSE FramesAt(file, Written(c))]
ViewBar ==
    IF readTOC = Unopened THEN Unopened
    ELSE [c \in Category |-> FramesAt(file, readTOC[c])]
NextBar == [c \in Category |-> m_nameCtr[c]]

\* The file as Writer and Reader describe it; no writeFrame that returns tears
\* an entry, and no read answers with garbage.
Log == INSTANCE EventLog WITH
    MaxFiles <- 1, Tearable <- {}, Garbage <- {},
    log <- LogBar, wrote <- result, state <- State, view <- ViewBar, next <- NextBar

LogSpec == Log!Spec
=============================================================================
