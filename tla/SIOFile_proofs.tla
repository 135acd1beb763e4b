---------------------------- MODULE SIOFile_proofs ----------------------------
(***************************************************************************)
(* What SIOFile.tla guarantees for any categories, Frames, number of       *)
(* records and moments of a crash.                                         *)
(*                                                                         *)
(* A reader trusts the last record of the file.  That it may do so needs   *)
(* three facts about every file: the marker is the last record and leads   *)
(* to the final table of contents (MarkerLast); as long as there is no     *)
(* marker, the table of the writer has every header and nothing else       *)
(* (InFile); and the positions do not wrap around (Room).                  *)
(*                                                                         *)
(* With these, and with the header of the Frame being written known to be  *)
(* the last record (HeaderLast), every step of the file is one of EventLog *)
(* or none.                                                                *)
(***************************************************************************)
EXTENDS SIOFile, FiniteSetTheorems, TLAPS

\* After the marker nothing is written, and after the stream was closed
\* nothing gets to the disk any more.
Ended == {"close", "finished", "gone"}
Over == {"finished", "gone"}

Contents ==
    {None} \cup [cat : Category, frame : Frame]
    \cup [RecordName -> Seq(0..PositionRange - 1)] \cup Nat
Records == [kind : Kinds, content : Contents]

\* The records are typed, and those of writeFrame are about a Frame.
Typed ==
    /\ file \in Seq(Records)
    /\ \A i \in 1..Len(file) :
          file[i].kind = "header" => file[i].content \in [cat : Category, frame : Frame]
    /\ writer = "data" => current \in [cat : Category, frame : Frame]

\* The headers of a category, as many as the table of contents has.
Headers(c) == {i \in 1..Len(file) : file[i].kind = "header" /\ file[i].content.cat = c}
Counts == \A c \in Category : Cardinality(Headers(c)) = Len(m_tocRecord[c])

InFile ==
    writer \notin Over \/ Complete =>
        /\ file # <<>>
        /\ Counts
        /\ \A c \in Category : \A i \in 1..Len(m_tocRecord[c]) :
              /\ m_tocRecord[c][i] \in 1..Len(file) - 1
              /\ file[m_tocRecord[c][i] + 1].kind = "header"
              /\ file[m_tocRecord[c][i] + 1].content.cat = c
              /\ \A j \in 1..i-1 : m_tocRecord[c][j] < m_tocRecord[c][i]

\* How many records may be written after those of the last Frame.
Extra ==
    IF writer = "data" THEN 0
    ELSE IF writer \in {"header", "edm"} THEN 1
    ELSE IF writer = "toc" THEN 2
    ELSE IF writer = "marker" THEN 3
    ELSE 4
Room == stream = "good" => Len(file) <= MaxRecords + Extra

TOCWritten ==
    writer = "marker" /\ stream = "good" =>
        file[Len(file)].kind = "toc" /\ file[Len(file)].content = m_tocRecord

MarkerLast ==
    \A i \in 1..Len(file) :
        file[i].kind = "marker" =>
            /\ i = Len(file)
            /\ writer \in Ended
            /\ file[i].content \in 0..Len(file) - 1
            /\ At(file, file[i].content).content = m_tocRecord
            /\ Counts

OnDisk == writer \in Over => flushed = Len(file)

ReaderRight ==
    readTOC # Unopened /\ readTOC # EmptyTOC =>
        /\ writer \in Ended
        /\ flushed = Len(file)
        /\ readTOC = m_tocRecord
        /\ Counts

IInv == TypeOK /\ Typed /\ InFile /\ Room /\ TOCWritten /\ MarkerLast /\ OnDisk /\ ReaderRight

-----------------------------------------------------------------------------
\* What a record that is appended leaves alone.
LEMMA Grows ==
  ASSUME Typed, NEW r \in Records, file' = Append(file, r)
  PROVE  /\ file' \in Seq(Records) /\ Len(file) \in Nat
         /\ Len(file') = Len(file) + 1
         /\ \A i \in 1..Len(file) : file'[i] = file[i]
         /\ file'[Len(file) + 1] = r
  BY DEF Typed

LEMMA HeadersFinite ==
  ASSUME Typed, NEW c
  PROVE  IsFiniteSet(Headers(c)) /\ Cardinality(Headers(c)) \in Nat
<1>1. IsFiniteSet(1..Len(file))
  BY FS_Interval DEF Typed
<1>2. IsFiniteSet(Headers(c))
  BY <1>1, FS_Subset DEF Headers
<1> QED
  BY <1>2, FS_CardinalityType

\* Only headers are counted.
LEMMA CountsAppend ==
  ASSUME Typed, NEW r \in Records, file' = Append(file, r), r.kind # "header",
         \A c \in Category : m_tocRecord'[c] = m_tocRecord[c], Counts
  PROVE  Counts'
<1>1. \A c \in Category : Headers(c)' = Headers(c)
  BY Grows DEF Headers
<1> QED
  BY <1>1 DEF Counts

LEMMA CountsHeader ==
  ASSUME TypeOK, Typed, NEW c \in Category, NEW r \in Records, file' = Append(file, r),
         r.kind = "header", r.content.cat = c, NEW pos,
         m_tocRecord' = [m_tocRecord EXCEPT ![c] = Append(m_tocRecord[c], pos)],
         Counts
  PROVE  Counts'
<1> SUFFICES ASSUME NEW d \in Category
             PROVE  Cardinality(Headers(d)') = Len(m_tocRecord'[d])
  BY DEF Counts
<1>1. CASE d = c
  <2>1. Headers(c)' = Headers(c) \cup {Len(file) + 1} /\ Len(file) + 1 \notin Headers(c)
    BY Grows DEF Headers
  <2>2. Cardinality(Headers(c)') = Cardinality(Headers(c)) + 1
    BY <2>1, HeadersFinite, FS_AddElement
  <2>3. m_tocRecord[c] \in Seq(0..PositionRange - 1)
    BY DEF TypeOK, RecordName
  <2>4. m_tocRecord'[c] = Append(m_tocRecord[c], pos)
    BY DEF TypeOK, RecordName
  <2>5. Len(m_tocRecord'[c]) = Len(m_tocRecord[c]) + 1
    BY <2>3, <2>4
  <2> QED
    BY <1>1, <2>2, <2>5 DEF Counts
<1>2. CASE d # c
  <2>1. Headers(d)' = Headers(d)
    BY <1>2, Grows DEF Headers
  <2>2. m_tocRecord'[d] = m_tocRecord[d]
    BY <1>2 DEF TypeOK, RecordName
  <2> QED
    BY <2>1, <2>2 DEF Counts
<1> QED
  BY <1>1, <1>2

\* The position of the record that was appended.
LEMMA StartOfLast ==
  ASSUME NEW f, Len(f) \in Nat, Len(f) >= 1, Len(f) <= PositionRange
  PROVE  FileStart(f) = Len(f) - 1 /\ FileStart(f) \in 0..PositionRange - 1
<1>1. PositionRange \in Nat /\ Len(f) - 1 \in 0..PositionRange - 1
  BY PositionAssumption
<1>2. (Len(f) - 1) % PositionRange = Len(f) - 1
  BY <1>1
<1> QED
  BY <1>1, <1>2 DEF FileStart

\* Before the marker is written there is none, and no reader has found a table.
LEMMA NoMarkerYet ==
  ASSUME IInv, writer \notin Ended
  PROVE  /\ \A i \in 1..Len(file) : file[i].kind # "marker"
         /\ readTOC = Unopened \/ readTOC = EmptyTOC
  BY DEF IInv, MarkerLast, ReaderRight

\* A record that is neither a header nor the marker.
LEMMA AppendOther ==
  ASSUME IInv, writer \notin Ended, writer' \notin Over,
         NEW r \in Records, r.kind \notin {"header", "marker"},
         file' = Append(file, r), flushed' = flushed, readTOC' = readTOC,
         \A c \in Category : m_tocRecord'[c] = m_tocRecord[c]
  PROVE  InFile' /\ MarkerLast' /\ OnDisk' /\ ReaderRight'
<1>1. Typed /\ TypeOK /\ InFile /\ Counts /\ file # <<>>
  BY DEF IInv, InFile, Ended, Over
<1>2. Counts'
  BY <1>1, CountsAppend
<1>3. InFile'
  <2>1. file' # <<>>
    BY <1>1, Grows
  <2>2. ASSUME NEW c \in Category, NEW i \in 1..Len(m_tocRecord'[c])
        PROVE  /\ m_tocRecord'[c][i] \in 1..Len(file') - 1
               /\ file'[m_tocRecord'[c][i] + 1].kind = "header"
               /\ file'[m_tocRecord'[c][i] + 1].content.cat = c
               /\ \A j \in 1..i-1 : m_tocRecord'[c][j] < m_tocRecord'[c][i]
    <3>1. m_tocRecord'[c] = m_tocRecord[c] /\ i \in 1..Len(m_tocRecord[c])
      OBVIOUS
    <3>2. /\ m_tocRecord[c][i] \in 1..Len(file) - 1
          /\ file[m_tocRecord[c][i] + 1].kind = "header"
          /\ file[m_tocRecord[c][i] + 1].content.cat = c
          /\ \A j \in 1..i-1 : m_tocRecord[c][j] < m_tocRecord[c][i]
      BY <1>1, <3>1 DEF InFile, Ended, Over
    <3>3. file'[m_tocRecord[c][i] + 1] = file[m_tocRecord[c][i] + 1]
      BY <1>1, <3>2, Grows
    <3>4. m_tocRecord[c][i] \in 1..Len(file') - 1
      BY <1>1, <3>2, Grows
    <3> QED
      BY <3>1, <3>2, <3>3, <3>4
  <2> QED
    BY <1>2, <2>1, <2>2 DEF InFile
<1>4. MarkerLast'
  <2>1. \A i \in 1..Len(file') : file'[i].kind # "marker"
    BY <1>1, NoMarkerYet, Grows
  <2> QED
    BY <2>1 DEF MarkerLast
<1>5. OnDisk' /\ ReaderRight'
  BY NoMarkerYet DEF OnDisk, ReaderRight
<1> QED
  BY <1>3, <1>4, <1>5

\* The table of contents is one, also with a record added.
LEMMA AddRecordType ==
  ASSUME TypeOK, NEW n \in RecordName, NEW pos \in 0..PositionRange - 1,
         m_tocRecord' = AddRecord(m_tocRecord, n, pos)
  PROVE  /\ m_tocRecord' \in [RecordName -> Seq(0..PositionRange - 1)]
         /\ m_tocRecord' = [m_tocRecord EXCEPT ![n] = Append(m_tocRecord[n], pos)]
  BY DEF TypeOK, AddRecord

\* A record that is appended keeps the types.
LEMMA AppendTypes ==
  ASSUME IInv, NEW r \in Records, file' = Append(file, r), flushed' = flushed,
         r.kind = "header" => r.content \in [cat : Category, frame : Frame]
  PROVE  /\ \A i \in 1..Len(file') : file'[i].kind \in Kinds
         /\ flushed' \in 0..Len(file')
         /\ file' \in Seq(Records)
         /\ \A i \in 1..Len(file') :
               file'[i].kind = "header" => file'[i].content \in [cat : Category, frame : Frame]
<1>1. Typed /\ TypeOK
  BY DEF IInv
<1>2. r.kind \in Kinds
  BY DEF Records
<1>3. flushed' \in 0..Len(file')
  BY <1>1, Grows DEF TypeOK
<1> QED
  BY <1>1, <1>2, <1>3, Grows DEF TypeOK, Typed

-----------------------------------------------------------------------------
LEMMA InitIInv ==
  ASSUME Init
  PROVE  IInv
<1> USE DEF Init
<1>1. PositionRange \in Nat /\ PositionRange >= 4 /\ MaxRecords \in Nat
  BY PositionAssumption
<1>2. Record("podio_header", None) \in Records /\ Record("podio_header", None).kind = "podio_header"
  BY DEF Records, Record, Contents, Kinds
<1>3. Len(file) = 1 /\ file[1] = Record("podio_header", None) /\ file \in Seq(Records)
  BY <1>2
<1>4. TypeOK
  <2>1. EmptyTOC \in [RecordName -> Seq(0..PositionRange - 1)]
    BY DEF EmptyTOC
  <2> QED
    BY <1>2, <1>3, <2>1 DEF TypeOK, NoFrame, Kinds, Results
<1>5. Typed
  BY <1>2, <1>3 DEF Typed
<1>6. InFile
  <2>1. ASSUME NEW c \in Category
        PROVE  m_tocRecord[c] = <<>> /\ Headers(c) = {}
    <3>1. m_tocRecord[c] = <<>>
      BY DEF EmptyTOC, RecordName
    <3>2. \A i \in 1..Len(file) : file[i].kind # "header"
      BY <1>2, <1>3
    <3> QED
      BY <3>1, <3>2 DEF Headers
  <2>2. Cardinality({}) = 0 /\ Len(<<>>) = 0
    BY FS_EmptySet
  <2>3. Counts
    BY <2>1, <2>2, Zenon DEF Counts
  <2> QED
    BY <1>3, <2>1, <2>2, <2>3 DEF InFile
<1>7. Room /\ TOCWritten /\ OnDisk /\ ReaderRight
  BY <1>1, <1>3 DEF Room, TOCWritten, OnDisk, ReaderRight, Extra, Over
<1>8. MarkerLast
  BY <1>2, <1>3 DEF MarkerLast
<1> QED
  BY <1>4, <1>5, <1>6, <1>7, <1>8 DEF IInv

-----------------------------------------------------------------------------
\* A record written to a file whose stream is good has a position.
LEMMA LastHasPosition ==
  ASSUME IInv, stream = "good", NEW r \in Records, file' = Append(file, r),
         writer = "header" => Len(file) + 1 <= MaxRecords, writer \notin Ended
  PROVE  /\ FileStart(file') = Len(file) /\ FileStart(file') \in 0..PositionRange - 1
         /\ file # <<>> => FileStart(file) = Len(file) - 1 /\ FileStart(file) \in 0..PositionRange - 1
<1>1. Typed /\ TypeOK /\ Room
  BY DEF IInv
<1>2. MaxRecords \in Nat /\ PositionRange \in Nat /\ MaxRecords + 4 <= PositionRange
  BY PositionAssumption
<1>3. Len(file) \in Nat /\ Len(file') = Len(file) + 1 /\ file' \in Seq(Records)
  BY <1>1, Grows
<1>4. Len(file) + 1 <= PositionRange
  <2>1. Extra \in 0..3
    BY <1>1 DEF Extra, TypeOK, Ended
  <2>2. Len(file) <= MaxRecords + Extra
    BY <1>1 DEF Room
  <2> QED
    BY <1>2, <1>3, <2>1, <2>2
<1>5. FileStart(file') = Len(file) /\ FileStart(file') \in 0..PositionRange - 1
  <2>1. Len(file') \in Nat /\ Len(file') >= 1 /\ Len(file') <= PositionRange
    BY <1>3, <1>4
  <2>2. FileStart(file') = Len(file') - 1 /\ FileStart(file') \in 0..PositionRange - 1
    BY <2>1, StartOfLast
  <2> QED
    BY <1>3, <2>2
<1>6. ASSUME file # <<>>
      PROVE  FileStart(file) = Len(file) - 1 /\ FileStart(file) \in 0..PositionRange - 1
  <2>1. Len(file) >= 1
    BY <1>1, <1>6 DEF Typed
  <2> QED
    BY <1>2, <1>3, <1>4, <2>1, StartOfLast
<1> QED
  BY <1>5, <1>6

LEMMA WriteHeaderKeeps ==
  ASSUME IInv, NEW c \in Category, NEW fr \in Frame, WriteHeader(c, fr)
  PROVE  IInv'
<1> DEFINE r == Header(c, fr)
<1>1. Typed /\ TypeOK /\ InFile /\ Counts /\ file # <<>> /\ Room
  BY DEF IInv, InFile, WriteHeader, Over
<1>2. r \in Records /\ r.kind = "header" /\ r.content = [cat |-> c, frame |-> fr] /\ r.content.cat = c
  BY DEF Records, Header, Record, Contents, Kinds
<1>3. /\ writer = "header" /\ Len(file) + 1 <= MaxRecords /\ stream = "good" /\ file' = Append(file, r)
      /\ flushed' = flushed /\ stream' = stream /\ current' = r.content /\ writer' = "data"
      /\ UNCHANGED <<result, reading>> /\ m_tocRecord' = AddRecord(m_tocRecord, c, FileStart(file'))
  BY <1>2 DEF WriteHeader, AppendRecord
<1> HIDE DEF r
<1>4. FileStart(file') = Len(file) /\ Len(file) \in 0..PositionRange - 1
  BY <1>2, <1>3, LastHasPosition DEF Ended
<1>5. /\ Len(file) \in Nat /\ Len(file) >= 1 /\ Len(file') = Len(file) + 1
      /\ \A i \in 1..Len(file) : file'[i] = file[i]
      /\ file'[Len(file) + 1] = r
  BY <1>1, <1>2, <1>3, Grows
<1>6. /\ m_tocRecord' \in [RecordName -> Seq(0..PositionRange - 1)]
      /\ m_tocRecord' = [m_tocRecord EXCEPT ![c] = Append(m_tocRecord[c], Len(file))]
  BY <1>1, <1>3, <1>4, AddRecordType DEF RecordName
<1>7. TypeOK'
  BY <1>1, <1>2, <1>3, <1>6, AppendTypes DEF TypeOK, reading
<1>8. Typed'
  BY <1>1, <1>2, <1>3, AppendTypes DEF Typed
<1>9. Counts'
  BY <1>1, <1>2, <1>3, <1>6, CountsHeader
<1>10. InFile'
  <2>1. ASSUME NEW d \in Category, NEW i \in 1..Len(m_tocRecord'[d])
        PROVE  /\ m_tocRecord'[d][i] \in 1..Len(file') - 1
               /\ file'[m_tocRecord'[d][i] + 1].kind = "header"
               /\ file'[m_tocRecord'[d][i] + 1].content.cat = d
               /\ \A j \in 1..i-1 : m_tocRecord'[d][j] < m_tocRecord'[d][i]
    <3>1. m_tocRecord[d] \in Seq(0..PositionRange - 1)
      BY <1>1 DEF TypeOK, RecordName
    <3>2. \A k \in 1..Len(m_tocRecord[d]) :
             /\ m_tocRecord[d][k] \in 1..Len(file) - 1
             /\ file[m_tocRecord[d][k] + 1].kind = "header"
             /\ file[m_tocRecord[d][k] + 1].content.cat = d
             /\ \A j \in 1..k-1 : m_tocRecord[d][j] < m_tocRecord[d][k]
      BY <1>1, <1>3 DEF InFile, Over
    <3>3. CASE i \in 1..Len(m_tocRecord[d])
      <4>1. \A j \in 1..i : m_tocRecord'[d][j] = m_tocRecord[d][j]
        BY <1>1, <1>6, <3>1, <3>3 DEF TypeOK, RecordName
      <4>2. m_tocRecord'[d][i] = m_tocRecord[d][i]
        BY <3>3, <4>1
      <4>3. file'[m_tocRecord[d][i] + 1] = file[m_tocRecord[d][i] + 1]
        <5>1. m_tocRecord[d][i] \in 1..Len(file) - 1
          BY <3>2, <3>3
        <5>2. m_tocRecord[d][i] + 1 \in 1..Len(file)
          BY <1>5, <5>1
        <5> QED
          BY <1>5, <5>2
      <4>4. m_tocRecord[d][i] \in 1..Len(file') - 1
        BY <1>5, <3>2, <3>3
      <4>5. ASSUME NEW j \in 1..i-1
            PROVE  m_tocRecord'[d][j] < m_tocRecord'[d][i]
        <5>1. m_tocRecord'[d][j] = m_tocRecord[d][j]
          <6>1. i \in Nat /\ j \in 1..i
            BY <3>3
          <6> QED
            BY <4>1, <6>1
        <5>2. m_tocRecord[d][j] < m_tocRecord[d][i]
          BY <3>2, <3>3
        <5> QED
          BY <4>2, <5>1, <5>2
      <4> QED
        BY <3>2, <3>3, <4>2, <4>3, <4>4, <4>5
    <3>4. CASE i \notin 1..Len(m_tocRecord[d])
      <4>1. d = c
        BY <1>1, <1>6, <3>4 DEF TypeOK, RecordName
      <4>2. m_tocRecord'[c] = Append(m_tocRecord[c], Len(file))
        BY <1>1, <1>6 DEF TypeOK, RecordName
      <4>3. i = Len(m_tocRecord[c]) + 1 /\ m_tocRecord'[c][i] = Len(file)
        BY <3>1, <3>4, <4>1, <4>2
      <4>4. \A j \in 1..i-1 : m_tocRecord'[c][j] = m_tocRecord[c][j]
        BY <3>1, <4>1, <4>2, <4>3
      <4>5. ASSUME NEW j \in 1..i-1
            PROVE  m_tocRecord'[c][j] < Len(file)
        <5>1. j \in 1..Len(m_tocRecord[d])
          BY <3>1, <4>1, <4>3
        <5>2. m_tocRecord[d][j] \in 1..Len(file) - 1
          BY <3>2, <5>1
        <5>3. m_tocRecord'[c][j] = m_tocRecord[d][j]
          BY <4>1, <4>4
        <5> QED
          BY <1>5, <5>2, <5>3
      <4> QED
        BY <1>2, <1>5, <4>1, <4>3, <4>5
    <3> QED
      BY <3>3, <3>4
  <2>2. file' # <<>>
    BY <1>5
  <2> QED
    BY <1>9, <2>1, <2>2 DEF InFile
<1>11. Room' /\ TOCWritten' /\ OnDisk'
  BY <1>3, <1>5, PositionAssumption DEF Room, Extra, TOCWritten, OnDisk, Over
<1>12. MarkerLast'
  <2>1. \A i \in 1..Len(file') : file'[i].kind # "marker"
    BY <1>2, <1>3, <1>5, NoMarkerYet DEF Ended
  <2> QED
    BY <2>1 DEF MarkerLast
<1>13. ReaderRight'
  BY <1>3, NoMarkerYet DEF ReaderRight, Ended, reading
<1> QED
  BY <1>7, <1>8, <1>10, <1>11, <1>12, <1>13 DEF IInv

\* What the other appending steps have in common: which record they write does
\* not matter as long as it is neither a header nor the marker.
LEMMA AppendKeeps ==
  ASSUME IInv, stream = "good", writer \notin Ended,
         NEW r \in Records, r.kind \notin {"header", "marker"},
         file' = Append(file, r), UNCHANGED <<flushed, reading>>,
         writer' \in {"header", "edm", "toc", "marker", "close"},
         stream' \in {"good", "bad"}, result' \in Results,
         current' \in [cat : Category \cup {None}, frame : Frame \cup {None}],
         m_tocRecord' \in [RecordName -> Seq(0..PositionRange - 1)],
         \A c \in Category : m_tocRecord'[c] = m_tocRecord[c],
         Room', TOCWritten'
  PROVE  IInv'
<1>1. InFile' /\ MarkerLast' /\ OnDisk' /\ ReaderRight'
  BY AppendOther DEF reading, Over
<1>2. TypeOK'
  BY AppendTypes DEF TypeOK, reading, IInv
<1>3. Typed'
  BY AppendTypes DEF Typed
<1> QED
  BY <1>1, <1>2, <1>3 DEF IInv

LEMMA WriteDataKeeps ==
  ASSUME IInv, WriteData
  PROVE  IInv'
<1> DEFINE r == Data(current.cat, current.frame)
<1>1. Typed /\ TypeOK /\ Room
  BY DEF IInv
<1>2. r \in Records /\ r.kind = "data"
  BY <1>1 DEF Records, Data, Record, Contents, Kinds, Typed, WriteData
<1>3. /\ writer = "data" /\ stream = "good" /\ file' = Append(file, r) /\ UNCHANGED <<flushed, reading>>
      /\ stream' = stream /\ writer' = "header" /\ m_tocRecord' = m_tocRecord /\ current' = NoFrame
      /\ result' = <<"written", current.cat, current.frame>>
  BY DEF WriteData, AppendRecord
<1>6. result' \in Results
  BY <1>1, <1>3 DEF Typed, Results
<1> HIDE DEF r
<1>4. Room' /\ TOCWritten'
  BY <1>1, <1>2, <1>3, Grows, PositionAssumption DEF Room, Extra, TOCWritten
<1>5. current' \in [cat : Category \cup {None}, frame : Frame \cup {None}]
  BY <1>3 DEF NoFrame
<1> QED
  BY <1>1, <1>2, <1>3, <1>4, <1>5, <1>6, AppendKeeps DEF Ended, TypeOK

LEMMA WriteEDMDefinitionsKeeps ==
  ASSUME IInv, WriteEDMDefinitions
  PROVE  IInv'
<1> DEFINE r == Record("edm", None)
<1>1. Typed /\ TypeOK /\ Room
  BY DEF IInv
<1>2. r \in Records /\ r.kind = "edm"
  BY DEF Records, Record, Contents, Kinds
<1>3. /\ writer = "edm" /\ stream = "good" /\ file' = Append(file, r) /\ UNCHANGED <<flushed, reading>>
      /\ stream' = stream /\ writer' = "toc" /\ UNCHANGED <<current, result>>
      /\ m_tocRecord' = AddRecord(m_tocRecord, EDMDefinitions, FileStart(file'))
  BY DEF WriteEDMDefinitions, AppendRecord
<1> HIDE DEF r
<1>4. FileStart(file') \in 0..PositionRange - 1
  BY <1>2, <1>3, LastHasPosition DEF Ended
<1>5. /\ m_tocRecord' \in [RecordName -> Seq(0..PositionRange - 1)]
      /\ \A c \in Category : m_tocRecord'[c] = m_tocRecord[c]
  <2>1. EDMDefinitions \in RecordName
    BY DEF RecordName
  <2>2. /\ m_tocRecord' \in [RecordName -> Seq(0..PositionRange - 1)]
        /\ m_tocRecord' = [m_tocRecord EXCEPT ![EDMDefinitions] =
                               Append(m_tocRecord[EDMDefinitions], FileStart(file'))]
    BY <1>1, <1>3, <1>4, <2>1, AddRecordType
  <2>3. \A c \in Category : c \in RecordName /\ c # EDMDefinitions
    BY CategoryAssumption DEF RecordName
  <2> QED
    BY <1>1, <2>2, <2>3 DEF TypeOK
<1>6. Room' /\ TOCWritten'
  BY <1>1, <1>2, <1>3, Grows, PositionAssumption DEF Room, Extra, TOCWritten
<1> QED
  BY <1>1, <1>2, <1>3, <1>5, <1>6, AppendKeeps DEF Ended, TypeOK

LEMMA WriteTOCKeeps ==
  ASSUME IInv, WriteTOC
  PROVE  IInv'
<1> DEFINE r == Record("toc", m_tocRecord)
<1>1. Typed /\ TypeOK /\ Room
  BY DEF IInv
<1>2. r \in Records /\ r.kind = "toc" /\ r.content = m_tocRecord
  BY <1>1 DEF Records, Record, Contents, Kinds, TypeOK
<1>3. /\ writer = "toc" /\ stream = "good" /\ file' = Append(file, r) /\ UNCHANGED <<flushed, reading>>
      /\ stream' = stream /\ writer' = "marker" /\ UNCHANGED <<current, result>>
      /\ m_tocRecord' = m_tocRecord
  BY DEF WriteTOC, AppendRecord
<1> HIDE DEF r
<1>4. Room'
  BY <1>1, <1>2, <1>3, Grows, PositionAssumption DEF Room, Extra
<1>5. TOCWritten'
  BY <1>1, <1>2, <1>3, Grows DEF TOCWritten
<1> QED
  BY <1>1, <1>2, <1>3, <1>4, <1>5, AppendKeeps DEF Ended, TypeOK

LEMMA WriteMarkerKeeps ==
  ASSUME IInv, WriteMarker
  PROVE  IInv'
<1> DEFINE r == Record("marker", FileStart(file))
<1>1. Typed /\ TypeOK /\ Room /\ InFile /\ Counts /\ file # <<>> /\ TOCWritten
  BY DEF IInv, InFile, WriteMarker, Over
<1>2. /\ writer = "marker" /\ stream = "good" /\ file' = Append(file, r) /\ UNCHANGED <<flushed, reading>>
      /\ stream' = stream /\ writer' = "close" /\ UNCHANGED <<m_tocRecord, current, result>>
  BY DEF WriteMarker, AppendRecord
<1>3. /\ Len(file) \in Nat /\ Len(file) >= 1 /\ Len(file) <= PositionRange
      /\ MaxRecords \in Nat /\ Len(file) <= MaxRecords + 3
  BY <1>1, <1>2, PositionAssumption DEF Typed, Room, Extra
<1>4. FileStart(file) = Len(file) - 1 /\ FileStart(file) \in Nat
  BY <1>3, StartOfLast
<1>5. r \in Records /\ r.kind = "marker" /\ r.content = Len(file) - 1
  BY <1>4 DEF Records, Record, Contents, Kinds
<1> HIDE DEF r
<1>6. /\ Len(file') = Len(file) + 1
      /\ \A i \in 1..Len(file) : file'[i] = file[i]
      /\ file'[Len(file) + 1] = r
  BY <1>1, <1>2, <1>5, Grows
<1>7. Counts'
  BY <1>1, <1>2, <1>5, CountsAppend
<1>8. TypeOK' /\ Typed'
  <2>1. TypeOK'
    BY <1>1, <1>2, <1>5, AppendTypes DEF TypeOK, reading
  <2>2. Typed'
    BY <1>2, <1>5, AppendTypes DEF Typed
  <2> QED
    BY <2>1, <2>2
<1>9. InFile'
  <2>1. ASSUME NEW c \in Category, NEW i \in 1..Len(m_tocRecord[c])
        PROVE  /\ m_tocRecord[c][i] \in 1..Len(file') - 1
               /\ file'[m_tocRecord[c][i] + 1].kind = "header"
               /\ file'[m_tocRecord[c][i] + 1].content.cat = c
               /\ \A j \in 1..i-1 : m_tocRecord[c][j] < m_tocRecord[c][i]
    <3>1. /\ m_tocRecord[c][i] \in 1..Len(file) - 1
          /\ file[m_tocRecord[c][i] + 1].kind = "header"
          /\ file[m_tocRecord[c][i] + 1].content.cat = c
          /\ \A j \in 1..i-1 : m_tocRecord[c][j] < m_tocRecord[c][i]
      BY <1>1, <1>2 DEF InFile, Over
    <3>2. m_tocRecord[c][i] + 1 \in 1..Len(file) /\ m_tocRecord[c][i] \in 1..Len(file') - 1
      BY <1>3, <1>6, <3>1
    <3> QED
      BY <1>6, <3>1, <3>2
  <2>2. file' # <<>>
    BY <1>2, <1>3, <1>6
  <2> QED
    BY <1>2, <1>7, <2>1, <2>2 DEF InFile
<1>10. Room' /\ TOCWritten' /\ OnDisk'
  BY <1>2, <1>3, <1>6 DEF Room, Extra, TOCWritten, OnDisk, Over
<1>11. MarkerLast'
  <2>1. \A i \in 1..Len(file) : file'[i].kind # "marker"
    BY <1>2, <1>6, NoMarkerYet DEF Ended
  <2>2. At(file', Len(file) - 1).content = m_tocRecord'
    <3>1. Len(file) \in 1..Len(file) /\ (Len(file) - 1) + 1 = Len(file)
      BY <1>3
    <3>2. file'[Len(file)].content = m_tocRecord
      BY <1>1, <1>2, <1>6, <3>1 DEF TOCWritten
    <3> QED
      BY <1>2, <3>1, <3>2 DEF At
  <2>3. ASSUME NEW i \in 1..Len(file'), file'[i].kind = "marker"
        PROVE  i = Len(file') /\ file'[i].content = Len(file) - 1
    BY <1>3, <1>5, <1>6, <2>1, <2>3
  <2>4. Len(file) - 1 \in 0..Len(file') - 1
    BY <1>3, <1>6
  <2> QED
    BY <1>2, <1>7, <2>2, <2>3, <2>4 DEF MarkerLast, Ended
<1>12. ReaderRight'
  BY <1>2, NoMarkerYet DEF ReaderRight, Ended, reading
<1> QED
  BY <1>8, <1>9, <1>10, <1>11, <1>12 DEF IInv

\* A step that leaves the file, its writer's table and the reader's alone.
LEMMA SameFile ==
  ASSUME IInv, UNCHANGED <<file, m_tocRecord, readTOC>>,
         writer' \in {"header", "data", "edm", "toc", "marker", "close", "finished", "gone"},
         writer \in Ended => writer' \in Ended, writer' \in Over <=> writer \in Over,
         writer' = "data" => writer = "data" /\ current' = current,
         flushed' = flushed, stream' \in {"good", "bad", "closed"},
         result' \in Results,
         current' \in [cat : Category \cup {None}, frame : Frame \cup {None}],
         m_nameCtr' \in [RecordName -> Nat],
         answer' \in Frame \cup {Torn, "none", "null", "throws"},
         Room', TOCWritten'
  PROVE  IInv'
<1>1. TypeOK /\ Typed /\ InFile /\ MarkerLast /\ ReaderRight
  BY DEF IInv
<1>2. Counts' <=> Counts
  BY DEF Counts, Headers
<1>3. TypeOK'
  BY <1>1 DEF TypeOK
<1>4. Typed'
  BY <1>1 DEF Typed
<1>5. InFile'
  BY <1>1, <1>2 DEF InFile, Complete
<1>6. MarkerLast'
  BY <1>1, <1>2 DEF MarkerLast
<1>7. OnDisk' /\ ReaderRight'
  BY <1>1, <1>2 DEF OnDisk, ReaderRight, IInv
<1> QED
  BY <1>3, <1>4, <1>5, <1>6, <1>7 DEF IInv

LEMMA WriterStopsKeeps ==
  ASSUME IInv, DataThrows \/ WriteFails \/ WriteRefused \/ MarkerFails \/ Finish
  PROVE  IInv'
<1>1. TypeOK /\ Typed /\ Room /\ Len(file) \in Nat
  BY DEF IInv, Typed
<1>2. NoFrame \in [cat : Category \cup {None}, frame : Frame \cup {None}] /\ <<"throws">> \in Results
  BY DEF NoFrame, Results
<1>3. CASE DataThrows
  <2>1. Room' /\ TOCWritten'
    BY <1>1, <1>3, PositionAssumption DEF DataThrows, Room, Extra, TOCWritten
  <2> QED
    BY <1>1, <1>2, <1>3, <2>1, SameFile DEF DataThrows, reading, Ended, Over, TypeOK
<1>4. CASE Finish
  <2>1. Room' /\ TOCWritten'
    BY <1>1, <1>4, PositionAssumption DEF Finish, Room, Extra, TOCWritten
  <2> QED
    BY <1>1, <1>4, <2>1, SameFile DEF Finish, reading, Ended, Over, TypeOK
<1>6. CASE WriteRefused
  <2>1. Room' /\ TOCWritten'
    BY <1>1, <1>6 DEF WriteRefused, Room, TOCWritten
  <2> QED
    BY <1>1, <1>2, <1>6, <2>1, SameFile DEF WriteRefused, reading, TypeOK
<1>5. CASE WriteFails \/ MarkerFails
  <2>1. /\ stream = "good" /\ stream' = "bad" /\ UNCHANGED <<flushed, m_tocRecord, reading>>
        /\ current' \in {NoFrame, current} /\ result' \in {<<"throws">>, result}
        /\ writer \in {"header", "data", "edm", "toc", "marker"}
        /\ writer' \in {"header", "edm", "toc", "marker", "close"}
    BY <1>5 DEF WriteFails, MarkerFails, PartOfRecord
  <2>2. Room' /\ TOCWritten'
    BY <2>1 DEF Room, TOCWritten
  <2>3. CASE UNCHANGED file
    BY <1>1, <1>2, <2>1, <2>2, <2>3, SameFile DEF reading, Ended, Over, TypeOK
  <2>4. CASE file' = Append(file, Record("partial", None))
    <3>1. Record("partial", None) \in Records /\ Record("partial", None).kind = "partial"
      BY DEF Records, Record, Contents, Kinds
    <3> QED
      BY <1>1, <1>2, <2>1, <2>2, <2>4, <3>1, AppendKeeps DEF Ended, TypeOK
  <2> QED
    BY <1>5, <2>3, <2>4 DEF WriteFails, MarkerFails, PartOfRecord
<1> QED
  BY <1>3, <1>4, <1>5, <1>6

LEMMA FlushKeeps ==
  ASSUME IInv, Flush
  PROVE  IInv'
<1>1. TypeOK /\ Typed /\ Room /\ TOCWritten /\ OnDisk /\ Len(file) \in Nat /\ flushed \in 0..Len(file)
  BY DEF IInv, Typed, TypeOK
<1>2. /\ writer \notin Over /\ UNCHANGED <<file, stream, m_tocRecord, writer, current, result, reading>>
      /\ flushed' \in flushed + 1..Len(file)
  BY DEF Flush, Over
<1>3. Room' /\ TOCWritten'
  BY <1>1, <1>2 DEF Room, Extra, TOCWritten
<1>4. flushed' \in 0..Len(file)
  BY <1>1, <1>2
<1>5. ASSUME readTOC # Unopened, readTOC # EmptyTOC
      PROVE  FALSE
  <2>1. flushed = Len(file)
    BY <1>5 DEF IInv, ReaderRight
  <2> QED
    BY <1>1, <1>2, <2>1
<1>6. Counts' <=> Counts
  BY <1>2 DEF Counts, Headers
<1>7. TypeOK' /\ Typed'
  BY <1>1, <1>2, <1>4 DEF TypeOK, Typed, reading
<1>8. InFile' /\ MarkerLast' /\ OnDisk'
  BY <1>2, <1>6 DEF IInv, InFile, Complete, MarkerLast, OnDisk
<1>9. ReaderRight'
  BY <1>2, <1>5 DEF ReaderRight, reading
<1> QED
  BY <1>3, <1>7, <1>8, <1>9 DEF IInv

\* A prefix of a sequence.
LEMMA Prefix ==
  ASSUME Typed, NEW n \in 0..Len(file)
  PROVE  /\ SubSeq(file, 1, n) \in Seq(Records)
         /\ Len(SubSeq(file, 1, n)) = n
         /\ \A i \in 1..n : SubSeq(file, 1, n)[i] = file[i]
         /\ n = Len(file) => SubSeq(file, 1, n) = file
  BY DEF Typed

\* What Close and Crash have in common: the file is what got to the disk.
Cut ==
    /\ writer \notin Over /\ writer' \in Over
    /\ flushed' \in flushed..Len(file) /\ file' = SubSeq(file, 1, flushed')
    /\ UNCHANGED <<m_tocRecord, current, result, reading>>
    /\ stream' \in {stream, "closed"}

LEMMA CloseAndCrashCut ==
  ASSUME IInv, Close \/ Crash
  PROVE  Cut
<1>1. Len(file) \in Nat /\ flushed \in 0..Len(file)
  BY DEF IInv, TypeOK, Typed
<1>2. CASE Close
  BY <1>2 DEF Close, Cut, Over
<1>3. CASE Crash
  BY <1>1, <1>3 DEF Crash, Cut, Over
<1> QED
  BY <1>2, <1>3

LEMMA CutKeeps ==
  ASSUME IInv, Cut
  PROVE  IInv'
<1>1. /\ TypeOK /\ Typed /\ InFile /\ Room /\ MarkerLast /\ ReaderRight
      /\ Len(file) \in Nat /\ flushed \in 0..Len(file)
  BY DEF IInv, Typed, TypeOK
<1> DEFINE n == flushed'
<1>2. /\ writer \notin Over /\ writer' \in Over
      /\ n \in 0..Len(file) /\ (flushed = Len(file) => n = Len(file))
      /\ UNCHANGED <<m_tocRecord, current, result, readTOC, m_nameCtr, answer>>
      /\ stream' \in {stream, "closed"}
  BY <1>1 DEF Cut, reading
<1>3. /\ file' \in Seq(Records) /\ Len(file') = n
      /\ \A i \in 1..n : file'[i] = file[i]
      /\ n = Len(file) => file' = file
  BY <1>1, <1>2, Prefix DEF Cut
<1>4. file' = file => (Counts' <=> Counts)
  BY <1>2 DEF Counts, Headers
<1>12. /\ Len(file') \in Nat /\ Len(file') <= Len(file)
       /\ Len(file') = Len(file) => file' = file
  BY <1>1, <1>2, <1>3
<1>13. \A i \in 1..Len(file') : file'[i] = file[i] /\ i \in 1..Len(file)
  BY <1>1, <1>2, <1>3
<1>5. TypeOK'
  <2>2. \A i \in 1..Len(file') : file'[i].kind \in Kinds
    BY <1>1, <1>13 DEF TypeOK
  <2>3. flushed' \in 0..Len(file')
    BY <1>1, <1>2, <1>3
  <2>4. stream' \in {"good", "bad", "closed"}
    BY <1>1, <1>2 DEF TypeOK
  <2>5. writer' \in {"header", "data", "edm", "toc", "marker", "close", "finished", "gone"}
    BY <1>2 DEF Over
  <2> QED
    BY <1>1, <1>2, <2>2, <2>3, <2>4, <2>5 DEF TypeOK
<1>6. Typed'
  BY <1>1, <1>2, <1>3 DEF Typed, Over
<1>7. TOCWritten' /\ OnDisk'
  BY <1>2, <1>3 DEF TOCWritten, OnDisk, Over
<1>8. Room'
  <2>1. Extra \in 0..4 /\ Extra' = 4
    BY <1>2 DEF Extra, Over
  <2>2. stream' = "good" => Len(file) <= MaxRecords + Extra
    BY <1>1, <1>2 DEF Room
  <2> QED
    BY <1>1, <1>12, <2>1, <2>2, PositionAssumption DEF Room
<1>9. MarkerLast'
  <2>1. ASSUME NEW i \in 1..Len(file'), file'[i].kind = "marker"
        PROVE  file' = file
    <3>1. i \in 1..Len(file) /\ file[i].kind = "marker"
      BY <1>13, <2>1
    <3>2. i = Len(file)
      BY <1>1, <3>1 DEF MarkerLast
    <3> QED
      BY <1>12, <2>1, <3>2
  <2>2. CASE file' = file
    BY <1>1, <1>2, <1>4, <2>2 DEF MarkerLast, Ended, Over
  <2>3. CASE file' # file
    BY <2>1, <2>3 DEF MarkerLast
  <2> QED
    BY <2>2, <2>3
<1>10. ReaderRight'
  BY <1>1, <1>2, <1>3, <1>4 DEF ReaderRight, Ended, Over
<1>11. InFile'
  <2>1. ASSUME Complete'
        PROVE  file' = file
    <3>1. Len(file') \in 1..Len(file) /\ file[Len(file')].kind = "marker"
      <4>1. Len(file') # 0 /\ file'[Len(file')].kind = "marker"
        BY <1>3, <2>1 DEF Complete
      <4>2. Len(file') \in 1..Len(file')
        BY <1>12, <4>1
      <4> QED
        BY <1>13, <4>1, <4>2
    <3>2. Len(file') = Len(file)
      BY <1>1, <3>1 DEF MarkerLast
    <3> QED
      BY <1>12, <3>2
  <2> QED
    BY <1>1, <1>2, <1>4, <2>1 DEF InFile
<1> QED
  BY <1>5, <1>6, <1>7, <1>8, <1>9, <1>10, <1>11 DEF IInv

LEMMA ReaderKeeps ==
  ASSUME IInv, OpenFile \/ OpenAgain \/ (\E c \in Category, i \in Nat : ReadFrom(c, i))
  PROVE  IInv'
<1>1. /\ TypeOK /\ Typed /\ MarkerLast /\ ReaderRight
      /\ Len(file) \in Nat /\ flushed \in 0..Len(file)
  BY DEF IInv, Typed, TypeOK
<1>2. UNCHANGED writing
  BY DEF OpenFile, OpenAgain, ReadFrom, vars, writing
<1>3. (Counts' <=> Counts) /\ Typed' /\ InFile' /\ Room' /\ TOCWritten' /\ MarkerLast' /\ OnDisk'
  <2>1. Counts' <=> Counts
    BY <1>2 DEF Counts, Headers, writing
  <2>2. Typed' /\ Room' /\ TOCWritten' /\ OnDisk'
    BY <1>2 DEF IInv, Typed, Room, Extra, TOCWritten, OnDisk, writing
  <2>3. InFile' /\ MarkerLast'
    BY <1>2, <2>1 DEF IInv, InFile, Complete, MarkerLast, writing
  <2> QED
    BY <2>1, <2>2, <2>3
<1>4. CASE OpenFile
  <2>1. readTOC' = TOCOf(SubSeq(file, 1, flushed)) /\ UNCHANGED <<m_nameCtr, answer>>
    BY <1>4 DEF OpenFile
  <2> DEFINE f == SubSeq(file, 1, flushed)
  <2>2. f \in Seq(Records) /\ Len(f) = flushed /\ \A i \in 1..flushed : f[i] = file[i]
    BY <1>1, Prefix
  <2> HIDE DEF f
  <2>3. CASE f # <<>> /\ f[Len(f)].kind = "marker"
    <3>1. flushed \in 1..Len(file) /\ file[flushed].kind = "marker"
      BY <1>1, <2>2, <2>3
    <3>2. /\ flushed = Len(file) /\ writer \in Ended /\ file[flushed].content \in 0..Len(file) - 1
          /\ At(file, file[flushed].content).content = m_tocRecord /\ Counts
      BY <1>1, <3>1 DEF MarkerLast
    <3>3. readTOC' = At(f, f[flushed].content).content
      BY <2>1, <2>2, <2>3 DEF TOCOf, f
    <3>4. At(f, f[flushed].content) = At(file, file[flushed].content)
      <4>1. f[flushed].content = file[flushed].content
        BY <2>2, <3>1
      <4>2. file[flushed].content + 1 \in 1..flushed
        BY <1>1, <3>2
      <4> QED
        BY <2>2, <4>1, <4>2 DEF At
    <3>5. readTOC' = m_tocRecord
      BY <3>2, <3>3, <3>4
    <3>6. TypeOK'
      BY <1>1, <1>2, <2>1, <3>5 DEF TypeOK, writing
    <3>7. ReaderRight'
      BY <1>2, <1>3, <3>2, <3>5 DEF ReaderRight, writing
    <3> QED
      BY <1>3, <3>6, <3>7 DEF IInv
  <2>4. CASE ~(f # <<>> /\ f[Len(f)].kind = "marker")
    <3>1. readTOC' = EmptyTOC
      BY <2>1, <2>4 DEF TOCOf, f
    <3>2. EmptyTOC \in [RecordName -> Seq(0..PositionRange - 1)]
      BY DEF EmptyTOC
    <3>3. TypeOK'
      BY <1>1, <1>2, <2>1, <3>1, <3>2 DEF TypeOK, writing
    <3>4. ReaderRight'
      BY <3>1 DEF ReaderRight
    <3> QED
      BY <1>3, <3>3, <3>4 DEF IInv
  <2> QED
    BY <2>3, <2>4
<1>5. CASE OpenAgain
  <2>1. UNCHANGED <<readTOC, m_nameCtr, answer>>
    BY <1>5 DEF OpenAgain, vars
  <2>2. TypeOK' /\ ReaderRight'
    BY <1>1, <1>2, <1>3, <2>1 DEF TypeOK, ReaderRight, writing
  <2> QED
    BY <1>3, <2>2 DEF IInv
<1>6. ASSUME NEW c \in Category, NEW i \in Nat, ReadFrom(c, i)
      PROVE  IInv'
  <2>1. readTOC' = readTOC
    BY <1>6 DEF ReadFrom
  <2>2. ReaderRight'
    BY <1>1, <1>2, <1>3, <2>1 DEF ReaderRight, writing
  <2>3. m_nameCtr' \in [RecordName -> Nat]
    <3>1. \E n \in Nat : m_nameCtr' = [m_nameCtr EXCEPT ![c] = n]
      BY <1>6 DEF ReadFrom
    <3> QED
      BY <1>1, <3>1 DEF TypeOK
  <2>4. answer' \in Frame \cup {Torn, "none", "null", "throws"}
    <3>1. ASSUME NEW pos \in Nat
          PROVE  FrameAt(file, pos) \in Frame \cup {Torn}
      BY <1>1 DEF FrameAt, At, Typed
    <3>2. ASSUME readTOC # Unopened
          PROVE  GetPosition(readTOC, c, i) \in Nat
      <4>1. readTOC[c] \in Seq(0..PositionRange - 1)
        BY <1>1, <3>2 DEF TypeOK, RecordName
      <4>2. CASE i < Len(readTOC[c])
        <5>1. i + 1 \in 1..Len(readTOC[c])
          BY <4>1, <4>2
        <5> QED
          BY <4>1, <4>2, <5>1, PositionAssumption DEF GetPosition
      <4>3. CASE ~(i < Len(readTOC[c]))
        BY <4>3 DEF GetPosition
      <4> QED
        BY <4>2, <4>3
    <3> QED
      BY <1>6, <3>1, <3>2 DEF ReadFrom
  <2>5. TypeOK'
    BY <1>1, <1>2, <2>1, <2>3, <2>4 DEF TypeOK, writing
  <2> QED
    BY <1>3, <2>2, <2>5 DEF IInv
<1> QED
  BY <1>4, <1>5, <1>6

-----------------------------------------------------------------------------
\* No step breaks the invariant.
LEMMA NextKeeps ==
  ASSUME IInv, [Next]_vars
  PROVE  IInv'
<1>1. ASSUME NEW c \in Category, NEW fr \in Frame, WriteHeader(c, fr)
      PROVE  IInv'
  BY <1>1, WriteHeaderKeeps
<1>2. CASE \E c \in Category : ReadNextEntry(c) \/ \E i \in Index : ReadEntry(c, i)
  <2>1. \A c \in Category : m_nameCtr[c] \in Nat
    BY DEF IInv, TypeOK, RecordName
  <2>2. \E c \in Category, i \in Nat : ReadFrom(c, i)
    BY <1>2, <2>1, IndexAssumption DEF ReadNextEntry, ReadEntry
  <2> QED
    BY <2>2, ReaderKeeps
<1>3. CASE WriteData
  BY <1>3, WriteDataKeeps
<1>4. CASE DataThrows \/ WriteFails \/ WriteRefused \/ MarkerFails \/ Finish
  BY <1>4, WriterStopsKeeps
<1>5. CASE WriteEDMDefinitions
  BY <1>5, WriteEDMDefinitionsKeeps
<1>6. CASE WriteTOC
  BY <1>6, WriteTOCKeeps
<1>7. CASE WriteMarker
  BY <1>7, WriteMarkerKeeps
<1>8. CASE Flush
  BY <1>8, FlushKeeps
<1>9. CASE Close \/ Crash
  BY <1>9, CloseAndCrashCut, CutKeeps
<1>10. CASE OpenFile \/ OpenAgain
  BY <1>10, ReaderKeeps
<1>11. CASE UNCHANGED vars
  <2>1. TypeOK' /\ Typed'
    BY <1>11 DEF vars, IInv, TypeOK, Typed
  <2>2. Counts <=> Counts'
    BY <1>11 DEF vars, Counts, Headers
  <2>3. InFile'
    BY <1>11, <2>2 DEF vars, IInv, InFile, Complete
  <2>4. Extra' = Extra
    BY <1>11 DEF vars, Extra
  <2>5. Room' /\ OnDisk'
    BY <1>11, <2>4 DEF vars, IInv, Room, OnDisk
  <2>6. TOCWritten'
    BY <1>11 DEF vars, IInv, TOCWritten
  <2>7. MarkerLast'
    BY <1>11, <2>2 DEF vars, IInv, MarkerLast
  <2>8. ReaderRight'
    BY <1>11, <2>2 DEF vars, IInv, ReaderRight
  <2> QED
    BY <2>1, <2>3, <2>5, <2>6, <2>7, <2>8 DEF IInv
<1> QED
  BY <1>1, <1>2, <1>3, <1>4, <1>5, <1>6, <1>7, <1>8, <1>9, <1>10, <1>11 DEF Next

THEOREM Invariance == Spec => []IInv
<1>1. Init => IInv
  BY InitIInv
<1>2. IInv /\ [Next]_vars => IInv'
  BY NextKeeps
<1> QED
  BY <1>1, <1>2, PTL DEF Spec

\* As long as the writer writes, and in a file that got to the disk, the
\* positions it has kept are those of the headers of their category, in the
\* order of SIOWriter::writeFrame, and none is 0, which
\* SIOFileTOCRecord::getPosition returns for "no such record".
THEOREM TOCStaysRight == Spec => []TOCLeadsToHeaders
<1>1. IInv => TOCLeadsToHeaders
  <2> SUFFICES ASSUME IInv
               PROVE  TOCLeadsToHeaders
    OBVIOUS
  <2>1. TypeOK /\ InFile /\ Len(file) \in Nat
    BY DEF IInv, Typed
  <2>2. ASSUME writer \notin Over \/ Complete, NEW c \in Category, NEW i \in 1..Len(m_tocRecord[c])
        PROVE  /\ m_tocRecord[c][i] # 0
               /\ At(file, m_tocRecord[c][i]).kind = "header"
               /\ At(file, m_tocRecord[c][i]).content.cat = c
               /\ i > 1 => m_tocRecord[c][i-1] < m_tocRecord[c][i]
    <3>1. /\ m_tocRecord[c][i] \in 1..Len(file) - 1
          /\ file[m_tocRecord[c][i] + 1].kind = "header"
          /\ file[m_tocRecord[c][i] + 1].content.cat = c
          /\ \A j \in 1..i-1 : m_tocRecord[c][j] < m_tocRecord[c][i]
      BY <2>1, <2>2 DEF InFile
    <3>2. m_tocRecord[c] \in Seq(0..PositionRange - 1)
      BY <2>1 DEF TypeOK, RecordName
    <3>3. i > 1 => i - 1 \in 1..i-1
      BY <3>2
    <3> QED
      BY <2>1, <3>1, <3>3 DEF At
  <2> QED
    BY <2>1, <2>2 DEF TOCLeadsToHeaders, Over
<1> QED
  BY <1>1, Invariance, PTL

\* A reader that found a table of contents has all of it, whenever the file was
\* opened and whenever the writer crashed: SIOReader::openFile looks for the
\* marker that SIOWriter::finish writes last.
THEOREM ReadersSeeAll == Spec => []ReaderSeesAll
<1>1. IInv => ReaderSeesAll
  <2> SUFFICES ASSUME IInv, readTOC # Unopened, readTOC # EmptyTOC
               PROVE  ReaderSeesAll
    BY DEF ReaderSeesAll
  <2>1. TypeOK /\ Typed /\ writer \in Ended /\ readTOC = m_tocRecord /\ Counts
    BY DEF IInv, ReaderRight
  <2>2. \A c \in Category : GetNRecords(readTOC, c) = Cardinality(Headers(c))
    BY <2>1 DEF GetNRecords, Counts
  <2>3. ASSUME NEW c \in Category
        PROVE  readTOC[c] # <<>> <=> Headers(c) # {}
    <3>1. readTOC[c] \in Seq(0..PositionRange - 1)
      BY <2>1 DEF TypeOK, RecordName
    <3>2. readTOC[c] # <<>> <=> Len(readTOC[c]) # 0
      BY <3>1
    <3>3. Headers(c) # {} <=> Cardinality(Headers(c)) # 0
      BY <2>1, HeadersFinite, FS_EmptySet
    <3> QED
      BY <2>2, <3>2, <3>3 DEF GetNRecords
  <2>4. GetAvailableCategories(readTOC) = {c \in Category : Headers(c) # {}}
    BY <2>3, CategoryAssumption DEF GetAvailableCategories, GetRecordNames, RecordName
  <2> QED
    BY <2>1, <2>2, <2>4 DEF ReaderSeesAll, Headers, Ended
<1> QED
  BY <1>1, Invariance, PTL

-----------------------------------------------------------------------------
\* For the implementation of EventLog it is also needed that the header of the
\* Frame being written is the last record, and that no position is 0.
HeaderLast ==
    writer = "data" =>
        /\ file[Len(file)] = Header(current.cat, current.frame)
        /\ m_tocRecord[current.cat] # <<>>
        /\ m_tocRecord[current.cat][Len(m_tocRecord[current.cat])] = Len(file) - 1

NoneAtZero ==
    \A c \in Category : \A i \in 1..Len(m_tocRecord[c]) : m_tocRecord[c][i] # 0

RInv == IInv /\ HeaderLast /\ NoneAtZero

LEMMA HeaderLastKept ==
  ASSUME RInv, [Next]_vars, IInv'
  PROVE  HeaderLast'
<1>1. TypeOK /\ Typed
  BY DEF RInv, IInv
<1>2. ASSUME NEW c \in Category, NEW fr \in Frame, WriteHeader(c, fr)
      PROVE  HeaderLast'
  <2>1. /\ file' = Append(file, Header(c, fr)) /\ current' = [cat |-> c, frame |-> fr] /\ stream = "good"
        /\ writer = "header" /\ Len(file) + 1 <= MaxRecords
        /\ m_tocRecord' = AddRecord(m_tocRecord, c, FileStart(file'))
    BY <1>2 DEF WriteHeader, AppendRecord
  <2>2. Header(c, fr) \in Records
    BY DEF Records, Header, Record, Contents, Kinds
  <2>3. FileStart(file') = Len(file) /\ FileStart(file') \in 0..PositionRange - 1
    BY <2>1, <2>2, LastHasPosition DEF Ended, RInv
  <2>4. Len(file) \in Nat /\ Len(file') = Len(file) + 1 /\ file'[Len(file')] = Header(c, fr)
    BY <1>1, <2>1, <2>2, Grows
  <2>5. m_tocRecord' = [m_tocRecord EXCEPT ![c] = Append(m_tocRecord[c], Len(file))]
    BY <1>1, <2>1, <2>3, AddRecordType DEF RecordName
  <2>6. c \in RecordName /\ m_tocRecord[c] \in Seq(0..PositionRange - 1)
    BY <1>1 DEF TypeOK, RecordName
  <2>7. m_tocRecord'[c] = Append(m_tocRecord[c], Len(file))
    BY <1>1, <2>5, <2>6 DEF TypeOK
  <2>8. /\ m_tocRecord'[c] # <<>>
        /\ m_tocRecord'[c][Len(m_tocRecord'[c])] = Len(file') - 1
    BY <2>4, <2>6, <2>7
  <2>9. current'.cat = c /\ current'.frame = fr
    BY <2>1
  <2> QED
    BY <2>4, <2>8, <2>9 DEF HeaderLast
<1>3. CASE writer' # "data"
  BY <1>3 DEF HeaderLast
<1>4. CASE writer = "data" /\ UNCHANGED <<file, writer, current, m_tocRecord>>
  BY <1>4 DEF HeaderLast, RInv
<1>5. \/ writer' # "data"
      \/ writer = "data" /\ UNCHANGED <<file, writer, current, m_tocRecord>>
      \/ \E c \in Category, fr \in Frame : WriteHeader(c, fr)
  BY DEF Next, vars, WriteData, DataThrows, WriteFails, WriteRefused, MarkerFails, Finish,
     WriteEDMDefinitions, WriteTOC, WriteMarker, Close, Flush, Crash, OpenFile, OpenAgain, ReadNextEntry, ReadEntry, ReadFrom,
     AppendRecord, reading, writing
<1> QED
  BY <1>2, <1>3, <1>4, <1>5

LEMMA NoneAtZeroKept ==
  ASSUME RInv, [Next]_vars, IInv'
  PROVE  NoneAtZero'
<1>1. CASE writer' \notin Over
  BY <1>1 DEF IInv, InFile, NoneAtZero
<1>2. CASE m_tocRecord' = m_tocRecord
  BY <1>2 DEF NoneAtZero, RInv
<1>3. writer' \notin Over \/ m_tocRecord' = m_tocRecord
  BY DEF Next, vars, Over, WriteHeader, WriteData, DataThrows, WriteFails, WriteRefused, MarkerFails,
     Finish, WriteEDMDefinitions, WriteTOC, WriteMarker, Close, Flush, Crash, OpenFile, OpenAgain, ReadNextEntry, ReadEntry,
     ReadFrom, AppendRecord, reading, writing
<1> QED
  BY <1>1, <1>2, <1>3

THEOREM RInvariance == Spec => []RInv
<1>1. Init => RInv
  BY InitIInv DEF Init, RInv, HeaderLast, NoneAtZero, EmptyTOC, RecordName
<1>2. RInv /\ [Next]_vars => RInv'
  BY NextKeeps, HeaderLastKept, NoneAtZeroKept DEF RInv
<1> QED
  BY <1>1, <1>2, PTL DEF Spec

-----------------------------------------------------------------------------
\* A record that is appended changes no Frame but the one it completes.
LEMMA FrameStable ==
  ASSUME Typed, NEW r \in Records, file' = Append(file, r), NEW pos \in Nat,
         pos + 2 <= Len(file) \/ r.kind # "data"
  PROVE  FrameAt(file', pos) = FrameAt(file, pos)
<1>1. /\ Len(file) \in Nat /\ Len(file') = Len(file) + 1
      /\ \A i \in 1..Len(file) : file'[i] = file[i]
      /\ file'[Len(file) + 1] = r
  BY Grows
<1>2. CASE pos + 2 <= Len(file)
  <2>1. pos + 1 \in 1..Len(file) /\ pos + 1 + 1 \in 1..Len(file) /\ pos + 2 <= Len(file')
    BY <1>1, <1>2
  <2>2. At(file', pos) = At(file, pos) /\ At(file', pos + 1) = At(file, pos + 1)
    BY <1>1, <2>1 DEF At
  <2> QED
    BY <1>2, <2>1, <2>2 DEF FrameAt
<1>3. CASE ~(pos + 2 <= Len(file))
  <2>1. FrameAt(file, pos) = Torn
    BY <1>3 DEF FrameAt
  <2>2. CASE pos + 2 <= Len(file')
    <3>1. pos + 1 + 1 = Len(file) + 1
      BY <1>1, <1>3, <2>2
    <3>2. At(file', pos + 1) = r
      BY <1>1, <3>1 DEF At
    <3>3. \A c, fr : Data(c, fr).kind = "data"
      BY DEF Data, Record
    <3>4. \A c, fr : At(file', pos + 1) # Data(c, fr)
      BY <1>3, <3>2, <3>3
    <3> QED
      BY <2>1, <3>4 DEF FrameAt
  <2>3. CASE ~(pos + 2 <= Len(file'))
    BY <2>1, <2>3 DEF FrameAt
  <2> QED
    BY <2>2, <2>3
<1> QED
  BY <1>2, <1>3

LEMMA FramesStable ==
  ASSUME Typed, NEW r \in Records, file' = Append(file, r), NEW s \in Seq(Nat),
         \A i \in 1..Len(s) : s[i] + 2 <= Len(file) \/ r.kind # "data"
  PROVE  FramesAt(file', s) = FramesAt(file, s)
<1>1. \A i \in 1..Len(s) : FrameAt(file', s[i]) = FrameAt(file, s[i])
  <2> SUFFICES ASSUME NEW i \in 1..Len(s)
               PROVE  FrameAt(file', s[i]) = FrameAt(file, s[i])
    OBVIOUS
  <2>1. s[i] \in Nat
    OBVIOUS
  <2> QED
    BY <2>1, FrameStable
<1> QED
  BY <1>1 DEF FramesAt

\* The positions of a category, with and without the last.
LEMMA WrittenType ==
  ASSUME IInv, NEW c \in Category
  PROVE  /\ m_tocRecord[c] \in Seq(Nat) /\ Written(c) \in Seq(Nat)
         /\ Len(Written(c)) <= Len(m_tocRecord[c])
         /\ \A i \in 1..Len(Written(c)) : Written(c)[i] = m_tocRecord[c][i]
<1>1. m_tocRecord[c] \in Seq(0..PositionRange - 1)
  BY DEF IInv, TypeOK, RecordName
<1>2. m_tocRecord[c] \in Seq(Nat)
  BY <1>1, PositionAssumption
<1>3. CASE writer = "data" /\ current.cat = c
  <2>1. Written(c) = SubSeq(m_tocRecord[c], 1, Len(m_tocRecord[c]) - 1)
    BY <1>3 DEF Written
  <2> QED
    BY <1>2, <2>1
<1>4. CASE ~(writer = "data" /\ current.cat = c)
  BY <1>2, <1>4 DEF Written
<1> QED
  BY <1>3, <1>4

\* Until the marker is written the log is open.
LEMMA StillOpen ==
  ASSUME IInv, writer \notin Ended
  PROVE  State = "open" /\ ~Complete
<1>1. ~Complete
  <2>1. file # <<>> => Len(file) \in 1..Len(file)
    BY DEF IInv, Typed
  <2> QED
    BY <2>1, NoMarkerYet DEF Complete
<1> QED
  BY <1>1 DEF State, Ended

LEMMA StaysOpen ==
  ASSUME IInv, IInv', writer \notin Ended, writer' \notin Over,
         NEW r \in Records, r.kind # "marker", file' = Append(file, r) \/ file' = file
  PROVE  State' = "open"
<1>1. ~Complete'
  <2>1. Typed /\ \A i \in 1..Len(file) : file[i].kind # "marker"
    BY NoMarkerYet DEF IInv
  <2>2. \A i \in 1..Len(file') : file'[i].kind # "marker"
    BY <2>1, Grows
  <2>3. file' # <<>> => Len(file') \in 1..Len(file')
    BY DEF IInv, Typed
  <2> QED
    BY <2>2, <2>3 DEF Complete
<1> QED
  BY <1>1 DEF State, Over

\* A reader's view does not change behind its back.
LEMMA SameView ==
  ASSUME readTOC' = readTOC, readTOC = Unopened \/ readTOC = EmptyTOC \/ file' = file
  PROVE  ViewBar' = ViewBar
<1>1. CASE readTOC = Unopened
  BY <1>1 DEF ViewBar
<1>2. CASE file' = file
  BY <1>2 DEF ViewBar
<1>3. CASE readTOC = EmptyTOC /\ readTOC # Unopened
  <2>1. \A c \in Category : readTOC[c] = <<>>
    BY <1>3 DEF EmptyTOC, RecordName
  <2>2. \A c \in Category : FramesAt(file', readTOC[c]) = FramesAt(file, readTOC[c])
    BY <2>1 DEF FramesAt
  <2> QED
    BY <1>3, <2>2 DEF ViewBar
<1> QED
  BY <1>1, <1>2, <1>3

\* A step of the log that adds nothing to it.
LEMMA SameLog ==
  ASSUME State # "lost", State' # "lost",
         \A c \in Category : Written(c)' = Written(c),
         \A c \in Category : FramesAt(file', Written(c)) = FramesAt(file, Written(c))
  PROVE  LogBar' = LogBar
<1>1. \A c \in Category : FramesAt(file, Written(c))' = FramesAt(file, Written(c))
  OBVIOUS
<1> QED
  BY <1>1 DEF LogBar

\* A step of the log that adds an entry to a category.
LEMMA MoreLog ==
  ASSUME State = "open", State' = "open", NEW c \in Category, NEW entry,
         \A d \in Category \ {c} : FramesAt(file, Written(d))' = FramesAt(file, Written(d)),
         FramesAt(file, Written(c))' = Append(FramesAt(file, Written(c)), entry)
  PROVE  LogBar' = [LogBar EXCEPT ![c] = Append(LogBar[c], entry)]
  BY DEF LogBar

-----------------------------------------------------------------------------
LogSame == UNCHANGED <<LogBar, State, ViewBar, NextBar, answer>>

\* A writeFrame that throws and leaves nothing behind is one of the log.
LEMMA ThrowsOnly ==
  ASSUME LogSame, result' = <<"throws">>
  PROVE  \E c \in Category : Log!WriteThrows(c)
<1>1. PICK c \in Category : TRUE
  BY CategoryAssumption
<1>2. Log!WriteThrows(c)
  BY DEF LogSame, Log!WriteThrows
<1> QED
  BY <1>2

\* Steps of the writer that are no step of the log: what they append is no data
\* record, and no entry becomes complete.
LEMMA QuietAppend ==
  ASSUME RInv, IInv', writer \notin Ended, writer' \notin Over,
         NEW r \in Records, r.kind \notin {"data", "marker"}, file' = Append(file, r) \/ file' = file,
         \A c \in Category : Written(c)' = Written(c), UNCHANGED reading
  PROVE  LogSame
<1>1. State = "open" /\ State' = "open"
  BY StillOpen, StaysOpen DEF RInv
<1>2. ASSUME NEW c \in Category
      PROVE  FramesAt(file', Written(c)) = FramesAt(file, Written(c))
  <2>1. CASE file' = file
    BY <2>1
  <2>2. CASE file' = Append(file, r)
    BY <2>2, WrittenType, FramesStable DEF RInv, IInv
  <2> QED
    BY <2>1, <2>2
<1>3. LogBar' = LogBar
  BY <1>1, <1>2, SameLog
<1>4. ViewBar' = ViewBar
  BY NoMarkerYet, SameView DEF reading, RInv
<1> QED
  BY <1>1, <1>3, <1>4 DEF LogSame, NextBar, reading

LEMMA HeaderIsQuiet ==
  ASSUME RInv, IInv', NEW c \in Category, NEW fr \in Frame, WriteHeader(c, fr)
  PROVE  LogSame
<1>1. /\ file' = Append(file, Header(c, fr)) /\ current' = [cat |-> c, frame |-> fr] /\ stream = "good"
      /\ writer = "header" /\ writer' = "data" /\ Len(file) + 1 <= MaxRecords
      /\ m_tocRecord' = AddRecord(m_tocRecord, c, FileStart(file')) /\ UNCHANGED reading
  BY DEF WriteHeader, AppendRecord
<1>2. Header(c, fr) \in Records /\ Header(c, fr).kind = "header"
  BY DEF Records, Header, Record, Contents, Kinds
<1>3. FileStart(file') \in 0..PositionRange - 1
  BY <1>1, <1>2, LastHasPosition DEF Ended, RInv
<1>4. TypeOK /\ c \in RecordName
  BY DEF RInv, IInv, RecordName
<1>5. m_tocRecord' = [m_tocRecord EXCEPT ![c] = Append(m_tocRecord[c], FileStart(file'))]
  BY <1>1, <1>3, <1>4, AddRecordType
<1>6. current'.cat = c
  BY <1>1
<1>7. ASSUME NEW d \in Category
      PROVE  Written(d)' = Written(d)
  <2>1. Written(d) = m_tocRecord[d] /\ m_tocRecord[d] \in Seq(0..PositionRange - 1)
    BY <1>1, <1>4 DEF Written, TypeOK, RecordName
  <2>2. CASE d = c
    <3>1. m_tocRecord'[c] = Append(m_tocRecord[c], FileStart(file'))
      BY <1>4, <1>5 DEF TypeOK
    <3>2. Written(c)' = SubSeq(m_tocRecord'[c], 1, Len(m_tocRecord'[c]) - 1)
      BY <1>1, <1>6 DEF Written
    <3>3. SubSeq(m_tocRecord'[c], 1, Len(m_tocRecord'[c]) - 1) = m_tocRecord[c]
      BY <1>3, <2>1, <2>2, <3>1
    <3> QED
      BY <2>1, <2>2, <3>2, <3>3
  <2>3. CASE d # c
    <3>1. Written(d)' = m_tocRecord'[d]
      BY <1>6, <2>3 DEF Written
    <3>2. m_tocRecord'[d] = m_tocRecord[d]
      BY <1>4, <1>5, <2>3 DEF TypeOK, RecordName
    <3> QED
      BY <2>1, <3>1, <3>2
  <2> QED
    BY <2>2, <2>3
<1> QED
  BY <1>1, <1>2, <1>7, QuietAppend DEF Ended, Over

LEMMA FinishingIsQuiet ==
  ASSUME RInv, IInv',
         \/ WriteEDMDefinitions \/ WriteTOC \/ MarkerFails \/ Finish
         \/ (WriteFails /\ writer # "data")
  PROVE  LogSame
<1>1. TypeOK
  BY DEF RInv, IInv
<1>2. /\ writer \in {"header", "edm", "toc", "marker"}
      /\ writer' \in {"header", "edm", "toc", "marker", "close"}
      /\ UNCHANGED reading
  BY DEF WriteEDMDefinitions, WriteTOC, Finish, WriteFails, MarkerFails, AppendRecord, reading
<1>3. \E r \in Records : r.kind \notin {"data", "marker"} /\ (file' = Append(file, r) \/ file' = file)
  <2>1. Record("edm", None) \in Records /\ Record("edm", None).kind = "edm"
    BY DEF Records, Record, Contents, Kinds
  <2>2. Record("toc", m_tocRecord) \in Records /\ Record("toc", m_tocRecord).kind = "toc"
    BY <1>1 DEF Records, Record, Contents, Kinds, TypeOK
  <2>3. Record("partial", None) \in Records /\ Record("partial", None).kind = "partial"
    BY DEF Records, Record, Contents, Kinds
  <2>4. \/ file' = Append(file, Record("edm", None)) \/ file' = Append(file, Record("toc", m_tocRecord))
        \/ file' = Append(file, Record("partial", None)) \/ file' = file
    BY DEF WriteEDMDefinitions, WriteTOC, Finish, WriteFails, MarkerFails, PartOfRecord, AppendRecord
  <2> QED
    BY <2>1, <2>2, <2>3, <2>4
<1>4. \A c \in Category : m_tocRecord'[c] = m_tocRecord[c]
  <2>1. CASE UNCHANGED m_tocRecord
    BY <2>1
  <2>2. CASE WriteEDMDefinitions
    BY <1>1, <2>2, CategoryAssumption DEF WriteEDMDefinitions, AddRecord, TypeOK, RecordName
  <2> QED
    BY <2>1, <2>2 DEF WriteTOC, Finish, WriteFails, MarkerFails
<1>5. \A c \in Category : Written(c)' = Written(c)
  BY <1>2, <1>4 DEF Written
<1> QED
  BY <1>2, <1>3, <1>5, QuietAppend DEF Ended, Over

\* The last word makes the file complete.
LEMMA MarkerCompletes ==
  ASSUME RInv, IInv', WriteMarker
  PROVE  Log!Complete
<1> DEFINE r == Record("marker", FileStart(file))
<1>1. /\ writer = "marker" /\ writer' = "close" /\ stream = "good" /\ file' = Append(file, r)
      /\ UNCHANGED <<m_tocRecord, current, result, reading>>
  BY DEF WriteMarker, AppendRecord
<1>2. r \in Records /\ r.kind = "marker"
  <2>1. Typed /\ Room /\ Len(file) \in Nat /\ file # <<>>
    BY <1>1 DEF RInv, IInv, Typed, InFile, Over
  <2>2. Len(file) >= 1 /\ Len(file) <= PositionRange
    BY <1>1, <2>1, PositionAssumption DEF Room, Extra, Typed
  <2>3. FileStart(file) \in Nat
    BY <2>1, <2>2, StartOfLast
  <2> QED
    BY <2>3 DEF Records, Record, Contents, Kinds
<1> HIDE DEF r
<1>3. State = "open" /\ State' = "written"
  <2>1. State = "open"
    BY <1>1, StillOpen DEF RInv, Ended
  <2>2. Complete'
    BY <1>1, <1>2, Grows DEF Complete, RInv, IInv
  <2> QED
    BY <1>1, <2>1, <2>2 DEF State
<1>4. \A c \in Category : Written(c)' = Written(c)
  BY <1>1 DEF Written
<1>5. \A c \in Category : FramesAt(file', Written(c)) = FramesAt(file, Written(c))
  BY <1>1, <1>2, WrittenType, FramesStable DEF RInv, IInv
<1>6. LogBar' = LogBar
  BY <1>3, <1>4, <1>5, SameLog
<1>7. ViewBar' = ViewBar
  BY <1>1, NoMarkerYet, SameView DEF reading, RInv, Ended
<1> QED
  BY <1>1, <1>3, <1>6, <1>7 DEF Log!Complete, NextBar, reading

\* What the last record and the one that follows it make is a Frame or torn.
LEMMA NewEntry ==
  ASSUME IInv', NEW pos \in Nat
  PROVE  FrameAt(file', pos) \in Frame \cup {Torn}
  BY DEF FrameAt, At, IInv, Typed

\* What follows the header turns it into an entry.
LEMMA EntryEnds ==
  ASSUME RInv, IInv', writer = "data", writer' = "header", UNCHANGED <<m_tocRecord, reading>>,
         \/ file' = Append(file, Data(current.cat, current.frame))
         \/ file' = Append(file, Record("partial", None))
         \/ file' = file
  PROVE  /\ State = "open" /\ UNCHANGED <<State, ViewBar, NextBar, answer>>
         /\ \E c \in Category, fr \in Frame :
               /\ current.cat = c /\ current.frame = fr /\ file[Len(file)] = Header(c, fr)
               /\ Log!Extend(c, FrameAt(file', Len(file) - 1))
<1>0. PICK c \in Category, fr \in Frame : current.cat = c /\ current.frame = fr
  BY DEF RInv, IInv, Typed
<1> DEFINE p == m_tocRecord[c]
           last == Len(file) - 1
<1>1. TypeOK /\ Typed /\ InFile /\ Len(file) \in Nat /\ Len(file) >= 1
  BY DEF RInv, IInv, Typed, InFile, Over
<1>2. /\ file[Len(file)] = Header(c, fr)
      /\ p \in Seq(Nat) /\ Len(p) >= 1 /\ p[Len(p)] = last
  <2>1. p \in Seq(Nat) /\ p # <<>>
    BY <1>0, <1>1, WrittenType DEF RInv, HeaderLast
  <2> QED
    BY <1>0, <2>1 DEF RInv, HeaderLast
<1>6. /\ Data(c, fr) \in Records /\ Data(c, fr).kind = "data"
      /\ Record("partial", None) \in Records /\ Record("partial", None).kind = "partial"
  BY <1>1 DEF Records, Data, Record, Contents, Kinds
<1>3. State = "open" /\ State' = "open"
  <2>1. \E r \in Records : r.kind # "marker" /\ (file' = Append(file, r) \/ file' = file)
    BY <1>0, <1>6
  <2> QED
    BY <2>1, StillOpen, StaysOpen DEF RInv, Ended, Over
<1>4. ViewBar' = ViewBar
  BY NoMarkerYet, SameView DEF reading, RInv, Ended
<1>5. \A d \in Category : Written(d)' = m_tocRecord[d]
  BY DEF Written
\* All entries but the last of c lie before the last record.
<1>7. ASSUME NEW d \in Category, NEW i \in 1..Len(m_tocRecord[d]), d = c => i < Len(p)
      PROVE  m_tocRecord[d][i] \in Nat /\ m_tocRecord[d][i] + 2 <= Len(file)
  <2>1. /\ m_tocRecord[d][i] \in 1..Len(file) - 1
        /\ file[m_tocRecord[d][i] + 1].content.cat = d
    BY <1>1 DEF InFile, Over
  <2>2. CASE d = c
    <3>1. Len(p) \in 1..Len(p) /\ i \in 1..Len(p) - 1
      BY <1>2, <1>7, <2>2
    <3>2. p[i] < p[Len(p)]
      BY <1>1, <2>2, <3>1 DEF InFile, Over
    <3> QED
      BY SMTT(30), <1>1, <1>2, <2>1, <2>2, <3>2
  <2>3. CASE d # c
    <3>1. file[Len(file)].content.cat = c
      BY <1>2 DEF Header, Record
    <3>2. m_tocRecord[d][i] + 1 # Len(file)
      BY <2>1, <2>3, <3>1
    <3> QED
      BY <1>1, <2>1, <3>2
  <2> QED
    BY <2>2, <2>3
<1>8. ASSUME NEW d \in Category, NEW i \in 1..Len(m_tocRecord[d]), d = c => i < Len(p)
      PROVE  FrameAt(file', m_tocRecord[d][i]) = FrameAt(file, m_tocRecord[d][i])
  <2>1. m_tocRecord[d][i] \in Nat /\ m_tocRecord[d][i] + 2 <= Len(file)
    BY <1>7, <1>8
  <2>2. file' = file \/ \E r \in Records : file' = Append(file, r)
    BY <1>0, <1>6
  <2> QED
    BY <1>1, <2>1, <2>2, FrameStable
<1>9. ASSUME NEW d \in Category, d # c
      PROVE  FramesAt(file, Written(d))' = FramesAt(file, Written(d))
  <2>1. Written(d)' = m_tocRecord[d] /\ Written(d) = m_tocRecord[d]
    BY <1>0, <1>5, <1>9 DEF Written
  <2>2. \A i \in 1..Len(m_tocRecord[d]) :
           FrameAt(file', m_tocRecord[d][i]) = FrameAt(file, m_tocRecord[d][i])
    BY <1>8, <1>9
  <2> QED
    BY <2>1, <2>2 DEF FramesAt
<1>10. FrameAt(file', last) \in Frame \cup {Torn}
  <2>1. last \in Nat
    BY <1>1
  <2> QED
    BY <2>1, NewEntry
<1>11. FramesAt(file, Written(c))' = Append(FramesAt(file, Written(c)), FrameAt(file', last))
  <2>1. Written(c)' = p /\ Written(c) = SubSeq(p, 1, Len(p) - 1)
    BY <1>0, <1>5 DEF Written
  <2>2. /\ Len(Written(c)) = Len(p) - 1
        /\ \A i \in 1..Len(p) - 1 : Written(c)[i] = p[i]
    BY <1>2, <2>1
  <2>3. \A i \in 1..Len(p) - 1 : FrameAt(file', p[i]) = FrameAt(file, p[i])
    <3>1. \A i \in 1..Len(p) - 1 : i \in 1..Len(p) /\ i < Len(p)
      BY <1>2
    <3> QED
      BY <1>1, <1>8, <3>1
  <2> DEFINE old == FramesAt(file, Written(c))
             new == FramesAt(file', p)
  <2>4. /\ old = [i \in 1..Len(p) - 1 |-> FrameAt(file, p[i])]
        /\ new = [i \in 1..Len(p) |-> FrameAt(file', p[i])]
    BY <2>2 DEF FramesAt
  <2>5. Len(p) \in Nat /\ Len(p) - 1 \in Nat
    BY <1>2
  <2>6. Append(old, FrameAt(file', last)) = new
    BY <1>2, <2>3, <2>4, <2>5
  <2> QED
    BY <2>1, <2>6
<1>12. LogBar' = [LogBar EXCEPT ![c] = Append(LogBar[c], FrameAt(file', last))]
  <2>1. \A d \in Category \ {c} : FramesAt(file, Written(d))' = FramesAt(file, Written(d))
    BY <1>9
  <2> QED
    BY <1>3, <1>11, <2>1, MoreLog
<1>13. Log!Extend(c, FrameAt(file', last))
  BY <1>12 DEF Log!Extend
<1> QED
  BY <1>0, <1>2, <1>3, <1>4, <1>13 DEF NextBar, reading

\* The data record makes it an entry of the Frame.
LEMMA DataWrites ==
  ASSUME RInv, IInv', WriteData
  PROVE  \E c \in Category, fr \in Frame : Log!Write(c, fr)
<1>1. /\ writer = "data" /\ writer' = "header" /\ UNCHANGED <<m_tocRecord, reading>>
      /\ file' = Append(file, Data(current.cat, current.frame)) /\ result' = <<"written", current.cat, current.frame>>
  BY DEF WriteData, AppendRecord
<1>2. State = "open" /\ UNCHANGED <<State, ViewBar, NextBar, answer>>
  BY <1>1, EntryEnds
<1>3. PICK c \in Category, fr \in Frame :
         /\ current.cat = c /\ current.frame = fr /\ file[Len(file)] = Header(c, fr)
         /\ Log!Extend(c, FrameAt(file', Len(file) - 1))
  BY <1>1, EntryEnds
<1>4. FrameAt(file', Len(file) - 1) = fr
  <2>1. Typed /\ file # <<>>
    BY <1>1 DEF RInv, IInv, InFile, Over
  <2>2. Data(c, fr) \in Records
    BY DEF Records, Data, Record, Contents, Kinds
  <2>3. /\ Len(file) \in Nat /\ Len(file) >= 1 /\ Len(file') = Len(file) + 1
        /\ file'[Len(file)] = Header(c, fr) /\ file'[Len(file) + 1] = Data(c, fr)
    BY <1>1, <1>3, <2>1, <2>2, Grows DEF Typed
  <2>4. /\ Len(file) - 1 + 2 <= Len(file') /\ (Len(file) - 1) + 1 = Len(file)
        /\ ((Len(file) - 1) + 1) + 1 = Len(file) + 1
    BY <2>3
  <2>5. At(file', Len(file) - 1) = Header(c, fr) /\ At(file', Len(file) - 1 + 1) = Data(c, fr)
    BY <2>3, <2>4 DEF At
  <2>6. /\ Header(c, fr).kind = "header" /\ Header(c, fr).content.cat = c
        /\ Header(c, fr).content.frame = fr
    BY DEF Header, Record
  <2> QED
    BY <2>4, <2>5, <2>6, Zenon DEF FrameAt
<1> QED
  BY <1>1, <1>2, <1>3, <1>4 DEF Log!Write

\* Without it, the entry is torn, and writeFrame has thrown.
LEMMA DataTears ==
  ASSUME RInv, IInv', DataThrows \/ (WriteFails /\ writer = "data")
  PROVE  \E c \in Category : Log!WriteThrows(c)
<1>1. /\ writer = "data" /\ writer' = "header" /\ UNCHANGED <<m_tocRecord, reading>>
      /\ file' = Append(file, Record("partial", None)) \/ file' = file
      /\ result' = <<"throws">>
  BY DEF DataThrows, WriteFails, PartOfRecord
<1>2. State = "open" /\ UNCHANGED <<State, ViewBar, NextBar, answer>>
  BY <1>1, EntryEnds
<1>3. PICK c \in Category : Log!Extend(c, FrameAt(file', Len(file) - 1))
  BY <1>1, EntryEnds
<1>4. FrameAt(file', Len(file) - 1) = Torn
  <2>1. Typed /\ file # <<>>
    BY <1>1 DEF RInv, IInv, InFile, Over
  <2>2. Record("partial", None) \in Records /\ Record("partial", None).kind # "data"
    BY DEF Records, Record, Contents, Kinds
  <2>3. Len(file) - 1 \in Nat
    BY <2>1 DEF Typed
  <2>4. FrameAt(file, Len(file) - 1) = Torn
    BY <2>3 DEF FrameAt
  <2> QED
    BY <1>1, <2>1, <2>2, <2>3, <2>4, FrameStable
<1> QED
  BY <1>1, <1>2, <1>3, <1>4 DEF Log!WriteThrows

LEMMA NothingWritten ==
  ASSUME UNCHANGED <<file, m_tocRecord, writer, current, reading>>
  PROVE  LogSame
<1>1. State' = State /\ \A c \in Category : Written(c)' = Written(c)
  BY DEF State, Complete, Written
<1>2. LogBar' = LogBar
  BY <1>1 DEF LogBar
<1>3. ViewBar' = ViewBar
  BY SameView DEF reading
<1> QED
  BY <1>1, <1>2, <1>3 DEF LogSame, NextBar, reading

\* Closing the file and a crash lose everything, unless all of it got to the
\* disk.
LEMMA CutLosesAll ==
  ASSUME RInv, Cut
  PROVE  Log!Lose \/ Log!Close
<1>1. /\ writer \notin Over /\ writer' \in Over /\ file' = SubSeq(file, 1, flushed')
      /\ flushed' \in flushed..Len(file)
      /\ UNCHANGED <<m_tocRecord, current, result, reading>>
  BY DEF Cut
<1>2. /\ TypeOK /\ Typed /\ MarkerLast /\ Len(file) \in Nat /\ flushed \in 0..Len(file)
      /\ ReaderRight /\ flushed' \in 0..Len(file)
  BY <1>1 DEF RInv, IInv, Typed, TypeOK
<1>3. /\ file' \in Seq(Records) /\ Len(file') = flushed'
      /\ \A i \in 1..flushed' : file'[i] = file[i]
      /\ flushed' = Len(file) => file' = file
  BY <1>1, <1>2, Prefix
<1>4. ViewBar' = ViewBar
  <2>1. readTOC = Unopened \/ readTOC = EmptyTOC \/ file' = file
    BY <1>1, <1>2, <1>3 DEF ReaderRight
  <2> QED
    BY <1>1, <2>1, SameView DEF reading
<1>5. State \in {"open", "written"}
  BY <1>1 DEF State, Over
<1>6. NextBar' = NextBar /\ answer' = answer /\ result' = result
  BY <1>1 DEF NextBar, reading
<1>7. CASE Complete'
  <2>1. flushed' \in 1..Len(file) /\ file[flushed'].kind = "marker"
    BY <1>2, <1>3, <1>7 DEF Complete
  <2>2. flushed' = Len(file) /\ writer \in Ended
    BY <1>2, <2>1 DEF MarkerLast
  <2>3. file' = file /\ writer = "close"
    BY <1>1, <1>3, <2>2 DEF Ended, Over
  <2>4. State' = "closed"
    BY <1>1, <1>7 DEF State, Over
  <2>5. \A c \in Category : Written(c)' = Written(c) /\ FramesAt(file', Written(c)) = FramesAt(file, Written(c))
    BY <1>1, <2>3 DEF Written, Over
  <2>6. LogBar' = LogBar
    BY <1>5, <2>4, <2>5, SameLog
  <2> QED
    BY <1>4, <1>5, <1>6, <2>4, <2>6 DEF Log!Close
<1>8. CASE ~Complete'
  <2>1. State' = "lost"
    BY <1>1, <1>8 DEF State, Over
  <2>2. LogBar' = Log!Empty
    BY <2>1 DEF LogBar, Log!Empty
  <2> QED
    BY <1>4, <1>5, <1>6, <2>1, <2>2 DEF Log!Lose
<1> QED
  BY <1>7, <1>8

\* A sequence repeated once is the sequence.
LEMMA RepeatedOnce ==
  ASSUME NEW S, NEW s \in Seq(S)
  PROVE  Log!Repeated(s, 1) = s
<1>1. Len(s) \in Nat /\ 1 * Len(s) = Len(s)
  OBVIOUS
<1>2. ASSUME NEW i \in 1..Len(s)
      PROVE  ((i - 1) % Len(s)) + 1 = i
  <2>1. Len(s) \in Nat /\ i - 1 \in Nat /\ i - 1 < Len(s) /\ Len(s) > 0
    OBVIOUS
  <2>2. \A a, n \in Nat : a < n => a % n = a
    OBVIOUS
  <2>3. (i - 1) % Len(s) = i - 1
    BY <2>1, <2>2
  <2> QED
    BY <2>3
<1>3. Log!Repeated(s, 1) = [i \in 1..Len(s) |-> s[i]]
  BY <1>1, <1>2 DEF Log!Repeated
<1> QED
  BY <1>3

\* Opening the file shows all of the log or nothing.
LEMMA OpensTheLog ==
  ASSUME RInv, OpenFile
  PROVE  Log!OpenFile
<1>1. readTOC = Unopened /\ readTOC' = TOCOf(SubSeq(file, 1, flushed)) /\ UNCHANGED <<m_nameCtr, answer, writing>>
  BY DEF OpenFile
<1>2. /\ TypeOK /\ Typed /\ MarkerLast /\ OnDisk /\ Len(file) \in Nat /\ flushed \in 0..Len(file)
  BY DEF RInv, IInv, Typed, TypeOK
<1>3. /\ ViewBar = Unopened /\ State' = State /\ LogBar' = LogBar /\ NextBar' = NextBar
      /\ result' = result
  <2>1. \A c \in Category : Written(c)' = Written(c)
    BY <1>1 DEF Written, writing
  <2>2. State' = State
    BY <1>1 DEF State, Complete, writing
  <2> QED
    BY <1>1, <2>1, <2>2 DEF ViewBar, LogBar, NextBar, writing
<1> DEFINE f == SubSeq(file, 1, flushed)
<1>4. f \in Seq(Records) /\ Len(f) = flushed /\ \A i \in 1..flushed : f[i] = file[i]
  BY <1>2, Prefix
<1> HIDE DEF f
<1>5. CASE f # <<>> /\ f[Len(f)].kind = "marker"
  <2>1. flushed \in 1..Len(file) /\ file[flushed].kind = "marker"
    BY <1>2, <1>4, <1>5
  <2>2. /\ flushed = Len(file) /\ writer \in Ended /\ file[flushed].content \in 0..Len(file) - 1
        /\ At(file, file[flushed].content).content = m_tocRecord
    BY <1>2, <2>1 DEF MarkerLast
  <2>3. f[flushed] = file[flushed] /\ file[flushed].content + 1 \in 1..flushed
    BY <1>2, <1>4, <2>1, <2>2
  <2>4. readTOC' = m_tocRecord
    BY <1>1, <1>4, <1>5, <2>2, <2>3 DEF TOCOf, f, At
  <2>5. Complete
    BY <1>2, <2>1, <2>2 DEF Complete
  <2>6. State \in {"written", "closed"}
    BY <2>2, <2>5 DEF State, Ended
  <2>7. \A c \in Category : Written(c) = m_tocRecord[c]
    BY <2>2 DEF Written, Ended
  <2>8. readTOC' # Unopened
    BY <1>2, <2>4, UnopenedAssumption DEF TypeOK
  <2>9. ViewBar' = [c \in Category |-> FramesAt(file, m_tocRecord[c])]
    BY <1>1, <2>4, <2>8 DEF ViewBar, writing
  <2>10. LogBar = [c \in Category |-> FramesAt(file, m_tocRecord[c])]
    BY <2>6, <2>7 DEF LogBar
  <2>11. ASSUME NEW c \in Category
         PROVE  Log!Repeated(LogBar[c], 1) = LogBar[c]
    <3>1. \A s : DOMAIN FramesAt(file, s) = 1..Len(s)
      BY DEF FramesAt
    <3>2. Len(m_tocRecord[c]) \in Nat
      BY WrittenType DEF RInv
    <3>3. \A i \in 1..Len(m_tocRecord[c]) : m_tocRecord[c][i] \in Nat
      BY WrittenType DEF RInv
    <3>4. FramesAt(file, m_tocRecord[c]) \in Seq(Frame \cup {Torn})
      <4>1. \A i \in 1..Len(m_tocRecord[c]) : FrameAt(file, m_tocRecord[c][i]) \in Frame \cup {Torn}
        BY SMTT(30), <1>2, <3>3 DEF FrameAt, At, Typed
      <4> QED
        BY <3>2, <4>1 DEF FramesAt
    <3> QED
      BY <2>10, <3>4, RepeatedOnce
  <2>12. ViewBar' = [c \in Category |-> Log!Repeated(LogBar[c], 1)]
    BY <2>9, <2>10, <2>11
  <2>13. 1 \in 1..1
    OBVIOUS
  <2>14. \E n \in 1..1 : ViewBar' = Log!Files(n)
    BY <2>12, <2>13 DEF Log!Files
  <2> QED
    BY <1>1, <1>3, <2>6, <2>14 DEF Log!OpenFile
<1>6. CASE ~(f # <<>> /\ f[Len(f)].kind = "marker")
  <2>1. readTOC' = EmptyTOC
    BY <1>1, <1>6 DEF TOCOf, f
  <2>2. EmptyTOC # Unopened
    <3>1. EmptyTOC \in [RecordName -> Seq(0..PositionRange - 1)]
      BY DEF EmptyTOC
    <3> QED
      BY <3>1, UnopenedAssumption
  <2>3. ViewBar' = Log!Empty
    <3>1. \A c \in Category : FramesAt(file', readTOC'[c]) = <<>>
      BY <2>1 DEF FramesAt, EmptyTOC, RecordName
    <3> QED
      BY <2>1, <2>2, <3>1 DEF ViewBar, Log!Empty
  <2>4. State # "closed"
    <3>1. ASSUME flushed = Len(file), Complete
          PROVE  FALSE
      <4>1. Len(file) \in 1..flushed /\ file[Len(file)].kind = "marker"
        BY <1>2, <3>1 DEF Complete, Typed
      <4>2. f # <<>> /\ f[Len(f)].kind = "marker"
        BY <1>4, <3>1, <4>1
      <4> QED
        BY <1>6, <4>2
    <3>2. State = "closed" => writer \in {"finished", "gone"} /\ Complete
      BY DEF State
    <3> QED
      BY <1>2, <3>1, <3>2 DEF OnDisk, Over
  <2> QED
    BY <1>1, <1>3, <2>3, <2>4 DEF Log!OpenFile
<1> QED
  BY <1>5, <1>6

\* A read answers with the entry of the view, or that there is none.
LEMMA ReadsTheView ==
  ASSUME RInv, NEW c \in Category, NEW i \in Nat, ReadFrom(c, i)
  PROVE  Log!ReadFrom(c, i)
<1>1. /\ TypeOK /\ Typed /\ ReaderRight /\ NoneAtZero /\ c \in RecordName
      /\ readTOC # Unopened /\ UNCHANGED <<readTOC, writing>>
  BY DEF RInv, IInv, ReadFrom, RecordName
<1>2. \A d \in Category : readTOC[d] \in Seq(Nat)
  <2>1. \A d \in Category : readTOC[d] \in Seq(0..PositionRange - 1)
    BY <1>1 DEF TypeOK, RecordName
  <2> QED
    BY <2>1, PositionAssumption
<1>3. ViewBar = [d \in Category |-> FramesAt(file, readTOC[d])]
  BY <1>1 DEF ViewBar
<1>4. ViewBar # Unopened
  <2>1. ASSUME NEW d \in Category
        PROVE  FramesAt(file, readTOC[d]) \in Seq(Frame \cup {Torn})
    <3>1. \A k \in 1..Len(readTOC[d]) : readTOC[d][k] \in Nat
      BY <1>2
    <3>2. \A k \in 1..Len(readTOC[d]) : FrameAt(file, readTOC[d][k]) \in Frame \cup {Torn}
      BY SMTT(30), <1>1, <3>1 DEF FrameAt, At, Typed
    <3> QED
      BY <1>2, <3>2 DEF FramesAt
  <2>2. ViewBar \in [Category -> Seq(Frame \cup {Torn})]
    BY <1>3, <2>1
  <2> QED
    BY <2>2, UnopenedAssumption
<1>5. LogBar' = LogBar /\ State' = State /\ ViewBar' = ViewBar
  <2>1. State' = State /\ \A d \in Category : Written(d)' = Written(d)
    BY <1>1 DEF State, Complete, Written, writing
  <2> QED
    BY <1>1, <2>1, SameView DEF LogBar, writing
<1>6. Len(ViewBar[c]) = Len(readTOC[c]) /\ Len(readTOC[c]) \in Nat
  BY <1>2, <1>3 DEF FramesAt
<1>7. CASE i < Len(readTOC[c])
  <2>1. i + 1 \in 1..Len(readTOC[c])
    BY <1>6, <1>7
  <2>2. GetPosition(readTOC, c, i) = readTOC[c][i+1]
    BY <1>7 DEF GetPosition
  <2>3. readTOC = m_tocRecord
    <3>1. readTOC # EmptyTOC
      BY <1>1, <1>7 DEF EmptyTOC
    <3> QED
      BY <1>1, <3>1 DEF ReaderRight
  <2>4. readTOC[c][i+1] # 0
    BY <1>1, <2>1, <2>3 DEF NoneAtZero
  <2>5. \/ /\ answer' \in {FrameAt(file, readTOC[c][i+1]), "throws"}
           /\ m_nameCtr' = [m_nameCtr EXCEPT ![c] = i + 1]
        \/ /\ answer' = "throws"
           /\ m_nameCtr' = [m_nameCtr EXCEPT ![c] = i]
    BY <2>2, <2>4 DEF ReadFrom
  <2>6. ViewBar[c][i+1] = FrameAt(file, readTOC[c][i+1])
    BY <1>3, <2>1 DEF FramesAt
  <2>7. \A n : m_nameCtr' = [m_nameCtr EXCEPT ![c] = n] => NextBar' = [NextBar EXCEPT ![c] = n]
    BY <1>1 DEF NextBar, TypeOK, RecordName
  <2>8. \/ answer' \in {ViewBar[c][i+1]} \cup {} /\ NextBar' = [NextBar EXCEPT ![c] = i + 1]
        \/ answer' = "throws" /\ \E n \in {i, i + 1} : NextBar' = [NextBar EXCEPT ![c] = n]
    BY <2>5, <2>6, <2>7
  <2>9. result' = result
    BY <1>1 DEF writing
  <2> QED
    BY <1>4, <1>5, <1>6, <1>7, <2>8, <2>9 DEF Log!ReadFrom
<1>8. CASE ~(i < Len(readTOC[c]))
  <2>1. answer' = "null" /\ m_nameCtr' = [m_nameCtr EXCEPT ![c] = i]
    BY <1>8 DEF ReadFrom, GetPosition
  <2>2. NextBar' = [NextBar EXCEPT ![c] = i]
    BY <1>1, <2>1 DEF NextBar, TypeOK, RecordName
  <2>3. i >= Len(ViewBar[c])
    BY <1>6, <1>8
  <2> QED
    BY <1>1, <1>4, <1>5, <2>1, <2>2, <2>3 DEF Log!ReadFrom, writing
<1> QED
  BY <1>7, <1>8

LEMMA NextImplementsLog ==
  ASSUME RInv, RInv', [Next]_vars
  PROVE  Log!Next \/ (LogSame /\ result' = result)
<1> USE DEF RInv
<1>1. ASSUME NEW c \in Category, NEW fr \in Frame, WriteHeader(c, fr)
      PROVE  LogSame /\ result' = result
  BY <1>1, HeaderIsQuiet DEF WriteHeader
<1>2. ASSUME NEW c \in Category, ReadNextEntry(c)
      PROVE  Log!Next
  <2>1. m_nameCtr[c] \in Nat /\ NextBar[c] = m_nameCtr[c]
    BY DEF IInv, TypeOK, RecordName, NextBar
  <2>2. Log!ReadFrom(c, NextBar[c])
    BY <1>2, <2>1, ReadsTheView DEF ReadNextEntry
  <2> QED
    BY <2>2 DEF Log!Next
<1>3. ASSUME NEW c \in Category, NEW i \in Index, ReadEntry(c, i)
      PROVE  Log!Next
  <2>1. Log!ReadFrom(c, i)
    BY <1>3, IndexAssumption, ReadsTheView DEF ReadEntry
  <2> QED
    BY <2>1 DEF Log!Next
<1>4. CASE WriteData
  BY <1>4, DataWrites DEF Log!Next
<1>5. CASE DataThrows \/ (WriteFails /\ writer = "data")
  BY <1>5, DataTears DEF Log!Next
<1>6. CASE WriteEDMDefinitions \/ WriteTOC \/ MarkerFails \/ Finish
  BY <1>6, FinishingIsQuiet DEF WriteEDMDefinitions, WriteTOC, MarkerFails, Finish
<1>7. CASE WriteFails /\ writer # "data"
  <2>1. LogSame /\ result' \in {<<"throws">>, result}
    BY <1>7, FinishingIsQuiet DEF WriteFails
  <2> QED
    BY <2>1, ThrowsOnly DEF Log!Next
<1>8. CASE WriteRefused
  <2>1. LogSame /\ result' = <<"throws">>
    BY <1>8, NothingWritten DEF WriteRefused, reading
  <2> QED
    BY <2>1, ThrowsOnly DEF Log!Next
<1>11. CASE WriteMarker
  BY <1>11, MarkerCompletes DEF Log!Next
<1>12. CASE Close \/ Crash
  BY <1>12, CloseAndCrashCut, CutLosesAll DEF Log!Next
<1>9. CASE OpenFile
  BY <1>9, OpensTheLog DEF Log!Next
<1>10. CASE Flush \/ OpenAgain \/ UNCHANGED vars
  BY <1>10, NothingWritten DEF Flush, OpenAgain, vars, reading
<1> QED
  BY <1>1, <1>2, <1>3, <1>4, <1>5, <1>6, <1>7, <1>8, <1>9, <1>10, <1>11, <1>12 DEF Next

\* One file, its writer and its reader are what EventLog.tla says of them, for
\* any categories, Frames and number of records, and whenever the writer fails,
\* crashes, or loses the file in finish without a word: what a reader finds is
\* the whole log or nothing, and it is nothing only if not all of the file is on
\* the disk.
THEOREM ImplementsEventLog == Spec => LogSpec
<1>1. Init => Log!Init
  <2> SUFFICES ASSUME Init
               PROVE  Log!Init
    OBVIOUS
  <2>1. file = <<Record("podio_header", None)>> /\ Record("podio_header", None).kind = "podio_header"
    BY DEF Init, Record
  <2>2. State = "open"
    BY <2>1 DEF Init, State, Complete
  <2>3. LogBar = Log!Empty
    <3>1. \A c \in Category : Written(c) = <<>>
      BY DEF Init, Written, EmptyTOC, RecordName
    <3> QED
      BY <2>2, <3>1 DEF LogBar, FramesAt, Log!Empty
  <2>4. ViewBar = Unopened /\ NextBar = [c \in Category |-> 0]
    BY DEF Init, ViewBar, NextBar, RecordName
  <2> QED
    BY <2>2, <2>3, <2>4 DEF Init, Log!Init
<1>2. RInv /\ RInv' /\ [Next]_vars => [Log!Next]_Log!vars
  BY NextImplementsLog DEF LogSame, Log!vars
<1> QED
  BY <1>1, <1>2, RInvariance, PTL DEF LogSpec, Log!Spec, Spec
=============================================================================
