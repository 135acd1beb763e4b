------------------------------ MODULE EventLog ------------------------------
(***************************************************************************)
(* What writing Frames to a file and reading them back promises, whatever  *)
(* the format (include/podio/Writer.h, include/podio/Reader.h): one        *)
(* growing sequence of Frames per category, which a reader sees either     *)
(* completely or not at all: the file may be lost with the process, and no *)
(* call tells when it is lost while it is closed.                          *)
(*                                                                         *)
(* A writeFrame that throws may leave a torn entry behind, and a read that *)
(* throws may skip an entry.  A format has Frames whose entry is torn      *)
(* although writeFrame returned, and reads that answer with garbage, only  *)
(* if Tearable and Garbage say so.  Several files that are read together   *)
(* follow one another; the log is that of one of them, and they are alike. *)
(***************************************************************************)
EXTENDS Naturals, Sequences

CONSTANTS
    Category,  \* the categories of Frames
    Frame,     \* the Frames
    Index,     \* the numbers of entries readers ask for
    MaxFiles,  \* how many files like this one a reader may read together
    Torn,      \* an entry that is no Frame
    Tearable,  \* the Frames whose entry may be torn without an exception
    Garbage,   \* what a read may answer instead of the entry
    Unopened   \* the view of a reader that has not opened the file

VARIABLES
    log,     \* per category: the entries written
    wrote,   \* the last writeFrame: what it has written and where, or that it
             \* threw or was not called yet
    state,   \* of the file: "open", "written", "closed" or "lost"
    view,    \* what the reader sees: per category, the entries
    next,    \* per category: how many entries come before the next one
    answer   \* of the reader's last call

vars == <<log, wrote, state, view, next, answer>>

Empty == [c \in Category |-> <<>>]

Init ==
    /\ log = Empty
    /\ wrote = <<"none">>
    /\ state = "open"
    /\ view = Unopened
    /\ next = [c \in Category |-> 0]
    /\ answer = "none"

Extend(c, entry) == log' = [log EXCEPT ![c] = Append(@, entry)]

\* writeFrame returns: the Frame it was given is an entry of the category.
Write(c, fr) ==
    /\ state = "open"
    /\ Extend(c, fr) \/ (fr \in Tearable /\ Extend(c, Torn))
    /\ wrote' = <<"written", c, fr>>
    /\ UNCHANGED <<state, view, next, answer>>

\* writeFrame throws; an entry it leaves behind can not be taken for a Frame.
WriteThrows(c) ==
    /\ wrote' = <<"throws">>
    /\ UNCHANGED log \/ (state = "open" /\ Extend(c, Torn))
    /\ UNCHANGED <<state, view, next, answer>>

Complete ==
    /\ state = "open"
    /\ state' = "written"
    /\ UNCHANGED <<log, wrote, view, next, answer>>

Close ==
    /\ state \in {"open", "written"}
    /\ state' = "closed"
    /\ UNCHANGED <<log, wrote, view, next, answer>>

\* The process dies, maybe in writeFrame, or what it wrote does not get to the
\* disk when the file is closed.
Lose ==
    /\ state \in {"open", "written"}
    /\ state' = "lost"
    /\ log' = Empty
    /\ wrote' \in {wrote, <<"lost">>}
    /\ UNCHANGED <<view, next, answer>>

Repeated(s, n) == [i \in 1..n * Len(s) |-> s[((i - 1) % Len(s)) + 1]]

Files(n) == [c \in Category |-> Repeated(log[c], n)]

\* Everything or nothing; everything if the file was closed and not lost.
OpenFile ==
    /\ view = Unopened
    /\ \/ state \in {"written", "closed"} /\ \E n \in 1..MaxFiles : view' = Files(n)
       \/ state # "closed" /\ view' = Empty
    /\ UNCHANGED <<log, wrote, state, next, answer>>

\* More files are opened: they follow those that are open.
OpenMore ==
    /\ \E m, n \in 1..MaxFiles : m < n /\ view = Files(m) /\ view' = Files(n)
    /\ UNCHANGED <<log, wrote, state, next, answer>>

ReadFrom(c, i) ==
    /\ view # Unopened
    /\ \/ /\ i < Len(view[c])
          /\ \/ /\ answer' \in {view[c][i+1]} \cup Garbage
                /\ next' = [next EXCEPT ![c] = i + 1]
             \/ answer' = "throws" /\ \E n \in {i, i + 1} : next' = [next EXCEPT ![c] = n]
       \/ /\ i >= Len(view[c])
          /\ answer' = "null"
          /\ next' = [next EXCEPT ![c] = i]
    /\ UNCHANGED <<log, wrote, state, view>>

Next ==
    \/ \E c \in Category :
          \/ \E fr \in Frame : Write(c, fr)
          \/ WriteThrows(c)
          \/ ReadFrom(c, next[c])
          \/ \E i \in Index : ReadFrom(c, i)
    \/ Complete
    \/ Close
    \/ Lose
    \/ OpenFile
    \/ OpenMore

Spec == Init /\ [][Next]_vars
=============================================================================
