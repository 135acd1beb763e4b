---------------------------- MODULE Frame_proofs ----------------------------
(***************************************************************************)
(* What Frame.tla guarantees for any collections, any relations between    *)
(* them, cyclic or not, and any number of threads.                         *)
(*                                                                         *)
(* The argument: the buffers of a collection can be taken out of the raw   *)
(* data once, so there is at most one activation of doGet, on all stacks   *)
(* together, that has got past unpacking it (Exclusive, Taken).  It alone  *)
(* emplaces the collection and appends to its relations, and every frame   *)
(* of its stack waits for the relation the frame above is about (Linked).  *)
(*                                                                         *)
(* The second half is about a Frame that one thread uses (OneThread), of   *)
(* which more is true, also while relations lead in circles: what it       *)
(* unpacks is not in the map before, no relation is left out, and the      *)
(* Frame is the one FrameContract describes.  With two threads none of     *)
(* this holds.                                                             *)
(***************************************************************************)
EXTENDS Frame, SequenceTheorems, TLAPS

\* An activation that has got the buffers of its collection.
Past(a) == a.pc \in {"emplace", "relations", "insert"}

\* An activation in setReferences.
Setting(a) == a.pc \in {"relations", "insert"}

\* Below the top of a stack, all activations are in setReferences.
Shape ==
    \A t \in Thread : \A i \in 2..Len(stack[t]) : stack[t][i].pc = "relations"

\* A collection has one activation that has got its buffers.
Exclusive ==
    \A s, t \in Thread : \A i \in 1..Len(stack[s]), j \in 1..Len(stack[t]) :
        Past(stack[s][i]) /\ Past(stack[t][j]) /\ stack[s][i].name = stack[t][j].name
            => s = t /\ i = j

\* The buffers an activation has got are no longer in the raw data.
Taken ==
    \A t \in Thread : \A i \in 1..Len(stack[t]) :
        Past(stack[t][i]) => stack[t][i].name \notin m_data

\* setReferences works on a collection in the map.
Entered ==
    \A t \in Thread : \A i \in 1..Len(stack[t]) :
        Setting(stack[t][i]) => m_collections[stack[t][i].name] # "absent"

\* A collection from a file has been unpacked before.
FromFile ==
    \A n \in Name : m_collections[n] = "file" =>
        /\ n \notin m_data
        /\ \A t \in Thread : \A i \in 1..Len(stack[t]) :
              stack[t][i].pc = "emplace" => stack[t][i].name # n

\* setReferences of the collection c has stored relations left.
HasNext(c) ==
    /\ m_collections[c] = "file"
    /\ Len(relations[c]) < Len(References[c])

\* The next of them is to the collection n.
WaitsFor(c, n) ==
    HasNext(c) /\ References[c][Len(relations[c]) + 1] = n

\* Each activation was called for the next relation of the one below it.
Linked ==
    \A t \in Thread : \A i \in 1..Len(stack[t]) :
        /\ i > 1 => WaitsFor(stack[t][i].name, stack[t][i-1].name)
        /\ stack[t][i].pc = "insert" => HasNext(stack[t][i].name)

IInv ==
    /\ TypeOK
    /\ Shape
    /\ Exclusive
    /\ Taken
    /\ Entered
    /\ FromFile
    /\ Linked
    /\ RelationsValid

-----------------------------------------------------------------------------
\* What the operations on a stack do to its activations.
LEMMA StackOps ==
  ASSUME NEW s \in Seq(Activation), s # <<>>
  PROVE  /\ Head(s) = s[1] /\ s[1] \in Activation
         /\ Len(s) \in Nat /\ Len(s) >= 1
         /\ Tail(s) \in Seq(Activation)
         /\ Len(Tail(s)) = Len(s) - 1
         /\ \A i \in 1..Len(Tail(s)) : Tail(s)[i] = s[i+1]
BY HeadTailProperties, ElementOfSeq, EmptySeq

LEMMA ReplaceTop ==
  ASSUME NEW s \in Seq(Activation), s # <<>>, NEW a \in Activation
  PROVE  /\ <<a>> \o Tail(s) \in Seq(Activation)
         /\ Len(<<a>> \o Tail(s)) = Len(s)
         /\ (<<a>> \o Tail(s))[1] = a
         /\ \A i \in 2..Len(s) : (<<a>> \o Tail(s))[i] = s[i]
<1>1. <<a>> \in Seq(Activation) /\ Len(<<a>>) = 1 /\ <<a>>[1] = a
  OBVIOUS
<1>2. /\ Len(s) \in Nat /\ Len(s) >= 1
      /\ Tail(s) \in Seq(Activation)
      /\ Len(Tail(s)) = Len(s) - 1
      /\ \A i \in 1..Len(Tail(s)) : Tail(s)[i] = s[i+1]
  BY StackOps
<1> QED
  BY <1>1, <1>2, ConcatProperties

LEMMA PushTop ==
  ASSUME NEW s \in Seq(Activation), NEW a \in Activation
  PROVE  /\ <<a>> \o s \in Seq(Activation)
         /\ Len(<<a>> \o s) = Len(s) + 1
         /\ (<<a>> \o s)[1] = a
         /\ \A i \in 2..(Len(s) + 1) : (<<a>> \o s)[i] = s[i-1]
<1>1. <<a>> \in Seq(Activation) /\ Len(<<a>>) = 1 /\ <<a>>[1] = a /\ Len(s) \in Nat
  OBVIOUS
<1> QED
  BY <1>1, ConcatProperties

-----------------------------------------------------------------------------
\* The three things a step does to the stacks: it moves the top of one on,
\* takes it off, or pushes an activation of doGet.
Moved(t, pc) ==
    \A u \in Thread :
        /\ Len(stack'[u]) = Len(stack[u])
        /\ \A i \in 1..Len(stack[u]) :
              /\ stack'[u][i].name = stack[u][i].name
              /\ stack'[u][i].pc = IF u = t /\ i = 1 THEN pc ELSE stack[u][i].pc

Popped(t) ==
    /\ \A u \in Thread : u # t => stack'[u] = stack[u]
    /\ Len(stack'[t]) = Len(stack[t]) - 1
    /\ \A i \in 1..Len(stack'[t]) : stack'[t][i] = stack[t][i+1]

Pushed(t, n) ==
    /\ \A u \in Thread : u # t => stack'[u] = stack[u]
    /\ Len(stack'[t]) = Len(stack[t]) + 1
    /\ stack'[t][1].name = n /\ stack'[t][1].pc = "lookup"
    /\ \A i \in 2..Len(stack'[t]) :
          /\ stack'[t][i].name = stack[t][i-1].name
          /\ stack'[t][i].pc = IF i = 2 THEN "relations" ELSE stack[t][i-1].pc

Stacks == stack \in [Thread -> Seq(Activation)]

\* The top of a stack that is not empty.
LEMMA TopOfStack ==
  ASSUME Stacks, NEW t \in Thread, ~Idle(t)
  PROVE  /\ stack[t] \in Seq(Activation) /\ stack[t] # <<>>
         /\ Top(t) = stack[t][1] /\ Top(t) \in Activation
         /\ Len(stack[t]) \in Nat /\ Len(stack[t]) >= 1
         /\ Len(stack[t]) = 1 \/ Len(stack[t]) > 1
<1>1. stack[t] \in Seq(Activation) /\ stack[t] # <<>>
  BY DEF Stacks, Idle
<1>2. Head(stack[t]) = stack[t][1] /\ stack[t][1] \in Activation
  BY <1>1, StackOps
<1>3. Len(stack[t]) \in Nat /\ Len(stack[t]) >= 1
  BY <1>1, StackOps
<1>4. \A n \in Nat : n >= 1 => n = 1 \/ n > 1
  OBVIOUS
<1> QED
  BY <1>1, <1>2, <1>3, <1>4 DEF Top

LEMMA Moving ==
  ASSUME Stacks, NEW t \in Thread, ~Idle(t), NEW a \in Activation, a.name = Top(t).name,
         stack' = [stack EXCEPT ![t] = <<a>> \o Tail(@)]
  PROVE  Stacks' /\ Moved(t, a.pc)
<1> DEFINE new == <<a>> \o Tail(stack[t])
<1>1. /\ new \in Seq(Activation) /\ Len(new) = Len(stack[t])
      /\ new[1] = a /\ \A i \in 2..Len(stack[t]) : new[i] = stack[t][i]
  BY TopOfStack, ReplaceTop
<1>2. stack' = [stack EXCEPT ![t] = new]
  OBVIOUS
<1> HIDE DEF new
<1>3. stack'[t] = new /\ \A u \in Thread : u # t => stack'[u] = stack[u]
  BY <1>2 DEF Stacks
<1>4. Stacks'
  BY <1>1, <1>2 DEF Stacks
<1>5. \A i \in 1..Len(stack[t]) : /\ new[i].name = stack[t][i].name
                                  /\ new[i].pc = IF i = 1 THEN a.pc ELSE stack[t][i].pc
  BY <1>1, TopOfStack
<1> QED
  BY <1>1, <1>3, <1>4, <1>5 DEF Moved

LEMMA Going ==
  ASSUME Stacks, NEW t \in Thread, ~Idle(t), NEW pc \in PC, Goto(t, pc)
  PROVE  Stacks' /\ Moved(t, pc)
<1> DEFINE a == [Top(t) EXCEPT !.pc = pc]
<1>1. a \in Activation /\ a.pc = pc /\ a.name = Top(t).name
  BY TopOfStack DEF Activation
<1>2. stack' = [stack EXCEPT ![t] = <<a>> \o Tail(@)]
  BY DEF Goto
<1> HIDE DEF a
<1> QED
  BY <1>1, <1>2, Moving

LEMMA Popping ==
  ASSUME Stacks, NEW t \in Thread, ~Idle(t), stack' = [stack EXCEPT ![t] = Tail(stack[t])]
  PROVE  Stacks' /\ Popped(t)
BY TopOfStack, StackOps DEF Stacks, Popped

\* ResolveSeen leaves the top as it is, InsertID moves it on.
LEMMA PushingOn ==
  ASSUME Stacks, NEW t \in Thread, ~Idle(t), NEW b \in Activation, b.pc = "lookup",
         Top(t).pc = "relations", stack' = [stack EXCEPT ![t] = <<b>> \o @]
  PROVE  Stacks' /\ Pushed(t, b.name)
<1> DEFINE new == <<b>> \o stack[t]
<1>1. /\ new \in Seq(Activation) /\ Len(new) = Len(stack[t]) + 1
      /\ new[1] = b /\ \A i \in 2..(Len(stack[t]) + 1) : new[i] = stack[t][i-1]
  BY TopOfStack, PushTop
<1>2. stack' = [stack EXCEPT ![t] = new]
  OBVIOUS
<1> HIDE DEF new
<1>3. stack'[t] = new /\ \A u \in Thread : u # t => stack'[u] = stack[u]
  BY <1>2 DEF Stacks
<1>4. Stacks'
  BY <1>1, <1>2 DEF Stacks
<1>5. \A i \in 2..Len(new) :
        /\ new[i].name = stack[t][i-1].name
        /\ new[i].pc = IF i = 2 THEN "relations" ELSE stack[t][i-1].pc
  BY <1>1, TopOfStack
<1> QED
  BY <1>1, <1>3, <1>4, <1>5 DEF Pushed

LEMMA PushingBoth ==
  ASSUME Stacks, NEW t \in Thread, ~Idle(t), NEW a \in Activation, NEW b \in Activation,
         b.pc = "lookup", a.pc = "relations", a.name = Top(t).name,
         stack' = [stack EXCEPT ![t] = <<b, a>> \o Tail(@)]
  PROVE  Stacks' /\ Pushed(t, b.name)
<1> DEFINE new == <<b, a>> \o Tail(stack[t])
<1>1. <<b, a>> \in Seq(Activation) /\ Len(<<b, a>>) = 2 /\ <<b, a>>[1] = b /\ <<b, a>>[2] = a
  OBVIOUS
<1>2. /\ Tail(stack[t]) \in Seq(Activation) /\ Len(Tail(stack[t])) = Len(stack[t]) - 1
      /\ \A i \in 1..Len(Tail(stack[t])) : Tail(stack[t])[i] = stack[t][i+1]
  BY TopOfStack, StackOps
<1>3. /\ new \in Seq(Activation) /\ Len(new) = Len(stack[t]) + 1
      /\ \A i \in 1..(Len(stack[t]) + 1) :
            new[i] = IF i <= 2 THEN <<b, a>>[i] ELSE Tail(stack[t])[i-2]
  BY <1>1, <1>2, TopOfStack, ConcatProperties
<1>4. stack' = [stack EXCEPT ![t] = new]
  OBVIOUS
<1> HIDE DEF new
<1>5. new[1] = b /\ new[2] = a /\ \A i \in 3..Len(new) : new[i] = stack[t][i-1]
  BY <1>1, <1>2, <1>3, TopOfStack
<1>6. stack'[t] = new /\ \A u \in Thread : u # t => stack'[u] = stack[u]
  BY <1>4 DEF Stacks
<1>7. Stacks'
  BY <1>3, <1>4 DEF Stacks
<1>8. \A i \in 2..Len(new) :
        /\ new[i].name = stack[t][i-1].name
        /\ new[i].pc = IF i = 2 THEN "relations" ELSE stack[t][i-1].pc
  BY <1>3, <1>5, TopOfStack
<1> QED
  BY <1>3, <1>5, <1>6, <1>7, <1>8 DEF Pushed

-----------------------------------------------------------------------------
LEMMA InitIInv == Init => IInv
<1> SUFFICES ASSUME Init PROVE IInv
  OBVIOUS
<1>1. TypeOK
  BY NamesAssumption DEF Init, TypeOK, Entry
<1>2. \A t \in Thread : Len(stack[t]) = 0
  BY DEF Init
<1>3. Shape /\ Exclusive /\ Taken /\ Entered /\ Linked
  BY <1>2 DEF Shape, Exclusive, Taken, Entered, Linked
<1>4. FromFile
  BY <1>2 DEF FromFile, Init
<1>5. RelationsValid
  <2>1. \A n \in Name : Len(relations[n]) = 0 /\ Len(References[n]) \in Nat
    BY ReferencesAssumption DEF Init
  <2> QED
    BY <2>1 DEF RelationsValid
<1> QED
  BY <1>1, <1>3, <1>4, <1>5 DEF IInv

\* The calls of user code start on an empty stack.
LEMMA CallGetIInv ==
  ASSUME IInv, NEW t \in Thread, NEW n \in GetNames, CallGet(t, n)
  PROVE  IInv'
<1> DEFINE a == Enter(n, TRUE)
<1>1. a \in Activation /\ a.pc = "lookup"
  BY NamesAssumption DEF Enter, Activation, PC
<1>2. stack' = [stack EXCEPT ![t] = <<a>>] /\ stack \in [Thread -> Seq(Activation)]
  BY DEF CallGet, IInv, TypeOK
<1> HIDE DEF a
<1>3. <<a>> \in Seq(Activation) /\ Len(<<a>>) = 1 /\ <<a>>[1] = a
  BY <1>1
<1>4. \A u \in Thread : \A i \in 1..Len(stack'[u]) :
        \/ u = t /\ i = 1 /\ stack'[u][i] = a
        \/ u # t /\ stack'[u] = stack[u]
  <2>1. stack'[t] = <<a>> /\ \A u \in Thread : u # t => stack'[u] = stack[u]
    BY <1>2
  <2>2. \A i \in 1..Len(stack'[t]) : i = 1 /\ stack'[t][i] = a
    BY <1>3, <2>1
  <2> QED
    BY <2>1, <2>2
<1>5. UNCHANGED <<m_data, m_collections, relations, known, m_retrievedIDs>>
  BY DEF CallGet
<1>6. TypeOK'
  <2>1. stack' \in [Thread -> Seq(Activation)]
    BY <1>2, <1>3
  <2> QED
    BY <1>5, <2>1 DEF IInv, TypeOK
<1>7. Shape'
  <2> SUFFICES ASSUME NEW u \in Thread, NEW i \in 2..Len(stack'[u])
               PROVE  stack'[u][i].pc = "relations"
    BY DEF Shape
  <2>1. Len(stack'[u]) \in Nat
    BY <1>6 DEF TypeOK
  <2>2. i \in 1..Len(stack'[u]) /\ i # 1
    BY <2>1
  <2> QED
    BY <1>4, <2>2 DEF IInv, Shape
<1>8. Taken' /\ Entered'
  BY <1>1, <1>4, <1>5 DEF IInv, Taken, Entered, Past, Setting
<1>9. Exclusive'
  BY <1>1, <1>4 DEF IInv, Exclusive, Past
<1>10. FromFile'
  BY <1>1, <1>4, <1>5 DEF IInv, FromFile
<1>11. Linked'
  <2> SUFFICES ASSUME NEW u \in Thread, NEW i \in 1..Len(stack'[u])
               PROVE  /\ i > 1 => WaitsFor(stack'[u][i].name, stack'[u][i-1].name)
                      /\ stack'[u][i].pc = "insert" => HasNext(stack'[u][i].name)
    BY <1>5 DEF Linked, WaitsFor, HasNext
  <2>1. CASE u = t /\ i = 1 /\ stack'[u][i] = a
    BY <1>1, <2>1
  <2>2. CASE u # t /\ stack'[u] = stack[u]
    BY <2>2 DEF IInv, Linked
  <2> QED
    BY <1>4, <2>1, <2>2
<1>12. RelationsValid'
  BY <1>5 DEF IInv, RelationsValid, InMap
<1> QED
  BY <1>6, <1>7, <1>8, <1>9, <1>10, <1>11, <1>12 DEF IInv

-----------------------------------------------------------------------------
\* What a step does to the activations that have got their buffers: the one at
\* position i of a stack was at position i + shift before.
Follows(shift) ==
    \A u \in Thread : \A i \in 1..Len(stack'[u]) :
        Past(stack'[u][i]) =>
            /\ i + shift[u] \in 1..Len(stack[u])
            /\ stack'[u][i].name = stack[u][i + shift[u]].name
            /\ Past(stack[u][i + shift[u]])
            /\ stack'[u][i].pc = "emplace" => stack[u][i + shift[u]].pc = "emplace"
            /\ \/ Setting(stack[u][i + shift[u]])
               \/ stack'[u][i].pc = "emplace"
               \/ m_collections'[stack'[u][i].name] # "absent"

\* What is in the map stays, and what is new in it was in nobody's hands.
Grows ==
    /\ \A n \in Name : m_collections[n] # "absent" => m_collections'[n] = m_collections[n]
    /\ \A n \in Name : m_collections'[n] = "file" =>
          \/ m_collections[n] = "file"
          \/ /\ n \notin m_data
             /\ \A u \in Thread : \A i \in 1..Len(stack'[u]) :
                   stack'[u][i].pc = "emplace" => stack'[u][i].name # n

LEMMA Names ==
  ASSUME Stacks, NEW u \in Thread, NEW i \in 1..Len(stack[u])
  PROVE  stack[u][i] \in Activation /\ stack[u][i].name \in Name
<1>1. stack[u] \in Seq(Activation)
  BY DEF Stacks
<1>2. stack[u][i] \in Activation
  BY <1>1, ElementOfSeq
<1> QED
  BY <1>2 DEF Activation

\* A step after which every activation that has got its buffers had them before.
LEMMA FollowsInv ==
  ASSUME IInv, Stacks', NEW shift \in [Thread -> Int], Follows(shift), Grows, m_data' \subseteq m_data
  PROVE  Exclusive' /\ Taken' /\ Entered' /\ FromFile'
<1>1. Exclusive'
  <2> SUFFICES ASSUME NEW u \in Thread, NEW v \in Thread,
                      NEW i \in 1..Len(stack'[u]), NEW j \in 1..Len(stack'[v]),
                      Past(stack'[u][i]), Past(stack'[v][j]),
                      stack'[u][i].name = stack'[v][j].name
               PROVE  u = v /\ i = j
    BY DEF Exclusive, Past
  <2>3. /\ i + shift[u] \in 1..Len(stack[u]) /\ Past(stack[u][i + shift[u]])
        /\ stack'[u][i].name = stack[u][i + shift[u]].name
    BY DEF Follows
  <2>4. /\ j + shift[v] \in 1..Len(stack[v]) /\ Past(stack[v][j + shift[v]])
        /\ stack'[v][j].name = stack[v][j + shift[v]].name
    BY DEF Follows
  <2>1. u = v /\ i + shift[u] = j + shift[v]
    BY <2>3, <2>4 DEF IInv, Exclusive
  <2>2. i \in Nat /\ j \in Nat /\ shift[u] \in Int
    BY DEF Stacks
  <2> QED
    BY <2>1, <2>2
<1>2. Taken'
  <2> SUFFICES ASSUME NEW u \in Thread, NEW i \in 1..Len(stack'[u]), Past(stack'[u][i])
               PROVE  stack'[u][i].name \notin m_data'
    BY DEF Taken, Past
  <2>1. /\ i + shift[u] \in 1..Len(stack[u]) /\ Past(stack[u][i + shift[u]])
        /\ stack'[u][i].name = stack[u][i + shift[u]].name
    BY DEF Follows
  <2>2. stack[u][i + shift[u]].name \notin m_data
    BY <2>1 DEF IInv, Taken
  <2> QED
    BY <2>1, <2>2
<1>3. Entered'
  <2> SUFFICES ASSUME NEW u \in Thread, NEW i \in 1..Len(stack'[u]), Setting(stack'[u][i])
               PROVE  m_collections'[stack'[u][i].name] # "absent"
    BY DEF Entered, Setting
  <2> DEFINE b == stack[u][i + shift[u]]
  <2>1. /\ i + shift[u] \in 1..Len(stack[u]) /\ stack'[u][i].name = b.name
        /\ Setting(b) \/ m_collections'[stack'[u][i].name] # "absent"
    BY DEF Follows, Past, Setting
  <2>2. CASE Setting(b)
    <3>1. m_collections[b.name] # "absent"
      BY <2>1, <2>2 DEF IInv, Entered
    <3>2. Stacks
      BY DEF IInv, TypeOK, Stacks
    <3>3. b.name \in Name
      BY <2>1, <3>2, Names
    <3> QED
      BY <2>1, <3>1, <3>3 DEF Grows
  <2> QED
    BY <2>1, <2>2
<1>4. FromFile'
  <2> SUFFICES ASSUME NEW n \in Name, m_collections'[n] = "file"
               PROVE  /\ n \notin m_data'
                      /\ \A u \in Thread : \A i \in 1..Len(stack'[u]) :
                            stack'[u][i].pc = "emplace" => stack'[u][i].name # n
    BY DEF FromFile
  <2>1. CASE m_collections[n] = "file"
    <3>1. n \notin m_data'
      BY <2>1 DEF IInv, FromFile
    <3>2. ASSUME NEW u \in Thread, NEW i \in 1..Len(stack'[u]), stack'[u][i].pc = "emplace"
          PROVE  stack'[u][i].name # n
      <4>1. /\ i + shift[u] \in 1..Len(stack[u])
            /\ stack[u][i + shift[u]].pc = "emplace"
            /\ stack'[u][i].name = stack[u][i + shift[u]].name
        BY <3>2 DEF Follows, Past
      <4> QED
        BY <2>1, <4>1 DEF IInv, FromFile
    <3> QED
      BY <3>1, <3>2
  <2>2. CASE m_collections[n] # "file"
    BY <2>2 DEF Grows
  <2> QED
    BY <2>1, <2>2
<1> QED
  BY <1>1, <1>2, <1>3, <1>4

LEMMA ShapeInv ==
  ASSUME Stacks, Stacks', Shape, NEW t \in Thread,
         \/ \E pc \in PC : Moved(t, pc)
         \/ Popped(t)
         \/ \E n \in Name : Pushed(t, n)
  PROVE  Shape'
<1> SUFFICES ASSUME NEW u \in Thread, NEW i \in 2..Len(stack'[u])
             PROVE  stack'[u][i].pc = "relations"
  BY DEF Shape
<1>1. Len(stack[u]) \in Nat /\ Len(stack'[u]) \in Nat /\ Len(stack[t]) \in Nat
  BY DEF Stacks
<1>2. CASE \E pc \in PC : Moved(t, pc)
  BY <1>1, <1>2 DEF Moved, Shape
<1>3. CASE Popped(t)
  BY <1>1, <1>3 DEF Popped, Shape
<1>4. CASE \E n \in Name : Pushed(t, n)
  BY SMTT(30), <1>1, <1>4 DEF Pushed, Shape
<1> QED
  BY <1>2, <1>3, <1>4

-----------------------------------------------------------------------------
\* An activation goes on waiting while the relations of its collection stay.
LEMMA WaitingStays ==
  ASSUME NEW c \in Name, NEW n, Grows, relations'[c] = relations[c]
  PROVE  /\ HasNext(c) => HasNext(c)'
         /\ WaitsFor(c, n) => WaitsFor(c, n)'
BY DEF HasNext, WaitsFor, Grows

\* Storing one more relation of a collection.
LEMMA StoringInv ==
  ASSUME IInv, Grows, NEW x \in Name, NEW v \in BOOLEAN,
         relations' = [relations EXCEPT ![x] = Append(@, v)],
         Len(relations[x]) < Len(References[x]),
         v => m_collections'[References[x][Len(relations[x]) + 1]] # "absent"
  PROVE  RelationsValid' /\ relations' \in [Name -> Seq(BOOLEAN)]
<1>1. relations \in [Name -> Seq(BOOLEAN)]
  BY DEF IInv, TypeOK
<1>2. \A n \in Name : /\ Len(relations[n]) \in Nat /\ Len(References[n]) \in Nat
                      /\ \A i \in 1..Len(References[n]) : References[n][i] \in Name
  BY <1>1, ReferencesAssumption, ElementOfSeq
<1>3. relations' \in [Name -> Seq(BOOLEAN)]
  BY <1>1
<1>4. \A n \in Name : n # x => relations'[n] = relations[n]
  BY <1>1
<1>5. /\ relations'[x] = Append(relations[x], v)
      /\ Len(relations'[x]) = Len(relations[x]) + 1
      /\ relations'[x][Len(relations[x]) + 1] = v
      /\ \A i \in 1..Len(relations[x]) : relations'[x][i] = relations[x][i]
  <2>1. relations'[x] = Append(relations[x], v) /\ relations[x] \in Seq(BOOLEAN)
    BY <1>1
  <2> QED
    BY <2>1, AppendProperties
<1>6. RelationsValid'
  <2> SUFFICES ASSUME NEW n \in Name
               PROVE  /\ Len(relations'[n]) <= Len(References[n])
                      /\ \A i \in 1..Len(relations'[n]) :
                            relations'[n][i] => m_collections'[References[n][i]] # "absent" /\ References[n][i] \in Name
    BY DEF RelationsValid, InMap
  <2>1. /\ Len(relations[n]) <= Len(References[n])
        /\ \A i \in 1..Len(relations[n]) : relations[n][i] => m_collections[References[n][i]] # "absent"
    BY DEF IInv, RelationsValid, InMap
  <2>2. CASE n # x
    BY SMTT(30), <1>2, <1>4, <2>1, <2>2 DEF Grows
  <2>3. CASE n = x
    <3>1. Len(relations'[n]) <= Len(References[n])
      BY <1>2, <1>5, <2>3
    <3>2. ASSUME NEW i \in 1..Len(relations'[n]), relations'[n][i]
          PROVE  m_collections'[References[n][i]] # "absent" /\ References[n][i] \in Name
      <4>1. References[n][i] \in Name
        BY <1>2, <1>5, <2>3, <3>1
      <4>2. CASE i = Len(relations[x]) + 1
        BY <1>5, <2>3, <3>2, <4>1, <4>2
      <4>3. CASE i \in 1..Len(relations[x])
        BY <1>5, <2>1, <2>3, <3>2, <4>1, <4>3 DEF Grows
      <4> QED
        BY <1>2, <1>5, <2>3, <4>2, <4>3
    <3> QED
      BY <3>1, <3>2
  <2> QED
    BY <2>2, <2>3
<1> QED
  BY <1>3, <1>6

-----------------------------------------------------------------------------
\* The activation whose call returns is off its stack; the others are where
\* they were, one position up in that stack.
LEMMA PoppedFollows ==
  ASSUME Stacks, Stacks', Entered, NEW t \in Thread, ~Idle(t), Popped(t)
  PROVE  \E shift \in [Thread -> Int] : Follows(shift)
<1> DEFINE shift == [u \in Thread |-> IF u = t THEN 1 ELSE 0]
<1>1. shift \in [Thread -> Int] /\ shift[t] = 1 /\ \A u \in Thread : u # t => shift[u] = 0
  OBVIOUS
<1> HIDE DEF shift
<1>2. ASSUME NEW u \in Thread, NEW i \in 1..Len(stack'[u])
      PROVE  i + shift[u] \in 1..Len(stack[u]) /\ stack'[u][i] = stack[u][i + shift[u]]
  <2>1. Len(stack[u]) \in Nat /\ Len(stack'[u]) \in Nat
    BY DEF Stacks
  <2>2. CASE u = t
    BY <1>1, <2>1, <2>2 DEF Popped
  <2>3. CASE u # t
    BY <1>1, <2>1, <2>3 DEF Popped
  <2> QED
    BY <2>2, <2>3
<1>3. Follows(shift)
  BY <1>2 DEF Follows, Past, Setting
<1> QED
  BY <1>1, <1>3

\* doGet returns into setReferences: the next relation of the collection below
\* is stored.
LEMMA ReturnStores ==
  ASSUME Stacks, NEW t \in Thread, ~Idle(t), NEW found, Return(t, found)
  PROVE  /\ stack' = [stack EXCEPT ![t] = Tail(stack[t])]
         /\ Len(stack[t]) = 1 => relations' = relations
         /\ Len(stack[t]) > 1 =>
               relations' = [relations EXCEPT ![stack[t][2].name] = Append(@, found)]
<1> DEFINE rest == Tail(stack[t])
<1>1. /\ Len(stack[t]) \in Nat /\ Len(rest) = Len(stack[t]) - 1 /\ rest \in Seq(Activation)
      /\ \A i \in 1..Len(rest) : rest[i] = stack[t][i+1]
  BY TopOfStack, StackOps
<1>2. stack' = [stack EXCEPT ![t] = rest]
  BY DEF Return
<1>3. \/ rest = <<>> /\ relations' = relations
      \/ rest # <<>> /\ relations' = [relations EXCEPT ![Head(rest).name] = Append(@, found)]
  BY DEF Return, Resolved
<1> HIDE DEF rest
<1>4. rest = <<>> => Len(rest) = 0
  BY EmptySeq
<1>5. rest # <<>> => Head(rest) = stack[t][2] /\ Len(rest) >= 1
  BY <1>1, StackOps
<1>6. Len(stack[t]) = 1 => rest = <<>>
  BY <1>1
<1>7. Len(stack[t]) > 1 => rest # <<>>
  BY <1>1, <1>4
<1>8. Len(stack[t]) = 1 => relations' = relations
  BY <1>3, <1>6
<1>9. Len(stack[t]) > 1 =>
         relations' = [relations EXCEPT ![stack[t][2].name] = Append(@, found)]
  <2> SUFFICES ASSUME Len(stack[t]) > 1
               PROVE  relations' = [relations EXCEPT ![stack[t][2].name] = Append(@, found)]
    OBVIOUS
  <2>1. rest # <<>> /\ Head(rest) = stack[t][2]
    BY <1>5, <1>7
  <2> QED
    BY <1>3, <2>1
<1> QED
  BY <1>2, <1>8, <1>9 DEF rest

\* doGet returns, having found the collection in the map or not at all.
LEMMA ReturnInv ==
  ASSUME IInv, NEW t \in Thread, ~Idle(t), NEW found \in BOOLEAN, Return(t, found),
         UNCHANGED <<m_data, known, m_retrievedIDs>>, m_collections' \in [Name -> Entry], Grows,
         found => m_collections'[Top(t).name] # "absent"
  PROVE  IInv'
<1>1. Stacks
  BY DEF IInv, TypeOK, Stacks
<1>2. /\ stack' = [stack EXCEPT ![t] = Tail(stack[t])]
      /\ Len(stack[t]) = 1 => relations' = relations
      /\ Len(stack[t]) > 1 =>
            relations' = [relations EXCEPT ![stack[t][2].name] = Append(@, found)]
  BY <1>1, ReturnStores
<1>3. Stacks' /\ Popped(t)
  BY <1>1, <1>2, Popping
<1>4. Shape'
  BY <1>1, <1>3, ShapeInv DEF IInv
<1>5. Exclusive' /\ Taken' /\ Entered' /\ FromFile'
  BY <1>1, <1>3, PoppedFollows, FollowsInv DEF IInv
<1>6. /\ Len(stack[t]) \in Nat /\ Len(stack[t]) >= 1 /\ Top(t) = stack[t][1]
      /\ \A u \in Thread : Len(stack'[u]) \in Nat
  BY <1>1, <1>3, TopOfStack DEF Stacks
<1>7. CASE Len(stack[t]) = 1
  <2>1. relations' = relations
    BY <1>2, <1>7
  <2>2. TypeOK'
    BY <1>3, <2>1 DEF IInv, TypeOK, Stacks
  <2>3. RelationsValid'
    BY <2>1 DEF IInv, RelationsValid, InMap, Grows
  <2>4. Linked'
    <3> SUFFICES ASSUME NEW u \in Thread, NEW i \in 1..Len(stack'[u])
                 PROVE  /\ i > 1 => WaitsFor(stack[u][i].name, stack[u][i-1].name)'
                        /\ stack'[u][i].pc = "insert" => HasNext(stack[u][i].name)'
      BY DEF Linked
    <3>1. u # t /\ stack'[u] = stack[u]
      BY <1>3, <1>6, <1>7 DEF Popped
    <3>2. stack[u][i].name \in Name
      BY <1>1, <3>1, Names
    <3> QED
      BY <2>1, <3>1, <3>2, WaitingStays DEF IInv, Linked
  <2> QED
    BY <1>4, <1>5, <2>2, <2>3, <2>4 DEF IInv
<1>8. CASE Len(stack[t]) > 1
  <2> DEFINE x == stack[t][2].name
  <2>1. /\ 2 \in 1..Len(stack[t]) /\ x \in Name
        /\ stack[t][2].pc = "relations" /\ WaitsFor(x, stack[t][1].name)
    BY <1>1, <1>6, <1>8, Names DEF IInv, Shape, Linked
  <2>2. relations' = [relations EXCEPT ![x] = Append(@, found)]
    BY <1>2, <1>8
  <2>3. RelationsValid' /\ relations' \in [Name -> Seq(BOOLEAN)]
    BY <1>6, <2>1, <2>2, StoringInv DEF WaitsFor, HasNext
  <2>4. TypeOK'
    BY <1>3, <2>3 DEF IInv, TypeOK, Stacks
  <2>5. \A n \in Name : n # x => relations'[n] = relations[n]
    BY <2>2 DEF IInv, TypeOK
  <2>6. ASSUME NEW u \in Thread, NEW i \in 1..Len(stack[u]), Past(stack[u][i]), stack[u][i].name = x
        PROVE  u = t /\ i = 2
    BY <2>1, <2>6 DEF IInv, Exclusive, Past
  <2> HIDE DEF x
  <2>7. Linked'
    <3> SUFFICES ASSUME NEW u \in Thread, NEW i \in 1..Len(stack'[u])
                 PROVE  /\ i > 1 => WaitsFor(stack[u][i].name, stack[u][i-1].name)'
                        /\ stack'[u][i].pc = "insert" => HasNext(stack[u][i].name)'
      BY DEF Linked
    <3> DEFINE j == IF u = t THEN i + 1 ELSE i
    <3>1. /\ j \in 1..Len(stack[u]) /\ stack'[u][i] = stack[u][j] /\ i \in Nat /\ j \in Nat
          /\ i > 1 => j - 1 \in 1..Len(stack[u]) /\ stack'[u][i-1] = stack[u][j-1]
                      /\ j > 1 /\ ~(u = t /\ j = 2)
      <4>1. CASE u = t
        <5>1. i \in 1..Len(stack'[t]) /\ i \in Nat
          BY <4>1
        <5>2. Len(stack'[t]) = Len(stack[t]) - 1 /\ i + 1 \in 1..Len(stack[t])
          BY <1>3, <1>6, <5>1 DEF Popped
        <5>3. stack'[t][i] = stack[t][i + 1]
          BY <1>3, <5>1 DEF Popped
        <5>4. i > 1 => stack'[t][i - 1] = stack[t][i]
          <6> SUFFICES ASSUME i > 1 PROVE stack'[t][i - 1] = stack[t][i]
            OBVIOUS
          <6>1. i - 1 \in 1..Len(stack'[t]) /\ i - 1 + 1 = i
            BY <1>6, <5>1
          <6> QED
            BY <1>3, <6>1 DEF Popped
        <5> QED
          BY <1>6, <4>1, <5>1, <5>2, <5>3, <5>4
      <4>2. CASE u # t
        BY <1>3, <1>6, <4>2 DEF Popped
      <4> QED
        BY <4>1, <4>2
    <3> HIDE DEF j
    <3>2. stack[u][j].name \in Name
      BY <1>1, <3>1, Names
    <3>3. ASSUME i > 1 PROVE WaitsFor(stack[u][i].name, stack[u][i-1].name)'
      <4>1. WaitsFor(stack[u][j].name, stack[u][j-1].name)
        BY <3>1, <3>3 DEF IInv, Linked
      <4>2. Past(stack[u][j])
        BY <1>1, <3>1, <3>3 DEF IInv, Shape, Past
      <4>3. stack[u][j].name # x
        BY <2>6, <3>1, <3>3, <4>2
      <4> QED
        BY <2>5, <3>1, <3>2, <3>3, <4>1, <4>3, WaitingStays
    <3>4. ASSUME stack'[u][i].pc = "insert" PROVE HasNext(stack[u][i].name)'
      <4>1. HasNext(stack[u][j].name) /\ Past(stack[u][j])
        BY <3>1, <3>4 DEF IInv, Linked, Past
      <4>2. stack[u][j].name # x
        BY <2>1, <2>6, <3>1, <3>4, <4>1
      <4> QED
        BY <2>5, <3>1, <3>2, <4>1, <4>2, WaitingStays
    <3> QED
      BY <3>3, <3>4
  <2> QED
    BY <1>4, <1>5, <2>3, <2>4, <2>7 DEF IInv
<1>9. Len(stack[t]) = 1 \/ Len(stack[t]) > 1
  BY <1>1, TopOfStack
<1> QED
  BY <1>7, <1>8, <1>9

-----------------------------------------------------------------------------
\* The top of a stack moves on; if it gets past unpacking, it was there before.
LEMMA MovedInv ==
  ASSUME IInv, NEW t \in Thread, ~Idle(t), NEW pc \in PC, pc # "emplace",
         Stacks', Moved(t, pc), UNCHANGED <<m_data, relations, known>>,
         m_retrievedIDs' \in SUBSET Name, m_collections' \in [Name -> Entry], Grows,
         pc \in {"relations", "insert"} =>
            Past(Top(t)) /\ m_collections'[Top(t).name] # "absent",
         pc = "insert" => HasNext(Top(t).name)
  PROVE  IInv'
<1>1. /\ Stacks
      /\ Top(t) = stack[t][1] /\ 1 \in 1..Len(stack[t])
      /\ \A u \in Thread : Len(stack[u]) \in Nat
  BY TopOfStack DEF IInv, TypeOK, Stacks
<1>2. Shape'
  BY <1>1, ShapeInv DEF IInv
<1>3. \E shift \in [Thread -> Int] : Follows(shift)
  <2> DEFINE shift == [u \in Thread |-> 0]
  <2>1. shift \in [Thread -> Int] /\ \A u \in Thread : shift[u] = 0
    OBVIOUS
  <2> HIDE DEF shift
  <2>2. ASSUME NEW u \in Thread, NEW i \in 1..Len(stack'[u])
        PROVE  /\ i \in 1..Len(stack[u]) /\ i + shift[u] = i
               /\ stack'[u][i].name = stack[u][i].name
               /\ \/ stack'[u][i].pc = stack[u][i].pc
                  \/ stack'[u][i].pc = pc /\ stack[u][i] = Top(t) /\ u = t
    BY <1>1, <2>1 DEF Moved
  <2>3. Follows(shift)
    BY <2>2 DEF Follows, Past, Setting
  <2> QED
    BY <2>1, <2>3
<1>4. Exclusive' /\ Taken' /\ Entered' /\ FromFile'
  BY <1>3, FollowsInv
<1>5. TypeOK' /\ RelationsValid'
  BY DEF IInv, TypeOK, Stacks, RelationsValid, InMap, Grows
<1>6. Linked'
  <2> SUFFICES ASSUME NEW u \in Thread, NEW i \in 1..Len(stack'[u])
               PROVE  /\ i > 1 => WaitsFor(stack[u][i].name, stack[u][i-1].name)'
                      /\ stack'[u][i].pc = "insert" => HasNext(stack[u][i].name)'
    BY DEF Linked
  <2>1. /\ i \in 1..Len(stack[u]) /\ stack'[u][i].name = stack[u][i].name
        /\ stack'[u][i].pc = IF u = t /\ i = 1 THEN pc ELSE stack[u][i].pc
        /\ i > 1 => i - 1 \in 1..Len(stack[u]) /\ stack'[u][i-1].name = stack[u][i-1].name
    BY <1>1 DEF Moved
  <2>2. stack[u][i].name \in Name
    BY <1>1, <2>1, Names
  <2>3. /\ i > 1 => WaitsFor(stack[u][i].name, stack[u][i-1].name)
        /\ stack'[u][i].pc = "insert" => HasNext(stack[u][i].name)
    BY <1>1, <2>1 DEF IInv, Linked
  <2> QED
    BY <2>1, <2>2, <2>3, WaitingStays
<1> QED
  BY <1>2, <1>4, <1>5, <1>6 DEF IInv

\* setReferences of the collection at the top asks for its next relation.
LEMMA PushedInv ==
  ASSUME IInv, NEW t \in Thread, ~Idle(t), NEW n \in Name, Stacks', Pushed(t, n),
         UNCHANGED <<m_data, m_collections, relations, known>>, m_retrievedIDs' \in SUBSET Name,
         Setting(Top(t)), WaitsFor(Top(t).name, n)
  PROVE  IInv'
<1>1. /\ Stacks
      /\ Top(t) = stack[t][1] /\ 1 \in 1..Len(stack[t])
      /\ \A u \in Thread : Len(stack[u]) \in Nat /\ Len(stack'[u]) \in Nat
  BY TopOfStack DEF IInv, TypeOK, Stacks
<1>2. Shape'
  BY <1>1, ShapeInv DEF IInv
<1>3. Grows
  BY DEF Grows
<1>4. ASSUME NEW u \in Thread, NEW i \in 1..Len(stack'[u])
      PROVE  \/ u # t /\ stack'[u] = stack[u]
             \/ u = t /\ i = 1 /\ stack'[u][i].pc = "lookup" /\ stack'[u][i].name = n
             \/ /\ u = t /\ i - 1 \in 1..Len(stack[u]) /\ i > 1
                /\ stack'[u][i].name = stack[u][i-1].name
                /\ stack'[u][i].pc = IF i = 2 THEN "relations" ELSE stack[u][i-1].pc
  BY <1>1 DEF Pushed
<1>5. \E shift \in [Thread -> Int] : Follows(shift)
  <2> DEFINE shift == [u \in Thread |-> IF u = t THEN -1 ELSE 0]
  <2>1. shift \in [Thread -> Int] /\ shift[t] = -1 /\ \A u \in Thread : u # t => shift[u] = 0
    OBVIOUS
  <2> HIDE DEF shift
  <2>2. ASSUME NEW u \in Thread, NEW i \in 1..Len(stack'[u]), Past(stack'[u][i])
        PROVE  /\ i + shift[u] \in 1..Len(stack[u])
               /\ stack'[u][i].name = stack[u][i + shift[u]].name
               /\ \/ stack'[u][i].pc = stack[u][i + shift[u]].pc
                  \/ stack'[u][i].pc = "relations" /\ Setting(stack[u][i + shift[u]])
    <3>1. CASE u # t /\ stack'[u] = stack[u]
      <4>1. i \in Nat /\ i + shift[u] = i
        BY <2>1, <3>1
      <4> QED
        BY <3>1, <4>1
    <3>2. CASE /\ u = t /\ i - 1 \in 1..Len(stack[u]) /\ i > 1
               /\ stack'[u][i].name = stack[u][i-1].name
               /\ stack'[u][i].pc = IF i = 2 THEN "relations" ELSE stack[u][i-1].pc
      <4>1. i \in Nat /\ i + shift[u] = i - 1
        BY <2>1, <3>2
      <4>2. i = 2 => i - 1 = 1
        OBVIOUS
      <4> QED
        BY <1>1, <3>2, <4>1, <4>2
    <3> QED
      BY <1>4, <2>2, <3>1, <3>2 DEF Past
  <2>3. Follows(shift)
    BY <2>2 DEF Follows, Past, Setting
  <2> QED
    BY <2>1, <2>3
<1>6. Exclusive' /\ Taken' /\ Entered' /\ FromFile'
  BY <1>3, <1>5, FollowsInv
<1>7. TypeOK' /\ RelationsValid'
  BY DEF IInv, TypeOK, Stacks, RelationsValid, InMap
<1>8. Linked'
  <2> SUFFICES ASSUME NEW u \in Thread, NEW i \in 1..Len(stack'[u])
               PROVE  /\ i > 1 => WaitsFor(stack'[u][i].name, stack'[u][i-1].name)
                      /\ stack'[u][i].pc = "insert" => HasNext(stack'[u][i].name)
    BY DEF Linked, WaitsFor, HasNext
  <2>1. CASE u # t /\ stack'[u] = stack[u]
    BY <2>1 DEF IInv, Linked
  <2>2. CASE u = t /\ i = 1 /\ stack'[u][i].pc = "lookup"
    BY <2>2
  <2>3. CASE /\ u = t /\ i - 1 \in 1..Len(stack[u]) /\ i > 1
             /\ stack'[u][i].name = stack[u][i-1].name
             /\ stack'[u][i].pc = IF i = 2 THEN "relations" ELSE stack[u][i-1].pc
    <3>1. stack'[u][i].pc = "insert" => HasNext(stack'[u][i].name)
      BY <2>3 DEF IInv, Linked
    <3>2. CASE i = 2
      <4>1. i - 1 = 1
        BY <3>2
      <4>2. stack'[u][i-1].name = n /\ stack'[u][i].name = Top(t).name
        BY <1>1, <2>3, <4>1 DEF Pushed
      <4> QED
        BY <2>3, <3>1, <4>2
    <3>3. CASE i > 2
      <4> DEFINE k == i - 1
      <4>0. i \in Nat /\ Len(stack'[t]) = Len(stack[t]) + 1
        BY DEF Pushed
      <4>1. k \in 1..Len(stack[t]) /\ k > 1 /\ k \in 2..Len(stack'[t])
        BY <1>1, <2>3, <3>3, <4>0
      <4>2. WaitsFor(stack[t][k].name, stack[t][k-1].name)
        BY <4>1 DEF IInv, Linked
      <4>3. stack'[t][k].name = stack[t][k-1].name
        BY <4>1 DEF Pushed
      <4> QED
        BY <2>3, <3>1, <4>2, <4>3
    <3> QED
      BY <2>3, <3>1, <3>2, <3>3
  <2> QED
    BY <1>4, <2>1, <2>2, <2>3
<1> QED
  BY <1>2, <1>6, <1>7, <1>8 DEF IInv

\* The stacks stay as they are.
LEMMA StayingInv ==
  ASSUME IInv, Grows, UNCHANGED <<m_data, stack>>, known' \in SUBSET Name,
         m_retrievedIDs' \in SUBSET Name, m_collections' \in [Name -> Entry],
         relations' \in [Name -> Seq(BOOLEAN)], RelationsValid',
         \A t \in Thread : \A i \in 1..Len(stack[t]) :
            (i > 1 \/ stack[t][i].pc = "insert") =>
                relations'[stack[t][i].name] = relations[stack[t][i].name]
  PROVE  IInv'
<1>1. Stacks /\ Stacks'
  BY DEF IInv, TypeOK, Stacks
<1>2. Shape'
  BY DEF IInv, Shape
<1>3. \E shift \in [Thread -> Int] : Follows(shift)
  <2> DEFINE shift == [u \in Thread |-> 0]
  <2>1. shift \in [Thread -> Int] /\ \A u \in Thread : shift[u] = 0
    OBVIOUS
  <2> HIDE DEF shift
  <2>2. ASSUME NEW u \in Thread, NEW i \in 1..Len(stack'[u])
        PROVE  i \in 1..Len(stack[u]) /\ i + shift[u] = i /\ stack'[u] = stack[u]
    BY <2>1
  <2>3. Follows(shift)
    BY <2>2 DEF Follows, Past, Setting
  <2> QED
    BY <2>1, <2>3
<1>4. Exclusive' /\ Taken' /\ Entered' /\ FromFile'
  BY <1>1, <1>3, FollowsInv
<1>5. TypeOK'
  BY <1>1 DEF IInv, TypeOK, Stacks
<1>6. Linked'
  <2> SUFFICES ASSUME NEW u \in Thread, NEW i \in 1..Len(stack[u])
               PROVE  /\ i > 1 => WaitsFor(stack[u][i].name, stack[u][i-1].name)'
                      /\ stack[u][i].pc = "insert" => HasNext(stack[u][i].name)'
    BY DEF Linked
  <2>1. stack[u][i].name \in Name
    BY <1>1, Names
  <2> QED
    BY <2>1, WaitingStays DEF IInv, Linked
<1> QED
  BY <1>2, <1>4, <1>5, <1>6 DEF IInv

-----------------------------------------------------------------------------
\* The collection a thread is about is one of the Frame's names.
LEMMA AtTop ==
  ASSUME IInv, NEW t \in Thread, ~Idle(t)
  PROVE  /\ Stacks /\ 1 \in 1..Len(stack[t]) /\ Top(t) = stack[t][1]
         /\ Top(t) \in Activation /\ Top(t).name \in Name /\ Top(t).pc \in PC
<1>1. Stacks
  BY DEF IInv, TypeOK, Stacks
<1>2. Top(t) = stack[t][1] /\ Top(t) \in Activation /\ 1 \in 1..Len(stack[t])
  BY <1>1, TopOfStack
<1> QED
  BY <1>1, <1>2 DEF Activation

LEMMA LookupInv ==
  ASSUME IInv, NEW t \in Thread, Lookup(t)
  PROVE  IInv'
<1>1. /\ ~Idle(t) /\ Top(t).pc = "lookup"
      /\ UNCHANGED <<m_data, m_collections, known, m_retrievedIDs>>
  BY DEF Lookup, At
<1>2. Grows /\ m_collections' \in [Name -> Entry] /\ m_retrievedIDs' \in SUBSET Name
  BY <1>1 DEF Grows, IInv, TypeOK
<1>3. CASE Top(t).name \in InMap /\ Return(t, TRUE)
  <2>1. m_collections'[Top(t).name] # "absent"
    BY <1>1, <1>3 DEF InMap
  <2> QED
    BY <1>1, <1>2, <1>3, <2>1, ReturnInv
<1>4. CASE Goto(t, "unpack") /\ UNCHANGED <<relations, call>>
  <2>1. "unpack" \in PC /\ Stacks
    BY <1>1, AtTop DEF PC
  <2>2. Stacks' /\ Moved(t, "unpack")
    BY <1>1, <1>4, <2>1, Going
  <2> QED
    BY <1>1, <1>2, <1>4, <2>1, <2>2, MovedInv
<1> QED
  BY <1>3, <1>4 DEF Lookup

\* Taking the buffers out of the raw data: no other activation has got them.
LEMMA TakeOutInv ==
  ASSUME IInv, NEW t \in Thread, ~Idle(t), Top(t).name \in m_data,
         m_data' = TakeOut(Top(t).name), Goto(t, "emplace"),
         UNCHANGED <<m_collections, relations, known, m_retrievedIDs>>
  PROVE  IInv'
<1>1. /\ Stacks /\ Top(t) = stack[t][1] /\ 1 \in 1..Len(stack[t])
      /\ \A u \in Thread : Len(stack[u]) \in Nat
  BY AtTop DEF Stacks
<1>2. "emplace" \in PC
  BY DEF PC
<1>3. Stacks' /\ Moved(t, "emplace")
  BY <1>1, <1>2, Going
<1>4. Shape'
  BY <1>1, <1>2, <1>3, ShapeInv DEF IInv
<1>5. ASSUME NEW u \in Thread, NEW i \in 1..Len(stack'[u])
      PROVE  /\ i \in 1..Len(stack[u]) /\ stack'[u][i].name = stack[u][i].name
             /\ \/ u = t /\ i = 1 /\ stack'[u][i].pc = "emplace" /\ stack'[u][i].name = Top(t).name
                \/ ~(u = t /\ i = 1) /\ stack'[u][i].pc = stack[u][i].pc
  BY <1>1, <1>3 DEF Moved
<1>6. ASSUME NEW u \in Thread, NEW i \in 1..Len(stack[u]), Past(stack[u][i])
      PROVE  stack[u][i].name # Top(t).name
  BY <1>6 DEF IInv, Taken
<1>7. Exclusive'
  <2> SUFFICES ASSUME NEW u \in Thread, NEW v \in Thread,
                      NEW i \in 1..Len(stack'[u]), NEW j \in 1..Len(stack'[v]),
                      Past(stack'[u][i]), Past(stack'[v][j]),
                      stack'[u][i].name = stack'[v][j].name
               PROVE  u = v /\ i = j
    BY DEF Exclusive, Past
  <2>1. (u = t /\ i = 1) \/ Past(stack[u][i])
    BY <1>5 DEF Past
  <2>2. (v = t /\ j = 1) \/ Past(stack[v][j])
    BY <1>5 DEF Past
  <2> QED
    BY SMTT(30), <1>5, <1>6, <2>1, <2>2 DEF IInv, Exclusive
<1>8. Taken' /\ Entered'
  <2>1. Taken'
    <3> SUFFICES ASSUME NEW u \in Thread, NEW i \in 1..Len(stack'[u]), Past(stack'[u][i])
                 PROVE  stack'[u][i].name \notin m_data'
      BY DEF Taken, Past
    <3> QED
      BY <1>5 DEF TakeOut, IInv, Taken, Past
  <2>2. Entered'
    BY <1>5 DEF IInv, Entered, Setting
  <2> QED
    BY <2>1, <2>2
<1>9. FromFile'
  BY SMTT(30), <1>5 DEF TakeOut, IInv, FromFile
<1>10. Linked'
  <2> SUFFICES ASSUME NEW u \in Thread, NEW i \in 1..Len(stack'[u])
               PROVE  /\ i > 1 => WaitsFor(stack'[u][i].name, stack'[u][i-1].name)
                      /\ stack'[u][i].pc = "insert" => HasNext(stack'[u][i].name)
    BY DEF Linked, WaitsFor, HasNext
  <2>1. /\ i \in 1..Len(stack[u]) /\ stack'[u][i].name = stack[u][i].name
        /\ i > 1 => stack'[u][i-1].name = stack[u][i-1].name
    BY <1>1, <1>5 DEF Moved
  <2> QED
    BY <1>5, <2>1 DEF IInv, Linked
<1>11. TypeOK' /\ RelationsValid'
  BY <1>3 DEF TakeOut, IInv, TypeOK, Stacks, RelationsValid, InMap
<1> QED
  BY <1>4, <1>7, <1>8, <1>9, <1>10, <1>11 DEF IInv

LEMMA UnpackInv ==
  ASSUME IInv, NEW t \in Thread, Unpack(t)
  PROVE  IInv'
<1>1. ~Idle(t) /\ UNCHANGED <<m_collections, known, m_retrievedIDs>>
  BY DEF Unpack, At
<1>2. CASE Top(t).name \in m_data /\ m_data' = TakeOut(Top(t).name) /\ Goto(t, "emplace")
           /\ UNCHANGED <<relations, call>>
  BY <1>1, <1>2, TakeOutInv
<1>3. CASE Return(t, FALSE) /\ UNCHANGED m_data
  <2>1. Grows /\ m_collections' \in [Name -> Entry]
    BY <1>1 DEF Grows, IInv, TypeOK
  <2> QED
    BY <1>1, <1>3, <2>1, ReturnInv
<1> QED
  BY <1>2, <1>3 DEF Unpack

LEMMA EmplaceInv ==
  ASSUME IInv, NEW t \in Thread, Emplace(t)
  PROVE  IInv'
<1> DEFINE n == Top(t).name
<1>1. /\ ~Idle(t) /\ Top(t).pc = "emplace"
      /\ UNCHANGED <<m_data, known, m_retrievedIDs>>
      /\ m_collections' = [m_collections EXCEPT ![n] = Emplaced(@)]
  BY DEF Emplace, At
<1>2. /\ Stacks /\ 1 \in 1..Len(stack[t]) /\ Top(t) = stack[t][1] /\ n \in Name
      /\ m_collections \in [Name -> Entry]
  BY <1>1, AtTop DEF IInv, TypeOK
<1>3. /\ m_collections' \in [Name -> Entry] /\ m_collections'[n] # "absent"
      /\ \A m \in Name : m_collections[m] # "absent" => m_collections'[m] = m_collections[m]
      /\ \A m \in Name : m # n => m_collections'[m] = m_collections[m]
  BY <1>1, <1>2 DEF Emplaced, Entry
<1>4. n \notin m_data
  BY <1>1, <1>2 DEF IInv, Taken, Past
<1>5. ASSUME NEW u \in Thread, NEW i \in 1..Len(stack[u]), Past(stack[u][i]), stack[u][i].name = n
      PROVE  u = t /\ i = 1
  BY <1>1, <1>2, <1>5 DEF IInv, Exclusive, Past
<1> HIDE DEF n
<1>6. CASE Goto(t, "relations") /\ UNCHANGED <<relations, call>>
  <2>1. "relations" \in PC
    BY DEF PC
  <2>2. Stacks' /\ Moved(t, "relations")
    BY <1>1, <1>2, <1>6, <2>1, Going
  <2>3. \A u \in Thread : \A i \in 1..Len(stack'[u]) :
           stack'[u][i].pc = "emplace" => stack'[u][i].name # n
    <3> SUFFICES ASSUME NEW u \in Thread, NEW i \in 1..Len(stack'[u]),
                        stack'[u][i].pc = "emplace"
                 PROVE  stack'[u][i].name # n
      OBVIOUS
    <3>1. /\ i \in 1..Len(stack[u]) /\ stack'[u][i].name = stack[u][i].name
          /\ ~(u = t /\ i = 1) /\ stack[u][i].pc = "emplace"
      BY <2>2 DEF Moved
    <3> QED
      BY <1>5, <3>1 DEF Past
  <2>4. Grows
    BY <1>3, <1>4, <2>3 DEF Grows
  <2>5. Past(Top(t)) /\ m_retrievedIDs' \in SUBSET Name
    BY <1>1 DEF Past, IInv, TypeOK
  <2> QED
    BY <1>1, <1>3, <1>6, <2>1, <2>2, <2>4, <2>5, MovedInv DEF n
<1>7. CASE Return(t, TRUE)
  <2>1. Stacks' /\ Popped(t)
    BY <1>1, <1>2, <1>7, Popping DEF Return
  <2>2. \A u \in Thread : \A i \in 1..Len(stack'[u]) :
           stack'[u][i].pc = "emplace" => stack'[u][i].name # n
    <3> SUFFICES ASSUME NEW u \in Thread, NEW i \in 1..Len(stack'[u]),
                        stack'[u][i].pc = "emplace"
                 PROVE  stack'[u][i].name # n
      OBVIOUS
    <3>1. CASE u = t
      <4>1. Len(stack[t]) \in Nat /\ Len(stack'[t]) = Len(stack[t]) - 1
        BY <2>1 DEF Popped, Stacks
      <4>2. i + 1 \in 1..Len(stack[t]) /\ i + 1 # 1
        BY <3>1, <4>1
      <4>3. stack'[t][i] = stack[t][i+1]
        BY <2>1, <3>1 DEF Popped
      <4> QED
        BY <1>5, <3>1, <4>2, <4>3 DEF Past
    <3>2. CASE u # t
      BY <1>5, <2>1, <3>2 DEF Popped, Past
    <3> QED
      BY <3>1, <3>2
  <2>3. Grows
    BY <1>3, <1>4, <2>2 DEF Grows
  <2> QED
    BY <1>1, <1>3, <1>7, <2>3, ReturnInv DEF n
<1> QED
  BY <1>6, <1>7 DEF Emplace

-----------------------------------------------------------------------------
\* While setReferences has relations left, its collection is from the file.
LEMMA MoreHasNext ==
  ASSUME IInv, NEW t \in Thread, MoreRelations(t)
  PROVE  /\ ~Idle(t) /\ Top(t).pc = "relations"
         /\ WaitsFor(Top(t).name, NextTarget(t))
<1>1. ~Idle(t) /\ Top(t).pc = "relations"
  BY DEF MoreRelations, At
<1> DEFINE n == Top(t).name
<1>2. n \in Name /\ Len(relations[n]) \in Nat
  BY <1>1, AtTop DEF IInv, TypeOK
<1>3. Len(relations[n]) < Len(Stored(n)) /\ NextTarget(t) = Stored(n)[Len(relations[n]) + 1]
  BY DEF MoreRelations, NextTarget
<1>4. Len(<<>>) = 0
  BY EmptySeq
<1> HIDE DEF n
<1>5. m_collections[n] = "file"
  BY <1>2, <1>3, <1>4 DEF Stored
<1> QED
  BY <1>1, <1>3, <1>5 DEF Stored, WaitsFor, HasNext, n

\* The target of a relation is a name.
LEMMA TargetName ==
  ASSUME IInv, NEW c \in Name, HasNext(c)
  PROVE  References[c][Len(relations[c]) + 1] \in Name
<1>1. Len(relations[c]) \in Nat /\ References[c] \in Seq(Name) /\ Len(References[c]) \in Nat
  BY ReferencesAssumption DEF IInv, TypeOK
<1>2. Len(relations[c]) + 1 \in 1..Len(References[c])
  BY <1>1 DEF HasNext
<1> QED
  BY <1>1, <1>2, ElementOfSeq

LEMMA ResolveUnknownInv ==
  ASSUME IInv, NEW t \in Thread, ResolveUnknown(t)
  PROVE  IInv'
<1> DEFINE n == Top(t).name
<1>1. /\ UNCHANGED <<m_data, m_collections, known, m_retrievedIDs, stack, call>>
      /\ relations' = [relations EXCEPT ![n] = Append(@, FALSE)]
  BY DEF ResolveUnknown, Resolved
<1>2. ~Idle(t) /\ Top(t).pc = "relations" /\ HasNext(n)
  BY MoreHasNext DEF ResolveUnknown, WaitsFor
<1>3. /\ Stacks /\ 1 \in 1..Len(stack[t]) /\ Top(t) = stack[t][1] /\ n \in Name
  BY <1>2, AtTop
<1>4. Grows /\ FALSE \in BOOLEAN
  BY <1>1 DEF Grows
<1>5. RelationsValid' /\ relations' \in [Name -> Seq(BOOLEAN)]
  BY <1>1, <1>2, <1>3, <1>4, StoringInv DEF HasNext
<1>6. \A m \in Name : m # n => relations'[m] = relations[m]
  BY <1>1 DEF IInv, TypeOK
<1>7. ASSUME NEW u \in Thread, NEW i \in 1..Len(stack[u]),
             i > 1 \/ stack[u][i].pc = "insert"
      PROVE  relations'[stack[u][i].name] = relations[stack[u][i].name]
  <2>1. Past(stack[u][i])
    <3>1. i > 1 => i \in 2..Len(stack[u])
      BY <1>3 DEF Stacks
    <3> QED
      BY <1>7, <3>1 DEF IInv, Shape, Past
  <2>2. ~(u = t /\ i = 1)
    BY <1>2, <1>3, <1>7
  <2>3. stack[u][i].name # n
    BY <1>2, <1>3, <2>1, <2>2 DEF IInv, Exclusive, Past
  <2> QED
    BY <1>3, <1>6, <2>3, Names
<1>8. /\ known' \in SUBSET Name /\ m_retrievedIDs' \in SUBSET Name
      /\ m_collections' \in [Name -> Entry] /\ UNCHANGED <<m_data, stack>>
  BY <1>1 DEF IInv, TypeOK
<1> QED
  BY <1>4, <1>5, <1>7, <1>8, StayingInv

LEMMA ResolveSeenInv ==
  ASSUME IInv, NEW t \in Thread, ResolveSeen(t)
  PROVE  IInv'
<1> DEFINE b == Enter(NextTarget(t), FALSE)
<1>1. ~Idle(t) /\ Top(t).pc = "relations" /\ WaitsFor(Top(t).name, NextTarget(t))
  BY MoreHasNext DEF ResolveSeen
<1>2. /\ Stacks /\ Top(t).name \in Name /\ NextTarget(t) \in Name
  BY <1>1, AtTop DEF ResolveSeen, IInv, TypeOK
<1>3. b \in Activation /\ b.pc = "lookup" /\ b.name = NextTarget(t)
  BY <1>2 DEF Enter, Activation, PC
<1>4. stack' = [stack EXCEPT ![t] = <<b>> \o @]
  BY DEF ResolveSeen
<1>5. UNCHANGED <<m_data, m_collections, relations, known, m_retrievedIDs, call>>
  BY DEF ResolveSeen
<1> HIDE DEF b
<1>6. Stacks' /\ Pushed(t, NextTarget(t))
  BY <1>1, <1>2, <1>3, <1>4, PushingOn
<1>7. Setting(Top(t)) /\ m_retrievedIDs' \in SUBSET Name
  BY <1>1, <1>5 DEF Setting, IInv, TypeOK
<1> QED
  BY <1>1, <1>2, <1>5, <1>6, <1>7, PushedInv

LEMMA ResolveNewInv ==
  ASSUME IInv, NEW t \in Thread, ResolveNew(t)
  PROVE  IInv'
<1> DEFINE a == [Top(t) EXCEPT !.pc = "insert", !.seen = m_retrievedIDs]
<1>1. ~Idle(t) /\ Top(t).pc = "relations" /\ WaitsFor(Top(t).name, NextTarget(t))
  BY MoreHasNext DEF ResolveNew
<1>2. /\ Stacks /\ Top(t) \in Activation /\ Top(t).name \in Name
      /\ 1 \in 1..Len(stack[t]) /\ Top(t) = stack[t][1]
  BY <1>1, AtTop
<1>3. a \in Activation /\ a.pc = "insert" /\ a.name = Top(t).name
  BY <1>2 DEF Activation, PC, IInv, TypeOK
<1>4. stack' = [stack EXCEPT ![t] = <<a>> \o Tail(@)]
  BY DEF ResolveNew
<1>5. UNCHANGED <<m_data, m_collections, relations, known, m_retrievedIDs, call>>
  BY DEF ResolveNew
<1> HIDE DEF a
<1>6. Stacks' /\ Moved(t, "insert")
  BY <1>1, <1>2, <1>3, <1>4, Moving
<1>7. /\ Grows /\ m_retrievedIDs' \in SUBSET Name /\ m_collections' \in [Name -> Entry]
  BY <1>5 DEF Grows, IInv, TypeOK
<1>8. Past(Top(t)) /\ m_collections'[Top(t).name] # "absent"
  BY <1>1, <1>2, <1>5 DEF Past, IInv, Entered, Setting
<1>9. HasNext(Top(t).name) /\ "insert" \in PC
  BY <1>1 DEF WaitsFor, PC
<1> QED
  BY <1>1, <1>5, <1>6, <1>7, <1>8, <1>9, MovedInv

LEMMA InsertIDInv ==
  ASSUME IInv, NEW t \in Thread, InsertID(t)
  PROVE  IInv'
<1> DEFINE b == Enter(NextTarget(t), TRUE)
           a == [Top(t) EXCEPT !.pc = "relations", !.seen = {}]
           n == Top(t).name
<1>1. ~Idle(t) /\ Top(t).pc = "insert"
  BY DEF InsertID, At
<1>2. /\ Stacks /\ Top(t) \in Activation /\ n \in Name
      /\ 1 \in 1..Len(stack[t]) /\ Top(t) = stack[t][1]
  BY <1>1, AtTop
<1>3. HasNext(n)
  BY <1>1, <1>2 DEF IInv, Linked
<1>4. NextTarget(t) \in Name /\ WaitsFor(n, NextTarget(t))
  <2>1. NextTarget(t) = References[n][Len(relations[n]) + 1]
    BY <1>3 DEF NextTarget, Stored, HasNext
  <2> QED
    BY <1>2, <1>3, <2>1, TargetName DEF WaitsFor
<1>5. /\ b \in Activation /\ b.pc = "lookup" /\ b.name = NextTarget(t)
      /\ a \in Activation /\ a.pc = "relations" /\ a.name = n
  BY <1>2, <1>4 DEF Enter, Activation, PC
<1>6. stack' = [stack EXCEPT ![t] = <<b, a>> \o Tail(@)]
  BY DEF InsertID
<1>7. UNCHANGED <<m_data, m_collections, relations, known, call>>
  BY DEF InsertID
<1>8. m_retrievedIDs' \in SUBSET Name
  <2>1. Top(t).seen \in SUBSET Name /\ m_retrievedIDs \in SUBSET Name
    BY <1>2 DEF Activation, IInv, TypeOK
  <2> QED
    BY <1>4, <2>1 DEF InsertID
<1>9. Setting(Top(t))
  BY <1>1 DEF Setting
<1> HIDE DEF a, b
<1>10. Stacks' /\ Pushed(t, NextTarget(t))
  BY <1>1, <1>2, <1>5, <1>6, PushingBoth
<1> QED
  BY <1>1, <1>4, <1>7, <1>8, <1>9, <1>10, PushedInv

LEMMA RelationsDoneInv ==
  ASSUME IInv, NEW t \in Thread, RelationsDone(t)
  PROVE  IInv'
<1>1. ~Idle(t) /\ Top(t).pc = "relations"
  BY DEF RelationsDone, At
<1>2. /\ Return(t, TRUE) /\ TRUE \in BOOLEAN
      /\ UNCHANGED <<m_data, m_collections, known, m_retrievedIDs>>
  BY DEF RelationsDone
<1>3. Grows /\ m_collections' \in [Name -> Entry]
  BY <1>2 DEF Grows, IInv, TypeOK
<1>4. m_collections'[Top(t).name] # "absent"
  BY <1>1, <1>2, AtTop DEF IInv, Entered, Setting
<1> QED
  BY <1>1, <1>2, <1>3, <1>4, ReturnInv

-----------------------------------------------------------------------------
\* User code puts a collection into the Frame, also while its name is being
\* unpacked by another thread.
LEMMA PutInv ==
  ASSUME IInv, NEW t \in Thread, NEW n \in PutNames, Put(t, n)
  PROVE  IInv'
<1>1. n \in Name /\ n \notin InMap /\ UNCHANGED <<m_data, relations, m_retrievedIDs, stack>>
  BY NamesAssumption DEF Put
<1>2. /\ m_collections' = [m_collections EXCEPT ![n] = "user"]
      /\ known' = known \cup {n}
  BY DEF Put, Registry!Register
<1>3. Grows
  BY <1>1, <1>2 DEF Grows, InMap, IInv, TypeOK
<1>4. /\ known' \in SUBSET Name /\ m_collections' \in [Name -> Entry]
      /\ m_retrievedIDs' \in SUBSET Name /\ relations' \in [Name -> Seq(BOOLEAN)]
  BY <1>1, <1>2 DEF IInv, TypeOK, Entry
<1>5. RelationsValid'
  BY <1>1, <1>3 DEF IInv, RelationsValid, InMap, Grows
<1> QED
  BY <1>1, <1>3, <1>4, <1>5, StayingInv

LEMMA UnchangedInv ==
  ASSUME IInv, UNCHANGED <<m_data, m_collections, relations, known, m_retrievedIDs, stack>>
  PROVE  IInv'
<1>1. Grows
  BY DEF Grows
<1>2. /\ known' \in SUBSET Name /\ m_collections' \in [Name -> Entry]
      /\ m_retrievedIDs' \in SUBSET Name /\ relations' \in [Name -> Seq(BOOLEAN)]
      /\ RelationsValid'
  BY DEF IInv, TypeOK, RelationsValid, InMap
<1> QED
  BY <1>1, <1>2, StayingInv

LEMMA NextIInv == IInv /\ [Next]_vars => IInv'
<1> SUFFICES ASSUME IInv, [Next]_vars PROVE IInv'
  OBVIOUS
<1>1. ASSUME NEW t \in Thread, Step(t) PROVE IInv'
  BY <1>1, LookupInv, UnpackInv, EmplaceInv, ResolveUnknownInv, ResolveSeenInv,
     ResolveNewInv, InsertIDInv, RelationsDoneInv DEF Step
<1>2. ASSUME NEW t \in Thread, NEW n \in GetNames, CallGet(t, n) PROVE IInv'
  BY <1>2, CallGetIInv
<1>3. ASSUME NEW t \in Thread, NEW n \in PutNames, Put(t, n) PROVE IInv'
  BY <1>3, PutInv
<1>4. ASSUME NEW t \in Thread, NEW n \in PutNames, PutThrows(t, n) PROVE IInv'
  BY <1>4, UnchangedInv DEF PutThrows
<1>5. ASSUME NEW t \in Thread, AvailableCollections(t) PROVE IInv'
  BY <1>5, UnchangedInv DEF AvailableCollections
<1>6. CASE UNCHANGED vars
  BY <1>6, UnchangedInv DEF vars
<1> QED
  BY <1>1, <1>2, <1>3, <1>4, <1>5, <1>6 DEF Next

LEMMA Invariance == Spec => []IInv
BY InitIInv, NextIInv, PTL DEF Spec

-----------------------------------------------------------------------------
\* What an activation on top of a stack, in setReferences or below, has.
LEMMA PositionOfTop ==
  ASSUME IInv, NEW t \in Thread, NEW pc, At(t, pc)
  PROVE  1 \in 1..Len(stack[t]) /\ Top(t) = stack[t][1] /\ stack[t][1].pc = pc
BY AtTop DEF At

LEMMA BuffersOnceHolds == IInv => BuffersOnce
<1> SUFFICES ASSUME IInv PROVE BuffersOnce
  OBVIOUS
<1>1. ASSUME NEW t \in Thread, At(t, "emplace")
      PROVE  /\ 1 \in 1..Len(stack[t]) /\ Top(t) = stack[t][1]
             /\ stack[t][1].pc = "emplace" /\ Past(stack[t][1])
  BY <1>1, PositionOfTop DEF Past
<1>2. m_data \cap InFlight = {}
  BY <1>1 DEF InFlight, IInv, Taken
<1>3. ASSUME NEW s \in Thread, NEW t \in Thread,
             At(s, "emplace"), At(t, "emplace"), Top(s).name = Top(t).name
      PROVE  s = t
  BY <1>1, <1>3 DEF IInv, Exclusive
<1>4. ASSUME NEW n \in Name, m_collections[n] = "file"
      PROVE  n \notin m_data \cup InFlight
  BY <1>1, <1>4 DEF InFlight, IInv, FromFile
<1> QED
  BY <1>2, <1>3, <1>4 DEF BuffersOnce

LEMMA OneSetterHolds == IInv => OneSetter
<1> SUFFICES ASSUME IInv, NEW n \in Name, NEW x \in Setters(n), NEW y \in Setters(n)
             PROVE  x = y
  BY DEF OneSetter
<1>1. ASSUME NEW z \in Setters(n)
      PROVE  /\ z[1] \in Thread /\ z[2] \in 1..Len(stack[z[1]]) /\ z = <<z[1], z[2]>>
             /\ Past(stack[z[1]][z[2]]) /\ stack[z[1]][z[2]].name = n
  BY <1>1 DEF Setters, Past
<1>2. x[1] = y[1] /\ x[2] = y[2]
  BY <1>1 DEF IInv, Exclusive
<1> QED
  BY <1>1, <1>2

\* A step of one thread leaves the stacks of the others alone.
LEMMA OthersStay ==
  ASSUME IInv, NEW t \in Thread,
         \/ Step(t)
         \/ \E n \in GetNames : CallGet(t, n)
         \/ \E n \in PutNames : Put(t, n) \/ PutThrows(t, n)
         \/ AvailableCollections(t)
  PROVE  \A u \in Thread : u # t => stack'[u] = stack[u]
<1>1. stack \in [Thread -> Seq(Activation)]
  BY DEF IInv, TypeOK
<1>2. CASE Step(t)
  BY <1>1, <1>2 DEF Step, Lookup, Unpack, Emplace, ResolveUnknown, ResolveSeen, ResolveNew,
     InsertID, RelationsDone, Return, Goto
<1>3. CASE \E n \in GetNames : CallGet(t, n)
  BY <1>1, <1>3 DEF CallGet
<1>4. CASE \/ \E n \in PutNames : Put(t, n) \/ PutThrows(t, n)
           \/ AvailableCollections(t)
  BY <1>4 DEF Put, PutThrows, AvailableCollections
<1> QED
  BY <1>2, <1>3, <1>4

\* The map only grows, whatever happens.
LEMMA EntriesStay ==
  ASSUME IInv, [Next]_vars
  PROVE  KeepsEntries
<1> SUFFICES ASSUME NEW n \in Name, m_collections[n] # "absent"
             PROVE  m_collections'[n] = m_collections[n]
  BY DEF KeepsEntries, InMap
<1>1. m_collections \in [Name -> Entry]
  BY DEF IInv, TypeOK
<1>2. ASSUME NEW t \in Thread, Emplace(t) PROVE m_collections'[n] = m_collections[n]
  <2>1. m_collections' = [m_collections EXCEPT ![Top(t).name] = Emplaced(@)]
    BY <1>2 DEF Emplace
  <2> QED
    BY <1>1, <2>1 DEF Emplaced
<1>3. ASSUME NEW t \in Thread, Step(t) PROVE m_collections'[n] = m_collections[n]
  BY <1>2, <1>3 DEF Step, Lookup, Unpack, ResolveUnknown, ResolveSeen, ResolveNew, InsertID,
     RelationsDone
<1>4. ASSUME NEW t \in Thread, NEW m \in PutNames, Put(t, m)
      PROVE  m_collections'[n] = m_collections[n]
  <2>1. m_collections' = [m_collections EXCEPT ![m] = "user"] /\ m \notin InMap
    BY <1>4 DEF Put
  <2>2. m # n
    BY <2>1 DEF InMap
  <2> QED
    BY <1>1, <2>1, <2>2
<1>5. ASSUME NEW t \in Thread,
             \/ \E m \in GetNames : CallGet(t, m)
             \/ \E m \in PutNames : PutThrows(t, m)
             \/ AvailableCollections(t)
      PROVE  m_collections'[n] = m_collections[n]
  BY <1>5 DEF CallGet, PutThrows, AvailableCollections
<1>6. CASE UNCHANGED vars
  BY <1>6 DEF vars
<1> QED
  BY <1>3, <1>4, <1>5, <1>6 DEF Next

\* A thread at "emplace" stays there until it has emplaced its collection.
LEMMA NothingLostStep ==
  ASSUME IInv, NothingLost, [Next]_vars
  PROVE  NothingLost'
<1>1. InMap \subseteq InMap'
  BY EntriesStay DEF KeepsEntries, InMap
<1>2. ASSUME NEW t \in Thread, m_data' = m_data, ~At(t, "emplace"),
             \A u \in Thread : u # t => stack'[u] = stack[u]
      PROVE  NothingLost'
  <2>1. InFlight \subseteq InFlight'
    BY <1>2 DEF InFlight, At, Top, Idle
  <2> QED
    BY <1>1, <1>2, <2>1 DEF NothingLost, Present
<1>3. ASSUME NEW t \in Thread, Unpack(t) PROVE NothingLost'
  <2>1. /\ ~Idle(t) /\ Top(t).pc = "unpack" /\ ~At(t, "emplace")
        /\ \A u \in Thread : u # t => stack'[u] = stack[u]
    BY <1>3, OthersStay DEF Unpack, At, Step
  <2>2. CASE UNCHANGED m_data
    BY <1>2, <2>1, <2>2
  <2>3. CASE m_data' = TakeOut(Top(t).name) /\ Goto(t, "emplace")
    <3> DEFINE n == Top(t).name
    <3>1. Stacks' /\ Moved(t, "emplace") /\ Stacks /\ 1 \in 1..Len(stack[t])
          /\ n \in Name /\ n = stack[t][1].name
      BY <2>1, <2>3, AtTop, Going DEF PC
    <3>2. Len(stack'[t]) = Len(stack[t]) /\ stack'[t][1].name = n /\ stack'[t][1].pc = "emplace"
      BY <3>1 DEF Moved
    <3>3. stack'[t] # <<>> /\ Head(stack'[t]) = stack'[t][1]
      <4>1. stack'[t] \in Seq(Activation) /\ Len(stack[t]) >= 1
        BY <3>1 DEF Stacks
      <4> QED
        BY <3>2, <4>1, EmptySeq, StackOps
    <3> HIDE DEF n
    <3>4. n \in InFlight'
      BY <3>1, <3>2, <3>3 DEF InFlight, At, Top, Idle
    <3>5. InFlight \subseteq InFlight'
      BY <2>1 DEF InFlight, At, Top, Idle
    <3> QED
      BY <1>1, <2>3, <3>4, <3>5 DEF NothingLost, Present, TakeOut, n
  <2> QED
    BY <1>3, <2>2, <2>3 DEF Unpack
<1>4. ASSUME NEW t \in Thread, Emplace(t) PROVE NothingLost'
  <2> DEFINE n == Top(t).name
  <2>1. /\ At(t, "emplace") /\ ~Idle(t) /\ m_data' = m_data
        /\ m_collections' = [m_collections EXCEPT ![n] = Emplaced(@)]
        /\ \A u \in Thread : u # t => stack'[u] = stack[u]
    BY <1>4, OthersStay DEF Emplace, At, Step
  <2>2. n \in Name
    BY <2>1, AtTop
  <2> HIDE DEF n
  <2>3. n \in InMap'
    BY <2>1, <2>2 DEF InMap, Emplaced, IInv, TypeOK, Entry
  <2>4. InFlight \subseteq InFlight' \cup {n}
    BY <2>1, <2>2 DEF InFlight, At, Top, Idle, n
  <2> QED
    BY <1>1, <2>1, <2>3, <2>4 DEF NothingLost, Present
<1>5. ASSUME NEW t \in Thread, Step(t) PROVE NothingLost'
  <2>1. CASE Unpack(t)
    BY <1>3, <2>1
  <2>2. CASE Emplace(t)
    BY <1>4, <2>2
  <2>3. CASE Step(t) /\ ~Unpack(t) /\ ~Emplace(t)
    <3>1. m_data' = m_data /\ ~At(t, "emplace")
      BY <2>3 DEF Step, Lookup, ResolveUnknown, ResolveSeen, ResolveNew, InsertID,
         RelationsDone, MoreRelations, At
    <3> QED
      BY <1>2, <1>5, <3>1, OthersStay
  <2> QED
    BY <1>5, <2>1, <2>2, <2>3
<1>6. ASSUME NEW t \in Thread,
             \/ \E n \in GetNames : CallGet(t, n)
             \/ \E n \in PutNames : Put(t, n) \/ PutThrows(t, n)
             \/ AvailableCollections(t)
      PROVE  NothingLost'
  <2>1. m_data' = m_data /\ ~At(t, "emplace")
    BY <1>6 DEF CallGet, Put, PutThrows, AvailableCollections, At
  <2> QED
    BY <1>2, <1>6, <2>1, OthersStay
<1>7. CASE UNCHANGED vars
  BY <1>7 DEF vars, NothingLost, Present, InFlight, InMap, At, Top, Idle
<1> QED
  BY <1>5, <1>6, <1>7 DEF Next

-----------------------------------------------------------------------------
\* The state of a Frame and of the threads that use it stays well-typed.
THEOREM TypeCorrect == Spec => []TypeOK
BY Invariance, PTL DEF IInv

\* However many threads ask for a collection at the same time, its buffers
\* are taken out of the raw data and unpacked once: they are never in two
\* places.
THEOREM UnpackedOnce == Spec => []BuffersOnce
BY Invariance, BuffersOnceHolds, PTL

\* A collection of the raw data is still there, in the hands of a thread, or
\* in the map: none is lost on its way.
THEOREM NoneLost == Spec => []NothingLost
<1>1. Init => NothingLost
  BY DEF Init, NothingLost, Present
<1>2. IInv /\ NothingLost /\ [Next]_vars => NothingLost'
  BY NothingLostStep
<1> QED
  BY <1>1, <1>2, Invariance, PTL DEF Spec

\* Two activations never append to the relations of the same collection, not
\* across threads, and not within the recursion over cyclic relations.
THEOREM SetOnce == Spec => []OneSetter
BY Invariance, OneSetterHolds, PTL

\* A relation that is set points to a collection that is in the map.
THEOREM NoDanglingRelation == Spec => []RelationsValid
BY Invariance, PTL DEF IInv

\* References to collections, once handed out, stay valid.
THEOREM EntriesNeverChange == Spec => EntriesStable
<1>1. IInv /\ [Next]_vars => [KeepsEntries]_vars
  BY EntriesStay
<1> QED
  BY <1>1, Invariance, PTL DEF Spec, EntriesStable

-----------------------------------------------------------------------------
\* A Frame that one thread uses.
OneThread == \A s, t \in Thread : s = t

\* What is known of an activation when no other thread interferes: a collection
\* that is being unpacked is not in the map, so that setReferences works on one
\* from the file, and a collection that is retrieved without its references is
\* in the map or not there at all.
ActivationOK(a, map, data, retrieved) ==
    /\ Setting(a) => map[a.name] = "file"
    /\ a.pc \in {"unpack", "emplace"} => map[a.name] = "absent"
    /\ ~a.setReferences =>
          a.pc \in {"lookup", "unpack"} /\ (map[a.name] # "absent" \/ a.name \notin data)
    /\ a.pc = "insert" => a.seen \subseteq retrieved

ActivationsOK ==
    \A t \in Thread : \A i \in 1..Len(stack[t]) :
        ActivationOK(stack[t][i], m_collections, m_data, m_retrievedIDs)

\* The collection a thread is about to look up or to unpack.
Awaited(n) ==
    \E t \in Thread : ~Idle(t) /\ stack[t][1].name = n /\ stack[t][1].pc \in {"lookup", "unpack"}

\* A collection whose ID was seen is in the map, not there, or on its way.
RetrievedOK ==
    \A n \in m_retrievedIDs : m_collections[n] # "absent" \/ n \notin m_data \/ Awaited(n)

\* setReferences of the collection is under way.
HasSetter(n) ==
    \E t \in Thread : \E i \in 1..Len(stack[t]) : Setting(stack[t][i]) /\ stack[t][i].name = n

\* The references of a collection are complete, or being set.
Completing ==
    \A n \in Name : m_collections[n] = "file" /\ ~HasSetter(n) => Len(relations[n]) = Len(References[n])

\* The inductive invariant of a Frame that one thread uses.
OneInv ==
    /\ IInv /\ NothingLost
    /\ ActivationsOK
    /\ RetrievedOK
    /\ Completing
    /\ RelationsFound
    /\ RawNames \subseteq known

-----------------------------------------------------------------------------
\* What is in the map stays there, in any step.
LEMMA MapStays ==
  ASSUME IInv, [Next]_vars
  PROVE  \A n \in Name : m_collections[n] # "absent" => m_collections'[n] = m_collections[n]
  BY EntriesStay DEF KeepsEntries, InMap

\* The activations of the thread after a step are new ones, or such that wait.
LEMMA ActivationsStay ==
  ASSUME OneInv, OneThread, [Next]_vars, m_data' \subseteq m_data, NEW t \in Thread,
         \A i \in 1..Len(stack'[t]) :
            \/ ActivationOK(stack'[t][i], m_collections', m_data', m_retrievedIDs')
            \/ \E j \in 1..Len(stack[t]) : stack[t][j].pc = "relations" /\ stack'[t][i] = stack[t][j]
  PROVE  ActivationsOK'
<1> SUFFICES ASSUME NEW u \in Thread, NEW i \in 1..Len(stack'[u])
             PROVE  ActivationOK(stack'[u][i], m_collections', m_data', m_retrievedIDs')
  BY DEF ActivationsOK
<1>1. u = t
  BY DEF OneThread
<1>2. ASSUME NEW j \in 1..Len(stack[t]), stack[t][j].pc = "relations"
      PROVE  ActivationOK(stack[t][j], m_collections', m_data', m_retrievedIDs')
  <2>1. ActivationOK(stack[t][j], m_collections, m_data, m_retrievedIDs)
    BY DEF OneInv, ActivationsOK
  <2>2. stack[t][j].name \in Name
    <3>1. stack[t] \in Seq(Activation)
      BY DEF OneInv, IInv, TypeOK
    <3>2. stack[t][j] \in Activation
      BY <3>1
    <3> QED
      BY <3>2 DEF Activation
  <2>3. m_collections'[stack[t][j].name] = "file"
    BY <1>2, <2>1, <2>2, MapStays DEF OneInv, ActivationOK, Setting
  <2> QED
    BY <1>2, <2>1, <2>3 DEF ActivationOK, Setting
<1> QED
  BY <1>1, <1>2

\* An ID that was seen before.
LEMMA RetrievedStays ==
  ASSUME OneInv, [Next]_vars, m_data' \subseteq m_data, NEW n \in m_retrievedIDs,
         Awaited(n) => m_collections'[n] # "absent" \/ n \notin m_data' \/ Awaited(n)'
  PROVE  m_collections'[n] # "absent" \/ n \notin m_data' \/ Awaited(n)'
<1>1. n \in Name
  BY DEF OneInv, IInv, TypeOK
<1> QED
  BY <1>1, MapStays DEF OneInv, RetrievedOK

\* One more relation of a collection is stored.
LEMMA FoundStays ==
  ASSUME OneInv, NEW c \in Name, NEW n, WaitsFor(c, n), NEW found \in BOOLEAN, found \/ n \notin RawNames,
         relations' = [relations EXCEPT ![c] = Append(@, found)]
  PROVE  RelationsFound'
<1>1. relations \in [Name -> Seq(BOOLEAN)] /\ Len(relations[c]) \in Nat
  BY DEF OneInv, IInv, TypeOK
<1>2. /\ relations'[c] = Append(relations[c], found)
      /\ \A m \in Name : m # c => relations'[m] = relations[m]
  BY <1>1
<1>3. /\ Len(relations'[c]) = Len(relations[c]) + 1
      /\ \A i \in 1..Len(relations[c]) : relations'[c][i] = relations[c][i]
      /\ relations'[c][Len(relations[c]) + 1] = found
  BY <1>1, <1>2
<1>4. ASSUME NEW i \in 1..Len(relations'[c]), References[c][i] \in RawNames
      PROVE  relations'[c][i]
  <2>1. CASE i = Len(relations[c]) + 1
    <3>1. References[c][i] = n
      BY <2>1 DEF WaitsFor
    <3> QED
      BY <1>3, <1>4, <2>1, <3>1
  <2>2. CASE i # Len(relations[c]) + 1
    <3>1. i \in 1..Len(relations[c])
      BY <1>1, <1>3, <2>2
    <3> QED
      BY <1>3, <1>4, <3>1 DEF OneInv, RelationsFound
  <2> QED
    BY <2>1, <2>2
<1>5. ASSUME NEW m \in Name, m # c, NEW i \in 1..Len(relations'[m]), References[m][i] \in RawNames
      PROVE  relations'[m][i]
  BY <1>2, <1>5 DEF OneInv, RelationsFound
<1> QED
  BY <1>4, <1>5 DEF RelationsFound

\* A step keeps the invariant if it keeps the parts that one thread adds.
LEMMA OneInvFrom ==
  ASSUME OneInv, [Next]_vars, ActivationsOK', RetrievedOK', Completing', RelationsFound', known \subseteq known'
  PROVE  OneInv'
<1>1. IInv' /\ NothingLost'
  BY NextIInv, NothingLostStep DEF OneInv
<1> QED
  BY <1>1 DEF OneInv

-----------------------------------------------------------------------------
\* The top of a stack moves on.
LEMMA TopReplaced ==
  ASSUME OneInv, NEW t \in Thread, ~Idle(t), NEW a \in Activation,
         stack' = [stack EXCEPT ![t] = <<a>> \o Tail(@)]
  PROVE  /\ Len(stack'[t]) = Len(stack[t]) /\ stack'[t][1] = a /\ ~Idle(t)'
         /\ \A i \in 2..Len(stack[t]) : stack'[t][i] = stack[t][i]
<1>1. Stacks /\ stack[t] \in Seq(Activation) /\ stack[t] # <<>> /\ Len(stack[t]) >= 1 /\ Len(stack[t]) \in Nat
  BY TopOfStack DEF OneInv, IInv, TypeOK, Stacks
<1> DEFINE new == <<a>> \o Tail(stack[t])
<1>2. /\ new \in Seq(Activation) /\ Len(new) = Len(stack[t]) /\ new[1] = a
      /\ \A i \in 2..Len(stack[t]) : new[i] = stack[t][i]
  BY <1>1, ReplaceTop
<1>3. stack'[t] = new
  BY <1>1 DEF Stacks
<1> HIDE DEF new
<1>4. new # <<>>
  BY <1>1, <1>2, EmptySeq
<1> QED
  BY <1>2, <1>3, <1>4 DEF Idle

\* An activation of doGet is pushed.
LEMMA TopPushed ==
  ASSUME OneInv, NEW t \in Thread, NEW b \in Activation, stack' = [stack EXCEPT ![t] = <<b>> \o @]
  PROVE  /\ Len(stack'[t]) = Len(stack[t]) + 1 /\ stack'[t][1] = b /\ ~Idle(t)' /\ Len(stack[t]) \in Nat
         /\ \A i \in 2..Len(stack[t]) + 1 : stack'[t][i] = stack[t][i - 1]
<1>1. Stacks /\ stack[t] \in Seq(Activation) /\ Len(stack[t]) \in Nat
  BY DEF OneInv, IInv, TypeOK, Stacks
<1> DEFINE new == <<b>> \o stack[t]
<1>2. /\ new \in Seq(Activation) /\ Len(new) = Len(stack[t]) + 1 /\ new[1] = b
      /\ \A i \in 2..(Len(stack[t]) + 1) : new[i] = stack[t][i - 1]
  BY <1>1, PushTop
<1>3. stack'[t] = new
  BY <1>1 DEF Stacks
<1> HIDE DEF new
<1>4. new # <<>>
  BY <1>1, <1>2, EmptySeq
<1> QED
  BY <1>1, <1>2, <1>3, <1>4 DEF Idle

\* The stack of the only thread.
LEMMA OneStack ==
  ASSUME OneInv, OneThread, NEW t \in Thread, ~Idle(t)
  PROVE  /\ IInv /\ Top(t) = stack[t][1] /\ Top(t) \in Activation /\ Top(t).name \in Name
         /\ 1 \in 1..Len(stack[t]) /\ Len(stack[t]) \in Nat
         /\ ActivationOK(Top(t), m_collections, m_data, m_retrievedIDs)
         /\ \A n : Awaited(n) => n = Top(t).name /\ Top(t).pc \in {"lookup", "unpack"}
         /\ \A n : HasSetter(n) <=> \E i \in 1..Len(stack[t]) : Setting(stack[t][i]) /\ stack[t][i].name = n
<1>1. IInv /\ \A u \in Thread : u = t
  BY DEF OneInv, OneThread
<1>2. Top(t) = stack[t][1] /\ Top(t) \in Activation /\ Top(t).name \in Name /\ 1 \in 1..Len(stack[t])
      /\ Len(stack[t]) \in Nat
  BY <1>1, AtTop, TopOfStack
<1>3. ActivationOK(Top(t), m_collections, m_data, m_retrievedIDs)
  BY <1>2 DEF OneInv, ActivationsOK
<1> QED
  BY <1>1, <1>2, <1>3 DEF Awaited, HasSetter

\* doGet returns to user code or to setReferences, which stores what it found.
LEMMA OneReturns ==
  ASSUME OneInv, OneThread, [Next]_vars, NEW t \in Thread, ~Idle(t), NEW found \in BOOLEAN, Return(t, found),
         UNCHANGED <<m_data, m_collections, known, m_retrievedIDs>>,
         IF found THEN m_collections[Top(t).name] # "absent"
         ELSE Top(t).name \notin m_data \cup RawNames,
         Setting(Top(t)) => Len(relations[Top(t).name]) = Len(References[Top(t).name])
  PROVE  OneInv'
<1> DEFINE n == Top(t).name
           l == Len(stack[t])
<1>1. /\ IInv /\ Stacks /\ Top(t) = stack[t][1] /\ n \in Name /\ l \in Nat /\ l >= 1 /\ stack[t] \in Seq(Activation)
      /\ \A m : Awaited(m) => m = n
      /\ \A m : HasSetter(m) <=> \E i \in 1..l : Setting(stack[t][i]) /\ stack[t][i].name = m
  BY OneStack, TopOfStack DEF IInv, TypeOK, Stacks
<1>2. /\ stack' = [stack EXCEPT ![t] = Tail(stack[t])]
      /\ l = 1 => relations' = relations
      /\ l > 1 => relations' = [relations EXCEPT ![stack[t][2].name] = Append(@, found)]
  BY <1>1, ReturnStores
<1>3. Len(stack'[t]) = l - 1 /\ \A i \in 1..l - 1 : stack'[t][i] = stack[t][i + 1]
  BY <1>1, <1>2, Popping DEF Popped
<1>4. \A i \in 2..l : stack[t][i].pc = "relations"
  BY <1>1 DEF IInv, Shape
<1> HIDE DEF n, l
<1>5. ActivationsOK'
  <2>1. ASSUME NEW i \in 1..Len(stack'[t])
        PROVE  \E j \in 1..Len(stack[t]) : stack[t][j].pc = "relations" /\ stack'[t][i] = stack[t][j]
    <3>1. i + 1 \in 2..l /\ i \in 1..l - 1 /\ i + 1 \in 1..l
      BY <1>1, <1>3
    <3> QED
      BY <1>3, <1>4, <3>1 DEF l
  <2> QED
    BY <2>1, ActivationsStay
<1>6. RetrievedOK'
  <2>1. ASSUME NEW m \in m_retrievedIDs, Awaited(m)
        PROVE  m_collections'[m] # "absent" \/ m \notin m_data'
    BY <1>1, <2>1 DEF n
  <2> QED
    BY <2>1, RetrievedStays DEF RetrievedOK
<1>7. Completing'
  <2> SUFFICES ASSUME NEW m \in Name, m_collections[m] = "file", ~HasSetter(m)'
               PROVE  Len(relations'[m]) = Len(References[m])
    BY DEF Completing
  <2>1. \A i \in 2..l : stack[t][i].name # m
    <3> SUFFICES ASSUME NEW i \in 2..l, stack[t][i].name = m
                 PROVE  FALSE
      OBVIOUS
    <3>1. i - 1 \in 1..l - 1 /\ (i - 1) + 1 = i
      BY <1>1
    <3>2. stack'[t][i - 1] = stack[t][i] /\ i - 1 \in 1..Len(stack'[t])
      BY <1>3, <3>1
    <3>3. Setting(stack'[t][i - 1]) /\ stack'[t][i - 1].name = m
      BY <1>4, <3>2 DEF Setting
    <3> QED
      BY <3>2, <3>3 DEF HasSetter
  <2>2. relations'[m] = relations[m]
    <3>1. l = 1 \/ (l > 1 /\ 2 \in 2..l)
      BY <1>1
    <3>2. l > 1 => stack[t][2].name # m
      BY <2>1, <3>1
    <3>3. relations \in [Name -> Seq(BOOLEAN)]
      BY <1>1 DEF IInv, TypeOK
    <3> QED
      BY <1>2, <3>1, <3>2, <3>3
  <2>3. CASE HasSetter(m)
    <3>1. PICK i \in 1..l : Setting(stack[t][i]) /\ stack[t][i].name = m
      BY <1>1, <2>3
    <3>2. i = 1
      BY <1>1, <2>1, <3>1
    <3>3. m = n /\ Setting(Top(t))
      BY <1>1, <3>1, <3>2 DEF n
    <3> QED
      BY <2>2, <3>3 DEF n
  <2>4. CASE ~HasSetter(m)
    BY <2>2, <2>4 DEF OneInv, Completing
  <2> QED
    BY <2>3, <2>4
<1>8. RelationsFound'
  <2>1. CASE l = 1
    BY <1>2, <2>1 DEF OneInv, RelationsFound
  <2>2. CASE l > 1
    <3> DEFINE c == stack[t][2].name
    <3>1. 2 \in 1..l /\ 2 > 1 /\ 2 - 1 = 1
      BY <1>1, <2>2
    <3>2. WaitsFor(c, n)
      BY <1>1, <3>1 DEF IInv, Linked, l, n
    <3>3. c \in Name
      <4>1. stack[t][2] \in Activation
        BY <1>1, <3>1 DEF l
      <4> QED
        BY <4>1 DEF Activation
    <3>4. relations' = [relations EXCEPT ![c] = Append(@, found)]
      BY <1>2, <2>2
    <3> HIDE DEF c
    <3>5. found \/ n \notin RawNames
      BY DEF n
    <3> QED
      BY <3>2, <3>3, <3>4, <3>5, FoundStays
  <2> QED
    BY <1>1, <2>1, <2>2
<1> QED
  BY <1>5, <1>6, <1>7, <1>8, OneInvFrom

\* The top of the stack moves on to another place in doGet.
LEMMA OneMovesOn ==
  ASSUME OneInv, OneThread, [Next]_vars, NEW t \in Thread, ~Idle(t), NEW a \in Activation, a.name = Top(t).name,
         stack' = [stack EXCEPT ![t] = <<a>> \o Tail(@)], Setting(Top(t)) => Setting(a),
         m_data' \subseteq m_data, UNCHANGED <<relations, known, m_retrievedIDs>>,
         ActivationOK(a, m_collections', m_data', m_retrievedIDs'),
         a.pc \in {"lookup", "unpack"} \/ a.name \notin m_data' \/ m_collections'[a.name] # "absent",
         \A n \in Name : m_collections'[n] = "file" => m_collections[n] = "file" \/ (n = a.name /\ Setting(a))
  PROVE  OneInv'
<1> DEFINE l == Len(stack[t])
<1>1. /\ IInv /\ Top(t) = stack[t][1] /\ l \in Nat /\ 1 \in 1..l
      /\ \A m : Awaited(m) => m = a.name
      /\ \A m : HasSetter(m) <=> \E i \in 1..l : Setting(stack[t][i]) /\ stack[t][i].name = m
  BY OneStack
<1>2. /\ Len(stack'[t]) = l /\ stack'[t][1] = a /\ ~Idle(t)'
      /\ \A i \in 2..l : stack'[t][i] = stack[t][i]
  BY TopReplaced
<1>3. \A i \in 2..l : stack[t][i].pc = "relations"
  BY <1>1 DEF IInv, Shape
<1> HIDE DEF l
<1>4. ActivationsOK'
  <2>1. ASSUME NEW i \in 1..Len(stack'[t])
        PROVE  \/ ActivationOK(stack'[t][i], m_collections', m_data', m_retrievedIDs')
               \/ \E j \in 1..Len(stack[t]) : stack[t][j].pc = "relations" /\ stack'[t][i] = stack[t][j]
    <3>1. i = 1 \/ (i \in 2..l /\ i \in 1..l)
      BY <1>1, <1>2
    <3> QED
      BY <1>2, <1>3, <3>1 DEF l
  <2> QED
    BY <2>1, ActivationsStay
<1>5. RetrievedOK'
  <2>1. ASSUME NEW m \in m_retrievedIDs, Awaited(m)
        PROVE  m_collections'[m] # "absent" \/ m \notin m_data' \/ Awaited(m)'
    <3>1. m = a.name
      BY <1>1, <2>1
    <3> QED
      BY <1>2, <3>1 DEF Awaited
  <2> QED
    BY <2>1, RetrievedStays DEF RetrievedOK
<1>6. \A m : HasSetter(m) => HasSetter(m)'
  <2> SUFFICES ASSUME NEW m, NEW i \in 1..l, Setting(stack[t][i]), stack[t][i].name = m
               PROVE  HasSetter(m)'
    BY <1>1
  <2>1. i = 1 \/ i \in 2..l
    BY <1>1
  <2>2. Setting(stack'[t][i]) /\ stack'[t][i].name = m /\ i \in 1..Len(stack'[t])
    BY <1>1, <1>2, <2>1
  <2> QED
    BY <2>2 DEF HasSetter
<1>7. Setting(a) => HasSetter(a.name)'
  BY <1>1, <1>2 DEF HasSetter
<1>8. Completing'
  BY <1>6, <1>7 DEF OneInv, Completing
<1>9. RelationsFound'
  BY DEF OneInv, RelationsFound
<1> QED
  BY <1>4, <1>5, <1>8, <1>9, OneInvFrom

\* An activation of doGet is pushed by user code or by setReferences.
LEMMA OnePushes ==
  ASSUME OneInv, OneThread, [Next]_vars, NEW t \in Thread, NEW b \in Activation, b.pc = "lookup",
         Len(stack'[t]) = Len(stack[t]) + 1, stack'[t][1] = b, ~Idle(t)',
         \A i \in 1..Len(stack[t]) :
            /\ Setting(stack[t][i]) /\ stack'[t][i + 1].pc = "relations"
            /\ stack'[t][i + 1].name = stack[t][i].name
            /\ stack'[t][i + 1].setReferences = stack[t][i].setReferences,
         UNCHANGED <<m_data, m_collections, relations, known>>, m_retrievedIDs' \subseteq m_retrievedIDs \cup {b.name},
         ~b.setReferences => m_collections[b.name] # "absent" \/ b.name \notin m_data
  PROVE  OneInv'
<1> DEFINE l == Len(stack[t])
<1>1. IInv /\ l \in Nat /\ \A u \in Thread : u = t
  BY DEF OneInv, IInv, TypeOK, OneThread
<1>2. ASSUME NEW j \in 1..Len(stack'[t])
      PROVE  j = 1 \/ (j - 1 \in 1..l /\ (j - 1) + 1 = j)
  BY <1>1
<1>3. ASSUME NEW i \in 1..l
      PROVE  /\ i + 1 \in 1..Len(stack'[t])
             /\ Setting(stack'[t][i + 1]) /\ stack'[t][i + 1].name = stack[t][i].name
             /\ ActivationOK(stack'[t][i + 1], m_collections', m_data', m_retrievedIDs')
  <2>1. ActivationOK(stack[t][i], m_collections, m_data, m_retrievedIDs) /\ Setting(stack[t][i])
    BY DEF OneInv, ActivationsOK
  <2>2. i + 1 \in 1..Len(stack'[t])
    BY <1>1
  <2> QED
    BY <2>1, <2>2 DEF ActivationOK, Setting
<1> HIDE DEF l
<1>4. ActivationOK(b, m_collections', m_data', m_retrievedIDs')
  BY DEF ActivationOK, Setting
<1>5. ActivationsOK'
  <2>1. ASSUME NEW j \in 1..Len(stack'[t])
        PROVE  ActivationOK(stack'[t][j], m_collections', m_data', m_retrievedIDs')
    BY <1>2, <1>3, <1>4
  <2> QED
    BY <2>1, ActivationsStay
<1>6. \A m : ~Awaited(m)
  <2>1. stack[t] # <<>> => 1 \in 1..Len(stack[t])
    BY <1>1, AtTop DEF Idle
  <2> QED
    BY <1>1, <2>1 DEF Awaited, Idle, Setting
<1>7. Awaited(b.name)'
  BY DEF Awaited
<1>8. RetrievedOK'
  <2> SUFFICES ASSUME NEW m \in m_retrievedIDs'
               PROVE  m_collections'[m] # "absent" \/ m \notin m_data' \/ Awaited(m)'
    BY DEF RetrievedOK
  <2>1. m = b.name \/ m \in m_retrievedIDs
    OBVIOUS
  <2>2. CASE m \in m_retrievedIDs
    BY <1>6, <2>2, RetrievedStays
  <2> QED
    BY <1>7, <2>1, <2>2
<1>9. Completing'
  <2>1. ASSUME NEW m, HasSetter(m)
        PROVE  HasSetter(m)'
    <3>1. PICK i \in 1..l : stack[t][i].name = m
      BY <1>1, <2>1 DEF HasSetter, l
    <3> QED
      BY <1>3, <3>1 DEF HasSetter
  <2> QED
    BY <2>1 DEF OneInv, Completing
<1>10. RelationsFound'
  BY DEF OneInv, RelationsFound
<1> QED
  BY <1>5, <1>8, <1>9, <1>10, OneInvFrom

-----------------------------------------------------------------------------
\* User code calls get: the only stack is empty.
LEMMA OneCallGet ==
  ASSUME OneInv, OneThread, [Next]_vars, NEW t \in Thread, NEW n \in GetNames, CallGet(t, n)
  PROVE  OneInv'
<1> DEFINE b == Enter(n, TRUE)
<1>1. b \in Activation /\ b.pc = "lookup" /\ b.setReferences
  BY NamesAssumption DEF Enter, Activation, PC
<1>2. /\ Idle(t) /\ stack' = [stack EXCEPT ![t] = <<b>>]
      /\ UNCHANGED <<m_data, m_collections, relations, known, m_retrievedIDs>>
  BY DEF CallGet
<1> HIDE DEF b
<1>3. stack'[t] = <<b>> /\ stack[t] = <<>>
  BY <1>2 DEF OneInv, IInv, TypeOK, Idle
<1>4. Len(stack[t]) = 0 /\ Len(stack'[t]) = 1 /\ stack'[t][1] = b /\ <<b>> # <<>>
  BY <1>3
<1> QED
  BY <1>1, <1>2, <1>3, <1>4, OnePushes DEF Idle

\* A collection that is not in the map is not there or going to be unpacked.
LEMMA OneLookup ==
  ASSUME OneInv, OneThread, [Next]_vars, NEW t \in Thread, Lookup(t)
  PROVE  OneInv'
<1>1. /\ ~Idle(t) /\ Top(t).pc = "lookup" /\ ~Setting(Top(t))
      /\ UNCHANGED <<m_data, m_collections, known, m_retrievedIDs>>
  BY DEF Lookup, At, Setting
<1>2. Top(t) \in Activation /\ Top(t).name \in Name /\ ActivationOK(Top(t), m_collections, m_data, m_retrievedIDs)
  BY <1>1, OneStack
<1>3. CASE Top(t).name \in InMap /\ Return(t, TRUE)
  BY <1>1, <1>3, OneReturns DEF InMap
<1>4. CASE Top(t).name \notin InMap /\ Goto(t, "unpack") /\ UNCHANGED relations
  <2> DEFINE a == [Top(t) EXCEPT !.pc = "unpack"]
  <2>1. /\ a \in Activation /\ a.name = Top(t).name /\ a.pc = "unpack" /\ a.setReferences = Top(t).setReferences
    BY <1>2 DEF Activation, PC
  <2>2. stack' = [stack EXCEPT ![t] = <<a>> \o Tail(@)]
    BY <1>4 DEF Goto
  <2>3. m_collections[Top(t).name] = "absent"
    BY <1>2, <1>4 DEF InMap
  <2> HIDE DEF a
  <2>4. ActivationOK(a, m_collections', m_data', m_retrievedIDs')
    BY <1>1, <1>2, <2>1, <2>3 DEF ActivationOK, Setting
  <2> QED
    BY <1>1, <1>4, <2>1, <2>2, <2>4, OneMovesOn
<1> QED
  BY <1>3, <1>4 DEF Lookup

\* Without other threads, a collection that is not in the raw data and not in
\* the map was never there.
LEMMA OneUnpack ==
  ASSUME OneInv, OneThread, [Next]_vars, NEW t \in Thread, Unpack(t)
  PROVE  OneInv'
<1>1. ~Idle(t) /\ Top(t).pc = "unpack" /\ ~Setting(Top(t)) /\ UNCHANGED <<m_collections, known, m_retrievedIDs>>
  BY DEF Unpack, At, Setting
<1>2. Top(t) \in Activation /\ Top(t).name \in Name /\ ActivationOK(Top(t), m_collections, m_data, m_retrievedIDs)
  BY <1>1, OneStack
<1>3. m_collections[Top(t).name] = "absent"
  BY <1>1, <1>2 DEF ActivationOK
<1>4. CASE Top(t).name \in m_data /\ m_data' = TakeOut(Top(t).name) /\ Goto(t, "emplace") /\ UNCHANGED relations
  <2> DEFINE a == [Top(t) EXCEPT !.pc = "emplace"]
  <2>1. /\ a \in Activation /\ a.name = Top(t).name /\ a.pc = "emplace" /\ a.setReferences = Top(t).setReferences
    BY <1>2 DEF Activation, PC
  <2>2. stack' = [stack EXCEPT ![t] = <<a>> \o Tail(@)]
    BY <1>4 DEF Goto
  <2>3. Top(t).setReferences
    BY <1>2, <1>3, <1>4 DEF ActivationOK
  <2> HIDE DEF a
  <2>4. ActivationOK(a, m_collections', m_data', m_retrievedIDs')
    BY <1>1, <1>3, <2>1, <2>3 DEF ActivationOK, Setting
  <2>5. m_data' \subseteq m_data /\ a.name \notin m_data'
    BY <1>4, <2>1 DEF TakeOut
  <2> QED
    BY <1>1, <1>4, <2>1, <2>2, <2>4, <2>5, OneMovesOn
<1>5. CASE Top(t).name \notin m_data /\ Return(t, FALSE) /\ UNCHANGED m_data
  <2>1. Top(t).name \notin InMap /\ Top(t).name \notin InFlight
    <3>1. \A u \in Thread : ~At(u, "emplace")
      BY <1>1 DEF OneThread, At
    <3> QED
      BY <1>3, <3>1 DEF InMap, InFlight
  <2>2. Top(t).name \notin RawNames
    BY <1>5, <2>1 DEF OneInv, NothingLost, Present
  <2> QED
    BY <1>1, <1>5, <2>2, OneReturns
<1> QED
  BY <1>4, <1>5 DEF Unpack

\* What is emplaced was absent, and its references are going to be set.
LEMMA OneEmplace ==
  ASSUME OneInv, OneThread, [Next]_vars, NEW t \in Thread, Emplace(t)
  PROVE  OneInv'
<1> DEFINE n == Top(t).name
<1>1. ~Idle(t) /\ Top(t).pc = "emplace" /\ ~Setting(Top(t)) /\ UNCHANGED <<m_data, known, m_retrievedIDs>>
  BY DEF Emplace, At, Setting
<1>2. /\ Top(t) \in Activation /\ n \in Name
      /\ ActivationOK(Top(t), m_collections, m_data, m_retrievedIDs)
  BY <1>1, OneStack
<1>3. m_collections[n] = "absent" /\ Top(t).setReferences
  BY <1>1, <1>2 DEF ActivationOK
<1>4. m_collections' = [m_collections EXCEPT ![n] = Emplaced(@)] /\ Goto(t, "relations") /\ UNCHANGED relations
  BY <1>3 DEF Emplace
<1>5. m_collections'[n] = "file" /\ \A m \in Name : m # n => m_collections'[m] = m_collections[m]
  BY <1>2, <1>3, <1>4 DEF OneInv, IInv, TypeOK, Emplaced
<1> DEFINE a == [Top(t) EXCEPT !.pc = "relations"]
<1>6. /\ a \in Activation /\ a.name = n /\ a.pc = "relations" /\ a.setReferences
  BY <1>2, <1>3 DEF Activation, PC
<1>7. stack' = [stack EXCEPT ![t] = <<a>> \o Tail(@)]
  BY <1>4 DEF Goto
<1> HIDE DEF a, n
<1>8. ActivationOK(a, m_collections', m_data', m_retrievedIDs') /\ Setting(a)
  BY <1>5, <1>6 DEF ActivationOK, Setting
<1>9. m_collections'[a.name] # "absent" /\ a.name = Top(t).name
  BY <1>5, <1>6 DEF n
<1>10. \A m \in Name : m_collections'[m] = "file" => m_collections[m] = "file" \/ (m = a.name /\ Setting(a))
  BY <1>5, <1>6, <1>8
<1> QED
  BY <1>1, <1>4, <1>6, <1>7, <1>8, <1>9, <1>10, OneMovesOn

\* An activation of doGet is pushed, and the one below it moves on.
LEMMA BothPushed ==
  ASSUME OneInv, NEW t \in Thread, ~Idle(t), NEW a \in Activation, NEW b \in Activation,
         stack' = [stack EXCEPT ![t] = <<b, a>> \o Tail(@)]
  PROVE  /\ Len(stack'[t]) = Len(stack[t]) + 1 /\ stack'[t][1] = b /\ stack'[t][2] = a /\ ~Idle(t)'
         /\ Len(stack[t]) \in Nat /\ \A i \in 2..Len(stack[t]) : stack'[t][i + 1] = stack[t][i]
<1>1. Stacks /\ Len(stack[t]) \in Nat /\ Len(stack[t]) >= 1
  BY TopOfStack DEF OneInv, IInv, TypeOK, Stacks
<1> DEFINE new == <<b, a>> \o Tail(stack[t])
<1>2. <<b, a>> \in Seq(Activation) /\ Len(<<b, a>>) = 2 /\ <<b, a>>[1] = b /\ <<b, a>>[2] = a
  OBVIOUS
<1>3. /\ Tail(stack[t]) \in Seq(Activation) /\ Len(Tail(stack[t])) = Len(stack[t]) - 1
      /\ \A i \in 1..Len(Tail(stack[t])) : Tail(stack[t])[i] = stack[t][i+1]
  BY <1>1, TopOfStack, StackOps
<1>4. /\ new \in Seq(Activation) /\ Len(new) = Len(stack[t]) + 1
      /\ \A i \in 1..(Len(stack[t]) + 1) :
            new[i] = IF i <= 2 THEN <<b, a>>[i] ELSE Tail(stack[t])[i-2]
  BY <1>1, <1>2, <1>3, ConcatProperties
<1>5. stack'[t] = new
  BY <1>1 DEF Stacks
<1> HIDE DEF new
<1>6. new[1] = b /\ new[2] = a /\ \A i \in 2..Len(stack[t]) : new[i + 1] = stack[t][i]
  <2>1. new[1] = b /\ new[2] = a
    BY <1>1, <1>2, <1>4
  <2>2. ASSUME NEW i \in 2..Len(stack[t])
        PROVE  new[i + 1] = stack[t][i]
    <3>1. i + 1 \in 1..(Len(stack[t]) + 1) /\ ~(i + 1 <= 2) /\ (i + 1) - 2 = i - 1 /\ (i - 1) + 1 = i
          /\ i - 1 \in 1..Len(Tail(stack[t]))
      BY <1>1, <1>3
    <3> QED
      BY <1>3, <1>4, <3>1
  <2> QED
    BY <2>1, <2>2
<1>7. new # <<>>
  BY <1>1, <1>4, EmptySeq
<1> QED
  BY <1>1, <1>4, <1>5, <1>6, <1>7 DEF Idle

\* An ID the table does not know is not that of a collection of the raw data.
LEMMA OneResolveUnknown ==
  ASSUME OneInv, OneThread, [Next]_vars, NEW t \in Thread, ResolveUnknown(t)
  PROVE  OneInv'
<1> DEFINE c == Top(t).name
<1>1. /\ relations' = [relations EXCEPT ![c] = Append(@, FALSE)] /\ NextTarget(t) \notin RawNames
      /\ UNCHANGED <<m_data, m_collections, known, m_retrievedIDs, stack>>
  BY DEF ResolveUnknown, Resolved, OneInv
<1>2. ~Idle(t) /\ Setting(Top(t)) /\ WaitsFor(c, NextTarget(t))
  BY MoreHasNext DEF ResolveUnknown, OneInv, Setting
<1>3. c \in Name /\ Top(t) = stack[t][1] /\ 1 \in 1..Len(stack[t]) /\ relations \in [Name -> Seq(BOOLEAN)]
  BY <1>2, OneStack DEF IInv, TypeOK
<1>4. HasSetter(c) /\ \A m : HasSetter(m)' <=> HasSetter(m)
  BY <1>1, <1>2, <1>3 DEF HasSetter
<1> HIDE DEF c
<1>5. \A m \in Name : m # c => relations'[m] = relations[m]
  BY <1>1, <1>3
<1>6. RelationsFound'
  BY <1>1, <1>2, <1>3, FoundStays
<1>7. Completing'
  <2> SUFFICES ASSUME NEW m \in Name, m_collections[m] = "file", ~HasSetter(m)'
               PROVE  Len(relations'[m]) = Len(References[m])
    BY <1>1 DEF Completing
  <2>1. ~HasSetter(m)
    BY <1>4
  <2>2. m # c
    BY <1>4, <2>1
  <2> QED
    BY <1>5, <2>1, <2>2 DEF OneInv, Completing
<1>8. ActivationsOK' /\ RetrievedOK'
  BY <1>1 DEF OneInv, ActivationsOK, RetrievedOK, Awaited, Idle
<1> QED
  BY <1>1, <1>6, <1>7, <1>8, OneInvFrom

\* An ID that was seen belongs to a collection that is in the map or will not
\* be found: nothing is unpacked without its references.
LEMMA OneResolveSeen ==
  ASSUME OneInv, OneThread, [Next]_vars, NEW t \in Thread, ResolveSeen(t)
  PROVE  OneInv'
<1> DEFINE n == NextTarget(t)
           b == Enter(n, FALSE)
           l == Len(stack[t])
<1>1. /\ stack' = [stack EXCEPT ![t] = <<b>> \o @] /\ n \in m_retrievedIDs
      /\ UNCHANGED <<m_data, m_collections, relations, known, m_retrievedIDs>>
  BY DEF ResolveSeen
<1>2. ~Idle(t) /\ Top(t).pc = "relations"
  BY MoreHasNext DEF ResolveSeen, OneInv
<1>3. /\ Top(t) = stack[t][1] /\ 1 \in 1..l /\ IInv /\ l \in Nat
      /\ \A m : Awaited(m) => Top(t).pc \in {"lookup", "unpack"}
  BY <1>2, OneStack
<1>4. n \in Name /\ b \in Activation /\ b.pc = "lookup" /\ b.name = n
  BY <1>1, <1>3 DEF IInv, TypeOK, Enter, Activation, PC
<1>5. m_collections[n] # "absent" \/ n \notin m_data
  BY <1>1, <1>2, <1>3 DEF OneInv, RetrievedOK
<1> HIDE DEF b, n, l
<1>6. /\ Len(stack'[t]) = l + 1 /\ stack'[t][1] = b /\ ~Idle(t)'
      /\ \A i \in 2..l + 1 : stack'[t][i] = stack[t][i - 1]
  BY <1>1, <1>2, <1>4, TopPushed DEF l
<1>7. ASSUME NEW i \in 1..l
      PROVE  stack[t][i].pc = "relations" /\ stack'[t][i + 1] = stack[t][i]
  <2>1. i = 1 \/ i \in 2..l
    BY <1>3
  <2>2. i + 1 \in 2..l + 1 /\ (i + 1) - 1 = i
    BY <1>3
  <2> QED
    BY <1>2, <1>3, <1>6, <2>1, <2>2 DEF IInv, Shape, l
<1>8. \A i \in 1..Len(stack[t]) :
        /\ Setting(stack[t][i]) /\ stack'[t][i + 1].pc = "relations"
        /\ stack'[t][i + 1].name = stack[t][i].name
        /\ stack'[t][i + 1].setReferences = stack[t][i].setReferences
  BY <1>7 DEF Setting, l
<1> QED
  BY <1>1, <1>4, <1>5, <1>6, <1>8, OnePushes DEF l

\* A new ID is going to be linked.
LEMMA OneResolveNew ==
  ASSUME OneInv, OneThread, [Next]_vars, NEW t \in Thread, ResolveNew(t)
  PROVE  OneInv'
<1> DEFINE a == [Top(t) EXCEPT !.pc = "insert", !.seen = m_retrievedIDs]
<1>1. /\ stack' = [stack EXCEPT ![t] = <<a>> \o Tail(@)]
      /\ UNCHANGED <<m_data, m_collections, relations, known, m_retrievedIDs>>
  BY DEF ResolveNew
<1>2. ~Idle(t) /\ Top(t).pc = "relations"
  BY MoreHasNext DEF ResolveNew, OneInv
<1>3. /\ Top(t) \in Activation /\ IInv
      /\ ActivationOK(Top(t), m_collections, m_data, m_retrievedIDs)
  BY <1>2, OneStack
<1>4. /\ a \in Activation /\ a.pc = "insert" /\ a.name = Top(t).name /\ a.seen = m_retrievedIDs
      /\ a.setReferences = Top(t).setReferences
  BY <1>3 DEF Activation, PC, IInv, TypeOK
<1> HIDE DEF a
<1>5. ActivationOK(a, m_collections', m_data', m_retrievedIDs') /\ Setting(a) /\ m_collections'[a.name] # "absent"
  BY <1>1, <1>2, <1>3, <1>4 DEF ActivationOK, Setting
<1> QED
  BY <1>1, <1>2, <1>4, <1>5, OneMovesOn

\* The ID that is linked is that of a name.
LEMMA InsertedName ==
  ASSUME OneInv, NEW t \in Thread, ~Idle(t), Top(t).pc = "insert"
  PROVE  NextTarget(t) \in Name
<1>1. Top(t) = stack[t][1] /\ 1 \in 1..Len(stack[t]) /\ Top(t).name \in Name /\ IInv
  BY AtTop DEF OneInv
<1>2. HasNext(Top(t).name)
  BY <1>1 DEF IInv, Linked
<1>3. NextTarget(t) = References[Top(t).name][Len(relations[Top(t).name]) + 1]
  BY <1>2 DEF NextTarget, Stored, HasNext
<1> QED
  BY <1>1, <1>2, <1>3, TargetName

\* What InsertID does to the stack.
LEMMA InsertPushes ==
  ASSUME OneInv, NEW t \in Thread, InsertID(t)
  PROVE  /\ Len(stack[t]) \in Nat /\ Len(stack'[t]) = Len(stack[t]) + 1 /\ ~Idle(t)'
         /\ stack'[t][1] = Enter(NextTarget(t), TRUE)
         /\ stack'[t][2] = [Top(t) EXCEPT !.pc = "relations", !.seen = {}]
         /\ stack'[t][2].name = Top(t).name /\ stack'[t][2].pc = "relations"
         /\ stack'[t][2].setReferences = Top(t).setReferences
         /\ \A i \in 2..Len(stack[t]) : stack'[t][i + 1] = stack[t][i]
<1> DEFINE b == Enter(NextTarget(t), TRUE)
           a == [Top(t) EXCEPT !.pc = "relations", !.seen = {}]
<1>1. stack' = [stack EXCEPT ![t] = <<b, a>> \o Tail(@)] /\ ~Idle(t) /\ Top(t).pc = "insert"
  BY DEF InsertID, At
<1>2. Top(t) \in Activation
  BY <1>1, AtTop DEF OneInv
<1>3. NextTarget(t) \in Name
  BY <1>1, InsertedName
<1>4. /\ b \in Activation /\ a \in Activation
      /\ a.pc = "relations" /\ a.name = Top(t).name /\ a.setReferences = Top(t).setReferences
  BY <1>2, <1>3 DEF Enter, Activation, PC
<1> HIDE DEF a, b
<1>5. /\ Len(stack'[t]) = Len(stack[t]) + 1 /\ stack'[t][1] = b /\ stack'[t][2] = a /\ ~Idle(t)'
      /\ Len(stack[t]) \in Nat /\ \A i \in 2..Len(stack[t]) : stack'[t][i + 1] = stack[t][i]
  BY <1>1, <1>4, BothPushed
<1> QED
  BY <1>4, <1>5 DEF a, b

\* The new ID is linked, and its collection is about to be looked up.
LEMMA OneInsertID ==
  ASSUME OneInv, OneThread, [Next]_vars, NEW t \in Thread, InsertID(t)
  PROVE  OneInv'
<1> DEFINE n == NextTarget(t)
           b == Enter(n, TRUE)
           l == Len(stack[t])
<1>1. ~Idle(t) /\ Top(t).pc = "insert" /\ UNCHANGED <<m_data, m_collections, relations, known>>
  BY DEF InsertID, At
<1>2. /\ Top(t) = stack[t][1] /\ 1 \in 1..l /\ IInv /\ l \in Nat
      /\ ActivationOK(Top(t), m_collections, m_data, m_retrievedIDs)
  BY <1>1, OneStack
<1>3. m_retrievedIDs' \subseteq m_retrievedIDs \cup {n}
  BY <1>1, <1>2 DEF InsertID, ActivationOK
<1>4. n \in Name
  BY <1>1, InsertedName
<1>5. b \in Activation /\ b.pc = "lookup" /\ b.name = n /\ b.setReferences
  BY <1>4 DEF Enter, Activation, PC
<1>6. /\ Len(stack'[t]) = l + 1 /\ ~Idle(t)' /\ stack'[t][1] = b
      /\ stack'[t][2].name = Top(t).name /\ stack'[t][2].pc = "relations"
      /\ stack'[t][2].setReferences = Top(t).setReferences
      /\ \A i \in 2..l : stack'[t][i + 1] = stack[t][i]
  BY InsertPushes
<1> HIDE DEF b, n, l
<1>7. ASSUME NEW i \in 1..l
      PROVE  /\ Setting(stack[t][i]) /\ stack'[t][i + 1].pc = "relations"
             /\ stack'[t][i + 1].name = stack[t][i].name
             /\ stack'[t][i + 1].setReferences = stack[t][i].setReferences
  <2>1. (i = 1 /\ i + 1 = 2) \/ i \in 2..l
    BY <1>2
  <2>2. CASE i = 1 /\ i + 1 = 2
    BY <1>1, <1>2, <1>6, <2>2 DEF Setting
  <2>3. CASE i \in 2..l
    BY <1>2, <1>6, <2>3 DEF IInv, Shape, Setting, l
  <2> QED
    BY <2>1, <2>2, <2>3
<1> QED
  BY <1>1, <1>3, <1>5, <1>6, <1>7, OnePushes DEF l

\* setReferences has gone through all that was stored.
LEMMA OneRelationsDone ==
  ASSUME OneInv, OneThread, [Next]_vars, NEW t \in Thread, RelationsDone(t)
  PROVE  OneInv'
<1> DEFINE n == Top(t).name
<1>1. /\ ~Idle(t) /\ Top(t).pc = "relations" /\ Return(t, TRUE)
      /\ UNCHANGED <<m_data, m_collections, known, m_retrievedIDs>>
  BY DEF RelationsDone, At
<1>2. n \in Name /\ IInv /\ ActivationOK(Top(t), m_collections, m_data, m_retrievedIDs)
  BY <1>1, OneStack
<1>3. m_collections[n] = "file"
  BY <1>1, <1>2 DEF ActivationOK, Setting
<1>4. ~(Len(relations[n]) < Len(References[n]))
  BY <1>1, <1>3 DEF RelationsDone, MoreRelations, At, Stored
<1>5. Len(relations[n]) <= Len(References[n]) /\ Len(relations[n]) \in Nat /\ Len(References[n]) \in Nat
  BY <1>2, ReferencesAssumption DEF IInv, RelationsValid, TypeOK
<1> HIDE DEF n
<1>6. Len(relations[n]) = Len(References[n])
  BY <1>4, <1>5
<1> QED
  BY <1>1, <1>3, <1>6, OneReturns DEF n

\* User code puts a collection into the Frame when no doGet is under way.
LEMMA OnePut ==
  ASSUME OneInv, OneThread, [Next]_vars, NEW t \in Thread, NEW n \in PutNames, Put(t, n)
  PROVE  OneInv'
<1>1. /\ Idle(t) /\ n \in Name /\ UNCHANGED <<m_data, relations, m_retrievedIDs, stack>>
      /\ m_collections' = [m_collections EXCEPT ![n] = "user"] /\ known' = known \cup {n}
  BY NamesAssumption DEF Put, Registry!Register
<1>2. \A u \in Thread : Idle(u) /\ Len(stack[u]) = 0
  BY <1>1, EmptySeq DEF OneThread, Idle
<1>3. ActivationsOK'
  BY <1>1, <1>2 DEF ActivationsOK
<1>4. RetrievedOK'
  <2>1. \A m : ~Awaited(m)
    BY <1>2 DEF Awaited
  <2> QED
    BY <1>1, <2>1, RetrievedStays DEF RetrievedOK
<1>5. Completing'
  <2>1. \A m \in Name : m_collections'[m] = "file" => m_collections[m] = "file"
    BY <1>1 DEF OneInv, IInv, TypeOK
  <2>2. \A m : HasSetter(m)' <=> HasSetter(m)
    BY <1>1 DEF HasSetter
  <2> QED
    BY <1>1, <2>1, <2>2 DEF OneInv, Completing
<1>6. RelationsFound' /\ known \subseteq known'
  BY <1>1 DEF OneInv, RelationsFound
<1> QED
  BY <1>3, <1>4, <1>5, <1>6, OneInvFrom

\* Steps that change the last call only.
LEMMA OneUnchanged ==
  ASSUME OneInv, [Next]_vars, UNCHANGED <<m_data, m_collections, relations, known, m_retrievedIDs, stack>>
  PROVE  OneInv'
<1>1. ActivationsOK' /\ RetrievedOK'
  BY DEF OneInv, ActivationsOK, RetrievedOK, Awaited, Idle
<1>2. Completing' /\ RelationsFound' /\ known \subseteq known'
  BY DEF OneInv, Completing, RelationsFound, HasSetter
<1> QED
  BY <1>1, <1>2, OneInvFrom

\* At the start, no collection is unpacked and no ID seen.
LEMMA OneStart == Init => OneInv
<1> SUFFICES ASSUME Init PROVE OneInv
  OBVIOUS
<1>1. IInv /\ NothingLost
  BY InitIInv DEF Init, NothingLost, Present
<1>2. \A t \in Thread : Len(stack[t]) = 0
  BY EmptySeq DEF Init
<1>3. ActivationsOK /\ RetrievedOK
  BY <1>2 DEF Init, ActivationsOK, RetrievedOK
<1>4. Completing
  BY DEF Init, Completing
<1>5. RelationsFound
  <2>1. \A n \in Name : Len(relations[n]) = 0
    BY EmptySeq DEF Init
  <2> QED
    BY <2>1 DEF RelationsFound
<1> QED
  BY <1>1, <1>3, <1>4, <1>5, NamesAssumption DEF OneInv, Init

\* Every step of a Frame that one thread uses keeps the invariant.
LEMMA OneStep == OneThread /\ OneInv /\ [Next]_vars => OneInv'
<1> SUFFICES ASSUME OneThread, OneInv, [Next]_vars PROVE OneInv'
  OBVIOUS
<1>1. ASSUME NEW t \in Thread, Step(t) PROVE OneInv'
  BY <1>1, OneLookup, OneUnpack, OneEmplace, OneResolveUnknown, OneResolveSeen,
     OneResolveNew, OneInsertID, OneRelationsDone DEF Step
<1>2. ASSUME NEW t \in Thread, NEW n \in GetNames, CallGet(t, n) PROVE OneInv'
  BY <1>2, OneCallGet
<1>3. ASSUME NEW t \in Thread, NEW n \in PutNames, Put(t, n) PROVE OneInv'
  BY <1>3, OnePut
<1>4. ASSUME NEW t \in Thread, NEW n \in PutNames, PutThrows(t, n) PROVE OneInv'
  BY <1>4, OneUnchanged DEF PutThrows
<1>5. ASSUME NEW t \in Thread, AvailableCollections(t) PROVE OneInv'
  BY <1>5, OneUnchanged DEF AvailableCollections
<1>6. CASE UNCHANGED vars
  BY <1>6, OneUnchanged DEF vars
<1> QED
  BY <1>1, <1>2, <1>3, <1>4, <1>5, <1>6 DEF Next

\* The invariant holds in every behaviour of one thread.
LEMMA OneInvariance == OneThread /\ Spec => []OneInv
<1>1. OneThread => OneThread'
  BY DEF OneThread
<1> QED
  BY <1>1, OneStart, OneStep, PTL DEF Spec

\* When the thread is not in doGet, no references are being set.
LEMMA OneResolves == OneInv => RelationsResolved
<1> SUFFICES ASSUME OneInv, AllIdle, NEW n \in Name, m_collections[n] = "file"
             PROVE  Len(relations[n]) = Len(References[n])
  BY DEF RelationsResolved, OneInv
<1>1. \A t \in Thread : Len(stack[t]) = 0
  BY EmptySeq DEF AllIdle, Idle
<1>2. ~HasSetter(n)
  BY <1>1 DEF HasSetter
<1> QED
  BY <1>2 DEF OneInv, Completing

\* A Frame that one thread uses: once a get has returned, all the relations of
\* the collections that were unpacked on the way are set, and one is left empty
\* only if the data does not have the collection it points to.
THEOREM OneThreadResolves == OneThread => (Spec => []RelationsResolved)
BY OneInvariance, OneResolves, PTL

-----------------------------------------------------------------------------
\* The record of a call of get.
GetCall == [op : {"get"}, name : Name, absent : BOOLEAN, answer : {"pending", "found", "null"}]

\* The last call of a thread is a get under way as long as the thread is in
\* doGet; its collection is that of the activation at the bottom of the stack,
\* and what was available when the call was made still is.
CallOK(t) ==
    /\ Idle(t) => Contract!Idle(t)
    /\ ~Idle(t) =>
          /\ call[t] \in GetCall /\ call[t].answer = "pending"
          /\ call[t].name = stack[t][Len(stack[t])].name
          /\ call[t].absent \/ call[t].name \in Present

CallsOK == DOMAIN call = Thread /\ \A t \in Thread : CallOK(t)

\* A step the contract allows.
ContractStep == [Contract!Next]_(Contract!vars)

\* The collections in the hands of a thread with this stack.
Flight(s) == {n \in Name : s # <<>> /\ s[1].pc = "emplace" /\ s[1].name = n}

\* Those in the hands of the only thread, before and after a step.
LEMMA OneFlight ==
  ASSUME OneInv, OneInv', OneThread, NEW t \in Thread
  PROVE  InFlight = Flight(stack[t]) /\ InFlight' = Flight(stack'[t])
<1>1. stack[t] \in Seq(Activation) /\ stack'[t] \in Seq(Activation)
  BY DEF OneInv, IInv, TypeOK
<1>2. /\ stack[t] # <<>> => Top(t) = stack[t][1]
      /\ stack'[t] # <<>> => Top(t)' = stack'[t][1]
  BY <1>1, StackOps DEF Top
<1>3. \A u \in Thread : u = t
  BY DEF OneThread
<1> QED
  BY <1>2, <1>3 DEF InFlight, Flight, At, Idle

\* A step within a call: collections may get into the map.
LEMMA ContractLoads ==
  ASSUME OneThread, CallsOK, NEW t \in Thread, call' = call, Present \subseteq Present', Present' \subseteq Present,
         InMap \subseteq InMap', ~Idle(t), ~Idle(t)',
         stack'[t][Len(stack'[t])].name = stack[t][Len(stack[t])].name
  PROVE  ContractStep /\ CallsOK'
<1>1. Present' = Present /\ InMap' \subseteq Present'
  BY DEF Present
<1>2. Contract!Load
  BY <1>1 DEF Contract!Load
<1>3. CallsOK'
  <2>1. \A u \in Thread : u = t
    BY DEF OneThread
  <2> QED
    BY <1>1, <2>1 DEF CallsOK, CallOK
<1> QED
  BY <1>2, <1>3 DEF ContractStep, Contract!Next

\* doGet returns: to setReferences, which the contract does not know of, or to
\* user code.
LEMMA ContractReturns ==
  ASSUME OneInv, OneInv', OneThread, CallsOK, NEW t \in Thread, ~Idle(t), NEW found \in BOOLEAN, Return(t, found),
         Top(t).pc # "emplace", UNCHANGED <<m_data, m_collections>>,
         IF found THEN Top(t).name \in InMap ELSE Top(t).name \notin Present
  PROVE  ContractStep /\ CallsOK'
<1> DEFINE l == Len(stack[t])
<1>1. Stacks /\ l \in Nat /\ l >= 1 /\ Top(t) = stack[t][1] /\ \A u \in Thread : u = t
  BY TopOfStack DEF OneInv, IInv, TypeOK, Stacks, OneThread
<1>2. stack' = [stack EXCEPT ![t] = Tail(stack[t])] /\ stack'[t] = Tail(stack[t])
  BY <1>1 DEF Return, Stacks
<1>3. Len(stack'[t]) = l - 1 /\ \A i \in 1..l - 1 : stack'[t][i] = stack[t][i + 1]
  BY <1>1, <1>2, Popping DEF Popped
<1>4. \A i \in 2..l : stack[t][i].pc = "relations"
  BY DEF OneInv, IInv, Shape
<1>5. stack'[t] = <<>> <=> l = 1
  <2>1. stack'[t] \in Seq(Activation) /\ l - 1 = Len(stack'[t])
    BY <1>3 DEF OneInv, IInv, TypeOK
  <2>2. l - 1 = 0 <=> l = 1
    BY <1>1
  <2> HIDE DEF l
  <2> QED
    BY <2>1, <2>2, EmptySeq
<1> HIDE DEF l
<1>6. InFlight = {} /\ InFlight' = {}
  <2>1. Flight(stack[t]) = {}
    BY <1>1 DEF Flight
  <2>2. Flight(stack'[t]) = {}
    <3>1. CASE l = 1
      BY <1>5, <3>1 DEF Flight
    <3>2. CASE l # 1
      <4>1. 1 \in 1..l - 1 /\ 1 + 1 \in 2..l
        BY <1>1, <3>2
      <4> QED
        BY <1>3, <1>4, <4>1 DEF Flight
    <3> QED
      BY <3>1, <3>2
  <2> QED
    BY <2>1, <2>2, OneFlight
<1>7. Present' = Present /\ InMap' = InMap
  BY <1>6 DEF Present, InMap
<1>8. /\ call[t] \in GetCall /\ call[t].answer = "pending" /\ call[t].name = stack[t][l].name
      /\ call[t].absent \/ call[t].name \in Present
      /\ DOMAIN call = Thread
  BY DEF CallsOK, CallOK, l
<1>9. CASE l = 1
  <2> DEFINE answer == IF found THEN "found" ELSE "null"
  <2>1. call' = [call EXCEPT ![t].answer = answer]
    BY <1>2, <1>5, <1>9 DEF Return
  <2>2. call[t].name = Top(t).name
    BY <1>1, <1>8, <1>9
  <2>3. ~Contract!Idle(t)
    BY <1>8 DEF Contract!Idle, GetCall
  <2>4. ContractStep
    <3>1. CASE found
      <4>1. Contract!ReturnFound(t)
        BY <1>7, <2>1, <2>2, <2>3, <3>1 DEF Contract!ReturnFound, Present
      <4> QED
        BY <4>1 DEF ContractStep, Contract!Next
    <3>2. CASE ~found
      <4>1. Contract!ReturnNull(t)
        BY <1>7, <1>8, <2>1, <2>2, <2>3, <3>2 DEF Contract!ReturnNull
      <4> QED
        BY <4>1 DEF ContractStep, Contract!Next
    <3> QED
      BY <3>1, <3>2
  <2>5. DOMAIN call' = Thread /\ call'[t].answer # "pending"
    <3>1. call'[t] = [call[t] EXCEPT !.answer = answer] /\ DOMAIN call' = Thread
      BY <1>8, <2>1
    <3>2. [call[t] EXCEPT !.answer = answer].answer = answer
      BY <1>8 DEF GetCall
    <3> QED
      BY <3>1, <3>2
  <2>6. CallsOK'
    BY <1>1, <1>5, <1>9, <2>5 DEF CallsOK, CallOK, Contract!Idle, Idle
  <2> QED
    BY <2>4, <2>6
<1>10. CASE l # 1
  <2>1. call' = call
    BY <1>2, <1>5, <1>10 DEF Return
  <2>2. l - 1 \in 1..l - 1 /\ (l - 1) + 1 = l
    BY <1>1, <1>10
  <2>3. stack'[t][Len(stack'[t])] = stack[t][l] /\ ~Idle(t)'
    BY <1>3, <1>5, <1>10, <2>2 DEF Idle
  <2> QED
    BY <1>7, <2>1, <2>3, ContractLoads DEF l
<1> QED
  BY <1>9, <1>10

\* The collection an activation has in its hands.
Held(a) == IF a.pc = "emplace" THEN {a.name} ELSE {}

\* The stack of a thread within doGet changes at the top only.
LEMMA BottomReplaced ==
  ASSUME OneInv, NEW t \in Thread, ~Idle(t), NEW a \in Activation, a.name = Top(t).name,
         stack' = [stack EXCEPT ![t] = <<a>> \o Tail(@)]
  PROVE  /\ ~Idle(t)' /\ stack'[t][Len(stack'[t])].name = stack[t][Len(stack[t])].name
         /\ Flight(stack'[t]) = Held(a)
<1> DEFINE l == Len(stack[t])
<1>1. l \in Nat /\ l >= 1 /\ Top(t) = stack[t][1] /\ Top(t).name \in Name
  BY TopOfStack DEF OneInv, IInv, TypeOK, Stacks, Activation
<1>2. /\ Len(stack'[t]) = l /\ stack'[t][1] = a /\ ~Idle(t)'
      /\ \A i \in 2..l : stack'[t][i] = stack[t][i]
  BY TopReplaced
<1> HIDE DEF l
<1>3. l = 1 \/ l \in 2..l
  BY <1>1
<1>4. stack'[t][l].name = stack[t][l].name
  BY <1>1, <1>2, <1>3
<1>5. Flight(stack'[t]) = Held(a)
  BY <1>1, <1>2 DEF Flight, Held, Idle
<1> QED
  BY <1>2, <1>4, <1>5 DEF l

\* The top of the stack moves on, and what is available stays.
LEMMA ContractMoves ==
  ASSUME OneInv, OneInv', OneThread, CallsOK, NEW t \in Thread, ~Idle(t), NEW a \in Activation,
         a.name = Top(t).name, stack' = [stack EXCEPT ![t] = <<a>> \o Tail(@)], call' = call,
         m_data \cup InMap \cup Held(Top(t)) = m_data' \cup InMap' \cup Held(a),
         InMap \subseteq InMap'
  PROVE  ContractStep /\ CallsOK'
<1>1. /\ ~Idle(t)' /\ stack'[t][Len(stack'[t])].name = stack[t][Len(stack[t])].name
      /\ Flight(stack'[t]) = Held(a)
  BY BottomReplaced
<1>2. Flight(stack[t]) = Held(Top(t))
  BY OneStack DEF Flight, Held, Idle
<1>3. Present' = Present
  BY <1>1, <1>2, OneFlight DEF Present
<1> QED
  BY <1>1, <1>3, ContractLoads

\* get records whether the collection is available.
LEMMA ContractCallGet ==
  ASSUME OneInv, OneInv', OneThread, CallsOK, NEW t \in Thread, NEW n \in GetNames, CallGet(t, n)
  PROVE  ContractStep /\ CallsOK'
<1> DEFINE b == Enter(n, TRUE)
           c == [op |-> "get", name |-> n, absent |-> n \notin Present, answer |-> "pending"]
<1>1. /\ Idle(t) /\ n \in Name /\ stack' = [stack EXCEPT ![t] = <<b>>] /\ call' = [call EXCEPT ![t] = c]
      /\ UNCHANGED <<m_data, m_collections>>
  BY NamesAssumption DEF CallGet
<1>2. b.name = n /\ b.pc = "lookup"
  BY DEF Enter
<1>3. c \in GetCall /\ c.answer = "pending" /\ c.name = n /\ (c.absent \/ n \in Present)
  BY <1>1 DEF GetCall
<1>4. Contract!Idle(t) /\ DOMAIN call = Thread /\ \A u \in Thread : u = t
  BY <1>1 DEF CallsOK, CallOK, OneThread
<1>5. stack'[t] = <<b>> /\ stack[t] = <<>>
  BY <1>1 DEF OneInv, IInv, TypeOK, Idle
<1> HIDE DEF b
<1>6. <<b>> # <<>> /\ Len(<<b>>) = 1 /\ <<b>>[1] = b
  OBVIOUS
<1>7. Flight(stack[t]) = {} /\ Flight(stack'[t]) = {}
  BY <1>2, <1>5, <1>6 DEF Flight
<1>8. Present' = Present /\ InMap' = InMap
  BY <1>1, <1>7, OneFlight DEF Present, InMap
<1>9. Contract!CallGet(t, n)
  BY <1>1, <1>4, <1>8 DEF Contract!CallGet
<1>10. ContractStep
  BY <1>1, <1>9 DEF ContractStep, Contract!Next
<1>11. CallsOK'
  <2>1. call'[t] = c /\ DOMAIN call' = Thread
    BY <1>1, <1>4
  <2> HIDE DEF c
  <2>2. ~Idle(t)' /\ stack'[t][Len(stack'[t])] = b
    BY <1>5, <1>6 DEF Idle
  <2> QED
    BY <1>2, <1>3, <1>4, <1>8, <2>1, <2>2 DEF CallsOK, CallOK
<1> QED
  BY <1>10, <1>11

\* What doGet finds in the map is available.
LEMMA ContractLookup ==
  ASSUME OneInv, OneInv', OneThread, CallsOK, NEW t \in Thread, Lookup(t)
  PROVE  ContractStep /\ CallsOK'
<1>1. ~Idle(t) /\ Top(t).pc = "lookup" /\ UNCHANGED <<m_data, m_collections>>
  BY DEF Lookup, At
<1>2. CASE Top(t).name \in InMap /\ Return(t, TRUE)
  BY <1>1, <1>2, ContractReturns
<1>3. CASE Goto(t, "unpack") /\ UNCHANGED call
  <2> DEFINE a == [Top(t) EXCEPT !.pc = "unpack"]
  <2>1. a \in Activation /\ a.name = Top(t).name /\ a.pc = "unpack"
    BY <1>1, OneStack DEF Activation, PC
  <2>2. stack' = [stack EXCEPT ![t] = <<a>> \o Tail(@)]
    BY <1>3 DEF Goto
  <2> HIDE DEF a
  <2>3. Held(a) = {} /\ Held(Top(t)) = {} /\ InMap' = InMap
    BY <1>1, <2>1 DEF Held, InMap
  <2> QED
    BY <1>1, <1>3, <2>1, <2>2, <2>3, ContractMoves
<1> QED
  BY <1>2, <1>3 DEF Lookup

\* Taking the buffers out, with the thread as the only one to look, leaves the
\* collection available; one that is not in the raw data is not there at all.
LEMMA ContractUnpack ==
  ASSUME OneInv, OneInv', OneThread, CallsOK, NEW t \in Thread, Unpack(t)
  PROVE  ContractStep /\ CallsOK'
<1>1. ~Idle(t) /\ Top(t).pc = "unpack" /\ UNCHANGED m_collections /\ InMap' = InMap
  BY DEF Unpack, At, InMap
<1>2. Top(t) \in Activation /\ ActivationOK(Top(t), m_collections, m_data, m_retrievedIDs)
  BY <1>1, OneStack
<1>3. CASE Top(t).name \in m_data /\ m_data' = TakeOut(Top(t).name) /\ Goto(t, "emplace") /\ UNCHANGED call
  <2> DEFINE a == [Top(t) EXCEPT !.pc = "emplace"]
  <2>1. a \in Activation /\ a.name = Top(t).name /\ a.pc = "emplace"
    BY <1>2 DEF Activation, PC
  <2>2. stack' = [stack EXCEPT ![t] = <<a>> \o Tail(@)]
    BY <1>3 DEF Goto
  <2> HIDE DEF a
  <2>3. Held(a) = {Top(t).name} /\ Held(Top(t)) = {}
    BY <1>1, <2>1 DEF Held
  <2>4. m_data \cup InMap \cup Held(Top(t)) = m_data' \cup InMap' \cup Held(a)
    BY <1>1, <1>3, <2>3 DEF TakeOut
  <2> QED
    BY <1>1, <1>3, <2>1, <2>2, <2>4, ContractMoves
<1>4. CASE Top(t).name \notin m_data /\ Return(t, FALSE) /\ UNCHANGED m_data
  <2>1. Top(t).name \notin InMap
    BY <1>1, <1>2 DEF ActivationOK, InMap
  <2>2. Top(t).name \notin InFlight
    BY <1>1 DEF OneThread, At, InFlight
  <2> QED
    BY <1>1, <1>4, <2>1, <2>2, ContractReturns DEF Present
<1> QED
  BY <1>3, <1>4 DEF Unpack

\* The collection gets into the map.
LEMMA ContractEmplace ==
  ASSUME OneInv, OneInv', OneThread, CallsOK, NEW t \in Thread, Emplace(t)
  PROVE  ContractStep /\ CallsOK'
<1> DEFINE n == Top(t).name
<1>1. ~Idle(t) /\ Top(t).pc = "emplace" /\ UNCHANGED m_data
  BY DEF Emplace, At
<1>2. Top(t) \in Activation /\ n \in Name /\ ActivationOK(Top(t), m_collections, m_data, m_retrievedIDs)
  BY <1>1, OneStack
<1>3. m_collections[n] = "absent" /\ Top(t).setReferences
  BY <1>1, <1>2 DEF ActivationOK
<1>4. m_collections' = [m_collections EXCEPT ![n] = Emplaced(@)] /\ Goto(t, "relations") /\ UNCHANGED call
  BY <1>3 DEF Emplace
<1> DEFINE a == [Top(t) EXCEPT !.pc = "relations"]
<1>5. a \in Activation /\ a.name = n /\ a.pc = "relations"
  BY <1>2 DEF Activation, PC
<1>6. stack' = [stack EXCEPT ![t] = <<a>> \o Tail(@)]
  BY <1>4 DEF Goto
<1> HIDE DEF a
<1>7. InMap' = InMap \cup {n}
  BY <1>2, <1>3, <1>4 DEF OneInv, IInv, TypeOK, InMap, Emplaced
<1>8. Held(Top(t)) = {n} /\ Held(a) = {}
  BY <1>1, <1>5 DEF Held
<1> QED
  BY <1>1, <1>4, <1>5, <1>6, <1>7, <1>8, ContractMoves

\* The steps of setReferences change nothing that user code can see.
LEMMA ContractResolveUnknown ==
  ASSUME OneInv, OneInv', OneThread, CallsOK, NEW t \in Thread, ResolveUnknown(t)
  PROVE  ContractStep /\ CallsOK'
<1>1. UNCHANGED <<m_data, m_collections, stack, call>> /\ ~Idle(t)
  BY DEF ResolveUnknown, MoreRelations, At
<1>2. Present' = Present /\ InMap' = InMap /\ ~Idle(t)'
  BY <1>1 DEF Present, InMap, InFlight, At, Idle, Top
<1> QED
  BY <1>1, <1>2, ContractLoads

LEMMA ContractResolveSeen ==
  ASSUME OneInv, OneInv', OneThread, CallsOK, NEW t \in Thread, ResolveSeen(t)
  PROVE  ContractStep /\ CallsOK'
<1> DEFINE b == Enter(NextTarget(t), FALSE)
           l == Len(stack[t])
<1>1. /\ stack' = [stack EXCEPT ![t] = <<b>> \o @] /\ NextTarget(t) \in m_retrievedIDs
      /\ UNCHANGED <<m_data, m_collections, call>>
  BY DEF ResolveSeen
<1>2. ~Idle(t) /\ Top(t).pc = "relations"
  BY DEF ResolveSeen, MoreRelations, At
<1>3. Top(t) = stack[t][1] /\ 1 \in 1..l /\ l \in Nat
  BY <1>2, OneStack
<1>4. b \in Activation /\ b.pc = "lookup"
  BY <1>1 DEF Enter, Activation, PC, OneInv, IInv, TypeOK
<1> HIDE DEF b
<1>5. /\ Len(stack'[t]) = l + 1 /\ stack'[t][1] = b /\ ~Idle(t)'
      /\ \A i \in 2..l + 1 : stack'[t][i] = stack[t][i - 1]
  BY <1>1, <1>2, <1>4, TopPushed
<1>6. Flight(stack[t]) = {} /\ Flight(stack'[t]) = {}
  BY <1>2, <1>3, <1>4, <1>5 DEF Flight
<1>7. Present' = Present /\ InMap' = InMap
  BY <1>1, <1>6, OneFlight DEF Present, InMap
<1>8. l + 1 \in 2..l + 1 /\ (l + 1) - 1 = l
  BY <1>3
<1>9. stack'[t][Len(stack'[t])] = stack[t][l]
  BY <1>5, <1>8
<1> QED
  BY <1>1, <1>2, <1>5, <1>7, <1>9, ContractLoads

LEMMA ContractResolveNew ==
  ASSUME OneInv, OneInv', OneThread, CallsOK, NEW t \in Thread, ResolveNew(t)
  PROVE  ContractStep /\ CallsOK'
<1> DEFINE a == [Top(t) EXCEPT !.pc = "insert", !.seen = m_retrievedIDs]
<1>1. /\ stack' = [stack EXCEPT ![t] = <<a>> \o Tail(@)] /\ ~Idle(t) /\ Top(t).pc = "relations"
      /\ UNCHANGED <<m_data, m_collections, call>>
  BY DEF ResolveNew, MoreRelations, At
<1>2. a \in Activation /\ a.pc = "insert" /\ a.name = Top(t).name
  BY <1>1, OneStack DEF Activation, PC, IInv, TypeOK
<1> HIDE DEF a
<1>3. Held(a) = {} /\ Held(Top(t)) = {} /\ InMap' = InMap
  BY <1>1, <1>2 DEF Held, InMap
<1> QED
  BY <1>1, <1>2, <1>3, ContractMoves

LEMMA ContractInsertID ==
  ASSUME OneInv, OneInv', OneThread, CallsOK, NEW t \in Thread, InsertID(t)
  PROVE  ContractStep /\ CallsOK'
<1> DEFINE l == Len(stack[t])
<1>1. ~Idle(t) /\ Top(t).pc = "insert" /\ UNCHANGED <<m_data, m_collections, call>>
  BY DEF InsertID, At
<1>2. Top(t) = stack[t][1] /\ 1 \in 1..l /\ l \in Nat
  BY <1>1, OneStack
<1>3. /\ Len(stack'[t]) = l + 1 /\ ~Idle(t)' /\ stack'[t][1] = Enter(NextTarget(t), TRUE)
      /\ stack'[t][2].name = Top(t).name /\ \A i \in 2..l : stack'[t][i + 1] = stack[t][i]
  BY InsertPushes
<1> HIDE DEF l
<1>4. Flight(stack[t]) = {} /\ Flight(stack'[t]) = {}
  BY <1>1, <1>2, <1>3 DEF Flight, Enter
<1>5. Present' = Present /\ InMap' = InMap
  BY <1>1, <1>4, OneFlight DEF Present, InMap
<1>6. stack'[t][l + 1].name = stack[t][l].name
  <2>1. (l = 1 /\ l + 1 = 2) \/ l \in 2..l
    BY <1>2
  <2> QED
    BY <1>2, <1>3, <2>1
<1> QED
  BY <1>1, <1>3, <1>5, <1>6, ContractLoads DEF l

\* doGet returns the collection whose references it has set.
LEMMA ContractRelationsDone ==
  ASSUME OneInv, OneInv', OneThread, CallsOK, NEW t \in Thread, RelationsDone(t)
  PROVE  ContractStep /\ CallsOK'
<1>1. ~Idle(t) /\ Top(t).pc = "relations" /\ Return(t, TRUE) /\ UNCHANGED <<m_data, m_collections>>
  BY DEF RelationsDone, At
<1>2. Top(t).name \in Name /\ ActivationOK(Top(t), m_collections, m_data, m_retrievedIDs)
  BY <1>1, OneStack
<1>3. Top(t).name \in InMap
  BY <1>1, <1>2 DEF ActivationOK, Setting, InMap
<1> QED
  BY <1>1, <1>3, ContractReturns

\* When the only thread is not in doGet, nothing is in its hands.
LEMMA OneIdle ==
  ASSUME OneThread, CallsOK, NEW t \in Thread, Idle(t)
  PROVE  /\ InFlight = {} /\ \A u \in Thread : u = t
         /\ Contract!Idle(t) /\ DOMAIN call = Thread
  BY DEF OneThread, CallsOK, CallOK, InFlight, At

\* put refuses nothing but names in the map.
LEMMA ContractPut ==
  ASSUME OneInv, OneThread, CallsOK, NEW t \in Thread, NEW n \in PutNames, Put(t, n)
  PROVE  ContractStep /\ CallsOK'
<1> DEFINE c == [op |-> "put", answer |-> "stored"]
<1>1. /\ Idle(t) /\ n \in Name /\ n \notin InMap /\ UNCHANGED <<m_data, stack>>
      /\ m_collections' = [m_collections EXCEPT ![n] = "user"] /\ call' = [call EXCEPT ![t] = c]
  BY NamesAssumption DEF Put
<1>2. InFlight = {} /\ Contract!Idle(t) /\ DOMAIN call = Thread /\ \A u \in Thread : u = t
  BY <1>1, OneIdle
<1>3. InFlight' = InFlight /\ Idle(t)'
  BY <1>1 DEF InFlight, At, Idle, Top
<1>4. InMap' = InMap \cup {n}
  BY <1>1 DEF OneInv, IInv, TypeOK, InMap
<1>5. Present' = Present \cup {n}
  BY <1>1, <1>3, <1>4 DEF Present
<1>6. Contract!PutNew(t, n)
  BY <1>1, <1>2, <1>4, <1>5 DEF Contract!PutNew
<1>7. ContractStep
  BY <1>1, <1>6 DEF ContractStep, Contract!Next
<1>8. call'[t] = c /\ DOMAIN call' = Thread
  BY <1>1, <1>2
<1> QED
  BY <1>2, <1>3, <1>7, <1>8 DEF CallsOK, CallOK, Contract!Idle

\* It refuses these.
LEMMA ContractPutThrows ==
  ASSUME OneInv, OneThread, CallsOK, NEW t \in Thread, NEW n \in PutNames, PutThrows(t, n)
  PROVE  ContractStep /\ CallsOK'
<1> DEFINE c == [op |-> "put", answer |-> "throws"]
<1>1. /\ Idle(t) /\ n \in Name /\ n \in InMap /\ UNCHANGED <<m_data, m_collections, stack>>
      /\ call' = [call EXCEPT ![t] = c]
  BY NamesAssumption DEF PutThrows
<1>2. Contract!Idle(t) /\ DOMAIN call = Thread /\ \A u \in Thread : u = t
  BY <1>1, OneIdle
<1>3. Present' = Present /\ InMap' = InMap /\ Idle(t)'
  BY <1>1 DEF Present, InMap, InFlight, At, Idle, Top
<1>4. Contract!PutTaken(t, n)
  BY <1>1, <1>2, <1>3 DEF Contract!PutTaken
<1>5. ContractStep
  BY <1>1, <1>4 DEF ContractStep, Contract!Next
<1>6. call'[t] = c /\ DOMAIN call' = Thread
  BY <1>1, <1>2
<1> QED
  BY <1>2, <1>3, <1>5, <1>6 DEF CallsOK, CallOK, Contract!Idle

\* The list is complete: nothing is in flight.
LEMMA ContractList ==
  ASSUME OneInv, OneThread, CallsOK, NEW t \in Thread, AvailableCollections(t)
  PROVE  ContractStep /\ CallsOK'
<1> DEFINE c == [op |-> "list", answer |-> m_data \cup InMap]
<1>1. /\ Idle(t) /\ UNCHANGED <<m_data, m_collections, stack>> /\ call' = [call EXCEPT ![t] = c]
  BY DEF AvailableCollections
<1>2. InFlight = {} /\ Contract!Idle(t) /\ DOMAIN call = Thread /\ \A u \in Thread : u = t
  BY <1>1, OneIdle
<1>3. Present' = Present /\ InMap' = InMap /\ Idle(t)' /\ Present = m_data \cup InMap
  BY <1>1, <1>2 DEF Present, InMap, InFlight, At, Idle, Top
<1>4. Contract!List(t)
  BY <1>1, <1>2, <1>3 DEF Contract!List
<1>5. ContractStep
  BY <1>4 DEF ContractStep, Contract!Next
<1>6. call'[t] = c /\ DOMAIN call' = Thread /\ c.op = "list"
  BY <1>1, <1>2
<1> QED
  BY <1>2, <1>3, <1>5, <1>6 DEF CallsOK, CallOK, Contract!Idle

\* A new Frame is one of the contract.
LEMMA ContractStarts == Init => Contract!Init /\ CallsOK
<1> SUFFICES ASSUME Init PROVE Contract!Init /\ CallsOK
  OBVIOUS
<1>1. InFlight = {} /\ \A t \in Thread : Idle(t)
  BY DEF Init, InFlight, At, Idle
<1>2. InMap = {}
  BY DEF Init, InMap
<1>3. Contract!Init
  BY <1>1, <1>2 DEF Init, Contract!Init, Contract!NoCall, Present
<1>4. CallsOK
  BY <1>1 DEF Init, CallsOK, CallOK, Contract!Idle
<1> QED
  BY <1>3, <1>4

\* Every step of a Frame that one thread uses is one of the contract.
LEMMA ContractSteps == OneThread /\ OneInv /\ OneInv' /\ CallsOK /\ [Next]_vars => ContractStep /\ CallsOK'
<1> SUFFICES ASSUME OneThread, OneInv, OneInv', CallsOK, [Next]_vars PROVE ContractStep /\ CallsOK'
  OBVIOUS
<1>1. ASSUME NEW t \in Thread, Step(t) PROVE ContractStep /\ CallsOK'
  BY <1>1, ContractLookup, ContractUnpack, ContractEmplace, ContractResolveUnknown, ContractResolveSeen,
     ContractResolveNew, ContractInsertID, ContractRelationsDone DEF Step
<1>2. ASSUME NEW t \in Thread, NEW n \in GetNames, CallGet(t, n) PROVE ContractStep /\ CallsOK'
  BY <1>2, ContractCallGet
<1>3. ASSUME NEW t \in Thread, NEW n \in PutNames, Put(t, n) PROVE ContractStep /\ CallsOK'
  BY <1>3, ContractPut
<1>4. ASSUME NEW t \in Thread, NEW n \in PutNames, PutThrows(t, n) PROVE ContractStep /\ CallsOK'
  BY <1>4, ContractPutThrows
<1>5. ASSUME NEW t \in Thread, AvailableCollections(t) PROVE ContractStep /\ CallsOK'
  BY <1>5, ContractList
<1>6. CASE UNCHANGED vars
  <2>1. UNCHANGED <<Present, InMap, call>> /\ UNCHANGED stack
    BY <1>6 DEF vars, Present, InMap, InFlight, At, Idle, Top
  <2> QED
    BY <2>1 DEF ContractStep, Contract!vars, CallsOK, CallOK, Idle, Contract!Idle
<1> QED
  BY <1>1, <1>2, <1>3, <1>4, <1>5, <1>6 DEF Next

\* A Frame that one thread uses is what Frame.h promises: get finds what is
\* available and nothing else, put refuses what is in the map only, and the
\* list is complete.  (That every get returns is left to TLC.)
THEOREM OneThreadImplements == OneThread => (Spec => Contract!Spec)
<1>1. OneThread => OneThread'
  BY DEF OneThread
<1> QED
  BY <1>1, ContractStarts, ContractSteps, OneInvariance, PTL DEF Spec, Contract!Spec, ContractStep
=============================================================================
