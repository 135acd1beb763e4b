--------------------------- MODULE LinkCollection ---------------------------
(***************************************************************************)
(* A collection of links between objects of other collections, a subset    *)
(* collection of these links (include/podio/detail/Link.h, LinkObj.h,      *)
(* LinkCollectionImpl.h, LinkCollectionData.h) and the LinkNavigator that  *)
(* looks links up in both directions (include/podio/LinkNavigator.h).      *)
(*                                                                         *)
(* User code makes links, related to objects that are in a collection or   *)
(* not yet, collects them, prepares the collections for writing, and reads *)
(* them back in a Frame that may lack the collections they refer to; what  *)
(* was read can be changed and written again.  The subset collection has   *)
(* been made one while it was new: CollectionStorage.tla has the changes   *)
(* between the two kinds, which the two implementations share.             *)
(***************************************************************************)
EXTENDS Integers, Sequences, FiniteSets, SequencesExt

CONSTANTS
    Link,    \* the LinkObjs
    From,    \* the objects links can start from
    To,      \* the objects links can lead to
    Weight,  \* the weights of links
    Default, \* the weight of a new link
    MaxLen,  \* bound: the links user code adds to the subset collection
    Null     \* a nullptr

ASSUME LinkAssumption ==
    /\ Null \notin Link \cup From \cup To
    /\ IsFiniteSet(Link)
    /\ MaxLen \in Nat
    /\ Default \in Weight

VARIABLES
    obj,     \* per LinkObj: its memory, id, weight, m_from and m_to
    placed,  \* the related objects that are in a collection with an ID
    coll,    \* the link collection and its buffers
    subset,  \* the subset collection and its buffer
    wild,    \* an element that is not there was used
    written, \* history: what the two collections were prepared with
    late,    \* history: the collection got links after that
    fresh    \* history: nothing has changed since the collections were read

linkVars == <<obj, placed, coll, subset, wild, written, late, fresh>>

untracked == -1

\* LinkObj(): the id is untracked, there are no relations.
NewObj == [memory |-> "live", index |-> untracked, hasID |-> FALSE,
           weight |-> Default, from |-> Null, to |-> Null]

NoObj == [NewObj EXCEPT !.memory = "none"]

\* LinkCollection()
NewColl == [here |-> TRUE, hasID |-> FALSE, prepared |-> FALSE, entries |-> <<>>,
            data |-> <<>>, from |-> <<>>, to |-> <<>>]

\* makeSubsetCollection of a new collection: one vector of ObjectIDs is left.
NewSubset == [prepared |-> FALSE, entries |-> <<>>, refs |-> <<>>]

LinkInit ==
    /\ obj = [l \in Link |-> NoObj]
    /\ placed = {}
    /\ coll = NewColl
    /\ subset = NewSubset
    /\ wild = FALSE
    /\ written = [coll |-> <<>>, subset |-> <<>>]
    /\ late = FALSE
    /\ fresh = FALSE

-----------------------------------------------------------------------------
\* getObjectID of a related object; that of an object in no collection, or in
\* one without an ID, leads nowhere.
ObjectID(x) ==
    IF x = Null THEN <<"invalid">>
    ELSE IF x \in placed THEN <<"object", x>>
    ELSE <<"untracked">>

\* The ObjectID of a link.
LinkID(l) == IF obj[l].hasID THEN <<"link", obj[l].index>> ELSE <<"untracked">>

Live(l) == obj[l].memory = "live"
Tracked(l) == obj[l].index # untracked

\* What user code has in the collection, with the ObjectIDs it refers to.
Row(l) == [weight |-> obj[l].weight, from |-> ObjectID(obj[l].from),
           to |-> ObjectID(obj[l].to)]
Rows == [i \in 1..Len(coll.entries) |-> Row(coll.entries[i])]

\* The LinkObj changes, after it may have been written.
SetObj(l, o) ==
    /\ obj' = [obj EXCEPT ![l] = o]
    /\ fresh' = FALSE
    /\ UNCHANGED <<placed, coll, subset, wild, written, late>>

\* MutableLink()
MakeLink(l) ==
    /\ obj[l] = NoObj
    /\ SetObj(l, NewObj)

\* clone(cloneRelations): a link outside of collections.
Clone(l, k, cloneRelations) ==
    /\ Live(l)
    /\ obj[k] = NoObj
    /\ SetObj(k, [NewObj EXCEPT
                     !.weight = obj[l].weight,
                     !.from = IF cloneRelations THEN obj[l].from ELSE Null,
                     !.to = IF cloneRelations THEN obj[l].to ELSE Null])

SetFrom(l, x) ==
    /\ Live(l)
    /\ SetObj(l, [obj[l] EXCEPT !.from = x])

SetTo(l, x) ==
    /\ Live(l)
    /\ SetObj(l, [obj[l] EXCEPT !.to = x])

\* set, which picks the setter of the type of the object, or the setters
SetRelation(l, x) ==
    \/ x \in From /\ SetFrom(l, x)
    \/ x \in To /\ SetTo(l, x)

SetWeight(l, w) ==
    /\ Live(l)
    /\ SetObj(l, [obj[l] EXCEPT !.weight = w])

\* The collection of a related object is put into the Frame.
Place(x) ==
    /\ x \notin placed
    /\ placed' = placed \cup {x}
    /\ fresh' = FALSE
    /\ UNCHANGED <<obj, coll, subset, wild, written, late>>

\* The collection takes the LinkObj under the next index.
Take(l, o) ==
    /\ coll.here
    /\ obj' = [obj EXCEPT ![l] = [o EXCEPT !.index = Len(coll.entries),
                                           !.hasID = coll.hasID]]
    /\ coll' = [coll EXCEPT !.entries = Append(@, l)]
    /\ late' = (late \/ coll.prepared)
    /\ fresh' = FALSE
    /\ UNCHANGED <<placed, subset, wild, written>>

\* create; a subset collection throws.
CreateLink(l) ==
    /\ obj[l] = NoObj
    /\ Take(l, NewObj)

\* push_back of a link that is in no collection; others throw.
PushBackLink(l) ==
    /\ Live(l)
    /\ ~Tracked(l)
    /\ Take(l, obj[l])

\* push_back of a subset collection, which only takes tracked links.
PushBackTracked(l) ==
    /\ Live(l)
    /\ Tracked(l)
    /\ Len(subset.entries) < MaxLen
    /\ subset' = [subset EXCEPT !.entries = Append(@, l)]
    /\ fresh' = FALSE
    /\ UNCHANGED <<obj, placed, coll, wild, written, late>>

\* Mutant: the links keep their ObjectIDs.
NotRenamed(o) == o

\* The loop of setID.
Renamed(o) == [o EXCEPT !.hasID = TRUE]

\* setID: the collection is put into a Frame.
SetID ==
    /\ coll.here
    /\ ~coll.hasID
    /\ coll' = [coll EXCEPT !.hasID = TRUE]
    /\ obj' = [l \in Link |-> IF l \in Range(coll.entries) THEN Renamed(obj[l])
                              ELSE obj[l]]
    /\ UNCHANGED <<placed, subset, wild, written, late, fresh>>

\* clear of the storage, and of the flag
Cleared(c) ==
    [c EXCEPT !.prepared = FALSE, !.entries = <<>>, !.data = <<>>,
              !.from = <<>>, !.to = <<>>]

\* clear deletes the links; user code does not keep them in the subset.
ClearLinks ==
    /\ coll.here
    /\ Range(subset.entries) \cap Range(coll.entries) = {}
    /\ coll' = Cleared(coll)
    /\ obj' = [l \in Link |-> IF l \in Range(coll.entries)
                              THEN [NoObj EXCEPT !.memory = "deleted"] ELSE obj[l]]
    /\ written' = [written EXCEPT !.coll = <<>>]
    /\ late' = FALSE
    /\ fresh' = FALSE
    /\ UNCHANGED <<placed, subset, wild>>

\* clear of a subset collection deletes no links.
ClearSubset ==
    /\ subset' = NewSubset
    /\ written' = [written EXCEPT !.subset = <<>>]
    /\ fresh' = FALSE
    /\ UNCHANGED <<obj, placed, coll, wild, late>>

\* prepareForWrite: the weights are appended to the data buffer, which is not
\* emptied first, the ObjectIDs of the relations replace the earlier ones.
Prepare ==
    /\ coll.here
    /\ ~coll.prepared
    /\ coll' = [coll EXCEPT
                   !.prepared = TRUE,
                   !.data = @ \o [i \in 1..Len(Rows) |-> Rows[i].weight],
                   !.from = [i \in 1..Len(Rows) |-> Rows[i].from],
                   !.to = [i \in 1..Len(Rows) |-> Rows[i].to]]
    /\ written' = [written EXCEPT !.coll = Rows]
    /\ UNCHANGED <<obj, placed, subset, wild, late, fresh>>

\* prepareForWrite of the subset collection
PrepareSubset ==
    /\ ~subset.prepared
    /\ subset' = [subset EXCEPT
                     !.prepared = TRUE,
                     !.refs = [i \in 1..Len(subset.entries) |-> LinkID(subset.entries[i])]]
    /\ written' = [written EXCEPT !.subset = subset'.refs]
    /\ UNCHANGED <<obj, placed, coll, wild, late, fresh>>

-----------------------------------------------------------------------------
\* Mutant: a missing collection does not stop the look-up.
FirstResolved(id, available) == IF id[1] = "object" THEN id[2] ELSE Null

\* setReferences of a link (addSingleRelation): the object behind the
\* ObjectID, or a nullptr if its collection cannot be had.
Resolved(id, available) ==
    IF id[1] = "object" /\ id[2] \in available THEN id[2] ELSE Null

LinkOrder == SetToSeq(Link)

\* The LinkObjs of the new collection.
NewLinks == SubSeq(LinkOrder, 1, Len(coll.data))

\* prepareAfterRead, setID and setReferences of row i of the buffers
ReadRow(i, available) ==
    [NewObj EXCEPT !.index = i - 1, !.hasID = TRUE, !.weight = coll.data[i],
                   !.from = Resolved(coll.from[i], available),
                   !.to = Resolved(coll.to[i], available)]

\* The collections are written and then read in a Frame that has some of the
\* related objects, with or without the link collection: a subset refers to
\* a nullptr in its place.  Reading keeps the buffers, and they stay prepared.
Written ==
    /\ coll.here => coll.prepared /\ coll.hasID
    /\ subset.prepared

\* setReferences of a subset collection takes the index as it is.
InRange ==
    \A id \in Range(subset.refs) \ {<<"untracked">>} : id[2] < Len(coll.data)

ReadBack(available, here) ==
    /\ Written
    /\ IF here THEN coll.here /\ InRange ELSE TRUE
    /\ placed' = available
    /\ obj' = [l \in Link |->
                  IF here /\ l \in Range(NewLinks)
                  THEN ReadRow(CHOOSE i \in 1..Len(NewLinks) : NewLinks[i] = l, available)
                  ELSE NoObj]
    /\ coll' = [coll EXCEPT !.here = here,
                            !.entries = IF here THEN NewLinks ELSE <<>>]
    /\ subset' = [subset EXCEPT !.entries =
                     [i \in 1..Len(subset.refs) |->
                        IF here /\ subset.refs[i][1] = "link"
                        THEN NewLinks[subset.refs[i][2] + 1] ELSE Null]]
    /\ fresh' = TRUE
    /\ late' = FALSE
    /\ UNCHANGED <<wild, written>>

\* The link at an index of the subset was not in the collection yet when it
\* was prepared.
ReadBackWild ==
    /\ Written
    /\ coll.here
    /\ ~InRange
    /\ wild' = TRUE
    /\ UNCHANGED <<obj, placed, coll, subset, written, late, fresh>>

LinkNext ==
    /\ ~wild
    /\ \/ \E l \in Link :
             \/ MakeLink(l)
             \/ \E k \in Link, cloneRelations \in BOOLEAN : Clone(l, k, cloneRelations)
             \/ \E x \in From \cup To : SetRelation(l, x)
             \/ \E w \in Weight : SetWeight(l, w)
             \/ CreateLink(l)
             \/ PushBackLink(l)
             \/ PushBackTracked(l)
       \/ \E x \in From \cup To : Place(x)
       \/ SetID
       \/ ClearLinks
       \/ ClearSubset
       \/ Prepare
       \/ PrepareSubset
       \/ \E available \in SUBSET placed, here \in BOOLEAN : ReadBack(available, here)
       \/ ReadBackWild

LinkSpec == LinkInit /\ [][LinkNext]_linkVars

-----------------------------------------------------------------------------
\* Mutant: only one link per object is kept.
EmplacedOnce(multimap, key, value) ==
    IF multimap[key] # <<>> THEN multimap ELSE [multimap EXCEPT ![key] = <<value>>]

\* std::multimap::emplace: behind the values the key has already.
Emplaced(multimap, key, value) == [multimap EXCEPT ![key] = Append(@, value)]

\* getFrom and getTo answer an empty handle for a relation that is not set.
GetFrom(l) == obj[l].from
GetTo(l) == obj[l].to

\* get<0>, get<1> and get<2>, for auto [from, to, weight] = link
Bound(l) == [from |-> GetFrom(l), to |-> GetTo(l), weight |-> obj[l].weight]

\* One link in the constructor of the LinkNavigator.
AddLink(nav, l) ==
    LET b == Bound(l) IN
    [from2to |-> Emplaced(nav.from2to, b.from, <<b.to, b.weight>>),
     to2from |-> Emplaced(nav.to2from, b.to, <<b.from, b.weight>>)]

\* LinkNavigator(links)
LinkNavigator(links) ==
    FoldLeft(AddLink, [from2to |-> [x \in From \cup {Null} |-> <<>>],
                       to2from |-> [x \in To \cup {Null} |-> <<>>]], links)

\* getLinked(object, ReturnTo) and (object, ReturnFrom)
GetLinkedTo(nav, x) == nav.from2to[x]
GetLinkedFrom(nav, x) == nav.to2from[x]

-----------------------------------------------------------------------------
Times(s, v) == Cardinality({i \in 1..Len(s) : s[i] = v})

\* The types of the links and collections; the links of the collection are
\* alive, numbered by their position and have its ID, which is what subset
\* collections write of them.
LinksNumbered ==
    /\ obj \in [Link -> [memory : {"none", "live", "deleted"},
                         index : Nat \cup {untracked}, hasID : BOOLEAN, weight : Weight,
                         from : From \cup {Null}, to : To \cup {Null}]]
    /\ placed \subseteq From \cup To
    /\ coll.entries \in Seq(Link)
    /\ subset.entries \in Seq(Link \cup {Null})
    /\ \A i \in 1..Len(coll.entries) :
          LET o == obj[coll.entries[i]] IN
          o.memory = "live" /\ o.index = i - 1 /\ o.hasID = coll.hasID

\* What is read is what the collections were prepared with: the same links in
\* the same order, each related to the same objects as far as their
\* collections are there, and to none of the others; and the subset refers to
\* the same links of the collection that was read with it.  It only refers
\* behind the end of that collection, where it is not read, if the collection
\* got links after it had been prepared.
RoundTrip ==
    /\ wild => late
    /\ fresh =>
          /\ coll.here =>
                /\ Len(coll.entries) = Len(written.coll)
                /\ \A i \in 1..Len(written.coll) :
                      LET o == obj[coll.entries[i]]
                          w == written.coll[i]
                          There(id) == id[1] = "object" /\ id[2] \in placed
                      IN /\ o.weight = w.weight
                         /\ IF There(w.from) THEN w.from = <<"object", o.from>> ELSE o.from = Null
                         /\ IF There(w.to) THEN w.to = <<"object", o.to>> ELSE o.to = Null
          /\ Len(subset.entries) = Len(written.subset)
          /\ \A i \in 1..Len(written.subset) :
                LET id == written.subset[i]
                    l == subset.entries[i]
                IN IF coll.here /\ id[1] = "link"
                   THEN l \in Range(coll.entries) /\ LinkID(l) = id
                   ELSE l = Null

\* A link that is found from its one end is found from its other end as
\* often, with the same weight, and as often as it is in the collection; also
\* links without an object at an end.
NavigatorInverse ==
    \A links \in {coll.entries} \cup {s \in {subset.entries} : Null \notin Range(s)} :
       LET nav == LinkNavigator(links) IN
       \A f \in From \cup {Null}, t \in To \cup {Null}, w \in Weight :
          LET n == Cardinality({i \in 1..Len(links) :
                      LET o == obj[links[i]] IN o.from = f /\ o.to = t /\ o.weight = w})
          IN /\ Times(GetLinkedTo(nav, f), <<t, w>>) = n
             /\ Times(GetLinkedFrom(nav, t), <<f, w>>) = n
=============================================================================
