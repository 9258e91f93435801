------------------------------ MODULE ChildList ------------------------------
(***************************************************************************)
(* The child list of etree's _Element and every call that edits it.  The   *)
(* native tree knows only sibling chains: elements and text nodes in one   *)
(* list.  The Python layer presents that chain as a list of elements, the  *)
(* text before the first one as .text and the text after each as its       *)
(* .tail, and has to move a tail with its element through a sequence of    *)
(* native detaches and inserts relative to other nodes.                    *)
(*                                                                         *)
(* Elements are abstracted to leaves: what an element contains plays no    *)
(* part when it moves.  A tail may be several nodes (CDATA kept by the     *)
(* parser, or tails brought together by addnext).  A move across documents *)
(* (_clone_into_self) has the same effect here, as its wrappers follow the *)
(* clone: module ProxyCache shows that part.                               *)
(***************************************************************************)
EXTENDS PyList, Lists, FiniteSets

CONSTANTS
  Parent,   \* elements whose child lists are edited
  Elem,     \* elements that are moved between them
  Text,     \* native text and CDATA nodes
  NoNode,   \* Python's None for a node
  MaxNew    \* bound on the elements one slice assignment or extend brings

ASSUME ChildListAssumption ==
  /\ Elem \cap Text = {} /\ NoNode \notin Elem \cup Text /\ MaxNew \in Nat

VARIABLE kids   \* kids[p]: the sibling chain under p

Chain == Seq(Elem \cup Text)

-----------------------------------------------------------------------------
(* Native tree operations of the uppsala crate, as the code uses them.  An *)
(* insert detaches its node first; the case of a reference that is not a   *)
(* child is outside their contract, and taken to leave the node detached.  *)

Pos(s, n) == CHOOSE i \in DOMAIN s : s[i] = n

Homes(k, n) == {p \in Parent : n \in ToSet(k[p])}

DetachAll(k, nodes) == [p \in Parent |-> NotIn(k[p], nodes)]

AppendChild(k, p, n) == [DetachAll(k, {n}) EXCEPT ![p] = Append(@, n)]

InsertCopyBefore(k, p, n, ref) ==
  IF p \in Homes(k, ref) THEN [k EXCEPT ![p] = InsertAt(@, Pos(@, ref), n)] ELSE k

InsertBefore(k, p, n, ref) ==
  LET d == DetachAll(k, {n})
  IN  IF p \in Homes(d, ref) THEN [d EXCEPT ![p] = InsertAt(@, Pos(@, ref), n)] ELSE d

InsertAfter(k, p, n, ref) ==
  LET d == DetachAll(k, {n})
  IN  IF p \in Homes(d, ref) THEN [d EXCEPT ![p] = InsertAt(@, Pos(@, ref) + 1, n)] ELSE d

-----------------------------------------------------------------------------
(* Text runs, and the two helpers every edit is made of.                   *)

(* The adjacent text nodes that start right after position i of chain s.   *)
TextRunAfter(s, i) ==
  LET stops == {j \in (i + 1)..Len(s) : s[j] \notin Text}
      end   == IF stops = {} THEN Len(s) ELSE Min(stops) - 1
  IN  SubSeq(s, i + 1, end)

TailRun(k, e) ==
  IF Homes(k, e) = {} THEN <<>>
  ELSE LET s == k[CHOOSE p \in Homes(k, e) : TRUE] IN TextRunAfter(s, Pos(s, e))

ExtractOneText(k, e) ==
  LET run == TailRun(k, e)
  IN  DetachAll(k, IF run = <<>> THEN {e} ELSE {e, Head(run)})

Extract(k, e) == DetachAll(k, {e} \cup ToSet(TailRun(k, e)))

AttachTail(k, p, tail, after) ==
  FoldLeft(LAMBDA acc, t : [k |-> InsertAfter(acc.k, p, t, acc.ref), ref |-> t],
           [k |-> k, ref |-> after], tail).k

Attach(k, p, e, tail, ref) ==
  AttachTail(IF ref = NoNode THEN AppendChild(k, p, e) ELSE InsertBefore(k, p, e, ref),
             p, tail, e)

ContentChildren(s) == NotIn(s, Text)

IsChild(k, p, e) == p \in Homes(k, e)

-----------------------------------------------------------------------------
(* The calls, as functions of the chains they start from.                  *)

AppendTo(k, p, e) == Attach(Extract(k, e), p, e, TailRun(k, e), NoNode)

ExtendBy(k, p, els) == FoldLeft(LAMBDA acc, e : AppendTo(acc, p, e), k, els)

NegativeToFront(index, n) == IF index < 0 THEN 0 ELSE index

(* The index is read against the list the element has already left.        *)
InsertIndex(index, n) == LET i == IF index < 0 THEN index + n ELSE index
                         IN  IF i < 0 THEN 0 ELSE i

InsertIn(k, p, index, e) ==
  LET now == ContentChildren(Extract(k, e)[p])
      i   == InsertIndex(index, Len(now))
  IN  Attach(Extract(k, e), p, e, TailRun(k, e),
             IF i < Len(now) THEN now[i + 1] ELSE NoNode)

ReplaceReadingTailLate(k, p, old, e) ==
  LET k1 == InsertBefore(Extract(k, e), p, e, old)
  IN  AttachTail(Extract(k1, old), p, TailRun(Extract(k, e), e), e)

(* replace(old, new) and el[i] = new: the new child goes in front of the   *)
(* old one, which then leaves with its tail; the new one's tail comes last.*)
ReplaceIn(k, p, old, e) ==
  AttachTail(Extract(InsertBefore(Extract(k, e), p, e, old), old),
             p, TailRun(k, e), e)

SetItem(k, p, index, e) == ReplaceIn(k, p, ContentChildren(k[p])[index + 1], e)

(* Adopt every new element before any target is touched.                   *)
AdoptAll(k, els) ==
  FoldLeft(LAMBDA acc, e : [k     |-> Extract(acc.k, e),
                            tails |-> Append(acc.tails, TailRun(acc.k, e))],
           [k |-> k, tails |-> <<>>], els)

ExtractAll(k, seq) == FoldLeft(Extract, k, seq)

PlaceAll(k, p, els, tails, anchors) ==
  FoldLeft(LAMBDA acc, j : Attach(acc, p, els[j], tails[j], anchors[j]),
           k, [j \in DOMAIN els |-> j])

FirstOr(seq, default) == IF seq = <<>> THEN default ELSE Head(seq)

From(seq, i) == SubSeq(seq, i + 1, Len(seq))

SpliceSliceMovingAnchor(k, p, start, stop, els) ==
  LET now     == ContentChildren(k[p])
      adopted == AdoptAll(k, els)
      cut     == ExtractAll(adopted.k, NotIn(SubSeq(now, start + 1, stop), ToSet(els)))
      anchor  == FirstOr(From(now, stop), NoNode)
  IN  PlaceAll(cut, p, els, adopted.tails, [j \in DOMAIN els |-> anchor])

(* el[start:stop] = els, the bounds normalised by slice.indices.           *)
SpliceSlice(k, p, start, stop, els) ==
  LET now     == ContentChildren(k[p])
      adopted == AdoptAll(k, els)
      cut     == ExtractAll(adopted.k, NotIn(SubSeq(now, start + 1, stop), ToSet(els)))
      stay    == NotIn(NotIn(From(now, stop), ToSet(els)),
                       {n \in Elem : ~IsChild(cut, p, n)})
      anchor  == FirstOr(stay, NoNode)
  IN  PlaceAll(cut, p, els, adopted.tails, [j \in DOMAIN els |-> anchor])

SlotAnchorsAmongMoved(k, p, slots, els) ==
  LET now     == ContentChildren(k[p])
      targets == {now[slots[j] + 1] : j \in DOMAIN slots}
  IN  [j \in DOMAIN slots |-> FirstOr(NotIn(From(now, slots[j] + 1), targets), NoNode)]

(* The anchor of every slot of an extended slice: the first child after it *)
(* that is neither a target nor about to move.                             *)
SlotAnchors(k, p, slots, els) ==
  LET now     == ContentChildren(k[p])
      targets == {now[slots[j] + 1] : j \in DOMAIN slots}
      reused  == {e \in ToSet(els) : IsChild(k, p, e)}
  IN  [j \in DOMAIN slots |->
         FirstOr(NotIn(From(now, slots[j] + 1), targets \cup reused), NoNode)]

(* el[start:stop:step] = els with step # 1; slots is what range yields.    *)
AssignSlots(k, p, slots, els) ==
  LET now     == ContentChildren(k[p])
      targets == [j \in DOMAIN slots |-> now[slots[j] + 1]]
      adopted == AdoptAll(k, els)
      cut     == ExtractAll(adopted.k, NotIn(targets, ToSet(els)))
  IN  PlaceAll(cut, p, els, adopted.tails, SlotAnchors(k, p, slots, els))

PutAfter(k, p, self, e) ==
  AttachTail(InsertAfter(Extract(k, e), p, e, self), p, TailRun(k, e), e)

PutBefore(k, p, self, e) ==
  AttachTail(InsertBefore(Extract(k, e), p, e, self), p, TailRun(k, e), e)

(* .text = value: the first node of the run is reused, the rest removed;   *)
(* t is the node created when there is none.                               *)
SetText(k, p, t) ==
  LET run == TextRunAfter(k[p], 0)
  IN  IF run # <<>> THEN DetachAll(k, ToSet(Tail(run)))
      ELSE IF k[p] = <<>> THEN AppendChild(k, p, t)
      ELSE InsertBefore(k, p, t, Head(k[p]))

DropText(k, p) == DetachAll(k, ToSet(TextRunAfter(k[p], 0)))

SetTailKeepingRest(k, e, t) ==
  IF TailRun(k, e) # <<>> \/ Homes(k, e) = {} THEN k
  ELSE InsertAfter(k, CHOOSE p \in Homes(k, e) : TRUE, t, e)

(* .tail = value; a detached element cannot host a tail.                   *)
SetTail(k, e, t) ==
  LET run == TailRun(k, e)
  IN  IF run # <<>> THEN DetachAll(k, ToSet(Tail(run)))
      ELSE IF Homes(k, e) = {} THEN k
      ELSE InsertAfter(k, CHOOSE p \in Homes(k, e) : TRUE, t, e)

DropTail(k, e) == DetachAll(k, ToSet(TailRun(k, e)))

(* clear() of a parent detaches every child; of a leaf, unless the tail is *)
(* kept, the text that follows it.                                         *)
ClearChildren(k, p) == [k EXCEPT ![p] = <<>>]

-----------------------------------------------------------------------------
(* range(start, stop, step), as the selection slice.indices describes.     *)
RangeSeq(start, stop, step) ==
  LET span  == IF step > 0 THEN stop - start ELSE start - stop
      width == IF step > 0 THEN step ELSE -step
      count == IF span > 0 THEN (span + width - 1) \div width ELSE 0
  IN  [j \in 1..count |-> start + (j - 1) * step]

Sizes(p) == 0..Len(ContentChildren(kids[p]))

Placed == {e \in Elem : Homes(kids, e) # {}}

Fresh == {t \in Text : Homes(kids, t) = {}}

NewElements == UNION {[1..n -> Elem] : n \in 0..MaxNew}

Steps == {-2, -1, 2, 3}

Selections(p) ==
  {RangeSeq(start, stop, step) : start \in Sizes(p), stop \in Sizes(p), step \in {1, 2, 3}}
    \cup {RangeSeq(start - 1, stop - 1, step) :
            start \in Sizes(p), stop \in Sizes(p), step \in {-1, -2}}

-----------------------------------------------------------------------------
Init == kids = [p \in Parent |-> <<>>]

Append_(p, e) == kids' = AppendTo(kids, p, e)

Extend(p, els) == kids' = ExtendBy(kids, p, els)

Insert(p, index, e) == kids' = InsertIn(kids, p, index, e)

Remove_(p, e) == IsChild(kids, p, e) /\ kids' = Extract(kids, e)

Replace(p, old, e) ==
  /\ IsChild(kids, p, old)
  /\ old # e
  /\ kids' = ReplaceIn(kids, p, old, e)

SetSlice(p, start, stop, els) == kids' = SpliceSlice(kids, p, start, stop, els)

(* Sizes that differ raise ValueError before anything is touched.          *)
SetExtendedSlice(p, slots, els) ==
  /\ Len(slots) = Len(els)
  /\ kids' = AssignSlots(kids, p, slots, els)

DelItems(p, slots) ==
  kids' = ExtractAll(kids, [j \in DOMAIN slots |-> ContentChildren(kids[p])[slots[j] + 1]])

(* Both raise TypeError for an element without a parent.                   *)
AddNext(p, self, e) ==
  IsChild(kids, p, self) /\ self # e /\ kids' = PutAfter(kids, p, self, e)

AddPrevious(p, self, e) ==
  IsChild(kids, p, self) /\ self # e /\ kids' = PutBefore(kids, p, self, e)

AssignText(p, t) == kids' = SetText(kids, p, t)

AssignTail(e, t) == kids' = SetTail(kids, e, t)

DeleteText(p) == kids' = DropText(kids, p)

(* .tail = None, and what clear() does to a leaf.                          *)
DeleteTail(e) == kids' = DropTail(kids, e)

Clear(p) == kids' = ClearChildren(kids, p)

Next ==
  \/ \E p \in Parent, e \in Elem :
       \/ Append_(p, e)
       \/ Remove_(p, e)
       \/ \E index \in -(Cardinality(Elem) + 1)..(Cardinality(Elem) + 1) : Insert(p, index, e)
       \/ \E other \in Elem : \/ Replace(p, other, e)
                              \/ AddNext(p, other, e)
                              \/ AddPrevious(p, other, e)
  \/ \E p \in Parent, els \in NewElements :
       \/ Extend(p, els)
       \/ \E start, stop \in Sizes(p) : SetSlice(p, start, stop, els)
       \/ \E slots \in Selections(p) : SetExtendedSlice(p, slots, els)
  \/ \E p \in Parent : \/ \E slots \in Selections(p) : DelItems(p, slots)
                       \/ \E t \in Fresh : AssignText(p, t)
                       \/ DeleteText(p)
                       \/ Clear(p)
  \/ \E e \in Elem : \/ \E t \in Fresh : AssignTail(e, t)
                     \/ DeleteTail(e)

Spec == Init /\ [][Next]_kids

-----------------------------------------------------------------------------
(* How the etree layer presents the chains: .text, and the children each   *)
(* with its .tail.                                                         *)
View(k) ==
  [p \in Parent |->
     LET els == ContentChildren(k[p])
     IN  [lead  |-> TextRunAfter(k[p], 0),
          items |-> [i \in DOMAIN els |-> Entry(els[i], TailRun(k, els[i]))]]]

Distinct(els) == \A i, j \in DOMAIN els : els[i] = els[j] => i = j

(* Every chain holds known nodes, and no node is in two places: a wrapper's*)
(* node has one parent and one position, through any sequence of edits.    *)
TypeOK ==
  /\ kids \in [Parent -> Chain]
  /\ \A p, q \in Parent : \A i \in DOMAIN kids[p], j \in DOMAIN kids[q] :
       kids[p][i] = kids[q][j] => p = q /\ i = j

(* append, extend, insert, addnext and addprevious put the element, with   *)
(* its whole tail, exactly where a list that it first left would put it,   *)
(* and disturb no other element's text: also when the element moves within *)
(* its own list.                                                           *)
MovesAgreeWithList ==
  \A p \in Parent :
    /\ \A els \in NewElements : Distinct(els) =>
         View(ExtendBy(kids, p, els)) = ListExtend(View(kids), p, els)
    /\ \A e \in Elem, index \in -(Cardinality(Elem) + 1)..(Cardinality(Elem) + 1) :
         View(InsertIn(kids, p, index, e)) = ListInsert(View(kids), p, index, e)
    /\ \A self, e \in Elem : self # e /\ IsChild(kids, p, self) =>
         /\ View(PutAfter(kids, p, self, e)) = ListPutAfter(View(kids), p, self, e)
         /\ View(PutBefore(kids, p, self, e)) = ListPutBefore(View(kids), p, self, e)

(* replace and el[i] = new give the new element the old one's place and    *)
(* let the old one go with its tail, wherever the new one comes from.      *)
ReplacementAgreesWithList ==
  \A p \in Parent : \A i \in DOMAIN ContentChildren(kids[p]) :
    \A e \in Elem \ {ContentChildren(kids[p])[i]} :
      View(SetItem(kids, p, i - 1, e)) = ListAssign(View(kids), p, <<i - 1>>, <<e>>)

(* el[start:stop] = els splices the new elements in at start, the children *)
(* they do not reuse removed and the reused ones moved with their tails.   *)
(* A stop before start is left out: see the README.                        *)
SpliceAgreesWithList ==
  \A p \in Parent : \A start \in Sizes(p), stop \in Sizes(p), els \in NewElements :
    start <= stop /\ Distinct(els) =>
      View(SpliceSlice(kids, p, start, stop, els))
        = ListSplice(View(kids), p, start, stop, els)

AssignmentAgrees(p, slots, els) ==
  View(AssignSlots(kids, p, slots, els)) = ListAssign(View(kids), p, slots, els)

(* el[start:stop:step] = els with a positive step replaces slot by slot,   *)
(* also when the right-hand side reuses children in or between the slots.  *)
ExtendedSliceAgreesWithList ==
  \A p \in Parent : \A start \in Sizes(p), stop \in Sizes(p), step \in {2, 3} :
    LET slots == RangeSeq(start, stop, step)
    IN  \A els \in NewElements :
          Len(els) = Len(slots) /\ Distinct(els) => AssignmentAgrees(p, slots, els)

(* remove and del take an element out with all of its tail and nothing     *)
(* else, whatever the selection and the order it names them in.            *)
RemovalAgreesWithList ==
  \A p \in Parent : \A slots \in Selections(p) :
    LET gone == [j \in DOMAIN slots |-> ContentChildren(kids[p])[slots[j] + 1]]
    IN  View(ExtractAll(kids, gone)) = Without(View(kids), ToSet(gone))

(* Assigning .text or .tail replaces the whole run, reusing its first node,*)
(* and touches no other text and no element.                               *)
TextAssignmentIsWhole ==
  \A t \in Fresh :
    /\ \A p \in Parent :
         View(SetText(kids, p, t)) =
           [View(kids) EXCEPT ![p].lead = IF @ = <<>> THEN <<t>> ELSE <<Head(@)>>]
    /\ \A p \in Parent : \A i \in DOMAIN ContentChildren(kids[p]) :
         View(SetTail(kids, ContentChildren(kids[p])[i], t)) =
           [View(kids) EXCEPT ![p].items[i].tail = IF @ = <<>> THEN <<t>> ELSE <<Head(@)>>]

(* Every edit of a child list or of its texts gives what the same edit of  *)
(* a Python list of (element, tail) pairs gives, from any state that edits *)
(* can reach: the four parts above, and slices separately.                 *)
EditsAgreeWithList ==
  /\ MovesAgreeWithList
  /\ ReplacementAgreesWithList
  /\ RemovalAgreesWithList
  /\ TextAssignmentIsWhole

SlicesAgreeWithList == SpliceAgreesWithList /\ ExtendedSliceAgreesWithList

-----------------------------------------------------------------------------
(* A statement of the source that the code does not keep.                  *)

(* "Replace child old_element with new_element in place" (etree.py,        *)
(* replace), read for a child that replaces itself.                        *)
SelfReplacementKeepsChild ==
  \A p \in Parent, e \in Elem :
    IsChild(kids, p, e) => IsChild(ReplaceIn(kids, p, e, e), p, e)
=============================================================================
