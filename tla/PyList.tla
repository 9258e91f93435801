------------------------------- MODULE PyList -------------------------------
(***************************************************************************)
(* What callers of the etree layer may expect of a child list: the        *)
(* behaviour of a Python list whose entries are elements paired with their *)
(* tail, after a moved element has first left its old place.  A view is,   *)
(* for every parent, a leading text and a list of entries.  Nothing here   *)
(* knows of sibling chains, anchors or native inserts: this is the         *)
(* reference that module ChildList is compared with.                       *)
(***************************************************************************)
EXTENDS Integers, Sequences, SequencesExt

Entry(e, tail) == [el |-> e, tail |-> tail]

Items(view, p) == view[p].items

(* The entry of e wherever it is listed; an element listed nowhere has no  *)
(* tail.                                                                   *)
Listed(view, e) ==
  LET here == UNION {ToSet(Items(view, p)) : p \in DOMAIN view}
      its  == {x \in here : x.el = e}
  IN  IF its = {} THEN Entry(e, <<>>) ELSE CHOOSE x \in its : TRUE

Entries(view, els) == [j \in DOMAIN els |-> Listed(view, els[j])]

(* The items without those of the elements gone.                           *)
Keeping(items, gone) ==
  LET kept[i \in 0..Len(items)] ==
        IF i = 0 THEN <<>>
        ELSE IF items[i].el \in gone THEN kept[i - 1]
        ELSE Append(kept[i - 1], items[i])
  IN  kept[Len(items)]

Without(view, gone) ==
  [p \in DOMAIN view |-> [view[p] EXCEPT !.items = Keeping(@, gone)]]

(* lst.insert(i, x): negative i counts from the end, and i is clamped.     *)
Clamped(i, n) == LET at == IF i < 0 THEN i + n ELSE i
                 IN  IF at < 0 THEN 0 ELSE IF at > n THEN n ELSE at

ListInsert(view, p, i, e) ==
  LET rest == Without(view, {e})
      at   == Clamped(i, Len(Items(rest, p)))
  IN  [rest EXCEPT ![p].items = InsertAt(@, at + 1, Listed(view, e))]

ListExtend(view, p, els) ==
  [Without(view, ToSet(els)) EXCEPT ![p].items = @ \o Entries(view, els)]

(* lst[start:stop] = els: an empty slice, start >= stop, inserts at start. *)
ListSplice(view, p, start, stop, els) ==
  LET items == Items(view, p)
      until == IF stop < start THEN start ELSE stop
      gone  == {items[i].el : i \in (start + 1)..until} \cup ToSet(els)
  IN  [Without(view, gone) EXCEPT ![p].items =
         Keeping(SubSeq(items, 1, start), gone)
           \o Entries(view, els)
           \o Keeping(SubSeq(items, until + 1, Len(items)), gone)]

(* lst[slots[j]] = els[j] for every j, the slots being positions from 0.   *)
ListAssign(view, p, slots, els) ==
  LET items   == Items(view, p)
      Slot(i) == IF i - 1 \in ToSet(slots)
                 THEN <<Listed(view, els[CHOOSE j \in DOMAIN slots : slots[j] = i - 1])>>
                 ELSE Keeping(<<items[i]>>, ToSet(els))
  IN  [Without(view, ToSet(els)) EXCEPT ![p].items =
         FlattenSeq([i \in DOMAIN items |-> Slot(i)])]

(* x takes its place right next to self; as in lxml, an element put after  *)
(* self comes before self's tail, which then follows it.                   *)
ListPutBefore(view, p, self, e) ==
  LET rest == Without(view, {e})
      at   == CHOOSE i \in DOMAIN Items(rest, p) : Items(rest, p)[i].el = self
  IN  [rest EXCEPT ![p].items = InsertAt(@, at, Listed(view, e))]

ListPutAfter(view, p, self, e) ==
  LET rest == Without(view, {e})
      at   == CHOOSE i \in DOMAIN Items(rest, p) : Items(rest, p)[i].el = self
      mine == Items(rest, p)[at].tail
      new  == Entry(e, Listed(view, e).tail \o mine)
  IN  [rest EXCEPT ![p].items = InsertAt([@ EXCEPT ![at].tail = <<>>], at + 1, new)]
=============================================================================
