------------------------------ MODULE ChildIter ------------------------------
(***************************************************************************)
(* `for child in element`: the lazy native iterator over a live child      *)
(* list, and a loop body that edits the tree between two steps.  The       *)
(* iterator remembers the next raw sibling, which is often the text node   *)
(* of the tail of the child it has just handed out: a node that travels    *)
(* with that child, or goes away, when the loop body edits it.             *)
(***************************************************************************)
EXTENDS ChildList, TLC

CONSTANTS
  Source,         \* the parent iterated over
  Dest,           \* another parent
  MaxLen,         \* bound on the length of Source's chain at the start
  MaxEdits,       \* bound on the edits of one loop
  CarriesCursor   \* may the loop body move or remove the remembered node?

ASSUME ChildIterAssumption ==
  /\ Source \in Parent /\ Dest \in Parent \ {Source}
  /\ MaxLen \in Nat /\ MaxEdits \in Nat /\ CarriesCursor \in BOOLEAN

VARIABLES
  cursor,   \* ProxyChildIterator.next
  ended,    \* has StopIteration been raised?
  handed,   \* the children handed out so far (history)
  first,    \* the children of Source when the loop began (history)
  edits     \* edits made by the loop body (history, bounded)

vars == <<kids, cursor, ended, handed, first, edits>>

-----------------------------------------------------------------------------
(* The rest of the sibling chain from the cursor on; a detached node is a  *)
(* chain of its own.                                                       *)
ChainFrom(k, n) ==
  IF n = NoNode THEN <<>>
  ELSE IF Homes(k, n) = {} THEN <<n>>
  ELSE LET s == k[CHOOSE p \in Homes(k, n) : TRUE] IN From(s, Pos(s, n) - 1)

(* The steps the walk takes along rest to the first content child: all of  *)
(* rest when it holds none.                                                *)
Hops(rest) ==
  LET hits == {i \in DOMAIN rest : rest[i] \notin Text}
  IN  IF hits = {} THEN Len(rest) ELSE Min(hits)

FoundUnfiltered(rest) == IF rest = <<>> THEN <<>> ELSE <<Head(rest)>>

FoundNextOnly(rest) == NotIn(FoundUnfiltered(rest), Text)

Found(rest) == NotIn(SubSeq(rest, 1, Hops(rest)), Text)

SkippingCursor(rest) == FirstOr(From(rest, Hops(rest) + 1), NoNode)

NextCursor(rest) == FirstOr(From(rest, Hops(rest)), NoNode)

-----------------------------------------------------------------------------
Chains == {s \in UNION {[1..n -> Elem \cup Text] : n \in 0..MaxLen} : Distinct(s)}

Begin ==
  /\ kids \in {[p \in Parent |-> IF p = Source THEN s ELSE <<>>] : s \in Chains}
  /\ cursor = FirstOr(kids[Source], NoNode)
  /\ first = ContentChildren(kids[Source])
  /\ ended = FALSE /\ handed = <<>> /\ edits = 0

(* __next__                                                                *)
Step ==
  LET rest == ChainFrom(kids, cursor)
  IN  /\ ~ended
      /\ cursor' = NextCursor(rest)
      /\ handed' = handed \o Found(rest)
      /\ ended' = (Found(rest) = <<>>)
      /\ UNCHANGED <<kids, first, edits>>

(* The loop body: an edit of a child it has been handed, or the insertion  *)
(* of an element that was not in the list.                                 *)
Known == ToSet(handed)

New == {e \in Elem \ Known : Homes(kids, e) = {}}

CursorGoesWith(e) == cursor \in {e} \cup ToSet(TailRun(kids, e))

Edit(e) ==
  /\ ~ended
  /\ edits < MaxEdits
  /\ CarriesCursor \/ ~CursorGoesWith(e)
  /\ edits' = edits + 1
  /\ UNCHANGED <<cursor, ended, handed, first>>

Body ==
  \/ \E e \in Known \cup New : Edit(e) /\ \E p \in {Source, Dest} : Append_(p, e)
  \/ \E e \in Known \cup New, i \in 0..Cardinality(Elem) : Edit(e) /\ Insert(Source, i, e)
  \/ \E e \in Known : Edit(e) /\ Remove_(Source, e)
  \/ \E e \in Known \cup New, self \in Known : Edit(e) /\ AddNext(Source, self, e)
  \/ \E e \in Known : Edit(e) /\ DeleteTail(e)

WalkSpec == Begin /\ [][Step \/ Body]_vars

(* extend(Source) called on Dest: the loop body appends each child.        *)
MoveCurrent ==
  /\ ~ended
  /\ edits < Len(handed)
  /\ Append_(Dest, handed[Len(handed)])
  /\ edits' = edits + 1
  /\ UNCHANGED <<cursor, ended, handed, first>>

ExtendSpec ==
  /\ Begin
  /\ [][(edits = Len(handed) /\ Step) \/ MoveCurrent]_vars

(* Elements and text nodes are interchangeable.                            *)
Relabelings == Permutations(Elem) \cup Permutations(Text)

-----------------------------------------------------------------------------
(* The walk meets the original children in their order, whatever the loop  *)
(* body has done with those it was handed: none is handed out before all   *)
(* that were in front of it at the start.                                  *)
WalkKeepsOrder ==
  \A i \in DOMAIN handed : \A j, k \in DOMAIN first :
    j < k /\ handed[i] = first[k] => \E h \in 1..(i - 1) : handed[h] = first[j]

(* A walk that ends has handed out every original child: edits of visited  *)
(* children and insertions do not cut it short, as long as the node the    *)
(* iterator remembers stays in its place.                                   *)
WalkMissesNothing == ended => ToSet(first) \subseteq ToSet(handed)

(* "Append each element in elements in order" (etree.py, extend), read for *)
(* an iterable that is itself an element.                                  *)
ExtendMovesEveryChild == ended => ToSet(first) \subseteq ToSet(kids[Dest])
=============================================================================
