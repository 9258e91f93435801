-------------------------------- MODULE Tree --------------------------------
(***************************************************************************)
(* The native views of a document tree: child lists, text runs, siblings,  *)
(* the pre-order walk behind iter(), and the bulk scans built on it, from  *)
(* fast_count to fast_collect_grouped_text.  A tree is a record of         *)
(* functions on nodes:                                                     *)
(*   kids   children in order, text nodes included                         *)
(*   kind   "element", "text", "cdata", "comment" or "pi"                  *)
(*   name   expanded name of an element, <<namespace, local>>              *)
(*   attr   the value of the one attribute the scans ask for, or NoValue   *)
(*   text   characters of a text, CDATA, comment or PI node                *)
(***************************************************************************)
EXTENDS Lists, FiniteSets

CONSTANTS
  NoNode,     \* no node: the end of a walk, no sibling, no parent
  NoValue,    \* an element without the attribute
  NotANumber, \* an attribute whose value does not parse as an integer
  Overflow,   \* a sum that left the range
  AnyNode,    \* tag argument None: elements, comments and instructions
  AnyElement, \* tag argument "*"
  MinInt,     \* bounds of i64
  MaxInt

ASSUME TreeAssumption ==
  /\ MinInt \in Int /\ MaxInt \in Int /\ MinInt <= 0 /\ 0 <= MaxInt
  /\ {NoValue, NotANumber, Overflow} \cap (MinInt .. MaxInt) = {}
  /\ NoValue # NotANumber /\ NotANumber # Overflow

Map(Op(_), s) == [i \in 1 .. Len(s) |-> Op(s[i])]

-----------------------------------------------------------------------------
(* Links.                                                                  *)

Nodes(t) == DOMAIN t.kids

ParentOf(t, n) ==
  IF \E p \in Nodes(t) : Contains(t.kids[p], n)
    THEN CHOOSE p \in Nodes(t) : Contains(t.kids[p], n)
    ELSE NoNode

PlaceOf(s, n) == CHOOSE i \in DOMAIN s : s[i] = n

IsText(t, n) == t.kind[n] \in {"text", "cdata"}

IsContent(t, n) == t.kind[n] \in {"element", "comment", "pi"}

ContentChildren(t, n) == Among(t.kids[n], {c \in Nodes(t) : IsContent(t, c)})

(* What a parser builds, and edits keep: only elements have children, a    *)
(* node is the child of one parent at most and at one place, and going     *)
(* down from child to child ends.                                          *)
IsTree(t) ==
  /\ t = [kids |-> t.kids, kind |-> t.kind, name |-> t.name, attr |-> t.attr, text |-> t.text]
  /\ NoNode \notin Nodes(t) /\ IsFiniteSet(Nodes(t))
  /\ t.kids \in [Nodes(t) -> Seq(Nodes(t))]
  /\ t.kind \in [Nodes(t) -> {"element", "text", "cdata", "comment", "pi"}]
  /\ t.attr \in [Nodes(t) -> (MinInt .. MaxInt) \cup {NoValue, NotANumber}]
  /\ t.text \in [Nodes(t) -> Seq(Nat)]
  /\ \A n \in Nodes(t) : t.kids[n] # <<>> => t.kind[n] = "element"
  /\ \A p, q \in Nodes(t) : \A i \in DOMAIN t.kids[p], j \in DOMAIN t.kids[q] :
       t.kids[p][i] = t.kids[q][j] => p = q /\ i = j
  /\ \A S \in SUBSET Nodes(t) : S # {} => \E n \in S : ToSet(t.kids[n]) \cap S = {}

(* Siblings after (before) n, nearest first; none for a node with no parent*)
Following(t, n) ==
  IF ParentOf(t, n) = NoNode THEN <<>>
  ELSE LET s == t.kids[ParentOf(t, n)] IN SubSeq(s, PlaceOf(s, n) + 1, Len(s))

Preceding(t, n) ==
  IF ParentOf(t, n) = NoNode THEN <<>>
  ELSE LET s == t.kids[ParentOf(t, n)] IN Reverse(SubSeq(s, 1, PlaceOf(s, n) - 1))

(* getnext and getprevious skip text.                                      *)
FirstContent(t, s) ==
  LET i == SelectInSeq(s, LAMBDA c : ~IsText(t, c))
  IN  IF i = 0 THEN NoNode ELSE s[i]

SiblingProxy(t, n, next) ==
  FirstContent(t, IF next THEN Following(t, n) ELSE Preceding(t, n))

-----------------------------------------------------------------------------
(* .text and .tail: the run of text and CDATA nodes at the head of a list. *)

TextRunOfOne(t, s) ==
  IF s # <<>> /\ IsText(t, s[1]) THEN <<s[1]>> ELSE <<>>

TextRun(t, s) ==
  LET i == SelectInSeq(s, LAMBDA c : ~IsText(t, c))
  IN  IF i = 0 THEN s ELSE SubSeq(s, 1, i - 1)

TextOf(t, run) == FlattenSeq(Map(LAMBDA c : t.text[c], run))

LeadingTextRun(t, n) == TextRun(t, t.kids[n])

TailTextRun(t, n) == TextRun(t, Following(t, n))

-----------------------------------------------------------------------------
(* Tag arguments: none, "*", or a name <<namespace, local>>, whose braces  *)
(* may be empty ("") or absent ("bare").                                   *)

DescFilter(tag) ==
  IF tag \in {AnyNode, AnyElement} THEN tag
  ELSE <<IF tag[1] = "bare" THEN "" ELSE tag[1], tag[2]>>

Matches(t, n, filter) ==
  IF filter = AnyNode THEN IsContent(t, n)
  ELSE /\ t.kind[n] = "element"
       /\ filter # AnyElement => t.name[n] = filter

(* One step of a walk: the next match, and the stack it leaves.  Children  *)
(* go on the stack in reverse, also those of a match.                      *)
AdvanceWalkForward(t, stack, filter) ==
  LET walk[s \in Seq(Nodes(t))] ==
        LET id     == Last(s)
            deeper == Front(s) \o t.kids[id]
        IN  IF s = <<>> THEN [id |-> NoNode, stack |-> <<>>]
            ELSE IF Matches(t, id, filter) THEN [id |-> id, stack |-> deeper]
            ELSE walk[deeper]
  IN  walk[stack]

AdvanceWalkAboveMatches(t, stack, filter) ==
  LET walk[s \in Seq(Nodes(t))] ==
        LET id == Last(s)
        IN  IF s = <<>> THEN [id |-> NoNode, stack |-> <<>>]
            ELSE IF Matches(t, id, filter) THEN [id |-> id, stack |-> Front(s)]
            ELSE walk[Front(s) \o Reverse(t.kids[id])]
  IN  walk[stack]

AdvanceWalk(t, stack, filter) ==
  LET walk[s \in Seq(Nodes(t))] ==
        LET id     == Last(s)
            deeper == Front(s) \o Reverse(t.kids[id])
        IN  IF s = <<>> THEN [id |-> NoNode, stack |-> <<>>]
            ELSE IF Matches(t, id, filter) THEN [id |-> id, stack |-> deeper]
            ELSE walk[deeper]
  IN  walk[stack]

(* Up to max matches of a walk, as a refill takes them.                    *)
TakeMatches(t, stack, filter, max) ==
  LET taken[i \in 0 .. max] ==
        LET sofar == taken[i - 1]
            step  == AdvanceWalk(t, sofar.stack, filter)
        IN  IF i = 0 THEN [ids |-> <<>>, stack |-> stack]
            ELSE IF step.id = NoNode THEN [sofar EXCEPT !.stack = step.stack]
            ELSE [ids |-> Append(sofar.ids, step.id), stack |-> step.stack]
  IN  taken[max]

(* All matches of a walk that nothing interrupts, as the bulk scans and an *)
(* undisturbed loop take them.                                             *)
Scan(t, start, filter) ==
  LET found[s \in Seq(Nodes(t))] ==
        LET step == AdvanceWalk(t, s, filter)
        IN  IF step.id = NoNode THEN <<>> ELSE <<step.id>> \o found[step.stack]
  IN  found[<<start>>]

-----------------------------------------------------------------------------
(* The bulk scans.                                                         *)

FastCount(t, start, filter) == Len(Scan(t, start, filter))

FastHas(t, start, filter) == AdvanceWalk(t, <<start>>, filter).id # NoNode

HasAttr(t, n) == t.kind[n] = "element" /\ t.attr[n] # NoValue

FastCollectAttr(t, start, filter) ==
  Map(LAMBDA n : t.attr[n], Among(Scan(t, start, filter), {n \in Nodes(t) : HasAttr(t, n)}))

(* Matches without text are left out: an element with no leading text node.*)
OwnTextNodes(t, n) == IF t.kind[n] = "element" THEN LeadingTextRun(t, n) ELSE <<n>>

FastCollectText(t, start, filter) ==
  LET withText == Among(Scan(t, start, filter), {n \in Nodes(t) : OwnTextNodes(t, n) # <<>>})
  IN  Map(LAMBDA n : TextOf(t, OwnTextNodes(t, n)), withText)

LeadingTexts(t, start, filter) ==
  LET withText == Among(Scan(t, start, filter),
                        {n \in Nodes(t) : t.kind[n] = "element" /\ LeadingTextRun(t, n) # <<>>})
  IN  Map(LAMBDA n : TextOf(t, LeadingTextRun(t, n)), withText)

FastCollectGroupedTextFromStart(t, start, group, item, value) ==
  LET itemsOf(g) == Map(LAMBDA i : <<i, t.attr[i], LeadingTexts(t, i, value)>>,
                        Scan(t, start, item))
  IN  FlattenSeq(Map(itemsOf, Scan(t, start, group)))

(* For every group, for every item in it, the item's texts.  The walk of a *)
(* group includes nested groups, which come again as groups of their own.  *)
FastCollectGroupedText(t, start, group, item, value) ==
  LET itemsOf(g) == Map(LAMBDA i : <<i, t.attr[i], LeadingTexts(t, i, value)>>,
                        Scan(t, g, item))
  IN  FlattenSeq(Map(itemsOf, Scan(t, start, group)))

(* The sum of the attribute, in document order; the first value that does  *)
(* not parse, or the first addition that overflows, ends the scan.         *)
AddWrapping(total, value) ==
  IF total \in {Overflow, NotANumber} THEN total
  ELSE IF value = NotANumber THEN NotANumber
  ELSE MinInt + ((total + value - MinInt) % (MaxInt - MinInt + 1))

AddChecked(total, value) ==
  IF total \in {Overflow, NotANumber} THEN total
  ELSE IF value = NotANumber THEN NotANumber
  ELSE IF total + value \in MinInt .. MaxInt THEN total + value
  ELSE Overflow

FastSumIntAttr(t, start, filter) ==
  FoldLeft(AddChecked, 0, FastCollectAttr(t, start, filter))

-----------------------------------------------------------------------------
(* Reference definitions.                                                  *)

PreOrder(t, n) ==
  LET below[m \in Nodes(t)] == <<m>> \o FlattenSeq(Map(LAMBDA c : below[c], t.kids[m]))
  IN  below[n]

Subtree(t, n) == ToSet(PreOrder(t, n))

AllText(t, n) == Among(PreOrder(t, n), {c \in Nodes(t) : IsText(t, c)})
=============================================================================
