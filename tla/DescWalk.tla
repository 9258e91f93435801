------------------------------ MODULE DescWalk ------------------------------
(***************************************************************************)
(* From bytes to a loop over iter(): the bytes are decoded and parsed, the *)
(* parser's options are applied, and then a loop walks the tree in         *)
(* document order while its body edits that same tree.  The walk holds a   *)
(* stack of nodes still to visit; the etree iterator also prefetches up to *)
(* a batch of matches under one lock, the node iterator exactly one.       *)
(***************************************************************************)
EXTENDS PostParse, Decode

CONSTANTS
  Inputs,       \* byte strings
  Parsed,       \* the parser: which texts are documents, and their trees
  Root,         \* the document element of every one of them
  Options,      \* parser options
  Tags,         \* tag arguments of iter()
  Batches,      \* matches fetched at a time: 1, or BATCH_SIZE
  MaxEdits      \* bound on the edits of one loop, for each text

(* The documents: texts of XML characters that begin with a tag.           *)
Documents == {text \in Seq(Char) : text # <<>> /\ text[1] = 60}

ASSUME WalkAssumption ==
  /\ Inputs \subseteq Seq(0 .. 255)
  /\ \A text \in DOMAIN Parsed :
       /\ text \in Documents
       /\ IsTree(Parsed[text]) /\ Root \in Nodes(Parsed[text])
  /\ Batches \subseteq Nat \ {0}
  /\ DOMAIN Parsed \subseteq DOMAIN MaxEdits

VARIABLES
  phase,        \* "bytes", "refused", "parsed", "shown", "walking" or "ended"
  input,        \* the bytes, then what they decode to
  options,      \* the parser options applied
  tree,         \* the document
  asParsed,     \* the document before the options (history)
  walk,         \* the iterator: stack, filter, batch, buffer and index
  got,          \* nodes handed out (history)
  seen,         \* what the edits did (history): first, moved, disturbed, out
  edits         \* number of edits left (bound)

vars == <<phase, input, options, tree, asParsed, walk, got, seen, edits>>

Nothing == <<>>

-----------------------------------------------------------------------------
(* Parsing.                                                                *)

Init ==
  /\ phase = "bytes"
  /\ input \in Inputs
  /\ options = Nothing /\ tree = Nothing /\ asParsed = Nothing
  /\ walk = Nothing /\ got = <<>> /\ seen = Nothing /\ edits = 0

(* Document.from_bytes: bytes that do not decode, or do not parse, are an  *)
(* error and make no document.                                             *)
ParseBytes ==
  /\ phase = "bytes"
  /\ LET text == DecodeXmlBytes(input) IN
       /\ input' = text
       /\ IF text \in DOMAIN Parsed
            THEN phase' = "parsed" /\ tree' = Parsed[text]
            ELSE phase' = "refused" /\ tree' = tree
  /\ UNCHANGED <<options, asParsed, walk, got, seen, edits>>

ApplyOptions ==
  /\ phase = "parsed"
  /\ options' \in Options
  /\ asParsed' = tree
  /\ tree' = Postprocess(tree, Root, options')
  /\ phase' = "shown"
  /\ UNCHANGED <<input, walk, got, seen, edits>>

-----------------------------------------------------------------------------
(* The loop.                                                               *)

StartEagerly(tag, batch) ==
  /\ phase = "shown"
  /\ walk' = [stack |-> <<>>, filter |-> DescFilter(tag), batch |-> batch,
              buffer |-> Scan(tree, Root, DescFilter(tag)), index |-> 0]
  /\ seen' = [first |-> tree, moved |-> {}, disturbed |-> {}, out |-> {}]
  /\ edits' = MaxEdits[input]
  /\ phase' = "walking"
  /\ input' = Nothing /\ options' = Nothing /\ asParsed' = Nothing
  /\ UNCHANGED <<tree, got>>

Start(tag, batch) ==
  /\ phase = "shown"
  /\ walk' = [stack |-> <<Root>>, filter |-> DescFilter(tag), batch |-> batch,
              buffer |-> <<>>, index |-> 0]
  /\ seen' = [first |-> tree, moved |-> {}, disturbed |-> {}, out |-> {}]
  /\ edits' = MaxEdits[input]
  /\ phase' = "walking"
  /\ input' = Nothing /\ options' = Nothing /\ asParsed' = Nothing
  /\ UNCHANGED <<tree, got>>

RefillOneTooMany(t, w) ==
  LET fetched == TakeMatches(t, w.stack, w.filter, w.batch + 1)
  IN  [w EXCEPT !.stack = fetched.stack, !.buffer = fetched.ids, !.index = 1]

RefillKeepingStack(t, w) ==
  LET fetched == TakeMatches(t, w.stack, w.filter, w.batch)
  IN  [w EXCEPT !.buffer = fetched.ids, !.index = 1]

(* A refill restarts the buffer; a buffered node is handed out as it is,   *)
(* whatever has become of it.                                              *)
Refill(t, w) ==
  LET fetched == TakeMatches(t, w.stack, w.filter, w.batch)
  IN  [w EXCEPT !.stack = fetched.stack, !.buffer = fetched.ids, !.index = 1]

NextMatch ==
  /\ phase = "walking"
  /\ LET more == walk.index < Len(walk.buffer)
         w == IF more THEN [walk EXCEPT !.index = @ + 1] ELSE Refill(tree, walk)
     IN  /\ walk' = w
         /\ IF w.buffer = <<>>
              THEN phase' = "ended" /\ got' = got
              ELSE phase' = phase /\ got' = Append(got, w.buffer[w.index])
  /\ UNCHANGED <<input, options, tree, asParsed, seen, edits>>

(* What the walk is sure to hand out yet, in order: matches that no edit   *)
(* has touched.                                                            *)
Ahead ==
  Among(PreOrder(seen.first, Root),
        {n \in Nodes(seen.first) : /\ Matches(seen.first, n, walk.filter)
                                   /\ n \notin seen.disturbed \cup ToSet(got)})

(* n's untouched descendants, if n's parent lies so far ahead that it      *)
(* cannot have been fetched: the walk cannot know them yet.                *)
NotYetReached(n) ==
  LET p == ParentOf(tree, n)
  IN  IF Contains(Ahead, p) /\ PlaceOf(Ahead, p) >= walk.batch
        THEN Subtree(tree, n) \ seen.disturbed
        ELSE {}

(* _extract: a node leaves its parent, and its tail run with it.           *)
Extract(t, n) ==
  LET gone == {n} \cup ToSet(TailTextRun(t, n))
  IN  [t EXCEPT !.kids = [p \in Nodes(t) |-> NotIn(t.kids[p], gone)]]

Touched(n) == Subtree(tree, n) \cup ToSet(TailTextRun(tree, n))

LoopBody ==
  /\ phase = "walking" /\ edits > 0 /\ edits' = edits - 1
  /\ UNCHANGED <<phase, input, options, asParsed, walk, got>>

(* parent.remove(n)                                                        *)
RemoveNode(n) ==
  /\ LoopBody
  /\ n # Root /\ IsContent(tree, n) /\ ParentOf(tree, n) # NoNode
  /\ tree' = Extract(tree, n)
  /\ seen' = [seen EXCEPT !.disturbed = @ \cup Touched(n),
                          !.out = @ \cup NotYetReached(n)]

(* p.append(n)                                                             *)
AppendTo(p, n) ==
  /\ LoopBody
  /\ n # Root /\ IsContent(tree, n) /\ tree.kind[p] = "element"
  /\ p \notin Subtree(tree, n)
  /\ LET tail == TailTextRun(tree, n)
     IN  tree' = [Extract(tree, n) EXCEPT !.kids[p] = (@ \o <<n>>) \o tail]
  /\ seen' = [seen EXCEPT !.disturbed = @ \cup Touched(n),
                          !.moved = @ \cup Touched(n),
                          !.out = @ \ Touched(n)]

(* n.clear(): children are unlinked one by one, attributes or the body are *)
(* emptied, and the tail goes unless it is to be kept.                     *)
ClearNode(n, keepTail) ==
  /\ LoopBody
  /\ IsContent(tree, n)
  /\ LET gone == ToSet(tree.kids[n]) \cup
                   (IF keepTail THEN {} ELSE ToSet(TailTextRun(tree, n)))
     IN  /\ tree' = [tree EXCEPT
              !.kids = [p \in Nodes(tree) |-> NotIn(tree.kids[p], gone)],
              !.attr[n] = NoValue,
              !.text[n] = <<>>]
         /\ seen' = [seen EXCEPT
              !.disturbed = @ \cup UNION {Subtree(tree, c) : c \in gone},
              !.out = @ \cup UNION {NotYetReached(c) : c \in gone}]

Next ==
  \/ ParseBytes
  \/ ApplyOptions
  \/ \E tag \in Tags, batch \in Batches : Start(tag, batch)
  \/ NextMatch
  \/ phase = "walking" /\ \E n \in Nodes(tree) :
       \/ RemoveNode(n)
       \/ \E p \in Nodes(tree) : AppendTo(p, n)
       \/ \E keepTail \in BOOLEAN : ClearNode(n, keepTail)

WalkSpec == Init /\ [][Next]_vars

-----------------------------------------------------------------------------
(* Properties: decoding.                                                   *)

(* The bytes of a document are read back as the text they encode, in every *)
(* encoding and with or without a byte order mark.                         *)
DecodesWhatWasEncoded ==
  phase = "bytes" =>
    \A text \in DOMAIN Parsed, e \in Encoding :
      DecodeXmlBytes(Encode(text, e)) = text

(* Nothing is dropped or guessed (decode_utf16_raw refuses an odd byte):   *)
(* bytes that decode are the encoding of what they decode to.              *)
DecodingLosesNothing ==
  phase = "bytes" /\ DecodeXmlBytes(input) # Malformed =>
    \E e \in Encoding : Encode(DecodeXmlBytes(input), e) = input

(* Decoding inverts encoding, both ways.                                   *)
DecodingIsFaithful == DecodesWhatWasEncoded /\ DecodingLosesNothing

-----------------------------------------------------------------------------
(* Properties: options.                                                    *)

(* The tree shown is the tree parsed, less what the options drop, with     *)
(* CDATA turned to text if asked and adjacent text joined - at every depth *)
(* and however the dropped nodes and the text runs touch.                  *)
OptionsAreApplied ==
  phase = "shown" => ShowPlain(tree, Root) = Expected(asParsed, Root, options)

(* What was dropped or joined away holds no payload, and what is shown has *)
(* lost none of its text.                                                  *)
DroppedNodesAreEmpty ==
  phase = "shown" =>
    /\ \A n \in Nodes(tree) :
         n \in Subtree(asParsed, Root) \ Subtree(tree, Root) => tree.text[n] = <<>>
    /\ TextOf(tree, AllText(tree, Root)) = TextOf(asParsed, AllText(asParsed, Root))

(* The options drop and join what they name, and nothing else.             *)
OptionsKeepTheRest == OptionsAreApplied /\ DroppedNodesAreEmpty

-----------------------------------------------------------------------------
(* Properties: views and scans of whatever tree there is.                  *)

Settled == phase \in {"shown", "ended"}

(* .text of an element and the .tail of its children are together all its  *)
(* text, each node once, in order; getnext and getprevious walk the same   *)
(* children.                                                               *)
RunsCoverTheText ==
  Settled =>
    \A n \in Nodes(tree) :
      LET children == ContentChildren(tree, n) IN
        /\ Among(tree.kids[n], {c \in Nodes(tree) : IsText(tree, c)}) =
             LeadingTextRun(tree, n) \o FlattenSeq(Map(LAMBDA c : TailTextRun(tree, c), children))
        /\ \A i \in DOMAIN children :
             /\ SiblingProxy(tree, children[i], TRUE) =
                  (IF i = Len(children) THEN NoNode ELSE children[i + 1])
             /\ SiblingProxy(tree, children[i], FALSE) =
                  (IF i = 1 THEN NoNode ELSE children[i - 1])

(* The stack walk lists the matches in document order, and the scans that  *)
(* do not list them agree with it.                                         *)
ScansAgreeWithPreOrder ==
  Settled =>
    \A n \in Nodes(tree), tag \in Tags :
      LET filter == DescFilter(tag)
          matches == Among(PreOrder(tree, n), {c \in Nodes(tree) : Matches(tree, c, filter)})
      IN  /\ Scan(tree, n, filter) = matches
          /\ FastCount(tree, n, filter) = Len(matches)
          /\ FastHas(tree, n, filter) <=> matches # <<>>
          /\ FastCollectText(tree, n, filter) =
               Map(LAMBDA c : TextOf(tree, OwnTextNodes(tree, c)),
                   Among(matches, {c \in Nodes(tree) : OwnTextNodes(tree, c) # <<>>}))

(* A sum is the exact sum or an error, never a wrapped value, and there is *)
(* no error without a value that does not parse or a running total that    *)
(* leaves the range.                                                       *)
SumIsExactOrRefused ==
  Settled =>
    \A n \in Nodes(tree), tag \in Tags :
      LET values == FastCollectAttr(tree, n, DescFilter(tag))
          upTo(i) == FoldLeft(LAMBDA a, b : a + b, 0, SubSeq(values, 1, i))
          sum == FastSumIntAttr(tree, n, DescFilter(tag))
          bad == {i \in DOMAIN values : values[i] = NotANumber}
          sound == {i \in DOMAIN values : \A j \in bad : i < j}
          over == \E i \in sound : upTo(i) \notin MinInt .. MaxInt
      IN  sum = (IF over THEN Overflow ELSE IF bad # {} THEN NotANumber
                 ELSE upTo(Len(values)))

(* Grouped scans: an item is reported once for every group around it, the  *)
(* item itself included if it matches the group's tag.                     *)
GroupsReportTheirItems ==
  Settled =>
    \A g, i \in {t \in Tags : t # AnyNode} :
      LET report == FastCollectGroupedText(tree, Root, DescFilter(g), DescFilter(i), AnyElement)
          items == Map(LAMBDA r : r[1], report)
          around(n) == {a \in Subtree(tree, Root) :
                          Matches(tree, a, DescFilter(g)) /\ n \in Subtree(tree, a)}
      IN  \A n \in Subtree(tree, Root) :
            Matches(tree, n, DescFilter(i)) =>
              Len(Among(items, {n})) = Cardinality(around(n))

(* The etree views and the bulk scans, each its own walk over the tree,    *)
(* agree with the tree in document order, and so with one another.         *)
ReadersAgree == RunsCoverTheText /\ ScansAgreeWithPreOrder /\ GroupsReportTheirItems

-----------------------------------------------------------------------------
(* Properties: the walk under edits.                                       *)

Times(n) == Len(Among(got, {n}))

(* What the loop body leaves where it was is handed out exactly once, in   *)
(* document order, whatever else is moved, removed or cleared around it.   *)
UndisturbedNodesComeInOrder ==
  phase = "ended" =>
    NotIn(got, seen.disturbed) =
      Among(PreOrder(seen.first, Root),
            {n \in Nodes(seen.first) : /\ Matches(seen.first, n, walk.filter)
                                       /\ n \notin seen.disturbed})

(* A node is handed out a second time only if it was put somewhere else.   *)
NothingComesTwiceUnmoved ==
  phase \in {"walking", "ended"} =>
    \A n \in ToSet(got) : Times(n) > 1 => n \in seen.moved

(* iter() under edits: everything once, unless the loop body moves it.     *)
WalkVisitsOnce == UndisturbedNodesComeInOrder /\ NothingComesTwiceUnmoved

(* The walk is lazy: a node removed more than a batch ahead of the loop is *)
(* not handed out any more, unless it is put back.                         *)
RemovedAheadStaysOut ==
  [][phase = "walking" /\ Len(got') > Len(got) => Last(got') \notin seen.out]_vars

(* Types: the iterator never runs past its buffer or past its batch.       *)
WalkTypeOK ==
  /\ phase \in {"bytes", "refused", "parsed", "shown", "walking", "ended"}
  /\ phase \notin {"bytes", "refused"} =>
       tree.kids \in [Nodes(tree) -> Seq(Nodes(tree))]
  /\ phase \in {"walking", "ended"} =>
       /\ walk.stack \in Seq(Nodes(tree))
       /\ Len(walk.buffer) <= walk.batch
       /\ walk.index \in 0 .. walk.batch
       /\ walk.buffer # <<>> => walk.index \in 1 .. Len(walk.buffer)
=============================================================================
