----------------------------- MODULE MCDescWalk -----------------------------
(* Two documents.  "<a" has nested elements of one name, a tail, and sums  *)
(* that overflow on the way; "<e-acute" has every kind of node, with text, *)
(* CDATA, comments and instructions next to each other on two levels.  The *)
(* input is every byte string of up to three bytes of an alphabet of       *)
(* telling bytes, and every encoding of the two texts, whole or cut short. *)
EXTENDS DescWalk, TLC

Alphabet == {0, 60, 97, 169, 187, 191, 195, 216, 239, 254, 255}

PlainText == <<60, 97>>
MixedText == <<60, 233>>

Elem(n, name, attr) == [kind |-> "element", name |-> name, attr |-> attr, text |-> <<>>]
Other(kind, n) == [kind |-> kind, name |-> "", attr |-> NoValue, text |-> <<n>>]

TreeOf(kids, nodes) ==
  [kids |-> kids,
   kind |-> [n \in DOMAIN nodes |-> nodes[n].kind],
   name |-> [n \in DOMAIN nodes |-> nodes[n].name],
   attr |-> [n \in DOMAIN nodes |-> nodes[n].attr],
   text |-> [n \in DOMAIN nodes |-> nodes[n].text]]

G == <<"", "g">>
I == <<"u", "i">>

PlainTree ==
  TreeOf(<< <<2, 6, 5>>, <<3, 4>>, <<>>, <<>>, <<>>, <<>> >>,
         << Elem(1, G, NoValue), Elem(2, G, 2), Elem(3, I, 1), Elem(4, G, 0 - 2),
            Elem(5, I, 1), Other("text", 6) >>)

MixedTree ==
  TreeOf(<< <<2, 3, 4, 5, 11, 12>>, <<>>, <<>>, <<>>, <<6, 7, 8, 9, 10>>, <<>>, <<>>, <<>>,
            <<>>, <<>>, <<>>, <<>> >>,
         << Elem(1, I, 1), Other("text", 2), Other("comment", 3), Other("cdata", 4),
            Elem(5, G, NotANumber), Other("cdata", 6), Other("text", 7), Other("pi", 8),
            Other("text", 9), Other("comment", 10), Other("text", 11), Other("cdata", 12) >>)

MCParsed == (PlainText :> PlainTree) @@ (MixedText :> MixedTree)

MCMaxEdits == (PlainText :> 2) @@ (MixedText :> 1)

Encoded == {Encode(text, e) : text \in DOMAIN MCParsed, e \in Encoding}

MCInputs ==
  UNION {[1 .. n -> Alphabet] : n \in 0 .. 3}
    \cup UNION {{SubSeq(s, 1, n) : n \in 0 .. Len(s)} : s \in Encoded}

MCOptions == [removeComments : BOOLEAN, removePis : BOOLEAN, stripCdata : BOOLEAN]

MCMinInt == 0 - 2

MCTags == {AnyNode, AnyElement, <<"bare", "g">>, <<"u", "i">>}
=============================================================================
