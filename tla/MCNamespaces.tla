---------------------------- MODULE MCNamespaces ----------------------------
(* Documents of three elements, a chain and a fork, in every combination of*)
(* declarations that hide, undeclare and repeat a prefix, are only read;   *)
(* documents of two elements are also edited.                              *)
EXTENDS BareNames, TLC

Pair(p, u) == <<p, u>>

Declarations ==
  { <<>>, <<Pair("", "")>>, <<Pair("", "u")>>, <<Pair("a", "u")>>,
    <<Pair("a", "v"), Pair("", "v")>>, <<Pair("", "u"), Pair("a", "")>> }

EditedDeclarations ==
  { <<>>, <<Pair("", "u")>>, <<Pair("a", "u")>>, <<Pair("a", "v")>>, <<Pair("ns0", "v")>>,
    <<Pair("b", "u"), Pair("", "v")>> }

(* Where two operations follow each other.                                 *)
EditedTwice == {<<>>, <<Pair("a", "v")>>, <<Pair("ns0", "v")>>}

Chain == <<<<2>>, <<3>>, <<>>>>
Fork == <<<<2, 3>>, <<>>, <<>>>>
Pairing == <<<<2>>, <<>>>>

Named == {<<"", "">>, <<"", "u">>}

DocumentsOf(shape, declarations) ==
  [kids : {shape}, decls : [DOMAIN shape -> declarations],
   name : [DOMAIN shape -> Named], attrs : {[e \in DOMAIN shape |-> {}]}]

(* A parser leaves only names and attributes whose prefixes resolve.       *)
WellFormed(d) ==
  \A e \in Elements(d) : \A n \in d.attrs[e] \cup {d.name[e]} : Resolve(d, e, n[1]) = n[2]

ParsedDocuments ==
  {d \in [kids : {Pairing}, decls : [{1, 2} -> EditedDeclarations],
          name : [{1, 2} -> {<<"", "">>, <<"", "u">>, <<"a", "v">>}],
          attrs : {[e \in {1, 2} |-> {}]}] : WellFormed(d)}

MCDocuments ==
  DocumentsOf(Chain, Declarations) \cup DocumentsOf(Fork, Declarations)
    \cup ParsedDocuments

MCEditsOf(d) ==
  IF d.kids # Pairing THEN 0
  ELSE IF \A e \in Elements(d) : Bare(d, e) /\ d.decls[e] \in EditedTwice THEN 2
  ELSE 1

MCStrings ==
  { "", "a", "b", "u", "v", "w", "xml", "xmlns", "XML", "XMLNS", "ns0", "ns1", "ns2", "ns3" }

MCGenerated == <<"ns0", "ns1", "ns2", "ns3">>

MCUris == {"", "u", "v", "w", "XML", "XMLNS"}

MCRegistry == [ns \in MCUris |-> CASE ns = "XML" -> "xml" [] ns = "u" -> "a" [] OTHER -> ""]

MCNsmaps == {<<>>, <<Pair("a", "v")>>, <<Pair("", "u"), Pair("b", "u")>>, <<Pair("", "u")>>}
=============================================================================
