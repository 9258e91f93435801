------------------------------- MODULE Scope --------------------------------
(***************************************************************************)
(* Which prefix means what, and the walks along ancestors that ask.  A     *)
(* document is a record of functions on its elements:                      *)
(*   kids    child elements in order                                       *)
(*   decls   xmlns declarations of the start tag in order, <<prefix, uri>> *)
(*   name    <<prefix, namespace>> of the element; local names are left out*)
(*   attrs   <<prefix, namespace>> of its attributes                       *)
(* "" is the absent prefix, the absent namespace, the default declaration  *)
(* and the undeclaring xmlns="".                                           *)
(***************************************************************************)
EXTENDS Integers, Sequences, SequencesExt, FiniteSets

CONSTANTS
  NoElement,  \* what is above the topmost element
  Strings,    \* what prefixes and namespaces are taken from
  XmlUri,     \* http://www.w3.org/XML/1998/namespace
  XmlnsUri    \* http://www.w3.org/2000/xmlns/

ASSUME ScopeAssumption ==
  /\ {"", "xml", "xmlns", XmlUri, XmlnsUri} \subseteq Strings
  /\ XmlUri # "" /\ XmlnsUri # "" /\ XmlUri # XmlnsUri

-----------------------------------------------------------------------------
(* The tree.                                                               *)

Elements(d) == DOMAIN d.kids

ParentOf(d, e) ==
  IF \E p \in Elements(d) : Contains(d.kids[p], e)
    THEN CHOOSE p \in Elements(d) : Contains(d.kids[p], e)
    ELSE NoElement

(* e, its parent and so on up to the topmost element.                      *)
Line(d, e) ==
  LET up[x \in Elements(d) \cup {NoElement}] ==
        IF x = NoElement THEN <<>> ELSE <<x>> \o up[ParentOf(d, x)]
  IN  up[e]

Below(d, e) == {x \in Elements(d) : Contains(Line(d, x), e)}

DeclsAlong(d, line) == FlattenSeq([i \in DOMAIN line |-> d.decls[line[i]]])

(* Every element has one place, in one list of children, and no element is *)
(* above itself: of any elements, one has its parent among the others.     *)
IsForest(d) ==
  /\ NoElement \notin Elements(d)
  /\ \A p, q \in Elements(d) : \A i \in DOMAIN d.kids[p], j \in DOMAIN d.kids[q] :
       d.kids[p][i] = d.kids[q][j] => p = q /\ i = j
  /\ \A S \in (SUBSET Elements(d)) \ {{}} : \E x \in S : ParentOf(d, x) \notin S

(* Document::detach: e leaves its parent's list.                           *)
Detach(d, e) ==
  LET p == ParentOf(d, e)
  IN  IF p = NoElement THEN d
      ELSE [d EXCEPT !.kids[p] = RemoveAt(@, CHOOSE i \in DOMAIN @ : @[i] = e)]

-----------------------------------------------------------------------------
(* What the Namespaces rules allow: validate_ns_declaration and            *)
(* validate_qname_parts.                                                   *)

ValidDeclarationButXml(prefix, uri) == prefix # "xmlns" /\ uri # XmlnsUri

ValidDeclaration(prefix, uri) ==
  /\ prefix # "xmlns"
  /\ uri # XmlnsUri
  /\ (prefix = "xml") <=> (uri = XmlUri)

ValidQName(prefix, ns) ==
  IF ns = "" THEN prefix = ""
  ELSE /\ prefix # "xmlns"
       /\ ns # XmlnsUri
       /\ (prefix = "xml") <=> (ns = XmlUri)

-----------------------------------------------------------------------------
(* Lists of declarations.                                                  *)

HasPrefix(decls, p) == \E i \in DOMAIN decls : decls[i][1] = p

(* A repeated prefix keeps its first place and takes the last uri: how a   *)
(* Python dict is filled, and what set_namespace_declaration does.         *)
Put(decls, pair) ==
  IF HasPrefix(decls, pair[1])
    THEN [i \in DOMAIN decls |-> IF decls[i][1] = pair[1] THEN pair ELSE decls[i]]
    ELSE Append(decls, pair)

AsDict(pairs) == FoldLeft(Put, <<>>, pairs)

(* A repeated prefix is skipped: seen.insert(prefix).                      *)
AddUnseen(decls, pair) == IF HasPrefix(decls, pair[1]) THEN decls ELSE Append(decls, pair)

(* dict(element.nsmap()): outermost declarations first.                    *)
NsmapInnermostFirst(d, e) == AsDict(DeclsAlong(d, Line(d, e)))

Nsmap(d, e) == AsDict(DeclsAlong(d, Reverse(Line(d, e))))

Ancestors(d, e) == Tail(Line(d, e))

Undeclared(decls, own) ==
  FoldLeft(LAMBDA kept, pair : IF HasPrefix(own, pair[1]) THEN kept ELSE Append(kept, pair),
           <<>>, decls)

(* inherited_declarations_nearest_first: seen starts with the own prefixes,*)
(* every ancestor pair with a new prefix is taken.                         *)
InheritedUnfiltered(d, e) == FoldLeft(AddUnseen, <<>>, DeclsAlong(d, Ancestors(d, e)))

InheritedNearestFirst(d, e) ==
  LET own == d.decls[e]
      all == FoldLeft(AddUnseen, own, DeclsAlong(d, Ancestors(d, e)))
  IN  SubSeq(all, Len(own) + 1, Len(all))

(* inherited_namespace_declarations: outermost first, overwritten in place,*)
(* then what the element declares itself is taken out.                     *)
InheritedFirstWins(d, e) ==
  Undeclared(FoldLeft(AddUnseen, <<>>, DeclsAlong(d, Reverse(Ancestors(d, e)))), d.decls[e])

InheritedDeclarations(d, e) ==
  Undeclared(AsDict(DeclsAlong(d, Reverse(Ancestors(d, e)))), d.decls[e])

-----------------------------------------------------------------------------
(* Copies of a subtree: the copy's top has no parent and the declarations  *)
(* it is given; the elements below it are as in the source.                *)

Cut(d, e, decls) == [Detach(d, e) EXCEPT !.decls[e] = decls]

(* import_subtree(inherit_ns=True)                                         *)
ImportSubtree(d, e) == Cut(d, e, d.decls[e] \o InheritedNearestFirst(d, e))

(* serialize_standalone_into: the missing declarations are spliced into the*)
(* end of the start tag.                                                   *)
Standalone(d, e) == Cut(d, e, d.decls[e] \o InheritedDeclarations(d, e))

(* validate_node: the root is given every declaration on its line.         *)
ValidationCopy(d, e) == Cut(d, e, FoldLeft(AddUnseen, <<>>, DeclsAlong(d, Line(d, e))))

-----------------------------------------------------------------------------
(* Reference: the nearest declaration on the way up decides.               *)

DeclaringPlaces(d, line, p) == {i \in DOMAIN line : HasPrefix(d.decls[line[i]], p)}

Meaning(decls, p) == decls[CHOOSE i \in DOMAIN decls : decls[i][1] = p][2]

NearestOn(d, line, p) ==
  LET places == DeclaringPlaces(d, line, p)
  IN  IF places # {} THEN Meaning(d.decls[line[Min(places)]], p)
      ELSE IF p = "xml" THEN XmlUri
      ELSE ""

Resolve(d, e, p) == NearestOn(d, Line(d, e), p)

-----------------------------------------------------------------------------
(* What every document is.                                                 *)

OncePerPrefix(decls) == \A i, j \in DOMAIN decls : decls[i][1] = decls[j][1] => i = j

Reserved(prefix, uri) ==
  /\ prefix # "xmlns" /\ uri # XmlnsUri
  /\ prefix = "xml" => uri = XmlUri
  /\ uri = XmlUri => prefix = "xml"

Name == Strings \X Strings

(* No start tag declares a prefix twice, no declaration and no name uses   *)
(* the reserved prefixes and namespaces in a way that cannot be written    *)
(* down, and no element has two attributes of one expanded name.           *)
IsDocument(d) ==
  /\ d \in [kids : [Elements(d) -> Seq(Elements(d))], decls : [Elements(d) -> Seq(Name)],
             name : [Elements(d) -> Name], attrs : [Elements(d) -> SUBSET Name]]
  /\ IsForest(d)
  /\ \A e \in Elements(d) :
       /\ OncePerPrefix(d.decls[e])
       /\ \A pair \in ToSet(d.decls[e]) : Reserved(pair[1], pair[2])
       /\ \A name \in d.attrs[e] \cup {d.name[e]} :
            Reserved(name[1], name[2]) /\ (name[2] = "" => name[1] = "")
       /\ \A a, b \in d.attrs[e] : a[2] = b[2] => a = b
=============================================================================
