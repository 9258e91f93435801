----------------------------- MODULE Namespaces -----------------------------
(***************************************************************************)
(* How the etree layer keeps names and xmlns declarations together while a *)
(* program edits a document: attributes and declarations set on an element,*)
(* renamed elements, new subelements and moves within the document.  Each  *)
(* operation picks a prefix for the namespace it is given: one declared    *)
(* nearby, a registered one, or a generated ns<N>.  The walks that read the*)
(* result (nsmap, cross-document copies, standalone serialization,         *)
(* validation) are in Scope, and the properties below compare them.        *)
(*                                                                         *)
(* The name an operation writes last is kept in "last", so that it can be  *)
(* asked what its prefix means where it was written.                       *)
(***************************************************************************)
EXTENDS Scope

CONSTANTS
  Documents,   \* documents to start from
  Spare,       \* elements a document may still be given
  Generated,   \* <<"ns0", "ns1", ...>>
  Registry,    \* _namespace_map: namespace to prefix, "" for none
  Uris,        \* namespaces and declared uris the operations are given
  Declarable,  \* prefixes that set("xmlns:...") is given, "" for "xmlns"
  Nsmaps,      \* nsmap arguments
  EditsOf(_)   \* how many operations a document undergoes

ASSUME NamespacesAssumption ==
  /\ \A d \in Documents : IsDocument(d)
  /\ NoElement \notin Spare
  /\ Generated \in Seq(Strings \ {"", "xml", "xmlns"})
  /\ Uris \subseteq Strings /\ Declarable \subseteq Strings
  /\ \A ns \in Uris : ns \in DOMAIN Registry /\ Registry[ns] \in Strings \ {"xmlns"}
  /\ \A nsmap \in Nsmaps : nsmap \in Seq(Name) /\ OncePerPrefix(nsmap)

VARIABLES
  doc,      \* the document
  counter,  \* _DocHolder._ns_counter
  last,     \* the last operation: [op, element, prefix, ns]
  edits     \* operations left

vars == <<doc, counter, last, edits>>

NoOperation == [op |-> "none", element |-> NoElement, prefix |-> "", ns |-> ""]

Init ==
  /\ doc \in Documents
  /\ counter = 0
  /\ last = NoOperation
  /\ edits = EditsOf(doc)

-----------------------------------------------------------------------------
(* Choosing a prefix.                                                      *)

Declare(d, e, prefix, uri) == [d EXCEPT !.decls[e] = Put(@, <<prefix, uri>>)]

(* new_prefix: the first number from the counter on whose prefix is not    *)
(* declared on the way up; the counter ends behind it.                     *)
Inscope(d, e) == {pair[1] : pair \in ToSet(DeclsAlong(d, Line(d, e)))}

NewPrefixUnlessOwn(d, e, n) ==
  CHOOSE i \in DOMAIN Generated :
    /\ i > n /\ ~HasPrefix(d.decls[e], Generated[i])
    /\ \A j \in n + 1 .. i - 1 : HasPrefix(d.decls[e], Generated[j])

NewPrefix(d, e, n) ==
  CHOOSE i \in DOMAIN Generated :
    /\ i > n /\ Generated[i] \notin Inscope(d, e)
    /\ \A j \in n + 1 .. i - 1 : Generated[j] \in Inscope(d, e)

NumbersLeft(d, e, n) == \E i \in DOMAIN Generated : i > n /\ Generated[i] \notin Inscope(d, e)

(* A registered prefix, or else a new one; either is declared on e.        *)
DeclareNew(w, e, ns) ==
  IF Registry[ns] # ""
    THEN [d |-> Declare(w.d, e, Registry[ns], ns), n |-> w.n, prefix |-> Registry[ns]]
    ELSE LET i == NewPrefix(w.d, e, w.n)
         IN  [d |-> Declare(w.d, e, Generated[i], ns), n |-> i, prefix |-> Generated[i]]

Reused(w, pairs, offers) == [d |-> w.d, n |-> w.n, prefix |-> pairs[Min(offers)][1]]

(* _ensure_ns_prefix: the first declaration of ns on the way up serves.    *)
(* Whether a nearer one of its prefix hides it is not asked.               *)
EnsureNsPrefixOfDefault(w, e, ns) ==
  LET pairs == DeclsAlong(w.d, Line(w.d, e))
      offers == {i \in DOMAIN pairs : pairs[i][2] = ns}
  IN  IF offers # {} THEN Reused(w, pairs, offers) ELSE DeclareNew(w, e, ns)

EnsureNsPrefix(w, e, ns) ==
  LET pairs == DeclsAlong(w.d, Line(w.d, e))
      offers == {i \in DOMAIN pairs : pairs[i][2] = ns /\ pairs[i][1] # ""}
  IN  IF offers # {} THEN Reused(w, pairs, offers) ELSE DeclareNew(w, e, ns)

(* _prefix_for_ns: a prefix of the map, its default, or a registered one.  *)
PrefixForNs(ns, nsmap) ==
  LET offers == {i \in DOMAIN nsmap : nsmap[i][2] = ns /\ nsmap[i][1] # ""}
  IN  IF ns = "" THEN ""
      ELSE IF offers # {} THEN nsmap[Min(offers)][1]
      ELSE IF \E j \in DOMAIN nsmap : nsmap[j] = <<"", ns>> THEN ""
      ELSE Registry[ns]

Rename(w, e, prefix, ns) == [w EXCEPT !.d.name[e] = <<prefix, ns>>]

(* _finalize_element_ns: a default declaration serves a name with no       *)
(* prefix; any other declaration found first gives the name its prefix.    *)
FinalizeElementNs(w, e) ==
  LET prefix == w.d.name[e][1]
      ns == w.d.name[e][2]
      pairs == DeclsAlong(w.d, Line(w.d, e))
      offers == {i \in DOMAIN pairs : pairs[i][2] = ns /\ (pairs[i][1] # "" \/ prefix = "")}
  IN  IF ns = "" THEN w
      ELSE IF offers # {} THEN Rename(w, e, pairs[Min(offers)][1], ns)
      ELSE IF prefix # "" THEN [w EXCEPT !.d = Declare(w.d, e, prefix, ns)]
      ELSE LET new == DeclareNew(w, e, ns)
           IN  Rename([d |-> new.d, n |-> new.n], e, new.prefix, ns)

-----------------------------------------------------------------------------
(* The operations.                                                         *)

Edit(op, e, prefix, ns) ==
  /\ edits' = edits - 1
  /\ last' = [op |-> op, element |-> e, prefix |-> prefix, ns |-> ns]

OtherEdit == Edit("other", NoElement, "", "")

(* el.set(key, value).  A second attribute of the same namespace and local *)
(* name replaces the value; which of the two prefixes stays is the crate's.*)
WithAttribute(attrs, prefix, ns) ==
  LET same == {a \in attrs : a[2] = ns}
  IN  {attrs \cup {<<prefix, ns>>} : x \in IF same = {} THEN {1} ELSE {}}
        \cup {attrs : x \in same}
        \cup {(attrs \ same) \cup {<<prefix, ns>>} : x \in same}

(* A prefix and namespace that do not go together are refused when they are*)
(* declared, which may have used up a number.                              *)
SetAttribute(e, ns) ==
  /\ NumbersLeft(doc, e, counter)
  /\ LET w == [d |-> doc, n |-> counter, prefix |-> ""]
         ensured == IF ns = "" THEN w ELSE EnsureNsPrefix(w, e, ns)
     IN  /\ counter' = ensured.n
         /\ \/ /\ ValidQName(ensured.prefix, ns)
               /\ \E attrs \in WithAttribute(doc.attrs[e], ensured.prefix, ns) :
                    doc' = [ensured.d EXCEPT !.attrs[e] = attrs]
               /\ Edit("attribute", e, ensured.prefix, ns)
            \/ /\ ~ValidQName(ensured.prefix, ns)
               /\ OtherEdit
               /\ UNCHANGED doc

(* set("xmlns", uri) and set("xmlns:prefix", uri)                          *)
SetXmlns(e, prefix, uri) ==
  /\ IF ValidDeclaration(prefix, uri)
       THEN doc' = Declare(doc, e, prefix, uri) /\ Edit("declaration", NoElement, prefix, "")
       ELSE doc' = doc /\ OtherEdit
  /\ UNCHANGED counter

(* Removal asks for the exact namespace.                                   *)
RemoveAttribute(e, ns) ==
  /\ doc' = [doc EXCEPT !.attrs[e] = {a \in @ : a[2] # ns}]
  /\ OtherEdit
  /\ UNCHANGED counter

(* el.tag = value                                                          *)
SetTag(e, ns) ==
  /\ NumbersLeft(doc, e, counter)
  /\ LET prefix == PrefixForNs(ns, Nsmap(doc, e))
         named == [d |-> [doc EXCEPT !.name[e] = <<prefix, ns>>], n |-> counter]
         done == FinalizeElementNs(named, e)
     IN  /\ ValidQName(prefix, ns)
         /\ doc' = done.d
         /\ counter' = done.n
         /\ Edit("tag", e, done.d.name[e][1], ns)

(* Node.set_qname, with any prefix the caller likes.                       *)
SetQName(e, prefix, ns) ==
  /\ doc' = IF ValidQName(prefix, ns) THEN [doc EXCEPT !.name[e] = <<prefix, ns>>] ELSE doc
  /\ OtherEdit
  /\ UNCHANGED counter

(* SubElement(parent, tag, nsmap=nsmap): built, attached, then finalized.  *)
Build(d, e, name, decls) ==
  [kids |-> [x \in Elements(d) \cup {e} |-> IF x = e THEN <<>> ELSE d.kids[x]],
   decls |-> [x \in Elements(d) \cup {e} |-> IF x = e THEN decls ELSE d.decls[x]],
   name |-> [x \in Elements(d) \cup {e} |-> IF x = e THEN name ELSE d.name[x]],
   attrs |-> [x \in Elements(d) \cup {e} |-> IF x = e THEN {} ELSE d.attrs[x]]]

AppendTo(d, parent, e) == [d EXCEPT !.kids[parent] = Append(@, e)]

NewSubElement(parent, e, ns, nsmap) ==
  /\ e \notin Elements(doc)
  /\ \A i \in DOMAIN nsmap : ValidDeclaration(nsmap[i][1], nsmap[i][2])
  /\ LET prefix == PrefixForNs(ns, nsmap)
         built == AppendTo(Build(doc, e, <<prefix, ns>>, nsmap), parent, e)
         done == FinalizeElementNs([d |-> built, n |-> counter], e)
     IN  /\ ValidQName(prefix, ns)
         /\ NumbersLeft(built, e, counter)
         /\ doc' = done.d
         /\ counter' = done.n
         /\ Edit("subelement", e, done.d.name[e][1], ns)

(* parent.append(e) within the document leaves every name and declaration  *)
(* as it is.                                                               *)
Move(e, parent) ==
  /\ ParentOf(doc, e) # NoElement
  /\ parent \notin Below(doc, e)
  /\ doc' = AppendTo(Detach(doc, e), parent, e)
  /\ Edit("move", NoElement, "", "")
  /\ UNCHANGED counter

Next ==
  /\ edits > 0
  /\ \E e \in Elements(doc) :
       \/ \E ns \in Uris : SetAttribute(e, ns)
       \/ \E prefix \in Declarable, uri \in Uris : SetXmlns(e, prefix, uri)
       \/ \E ns \in Uris : RemoveAttribute(e, ns)
       \/ \E ns \in Uris : SetTag(e, ns)
       \/ \E prefix \in Declarable, ns \in Uris : SetQName(e, prefix, ns)
       \/ \E new \in Spare, ns \in Uris, nsmap \in Nsmaps : NewSubElement(e, new, ns, nsmap)
       \/ \E parent \in Elements(doc) : Move(e, parent)

Spec == Init /\ [][Next]_vars

-----------------------------------------------------------------------------
(* Properties.                                                             *)

(* Every sequence of operations leaves a document as IsDocument describes  *)
(* it: the reserved prefixes and namespaces are kept apart, no start tag   *)
(* and no element has two of a kind, and the tree stays a tree.  It may    *)
(* undeclare a prefix, which set accepts though no parser does.            *)
TypeOK == counter \in 0 .. Len(Generated) /\ IsDocument(doc)

BoundPrefixes ==
  (UNION {{pair[1] : pair \in ToSet(doc.decls[e])} : e \in Elements(doc)}) \cup {"", "xml"}

ResolvesAlike(copy, e) ==
  /\ OncePerPrefix(copy.decls[e])
  /\ \A x \in Below(doc, e) :
       LET there == Line(copy, x)
           here == Line(doc, x)
       IN  \A p \in BoundPrefixes : NearestOn(copy, there, p) = NearestOn(doc, here, p)

(* import_subtree: in a copy of a subtree every prefix means, at every     *)
(* element, what it means in the source, also the undeclared default       *)
(* namespace, and the new root declares no prefix twice.                   *)
ImportResolvesAlike == \A e \in Elements(doc) : ResolvesAlike(ImportSubtree(doc, e), e)

(* to_xml_standalone: the same of the serialized subtree, whose missing    *)
(* declarations are found by a different walk, outermost first.            *)
StandaloneResolvesAlike == \A e \in Elements(doc) : ResolvesAlike(Standalone(doc, e), e)

(* nsmap: the dict built from the outermost declaration inwards holds, for *)
(* every prefix, the nearest declaration.                                  *)
NsmapIsTheScope ==
  \A e \in Elements(doc) :
    LET map == Nsmap(doc, e)
        line == Line(doc, e)
    IN  /\ OncePerPrefix(map)
        /\ \A pair \in ToSet(map) : NearestOn(doc, line, pair[1]) = pair[2]
        /\ \A p \in BoundPrefixes \ {"xml"} : NearestOn(doc, line, p) # "" => HasPrefix(map, p)

(* The three readings of a scope agree with the nearest declaration, and   *)
(* so with one another.                                                    *)
ScopeIsKept == ImportResolvesAlike /\ StandaloneResolvesAlike /\ NsmapIsTheScope

(* Resolution of the name the last operation chose a prefix for.  A default*)
(* namespace does not apply to attributes.                                 *)
Chosen == last.op \in {"attribute", "tag", "subelement"} /\ last.ns # ""

ResolvesThere ==
  /\ last.op = "attribute" => last.prefix # ""
  /\ Resolve(doc, last.element, last.prefix) = last.ns

Hidden ==
  \E i, j \in DOMAIN Line(doc, last.element) :
    /\ i < j
    /\ last.op = "attribute" => last.prefix # ""
    /\ Contains(doc.decls[Line(doc, last.element)[j]], <<last.prefix, last.ns>>)
    /\ HasPrefix(doc.decls[Line(doc, last.element)[i]], last.prefix)

(* The prefix that set, tag and SubElement choose means the given namespace*)
(* at the element, unless the declaration it was taken from is hidden by a *)
(* nearer one of the same prefix (see PrefixInScope).                      *)
NamesResolveUnlessHidden == Chosen => ResolvesThere \/ Hidden

(* "Return a serialization prefix for ``ns`` that is in scope on this      *)
(* element" (_ensure_ns_prefix): the prefix set gives a namespaced         *)
(* attribute means that namespace at the element.                          *)
PrefixInScope == last.op = "attribute" /\ last.ns # "" => ResolvesThere

(* "a generated prefix never shadows or redeclares an existing binding"    *)
(* (new_prefix), and nothing else does by accident: an operation changes   *)
(* what a bound prefix means somewhere only by declaring that very prefix  *)
(* (set("xmlns:p"), or the registered prefix of the namespace it is given) *)
(* or by moving the element away.                                          *)
BindingsStay ==
  [][\A e \in Elements(doc), p \in BoundPrefixes :
       \/ last'.op = "move"
       \/ last'.op = "declaration" /\ last'.prefix = p
       \/ p # "" /\ last'.ns \in DOMAIN Registry /\ Registry[last'.ns] = p
       \/ Resolve(doc, e, p) \in {"", Resolve(doc', e, p)}]_vars
=============================================================================
