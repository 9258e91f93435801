------------------------------ MODULE BareNames ------------------------------
(***************************************************************************)
(* Three searches of a subtree for bare element names (no prefix, no       *)
(* namespace) that would fall under a default namespace, in whatever       *)
(* document the operations of Namespaces have made.                        *)
(***************************************************************************)
EXTENDS Namespaces

Bare(d, e) == d.name[e] = <<"", "">>

(* The default below e's start tag, given the one above it.                *)
DefaultWithin(d, e, inherited) ==
  FoldLeft(LAMBDA old, pair : IF pair[1] = "" THEN pair[2] ELSE old, inherited, d.decls[e])

Pushed(d, e, default) == [i \in DOMAIN d.kids[e] |-> <<d.kids[e][i], default>>]

(* validation_default_names: a stack of elements with the default above.   *)
RECURSIVE DefaultNamesFrom(_, _)
DefaultNamesFrom(d, stack) ==
  IF stack = <<>> THEN {}
  ELSE LET e == Last(stack)[1]
           default == DefaultWithin(d, e, Last(stack)[2])
           changed == IF Bare(d, e) /\ default # "" THEN {<<e, default>>} ELSE {}
       IN  changed \cup DefaultNamesFrom(d, Front(stack) \o Pushed(d, e, default))

ValidationDefaultNames(d, root) == DefaultNamesFrom(d, <<<<root, "">>>>)

(* _qualify_default_namespace_subtree: the same walk, renaming as it goes. *)
RECURSIVE QualifyFrom(_, _)
QualifyFrom(d, stack) ==
  IF stack = <<>> THEN d
  ELSE LET e == Last(stack)[1]
           default == DefaultWithin(d, e, Last(stack)[2])
           named == IF Bare(d, e) /\ default # "" THEN [d EXCEPT !.name[e] = <<"", default>>]
                    ELSE d
       IN  QualifyFrom(named, Front(stack) \o Reverse(Pushed(d, e, default)))

QualifyDefaultNamespaceSubtree(d, root) == QualifyFrom(d, <<<<root, "">>>>)

(* has_bare_name_under_default_namespace: a walk along first child, next   *)
(* sibling and parent links.  "scope" holds the elements on the way down   *)
(* that declare a default, each with the default above it.                 *)
DeclaresDefault(d, e) == HasPrefix(d.decls[e], "")

NextSibling(d, e) ==
  LET s == d.kids[ParentOf(d, e)]
      i == CHOOSE j \in DOMAIN s : s[j] = e
  IN  IF i = Len(s) THEN NoElement ELSE s[i + 1]

LeaveKeepingScope(s, e) == s

Leave(s, e) ==
  IF s.scope # <<>> /\ Last(s.scope)[1] = e
    THEN [default |-> Last(s.scope)[2], scope |-> Front(s.scope)]
    ELSE s

RECURSIVE ClimbFrom(_, _, _, _), BareNameFrom(_, _, _, _)
ClimbFrom(d, root, e, s) ==
  IF e = root THEN FALSE
  ELSE IF NextSibling(d, e) # NoElement
    THEN BareNameFrom(d, root, NextSibling(d, e), Leave(s, e))
    ELSE ClimbFrom(d, root, ParentOf(d, e), Leave(s, e))

BareNameFrom(d, root, e, s) ==
  LET entered ==
        IF DeclaresDefault(d, e)
          THEN [default |-> DefaultWithin(d, e, ""), scope |-> Append(s.scope, <<e, s.default>>)]
          ELSE s
  IN  IF entered.default # "" /\ Bare(d, e) THEN TRUE
      ELSE IF d.kids[e] # <<>> THEN BareNameFrom(d, root, Head(d.kids[e]), entered)
      ELSE ClimbFrom(d, root, e, entered)

HasBareNameUnderDefault(d, root, inherited) ==
  BareNameFrom(d, root, root, [default |-> inherited, scope |-> <<>>])

-----------------------------------------------------------------------------
(* Properties.                                                             *)

BareUnder(e) ==
  {pair \in {<<x, Resolve(doc, x, "")>> : x \in Below(doc, e)} :
     Bare(doc, pair[1]) /\ pair[2] # ""}

(* The native pre-order walk that decides whether tostring needs a         *)
(* qualified copy, the Python walk that qualifies it and the native walk   *)
(* that does so for validation find the same elements, exactly the bare    *)
(* names under a default namespace, and give each the nearest default.     *)
QualifiersAgree ==
  \A e \in Elements(doc) :
    LET names == ValidationDefaultNames(ValidationCopy(doc, e), e)
        qualified == QualifyDefaultNamespaceSubtree(ImportSubtree(doc, e), e)
    IN  /\ names = BareUnder(e)
        /\ HasBareNameUnderDefault(doc, e, Resolve(doc, e, "")) <=> (names # {})
        /\ \A x \in Elements(doc) :
             IF qualified.name[x] = doc.name[x] THEN \A pair \in names : pair[1] # x
             ELSE <<x, qualified.name[x][2]>> \in names
=============================================================================
