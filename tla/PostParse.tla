----------------------------- MODULE PostParse ------------------------------
(***************************************************************************)
(* The parser options that are applied to a parsed tree before anything    *)
(* of it is shown: comments and processing instructions may be dropped,    *)
(* CDATA sections may become text, and then adjacent text nodes are joined.*)
(* The walk starts at the document element, so what precedes or follows it *)
(* in the document is untouched.  A dropped node stays in the arena with   *)
(* its payload cleared.                                                    *)
(***************************************************************************)
EXTENDS Tree

(* remove_child and release_detached_subtree_payload.                      *)
DropKeepingPayload(t, parent, n) ==
  [t EXCEPT !.kids[parent] = NotIn(@, {n})]

Drop(t, parent, n) ==
  [t EXCEPT !.kids[parent] = NotIn(@, {n}),
            !.text[n] = <<>>]

(* One child of the first pass.                                            *)
FilterChild(t, parent, n, opts) ==
  IF \/ t.kind[n] = "comment" /\ opts.removeComments
     \/ t.kind[n] = "pi" /\ opts.removePis
    THEN Drop(t, parent, n)
  ELSE IF t.kind[n] = "cdata" /\ opts.stripCdata
    THEN [t EXCEPT !.kind[n] = "text"]
  ELSE t

FilterChildren(t, parent, children, opts) ==
  FoldLeft(LAMBDA u, c : FilterChild(u, parent, c, opts), t, children)

ElementsAmong(t, s) == Among(s, {c \in Nodes(t) : t.kind[c] = "element"})

(* The elements still to do are a stack, and each is on it once; the       *)
(* children of one are visited along links read before each change.        *)
FilterTree(t, root, opts) ==
  LET visit[i \in 0 .. Cardinality(Nodes(t))] ==
        LET now      == visit[i - 1]
            parent   == Last(now.stack)
            children == now.tree.kids[parent]
        IN  IF i = 0 THEN [tree |-> t, stack |-> <<root>>]
            ELSE IF now.stack = <<>> THEN now
            ELSE [tree  |-> FilterChildren(now.tree, parent, children, opts),
                  stack |-> Front(now.stack) \o ElementsAmong(now.tree, children)]
  IN  visit[Cardinality(Nodes(t))].tree

(* One child of the second pass: text joins the text node that heads the   *)
(* run, anything else (a CDATA section that is kept, too) ends the run.    *)
JoinAcross(s, parent, n) ==
  IF s.t.kind[n] # "text" THEN s
  ELSE IF s.head = NoNode THEN [s EXCEPT !.head = n]
  ELSE [s EXCEPT !.t = Drop([s.t EXCEPT !.text[s.head] = @ \o s.t.text[n]], parent, n)]

Join(s, parent, n) ==
  IF s.t.kind[n] # "text" THEN [s EXCEPT !.head = NoNode]
  ELSE IF s.head = NoNode THEN [s EXCEPT !.head = n]
  ELSE [s EXCEPT !.t = Drop([s.t EXCEPT !.text[s.head] = @ \o s.t.text[n]], parent, n)]

JoinChildren(t, parent, children) ==
  FoldLeft(LAMBDA s, c : Join(s, parent, c), [t |-> t, head |-> NoNode], children).t

CoalesceTree(t, root) ==
  LET visit[i \in 0 .. Cardinality(Nodes(t))] ==
        LET now      == visit[i - 1]
            parent   == Last(now.stack)
            children == now.tree.kids[parent]
        IN  IF i = 0 THEN [tree |-> t, stack |-> <<root>>]
            ELSE IF now.stack = <<>> THEN now
            ELSE [tree  |-> JoinChildren(now.tree, parent, children),
                  stack |-> Front(now.stack) \o ElementsAmong(now.tree, children)]
  IN  visit[Cardinality(Nodes(t))].tree

Postprocess(t, root, opts) ==
  IF opts.removeComments \/ opts.removePis \/ opts.stripCdata
    THEN CoalesceTree(FilterTree(t, root, opts), root)
    ELSE t

-----------------------------------------------------------------------------
(* Reference: what is kept, as a nested value without node identities.     *)

Kept(t, n, opts) ==
  /\ ~(t.kind[n] = "comment" /\ opts.removeComments)
  /\ ~(t.kind[n] = "pi" /\ opts.removePis)

(* A child as <<kind, text, children>>; a text next to a text is one text. *)
AddShown(shown, child) ==
  IF /\ shown # <<>> /\ Last(shown)[1] = "text" /\ child[1] = "text"
    THEN [shown EXCEPT ![Len(shown)][2] = @ \o child[2]]
    ELSE Append(shown, child)

ShowPlain(t, n) ==
  LET show[m \in Nodes(t)] ==
        <<t.kind[m], t.text[m], Map(LAMBDA c : show[c], t.kids[m])>>
  IN  show[n]

ShowJoined(t, n, opts) ==
  LET show[m \in Nodes(t)] ==
        LET kept == Among(t.kids[m], {c \in Nodes(t) : Kept(t, c, opts)})
            kind == IF t.kind[m] = "cdata" /\ opts.stripCdata THEN "text" ELSE t.kind[m]
        IN  <<kind, t.text[m],
              FoldLeft(AddShown, <<>>, Map(LAMBDA c : show[c], kept))>>
  IN  show[n]

(* What a reader of the options expects of the document element's tree.    *)
Expected(t, root, opts) ==
  IF opts.removeComments \/ opts.removePis \/ opts.stripCdata
    THEN ShowJoined(t, root, opts)
    ELSE ShowPlain(t, root)
=============================================================================
