------------------------------ MODULE LockStep ------------------------------
(***************************************************************************)
(* The trees that the node ids of a document form, and the walk of two     *)
(* trees in lock step by which repoint_subtree (src/src/lib.rs) pairs the  *)
(* nodes of a subtree with those of its copy.  The links of a document are *)
(* a function k: k[n] is the list of the children of n.  A node stands for *)
(* itself and the text behind it, its tail: etree.py moves, removes and    *)
(* copies the two together, and a text node never has a wrapper.           *)
(***************************************************************************)
EXTENDS SlotTable, Lists

Links == [NodeId -> Seq(NodeId)]

ClosedUnder(k, T) == \A n \in T : ToSet(k[n]) \subseteq T

\* The subtree of s: what is in every set that holds s and the children of
\* whatever it holds.
Below(k, s) ==
  {n \in NodeId : \A T \in SUBSET NodeId : s \in T /\ ClosedUnder(k, T) => n \in T}

\* The links of an arena of size nodes: a node is the child of one parent at
\* most and at one place, and going down from child to child ends.
LinksOK(size, k) ==
  /\ k \in Links
  /\ \A p \in NodeId : \A i \in DOMAIN k[p] : p < size /\ k[p][i] < size
  /\ \A p, q \in NodeId : \A i \in DOMAIN k[p], j \in DOMAIN k[q] :
       k[p][i] = k[q][j] => p = q /\ i = j
  /\ \A T \in SUBSET NodeId : T # {} => \E n \in T : ToSet(k[n]) \cap T = {}

\* The links of the nodes of S only.
Within(k, S) == [n \in NodeId |-> IF n \in S THEN k[n] ELSE <<>>]

HasParent(k, n) == \E p \in NodeId : n \in ToSet(k[p])

Detached(k, n) == [p \in NodeId |-> NotIn(k[p], {n})]

Attached(k, p, n) == [k EXCEPT ![p] = Append(@, n)]

\* The links l of the destination with the copy f of nodes of k.
WithCopy(k, l, f) ==
  [m \in NodeId |-> IF \E s \in DOMAIN f : f[s] = m
                    THEN LET s == CHOOSE s \in DOMAIN f : f[s] = m
                         IN  [i \in DOMAIN k[s] |-> f[k[s][i]]]
                    ELSE l[m]]

-----------------------------------------------------------------------------
\* The inner loop: the children of both nodes of a pair, as long as both lists
\* last.
\* mutant: the children of the copy are taken last first
ChildPairsBackwards(k, l, p) ==
  {<<k[p[1]][i], l[p[2]][Len(l[p[2]]) + 1 - i]>> : i \in DOMAIN k[p[1]] \cap DOMAIN l[p[2]]}
ChildPairs(k, l, p) ==
  {<<k[p[1]][i], l[p[2]][i]>> : i \in DOMAIN k[p[1]] \cap DOMAIN l[p[2]]}

\* The outer loop reaches, from <<s, d>> down, the pairs that are in every set
\* that holds it and the child pairs of whatever it holds.  In which order it
\* meets them is left open.
LockStep(k, l, s, d) ==
  LET Pair == Below(k, s) \X Below(l, d)
  IN  {p \in Pair : \A W \in SUBSET Pair :
         <<s, d>> \in W /\ (\A q \in W : ChildPairs(k, l, q) \subseteq W) => p \in W}
=============================================================================
