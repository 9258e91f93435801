---------------------------- MODULE MCProxyCache ----------------------------
(***************************************************************************)
(* ProxyCache on a small instance.  Wrappers and calls are model values    *)
(* that no definition tells apart, so both are symmetry sets; holders are  *)
(* not, for they differ in the document they start with.  The properties   *)
(* are invariants and action properties, for which symmetry is sound.      *)
(***************************************************************************)
EXTENDS ProxyCache, TLC

\* One document is a root with two children, the other is empty.
Alone == [n \in NodeId |-> <<>>]
Empty0 == [size |-> 0, kids |-> Alone]
SmallDocs ==
  {[h \in Holder |-> IF h = CHOOSE g \in Holder : TRUE
                     THEN [size |-> 3, kids |-> [Alone EXCEPT ![0] = <<1, 2>>]]
                     ELSE Empty0]}

\* Bound: copies take the new ids in the order of the ids of their nodes.  The
\* theorems are for any order.
CopiesInOrder ==
  \A c \in Call : \A m, n \in DOMAIN move'[c].copy :
    m < n => move'[c].copy[m] < move'[c].copy[n]

\* Bound: several wrappers live at a time only while one more node would fit.
FewWrappers ==
  (\E h \in Holder : arena[h] = MaxId) =>
    Cardinality({w \in Wrapper : view[w] # None}) <= 1

Symmetry ==
  Permutations(Wrapper) \cup Permutations(Call)
=============================================================================
