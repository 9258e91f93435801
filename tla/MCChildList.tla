---------------------------- MODULE MCChildList ----------------------------
(* Elements, text nodes and parents are interchangeable: every operator of  *)
(* ChildList treats them alike, and the runs check no liveness.             *)
EXTENDS ChildList, TLC

Interchangeable == Permutations(Elem) \cup Permutations(Text) \cup Permutations(Parent)
=============================================================================
