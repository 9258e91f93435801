-------------------------------- MODULE Batch --------------------------------
(***************************************************************************)
(* What parse_many, fetch_many and fetch_and_parse_many promise their      *)
(* caller (src/src/lib.rs): a list of the same length as the input,        *)
(* index-aligned with it, each slot a result or an error of that very      *)
(* item.  A batch never fails wholesale, and it does return.               *)
(***************************************************************************)
EXTENDS Naturals

CONSTANTS
  NItems,    \* Length of the input list.
  Outcome,   \* What may come of an item: records with a field "item".
  NoOutcome  \* A slot nothing has been put into.

Item == 0 .. NItems - 1

VARIABLES
  results,   \* results[i]: the slot of item i
  answer     \* the returned list, NoOutcome until then

vars == <<results, answer>>

Init ==
  /\ results = [i \in Item |-> NoOutcome]
  /\ answer = NoOutcome

Resolve(i) ==
  /\ results[i] = NoOutcome
  /\ \E o \in Outcome :
       /\ o.item = i
       /\ results' = [results EXCEPT ![i] = o]
  /\ UNCHANGED answer

Return ==
  /\ answer = NoOutcome
  /\ \A i \in Item : results[i] # NoOutcome
  /\ answer' = results
  /\ UNCHANGED results

Next == Return \/ \E i \in Item : Resolve(i)

Spec == Init /\ [][Next]_vars /\ WF_vars(Next)
=============================================================================
