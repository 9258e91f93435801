------------------------------- MODULE Lists -------------------------------
(***************************************************************************)
(* Lists that lose members, without an order of removal: what is left of a *)
(* child list when nodes are detached from it, or of a scan when some of   *)
(* its nodes do not count.                                                 *)
(***************************************************************************)
EXTENDS Integers, Sequences, SequencesExt

(* The list without the members of S.                                      *)
NotIn(seq, S) ==
  LET kept[i \in 0..Len(seq)] ==
        IF i = 0 THEN <<>>
        ELSE IF seq[i] \in S THEN kept[i - 1]
        ELSE Append(kept[i - 1], seq[i])
  IN  kept[Len(seq)]

(* The members of S, as often and in the order they are listed.            *)
Among(seq, S) == NotIn(seq, ToSet(seq) \ S)
=============================================================================
