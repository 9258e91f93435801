---------------------------- MODULE MCIterParse ----------------------------
(* Small inputs for IterParse: every root element with up to MaxInner events *)
(* inside, and one long input with the rest of the kinds.                    *)
EXTENDS IterParse

CONSTANT MaxInner   \* bound on the events inside the root element

Ev(kind, name) == [kind |-> kind, name |-> name]

Inner ==
  {Ev("start", "a"), Ev("end", "a"), Ev("text", ""), Ev("cdata", ""), Ev("comment", "")}

(* Tags close in the order in which they were opened.                      *)
OpenNames[s \in UNION {[1..n -> Inner] : n \in 0..MaxInner}] ==
  IF s = <<>> THEN <<>>
  ELSE LET before == OpenNames[SubSeq(s, 1, Len(s) - 1)]
           e == s[Len(s)]
       IN  CASE e.kind = "start" -> Append(before, e.name)
             [] e.kind = "end" /\ before # <<>> /\ before[Len(before)] = e.name
                  -> SubSeq(before, 1, Len(before) - 1)
             [] e.kind = "end" -> Append(before, "unmatched")
             [] OTHER -> before

Document(s) == <<Ev("start", "r")>> \o s \o <<Ev("end", "r")>>

SmallDocuments ==
  {Document(s) : s \in {s \in DOMAIN OpenNames : OpenNames[s] = <<>>}}

(* A comment and blank text before the root, a declaration on it, a child  *)
(* that the filter skips, and a processing instruction after it.           *)
LongDocument ==
  <<Ev("comment", ""), Ev("text", ""), Ev("start-ns", ""), Ev("start", "r"),
    Ev("start", "b"), Ev("text", ""), Ev("end", "b"), Ev("text", ""), Ev("cdata", ""),
    Ev("pi", ""), Ev("text", ""), Ev("start", "a"), Ev("end", "a"), Ev("text", ""),
    Ev("end", "r"), Ev("end-ns", ""), Ev("text", ""), Ev("pi", "")>>

JobsOf(inputs, batches, events, removed, strips) ==
  [source : inputs, events : {events}, removed : removed, strip_cdata : strips,
   tags : {{"a", "r"}}, batch : batches]

Jobs ==
  JobsOf(SmallDocuments, {1, 3}, {"end"}, {{}, {"comment"}}, BOOLEAN)
    \cup JobsOf(SmallDocuments, {2}, {"start", "end", "comment"}, {{}}, {TRUE})
    \cup JobsOf({LongDocument}, {2, 3}, Kind \ CharData, {{}, {"pi"}}, {FALSE})
=============================================================================
