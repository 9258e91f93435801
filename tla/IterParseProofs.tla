-------------------------- MODULE IterParseProofs --------------------------
(***************************************************************************)
(* For every input, every batch size and any number of calling threads:    *)
(* iterparse delivers the results in input order, stops at the end only,   *)
(* never fills a cleared element again, and never leaves two text nodes as *)
(* neighbours; its stack is what the input has open, every result shows its*)
(* own element, and the tree holds what the input says but for what loop   *)
(* bodies took away.                                                       *)
(***************************************************************************)
EXTENDS IterParse, TLAPS, SequenceTheorems, FiniteSetTheorems, WellFoundedInduction

-----------------------------------------------------------------------------
(* Sequences and jobs.                                                     *)

(* The queue as a whole: an enqueued result comes last, and handing out    *)
(* the first pending result changes nothing.                               *)
LEMMA QueueMoves ==
  ASSUME NEW S, NEW h \in Seq(S), NEW p \in Seq(S), NEW x \in S
  PROVE  /\ h \o p \in Seq(S)
         /\ h \o Append(p, x) = Append(h \o p, x)
         /\ p # <<>> => /\ Head(p) \in S /\ Tail(p) \in Seq(S)
                        /\ Append(h, Head(p)) \o Tail(p) = h \o p
<1>1. h \o p \in Seq(S)
  OBVIOUS
<1>2. h \o Append(p, x) = Append(h \o p, x)
  OBVIOUS
<1>3. ASSUME p # <<>>
      PROVE  /\ Head(p) \in S /\ Tail(p) \in Seq(S)
             /\ Append(h, Head(p)) \o Tail(p) = h \o p
  BY <1>3
<1> QED
  BY <1>1, <1>2, <1>3

(* What is known of a job.                                                 *)
LEMMA JobFacts ==
  ASSUME job \in Job
  PROVE  /\ source \in Seq([kind : Kind, name : STRING])
         /\ Len(source) \in Nat
         /\ job.batch \in Nat \ {0}
         /\ job.events \cap CharData = {}
<1>1. /\ job.source \in Seq([kind : Kind, name : STRING])
      /\ job.batch \in Nat \ {0}
      /\ job.events \in SUBSET (Kind \ CharData)
  BY IterParseAssumption DEF JobType
<1> QED
  BY <1>1 DEF source

(* A set of naturals that is not empty has a least element.                *)
LEMMA LeastElement ==
  ASSUME NEW S \in SUBSET Nat, S # {}
  PROVE  \E x \in S : \A y \in S : x <= y
<1> DEFINE R == OpToRel(<, Nat)
<1>1. PICK x \in S : \A y \in S : <<y, x>> \notin R
  BY NatLessThanWellFounded, WFMin
<1>2. \A y \in S : ~(y < x)
  BY <1>1 DEF OpToRel
<1> QED
  BY <1>2

(* The tail of a node ends inside its chain, after text and before no text. *)
LEMMA TailEndIs ==
  ASSUME NEW S, NEW s \in Seq(S), NEW k \in DOMAIN s
  PROVE  /\ TailEnd(s, k) \in k..Len(s)
         /\ \A j \in (k + 1)..TailEnd(s, k) : IsCharData(s[j])
         /\ TailEnd(s, k) < Len(s) => ~IsCharData(s[TailEnd(s, k) + 1])
<1> DEFINE Stop(m) == m < Len(s) => ~IsCharData(s[m + 1])
           T == {m \in k..Len(s) : Stop(m)}
<1>1. k \in Nat /\ Len(s) \in Nat /\ k <= Len(s)
  OBVIOUS
<1>2. Len(s) \in T
  BY <1>1
<1>3. T \subseteq Nat /\ T # {}
  BY <1>1, <1>2
<1>4. PICK x \in T : \A y \in T : x <= y
  <2> HIDE DEF T
  <2> QED
    BY <1>3, LeastElement
<1>6. \A j \in (k + 1)..x : IsCharData(s[j])
  <2> SUFFICES ASSUME NEW j \in (k + 1)..x, ~IsCharData(s[j])
               PROVE  FALSE
    OBVIOUS
  <2>1. j - 1 \in k..Len(s) /\ j - 1 < x /\ (j - 1) + 1 = j
    BY <1>1
  <2>2. Stop(j - 1)
    BY <2>1
  <2> QED
    BY <1>1, <1>4, <2>1, <2>2
<1>7. \E m \in k..Len(s) : (\A j \in (k + 1)..m : IsCharData(s[j])) /\ Stop(m)
  BY <1>6
<1> QED
  BY <1>7 DEF TailEnd

(* Cutting a tail, with or without its owner, leaves a chain of the same   *)
(* nodes, keeps an empty chain empty, and brings no two text nodes         *)
(* together: what follows a tail is no text.                               *)
LEMMA CutKeeps ==
  ASSUME NEW S, NEW s \in Seq(S), NEW e, NEW whole \in BOOLEAN
  PROVE  /\ Cut(s, e, whole) \in Seq(S)
         /\ s = <<>> => Cut(s, e, whole) = <<>>
         /\ Merged(s) => Merged(Cut(s, e, whole))
<1>1. CASE e \notin Image(s)
  BY <1>1 DEF Cut
<1>2. CASE e \in Image(s)
  <2> DEFINE k == CHOOSE j \in DOMAIN s : s[j] = e
             m == TailEnd(s, k)
             a == IF whole THEN k - 1 ELSE k
             left == SubSeq(s, 1, a)
             right == SubSeq(s, m + 1, Len(s))
  <2>1. k \in DOMAIN s
    BY <1>2 DEF Image
  <2>2. m \in k..Len(s) /\ (m < Len(s) => ~IsCharData(s[m + 1]))
    <3> HIDE DEF k
    <3> QED
      BY <2>1, TailEndIs
  <2>3. Cut(s, e, whole) = left \o right
    BY <1>2 DEF Cut, CutAt
  <2>4. s # <<>> /\ k \in Nat /\ m \in Nat /\ a \in Nat /\ a <= m /\ k <= Len(s) /\ Len(s) \in Nat
    <3> HIDE DEF k, m
    <3> QED
      BY <2>1, <2>2
  <2> HIDE DEF k, m, a
  <2>5. /\ left \in Seq(S) /\ Len(left) = a
        /\ \A j \in 1..a : left[j] = s[j]
    BY <2>2, <2>4
  <2>6. /\ right \in Seq(S) /\ Len(right) = Len(s) - m
        /\ \A j \in 1..(Len(s) - m) : right[j] = s[m + j]
    BY <2>2, <2>4
  <2> HIDE DEF left, right
  <2>7. left \o right \in Seq(S)
    BY <2>5, <2>6
  <2>8. ASSUME Merged(s), NEW j \in 1..(Len(left \o right) - 1)
        PROVE  ~(IsTextNode((left \o right)[j]) /\ IsTextNode((left \o right)[j + 1]))
    <3>1. /\ Len(left \o right) = a + (Len(s) - m)
          /\ \A i \in 1..a : (left \o right)[i] = s[i]
          /\ \A i \in 1..(Len(s) - m) : (left \o right)[a + i] = s[m + i]
      <4>1. /\ Len(left \o right) = Len(left) + Len(right)
            /\ \A i \in 1..(Len(left) + Len(right)) :
                 (left \o right)[i] = IF i <= Len(left) THEN left[i] ELSE right[i - Len(left)]
        BY <2>5, <2>6, ConcatProperties
      <4>2. \A i \in 1..(Len(s) - m) : a + i \in 1..(Len(left) + Len(right)) /\ ~(a + i <= a)
                                       /\ (a + i) - a = i
        BY <2>2, <2>4, <2>5, <2>6
      <4>3. \A i \in 1..a : i \in 1..(Len(left) + Len(right)) /\ i <= a
        BY <2>2, <2>4, <2>5, <2>6
      <4>4. ASSUME NEW i \in 1..a
            PROVE  (left \o right)[i] = s[i]
        BY <2>5, <4>1, <4>3
      <4>5. ASSUME NEW i \in 1..(Len(s) - m)
            PROVE  (left \o right)[a + i] = s[m + i]
        BY <2>5, <2>6, <4>1, <4>2
      <4> QED
        BY <2>5, <2>6, <4>1, <4>4, <4>5
    <3>2. CASE j < a
      <4>1. (left \o right)[j] = s[j] /\ (left \o right)[j + 1] = s[j + 1]
        BY <2>2, <2>4, <2>5, <2>6, <3>1, <3>2
      <4> QED
        BY <2>2, <2>4, <2>8, <3>2, <4>1 DEF Merged
    <3>3. CASE j = a
      <4>1. (left \o right)[j + 1] = s[m + 1] /\ m < Len(s)
        <5>1. 1 \in 1..(Len(s) - m) /\ m < Len(s)
          BY <2>2, <2>4, <3>1, <3>3
        <5>2. (left \o right)[a + 1] = s[m + 1]
          BY <3>1, <5>1
        <5> QED
          BY <3>3, <5>1, <5>2
      <4> QED
        BY <2>2, <4>1 DEF IsTextNode, Mergeable, IsCharData, CharData
    <3>4. CASE j > a
      <4>1. /\ j - a \in 1..(Len(s) - m) /\ (j - a) + 1 \in 1..(Len(s) - m)
            /\ a + (j - a) = j /\ a + ((j - a) + 1) = j + 1
            /\ m + (j - a) \in 1..(Len(s) - 1)
            /\ m + ((j - a) + 1) = (m + (j - a)) + 1
        BY <2>2, <2>4, <3>1, <3>4
      <4>2. /\ (left \o right)[j] = s[m + (j - a)]
            /\ (left \o right)[j + 1] = s[(m + (j - a)) + 1]
        <5>1. (left \o right)[a + (j - a)] = s[m + (j - a)]
          BY <3>1, <4>1
        <5>2. (left \o right)[a + ((j - a) + 1)] = s[m + ((j - a) + 1)]
          BY <3>1, <4>1
        <5> QED
          BY <4>1, <5>1, <5>2
      <4> QED
        BY <2>8, <4>1, <4>2 DEF Merged
    <3> QED
      BY <2>4, <3>2, <3>3, <3>4
  <2> QED
    BY <2>3, <2>4, <2>7, <2>8 DEF Merged
<1> QED
  BY <1>1, <1>2

-----------------------------------------------------------------------------
(* Types.                                                                  *)

(* What every step keeps, and what the types say of the pieces in use.     *)
LEMMA TypeFacts ==
  ASSUME TypeOK
  PROVE  /\ source \in Seq([kind : Kind, name : STRING]) /\ Len(source) \in Nat
         /\ job.batch \in Nat \ {0} /\ job.events \cap CharData = {}
         /\ Parent \in Node
         /\ \A p \in Node : LastChild(p) \in Node
         /\ Finished \subseteq Node
         /\ Results \in Seq(ResultType)
<1>1. job \in Job
  BY DEF TypeOK
<1>2. /\ source \in Seq([kind : Kind, name : STRING]) /\ Len(source) \in Nat
      /\ job.batch \in Nat \ {0} /\ job.events \cap CharData = {}
  BY <1>1, JobFacts
<1>3. Parent \in Node
  <2>1. CASE stack = <<>>
    BY <1>2, <2>1 DEF Parent, Node
  <2>2. CASE stack # <<>>
    <3>1. stack \in Seq(Node \ {0})
      BY DEF TypeOK
    <3>2. Len(stack) \in DOMAIN stack
      BY <2>2, <3>1
    <3> QED
      BY <2>2, <3>1, <3>2 DEF Parent
  <2> QED
    BY <2>1, <2>2
<1>4. ASSUME NEW p \in Node
      PROVE  LastChild(p) \in Node
  <2>1. kids[p] \in Seq(Node \ {0})
    BY DEF TypeOK
  <2>2. CASE kids[p] = <<>>
    BY <1>2, <2>2 DEF LastChild, Node
  <2>3. CASE kids[p] # <<>>
    <3>1. Len(kids[p]) \in DOMAIN kids[p]
      BY <2>1, <2>3
    <3> QED
      BY <2>1, <2>3, <3>1 DEF LastChild
  <2> QED
    BY <2>2, <2>3
<1>5. Finished \subseteq Node
  <2>1. handed \in Seq(ResultType)
    BY DEF TypeOK
  <2> QED
    <3>1. \A k \in DOMAIN handed : handed[k] \in ResultType
      BY <2>1
    <3>2. \A k \in DOMAIN handed : handed[k].id \in Node
      BY <3>1 DEF ResultType
    <3> QED
      BY <3>2 DEF Finished
<1>6. Results \in Seq(ResultType)
  BY DEF Results, TypeOK
<1> QED
  BY <1>2, <1>3, <1>4, <1>5, <1>6

(* Handing out.                                                            *)
LEMMA HandOutKeepsTypes ==
  ASSUME TypeOK, NEW c \in Caller, HandOut(c), UNCHANGED <<job, pos, stack, done, tree, history>>,
         holder \in {c, NoCaller}
  PROVE  TypeOK'
<1>1. source' = source /\ Node' = Node /\ ResultType' = ResultType
  BY DEF source, Node, ResultType
<1>2. /\ pending' \in Seq(ResultType) /\ handed' \in Seq(ResultType)
      /\ Len(pending') <= job.batch
  <2>1. pending \in Seq(ResultType) /\ handed \in Seq(ResultType) /\ Len(pending) <= job.batch
    BY DEF TypeOK
  <2>2. CASE pending = <<>>
    BY <2>1, <2>2 DEF HandOut
  <2>3. CASE pending # <<>>
    <3>1. /\ Head(pending) \in ResultType /\ Tail(pending) \in Seq(ResultType)
          /\ Len(Tail(pending)) = Len(pending) - 1 /\ Len(pending) \in Nat
      BY <2>1, <2>3
    <3>2. job.batch \in Nat
      BY TypeFacts
    <3> QED
      <4>1. pending' = Tail(pending) /\ handed' = Append(handed, Head(pending))
        BY <2>3 DEF HandOut
      <4> QED
        BY <2>1, <3>1, <3>2, <4>1
  <2> QED
    BY <2>2, <2>3
<1>3. /\ pc' \in [Caller -> {"loop", "filling", "stopped"}]
      /\ pc'[c] # "filling" /\ \A d \in Caller \ {c} : pc'[d] = pc[d]
      /\ holder' = NoCaller
  BY DEF HandOut, TypeOK
<1>4. \A d \in Caller : pc'[d] = "filling" <=> holder' = d
  <2>1. \A d \in Caller \ {c} : pc[d] # "filling"
    BY IterParseAssumption DEF TypeOK
  <2> QED
    BY <1>3, <2>1, IterParseAssumption
<1> QED
  BY <1>1, <1>2, <1>3, <1>4 DEF TypeOK, tree, history

LEMMA EnqueueKeepsTypes ==
  ASSUME TypeOK, NEW c \in Caller, NEW kinds, Pull(c, kinds), NEW n \in Node, Enqueue(pos + 1, n)
  PROVE  pending' \in Seq(ResultType) /\ Len(pending') <= job.batch
<1>1. pos + 1 \in Node \ {0} /\ Len(pending) < job.batch /\ job.batch \in Nat
  <2>1. pos < Len(source) /\ Len(pending) < job.batch
    BY DEF Pull, Filling
  <2>2. pos \in 0..Len(source)
    BY DEF TypeOK, Node
  <2>3. Len(source) \in Nat /\ job.batch \in Nat
    BY TypeFacts
  <2> QED
    BY <2>1, <2>2, <2>3 DEF Node
<1>2. Result(pos + 1, n) \in ResultType
  BY <1>1 DEF Result, ResultType
<1>3. pending \in Seq(ResultType)
  BY DEF TypeOK
<1>4. CASE pending' = pending
  BY <1>1, <1>3, <1>4
<1>5. CASE pending' = Append(pending, Result(pos + 1, n))
  <2>1. Len(pending') = Len(pending) + 1 /\ Len(pending) \in Nat
    BY <1>2, <1>3, <1>5
  <2> QED
    BY <1>1, <1>2, <1>3, <1>5, <2>1
<1> QED
  BY <1>4, <1>5 DEF Enqueue

(* One turn of the loop keeps the types when its own changes do.           *)
LEMMA PullKeepsTypes ==
  ASSUME TypeOK, NEW c \in Caller, NEW kinds, Pull(c, kinds),
         stack' \in Seq(Node \ {0}),
         pending' \in Seq(ResultType), Len(pending') <= job.batch,
         kids' \in [Node -> Seq(Node \ {0})], text' \in [Node -> Seq(Node \ {0})]
  PROVE  TypeOK'
<1>1. source' = source /\ Node' = Node /\ ResultType' = ResultType /\ job' = job
  BY DEF source, Node, ResultType, Pull
<1>2. pos' \in Node /\ ~done' /\ done' \in BOOLEAN
  BY TypeFacts DEF Pull, Filling, TypeOK, Node
<1> QED
  BY <1>1, <1>2 DEF TypeOK, Pull, history

(* The event a turn of the loop consumes.                                  *)
LEMMA NextNode ==
  ASSUME TypeOK, NEW c \in Caller, NEW kinds, Pull(c, kinds)
  PROVE  /\ pos \in Nat /\ pos + 1 \in Node \ {0} /\ pos + 1 \in DOMAIN source
         /\ source[pos + 1].kind \in kinds /\ pos' = pos + 1
         /\ job' = job /\ source' = source /\ Node' = Node
<1>1. pos < Len(source) /\ source[pos + 1].kind \in kinds /\ pos' = pos + 1 /\ job' = job
  BY DEF Pull
<1>2. pos \in 0..Len(source)
  BY DEF TypeOK, Node
<1>3. source \in Seq([kind : Kind, name : STRING]) /\ Len(source) \in Nat
  BY TypeFacts
<1> QED
  BY <1>1, <1>2, <1>3 DEF Node, source

LEMMA TreeTypes ==
  ASSUME TypeOK, NEW n \in Node \ {0}
  PROVE  /\ AppendChild(n) => /\ kids' \in [Node -> Seq(Node \ {0})]
                               /\ text' \in [Node -> Seq(Node \ {0})]
         /\ AddText(n) => /\ kids' \in [Node -> Seq(Node \ {0})]
                           /\ text' \in [Node -> Seq(Node \ {0})]
<1>1. /\ kids \in [Node -> Seq(Node \ {0})] /\ text \in [Node -> Seq(Node \ {0})]
      /\ Parent \in Node /\ LastChild(Parent) \in Node
  BY TypeFacts DEF TypeOK
<1>2. \A p \in Node : /\ Append(kids[p], n) \in Seq(Node \ {0})
                       /\ Append(text[p], n) \in Seq(Node \ {0})
  BY <1>1
<1>3. /\ [kids EXCEPT ![Parent] = Append(@, n)] \in [Node -> Seq(Node \ {0})]
      /\ [text EXCEPT ![LastChild(Parent)] = Append(@, n)] \in [Node -> Seq(Node \ {0})]
      /\ [text EXCEPT ![n] = <<n>>] \in [Node -> Seq(Node \ {0})]
  BY <1>1, <1>2
<1> QED
  BY <1>1, <1>3 DEF AppendChild, AddText, AddOwnNode

LEMMA TypeStep ==
  ASSUME TypeOK, [Next]_vars
  PROVE  TypeOK'
<1> USE DEF TypeOK
<1>1. ASSUME NEW c \in Caller, Call(c)
      PROVE  TypeOK'
  <2>1. CASE pending # <<>> \/ done
    BY <1>1, <2>1, HandOutKeepsTypes, Zenon DEF Call
  <2>2. CASE ~(pending # <<>> \/ done)
    <3>1. /\ holder' = c /\ pc' = [pc EXCEPT ![c] = "filling"] /\ holder = NoCaller
          /\ UNCHANGED <<job, pos, stack, pending, done, kids, text, handed, cleared, cut>>
      BY <1>1, <2>2 DEF Call, tree, history
    <3>2. source' = source /\ Node' = Node /\ ResultType' = ResultType
      BY <3>1 DEF source, Node, ResultType
    <3>3. \A d \in Caller : pc'[d] = "filling" <=> holder' = d
      BY <3>1, IterParseAssumption
    <3> QED
      BY <3>1, <3>2, <3>3
  <2> QED
    BY <2>1, <2>2
<1>2. ASSUME NEW c \in Caller, Return(c)
      PROVE  TypeOK'
  BY <1>2, HandOutKeepsTypes, Zenon DEF Return
<1>3. ASSUME NEW c \in Caller, Exhaust(c)
      PROVE  TypeOK'
  <2>1. /\ done' = TRUE /\ pos = Len(source)
        /\ UNCHANGED <<job, pos, stack, pending, holder, kids, text, pc, handed, cleared, cut>>
    BY <1>3 DEF Exhaust, tree, history
  <2>2. source' = source /\ Node' = Node /\ ResultType' = ResultType
    BY <2>1 DEF source, Node, ResultType
  <2> QED
    BY <2>1, <2>2
<1>4. ASSUME NEW c \in Caller, PullStart(c)
      PROVE  TypeOK'
  <2>1. /\ Pull(c, {"start"}) /\ AppendChild(pos + 1) /\ stack' = Append(stack, pos + 1)
        /\ Enqueue(pos + 1, pos + 1)
    BY <1>4 DEF PullStart
  <2>2. pos + 1 \in Node \ {0}
    BY <2>1, NextNode
  <2>3. stack' \in Seq(Node \ {0})
    BY <2>1, <2>2
  <2> QED
    BY <2>1, <2>2, <2>3, TreeTypes, EnqueueKeepsTypes, PullKeepsTypes
<1>5. ASSUME NEW c \in Caller, PullEnd(c)
      PROVE  TypeOK'
  <2>1. /\ Pull(c, {"end"}) /\ stack' = SubSeq(stack, 1, Len(stack) - 1) /\ stack # <<>>
        /\ Enqueue(pos + 1, Parent) /\ kids' = kids /\ text' = text
    BY <1>5 DEF PullEnd, tree
  <2>2. stack' \in Seq(Node \ {0})
    BY <2>1
  <2>3. Parent \in Node
    BY TypeFacts
  <2>4. pending' \in Seq(ResultType) /\ Len(pending') <= job.batch
    BY <2>1, <2>3, EnqueueKeepsTypes
  <2> QED
    BY <2>1, <2>2, <2>4, PullKeepsTypes
<1>6. ASSUME NEW c \in Caller, PullText(c)
      PROVE  TypeOK'
  <2>1. /\ Pull(c, CharData) /\ stack' = stack /\ pending' = pending
        /\ IF stack = <<>> THEN kids' = kids /\ text' = text ELSE AddText(pos + 1)
    BY <1>6 DEF PullText, tree
  <2>2. pos + 1 \in Node \ {0}
    BY <2>1, NextNode
  <2>3. kids' \in [Node -> Seq(Node \ {0})] /\ text' \in [Node -> Seq(Node \ {0})]
    BY <2>1, <2>2, TreeTypes
  <2> QED
    BY <2>1, <2>3, PullKeepsTypes
<1>7. ASSUME NEW c \in Caller, PullMarkup(c)
      PROVE  TypeOK'
  <2>1. /\ Pull(c, {"comment", "pi"}) /\ stack' = stack /\ Enqueue(pos + 1, pos + 1)
        /\ AppendChild(pos + 1) \/ (kids' = kids /\ text' = text)
    BY <1>7 DEF PullMarkup, tree
  <2>2. pos + 1 \in Node \ {0}
    BY <2>1, NextNode
  <2>3. kids' \in [Node -> Seq(Node \ {0})] /\ text' \in [Node -> Seq(Node \ {0})]
    BY <2>1, <2>2, TreeTypes
  <2> QED
    BY <2>1, <2>2, <2>3, EnqueueKeepsTypes, PullKeepsTypes
<1>8. ASSUME NEW c \in Caller, PullNamespace(c)
      PROVE  TypeOK'
  <2>1. /\ Pull(c, {"start-ns", "end-ns"}) /\ stack' = stack /\ Enqueue(pos + 1, 0)
        /\ kids' = kids /\ text' = text
    BY <1>8 DEF PullNamespace, tree
  <2>2. 0 \in Node
    BY TypeFacts DEF Node
  <2> QED
    BY <2>1, <2>2, EnqueueKeepsTypes, PullKeepsTypes
<1>9. ASSUME NEW e \in Finished, NEW keep_tail \in BOOLEAN, Clear(e, keep_tail)
      PROVE  TypeOK'
  <2>1. /\ kids' = [IF keep_tail THEN kids ELSE Trimmed(e, FALSE) EXCEPT ![e] = <<>>]
        /\ cleared' = cleared \cup {e} /\ (cut' = cut \/ cut' = cut \cup {e})
        /\ UNCHANGED <<job, pos, stack, pending, done, holder, text, pc, handed>>
    BY <1>9 DEF Clear, state
  <2>2. Trimmed(e, FALSE) \in [Node -> Seq(Node \ {0})]
    BY CutKeeps DEF Trimmed
  <2>3. source' = source /\ Node' = Node /\ ResultType' = ResultType
    BY <2>1 DEF source, Node, ResultType
  <2>4. kids' \in [Node -> Seq(Node \ {0})]
    <3> DEFINE k == IF keep_tail THEN kids ELSE Trimmed(e, FALSE)
    <3>1. k \in [Node -> Seq(Node \ {0})]
      BY <2>2
    <3>2. <<>> \in Seq(Node \ {0})
      OBVIOUS
    <3>3. kids' = [k EXCEPT ![e] = <<>>]
      BY <2>1
    <3> HIDE DEF k
    <3> QED
      BY <3>1, <3>2, <3>3
  <2>5. e \in Node
    BY TypeFacts
  <2> QED
    BY <2>1, <2>3, <2>4, <2>5
<1>10. ASSUME NEW e \in Finished, Remove(e)
       PROVE  TypeOK'
  <2>1. /\ kids' = Trimmed(e, TRUE) /\ cut' = cut \cup {e}
        /\ UNCHANGED <<job, pos, stack, pending, done, holder, text, pc, handed, cleared>>
    BY <1>10 DEF Remove, state
  <2>2. Trimmed(e, TRUE) \in [Node -> Seq(Node \ {0})]
    BY CutKeeps DEF Trimmed
  <2>3. source' = source /\ Node' = Node /\ ResultType' = ResultType
    BY <2>1 DEF source, Node, ResultType
  <2>4. e \in Node
    BY TypeFacts
  <2> QED
    BY <2>1, <2>2, <2>3, <2>4
<1>11. CASE UNCHANGED vars
  <2>1. UNCHANGED <<job, pos, stack, pending, done, holder, kids, text, pc, handed, cleared, cut>>
    BY <1>11 DEF vars, state, tree, history
  <2>2. source' = source /\ Node' = Node /\ ResultType' = ResultType
    BY <2>1 DEF source, Node, ResultType
  <2> QED
    BY <2>1, <2>2
<1> QED
  BY <1>1, <1>2, <1>3, <1>4, <1>5, <1>6, <1>7, <1>8, <1>9, <1>10, <1>11 DEF Next, Body, Serve

LEMMA TypeInit ==
  ASSUME Init
  PROVE  TypeOK
<1>1. job \in Job /\ Len(source) \in Nat /\ job.batch \in Nat \ {0}
  BY JobFacts DEF Init
<1>2. 0 \in Node
  BY <1>1 DEF Node
<1>3. /\ kids \in [Node -> Seq(Node \ {0})] /\ text \in [Node -> Seq(Node \ {0})]
      /\ stack \in Seq(Node \ {0}) /\ pending \in Seq(ResultType) /\ handed \in Seq(ResultType)
      /\ Len(pending) <= job.batch
  BY <1>1 DEF Init
<1>4. /\ pc \in [Caller -> {"loop", "filling", "stopped"}]
      /\ \A c \in Caller : pc[c] = "filling" <=> holder = c
  BY IterParseAssumption DEF Init
<1> QED
  BY <1>1, <1>2, <1>3, <1>4 DEF Init, TypeOK

(* Every variable keeps its type, for every input and every set of callers. *)
THEOREM TypeCorrect == Spec => []TypeOK
<1> QED
  BY TypeInit, TypeStep, PTL DEF Spec

-----------------------------------------------------------------------------
(* The queue: results in input order, and the end.                         *)

LEMMA OrderedAppend ==
  ASSUME NEW q \in Seq(ResultType), NEW r \in ResultType,
         \A k \in DOMAIN q : q[k].at < r.at,
         \A j, k \in DOMAIN q : j < k => q[j].at < q[k].at
  PROVE  LET a == Append(q, r)
         IN  /\ {a[k].at : k \in DOMAIN a} = {q[k].at : k \in DOMAIN q} \cup {r.at}
             /\ \A j, k \in DOMAIN a : j < k => a[j].at < a[k].at
<1> DEFINE a == Append(q, r)
<1>1. /\ DOMAIN a = 1..(Len(q) + 1) /\ DOMAIN q = 1..Len(q) /\ Len(q) \in Nat
      /\ \A k \in DOMAIN q : a[k] = q[k]
      /\ a[Len(q) + 1] = r
  BY AppendProperties
<1> HIDE DEF a
<1>2. {a[k].at : k \in DOMAIN a} = {q[k].at : k \in DOMAIN q} \cup {r.at}
  <2>1. ASSUME NEW k \in DOMAIN a
        PROVE  a[k].at \in {q[j].at : j \in DOMAIN q} \cup {r.at}
    BY <1>1
  <2>2. ASSUME NEW k \in DOMAIN q
        PROVE  q[k].at \in {a[j].at : j \in DOMAIN a}
    BY <1>1
  <2>3. r.at \in {a[j].at : j \in DOMAIN a}
    <3>1. Len(q) + 1 \in DOMAIN a
      BY <1>1
    <3> QED
      BY <1>1, <3>1
  <2> QED
    BY <2>1, <2>2, <2>3
<1>3. ASSUME NEW j \in DOMAIN a, NEW k \in DOMAIN a, j < k
      PROVE  a[j].at < a[k].at
  <2>1. j \in DOMAIN q
    BY <1>1, <1>3
  <2>2. CASE k \in DOMAIN q
    BY <1>1, <1>3, <2>1, <2>2
  <2>3. CASE k \notin DOMAIN q
    <3>1. k = Len(q) + 1
      BY <1>1, <2>3
    <3> QED
      BY <1>1, <2>1, <3>1
  <2> QED
    BY <2>2, <2>3
<1> QED
  BY <1>2, <1>3 DEF a

(* What a turn of the loop does to the queue.                              *)
LEMMA EnqueueEffect ==
  ASSUME TypeOK, NEW c \in Caller, NEW kinds, Pull(c, kinds), NEW n \in Node, Enqueue(pos + 1, n)
  PROVE  IF Yields(source[pos + 1])
         THEN /\ Results' = Append(Results, Result(pos + 1, n))
              /\ Result(pos + 1, n) \in ResultType
         ELSE Results' = Results
<1>1. pending \in Seq(ResultType) /\ handed \in Seq(ResultType) /\ handed' = handed
  BY DEF TypeOK, Pull
<1>2. Result(pos + 1, n) \in ResultType
  BY NextNode DEF Result, ResultType
<1>3. handed \o Append(pending, Result(pos + 1, n)) = Append(handed \o pending, Result(pos + 1, n))
  BY <1>1, <1>2, QueueMoves
<1> QED
  BY <1>1, <1>2, <1>3 DEF Enqueue, Results

LEMMA HandOutEffect ==
  ASSUME TypeOK, NEW c \in Caller, HandOut(c)
  PROVE  Results' = Results
<1>1. pending \in Seq(ResultType) /\ handed \in Seq(ResultType)
  BY DEF TypeOK
<1>2. CASE pending = <<>>
  BY <1>2 DEF HandOut, Results
<1>3. CASE pending # <<>>
  <2>1. Append(handed, Head(pending)) \o Tail(pending) = handed \o pending
    BY <1>1, <1>3, QueueMoves
  <2> QED
    BY <1>3, <2>1 DEF HandOut, Results
<1> QED
  BY <1>2, <1>3

(* Order is kept when the next event yields its result, or none.           *)
LEMMA OrderKept ==
  ASSUME TypeOK, DeliversInOrder, NEW c \in Caller, NEW kinds, Pull(c, kinds),
         NEW n \in Node,
         IF Yields(source[pos + 1])
         THEN /\ Results' = Append(Results, Result(pos + 1, n))
              /\ Result(pos + 1, n) \in ResultType
         ELSE Results' = Results
  PROVE  DeliversInOrder'
<1> DEFINE Y(m) == {i \in 1..m : Yields(source[i])}
<1>1. /\ pos \in Nat /\ pos' = pos + 1 /\ source' = source /\ job' = job
      /\ Results \in Seq(ResultType)
  BY NextNode, TypeFacts
<1>2. {Results[k].at : k \in DOMAIN Results} = Y(pos)
  BY DEF DeliversInOrder
<1>3. {i \in 1..pos' : Yields(source[i])'} = Y(pos + 1)
  BY <1>1 DEF Yields, Kept
<1>4. CASE Yields(source[pos + 1])
  <2>1. Y(pos + 1) = Y(pos) \cup {pos + 1}
    BY <1>1, <1>4
  <2>2. \A k \in DOMAIN Results : Results[k].at < pos + 1
    <3>1. \A k \in DOMAIN Results : Results[k].at \in Y(pos)
      BY <1>2
    <3> QED
      BY <1>1, <3>1
  <2>3. Result(pos + 1, n).at = pos + 1
    BY DEF Result
  <2> HIDE DEF Y
  <2>4. \A j, k \in DOMAIN Results : j < k => Results[j].at < Results[k].at
    BY DEF DeliversInOrder
  <2>a. /\ Results \in Seq(ResultType) /\ Result(pos + 1, n) \in ResultType
        /\ Results' = Append(Results, Result(pos + 1, n))
    BY <1>1, <1>4
  <2>b. \A k \in DOMAIN Results : Results[k].at < Result(pos + 1, n).at
    BY <2>2, <2>3
  <2> DEFINE r == Result(pos + 1, n)
             q == Results
  <2>c. q \in Seq(ResultType) /\ r \in ResultType /\ (\A k \in DOMAIN q : q[k].at < r.at)
        /\ (\A j, k \in DOMAIN q : j < k => q[j].at < q[k].at)
    BY <2>4, <2>a, <2>b
  <2> HIDE DEF r, q
  <2>d. /\ {Append(q, r)[k].at : k \in DOMAIN Append(q, r)} = {q[k].at : k \in DOMAIN q} \cup {r.at}
        /\ \A j, k \in DOMAIN Append(q, r) : j < k => Append(q, r)[j].at < Append(q, r)[k].at
    BY <2>c, OrderedAppend
  <2>e. r.at = pos + 1 /\ q = Results /\ Results' = Append(q, r)
    BY <2>3, <2>a DEF r, q
  <2>5. /\ {Results'[k].at : k \in DOMAIN Results'} = {Results[k].at : k \in DOMAIN Results} \cup {pos + 1}
        /\ \A j, k \in DOMAIN Results' : j < k => Results'[j].at < Results'[k].at
    BY <2>d, <2>e
  <2>6. {Results'[k].at : k \in DOMAIN Results'} = {i \in 1..pos' : Yields(source[i])'}
    BY <1>2, <1>3, <2>1, <2>5
  <2> QED
    BY <2>5, <2>6 DEF DeliversInOrder
<1>5. CASE ~Yields(source[pos + 1])
  <2>1. Y(pos + 1) = Y(pos)
    BY <1>1, <1>5
  <2>2. Results' = Results
    BY <1>5
  <2> HIDE DEF Y
  <2>3. {Results'[k].at : k \in DOMAIN Results'} = {i \in 1..pos' : Yields(source[i])'}
    BY <1>2, <1>3, <2>1, <2>2
  <2> QED
    BY <2>2, <2>3 DEF DeliversInOrder
<1> QED
  BY <1>4, <1>5

-----------------------------------------------------------------------------
(* The inductive invariant.  Elements that an end result shows have left   *)
(* the stack for good, so that nothing is ever appended to them: ids grow, *)
(* and the stack is increasing, hence free of duplicates.                  *)
EndIds == {Results[k].id : k \in {k \in DOMAIN Results : source[Results[k].at].kind = "end"}}

StackOrdered ==
  /\ \A j \in DOMAIN stack : stack[j] \in 1..pos
  /\ \A j, k \in DOMAIN stack : j < k => stack[j] < stack[k]

ClosedForGood ==
  /\ EndIds \subseteq 1..pos
  /\ EndIds \cap Image(stack) = {}
  /\ cleared \subseteq EndIds

IInv ==
  /\ TypeOK
  /\ DeliversInOrder
  /\ StopsAtTheEnd
  /\ StackOrdered
  /\ ClosedForGood
  /\ ClearedStaysEmpty
  /\ TextIsMerged

LEMMA FinishedAreClosed ==
  ASSUME TypeOK
  PROVE  Finished \subseteq EndIds
<1>1. handed \in Seq(ResultType) /\ pending \in Seq(ResultType)
  BY DEF TypeOK
<1>2. \A k \in DOMAIN handed : k \in DOMAIN Results /\ Results[k] = handed[k]
  BY <1>1, ConcatProperties DEF Results
<1> QED
  BY <1>2 DEF Finished, EndIds

(* The element that content goes to has not been cleared.                  *)
LEMMA ParentIsOpen ==
  ASSUME TypeOK, StackOrdered, ClosedForGood
  PROVE  Parent \notin cleared
<1>1. pos \in Nat /\ stack \in Seq(Node \ {0})
  BY TypeFacts DEF TypeOK, Node
<1>2. CASE stack = <<>>
  BY <1>1, <1>2 DEF Parent, ClosedForGood
<1>3. CASE stack # <<>>
  <2>1. Len(stack) \in DOMAIN stack
    BY <1>1, <1>3
  <2>2. Parent \in Image(stack)
    BY <1>3, <2>1 DEF Parent, Image
  <2> QED
    BY <2>2 DEF ClosedForGood
<1> QED
  BY <1>2, <1>3

(* A step that leaves the queue as a whole, the position and the stack.    *)
LEMMA QuietStep ==
  ASSUME TypeOK, DeliversInOrder, StackOrdered, ClosedForGood,
         Results' = Results, UNCHANGED <<job, pos, stack>>, cleared' \subseteq EndIds
  PROVE  DeliversInOrder' /\ StackOrdered' /\ ClosedForGood'
<1>1. source' = source
  BY DEF source
<1>2. EndIds' = EndIds
  BY <1>1 DEF EndIds
<1>3. \A e : Yields(e)' = Yields(e)
  BY DEF Yields, Kept
<1>4. DeliversInOrder'
  BY <1>1, <1>3 DEF DeliversInOrder
<1>5. StackOrdered' /\ ClosedForGood'
  BY <1>2 DEF StackOrdered, ClosedForGood, Image
<1> QED
  BY <1>4, <1>5

(* Pushing the newest event, and popping, on an increasing stack.          *)
LEMMA StackPush ==
  ASSUME NEW s \in Seq(Nat), NEW p \in Nat,
         \A j \in DOMAIN s : s[j] \in 1..p,
         \A j, k \in DOMAIN s : j < k => s[j] < s[k]
  PROVE  LET a == Append(s, p + 1)
         IN  /\ \A j \in DOMAIN a : a[j] \in 1..(p + 1)
             /\ \A j, k \in DOMAIN a : j < k => a[j] < a[k]
             /\ Image(a) = Image(s) \cup {p + 1}
<1> DEFINE a == Append(s, p + 1)
<1>1. /\ DOMAIN a = 1..(Len(s) + 1) /\ DOMAIN s = 1..Len(s) /\ Len(s) \in Nat
      /\ \A k \in DOMAIN s : a[k] = s[k]
      /\ a[Len(s) + 1] = p + 1
  BY AppendProperties
<1> HIDE DEF a
<1>2. \A k \in DOMAIN a : k \in DOMAIN s \/ k = Len(s) + 1
  BY <1>1
<1>3. \A k \in DOMAIN a : a[k] \in 1..(p + 1)
  BY <1>1, <1>2
<1>4. ASSUME NEW j \in DOMAIN a, NEW k \in DOMAIN a, j < k
      PROVE  a[j] < a[k]
  <2>1. j \in DOMAIN s
    BY <1>1, <1>4
  <2> QED
    BY <1>1, <1>2, <1>4, <2>1
<1>5. Image(a) = Image(s) \cup {p + 1}
  <2>1. Len(s) + 1 \in DOMAIN a /\ \A k \in DOMAIN s : k \in DOMAIN a
    BY <1>1
  <2> QED
    BY <1>1, <1>2, <2>1 DEF Image
<1> QED
  BY <1>3, <1>4, <1>5 DEF a

LEMMA StackPop ==
  ASSUME NEW s \in Seq(Nat), s # <<>>,
         \A j, k \in DOMAIN s : j < k => s[j] < s[k]
  PROVE  LET a == SubSeq(s, 1, Len(s) - 1)
         IN  /\ Len(s) \in DOMAIN s
             /\ \A j \in DOMAIN a : j \in DOMAIN s /\ a[j] = s[j]
             /\ \A j, k \in DOMAIN a : j < k => a[j] < a[k]
             /\ Image(a) \subseteq Image(s)
             /\ s[Len(s)] \notin Image(a)
<1> DEFINE a == SubSeq(s, 1, Len(s) - 1)
<1>1. /\ DOMAIN s = 1..Len(s) /\ Len(s) \in Nat \ {0}
      /\ DOMAIN a = 1..(Len(s) - 1)
      /\ \A k \in DOMAIN a : a[k] = s[k]
  <2>1. Len(s) \in Nat \ {0} /\ DOMAIN s = 1..Len(s)
    OBVIOUS
  <2>2. Len(a) = Len(s) - 1 /\ \A k \in 1..(Len(s) - 1) : a[k] = s[k]
    BY <2>1
  <2>3. a \in Seq(Nat)
    BY <2>1
  <2> QED
    BY <2>1, <2>2, <2>3
<1> HIDE DEF a
<1>2. Len(s) \in DOMAIN s /\ \A k \in DOMAIN a : k \in DOMAIN s /\ k < Len(s)
  BY <1>1
<1>3. \A j, k \in DOMAIN a : j < k => a[j] < a[k]
  BY <1>1, <1>2
<1>4. Image(a) \subseteq Image(s)
  BY <1>1, <1>2 DEF Image
<1>5. \A k \in DOMAIN a : a[k] < s[Len(s)] /\ a[k] \in Nat
  BY <1>1, <1>2
<1>6. s[Len(s)] \notin Image(a)
  BY <1>5 DEF Image
<1> QED
  BY <1>1, <1>2, <1>3, <1>4, <1>6 DEF a

(* A turn of the loop, by what it does to the stack.                       *)
LEMMA ClosedEffect ==
  ASSUME TypeOK, ClosedForGood, StackOrdered, NEW c \in Caller, NEW kinds, Pull(c, kinds),
         NEW n \in Node,
         IF Yields(source[pos + 1])
         THEN /\ Results' = Append(Results, Result(pos + 1, n))
              /\ Result(pos + 1, n) \in ResultType
         ELSE Results' = Results,
         \/ stack' = stack /\ source[pos + 1].kind # "end"
         \/ stack' = Append(stack, pos + 1) /\ source[pos + 1].kind # "end"
         \/ stack' = SubSeq(stack, 1, Len(stack) - 1) /\ stack # <<>> /\ n = Parent
  PROVE  StackOrdered' /\ ClosedForGood'
<1>1. /\ pos \in Nat /\ pos' = pos + 1 /\ source' = source
      /\ Results \in Seq(ResultType) /\ stack \in Seq(Node \ {0})
      /\ cleared' = cleared
  BY NextNode, TypeFacts DEF TypeOK, Pull, history
<1>2. /\ EndIds \subseteq EndIds'
      /\ EndIds' \subseteq EndIds \cup (IF source[pos + 1].kind = "end" THEN {n} ELSE {})
  <2>1. CASE Results' = Results
    BY <1>1, <2>1 DEF EndIds
  <2>2. CASE Results' = Append(Results, Result(pos + 1, n)) /\ Result(pos + 1, n) \in ResultType
    <3> DEFINE r == Result(pos + 1, n)
    <3>1. /\ DOMAIN Results' = 1..(Len(Results) + 1) /\ DOMAIN Results = 1..Len(Results)
          /\ Len(Results) \in Nat
          /\ \A k \in DOMAIN Results : Results'[k] = Results[k]
          /\ Results'[Len(Results) + 1] = r
      BY <1>1, <2>2, AppendProperties
    <3>2. r.at = pos + 1 /\ r.id = n
      BY DEF Result
    <3>3. \A k \in DOMAIN Results' : k \in DOMAIN Results \/ k = Len(Results) + 1
      BY <3>1
    <3>4. \A k \in DOMAIN Results : k \in DOMAIN Results'
      BY <3>1
    <3> HIDE DEF r
    <3> QED
      BY <1>1, <3>1, <3>2, <3>3, <3>4 DEF EndIds
  <2> QED
    BY <2>1, <2>2
<1>2a. stack \in Seq(Nat)
  <2>1. Node \ {0} \subseteq Nat
    BY TypeFacts DEF Node
  <2> QED
    BY <1>1, <2>1
<1>3. CASE stack' = stack /\ source[pos + 1].kind # "end"
  <2>1. EndIds' = EndIds
    BY <1>2, <1>3
  <2> QED
    BY <1>1, <1>3, <2>1 DEF StackOrdered, ClosedForGood, Image
<1>4. CASE stack' = Append(stack, pos + 1) /\ source[pos + 1].kind # "end"
  <2>1. EndIds' = EndIds
    BY <1>2, <1>4
  <2>2. /\ \A j \in DOMAIN stack' : stack'[j] \in 1..(pos + 1)
        /\ \A j, k \in DOMAIN stack' : j < k => stack'[j] < stack'[k]
        /\ Image(stack') = Image(stack) \cup {pos + 1}
    BY <1>1, <1>4, <1>2a, StackPush DEF StackOrdered
  <2>3. pos + 1 \notin EndIds /\ \A i \in EndIds : i \in 1..(pos + 1)
    BY <1>1 DEF ClosedForGood
  <2> QED
    BY <1>1, <2>1, <2>2, <2>3 DEF StackOrdered, ClosedForGood
<1>5. CASE stack' = SubSeq(stack, 1, Len(stack) - 1) /\ stack # <<>> /\ n = Parent
  <2>1. /\ Len(stack) \in DOMAIN stack
        /\ \A j \in DOMAIN stack' : j \in DOMAIN stack /\ stack'[j] = stack[j]
        /\ \A j, k \in DOMAIN stack' : j < k => stack'[j] < stack'[k]
        /\ Image(stack') \subseteq Image(stack)
        /\ stack[Len(stack)] \notin Image(stack')
    BY <1>5, <1>2a, StackPop DEF StackOrdered
  <2>2. n = stack[Len(stack)]
    BY <1>5 DEF Parent
  <2>3. \A j \in DOMAIN stack' : stack'[j] \in 1..(pos + 1)
    BY <1>1, <2>1 DEF StackOrdered
  <2>4. StackOrdered'
    BY <1>1, <2>1, <2>3 DEF StackOrdered
  <2>5. n \in 1..pos
    BY <2>1, <2>2 DEF StackOrdered
  <2>6. EndIds' \subseteq 1..pos'
    BY <1>1, <1>2, <2>5 DEF ClosedForGood
  <2> QED
    BY <1>1, <1>2, <2>1, <2>2, <2>4, <2>6 DEF ClosedForGood
<1> QED
  BY <1>3, <1>4, <1>5

-----------------------------------------------------------------------------
(* The tree.                                                               *)

LEMMA AppendKeepsMerged ==
  ASSUME NEW S, NEW s \in Seq(S), NEW n \in S, Merged(s),
         ~IsTextNode(n) \/ s = <<>> \/ ~IsTextNode(s[Len(s)])
  PROVE  Merged(Append(s, n))
<1> DEFINE a == Append(s, n)
<1>1. /\ Len(a) = Len(s) + 1 /\ Len(s) \in Nat
      /\ \A k \in 1..Len(s) : a[k] = s[k]
      /\ a[Len(s) + 1] = n
  BY AppendProperties
<1> HIDE DEF a
<1>2. ASSUME NEW k \in 1..(Len(a) - 1)
      PROVE  ~(IsTextNode(a[k]) /\ IsTextNode(a[k + 1]))
  <2>1. CASE k < Len(s)
    <3>1. k \in 1..Len(s) /\ k + 1 \in 1..Len(s) /\ k \in 1..(Len(s) - 1)
      BY <1>1, <2>1
    <3>2. a[k] = s[k] /\ a[k + 1] = s[k + 1]
      BY <1>1, <3>1
    <3> QED
      BY <3>1, <3>2 DEF Merged
  <2>2. CASE k = Len(s)
    <3>1. s # <<>> /\ k \in 1..Len(s) /\ a[k + 1] = n /\ a[k] = s[Len(s)]
      BY <1>1, <2>2
    <3> QED
      BY <3>1
  <2> QED
    BY <1>1, <2>1, <2>2
<1> QED
  BY <1>2 DEF Merged, a

(* Which nodes are text nodes does not change.                             *)
LEMMA MergedNext ==
  ASSUME job' = job, \A p \in Node : Merged(kids'[p])
  PROVE  TextIsMerged'
<1>1. source' = source /\ Node' = Node
  BY DEF source, Node
<1>2. \A n : IsTextNode(n)' = IsTextNode(n)
  BY <1>1 DEF IsTextNode, Mergeable
<1> QED
  BY <1>1, <1>2 DEF TextIsMerged, Merged

(* What a turn of the loop may do to the tree.                             *)
LEMMA TreeStep ==
  ASSUME IInv, NEW c \in Caller, NEW kinds, Pull(c, kinds),
         \/ kids' = kids
         \/ AppendChild(pos + 1) /\ source[pos + 1].kind \notin CharData
         \/ AddText(pos + 1)
  PROVE  ClearedStaysEmpty' /\ TextIsMerged'
<1> DEFINE n == pos + 1
<1>1. /\ job' = job /\ cleared' = cleared /\ n \in Node \ {0}
      /\ Parent \in Node /\ Parent \notin cleared
      /\ kids \in [Node -> Seq(Node \ {0})] /\ cleared \subseteq Node
  BY NextNode, TypeFacts, ParentIsOpen DEF IInv, TypeOK, Pull, history
<1>2. /\ \A p \in Node : Merged(kids[p])
      /\ \A e \in cleared : kids[e] = <<>>
  BY DEF IInv, TextIsMerged, ClearedStaysEmpty
<1>3. CASE kids' = kids
  BY <1>1, <1>2, <1>3, MergedNext DEF ClearedStaysEmpty
<1>4. ASSUME kids' = [kids EXCEPT ![Parent] = Append(@, n)],
             ~IsTextNode(n) \/ ~IsTextNode(LastChild(Parent))
      PROVE  ClearedStaysEmpty' /\ TextIsMerged'
  <2>1. /\ kids'[Parent] = Append(kids[Parent], n)
        /\ \A p \in Node \ {Parent} : kids'[p] = kids[p]
    BY <1>1, <1>4
  <2>2. ClearedStaysEmpty'
    BY <1>1, <1>2, <2>1 DEF ClearedStaysEmpty
  <2>3. ~IsTextNode(n) \/ kids[Parent] = <<>> \/ ~IsTextNode(kids[Parent][Len(kids[Parent])])
    BY <1>4 DEF LastChild
  <2>4. Merged(kids'[Parent])
    <3>1. kids[Parent] \in Seq(Node \ {0})
      BY <1>1
    <3> HIDE DEF n
    <3> QED
      BY <1>1, <1>2, <2>1, <2>3, <3>1, AppendKeepsMerged
  <2> QED
    BY <1>1, <1>2, <2>1, <2>2, <2>4, MergedNext
<1>5. CASE AppendChild(n) /\ source[n].kind \notin CharData
  <2>1. ~IsTextNode(n)
    BY <1>5 DEF IsTextNode, Mergeable, CharData
  <2> QED
    BY <1>4, <1>5, <2>1 DEF AppendChild
<1>6. CASE AddText(n)
  <2>1. CASE Mergeable(n) /\ IsTextNode(LastChild(Parent))
    BY <1>3, <1>6, <2>1 DEF AddText
  <2>2. CASE ~(Mergeable(n) /\ IsTextNode(LastChild(Parent)))
    <3>1. ~IsTextNode(n) \/ ~IsTextNode(LastChild(Parent))
      BY <2>2 DEF IsTextNode
    <3>2. kids' = [kids EXCEPT ![Parent] = Append(@, n)]
      BY <1>6, <2>2 DEF AddText, AddOwnNode
    <3> QED
      BY <1>4, <3>1, <3>2
  <2> QED
    BY <2>1, <2>2
<1> QED
  BY <1>3, <1>5, <1>6

(* The edits of the loop body.                                             *)
LEMMA TrimStep ==
  ASSUME IInv, NEW e \in Node, NEW whole \in BOOLEAN
  PROVE  /\ Trimmed(e, whole) \in [Node -> Seq(Node \ {0})]
         /\ \A p \in Node : Merged(Trimmed(e, whole)[p])
         /\ \A f \in cleared : Trimmed(e, whole)[f] = <<>>
<1>1. kids \in [Node -> Seq(Node \ {0})] /\ cleared \subseteq Node
  BY DEF IInv, TypeOK
<1>2. \A p \in Node : Merged(kids[p])
  BY DEF IInv, TextIsMerged
<1>3. \A f \in cleared : kids[f] = <<>>
  BY DEF IInv, ClearedStaysEmpty
<1>4. \A p \in Node : Trimmed(e, whole)[p] = Cut(kids[p], e, whole)
  BY DEF Trimmed
<1>5. ASSUME NEW p \in Node
      PROVE  /\ Cut(kids[p], e, whole) \in Seq(Node \ {0})
             /\ kids[p] = <<>> => Cut(kids[p], e, whole) = <<>>
             /\ Merged(Cut(kids[p], e, whole))
  BY <1>1, <1>2, CutKeeps
<1> QED
  BY <1>1, <1>3, <1>4, <1>5 DEF Trimmed

-----------------------------------------------------------------------------
(* The invariant is inductive.                                             *)

LEMMA InvInit ==
  ASSUME Init
  PROVE  IInv
<1>1. TypeOK
  BY TypeInit
<1>2. Results = <<>> /\ pos = 0 /\ stack = <<>> /\ cleared = {} /\ kids = [n \in Node |-> <<>>]
  BY DEF Init, Results
<1>3. DeliversInOrder /\ StackOrdered /\ ClosedForGood /\ ClearedStaysEmpty /\ TextIsMerged
  BY <1>2 DEF DeliversInOrder, StackOrdered, ClosedForGood, EndIds, Image, ClearedStaysEmpty,
              TextIsMerged, Merged
<1>4. StopsAtTheEnd
  BY DEF Init, StopsAtTheEnd
<1> QED
  BY <1>1, <1>3, <1>4 DEF IInv

(* A turn of the loop; n is the node it would show.                        *)
LEMMA InvPull ==
  ASSUME IInv, TypeOK', NEW c \in Caller, NEW kinds, Pull(c, kinds), NEW n \in Node,
         Enqueue(pos + 1, n) \/ (pending' = pending /\ kinds = CharData),
         \/ kids' = kids
         \/ AppendChild(pos + 1) /\ source[pos + 1].kind \notin CharData
         \/ AddText(pos + 1),
         \/ stack' = stack /\ source[pos + 1].kind # "end"
         \/ stack' = Append(stack, pos + 1) /\ source[pos + 1].kind # "end"
         \/ stack' = SubSeq(stack, 1, Len(stack) - 1) /\ stack # <<>> /\ n = Parent
  PROVE  IInv'
<1>1. TypeOK /\ DeliversInOrder /\ StackOrdered /\ ClosedForGood /\ StopsAtTheEnd
  BY DEF IInv
<1>2. IF Yields(source[pos + 1])
      THEN /\ Results' = Append(Results, Result(pos + 1, n))
           /\ Result(pos + 1, n) \in ResultType
      ELSE Results' = Results
  <2>1. CASE Enqueue(pos + 1, n)
    BY <1>1, <2>1, EnqueueEffect
  <2>2. CASE pending' = pending /\ kinds = CharData
    <3>1. source[pos + 1].kind \in CharData /\ job.events \cap CharData = {}
      BY <1>1, <2>2, NextNode, TypeFacts
    <3>2. ~Yields(source[pos + 1])
      BY <3>1 DEF Yields
    <3>3. Results' = Results
      BY <2>2 DEF Results, Pull
    <3> QED
      BY <3>2, <3>3
  <2> QED
    BY <2>1, <2>2
<1>3. DeliversInOrder'
  BY <1>1, <1>2, OrderKept
<1>4. StackOrdered' /\ ClosedForGood'
  BY <1>1, <1>2, ClosedEffect
<1>5. ClearedStaysEmpty' /\ TextIsMerged'
  BY TreeStep
<1>6. StopsAtTheEnd'
  <2>1. ~done /\ pc' = pc
    BY DEF Pull, Filling
  <2> QED
    BY <1>1, <2>1 DEF StopsAtTheEnd
<1> QED
  BY <1>3, <1>4, <1>5, <1>6 DEF IInv

(* A step that leaves position, stack, tree and the queue as a whole.      *)
LEMMA InvQuiet ==
  ASSUME IInv, TypeOK', Results' = Results,
         UNCHANGED <<job, pos, stack, kids, text, cleared>>, StopsAtTheEnd'
  PROVE  IInv'
<1>1. TypeOK /\ DeliversInOrder /\ StackOrdered /\ ClosedForGood /\ cleared' \subseteq EndIds
  BY DEF IInv, ClosedForGood
<1>2. DeliversInOrder' /\ StackOrdered' /\ ClosedForGood'
  BY <1>1, QuietStep
<1>3. ClearedStaysEmpty'
  BY DEF IInv, ClearedStaysEmpty
<1>4. TextIsMerged'
  BY MergedNext DEF IInv, TextIsMerged
<1> QED
  BY <1>2, <1>3, <1>4 DEF IInv

(* An edit by the loop body.                                               *)
LEMMA InvEdit ==
  ASSUME IInv, TypeOK', UNCHANGED <<job, state, pc, handed>>,
         cleared' \subseteq EndIds,
         \A p \in Node : Merged(kids'[p]),
         \A e \in cleared' : kids'[e] = <<>>
  PROVE  IInv'
<1>1. Results' = Results /\ UNCHANGED <<job, pos, stack, pending, done>>
  BY DEF Results, state
<1>2. TypeOK /\ DeliversInOrder /\ StackOrdered /\ ClosedForGood /\ StopsAtTheEnd
  BY DEF IInv
<1>3. DeliversInOrder' /\ StackOrdered' /\ ClosedForGood'
  BY <1>1, <1>2, QuietStep
<1>4. StopsAtTheEnd' /\ ClearedStaysEmpty' /\ TextIsMerged'
  BY <1>1, <1>2, MergedNext DEF StopsAtTheEnd, ClearedStaysEmpty
<1> QED
  BY <1>3, <1>4 DEF IInv

LEMMA InvHandOut ==
  ASSUME IInv, TypeOK', NEW c \in Caller, HandOut(c),
         UNCHANGED <<job, pos, stack, done, tree, history>>,
         pending = <<>> => done
  PROVE  IInv'
<1>1. Results' = Results
  BY HandOutEffect DEF IInv
<1>2. StopsAtTheEnd'
  <2>1. CASE pending = <<>>
    BY <2>1 DEF HandOut, StopsAtTheEnd
  <2>2. CASE pending # <<>>
    <3>1. \A d \in Caller : pc[d] # "stopped"
      BY <2>2 DEF IInv, StopsAtTheEnd
    <3>2. pc' = [pc EXCEPT ![c] = "loop"] /\ pc \in [Caller -> {"loop", "filling", "stopped"}]
      BY <2>2 DEF HandOut, IInv, TypeOK
    <3>3. \A d \in Caller : pc'[d] # "stopped"
      BY <3>1, <3>2
    <3> QED
      BY <3>3 DEF StopsAtTheEnd
  <2> QED
    BY <2>1, <2>2
<1>3. UNCHANGED <<job, pos, stack, kids, text, cleared>>
  BY DEF tree, history
<1> QED
  BY <1>1, <1>2, <1>3, InvQuiet

LEMMA InvNext ==
  ASSUME IInv, [Next]_vars
  PROVE  IInv'
<1>0. TypeOK /\ TypeOK'
  BY TypeStep DEF IInv
<1>1. ASSUME NEW c \in Caller, Call(c)
      PROVE  IInv'
  <2>1. CASE pending # <<>> \/ done
    <3>1. HandOut(c) /\ UNCHANGED <<job, pos, stack, done, tree, history>>
      BY <1>1, <2>1 DEF Call
    <3> QED
      BY <1>0, <2>1, <3>1, InvHandOut
  <2>2. CASE ~(pending # <<>> \/ done)
    <3>1. /\ pc' = [pc EXCEPT ![c] = "filling"]
          /\ UNCHANGED <<job, pos, stack, pending, done, kids, text, handed, cleared>>
      BY <1>1, <2>2 DEF Call, tree, history
    <3>2. StopsAtTheEnd'
      BY <1>0, <2>2, <3>1 DEF IInv, StopsAtTheEnd, TypeOK
    <3>3. Results' = Results
      BY <3>1 DEF Results
    <3> QED
      BY <1>0, <3>1, <3>2, <3>3, InvQuiet
  <2> QED
    BY <2>1, <2>2
<1>2. ASSUME NEW c \in Caller, Return(c)
      PROVE  IInv'
  <2>1. HandOut(c) /\ UNCHANGED <<job, pos, stack, done, tree, history>>
    BY <1>2 DEF Return
  <2>2. pending = <<>> => done
    <3>1. job.batch \in Nat \ {0}
      BY <1>0, TypeFacts
    <3>2. pending = <<>> => Len(pending) < job.batch
      BY <3>1
    <3> QED
      BY <1>2, <3>2 DEF Return, Filling
  <2> QED
    BY <1>0, <2>1, <2>2, InvHandOut
<1>3. ASSUME NEW c \in Caller, Exhaust(c)
      PROVE  IInv'
  <2>1. /\ ~done /\ pc' = pc
        /\ UNCHANGED <<job, pos, stack, pending, kids, text, handed, cleared>>
    BY <1>3 DEF Exhaust, Filling, tree, history
  <2>2. StopsAtTheEnd' /\ Results' = Results
    BY <2>1 DEF IInv, StopsAtTheEnd, Results
  <2> QED
    BY <1>0, <2>1, <2>2, InvQuiet
<1>4. ASSUME NEW c \in Caller, PullStart(c)
      PROVE  IInv'
  <2>1. /\ Pull(c, {"start"}) /\ AppendChild(pos + 1) /\ stack' = Append(stack, pos + 1)
        /\ Enqueue(pos + 1, pos + 1)
    BY <1>4 DEF PullStart
  <2>2. pos + 1 \in Node /\ source[pos + 1].kind = "start"
    BY <1>0, <2>1, NextNode
  <2> QED
    BY <1>0, <2>1, <2>2, InvPull DEF CharData
<1>5. ASSUME NEW c \in Caller, PullEnd(c)
      PROVE  IInv'
  <2>1. /\ Pull(c, {"end"}) /\ stack' = SubSeq(stack, 1, Len(stack) - 1) /\ stack # <<>>
        /\ Enqueue(pos + 1, Parent) /\ kids' = kids
    BY <1>5 DEF PullEnd, tree
  <2>2. Parent \in Node
    BY <1>0, TypeFacts
  <2> QED
    BY <1>0, <2>1, <2>2, InvPull
<1>6. ASSUME NEW c \in Caller, PullText(c)
      PROVE  IInv'
  <2>1. /\ Pull(c, CharData) /\ stack' = stack /\ pending' = pending
        /\ kids' = kids \/ AddText(pos + 1)
    BY <1>6 DEF PullText, tree
  <2>2. source[pos + 1].kind # "end" /\ 0 \in Node
    <3>1. source[pos + 1].kind \in CharData
      BY <1>0, <2>1, NextNode
    <3>2. Len(source) \in Nat
      BY <1>0, TypeFacts
    <3> QED
      BY <3>1, <3>2 DEF CharData, Node
  <2> QED
    BY <1>0, <2>1, <2>2, InvPull
<1>7. ASSUME NEW c \in Caller, PullMarkup(c)
      PROVE  IInv'
  <2>1. /\ Pull(c, {"comment", "pi"}) /\ stack' = stack /\ Enqueue(pos + 1, pos + 1)
        /\ AppendChild(pos + 1) \/ kids' = kids
    BY <1>7 DEF PullMarkup, tree
  <2>2. pos + 1 \in Node /\ source[pos + 1].kind \in {"comment", "pi"}
    BY <1>0, <2>1, NextNode
  <2>3. source[pos + 1].kind \notin CharData /\ source[pos + 1].kind # "end"
    BY <2>2 DEF CharData
  <2> QED
    BY <1>0, <2>1, <2>2, <2>3, InvPull
<1>8. ASSUME NEW c \in Caller, PullNamespace(c)
      PROVE  IInv'
  <2>1. /\ Pull(c, {"start-ns", "end-ns"}) /\ stack' = stack /\ Enqueue(pos + 1, 0)
        /\ kids' = kids
    BY <1>8 DEF PullNamespace, tree
  <2>2. 0 \in Node /\ source[pos + 1].kind # "end"
    <3>1. source[pos + 1].kind \in {"start-ns", "end-ns"}
      BY <1>0, <2>1, NextNode
    <3>2. Len(source) \in Nat
      BY <1>0, TypeFacts
    <3> QED
      BY <3>1, <3>2 DEF Node
  <2> QED
    BY <1>0, <2>1, <2>2, InvPull
<1>9. ASSUME NEW e \in Finished, NEW keep_tail \in BOOLEAN, Clear(e, keep_tail)
      PROVE  IInv'
  <2> DEFINE k == IF keep_tail THEN kids ELSE Trimmed(e, FALSE)
  <2>1. kids' = [k EXCEPT ![e] = <<>>] /\ cleared' = cleared \cup {e}
        /\ UNCHANGED <<job, state, pc, handed>>
    BY <1>9 DEF Clear
  <2>2. e \in Node /\ e \in EndIds
    BY <1>0, TypeFacts, FinishedAreClosed
  <2>3. /\ k \in [Node -> Seq(Node \ {0})]
        /\ \A p \in Node : Merged(k[p])
        /\ \A f \in cleared : k[f] = <<>>
    BY <2>2, TrimStep DEF IInv, TypeOK, TextIsMerged, ClearedStaysEmpty
  <2> HIDE DEF k
  <2>4. Merged(<<>>)
    BY DEF Merged
  <2>5. kids'[e] = <<>> /\ \A p \in Node \ {e} : kids'[p] = k[p]
    BY <2>1, <2>2, <2>3
  <2>6. cleared \subseteq Node /\ cleared \subseteq EndIds
    BY DEF IInv, TypeOK, ClosedForGood
  <2>7. \A p \in Node : Merged(kids'[p])
    BY <2>3, <2>4, <2>5
  <2>8. \A f \in cleared' : kids'[f] = <<>>
    BY <2>1, <2>3, <2>5, <2>6
  <2>9. cleared' \subseteq EndIds
    BY <2>1, <2>2, <2>6
  <2> QED
    BY <1>0, <2>1, <2>7, <2>8, <2>9, InvEdit
<1>10. ASSUME NEW e \in Finished, Remove(e)
       PROVE  IInv'
  <2>1. kids' = Trimmed(e, TRUE) /\ cleared' = cleared /\ UNCHANGED <<job, state, pc, handed>>
    BY <1>10 DEF Remove
  <2>2. e \in Node
    BY <1>0, TypeFacts
  <2>3. /\ \A p \in Node : Merged(kids'[p])
        /\ \A f \in cleared' : kids'[f] = <<>>
    BY <2>1, <2>2, TrimStep
  <2>4. cleared' \subseteq EndIds
    BY <2>1 DEF IInv, ClosedForGood
  <2> QED
    BY <1>0, <2>1, <2>3, <2>4, InvEdit
<1>11. CASE UNCHANGED vars
  <2>1. UNCHANGED <<job, pos, stack, pending, done, kids, text, pc, handed, cleared>>
    BY <1>11 DEF vars, state, tree, history
  <2>2. StopsAtTheEnd' /\ Results' = Results
    BY <2>1 DEF IInv, StopsAtTheEnd, Results
  <2> QED
    BY <1>0, <2>1, <2>2, InvQuiet
<1> QED
  BY <1>1, <1>2, <1>3, <1>4, <1>5, <1>6, <1>7, <1>8, <1>9, <1>10, <1>11 DEF Next, Body, Serve

THEOREM Invariance == Spec => []IInv
<1> QED
  BY InvInit, InvNext, PTL DEF Spec

(* __next__ delivers every result of the input once and in input order,    *)
(* whatever the batch size and whichever threads call.                     *)
THEOREM InOrder == Spec => []DeliversInOrder
<1>1. IInv => DeliversInOrder
  BY DEF IInv
<1> QED
  BY <1>1, Invariance, PTL

(* StopIteration only after the last result.                               *)
THEOREM StopsLast == Spec => []StopsAtTheEnd
<1>1. IInv => StopsAtTheEnd
  BY DEF IInv
<1> QED
  BY <1>1, Invariance, PTL

(* Both together: every result once, in order, before the first stop.      *)
THEOREM DeliversAll == Spec => []DeliversEverything
<1>1. DeliversInOrder /\ StopsAtTheEnd => DeliversEverything
  BY DEF DeliversEverything
<1> QED
  BY <1>1, InOrder, StopsLast, PTL

(* The replay appends nothing to an element its caller has cleared.        *)
THEOREM ClearedForGood == Spec => []ClearedStaysEmpty
<1>1. IInv => ClearedStaysEmpty
  BY DEF IInv
<1> QED
  BY <1>1, Invariance, PTL

(* No two text nodes are ever neighbours.                                  *)
THEOREM TextMerged == Spec => []TextIsMerged
<1>1. IInv => TextIsMerged
  BY DEF IInv
<1> QED
  BY <1>1, Invariance, PTL

-----------------------------------------------------------------------------
(* The reference follows the input one event at a time.                    *)

(* The tags from i on, with one more event.                                *)
LEMMA TagsCounted ==
  ASSUME NEW i \in Nat, NEW n \in Nat
  PROVE  /\ IsFiniteSet(Starts(i, n)) /\ IsFiniteSet(Ends(i, n))
         /\ Cardinality(Starts(i, n)) \in Nat /\ Cardinality(Ends(i, n)) \in Nat
<1>1. IsFiniteSet(i..n)
  BY FS_Interval
<1>2. Starts(i, n) \subseteq i..n /\ Ends(i, n) \subseteq i..n
  BY DEF Starts, Ends
<1> QED
  BY <1>1, <1>2, FS_Subset, FS_CardinalityType

LEMMA OneMoreTag ==
  ASSUME NEW n \in Nat, NEW i \in 0..(n + 1)
  PROVE  /\ Cardinality(Starts(i, n + 1)) =
              Cardinality(Starts(i, n)) + (IF source[n + 1].kind = "start" THEN 1 ELSE 0)
         /\ Cardinality(Ends(i, n + 1)) =
              Cardinality(Ends(i, n)) + (IF source[n + 1].kind = "end" THEN 1 ELSE 0)
<1>1. i..(n + 1) = (i..n) \cup {n + 1} /\ n + 1 \notin i..n
  OBVIOUS
<1>2. /\ Starts(i, n + 1) = Starts(i, n) \cup (IF source[n + 1].kind = "start" THEN {n + 1} ELSE {})
      /\ Ends(i, n + 1) = Ends(i, n) \cup (IF source[n + 1].kind = "end" THEN {n + 1} ELSE {})
      /\ n + 1 \notin Starts(i, n) /\ n + 1 \notin Ends(i, n)
  BY <1>1 DEF Starts, Ends
<1>3. i \in Nat
  OBVIOUS
<1>4. /\ IsFiniteSet(Starts(i, n)) /\ IsFiniteSet(Ends(i, n))
      /\ Cardinality(Starts(i, n)) \in Nat /\ Cardinality(Ends(i, n)) \in Nat
  BY <1>3, TagsCounted
<1>5. /\ Cardinality(Starts(i, n) \cup {n + 1}) = Cardinality(Starts(i, n)) + 1
      /\ Cardinality(Ends(i, n) \cup {n + 1}) = Cardinality(Ends(i, n)) + 1
  BY <1>2, <1>4, FS_AddElement
<1>6. Cardinality(Starts(i, n + 1)) =
        Cardinality(Starts(i, n)) + (IF source[n + 1].kind = "start" THEN 1 ELSE 0)
  <2>1. CASE source[n + 1].kind = "start"
    BY <1>2, <1>5, <2>1
  <2>2. CASE source[n + 1].kind # "start"
    <3>1. Starts(i, n + 1) = Starts(i, n)
      BY <1>2, <2>2
    <3> QED
      BY <1>4, <2>2, <3>1
  <2> QED
    BY <2>1, <2>2
<1>7. Cardinality(Ends(i, n + 1)) =
        Cardinality(Ends(i, n)) + (IF source[n + 1].kind = "end" THEN 1 ELSE 0)
  <2>1. CASE source[n + 1].kind = "end"
    BY <1>2, <1>5, <2>1
  <2>2. CASE source[n + 1].kind # "end"
    <3>1. Ends(i, n + 1) = Ends(i, n)
      BY <1>2, <2>2
    <3> QED
      BY <1>4, <2>2, <3>1
  <2> QED
    BY <2>1, <2>2
<1> QED
  BY <1>6, <1>7

(* Nothing starts in an empty range.                                       *)
LEMMA NoTagsYet ==
  ASSUME NEW n \in Nat
  PROVE  Cardinality(Starts(n + 1, n)) = 0 /\ Cardinality(Ends(n + 1, n)) = 0
<1>1. (n + 1)..n = {}
  OBVIOUS
<1>2. Starts(n + 1, n) = {} /\ Ends(n + 1, n) = {}
  BY <1>1 DEF Starts, Ends
<1> QED
  BY <1>2, FS_EmptySet

(* What is open after one more event.                                      *)
LEMMA OpenNext ==
  ASSUME NEW n \in Nat
  PROVE  /\ Open(n) \subseteq 1..n
         /\ \A i \in Open(n) : source[i].kind = "start"
         /\ \A i \in 1..n :
              i \in Open(n + 1) <=>
                i \in Open(n) /\ Cardinality(Starts(i, n + 1)) > Cardinality(Ends(i, n + 1))
         /\ n + 1 \in Open(n + 1) <=> source[n + 1].kind = "start"
<1>1. Open(n) \subseteq 1..n /\ \A i \in Open(n) : source[i].kind = "start"
  BY DEF Open, Starts
<1>2. ASSUME NEW i \in 1..n
      PROVE  i \in Open(n + 1) <=>
               i \in Open(n) /\ Cardinality(Starts(i, n + 1)) > Cardinality(Ends(i, n + 1))
  <2>1. i \in Starts(1, n + 1) <=> i \in Starts(1, n)
    BY DEF Starts
  <2>2. i..(n + 1) = (i..n) \cup {n + 1}
    OBVIOUS
  <2> QED
    BY <2>1, <2>2 DEF Open
<1>3. n + 1 \in Open(n + 1) <=> source[n + 1].kind = "start"
  <2>1. /\ Cardinality(Starts(n + 1, n + 1)) = IF source[n + 1].kind = "start" THEN 1 ELSE 0
        /\ Cardinality(Ends(n + 1, n + 1)) = IF source[n + 1].kind = "end" THEN 1 ELSE 0
    <3>1. n + 1 \in 0..(n + 1)
      OBVIOUS
    <3>2. Cardinality(Starts(n + 1, n)) = 0 /\ Cardinality(Ends(n + 1, n)) = 0
      BY NoTagsYet
    <3>3. /\ Cardinality(Starts(n + 1, n + 1)) =
                Cardinality(Starts(n + 1, n)) + (IF source[n + 1].kind = "start" THEN 1 ELSE 0)
          /\ Cardinality(Ends(n + 1, n + 1)) =
                Cardinality(Ends(n + 1, n)) + (IF source[n + 1].kind = "end" THEN 1 ELSE 0)
      BY <3>1, OneMoreTag
    <3> QED
      BY <3>2, <3>3
  <2>2. (n + 1)..(n + 1) = {n + 1} /\ n + 1 \in 1..(n + 1)
    OBVIOUS
  <2>3. n + 1 \in Starts(1, n + 1) <=> source[n + 1].kind = "start"
    BY <2>2 DEF Starts
  <2> QED
    BY <2>1, <2>2, <2>3 DEF Open
<1> QED
  BY <1>1, <1>2, <1>3

(* The reference reads nothing but the job.                                *)
LEMMA SameInput ==
  ASSUME job' = job
  PROVE  /\ source' = source /\ Node' = Node
         /\ \A i, n : Starts(i, n)' = Starts(i, n) /\ Ends(i, n)' = Ends(i, n)
         /\ \A n : Open(n)' = Open(n) /\ Innermost(n)' = Innermost(n)
         /\ \A p, n : Content(p, n)' = Content(p, n)
         /\ \A i : TailOwner(i)' = TailOwner(i) /\ IsCharData(i)' = IsCharData(i)
<1>1. source' = source /\ Node' = Node
  BY DEF source, Node
<1>2. \A i, n : Starts(i, n)' = Starts(i, n) /\ Ends(i, n)' = Ends(i, n)
  BY <1>1 DEF Starts, Ends
<1>3. \A n : Open(n)' = Open(n)
  BY <1>2 DEF Open
<1>4. ASSUME NEW n PROVE Innermost(n)' = Innermost(n)
  <2>1. Open(n)' = Open(n)
    BY <1>3
  <2> QED
    BY <2>1 DEF Innermost
<1>5. \A i : IsCharData(i)' = IsCharData(i) /\ Kept(source[i])' = Kept(source[i])
  BY <1>1 DEF IsCharData, Kept
<1>6. \A p, n : Content(p, n)' = Content(p, n)
  BY <1>1, <1>4, <1>5 DEF Content
<1>7. ASSUME NEW i PROVE TailOwner(i)' = TailOwner(i)
  <2>1. Innermost(i - 1)' = Innermost(i - 1)
    BY <1>4
  <2>2. Content(Innermost(i - 1), i - 1)' = Content(Innermost(i - 1), i - 1)
    BY <1>6, <2>1
  <2>3. {j \in Content(Innermost(i - 1), i - 1) : ~IsCharData(j)}' =
          {j \in Content(Innermost(i - 1), i - 1) : ~IsCharData(j)}
    BY <1>5, <2>2
  <2> QED
    BY <2>3 DEF TailOwner
<1> QED
  BY <1>1, <1>2, <1>3, <1>4, <1>5, <1>6, <1>7

-----------------------------------------------------------------------------
(* The stack holds what the input has open, and each of its elements has as *)
(* many of the tags since its own still open as there are above it.         *)
StackIsOpen ==
  /\ Image(stack) = Open(pos)
  /\ \A k \in DOMAIN stack :
       Cardinality(Starts(stack[k], pos)) =
         Cardinality(Ends(stack[k], pos)) + (Len(stack) - k) + 1

(* The parent of new content is the innermost open element.                *)
LEMMA ParentIsInnermost ==
  ASSUME TypeOK, StackOrdered, StackIsOpen
  PROVE  /\ Parent = Innermost(pos)
         /\ stack # <<>> => Parent \in Open(pos) /\ Parent # 0
<1>1. stack \in Seq(Node \ {0}) /\ pos \in Nat /\ Node \subseteq Nat
  BY TypeFacts DEF TypeOK, Node
<1>2. CASE stack = <<>>
  <2>1. Open(pos) = {}
    BY <1>2 DEF StackIsOpen, Image
  <2> QED
    BY <1>2, <2>1 DEF Parent, Innermost, Latest
<1>3. CASE stack # <<>>
  <2>1. Len(stack) \in DOMAIN stack /\ DOMAIN stack = 1..Len(stack) /\ Len(stack) \in Nat
    BY <1>1, <1>3
  <2>2. Parent \in Open(pos) /\ Parent = stack[Len(stack)]
    BY <1>3, <2>1 DEF Parent, StackIsOpen, Image
  <2>3. \A k \in DOMAIN stack : stack[k] <= Parent /\ stack[k] \in Nat
    BY <1>1, <2>1, <2>2 DEF StackOrdered
  <2>4. \A j \in Open(pos) : j <= Parent /\ j \in Nat
    BY <2>3 DEF StackIsOpen, Image
  <2>5. \A i \in Open(pos) : (\A j \in Open(pos) : j <= i) => i = Parent
    BY <2>2, <2>4
  <2>6. Innermost(pos) = Parent
    BY <2>2, <2>4, <2>5 DEF Innermost, Latest
  <2>7. Parent # 0
    BY <1>1, <2>1, <2>2
  <2> QED
    BY <2>2, <2>6, <2>7
<1> QED
  BY <1>2, <1>3

LEMMA StackInit ==
  ASSUME Init
  PROVE  StackIsOpen
<1>1. stack = <<>> /\ pos = 0
  BY DEF Init
<1>2. Open(0) = {}
  BY DEF Open, Starts
<1> QED
  BY <1>1, <1>2 DEF StackIsOpen, Image

(* Where the elements of a sequence are after a push and after a pop.       *)
LEMMA Pushed ==
  ASSUME NEW S, NEW s \in Seq(S), NEW x \in S
  PROVE  LET a == Append(s, x)
         IN  /\ Len(a) = Len(s) + 1 /\ Len(s) \in Nat /\ DOMAIN s = 1..Len(s)
             /\ DOMAIN a = 1..(Len(s) + 1)
             /\ \A k \in 1..Len(s) : a[k] = s[k]
             /\ a[Len(s) + 1] = x
             /\ Image(a) = Image(s) \cup {x}
<1> DEFINE a == Append(s, x)
<1>1. /\ Len(a) = Len(s) + 1 /\ Len(s) \in Nat /\ DOMAIN s = 1..Len(s)
      /\ DOMAIN a = 1..(Len(s) + 1)
      /\ \A k \in 1..Len(s) : a[k] = s[k]
      /\ a[Len(s) + 1] = x
  BY AppendProperties
<1> HIDE DEF a
<1>2. Image(a) = Image(s) \cup {x}
  <2>1. \A k \in DOMAIN a : k \in DOMAIN s \/ k = Len(s) + 1
    BY <1>1
  <2>2. Len(s) + 1 \in DOMAIN a /\ \A k \in DOMAIN s : k \in DOMAIN a
    BY <1>1
  <2> QED
    BY <1>1, <2>1, <2>2 DEF Image
<1> QED
  BY <1>1, <1>2 DEF a

LEMMA Popped ==
  ASSUME NEW S, NEW s \in Seq(S), s # <<>>
  PROVE  LET a == SubSeq(s, 1, Len(s) - 1)
         IN  /\ Len(s) \in Nat \ {0} /\ DOMAIN s = 1..Len(s)
             /\ Len(a) = Len(s) - 1 /\ DOMAIN a = 1..(Len(s) - 1)
             /\ \A k \in 1..(Len(s) - 1) : a[k] = s[k] /\ k \in DOMAIN s
<1>1. Len(s) \in Nat \ {0} /\ DOMAIN s = 1..Len(s)
  OBVIOUS
<1>2. SubSeq(s, 1, Len(s) - 1) \in Seq(S)
  BY <1>1
<1> QED
  BY <1>1, <1>2

LEMMA StackPull ==
  ASSUME TypeOK, StackOrdered, StackIsOpen, NEW c \in Caller, NEW kinds, Pull(c, kinds),
         CASE source[pos + 1].kind = "start" -> stack' = Append(stack, pos + 1)
           [] source[pos + 1].kind = "end" -> /\ stack # <<>>
                                              /\ stack' = SubSeq(stack, 1, Len(stack) - 1)
           [] OTHER -> stack' = stack
  PROVE  StackIsOpen'
<1> DEFINE L == Len(stack)
           Up(i, n) == Cardinality(Starts(i, n))
           Down(i, n) == Cardinality(Ends(i, n))
<1>1. /\ pos \in Nat /\ pos' = pos + 1 /\ job' = job /\ pos + 1 \in Node \ {0}
      /\ stack \in Seq(Node \ {0}) /\ L \in Nat /\ DOMAIN stack = 1..L
      /\ \A k \in DOMAIN stack : stack[k] \in 1..pos
      /\ \A k \in DOMAIN stack : stack[k] \in Open(pos)
      /\ \A i \in Open(pos) : \E k \in DOMAIN stack : i = stack[k]
  <2>1. pos \in Nat /\ pos' = pos + 1 /\ job' = job /\ pos + 1 \in Node \ {0}
    BY NextNode
  <2>2. stack \in Seq(Node \ {0})
    BY DEF TypeOK
  <2>3. L \in Nat /\ DOMAIN stack = 1..L
    BY <2>2
  <2>4. Image(stack) = Open(pos)
    BY DEF StackIsOpen
  <2> QED
    BY <2>1, <2>2, <2>3, <2>4 DEF StackOrdered, Image
<1>2. ASSUME NEW k \in DOMAIN stack
      PROVE  /\ Up(stack[k], pos) \in Nat /\ Down(stack[k], pos) \in Nat
             /\ Up(stack[k], pos) = Down(stack[k], pos) + (L - k) + 1
             /\ Up(stack[k], pos + 1) =
                  Up(stack[k], pos) + (IF source[pos + 1].kind = "start" THEN 1 ELSE 0)
             /\ Down(stack[k], pos + 1) =
                  Down(stack[k], pos) + (IF source[pos + 1].kind = "end" THEN 1 ELSE 0)
  <2>1. stack[k] \in Nat /\ stack[k] \in 0..(pos + 1)
    BY <1>1
  <2> QED
    BY <1>1, <2>1, OneMoreTag, TagsCounted DEF StackIsOpen
<1>3. /\ \A i \in 1..pos : i \in Open(pos + 1) <=> i \in Open(pos) /\ Up(i, pos + 1) > Down(i, pos + 1)
      /\ pos + 1 \in Open(pos + 1) <=> source[pos + 1].kind = "start"
      /\ Open(pos + 1) \subseteq 1..(pos + 1)
  <2>1. pos + 1 \in Nat
    BY <1>1
  <2> QED
    BY <1>1, <2>1, OpenNext
<1>4. SUFFICES /\ Image(stack') = Open(pos + 1)
               /\ \A k \in DOMAIN stack' :
                    Up(stack'[k], pos + 1) = Down(stack'[k], pos + 1) + (Len(stack') - k) + 1
  <2>1. /\ \A n : Open(n)' = Open(n)
        /\ \A i, n : Starts(i, n)' = Starts(i, n) /\ Ends(i, n)' = Ends(i, n)
    BY <1>1, SameInput
  <2> QED
    BY <1>1, <2>1 DEF StackIsOpen, Image
<1> HIDE DEF Up, Down, L
<1>5. CASE source[pos + 1].kind = "start"
  <2>1. stack' = Append(stack, pos + 1)
    BY <1>5
  <2>2. /\ Len(stack') = L + 1 /\ DOMAIN stack' = 1..(L + 1)
        /\ \A k \in 1..L : stack'[k] = stack[k]
        /\ stack'[L + 1] = pos + 1
        /\ Image(stack') = Image(stack) \cup {pos + 1}
    <3>1. stack \in Seq(Node \ {0}) /\ pos + 1 \in Node \ {0}
      BY <1>1
    <3> QED
      BY <2>1, <3>1, Pushed DEF L
  <2>3. Up(pos + 1, pos + 1) = 1 /\ Down(pos + 1, pos + 1) = 0
    <3>1. pos + 1 \in 0..(pos + 1)
      BY <1>1
    <3>2. /\ Up(pos + 1, pos) = 0 /\ Down(pos + 1, pos) = 0
      BY <1>1, NoTagsYet DEF Up, Down
    <3>3. /\ Up(pos + 1, pos + 1) =
                Up(pos + 1, pos) + (IF source[pos + 1].kind = "start" THEN 1 ELSE 0)
          /\ Down(pos + 1, pos + 1) =
                Down(pos + 1, pos) + (IF source[pos + 1].kind = "end" THEN 1 ELSE 0)
      BY <1>1, <3>1, OneMoreTag DEF Up, Down
    <3> QED
      BY <1>5, <3>2, <3>3
  <2>4. Image(stack') = Open(pos + 1)
    <3>1. \A k \in DOMAIN stack : Up(stack[k], pos + 1) > Down(stack[k], pos + 1)
      BY <1>1, <1>2, <1>5
    <3>2. \A k \in DOMAIN stack : stack[k] \in Open(pos + 1)
      BY <1>1, <1>3, <3>1
    <3>3. \A i \in Open(pos + 1) : i \in Open(pos) \/ i = pos + 1
      BY <1>1, <1>3
    <3>4. Open(pos) \subseteq Open(pos + 1) /\ pos + 1 \in Open(pos + 1)
      BY <1>1, <1>3, <1>5, <3>2
    <3> QED
      BY <2>2, <3>3, <3>4 DEF StackIsOpen
  <2>5. ASSUME NEW k \in DOMAIN stack'
        PROVE  Up(stack'[k], pos + 1) = Down(stack'[k], pos + 1) + (Len(stack') - k) + 1
    <3>1. CASE k \in 1..L
      <4>1. stack'[k] = stack[k] /\ k \in DOMAIN stack /\ Len(stack') - k = (L - k) + 1
        BY <1>1, <2>2, <3>1
      <4> QED
        BY <1>1, <1>2, <1>5, <3>1, <4>1
    <3>2. CASE k = L + 1
      BY <1>1, <2>2, <2>3, <3>2
    <3> QED
      BY <1>1, <2>2, <3>1, <3>2
  <2> QED
    BY <2>4, <2>5
<1>6. CASE source[pos + 1].kind = "end"
  <2>1. stack # <<>> /\ stack' = SubSeq(stack, 1, Len(stack) - 1)
    BY <1>6
  <2>2. /\ L \in Nat \ {0} /\ Len(stack') = L - 1 /\ DOMAIN stack' = 1..(L - 1)
        /\ \A k \in 1..(L - 1) : stack'[k] = stack[k] /\ k \in DOMAIN stack
    <3>1. stack \in Seq(Node \ {0})
      BY <1>1
    <3> QED
      BY <2>1, <3>1, Popped DEF L
  <2>3. ASSUME NEW k \in DOMAIN stack
        PROVE  Up(stack[k], pos + 1) > Down(stack[k], pos + 1) <=> k # L
    <3>1. /\ Up(stack[k], pos + 1) = Up(stack[k], pos)
          /\ Down(stack[k], pos + 1) = Down(stack[k], pos) + 1
          /\ Up(stack[k], pos) \in Nat /\ Down(stack[k], pos) \in Nat
          /\ Up(stack[k], pos) = Down(stack[k], pos) + (L - k) + 1
      BY <1>2, <1>6
    <3>2. k \in 1..L /\ L \in Nat
      BY <1>1
    <3> QED
      BY <3>1, <3>2
  <2>4. \A k \in DOMAIN stack : stack[k] \in Open(pos + 1) <=> k # L
    BY <1>1, <1>3, <2>3
  <2>5. \A i \in Open(pos + 1) : i \in Open(pos)
    BY <1>1, <1>3, <1>6
  <2>6. Image(stack') = Open(pos + 1)
    <3>1. \A k \in DOMAIN stack : k # L => k \in 1..(L - 1)
      BY <1>1, <2>2
    <3>2. \A i \in Open(pos + 1) : \E k \in DOMAIN stack' : stack'[k] = i
      BY <1>1, <2>2, <2>4, <2>5, <3>1
    <3>3. \A k \in DOMAIN stack' : stack'[k] \in Open(pos + 1)
      BY <2>2, <2>4
    <3> QED
      BY <3>2, <3>3 DEF Image
  <2>7. \A k \in DOMAIN stack' :
           Up(stack'[k], pos + 1) = Down(stack'[k], pos + 1) + (Len(stack') - k) + 1
    <3> SUFFICES ASSUME NEW k \in DOMAIN stack'
                 PROVE  Up(stack'[k], pos + 1) = Down(stack'[k], pos + 1) + (Len(stack') - k) + 1
      OBVIOUS
    <3>1. stack'[k] = stack[k] /\ k \in DOMAIN stack /\ k \in 1..(L - 1)
      BY <2>2
    <3> QED
      BY <1>1, <1>2, <1>6, <2>2, <3>1
  <2> QED
    BY <2>6, <2>7
<1>7. CASE source[pos + 1].kind \notin {"start", "end"}
  <2>1. stack' = stack
    BY <1>7
  <2>2. \A k \in DOMAIN stack : /\ Up(stack[k], pos + 1) > Down(stack[k], pos + 1)
                                /\ Up(stack[k], pos + 1) = Up(stack[k], pos)
                                /\ Down(stack[k], pos + 1) = Down(stack[k], pos)
    <3> SUFFICES ASSUME NEW k \in DOMAIN stack
                 PROVE  /\ Up(stack[k], pos + 1) > Down(stack[k], pos + 1)
                        /\ Up(stack[k], pos + 1) = Up(stack[k], pos)
                        /\ Down(stack[k], pos + 1) = Down(stack[k], pos)
      OBVIOUS
    <3>1. /\ Up(stack[k], pos) \in Nat /\ Down(stack[k], pos) \in Nat
          /\ Up(stack[k], pos) = Down(stack[k], pos) + (L - k) + 1
          /\ Up(stack[k], pos + 1) = Up(stack[k], pos) + 0
          /\ Down(stack[k], pos + 1) = Down(stack[k], pos) + 0
      BY <1>2, <1>7
    <3>2. L \in Nat /\ k \in 1..L
      BY <1>1 DEF L
    <3> QED
      BY <3>1, <3>2
  <2>3. Open(pos + 1) = Open(pos)
    <3>1. \A i \in Open(pos) : i \in Open(pos + 1)
      BY <1>1, <1>3, <2>2
    <3>2. \A i \in Open(pos + 1) : i \in Open(pos)
      BY <1>1, <1>3, <1>7
    <3> QED
      BY <3>1, <3>2
  <2> QED
    BY <1>2, <2>1, <2>2, <2>3 DEF StackIsOpen, L
<1> QED
  BY <1>5, <1>6, <1>7

-----------------------------------------------------------------------------
(* What any step of the specification does: one turn of the loop, an edit  *)
(* by the loop body, or a change to the queue's two ends alone.            *)
Turn(c) ==
  PullStart(c) \/ PullEnd(c) \/ PullText(c) \/ PullMarkup(c) \/ PullNamespace(c)

Quiet == Results' = Results /\ UNCHANGED <<job, pos, stack, kids, text, cleared, cut>>

LEMMA StepCases ==
  ASSUME TypeOK, [Next]_vars
  PROVE  Quiet \/ Body \/ \E c \in Caller : Turn(c)
<1>1. ASSUME NEW c \in Caller, Call(c)
      PROVE  Quiet
  <2>1. UNCHANGED <<job, pos, stack, kids, text, cleared, cut>>
    BY <1>1 DEF Call, tree, history
  <2>2. CASE pending # <<>> \/ done
    <3>1. HandOut(c)
      BY <1>1, <2>2 DEF Call
    <3> QED
      BY <2>1, <3>1, HandOutEffect DEF Quiet
  <2>3. CASE ~(pending # <<>> \/ done)
    <3>1. UNCHANGED <<pending, handed>>
      BY <1>1, <2>3 DEF Call
    <3> QED
      BY <2>1, <3>1 DEF Quiet, Results
  <2> QED
    BY <2>2, <2>3
<1>2. ASSUME NEW c \in Caller, Return(c)
      PROVE  Quiet
  <2>1. UNCHANGED <<job, pos, stack, kids, text, cleared, cut>> /\ HandOut(c)
    BY <1>2 DEF Return, tree, history
  <2> QED
    BY <2>1, HandOutEffect DEF Quiet
<1>3. ASSUME NEW c \in Caller, Exhaust(c)
      PROVE  Quiet
  BY <1>3 DEF Exhaust, Quiet, Results, tree, history
<1>4. CASE UNCHANGED vars
  BY <1>4 DEF vars, state, tree, history, Quiet, Results
<1>5. CASE Next
  BY <1>1, <1>2, <1>3, <1>5 DEF Next, Serve, Turn
<1> QED
  BY <1>4, <1>5

(* One turn of the loop, as the proofs use it: n is the node it shows.     *)
LEMMA TurnFacts ==
  ASSUME TypeOK, NEW c \in Caller, Turn(c)
  PROVE  /\ pos \in Nat /\ pos + 1 \in Node \ {0} /\ pos' = pos + 1 /\ job' = job
         /\ cleared' = cleared /\ cut' = cut
         /\ CASE source[pos + 1].kind = "start" -> stack' = Append(stack, pos + 1)
              [] source[pos + 1].kind = "end" -> /\ stack # <<>>
                                                 /\ stack' = SubSeq(stack, 1, Len(stack) - 1)
              [] OTHER -> stack' = stack
         /\ \E n \in Node :
              /\ \/ Results' = Results
                 \/ /\ Results' = Append(Results, Result(pos + 1, n))
                    /\ Result(pos + 1, n) \in ResultType
                    /\ source[pos + 1].kind \notin CharData
              /\ n = CASE source[pos + 1].kind = "end" -> Parent
                       [] source[pos + 1].kind \in {"start", "comment", "pi"} -> pos + 1
                       [] OTHER -> 0
<1> DEFINE i == pos + 1
           Shown(n) == \E k : Pull(c, k) /\ Enqueue(i, n)
           kind == source[i].kind
<1>1. /\ Parent \in Node /\ 0 \in Node
  BY TypeFacts DEF Node
<1>2. PICK kinds : Pull(c, kinds) /\
        \/ PullStart(c) /\ kinds = {"start"}
        \/ PullEnd(c) /\ kinds = {"end"}
        \/ PullText(c) /\ kinds = CharData
        \/ PullMarkup(c) /\ kinds = {"comment", "pi"}
        \/ PullNamespace(c) /\ kinds = {"start-ns", "end-ns"}
  BY DEF Turn, PullStart, PullEnd, PullText, PullMarkup, PullNamespace
<1>3. /\ pos \in Nat /\ i \in Node \ {0} /\ kind \in kinds /\ pos' = i /\ job' = job
      /\ cleared' = cleared /\ cut' = cut
  BY <1>2, NextNode DEF Pull, history
<1> HIDE DEF i
<1>4. ASSUME NEW n \in Node, Enqueue(pos + 1, n)
      PROVE  \/ Results' = Results
             \/ /\ Results' = Append(Results, Result(pos + 1, n))
                /\ Result(pos + 1, n) \in ResultType
  BY <1>2, <1>4, EnqueueEffect
<1>5. CASE PullStart(c) /\ kinds = {"start"}
  BY <1>3, <1>4, <1>5 DEF PullStart, CharData, i
<1>6. CASE PullEnd(c) /\ kinds = {"end"}
  BY <1>1, <1>3, <1>4, <1>6 DEF PullEnd, CharData, i
<1>7. CASE PullText(c) /\ kinds = CharData
  <2>1. Results' = Results /\ stack' = stack
    BY <1>2, <1>7 DEF PullText, Results, Pull
  <2> QED
    BY <1>1, <1>3, <1>7, <2>1 DEF CharData, i
<1>8. CASE PullMarkup(c) /\ kinds = {"comment", "pi"}
  BY <1>3, <1>4, <1>8 DEF PullMarkup, CharData, i
<1>9. CASE PullNamespace(c) /\ kinds = {"start-ns", "end-ns"}
  BY <1>1, <1>3, <1>4, <1>9 DEF PullNamespace, CharData, i
<1> QED
  BY <1>2, <1>5, <1>6, <1>7, <1>8, <1>9

(* The invariant of the stack.                                             *)
StackInv == IInv /\ StackIsOpen

LEMMA StackStep ==
  ASSUME StackInv, [Next]_vars
  PROVE  StackIsOpen'
<1>1. TypeOK /\ StackOrdered /\ StackIsOpen
  BY DEF StackInv, IInv
<1>2. CASE UNCHANGED <<job, pos, stack>>
  <2>1. /\ \A n : Open(n)' = Open(n)
        /\ \A i, n : Starts(i, n)' = Starts(i, n) /\ Ends(i, n)' = Ends(i, n)
    BY <1>2, SameInput
  <2> QED
    BY <1>1, <1>2, <2>1 DEF StackIsOpen, Image
<1>3. ASSUME NEW c \in Caller, Turn(c)
      PROVE  StackIsOpen'
  <2>1. PICK kinds : Pull(c, kinds)
    BY <1>3 DEF Turn, PullStart, PullEnd, PullText, PullMarkup, PullNamespace
  <2> QED
    BY <1>1, <1>3, <2>1, TurnFacts, StackPull
<1>4. CASE Body
  BY <1>2, <1>4 DEF Body, Clear, Remove, state
<1> QED
  BY <1>1, <1>2, <1>3, <1>4, StepCases DEF Quiet

THEOREM StackInvariance == Spec => []StackInv
<1>1. Init => StackIsOpen
  BY StackInit
<1>2. IInv /\ StackIsOpen /\ [Next]_vars => StackIsOpen'
  BY StackStep DEF StackInv
<1>3. IInv /\ StackIsOpen => StackInv
  BY DEF StackInv
<1> QED
  BY <1>1, <1>2, <1>3, Invariance, PTL DEF Spec

-----------------------------------------------------------------------------
(* Results show their elements.                                            *)
ShownAs(r) ==
  r.id = CASE source[r.at].kind = "end" -> Innermost(r.at - 1)
           [] source[r.at].kind \in {"start", "comment", "pi"} -> r.at
           [] OTHER -> 0

LEMMA ShowsStep ==
  ASSUME StackInv, ShowsItsElement, [Next]_vars
  PROVE  ShowsItsElement'
<1>1. TypeOK /\ StackOrdered /\ StackIsOpen /\ Results \in Seq(ResultType)
  BY TypeFacts DEF StackInv, IInv
<1>2. \A k \in DOMAIN Results : ShownAs(Results[k])
  BY DEF ShowsItsElement, ShownAs
<1>3. ASSUME job' = job, \A k \in DOMAIN Results' : ShownAs(Results'[k])
      PROVE  ShowsItsElement'
  <2>1. source' = source /\ \A n : Innermost(n)' = Innermost(n)
    BY <1>3, SameInput
  <2> QED
    BY <1>3, <2>1 DEF ShowsItsElement, ShownAs
<1>4. CASE Results' = Results /\ job' = job
  BY <1>2, <1>3, <1>4
<1>5. ASSUME NEW c \in Caller, Turn(c)
      PROVE  ShowsItsElement'
  <2>1. PICK n \in Node :
          /\ \/ Results' = Results
             \/ /\ Results' = Append(Results, Result(pos + 1, n))
                /\ Result(pos + 1, n) \in ResultType
                /\ source[pos + 1].kind \notin CharData
          /\ n = CASE source[pos + 1].kind = "end" -> Parent
                   [] source[pos + 1].kind \in {"start", "comment", "pi"} -> pos + 1
                   [] OTHER -> 0
    BY <1>1, <1>5, TurnFacts
  <2>2. job' = job /\ pos \in Nat
    BY <1>1, <1>5, TurnFacts
  <2>3. ShownAs(Result(pos + 1, n))
    <3>1. Parent = Innermost(pos) /\ (pos + 1) - 1 = pos
      BY <1>1, <2>2, ParentIsInnermost
    <3>2. Result(pos + 1, n).at = pos + 1 /\ Result(pos + 1, n).id = n
      BY DEF Result
    <3> QED
      BY <2>1, <3>1, <3>2 DEF ShownAs
  <2>4. CASE Results' = Append(Results, Result(pos + 1, n)) /\ Result(pos + 1, n) \in ResultType
    <3> DEFINE r == Result(pos + 1, n)
    <3>1. /\ DOMAIN Results' = 1..(Len(Results) + 1) /\ DOMAIN Results = 1..Len(Results)
          /\ \A k \in 1..Len(Results) : Results'[k] = Results[k]
          /\ Results'[Len(Results) + 1] = r /\ Len(Results) \in Nat
      <4> HIDE DEF r
      <4> QED
        BY <1>1, <2>4, Pushed DEF r
    <3>2. \A k \in DOMAIN Results' : ShownAs(Results'[k])
      <4> HIDE DEF r
      <4>1. \A k \in DOMAIN Results' : k \in DOMAIN Results \/ k = Len(Results) + 1
        BY <3>1
      <4>2. ShownAs(r)
        BY <2>3 DEF r
      <4> QED
        BY <1>2, <3>1, <4>1, <4>2
    <3> QED
      BY <1>3, <2>2, <3>2
  <2> QED
    BY <1>4, <2>1, <2>2, <2>4
<1>6. CASE Body
  BY <1>4, <1>6 DEF Body, Clear, Remove, state, Results
<1> QED
  BY <1>1, <1>4, <1>5, <1>6, StepCases DEF Quiet

LEMMA ShowsInit ==
  ASSUME Init
  PROVE  ShowsItsElement
<1>1. Results = <<>>
  BY DEF Init, Results
<1> QED
  BY <1>1 DEF ShowsItsElement

(* Every result shows the element its tag opens or closes, whatever the    *)
(* tag filter left out and however calls fall on batches.                  *)
THEOREM ShowsElement == Spec => []ShowsItsElement
<1>1. StackInv /\ ShowsItsElement /\ [Next]_vars => ShowsItsElement'
  BY ShowsStep
<1> QED
  BY <1>1, ShowsInit, StackInvariance, PTL DEF Spec

-----------------------------------------------------------------------------
(* The tree.  A chain after a cut, place by place: what is gone is the node *)
(* itself or follows it, with character data only between the two; and     *)
(* character data stays with what it followed.                             *)
LEMMA CutPlaces ==
  ASSUME NEW S, NEW s \in Seq(S), NEW e, NEW whole \in BOOLEAN
  PROVE  LET t == Cut(s, e, whole)
         IN  \E g \in [DOMAIN t -> DOMAIN s] :
               /\ \A j \in DOMAIN t : t[j] = s[g[j]]
               /\ \A j, k \in DOMAIN t : j < k => g[j] < g[k]
               /\ \A j, k \in DOMAIN t :
                    j < k /\ (\A i \in (j + 1)..k : IsCharData(t[i])) =>
                      \A i \in (g[j] + 1)..g[k] : IsCharData(s[i])
               /\ \A m \in DOMAIN s : m \notin Image(g) =>
                    \/ whole /\ s[m] = e
                    \/ \E k \in DOMAIN s : /\ k < m /\ s[k] = e
                                           /\ \A i \in (k + 1)..m : IsCharData(s[i])
<1>1. CASE e \notin Image(s)
  <2> DEFINE g == [j \in DOMAIN s |-> j]
  <2>1. Cut(s, e, whole) = s
    BY <1>1 DEF Cut
  <2>2. Image(g) = DOMAIN s
    BY DEF Image
  <2> QED
    BY <2>1, <2>2
<1>2. CASE e \in Image(s)
  <2> DEFINE k0 == CHOOSE j \in DOMAIN s : s[j] = e
             m0 == TailEnd(s, k0)
             a == IF whole THEN k0 - 1 ELSE k0
             left == SubSeq(s, 1, a)
             right == SubSeq(s, m0 + 1, Len(s))
             t == left \o right
  <2>1. k0 \in DOMAIN s /\ s[k0] = e
    BY <1>2 DEF Image
  <2>2. /\ m0 \in k0..Len(s) /\ (m0 < Len(s) => ~IsCharData(s[m0 + 1]))
        /\ \A j \in (k0 + 1)..m0 : IsCharData(s[j])
    <3> HIDE DEF k0
    <3> QED
      BY <2>1, TailEndIs
  <2>3. Cut(s, e, whole) = t
    BY <1>2 DEF Cut, CutAt
  <2>4. /\ k0 \in Nat /\ m0 \in Nat /\ a \in Nat /\ a <= m0 /\ k0 <= Len(s) /\ Len(s) \in Nat
        /\ m0 <= Len(s) /\ a <= k0 /\ k0 <= a + 1 /\ DOMAIN s = 1..Len(s) /\ (~whole => a = k0)
    <3> HIDE DEF k0, m0
    <3> QED
      BY <2>1, <2>2
  <2> HIDE DEF k0, m0, a
  <2>5. /\ left \in Seq(S) /\ Len(left) = a
        /\ \A j \in 1..a : left[j] = s[j]
    BY <2>2, <2>4
  <2>6. /\ right \in Seq(S) /\ Len(right) = Len(s) - m0
        /\ \A j \in 1..(Len(s) - m0) : right[j] = s[m0 + j]
    <3>1. m0 \in Nat /\ m0 <= Len(s) /\ Len(s) \in Nat
      BY <2>4
    <3> QED
      BY <3>1
  <2> HIDE DEF left, right
  <2> DEFINE n == a + (Len(s) - m0)
             g == [j \in 1..n |-> IF j <= a THEN j ELSE m0 + (j - a)]
  <2>7. /\ DOMAIN t = 1..n /\ n \in Nat
        /\ \A j \in 1..n : t[j] = IF j <= a THEN left[j] ELSE right[j - a]
    <3>1. /\ Len(t) = Len(left) + Len(right) /\ t \in Seq(S)
          /\ \A j \in 1..(Len(left) + Len(right)) :
               t[j] = IF j <= Len(left) THEN left[j] ELSE right[j - Len(left)]
      BY <2>5, <2>6, ConcatProperties
    <3>2. n \in Nat /\ n = Len(left) + Len(right)
      BY <2>4, <2>5, <2>6
    <3> HIDE DEF t, n
    <3> QED
      BY <2>5, <3>1, <3>2
  <2> HIDE DEF t
  <2>8. ASSUME NEW j \in 1..n
        PROVE  t[j] = s[g[j]] /\ g[j] \in DOMAIN s
    <3>1. CASE j <= a
      BY <2>4, <2>5, <2>7, <3>1
    <3>2. CASE ~(j <= a)
      <4>1. j - a \in 1..(Len(s) - m0) /\ g[j] = m0 + (j - a)
        BY <2>4, <3>2
      <4>2. t[j] = s[m0 + (j - a)]
        BY <2>6, <2>7, <3>2, <4>1
      <4> QED
        BY <2>4, <4>1, <4>2
    <3> QED
      BY <3>1, <3>2
  <2>9. \A j, k \in 1..n : j < k => g[j] < g[k]
    BY <2>4
  <2>10. ASSUME NEW j \in 1..n, NEW k \in 1..n, j < k,
                \A i \in (j + 1)..k : IsCharData(t[i]),
                NEW i \in (g[j] + 1)..g[k]
         PROVE  IsCharData(s[i])
    <3>1. a + 1 \notin (j + 1)..k
      <4> SUFFICES ASSUME a + 1 \in (j + 1)..k PROVE FALSE
        OBVIOUS
      <4>1. /\ m0 < Len(s) /\ a + 1 \in 1..n /\ g[a + 1] = m0 + 1
        BY <2>4
      <4>2. t[a + 1] = s[m0 + 1]
        BY <2>8, <4>1
      <4> QED
        BY <2>2, <2>10, <4>1, <4>2
    <3>2. CASE k <= a
      <4>1. g[j] = j /\ g[k] = k /\ i \in (j + 1)..k /\ i \in 1..n /\ g[i] = i
        BY <2>4, <2>10, <3>2
      <4> QED
        BY <2>8, <2>10, <4>1
    <3>3. CASE j > a
      <4>1. /\ g[j] = m0 + (j - a) /\ g[k] = m0 + (k - a)
        BY <2>4, <2>10, <3>3
      <4>2. /\ (i - m0) + a \in (j + 1)..k /\ (i - m0) + a \in 1..n
            /\ g[(i - m0) + a] = i
        BY <2>4, <2>10, <3>3, <4>1
      <4> QED
        BY <2>8, <2>10, <4>2
    <3> QED
      BY <2>4, <2>10, <3>1, <3>2, <3>3
  <2>11. ASSUME NEW m \in DOMAIN s, m \notin Image(g)
         PROVE  \/ whole /\ s[m] = e
                \/ \E k \in DOMAIN s : /\ k < m /\ s[k] = e
                                       /\ \A i \in (k + 1)..m : IsCharData(s[i])
    <3>1. ~(m <= a)
      <4> SUFFICES ASSUME m <= a PROVE FALSE
        OBVIOUS
      <4>1. m \in 1..n /\ g[m] = m
        BY <2>4
      <4> QED
        BY <2>11, <4>1 DEF Image
    <3>2. ~(m > m0)
      <4> SUFFICES ASSUME m > m0 PROVE FALSE
        OBVIOUS
      <4>1. (m - m0) + a \in 1..n /\ g[(m - m0) + a] = m
        BY <2>4
      <4> QED
        BY <2>11, <4>1 DEF Image
    <3>3. CASE m = k0
      BY <2>1, <2>4, <3>1, <3>3
    <3>4. CASE m # k0
      <4>1. k0 < m /\ m <= m0
        BY <2>4, <3>1, <3>2, <3>4
      <4>2. \A i \in (k0 + 1)..m : IsCharData(s[i])
        BY <2>2, <2>4, <4>1
      <4> QED
        BY <2>1, <4>1, <4>2
    <3> QED
      BY <3>3, <3>4
  <2> QED
    <3>1. g \in [DOMAIN t -> DOMAIN s]
      BY <2>7, <2>8
    <3> HIDE DEF g, n
    <3> QED
      BY <2>3, <2>7, <2>8, <2>9, <2>10, <2>11, <3>1
<1> QED
  BY <1>1, <1>2

(* The latest event of a set that is not empty.                            *)
LEMMA LatestIs ==
  ASSUME NEW n \in Nat, NEW S \in SUBSET (1..n), S # {}
  PROVE  Latest(S) \in S /\ \A j \in S : j <= Latest(S)
<1> DEFINE T == {n - j : j \in S}
<1>1. T \in SUBSET Nat /\ T # {}
  <2>1. \A j \in S : n - j \in Nat
    OBVIOUS
  <2> QED
    BY <2>1
<1>2. PICK x \in T : \A y \in T : x <= y
  <2> HIDE DEF T
  <2> QED
    BY <1>1, LeastElement
<1>3. PICK i \in S : x = n - i
  BY <1>2
<1>4. \A j \in S : j <= i
  <2> SUFFICES ASSUME NEW j \in S PROVE j <= i
    OBVIOUS
  <2>1. n - j \in T
    OBVIOUS
  <2>2. n - i <= n - j
    BY <1>2, <1>3, <2>1
  <2>3. i \in 1..n /\ j \in 1..n
    OBVIOUS
  <2> QED
    BY <2>2, <2>3
<1> QED
  BY <1>3, <1>4 DEF Latest

(* One more event in the content of an element, or in none.                *)
LEMMA ContentNext ==
  ASSUME NEW n \in Nat, NEW p
  PROVE  /\ Content(p, n) \subseteq 1..n
         /\ Content(p, n + 1) =
              Content(p, n) \cup
                (IF /\ Innermost(n) = p
                    /\ source[n + 1].kind \in CharData \cup {"start", "comment", "pi"}
                    /\ Kept(source[n + 1])
                    /\ p = 0 => ~IsCharData(n + 1)
                 THEN {n + 1} ELSE {})
<1>1. Content(p, n) \subseteq 1..n
  BY DEF Content
<1>2. 1..(n + 1) = (1..n) \cup {n + 1} /\ n + 1 \notin 1..n /\ (n + 1) - 1 = n
  OBVIOUS
<1> DEFINE In(i) == /\ Innermost(i - 1) = p
                    /\ source[i].kind \in CharData \cup {"start", "comment", "pi"}
                    /\ Kept(source[i])
                    /\ p = 0 => ~IsCharData(i)
<1>3. Content(p, n) = {i \in 1..n : In(i)} /\ Content(p, n + 1) = {i \in 1..(n + 1) : In(i)}
  BY DEF Content
<1>4. In(n + 1) <=> /\ Innermost(n) = p
                    /\ source[n + 1].kind \in CharData \cup {"start", "comment", "pi"}
                    /\ Kept(source[n + 1])
                    /\ p = 0 => ~IsCharData(n + 1)
  BY <1>2
<1> HIDE DEF In
<1>5. Content(p, n + 1) = Content(p, n) \cup (IF In(n + 1) THEN {n + 1} ELSE {})
  BY <1>2, <1>3
<1> QED
  BY <1>1, <1>4, <1>5

(* The events a node stands for.                                           *)
Own(n) == IF IsCharData(n) THEN Image(text[n]) ELSE {n}

OwnedBy(s) == UNION {Own(n) : n \in Image(s)}

Made(s) ==
  \A n \in Image(s) : /\ n \in 1..pos
                      /\ n \in Own(n)
                      /\ IsCharData(n) => \A i \in Own(n) : IsCharData(i)

Ordered(s) == \A j, k \in DOMAIN s : j < k => \A x \in Own(s[j]), y \in Own(s[k]) : x < y

(* Text that follows a node is that node's tail, unless a node between the *)
(* two has been taken away.                                                *)
Trailing(s, gone) ==
  \A k, m \in DOMAIN s :
    k < m /\ ~IsCharData(s[k]) /\ (\A j \in (k + 1)..m : IsCharData(s[j])) =>
      \A i \in Own(s[m]) : TailOwner(i) \in {s[k]} \cup gone

(* An event that is missing was taken away.                                *)
Taken(i, gone) == IF IsCharData(i) THEN TailOwner(i) \in gone ELSE i \in gone

ChainHolds(p) ==
  /\ Made(kids[p])
  /\ Ordered(kids[p])
  /\ Trailing(kids[p], cut)
  /\ OwnedBy(kids[p]) \subseteq Content(p, pos)
  /\ p \notin cleared => \A i \in Content(p, pos) \ OwnedBy(kids[p]) : Taken(i, cut)

ChainsHold == \A p \in Node : ChainHolds(p)

TreeInv == StackInv /\ ShowsItsElement /\ ChainsHold

LEMMA TreeInit ==
  ASSUME Init
  PROVE  ChainsHold
<1>1. kids = [n \in Node |-> <<>>] /\ text = [n \in Node |-> <<>>] /\ pos = 0
  BY DEF Init
<1>2. \A p : Content(p, 0) = {}
  BY DEF Content
<1>3. Image(<<>>) = {}
  BY DEF Image
<1> QED
  BY <1>1, <1>2, <1>3 DEF ChainsHold, ChainHolds, Made, Ordered, Trailing, OwnedBy

(* What the edits of the loop body do to one chain.                        *)
LEMMA CutChain ==
  ASSUME NEW s \in Seq(Node \ {0}), NEW e, NEW whole \in BOOLEAN, NEW gone,
         e \in Image(s) => ~IsCharData(e),
         Made(s), Ordered(s), Trailing(s, gone)
  PROVE  LET t == Cut(s, e, whole)
         IN  /\ Made(t) /\ Ordered(t) /\ Trailing(t, gone \cup {e})
             /\ OwnedBy(t) \subseteq OwnedBy(s)
             /\ \A i \in OwnedBy(s) \ OwnedBy(t) : Taken(i, gone \cup {e})
<1> DEFINE t == Cut(s, e, whole)
<1>1. PICK g \in [DOMAIN t -> DOMAIN s] :
         /\ \A j \in DOMAIN t : t[j] = s[g[j]]
         /\ \A j, k \in DOMAIN t : j < k => g[j] < g[k]
         /\ \A j, k \in DOMAIN t :
              j < k /\ (\A i \in (j + 1)..k : IsCharData(t[i])) =>
                \A i \in (g[j] + 1)..g[k] : IsCharData(s[i])
         /\ \A m \in DOMAIN s : m \notin Image(g) =>
              \/ whole /\ s[m] = e
              \/ \E k \in DOMAIN s : /\ k < m /\ s[k] = e
                                     /\ \A i \in (k + 1)..m : IsCharData(s[i])
  BY CutPlaces
<1> HIDE DEF t
<1>2. Image(t) \subseteq Image(s)
  BY <1>1 DEF Image
<1>3. Made(t)
  BY <1>2 DEF Made
<1>4. Ordered(t)
  BY <1>1 DEF Ordered
<1>5. Trailing(t, gone \cup {e})
  <2> SUFFICES ASSUME NEW k \in DOMAIN t, NEW m \in DOMAIN t, k < m, ~IsCharData(t[k]),
                      \A j \in (k + 1)..m : IsCharData(t[j]),
                      NEW i \in Own(t[m])
               PROVE  TailOwner(i) \in {t[k]} \cup (gone \cup {e})
    BY DEF Trailing
  <2>1. /\ g[k] < g[m] /\ ~IsCharData(s[g[k]]) /\ i \in Own(s[g[m]]) /\ t[k] = s[g[k]]
        /\ \A j \in (g[k] + 1)..g[m] : IsCharData(s[j])
        /\ g[k] \in DOMAIN s /\ g[m] \in DOMAIN s
    BY <1>1
  <2>2. TailOwner(i) \in {s[g[k]]} \cup gone
    BY <2>1 DEF Trailing
  <2> QED
    BY <2>1, <2>2
<1>6. OwnedBy(t) \subseteq OwnedBy(s)
  BY <1>2 DEF OwnedBy
<1>7. ASSUME NEW i \in OwnedBy(s), i \notin OwnedBy(t)
      PROVE  Taken(i, gone \cup {e})
  <2>1. PICK m \in DOMAIN s : i \in Own(s[m])
    BY <1>7 DEF OwnedBy, Image
  <2>2. m \notin Image(g)
    <3> SUFFICES ASSUME m \in Image(g) PROVE FALSE
      OBVIOUS
    <3>1. PICK j \in DOMAIN t : m = g[j]
      BY DEF Image
    <3>2. i \in Own(t[j])
      BY <1>1, <2>1, <3>1
    <3> QED
      BY <1>7, <3>2 DEF OwnedBy, Image
  <2>3. CASE s[m] = e
    <3>1. e \in Image(s)
      BY <2>3 DEF Image
    <3>2. i = e /\ ~IsCharData(i)
      BY <2>1, <2>3, <3>1 DEF Own
    <3> QED
      BY <3>2 DEF Taken
  <2>4. ASSUME NEW k \in DOMAIN s, k < m, s[k] = e, \A j \in (k + 1)..m : IsCharData(s[j])
        PROVE  Taken(i, gone \cup {e})
    <3>1. ~IsCharData(s[k])
      BY <2>4 DEF Image
    <3>2. TailOwner(i) \in {e} \cup gone
      BY <2>1, <2>4, <3>1 DEF Trailing
    <3>3. IsCharData(s[m]) /\ s[m] \in Image(s)
      <4>1. m \in (k + 1)..m
        BY <2>4
      <4> QED
        BY <2>4, <4>1 DEF Image
    <3>4. IsCharData(i)
      BY <2>1, <3>3 DEF Made
    <3> QED
      BY <3>2, <3>4 DEF Taken
  <2> QED
    BY <1>1, <2>2, <2>3, <2>4
<1> QED
  BY <1>3, <1>4, <1>5, <1>6, <1>7 DEF t

(* The chains after a step that leaves position and texts.                 *)
LEMMA ChainsNext ==
  ASSUME UNCHANGED <<job, pos, text>>,
         \A p \in Node :
           /\ Made(kids'[p]) /\ Ordered(kids'[p]) /\ Trailing(kids'[p], cut')
           /\ OwnedBy(kids'[p]) \subseteq Content(p, pos)
           /\ p \notin cleared' =>
                \A i \in Content(p, pos) \ OwnedBy(kids'[p]) : Taken(i, cut')
  PROVE  ChainsHold'
<1>1. /\ Node' = Node /\ \A p, n : Content(p, n)' = Content(p, n)
      /\ \A i : TailOwner(i)' = TailOwner(i) /\ IsCharData(i)' = IsCharData(i)
  BY SameInput
<1>2. \A n : Own(n)' = Own(n)
  BY <1>1 DEF Own, Image
<1>3. ASSUME NEW p \in Node
      PROVE  /\ Made(kids[p])' /\ Ordered(kids[p])' /\ Trailing(kids[p], cut)'
             /\ OwnedBy(kids[p])' = OwnedBy(kids'[p])
  <2>1. Made(kids[p])'
    BY <1>1, <1>2 DEF Made, Image
  <2>2. Ordered(kids[p])'
    BY <1>2 DEF Ordered
  <2>3. Trailing(kids[p], cut)'
    BY <1>1, <1>2 DEF Trailing
  <2>4. OwnedBy(kids[p])' = OwnedBy(kids'[p])
    BY <1>2 DEF OwnedBy, Image
  <2> QED
    BY <2>1, <2>2, <2>3, <2>4
<1>4. ASSUME NEW p \in Node', p \notin cleared',
             NEW i \in (Content(p, pos) \ OwnedBy(kids[p]))'
      PROVE  Taken(i, cut)'
  <2>1. i \in Content(p, pos) \ OwnedBy(kids'[p]) /\ p \in Node
    BY <1>1, <1>3
  <2>2. Taken(i, cut')
    BY <1>4, <2>1
  <2> QED
    BY <1>1, <2>2 DEF Taken
<1>5. \A p \in Node' : OwnedBy(kids[p])' \subseteq Content(p, pos)'
  BY <1>1, <1>3
<1> QED
  BY <1>1, <1>3, <1>4, <1>5 DEF ChainsHold, ChainHolds

(* What the loop body edits is an element.                                 *)
LEMMA FinishedIsElement ==
  ASSUME TreeInv, NEW e \in Finished
  PROVE  e \in Node /\ e \in EndIds /\ e \in 1..pos /\ ~IsCharData(e)
<1>1. TypeOK /\ ClosedForGood /\ ShowsItsElement
  BY DEF TreeInv, StackInv, IInv
<1>2. e \in Node /\ e \in EndIds /\ e \in 1..pos /\ pos \in Nat /\ Results \in Seq(ResultType)
      /\ Len(source) \in Nat
  <2>1. pos \in 0..Len(source) /\ Len(source) \in Nat /\ Results \in Seq(ResultType)
    BY <1>1, TypeFacts DEF TypeOK, Node
  <2>2. e \in EndIds /\ e \in 1..pos
    BY <1>1, FinishedAreClosed DEF ClosedForGood
  <2> QED
    BY <2>1, <2>2 DEF Node
<1>3. PICK k \in DOMAIN Results : Results[k].id = e /\ source[Results[k].at].kind = "end"
  BY <1>2 DEF EndIds
<1> DEFINE n == Results[k].at - 1
<1>4. e = Innermost(n) /\ n \in Nat
  <2>1. e = Innermost(n)
    BY <1>1, <1>3 DEF ShowsItsElement
  <2>2. Results[k] \in ResultType
    BY <1>2
  <2> QED
    BY <1>2, <2>1, <2>2 DEF ResultType, Node
<1> HIDE DEF n
<1>5. Open(n) \subseteq 1..n /\ \A i \in Open(n) : source[i].kind = "start"
  BY <1>4, OpenNext
<1>6. e \in Open(n)
  <2>1. Open(n) # {}
    BY <1>2, <1>4 DEF Innermost, Latest
  <2> QED
    BY <1>4, <1>5, <2>1, LatestIs DEF Innermost
<1> QED
  BY <1>2, <1>5, <1>6 DEF IsCharData, CharData

LEMMA EditTree ==
  ASSUME TreeInv, Body
  PROVE  ChainsHold'
<1>1. /\ kids \in [Node -> Seq(Node \ {0})] /\ text \in [Node -> Seq(Node \ {0})]
      /\ ChainsHold
  BY DEF TreeInv, StackInv, IInv, TypeOK
<1>2. Made(<<>>) /\ Ordered(<<>>) /\ Trailing(<<>>, cut') /\ OwnedBy(<<>>) = {}
  BY DEF Made, Ordered, Trailing, OwnedBy, Image
<1>3. ASSUME NEW e \in Finished, NEW whole \in BOOLEAN, NEW p \in Node
      PROVE  LET t == Trimmed(e, whole)[p]
             IN  /\ Made(t) /\ Ordered(t) /\ Trailing(t, cut \cup {e})
                 /\ OwnedBy(t) \subseteq Content(p, pos)
                 /\ p \notin cleared =>
                      \A i \in Content(p, pos) \ OwnedBy(t) : Taken(i, cut \cup {e})
  <2> DEFINE s == kids[p]
             t == Cut(s, e, whole)
  <2>1. Trimmed(e, whole)[p] = t
    BY DEF Trimmed
  <2>2. s \in Seq(Node \ {0}) /\ ~IsCharData(e)
    BY <1>1, <1>3, FinishedIsElement
  <2>3. /\ Made(s) /\ Ordered(s) /\ Trailing(s, cut) /\ OwnedBy(s) \subseteq Content(p, pos)
        /\ p \notin cleared => \A i \in Content(p, pos) \ OwnedBy(s) : Taken(i, cut)
    BY <1>1 DEF ChainsHold, ChainHolds
  <2> HIDE DEF s
  <2>4. /\ Made(t) /\ Ordered(t) /\ Trailing(t, cut \cup {e})
        /\ OwnedBy(t) \subseteq OwnedBy(s)
        /\ \A i \in OwnedBy(s) \ OwnedBy(t) : Taken(i, cut \cup {e})
    BY <2>2, <2>3, CutChain
  <2> HIDE DEF t
  <2>5. \A i : Taken(i, cut) => Taken(i, cut \cup {e})
    BY DEF Taken
  <2> QED
    BY <2>1, <2>3, <2>4, <2>5 DEF s
<1>4. ASSUME NEW e \in Finished, Clear(e, TRUE)
      PROVE  ChainsHold'
  <2>1. /\ kids' = [kids EXCEPT ![e] = <<>>] /\ cleared' = cleared \cup {e} /\ cut' = cut
        /\ UNCHANGED <<job, pos, text>>
    BY <1>4 DEF Clear, state
  <2>2. \A p \in Node : kids'[p] = IF p = e THEN <<>> ELSE kids[p]
    BY <1>1, <2>1
  <2> QED
    BY <1>1, <1>2, <2>1, <2>2, ChainsNext DEF ChainsHold, ChainHolds
<1>5. ASSUME NEW e \in Finished, Clear(e, FALSE)
      PROVE  ChainsHold'
  <2>1. /\ kids' = [Trimmed(e, FALSE) EXCEPT ![e] = <<>>]
        /\ cleared' = cleared \cup {e} /\ cut' = cut \cup {e}
        /\ UNCHANGED <<job, pos, text>>
    BY <1>5 DEF Clear, state
  <2>2. \A p \in Node : kids'[p] = IF p = e THEN <<>> ELSE Trimmed(e, FALSE)[p]
    BY <2>1 DEF Trimmed
  <2> QED
    BY <1>2, <1>3, <2>1, <2>2, ChainsNext
<1>6. ASSUME NEW e \in Finished, Remove(e)
      PROVE  ChainsHold'
  <2>1. /\ kids' = Trimmed(e, TRUE) /\ cleared' = cleared /\ cut' = cut \cup {e}
        /\ UNCHANGED <<job, pos, text>>
    BY <1>6 DEF Remove, state
  <2> QED
    BY <1>3, <2>1, ChainsNext
<1> QED
  BY <1>4, <1>5, <1>6 DEF Body

(* What a turn of the loop does to the tree and to the reference: nothing, *)
(* a new node under the parent, or more text in the parent's last child.   *)
Adds(i) == \A p : Content(p, i) = Content(p, i - 1) \cup (IF p = Parent THEN {i} ELSE {})

NewNode(i) ==
  /\ kids' = [kids EXCEPT ![Parent] = Append(@, i)]
  /\ text' = IF IsCharData(i) THEN [text EXCEPT ![i] = <<i>>] ELSE text

MoreText(i) ==
  /\ IsCharData(i) /\ IsTextNode(LastChild(Parent))
  /\ text' = [text EXCEPT ![LastChild(Parent)] = Append(@, i)]
  /\ kids' = kids

LEMMA TurnTree ==
  ASSUME StackInv, NEW c \in Caller, Turn(c)
  PROVE  \/ UNCHANGED tree /\ \A p : Content(p, pos + 1) = Content(p, pos)
         \/ Adds(pos + 1) /\ (NewNode(pos + 1) \/ MoreText(pos + 1))
<1> DEFINE i == pos + 1
           kind == source[i].kind
<1>1. /\ TypeOK /\ pos \in Nat /\ i \in Node \ {0} /\ i - 1 = pos
      /\ Parent = Innermost(pos) /\ (stack # <<>> => Parent # 0)
  BY TurnFacts, ParentIsInnermost DEF StackInv, IInv
<1>2. job.removed \subseteq {"comment", "pi"}
  BY <1>1, IterParseAssumption DEF TypeOK, JobType
<1>3. /\ kind \in CharData \cup {"start"} => Kept(source[i])
      /\ IsCharData(i) <=> kind \in CharData
  BY <1>2 DEF Kept, IsCharData, CharData
<1>4. \A p : Content(p, i) =
              Content(p, pos) \cup
                (IF /\ Parent = p
                    /\ kind \in CharData \cup {"start", "comment", "pi"}
                    /\ Kept(source[i])
                    /\ p = 0 => ~IsCharData(i)
                 THEN {i} ELSE {})
  BY <1>1, ContentNext
<1> HIDE DEF i, kind
<1>5. CASE PullStart(c)
  <2>1. kind = "start" /\ AppendChild(i)
    BY <1>1, <1>5, NextNode DEF PullStart, i, kind
  <2>2. Adds(i)
    BY <1>1, <1>3, <1>4, <2>1 DEF Adds, CharData
  <2>3. NewNode(i)
    BY <1>3, <2>1 DEF NewNode, AppendChild, CharData
  <2> QED
    BY <2>2, <2>3 DEF i
<1>6. CASE PullEnd(c) \/ PullNamespace(c)
  <2>1. kind \in {"end", "start-ns", "end-ns"} /\ UNCHANGED tree
    BY <1>1, <1>6, NextNode DEF PullEnd, PullNamespace, i, kind
  <2>2. \A p : Content(p, i) = Content(p, pos)
    BY <1>4, <2>1 DEF CharData
  <2> QED
    BY <2>1, <2>2 DEF i
<1>7. CASE PullText(c)
  <2>1. kind \in CharData
    BY <1>1, <1>7, NextNode DEF PullText, i, kind
  <2>2. CASE stack = <<>>
    <3>1. UNCHANGED tree
      BY <1>7, <2>2 DEF PullText
    <3>2. Parent = 0
      BY <2>2 DEF Parent
    <3>3. \A p : Content(p, i) = Content(p, pos)
      BY <1>3, <1>4, <2>1, <3>2
    <3> QED
      BY <3>1, <3>3 DEF i
  <2>3. CASE stack # <<>>
    <3>1. AddText(i)
      BY <1>7, <2>3 DEF PullText, i
    <3>2. Adds(i)
      BY <1>1, <1>3, <1>4, <2>1, <2>3 DEF Adds
    <3>3. NewNode(i) \/ MoreText(i)
      BY <1>3, <2>1, <3>1 DEF AddText, AddOwnNode, NewNode, MoreText
    <3> QED
      BY <3>2, <3>3 DEF i
  <2> QED
    BY <2>2, <2>3
<1>8. CASE PullMarkup(c)
  <2>1. /\ kind \in {"comment", "pi"}
        /\ IF Kept(source[i]) THEN AppendChild(i) ELSE UNCHANGED tree
    BY <1>1, <1>8, NextNode DEF PullMarkup, i, kind
  <2>2. CASE Kept(source[i])
    <3>1. Adds(i)
      BY <1>1, <1>3, <1>4, <2>1, <2>2 DEF Adds, CharData
    <3>2. NewNode(i)
      BY <1>3, <2>1, <2>2 DEF NewNode, AppendChild, CharData
    <3> QED
      BY <3>1, <3>2 DEF i
  <2>3. CASE ~Kept(source[i])
    BY <1>4, <2>1, <2>3 DEF i
  <2> QED
    BY <2>2, <2>3
<1> QED
  BY <1>5, <1>6, <1>7, <1>8 DEF Turn

(* Text that comes next in an open element belongs to the tail of the last *)
(* node that is no text, unless a later one has been taken away.           *)
LEMMA NextTail ==
  ASSUME TreeInv, IsCharData(pos + 1),
         NEW k \in DOMAIN kids[Parent], ~IsCharData(kids[Parent][k]),
         \A j \in (k + 1)..Len(kids[Parent]) : IsCharData(kids[Parent][j])
  PROVE  TailOwner(pos + 1) \in {kids[Parent][k]} \cup cut
<1> DEFINE s == kids[Parent]
           a == s[k]
           B == {j \in Content(Parent, pos) : ~IsCharData(j)}
<1>1. /\ TypeOK /\ ChainsHold /\ pos \in Nat /\ (pos + 1) - 1 = pos
      /\ Parent \in Node /\ Parent = Innermost(pos) /\ Parent \notin cleared
      /\ s \in Seq(Node \ {0})
  <2>1. TypeOK /\ ChainsHold /\ StackIsOpen /\ IInv
    BY DEF TreeInv, StackInv, IInv
  <2>2. pos \in Nat /\ (pos + 1) - 1 = pos
    BY <2>1, TypeFacts DEF TypeOK, Node
  <2>3. Parent \in Node /\ Parent = Innermost(pos) /\ Parent \notin cleared
    BY <2>1, TypeFacts, ParentIsInnermost, ParentIsOpen DEF IInv
  <2>4. s \in Seq(Node \ {0})
    BY <2>1, <2>3 DEF TypeOK
  <2> QED
    BY <2>1, <2>2, <2>3, <2>4
<1>2. /\ Made(s) /\ Ordered(s) /\ OwnedBy(s) \subseteq Content(Parent, pos)
      /\ \A i \in Content(Parent, pos) \ OwnedBy(s) : Taken(i, cut)
  BY <1>1 DEF ChainsHold, ChainHolds
<1>3. TailOwner(pos + 1) = Latest(B)
  BY <1>1 DEF TailOwner
<1> DEFINE x == Latest(B)
<1> HIDE DEF s
<1>4. Own(a) = {a} /\ a \in OwnedBy(s)
  <2>1. ~IsCharData(a) /\ a \in Image(s)
    BY DEF s, Image
  <2> QED
    BY <2>1 DEF Own, OwnedBy
<1>5. a \in B
  BY <1>2, <1>4 DEF s
<1>6. B \in SUBSET (1..pos)
  BY <1>1, ContentNext
<1> HIDE DEF B
<1>7. x \in B /\ a <= x /\ x \in 1..pos /\ a \in 1..pos
  BY <1>1, <1>5, <1>6, LatestIs
<1>8. x \in Content(Parent, pos) /\ ~IsCharData(x)
  BY <1>7 DEF B
<1> HIDE DEF x
<1>9. CASE x \notin OwnedBy(s)
  BY <1>2, <1>3, <1>8, <1>9 DEF Taken, x
<1>10. CASE x \in OwnedBy(s)
  <2>1. PICK m \in DOMAIN s : x \in Own(s[m])
    BY <1>10 DEF OwnedBy, Image
  <2>2. ~IsCharData(s[m]) /\ s[m] = x
    BY <1>2, <1>8, <2>1 DEF Made, Own, Image
  <2>3. m \in 1..Len(s) /\ k \in 1..Len(s) /\ Len(s) \in Nat
    BY <1>1 DEF s
  <2>4. ~(k < m)
    BY <2>2, <2>3 DEF s
  <2>5. ~(m < k)
    <3> SUFFICES ASSUME m < k PROVE FALSE
      OBVIOUS
    <3>1. a \in Own(s[k]) /\ x \in Own(s[m]) /\ m \in DOMAIN s /\ k \in DOMAIN s
      BY <1>4, <2>1 DEF s
    <3>2. x < a
      BY <1>2, <3>1 DEF Ordered
    <3> QED
      BY <1>7, <3>2
  <2>6. m = k
    BY <2>3, <2>4, <2>5
  <2> QED
    BY <1>3, <2>2, <2>6 DEF x, s
<1> QED
  BY <1>9, <1>10

(* A chain whose nodes and whose element's content a turn leaves alone.    *)
LEMMA ChainLeft ==
  ASSUME NEW p \in Node, ChainHolds(p), pos \in Nat, pos' = pos + 1, job' = job,
         UNCHANGED <<cleared, cut>>, kids'[p] = kids[p],
         \A n \in Image(kids[p]) : Own(n)' = Own(n),
         Content(p, pos + 1) = Content(p, pos)
  PROVE  ChainHolds(p)'
<1>1. /\ \A n : Content(p, n)' = Content(p, n)
      /\ \A i : TailOwner(i)' = TailOwner(i) /\ IsCharData(i)' = IsCharData(i)
  BY SameInput
<1>2. \A j \in DOMAIN kids[p] : Own(kids[p][j])' = Own(kids[p][j]) /\ kids[p][j]' = kids[p][j]
  BY DEF Image
<1>3. OwnedBy(kids[p])' = OwnedBy(kids[p])
  BY DEF OwnedBy, Image
<1>4. Made(kids[p])'
  BY <1>1 DEF ChainHolds, Made, Image
<1>5. Ordered(kids[p])'
  BY <1>2 DEF ChainHolds, Ordered
<1>6. Trailing(kids[p], cut)'
  BY <1>1, <1>2 DEF ChainHolds, Trailing
<1>7. Content(p, pos)' = Content(p, pos)
  BY <1>1
<1>8. \A i : Taken(i, cut)' = Taken(i, cut)
  BY <1>1 DEF Taken
<1> QED
  BY <1>3, <1>4, <1>5, <1>6, <1>7, <1>8 DEF ChainHolds

LEMMA ChainGrows ==
  ASSUME TreeInv, TypeOK', NEW c \in Caller, Turn(c),
         NEW i, i = pos + 1, Adds(i), NewNode(i), NEW p \in Node, p = Parent
  PROVE  ChainHolds(p)'
<1> DEFINE s == kids[p]
           L == Len(s)
<1>1. /\ TypeOK /\ pos \in Nat /\ i \in Node \ {0} /\ pos' = i /\ job' = job
      /\ cleared' = cleared /\ cut' = cut /\ i - 1 = pos
  BY TurnFacts DEF TreeInv, StackInv, IInv
<1>2. kids \in [Node -> Seq(Node \ {0})] /\ text \in [Node -> Seq(Node \ {0})] /\ ChainHolds(p)
  BY <1>1 DEF TypeOK, TreeInv, ChainsHold
<1>3. /\ \A n : Content(p, n)' = Content(p, n)
      /\ \A x : TailOwner(x)' = TailOwner(x) /\ IsCharData(x)' = IsCharData(x)
  BY <1>1, SameInput
<1>4. kids'[p] = Append(s, i)
  BY <1>2 DEF NewNode
<1>5. /\ DOMAIN s = 1..L /\ L \in Nat /\ DOMAIN kids'[p] = 1..(L + 1)
      /\ \A k \in 1..L : kids'[p][k] = s[k]
      /\ kids'[p][L + 1] = i
      /\ Image(kids'[p]) = Image(s) \cup {i}
  <2>1. s \in Seq(Node \ {0}) /\ i \in Node \ {0}
    BY <1>1, <1>2
  <2> HIDE DEF s
  <2> QED
    BY <1>4, <2>1, Pushed
<1> HIDE DEF L
<1>6. /\ \A n \in 1..pos : Own(n)' = Own(n)
      /\ Own(i)' = {i}
  <2>1. \A n \in 1..pos : n # i
    BY <1>1
  <2>2. \A n \in Node : text'[n] = IF IsCharData(i) /\ n = i THEN <<i>> ELSE text[n]
    BY <1>1, <1>2 DEF NewNode
  <2>3. 1..pos \subseteq Node
    BY <1>1, TypeFacts DEF Node
  <2>4. Image(<<i>>) = {i}
    BY DEF Image
  <2>5. \A n \in 1..pos : text'[n] = text[n]
    BY <2>1, <2>2, <2>3
  <2>6. IsCharData(i) => text'[i] = <<i>>
    BY <1>1, <2>2
  <2>7. \A n \in 1..pos : Own(n)' = Own(n)
    BY <1>3, <2>5 DEF Own, Image
  <2>8. Own(i)' = {i}
    BY <1>3, <2>4, <2>6 DEF Own
  <2> QED
    BY <2>7, <2>8
<1>7. /\ Made(s) /\ Ordered(s) /\ Trailing(s, cut) /\ OwnedBy(s) \subseteq Content(p, pos)
      /\ p \notin cleared => \A x \in Content(p, pos) \ OwnedBy(s) : Taken(x, cut)
  BY <1>2 DEF ChainHolds
<1>8. ASSUME NEW k \in 1..(L + 1)
      PROVE  /\ Own(kids[p][k])' = IF k <= L THEN Own(s[k]) ELSE {i}
             /\ k <= L => /\ s[k] \in 1..pos /\ Own(s[k]) \subseteq 1..pos
                          /\ kids'[p][k] = s[k] /\ k \in DOMAIN s
  <2>1. CASE k <= L
    <3>1. k \in DOMAIN s /\ k \in 1..L /\ kids'[p][k] = s[k]
      BY <1>5, <2>1
    <3>2. s[k] \in Image(s)
      BY <3>1 DEF Image
    <3>3. s[k] \in 1..pos /\ Own(s[k]) \subseteq OwnedBy(s)
      BY <1>7, <3>2 DEF Made, OwnedBy
    <3>4. Own(s[k]) \subseteq 1..pos
      BY <1>1, <1>7, <3>3, ContentNext
    <3>5. Own(kids[p][k])' = Own(s[k])
      BY <1>6, <3>1, <3>3
    <3> QED
      BY <2>1, <3>1, <3>3, <3>4, <3>5
  <2>2. CASE ~(k <= L)
    <3>1. k = L + 1
      BY <1>5, <2>2
    <3>2. kids'[p][k] = i
      BY <1>5, <3>1
    <3> QED
      BY <1>6, <2>2, <3>2
  <2> QED
    BY <2>1, <2>2
<1>9. Made(kids[p])'
  <2> SUFFICES ASSUME NEW k \in 1..(L + 1)
               PROVE  /\ kids'[p][k] \in 1..pos'
                      /\ kids'[p][k] \in Own(kids[p][k])'
                      /\ IsCharData(kids'[p][k]) =>
                           \A x \in Own(kids[p][k])' : IsCharData(x)
    BY <1>3, <1>5 DEF Made, Image
  <2>1. CASE k <= L
    <3>1. /\ kids'[p][k] = s[k] /\ s[k] \in 1..pos /\ Own(kids[p][k])' = Own(s[k])
          /\ s[k] \in Image(s)
      BY <1>8, <2>1 DEF Image
    <3> QED
      BY <1>1, <1>7, <3>1 DEF Made
  <2>2. CASE ~(k <= L)
    <3>1. k = L + 1
      BY <1>5, <2>2
    <3>2. kids'[p][k] = i /\ Own(kids[p][k])' = {i}
      BY <1>5, <1>8, <2>2, <3>1
    <3> QED
      BY <1>1, <3>2
  <2> QED
    BY <2>1, <2>2
<1>10. Ordered(kids[p])'
  <2> SUFFICES ASSUME NEW j \in 1..(L + 1), NEW k \in 1..(L + 1), j < k,
                      NEW x \in Own(kids[p][j])', NEW y \in Own(kids[p][k])'
               PROVE  x < y
    BY <1>5 DEF Ordered
  <2>1. j <= L /\ x \in Own(s[j]) /\ x \in 1..pos /\ j \in DOMAIN s
    BY <1>5, <1>8
  <2>2. CASE k <= L
    BY <1>7, <1>8, <2>1, <2>2 DEF Ordered
  <2>3. CASE ~(k <= L)
    <3>1. y = i
      BY <1>8, <2>3
    <3> QED
      BY <1>1, <2>1, <3>1
  <2> QED
    BY <2>2, <2>3
<1>11. Trailing(kids[p], cut)'
  <2> SUFFICES ASSUME NEW k \in 1..(L + 1), NEW m \in 1..(L + 1), k < m,
                      ~IsCharData(kids'[p][k]),
                      \A j \in (k + 1)..m : IsCharData(kids'[p][j]),
                      NEW x \in Own(kids[p][m])'
               PROVE  TailOwner(x) \in {kids'[p][k]} \cup cut
    BY <1>1, <1>3, <1>5 DEF Trailing
  <2>1. k <= L /\ kids'[p][k] = s[k] /\ k \in DOMAIN s
    BY <1>5, <1>8
  <2>2. CASE m <= L
    <3>1. m \in DOMAIN s /\ x \in Own(s[m])
      BY <1>8, <2>2
    <3>2. \A j \in (k + 1)..m : IsCharData(s[j])
      <4>1. \A j \in (k + 1)..m : j \in 1..(L + 1) /\ j <= L
        BY <1>5, <2>2
      <4> QED
        BY <1>8, <4>1
    <3> QED
      BY <1>7, <2>1, <3>1, <3>2 DEF Trailing
  <2>3. CASE ~(m <= L)
    <3>1. m = L + 1 /\ x = i
      BY <1>5, <1>8, <2>3
    <3>2. IsCharData(i)
      <4>1. m \in (k + 1)..m
        BY <1>5
      <4> QED
        BY <1>5, <3>1, <4>1
    <3>3. \A j \in (k + 1)..L : IsCharData(s[j])
      <4>1. \A j \in (k + 1)..L : j \in 1..(L + 1) /\ j <= L /\ j \in (k + 1)..m
        BY <1>5, <3>1
      <4> QED
        BY <1>8, <4>1
    <3>4. TailOwner(i) \in {s[k]} \cup cut
      BY <2>1, <3>2, <3>3, NextTail DEF L
    <3> QED
      BY <2>1, <3>1, <3>4
  <2> QED
    BY <2>2, <2>3
<1>12. OwnedBy(kids[p])' = OwnedBy(s) \cup {i}
  <2>1. OwnedBy(kids[p])' = UNION {Own(kids[p][k])' : k \in 1..(L + 1)}
    BY <1>5 DEF OwnedBy, Image
  <2>2. OwnedBy(s) = UNION {Own(s[k]) : k \in 1..L}
    BY <1>5 DEF OwnedBy, Image
  <2> QED
    BY <1>5, <1>8, <2>1, <2>2
<1>13. Content(p, pos)' = Content(p, pos) \cup {i}
  BY <1>1, <1>3 DEF Adds
<1>14. \A x : Taken(x, cut)' = Taken(x, cut)
  BY <1>1, <1>3 DEF Taken
<1> QED
  BY <1>1, <1>7, <1>9, <1>10, <1>11, <1>12, <1>13, <1>14 DEF ChainHolds

LEMMA TextGrows ==
  ASSUME TreeInv, TypeOK', NEW c \in Caller, Turn(c),
         NEW i, i = pos + 1, Adds(i), MoreText(i), NEW p \in Node, p = Parent
  PROVE  ChainHolds(p)'
<1> DEFINE s == kids[p]
           L == Len(s)
<1>1. /\ TypeOK /\ pos \in Nat /\ i \in Node \ {0} /\ pos' = i /\ job' = job
      /\ cleared' = cleared /\ cut' = cut /\ i - 1 = pos
  BY TurnFacts DEF TreeInv, StackInv, IInv
<1>2. kids \in [Node -> Seq(Node \ {0})] /\ text \in [Node -> Seq(Node \ {0})] /\ ChainHolds(p)
  BY <1>1 DEF TypeOK, TreeInv, ChainsHold
<1>3. /\ \A n : Content(p, n)' = Content(p, n)
      /\ \A x : TailOwner(x)' = TailOwner(x) /\ IsCharData(x)' = IsCharData(x)
  BY <1>1, SameInput
<1>4. kids'[p] = s /\ IsCharData(i)
  BY DEF MoreText
<1>5. /\ DOMAIN s = 1..L /\ L \in Nat \ {0} /\ s[L] \in Node /\ IsCharData(s[L])
      /\ text' = [text EXCEPT ![s[L]] = Append(@, i)]
  <2>1. s \in Seq(Node \ {0})
    BY <1>2
  <2>2. IsTextNode(LastChild(p)) /\ text' = [text EXCEPT ![LastChild(p)] = Append(@, i)]
    BY DEF MoreText
  <2>3. s # <<>> /\ LastChild(p) = s[L]
    BY <2>2 DEF LastChild, IsTextNode
  <2>4. IsCharData(s[L])
    BY <2>2, <2>3 DEF IsTextNode, Mergeable, IsCharData, CharData
  <2> HIDE DEF s
  <2> QED
    BY <2>1, <2>2, <2>3, <2>4
<1> HIDE DEF L
<1>6. PICK t : t = s[L]
  OBVIOUS
<1>7. /\ Own(t)' = Own(t) \cup {i}
      /\ \A n \in Node : n # t => Own(n)' = Own(n)
  <2>1. t \in Node /\ IsCharData(t) /\ text' = [text EXCEPT ![t] = Append(@, i)]
    BY <1>5, <1>6
  <2>2. text'[t] = Append(text[t], i) /\ \A n \in Node : n # t => text'[n] = text[n]
    BY <1>2, <2>1
  <2>3. Image(Append(text[t], i)) = Image(text[t]) \cup {i}
    <3>1. text[t] \in Seq(Node \ {0}) /\ i \in Node \ {0}
      BY <1>1, <1>2, <2>1
    <3> QED
      BY <3>1, Pushed
  <2>4. Own(t)' = Image(text'[t]) /\ Own(t) = Image(text[t])
    BY <1>3, <2>1 DEF Own, Image
  <2>5. \A n \in Node : n # t => Own(n)' = Own(n)
    BY <1>3, <2>2 DEF Own, Image
  <2> QED
    BY <2>2, <2>3, <2>4, <2>5
<1>8. /\ Made(s) /\ Ordered(s) /\ Trailing(s, cut) /\ OwnedBy(s) \subseteq Content(p, pos)
      /\ p \notin cleared => \A x \in Content(p, pos) \ OwnedBy(s) : Taken(x, cut)
  BY <1>2 DEF ChainHolds
<1>9. ASSUME NEW k \in 1..L
      PROVE  /\ s[k] \in 1..pos /\ s[k] \in Node /\ s[k] \in Image(s) /\ k \in DOMAIN s
             /\ s[k] \in Own(s[k]) /\ Own(s[k]) \subseteq 1..pos
  <2>1. k \in DOMAIN s /\ s[k] \in Image(s)
    BY <1>5 DEF Image
  <2>2. s[k] \in 1..pos /\ s[k] \in Own(s[k]) /\ Own(s[k]) \subseteq OwnedBy(s)
    BY <1>8, <2>1 DEF Made, OwnedBy
  <2>3. Own(s[k]) \subseteq 1..pos
    BY <1>1, <1>8, <2>2, ContentNext
  <2>4. s[k] \in Node
    BY <1>2, <2>1
  <2> QED
    BY <2>1, <2>2, <2>3, <2>4
<1>10. ASSUME NEW k \in 1..L
       PROVE  /\ kids'[p][k] = s[k]
              /\ k < L => Own(kids[p][k])' = Own(s[k])
              /\ k = L => Own(kids[p][k])' = Own(s[k]) \cup {i}
              /\ k < L \/ k = L
  <2>1. kids'[p][k] = s[k]
    BY <1>4
  <2>2. CASE k < L
    <3>1. L \in 1..L
      BY <1>5
    <3>2. s[k] # t
      <4> SUFFICES ASSUME s[k] = t PROVE FALSE
        OBVIOUS
      <4>1. t \in Own(s[k]) /\ t \in Own(s[L]) /\ t \in Nat /\ k \in DOMAIN s /\ L \in DOMAIN s
        BY <1>6, <1>9, <3>1
      <4> QED
        BY <1>8, <2>2, <4>1 DEF Ordered
    <3> QED
      BY <1>5, <1>7, <1>9, <2>1, <2>2, <3>2
  <2>3. CASE ~(k < L)
    <3>1. k = L
      BY <1>5, <2>3
    <3> QED
      BY <1>6, <1>7, <2>1, <3>1
  <2> QED
    BY <1>5, <2>1, <2>2, <2>3
<1>11. Made(kids[p])'
  <2> SUFFICES ASSUME NEW k \in 1..L
               PROVE  /\ kids'[p][k] \in 1..pos'
                      /\ kids'[p][k] \in Own(kids[p][k])'
                      /\ IsCharData(kids'[p][k]) =>
                           \A x \in Own(kids[p][k])' : IsCharData(x)
    BY <1>3, <1>4, <1>5 DEF Made, Image
  <2>1. s[k] \in 1..pos' /\ s[k] \in Own(kids[p][k])'
    BY <1>1, <1>9, <1>10
  <2>2. IsCharData(s[k]) => \A x \in Own(s[k]) : IsCharData(x)
    BY <1>8, <1>9 DEF Made
  <2> QED
    BY <1>4, <1>10, <2>1, <2>2
<1>12. Ordered(kids[p])'
  <2> SUFFICES ASSUME NEW j \in 1..L, NEW k \in 1..L, j < k,
                      NEW x \in Own(kids[p][j])', NEW y \in Own(kids[p][k])'
               PROVE  x < y
    BY <1>4, <1>5 DEF Ordered
  <2>1. x \in Own(s[j]) /\ x \in 1..pos /\ j \in DOMAIN s /\ k \in DOMAIN s
    <3>1. j < L
      BY <1>5
    <3> QED
      BY <1>9, <1>10, <3>1
  <2>2. y \in Own(s[k]) \/ y = i
    BY <1>10
  <2> QED
    BY <1>1, <1>8, <2>1, <2>2 DEF Ordered
<1>13. Trailing(kids[p], cut)'
  <2> SUFFICES ASSUME NEW k \in 1..L, NEW m \in 1..L, k < m, ~IsCharData(s[k]),
                      \A j \in (k + 1)..m : IsCharData(s[j]),
                      NEW x \in Own(kids[p][m])'
               PROVE  TailOwner(x) \in {s[k]} \cup cut
    BY <1>1, <1>3, <1>4, <1>5 DEF Trailing
  <2>1. CASE x \in Own(s[m])
    BY <1>8, <1>9, <2>1 DEF Trailing
  <2>2. CASE x \notin Own(s[m])
    <3>1. m = L /\ x = i
      BY <1>5, <1>10, <2>2
    <3>2. k \in DOMAIN s
      BY <1>9
    <3>3. \A j \in (k + 1)..Len(s) : IsCharData(s[j])
      BY <3>1 DEF L
    <3> QED
      BY <1>4, <3>1, <3>2, <3>3, NextTail
  <2> QED
    BY <2>1, <2>2
<1>14. OwnedBy(kids[p])' = OwnedBy(s) \cup {i}
  <2>1. OwnedBy(kids[p])' = UNION {Own(kids[p][k])' : k \in 1..L}
    BY <1>4, <1>5 DEF OwnedBy, Image
  <2>2. OwnedBy(s) = UNION {Own(s[k]) : k \in 1..L}
    BY <1>5 DEF OwnedBy, Image
  <2>3. L \in 1..L
    BY <1>5
  <2> QED
    BY <1>10, <2>1, <2>2, <2>3
<1>15. Content(p, pos)' = Content(p, pos) \cup {i}
  BY <1>1, <1>3 DEF Adds
<1>16. \A x : Taken(x, cut)' = Taken(x, cut)
  BY <1>1, <1>3 DEF Taken
<1> QED
  BY <1>1, <1>8, <1>11, <1>12, <1>13, <1>14, <1>15, <1>16 DEF ChainHolds

LEMMA TurnKeeps ==
  ASSUME TreeInv, TypeOK', NEW c \in Caller, Turn(c)
  PROVE  ChainsHold'
<1>1. PICK i : i = pos + 1
  OBVIOUS
<1>2. /\ StackInv /\ TypeOK /\ ChainsHold /\ pos \in Nat /\ i \in Node \ {0} /\ pos' = i /\ job' = job
      /\ cleared' = cleared /\ cut' = cut /\ i - 1 = pos /\ Node' = Node
      /\ \A x : IsCharData(x)' = IsCharData(x)
      /\ kids \in [Node -> Seq(Node \ {0})] /\ text \in [Node -> Seq(Node \ {0})]
  <2>1. StackInv /\ TypeOK /\ ChainsHold
    BY DEF TreeInv, StackInv, IInv
  <2>2. /\ pos \in Nat /\ i \in Node \ {0} /\ pos' = i /\ job' = job
        /\ cleared' = cleared /\ cut' = cut /\ i - 1 = pos
    BY <1>1, <2>1, TurnFacts
  <2>3. Node' = Node /\ \A x : IsCharData(x)' = IsCharData(x)
    BY <2>2, SameInput
  <2> QED
    BY <2>1, <2>2, <2>3 DEF TypeOK
<1>3. ASSUME NEW p \in Node, kids'[p] = kids[p], Content(p, i) = Content(p, pos),
             \A n \in Image(kids[p]) : text'[n] = text[n]
      PROVE  ChainHolds(p)'
  <2>1. \A n \in Image(kids[p]) : Own(n)' = Own(n)
    BY <1>2, <1>3 DEF Own, Image
  <2>2. ChainHolds(p)
    BY <1>2 DEF ChainsHold
  <2> QED
    BY <1>1, <1>2, <1>3, <2>1, <2>2, ChainLeft
<1>4. ASSUME NEW p \in Node
      PROVE  Image(kids[p]) \subseteq Content(p, pos) /\ Image(kids[p]) \subseteq 1..pos
  <2>1. ChainHolds(p)
    BY <1>2 DEF ChainsHold
  <2>2. \A n \in Image(kids[p]) : n \in OwnedBy(kids[p]) /\ n \in 1..pos
    BY <2>1 DEF ChainHolds, Made, OwnedBy
  <2> QED
    BY <2>1, <2>2 DEF ChainHolds
<1>5. CASE UNCHANGED tree /\ \A p : Content(p, pos + 1) = Content(p, pos)
  BY <1>1, <1>2, <1>3, <1>5 DEF tree, ChainsHold
<1>6. CASE Adds(i) /\ NewNode(i)
  <2> SUFFICES ASSUME NEW p \in Node PROVE ChainHolds(p)'
    BY <1>2 DEF ChainsHold
  <2>1. CASE p = Parent
    BY <1>1, <1>6, <2>1, ChainGrows
  <2>2. CASE p # Parent
    <3>1. kids'[p] = kids[p] /\ Content(p, i) = Content(p, pos)
      BY <1>2, <1>6, <2>2 DEF NewNode, Adds
    <3>2. i \notin Image(kids[p]) /\ Image(kids[p]) \subseteq Node
      <4>1. i \notin 1..pos
        BY <1>1, <1>2
      <4>2. kids[p] \in Seq(Node \ {0})
        BY <1>2
      <4> QED
        BY <1>4, <4>1, <4>2 DEF Image
    <3>3. \A n \in Image(kids[p]) : text'[n] = text[n]
      BY <1>2, <1>6, <3>2 DEF NewNode
    <3> QED
      BY <1>3, <3>1, <3>3
  <2> QED
    BY <2>1, <2>2
<1>7. CASE Adds(i) /\ MoreText(i)
  <2> SUFFICES ASSUME NEW p \in Node PROVE ChainHolds(p)'
    BY <1>2 DEF ChainsHold
  <2>1. CASE p = Parent
    BY <1>1, <1>7, <2>1, TextGrows
  <2>2. CASE p # Parent
    <3>1. kids'[p] = kids[p] /\ Content(p, i) = Content(p, pos)
      BY <1>2, <1>7, <2>2 DEF MoreText, Adds
    <3>2. LastChild(Parent) \in Image(kids[Parent]) /\ Parent \in Node
      <4>1. Parent \in Node /\ kids[Parent] \in Seq(Node \ {0})
        BY <1>2, TypeFacts
      <4>2. kids[Parent] # <<>> /\ LastChild(Parent) = kids[Parent][Len(kids[Parent])]
        BY <1>7 DEF MoreText, IsTextNode, LastChild
      <4>3. Len(kids[Parent]) \in DOMAIN kids[Parent]
        BY <4>1, <4>2
      <4> QED
        BY <4>1, <4>2, <4>3 DEF Image
    <3>3. LastChild(Parent) \notin Image(kids[p])
      BY <1>4, <2>2, <3>2 DEF Content
    <3>4. Image(kids[p]) \subseteq Node
      BY <1>2 DEF Image
    <3>5. \A n \in Image(kids[p]) : text'[n] = text[n]
      BY <1>2, <1>7, <3>3, <3>4 DEF MoreText
    <3> QED
      BY <1>3, <3>1, <3>5
  <2> QED
    BY <2>1, <2>2
<1> QED
  BY <1>1, <1>2, <1>5, <1>6, <1>7, TurnTree

(* A step that is neither a turn of the replay nor an edit.                *)
LEMMA QuietKeeps ==
  ASSUME TreeInv, Quiet
  PROVE  ChainsHold'
<1>1. ChainsHold /\ UNCHANGED <<job, pos, text, kids, cleared, cut>>
  BY DEF Quiet, TreeInv
<1> QED
  BY <1>1, ChainsNext DEF ChainsHold, ChainHolds

(* The inductive invariant behind the tree: each chain is its element's    *)
(* content in the order of the input, text as the tail of what it follows, *)
(* and what is missing was taken away.                                     *)
THEOREM TreeInvariance == Spec => []TreeInv
<1>1. Init => ChainsHold
  BY TreeInit
<1>2. StackInv /\ ShowsItsElement /\ ChainsHold /\ StackInv' /\ [Next]_vars => ChainsHold'
  <2> SUFFICES ASSUME TreeInv, StackInv', [Next]_vars PROVE ChainsHold'
    BY DEF TreeInv
  <2>1. TypeOK /\ TypeOK'
    BY DEF TreeInv, StackInv, IInv
  <2> QED
    BY <2>1, StepCases, TurnKeeps, EditTree, QuietKeeps
<1>3. StackInv /\ ShowsItsElement /\ ChainsHold => TreeInv
  BY DEF TreeInv
<1> QED
  BY <1>1, <1>2, <1>3, StackInvariance, ShowsElement, PTL DEF Spec

(* For every input and every way the loop body clears and removes elements *)
(* while the replay goes on: the tree holds what the input says, in order, *)
(* and misses nothing but what the body took.                              *)
THEOREM TreeFollowsInput == Spec => []TreeIsTheInput
<1>1. TreeInv => TreeIsTheInput
  <2> SUFFICES ASSUME TreeInv,
                      NEW p \in Open(pos) \cup {i \in 1..pos : source[i].kind = "start"} \cup {0}
               PROVE  /\ InContent(p) \subseteq Content(p, pos)
                      /\ \A j, k \in DOMAIN kids[p] : j < k => Precedes(kids[p][j], kids[p][k])
                      /\ p \notin cleared =>
                           \A i \in Content(p, pos) \ InContent(p) :
                             IF IsCharData(i) THEN TailOwner(i) \in cut ELSE i \in cut
    BY DEF TreeIsTheInput
  <2>1. TypeOK /\ ChainsHold
    BY DEF TreeInv, StackInv, IInv
  <2>2. p \in Node
    <3>1. pos \in Nat /\ pos \in Node /\ Len(source) \in Nat
      BY <2>1, TypeFacts DEF TypeOK, Node
    <3>2. Open(pos) \subseteq 1..pos
      BY <3>1, OpenNext
    <3> QED
      BY <3>1, <3>2 DEF Node
  <2>3. ChainHolds(p)
    BY <2>1, <2>2 DEF ChainsHold
  <2>4. InContent(p) = OwnedBy(kids[p])
    BY DEF InContent, OwnedBy, Own
  <2>5. \A j, k \in DOMAIN kids[p] : j < k => Precedes(kids[p][j], kids[p][k])
    BY <2>3 DEF ChainHolds, Ordered, Precedes, Own
  <2> QED
    BY <2>3, <2>4, <2>5 DEF ChainHolds, Taken
<1> QED
  BY <1>1, TreeInvariance, PTL
=============================================================================
