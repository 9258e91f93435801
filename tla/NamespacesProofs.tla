-------------------------- MODULE NamespacesProofs --------------------------
(***************************************************************************)
(* Proofs about Namespaces, for documents of any size and shape and any    *)
(* number of edits: documents stay well formed, a chosen prefix means what *)
(* it was chosen for unless it is hidden, no bound prefix changes its      *)
(* meaning by accident, and copies keep the meaning of every prefix.       *)
(***************************************************************************)
EXTENDS Namespaces, LoopLemmas

-----------------------------------------------------------------------------
(* Parents.                                                                *)

(* The part of IsForest that says who the parents are.                     *)
OnePlaced(d) ==
  /\ NoElement \notin Elements(d)
  /\ d.kids \in [Elements(d) -> Seq(Elements(d))]
  /\ \A p, q \in Elements(d) : \A i \in DOMAIN d.kids[p], j \in DOMAIN d.kids[q] :
       d.kids[p][i] = d.kids[q][j] => p = q /\ i = j

LEMMA Placed ==
  ASSUME NEW d, OnePlaced(d), NEW p \in Elements(d), NEW x
  PROVE  Contains(d.kids[p], x) <=> \E i \in DOMAIN d.kids[p] : d.kids[p][i] = x
<1>1. d.kids[p] \in Seq(Elements(d))
  BY DEF OnePlaced
<1>2. DOMAIN d.kids[p] = 1..Len(d.kids[p])
  BY <1>1
<1> QED
  BY <1>2 DEF Contains

LEMMA ParentIs ==
  ASSUME NEW d, OnePlaced(d), NEW x, NEW p \in Elements(d)
  PROVE  ParentOf(d, x) = p <=> Contains(d.kids[p], x)
<1>1. ASSUME Contains(d.kids[p], x) PROVE ParentOf(d, x) = p
  <2>1. PICK q \in Elements(d) : ParentOf(d, x) = q /\ Contains(d.kids[q], x)
    BY <1>1 DEF ParentOf
  <2>2. PICK i \in DOMAIN d.kids[p] : d.kids[p][i] = x
    BY <1>1, Placed
  <2>3. PICK j \in DOMAIN d.kids[q] : d.kids[q][j] = x
    BY <2>1, Placed
  <2> QED
    BY <2>1, <2>2, <2>3 DEF OnePlaced
<1>2. ASSUME ParentOf(d, x) = p PROVE Contains(d.kids[p], x)
  BY <1>2 DEF ParentOf, OnePlaced
<1> QED
  BY <1>1, <1>2

LEMMA ParentOrNone ==
  ASSUME NEW d, OnePlaced(d), NEW x
  PROVE  ParentOf(d, x) \in Elements(d) \cup {NoElement}
BY DEF ParentOf

LEMMA ParentKnown ==
  ASSUME NEW d, OnePlaced(d), NEW x, ParentOf(d, x) # NoElement
  PROVE  ParentOf(d, x) \in Elements(d) /\ x \in Elements(d)
<1>1. ParentOf(d, x) \in Elements(d)
  BY ParentOrNone
<1>2. PICK i \in DOMAIN d.kids[ParentOf(d, x)] : d.kids[ParentOf(d, x)][i] = x
  BY <1>1, ParentIs, Placed
<1>3. d.kids[ParentOf(d, x)] \in Seq(Elements(d))
  BY <1>1 DEF OnePlaced
<1> QED
  BY <1>1, <1>2, <1>3

(* Two documents in which everything has the same parent.                  *)
LEMMA SameParents ==
  ASSUME NEW c, NEW d, OnePlaced(c), OnePlaced(d), NEW x, Elements(c) = Elements(d),
         \A p \in Elements(d) : Contains(c.kids[p], x) <=> Contains(d.kids[p], x)
  PROVE  ParentOf(c, x) = ParentOf(d, x)
<1>1. CASE ParentOf(d, x) = NoElement
  BY <1>1, ParentIs, ParentOrNone DEF OnePlaced
<1>2. CASE ParentOf(d, x) \in Elements(d)
  BY <1>2, ParentIs
<1> QED
  BY <1>1, <1>2, ParentOrNone

-----------------------------------------------------------------------------
(* Lines.                                                                  *)

(* s leads from x up to an element with no parent.                         *)
LeadsUp(d, x, s) ==
  /\ s \in Seq(Elements(d)) /\ Len(s) > 0
  /\ s[1] = x
  /\ \A i \in 1..(Len(s) - 1) : s[i + 1] = ParentOf(d, s[i])
  /\ ParentOf(d, s[Len(s)]) = NoElement

LEMMA OneWayUp ==
  ASSUME NEW d, NoElement \notin Elements(d), NEW x, NEW s, NEW t,
         LeadsUp(d, x, s), LeadsUp(d, x, t)
  PROVE  s = t
<1>0. /\ s \in Seq(Elements(d)) /\ t \in Seq(Elements(d)) /\ Len(s) \in Nat /\ Len(t) \in Nat
      /\ Len(s) > 0 /\ Len(t) > 0 /\ DOMAIN s = 1..Len(s) /\ DOMAIN t = 1..Len(t)
      /\ \A i \in 1..Len(s) : s[i] \in Elements(d)
      /\ \A i \in 1..Len(t) : t[i] \in Elements(d)
  BY DEF LeadsUp
<1>1. s[1] = t[1] /\ 1 \in 1..Len(s) /\ 1 \in 1..Len(t)
  BY <1>0 DEF LeadsUp
<1>2. ASSUME NEW i \in Nat, i >= 1, i \in 1..Len(s), i \in 1..Len(t), s[i] = t[i]
      PROVE  /\ i = Len(s) <=> i = Len(t)
             /\ i < Len(s) => s[i + 1] = t[i + 1]
  <2>1. i < Len(s) => s[i + 1] = ParentOf(d, s[i]) /\ s[i + 1] \in Elements(d)
    BY <1>0, <1>2 DEF LeadsUp
  <2>2. i < Len(t) => t[i + 1] = ParentOf(d, t[i]) /\ t[i + 1] \in Elements(d)
    BY <1>0, <1>2 DEF LeadsUp
  <2>3. i = Len(s) => ParentOf(d, s[i]) = NoElement
    BY DEF LeadsUp
  <2>4. i = Len(t) => ParentOf(d, t[i]) = NoElement
    BY DEF LeadsUp
  <2>5. (i = Len(s) \/ i < Len(s)) /\ (i = Len(t) \/ i < Len(t))
    <3>1. Len(s) \in Nat /\ Len(t) \in Nat
      BY <1>0
    <3> QED
      BY <1>2, <3>1
  <2> QED
    BY <1>2, <2>1, <2>2, <2>3, <2>4, <2>5
<1> DEFINE K == {i \in 0..Len(s) : i \in 1..Len(s) => i \in 1..Len(t) /\ s[i] = t[i]}
<1>3. 0..Len(s) \subseteq K
  <2>1. 0 \in K
    BY <1>0
  <2>2. ASSUME NEW i \in 1..Len(s), i - 1 \in K PROVE i \in K
    <3>1. CASE i = 1
      BY <1>0, <1>1, <3>1
    <3>2. CASE i # 1
      <4>0. Len(s) \in Nat /\ Len(t) \in Nat
        BY <1>0
      <4> PICK h \in Nat : h = i - 1
        BY <4>0
      <4>1. h \in 1..Len(s) /\ h >= 1 /\ h + 1 = i /\ h < Len(s) /\ h # Len(s)
        BY <3>2, <4>0
      <4>2. h \in 1..Len(t) /\ s[h] = t[h]
        BY <2>2, <4>1
      <4>3. h # Len(t) /\ s[h + 1] = t[h + 1]
        BY <1>2, <4>1, <4>2
      <4>4. i \in 1..Len(t) /\ i \in 0..Len(s)
        BY <4>0, <4>1, <4>2, <4>3
      <4> QED
        BY <4>1, <4>3, <4>4
    <3> QED
      BY <3>1, <3>2
  <2> HIDE DEF K
  <2> QED
    BY <1>0, <2>1, <2>2, Induction
<1>4. \A i \in 1..Len(s) : i \in 1..Len(t) /\ s[i] = t[i]
  BY <1>0, <1>3
<1>5. Len(s) = Len(t)
  <2>1. Len(s) \in 1..Len(s) /\ Len(s) \in Nat /\ Len(s) >= 1
    BY <1>0
  <2>2. Len(s) \in 1..Len(t) /\ s[Len(s)] = t[Len(s)]
    BY <1>4, <2>1
  <2> QED
    BY <1>2, <2>1, <2>2
<1> QED
  BY <1>0, <1>4, <1>5


LEMMA OneMoreUp ==
  ASSUME NEW d, OnePlaced(d), NEW x \in Elements(d), NEW s,
         \/ ParentOf(d, x) = NoElement /\ s = <<>>
         \/ ParentOf(d, x) \in Elements(d) /\ LeadsUp(d, ParentOf(d, x), s)
  PROVE  LeadsUp(d, x, <<x>> \o s)
<1> DEFINE E == Elements(d)
           t == <<x>> \o s
<1>1. CASE ParentOf(d, x) = NoElement /\ s = <<>>
  <2>1. t = <<x>>
    BY <1>1
  <2>2. t \in Seq(E) /\ Len(t) = 1 /\ t[1] = x /\ 1..(1 - 1) = {}
    <3>1. x \in E
      OBVIOUS
    <3> HIDE DEF E, t
    <3> QED
      BY <2>1, <3>1
  <2> HIDE DEF t
  <2>3. LeadsUp(d, x, t)
    BY <1>1, <2>2 DEF LeadsUp
  <2> QED
    BY <2>3 DEF t
<1>2. CASE ParentOf(d, x) \in E /\ LeadsUp(d, ParentOf(d, x), s)
  <2>1. /\ s \in Seq(E) /\ Len(s) \in Nat /\ Len(s) > 0 /\ s[1] = ParentOf(d, x)
        /\ \A i \in 1..(Len(s) - 1) : s[i + 1] = ParentOf(d, s[i])
        /\ ParentOf(d, s[Len(s)]) = NoElement
    BY <1>2 DEF LeadsUp
  <2>2. /\ t \in Seq(E) /\ Len(t) = Len(s) + 1 /\ t[1] = x
        /\ \A i \in 1..Len(s) : t[i + 1] = s[i]
    <3>1. x \in E
      OBVIOUS
    <3> HIDE DEF E
    <3> QED
      BY <2>1, <3>1
  <2> HIDE DEF t
  <2>3. ASSUME NEW i \in 1..(Len(t) - 1) PROVE t[i + 1] = ParentOf(d, t[i])
    <3>1. CASE i = 1
      <4>1. 1 \in 1..Len(s)
        BY <2>1
      <4> QED
        BY <2>1, <2>2, <3>1, <4>1
    <3>2. CASE i # 1
      <4> PICK h \in Nat : h = i - 1
        BY <2>1, <2>2
      <4>1. h \in 1..(Len(s) - 1) /\ h + 1 = i /\ i \in 1..Len(s) /\ h \in 1..Len(s)
        BY <2>1, <2>2, <3>2
      <4>2. t[i + 1] = s[i] /\ t[h + 1] = s[h] /\ s[h + 1] = ParentOf(d, s[h])
        BY <2>1, <2>2, <4>1
      <4> QED
        BY <4>1, <4>2
    <3> QED
      BY <3>1, <3>2
  <2>4. t[Len(t)] = s[Len(s)] /\ Len(t) > 0
    <3>1. Len(s) \in 1..Len(s)
      BY <2>1
    <3> QED
      BY <2>1, <2>2, <3>1
  <2>5. LeadsUp(d, x, t)
    BY <2>1, <2>2, <2>3, <2>4 DEF LeadsUp
  <2> QED
    BY <2>5 DEF t
<1> QED
  BY <1>1, <1>2

(* What holds of an element if it holds of its parent holds of all.        *)
LEMMA DownTheTree ==
  ASSUME NEW d, OnePlaced(d), IsForest(d), NEW G,
         \A x \in Elements(d) : ParentOf(d, x) \in G \cup {NoElement} => x \in G
  PROVE  Elements(d) \subseteq G
<1> DEFINE S == {x \in Elements(d) : x \notin G}
<1> SUFFICES ASSUME S # {} PROVE FALSE
  OBVIOUS
<1>1. S \in (SUBSET Elements(d)) \ {{}}
  OBVIOUS
<1>2. PICK x \in S : ParentOf(d, x) \notin S
  <2> HIDE DEF S
  <2> QED
    BY <1>1 DEF IsForest
<1>3. ParentOf(d, x) \in G \cup {NoElement}
  BY <1>2, ParentOrNone
<1> QED
  BY <1>2, <1>3

(* The chain that nsmap, new_prefix and the rest walk is the way up.       *)
LEMMA LineIs ==
  ASSUME NEW d, OnePlaced(d), IsForest(d), NEW e \in Elements(d)
  PROVE  LeadsUp(d, e, Line(d, e))
<1> DEFINE E == Elements(d)
           Up(h) == h = [x \in E \cup {NoElement} |->
                           IF x = NoElement THEN <<>> ELSE <<x>> \o h[ParentOf(d, x)]]
           up == CHOOSE h : Up(h)
<1>1. Line(d, e) = up[e]
  BY Zenon DEF Line
<1>2. \E h : Up(h)
  <2> DEFINE G == {x \in E : \E s : LeadsUp(d, x, s)}
             h == [x \in E \cup {NoElement} |->
                     IF x = NoElement THEN <<>> ELSE CHOOSE s : LeadsUp(d, x, s)]
  <2>1. E \subseteq G
    <3>1. ASSUME NEW x \in E, ParentOf(d, x) \in G \cup {NoElement} PROVE x \in G
      <4>1. CASE ParentOf(d, x) = NoElement
        BY <4>1, OneMoreUp
      <4>2. CASE ParentOf(d, x) \in G
        <5> PICK s : LeadsUp(d, ParentOf(d, x), s)
          BY <4>2
        <5> QED
          BY <4>2, OneMoreUp
      <4> QED
        BY <3>1, <4>1, <4>2
    <3> HIDE DEF G
    <3> QED
      BY <3>1, DownTheTree
  <2>2. \A x \in E : x # NoElement /\ LeadsUp(d, x, h[x])
    <3> SUFFICES ASSUME NEW x \in E PROVE x # NoElement /\ LeadsUp(d, x, h[x])
      OBVIOUS
    <3>1. x # NoElement
      BY DEF OnePlaced
    <3>2. \E s : LeadsUp(d, x, s)
      BY <2>1
    <3>3. LeadsUp(d, x, CHOOSE s : LeadsUp(d, x, s))
      BY <3>2
    <3>4. h[x] = CHOOSE s : LeadsUp(d, x, s)
      BY <3>1
    <3> HIDE DEF h
    <3> QED
      BY <3>1, <3>3, <3>4
  <2>3. h[NoElement] = <<>> /\ DOMAIN h = E \cup {NoElement}
    OBVIOUS
  <2>4. h = [x \in DOMAIN h |-> h[x]]
    OBVIOUS
  <2> HIDE DEF h
  <2>5. ASSUME NEW x \in E PROVE h[x] = <<x>> \o h[ParentOf(d, x)]
    <3>1. LeadsUp(d, x, <<x>> \o h[ParentOf(d, x)])
      BY <2>2, <2>3, OneMoreUp, ParentOrNone
    <3>2. NoElement \notin Elements(d) /\ LeadsUp(d, x, h[x])
      BY <2>2 DEF OnePlaced
    <3> QED
      BY <3>1, <3>2, OneWayUp, Zenon
  <2>6. \A x \in E \cup {NoElement} :
          h[x] = IF x = NoElement THEN <<>> ELSE <<x>> \o h[ParentOf(d, x)]
    BY <2>2, <2>3, <2>5
  <2>7. Up(h)
    BY <2>3, <2>4, <2>6
  <2> QED
    BY <2>7
<1>3. Up(up)
  <2> HIDE DEF Up
  <2> QED
    BY <1>2
<1>4. up[NoElement] = <<>> /\ \A x \in E : up[x] = <<x>> \o up[ParentOf(d, x)]
  <2>1. \A x \in E : x # NoElement
    BY DEF OnePlaced
  <2> HIDE DEF up
  <2>2. \A x \in E \cup {NoElement} :
          up[x] = IF x = NoElement THEN <<>> ELSE <<x>> \o up[ParentOf(d, x)]
    BY <1>3
  <2> QED
    BY <2>1, <2>2
<1> HIDE DEF up
<1> DEFINE G == {x \in E : LeadsUp(d, x, up[x])}
<1>5. E \subseteq G
  <2>1. ASSUME NEW x \in E, ParentOf(d, x) \in G \cup {NoElement} PROVE x \in G
    <3> DEFINE q == ParentOf(d, x)
    <3>1. (q = NoElement /\ up[q] = <<>>) \/ (q \in E /\ LeadsUp(d, q, up[q]))
      BY <1>4, <2>1
    <3>2. LeadsUp(d, x, <<x>> \o up[q])
      BY <3>1, OneMoreUp
    <3>3. up[x] = <<x>> \o up[q]
      BY <1>4
    <3> QED
      BY <3>2, <3>3
  <2> HIDE DEF G
  <2> QED
    BY <2>1, DownTheTree
<1> QED
  BY <1>1, <1>5


LEMMA RestIs ==
  ASSUME NEW X, NEW s \in Seq(X), NEW n, n = Len(s), NEW m \in 1..n
  PROVE  /\ SubSeq(s, m, n) \in Seq(X) /\ Len(SubSeq(s, m, n)) = n - m + 1
         /\ DOMAIN SubSeq(s, m, n) = 1..(n - m + 1)
         /\ \A i \in 1..(n - m + 1) : SubSeq(s, m, n)[i] = s[i + m - 1]
<1>1. n \in Nat /\ DOMAIN s = 1..n /\ \A i \in m..n : s[i] \in X
  OBVIOUS
<1> QED
  BY <1>1

(* From any place on, a line is the line of the element at that place.     *)
LEMMA LineFrom ==
  ASSUME NEW d, OnePlaced(d), IsForest(d), NEW e \in Elements(d), NEW m \in DOMAIN Line(d, e)
  PROVE  /\ Line(d, e)[m] \in Elements(d)
         /\ Line(d, Line(d, e)[m]) = SubSeq(Line(d, e), m, Len(Line(d, e)))
<1> DEFINE s == Line(d, e)
           n == Len(s)
           t == SubSeq(s, m, n)
           E == Elements(d)
<1>1. /\ s \in Seq(E) /\ n \in Nat /\ DOMAIN s = 1..n
      /\ \A i \in 1..(n - 1) : s[i + 1] = ParentOf(d, s[i])
      /\ ParentOf(d, s[n]) = NoElement
  BY LineIs DEF LeadsUp
<1> HIDE DEF s, n
<1>2. m \in 1..n /\ s[m] \in E
  BY <1>1 DEF s
<1>3. t \in Seq(E) /\ Len(t) = n - m + 1 /\ \A i \in 1..(n - m + 1) : t[i] = s[i + m - 1]
  <2>1. n = Len(s)
    BY DEF n
  <2> HIDE DEF E
  <2> QED
    BY <1>1, <1>2, <2>1, RestIs
<1> HIDE DEF t
<1>4. LeadsUp(d, s[m], t)
  <2>1. Len(t) > 0 /\ t[1] = s[m] /\ t[Len(t)] = s[n]
    <3>1. 1 \in 1..(n - m + 1) /\ n - m + 1 \in 1..(n - m + 1) /\ 1 + m - 1 = m
          /\ (n - m + 1) + m - 1 = n /\ n - m + 1 > 0
      BY <1>1, <1>2
    <3> QED
      BY <1>3, <3>1
  <2>2. ASSUME NEW i \in 1..(Len(t) - 1) PROVE t[i + 1] = ParentOf(d, t[i])
    <3> PICK h \in Nat : h = i + m - 1
      BY <1>1, <1>2, <1>3
    <3>1. h \in 1..(n - 1) /\ i \in 1..(n - m + 1) /\ i + 1 \in 1..(n - m + 1) /\ (i + 1) + m - 1 = h + 1
      BY <1>1, <1>2, <1>3
    <3>2. t[i] = s[h] /\ t[i + 1] = s[h + 1]
      BY <1>3, <3>1
    <3> QED
      BY <1>1, <3>1, <3>2
  <2> QED
    BY <1>1, <1>3, <2>1, <2>2 DEF LeadsUp
<1>5. LeadsUp(d, s[m], Line(d, s[m]))
  BY <1>2, LineIs
<1>6. t = Line(d, s[m])
  BY <1>4, <1>5, OneWayUp DEF OnePlaced
<1> QED
  BY <1>2, <1>6 DEF t, s, n

(* Elements with the same parents have the same lines.                     *)
LEMMA SameLines ==
  ASSUME NEW c, OnePlaced(c), IsForest(c), NEW d, OnePlaced(d), IsForest(d),
         Elements(d) \subseteq Elements(c),
         \A y \in Elements(d) : ParentOf(c, y) = ParentOf(d, y),
         NEW x \in Elements(d)
  PROVE  Line(c, x) = Line(d, x)
<1> DEFINE s == Line(d, x)
<1>1. LeadsUp(d, x, s) /\ LeadsUp(c, x, Line(c, x))
  BY LineIs
<1> HIDE DEF s
<1>2. s \in Seq(Elements(d)) /\ Len(s) \in Nat /\ \A i \in 1..Len(s) : s[i] \in Elements(d)
  BY <1>1 DEF LeadsUp
<1>3. s \in Seq(Elements(c))
  <2>1. \A i \in 1..Len(s) : s[i] \in Elements(c)
    BY <1>2
  <2>2. s = [i \in 1..Len(s) |-> s[i]]
    BY <1>2
  <2> QED
    BY <1>2, <2>1
<1>4. LeadsUp(c, x, s)
  <2>1. \A i \in 1..(Len(s) - 1) : i \in 1..Len(s)
    BY <1>2
  <2>2. Len(s) \in 1..Len(s)
    BY <1>1, <1>2 DEF LeadsUp
  <2> QED
    BY <1>1, <1>2, <1>3, <2>1, <2>2 DEF LeadsUp
<1> QED
  BY <1>1, <1>4, OneWayUp DEF OnePlaced, s

-----------------------------------------------------------------------------
(* The declarations along a line, one after the other.                     *)

(* t lists what is in the sequences of ss, one sequence after the other;   *)
(* entry k of t comes from ss[g[k]].                                       *)
Flattened(ss, t, g) ==
  /\ g \in [DOMAIN t -> DOMAIN ss]
  /\ \A k \in DOMAIN t : \E j \in DOMAIN ss[g[k]] : t[k] = ss[g[k]][j]
  /\ \A k, l \in DOMAIN t : k <= l => g[k] <= g[l]
  /\ \A i \in DOMAIN ss : \A j \in DOMAIN ss[i] : \E k \in DOMAIN t : g[k] = i /\ t[k] = ss[i][j]

LEMMA FlattenIs ==
  ASSUME NEW X, NEW ss \in Seq(Seq(X))
  PROVE  FlattenSeq(ss) \in Seq(X) /\ \E g : Flattened(ss, FlattenSeq(ss), g)
<1> DEFINE n == Len(ss)
           Is(h) == h = [i \in 1..n |-> IF i = 1 THEN ss[i] ELSE h[i - 1] \o ss[i]]
           h == CHOOSE f : Is(f)
<1>1. n \in Nat /\ DOMAIN ss = 1..n /\ \A i \in 1..n : ss[i] \in Seq(X)
  OBVIOUS
<1>2. CASE n = 0
  <2>1. FlattenSeq(ss) = ss /\ ss = <<>> /\ DOMAIN ss = {}
    BY <1>1, <1>2 DEF FlattenSeq
  <2> DEFINE g == [k \in {} |-> 0]
  <2>2. g \in [DOMAIN FlattenSeq(ss) -> DOMAIN ss]
    BY <2>1
  <2>3. Flattened(ss, FlattenSeq(ss), g)
    BY <2>1, <2>2 DEF Flattened
  <2>4. FlattenSeq(ss) \in Seq(X)
    BY <2>1
  <2> QED
    BY <2>3, <2>4
<1>3. CASE n # 0
  <2>1. FlattenSeq(ss) = h[n]
    BY <1>3, Zenon DEF FlattenSeq
  <2> HIDE DEF n
  <2>2. \E f : Is(f)
    <3> DEFINE step == [i \in 1..n |-> [u \in Seq(X) |-> u \o ss[i]]]
    <3>1. step \in [1..n -> [Seq(X) -> Seq(X)]]
      BY <1>1
    <3>2. <<>> \in Seq(X)
      OBVIOUS
    <3> HIDE DEF step
    <3>3. PICK f : Loop(f, Seq(X), n, <<>>, step)
      BY <1>1, <3>1, <3>2, LoopRuns
    <3>4. /\ f \in [0..n -> Seq(X)] /\ f[0] = <<>>
          /\ \A i \in 1..n : f[i] = step[i][f[i - 1]]
      BY <3>3 DEF Loop
    <3>5. \A i \in 1..n : f[i] = f[i - 1] \o ss[i]
      <4>1. \A i \in 1..n : i - 1 \in 0..n /\ f[i - 1] \in Seq(X)
        <5>1. n \in Nat
          BY <1>1
        <5>2. \A i \in 1..n : i - 1 \in 0..n
          BY <5>1
        <5> QED
          BY <3>4, <5>2
      <4> QED
        BY <3>4, <4>1 DEF step
    <3>6. f[1] = ss[1]
      <4>1. 1 \in 1..n /\ 1 - 1 = 0
        BY <1>1, <1>3
      <4>2. f[1] = <<>> \o ss[1] /\ ss[1] \in Seq(X)
        BY <1>1, <3>4, <3>5, <4>1
      <4> QED
        BY <4>2
    <3> DEFINE k == [i \in 1..n |-> f[i]]
    <3>7. \A i \in 1..n : k[i] = IF i = 1 THEN ss[i] ELSE k[i - 1] \o ss[i]
      <4> SUFFICES ASSUME NEW i \in 1..n, i # 1 PROVE f[i] = k[i - 1] \o ss[i]
        BY <3>6
      <4>1. i - 1 \in 1..n
        BY <1>1
      <4> QED
        BY <3>5, <4>1
    <3>8. Is(k)
      BY <3>7
    <3> QED
      BY <3>8
  <2>3. Is(h)
    <3> HIDE DEF Is
    <3> QED
      BY <2>2
  <2> HIDE DEF h
  <2>4. \A i \in 1..n : h[i] = IF i = 1 THEN ss[i] ELSE h[i - 1] \o ss[i]
    BY <2>3
  <2> HIDE DEF Is
  <2> DEFINE Upto(i, g) == /\ g \in [DOMAIN h[i] -> 1..i]
                           /\ \A k \in DOMAIN h[i] : \E j \in DOMAIN ss[g[k]] : h[i][k] = ss[g[k]][j]
                           /\ \A k, l \in DOMAIN h[i] : k <= l => g[k] <= g[l]
                           /\ \A m \in 1..i : \A j \in DOMAIN ss[m] :
                                \E k \in DOMAIN h[i] : g[k] = m /\ h[i][k] = ss[m][j]
             G == {i \in 0..n : i > 0 => h[i] \in Seq(X) /\ \E g : Upto(i, g)}
  <2>5. 0..n \subseteq G
    <3>1. 0 \in G
      BY <1>1
    <3>2. ASSUME NEW i \in 1..n, i - 1 \in G PROVE i \in G
      <4>0. i \in 0..n /\ i > 0 /\ i \in Int
        BY <1>1
      <4>1. CASE i = 1
        <5>1. h[i] = ss[i] /\ ss[i] \in Seq(X) /\ DOMAIN h[i] = 1..Len(h[i]) /\ Len(h[i]) \in Nat
          BY <1>1, <2>4, <4>1
        <5> DEFINE g == [k \in DOMAIN h[i] |-> i]
        <5>2. i \in 1..i /\ \A m \in 1..i : m = i
          BY <4>1
        <5>3. Upto(i, g)
          <6>1. \A k \in DOMAIN h[i] : g[k] = i
            OBVIOUS
          <6>2. g \in [DOMAIN h[i] -> 1..i]
            BY <5>2
          <6> HIDE DEF g
          <6>3. \A k \in DOMAIN h[i] : \E j \in DOMAIN ss[g[k]] : h[i][k] = ss[g[k]][j]
            BY <5>1, <6>1
          <6>4. \A k, l \in DOMAIN h[i] : k <= l => g[k] <= g[l]
            BY <4>0, <6>1
          <6>5. \A m \in 1..i : \A j \in DOMAIN ss[m] : \E k \in DOMAIN h[i] : g[k] = m /\ h[i][k] = ss[m][j]
            BY <5>1, <5>2, <6>1
          <6> QED
            BY <6>2, <6>3, <6>4, <6>5
        <5> HIDE DEF Upto
        <5> QED
          BY <4>0, <5>1, <5>3
      <4>2. CASE i # 1
        <5> DEFINE u == h[i - 1]
                   v == ss[i]
                   w == h[i]
                   L == Len(u)
        <5>1. i - 1 \in 1..n /\ i - 1 > 0
          BY <1>1, <4>2
        <5>2. u \in Seq(X) /\ \E g : Upto(i - 1, g)
          BY <3>2, <5>1
        <5>3. PICK g : Upto(i - 1, g)
          BY <5>2
        <5>4. /\ g \in [DOMAIN u -> 1..(i - 1)]
              /\ \A k \in DOMAIN u : \E j \in DOMAIN ss[g[k]] : u[k] = ss[g[k]][j]
              /\ \A k, l \in DOMAIN u : k <= l => g[k] <= g[l]
              /\ \A m \in 1..(i - 1) : \A j \in DOMAIN ss[m] : \E k \in DOMAIN u : g[k] = m /\ u[k] = ss[m][j]
          BY <5>3
        <5>5. w = u \o v /\ v \in Seq(X)
          BY <1>1, <2>4, <4>2
        <5> HIDE DEF Upto, G
        <5>6. /\ w \in Seq(X) /\ L \in Nat /\ Len(v) \in Nat /\ DOMAIN u = 1..L /\ DOMAIN v = 1..Len(v)
              /\ DOMAIN w = 1..(L + Len(v))
              /\ \A k \in 1..L : w[k] = u[k]
              /\ \A k \in 1..Len(v) : w[L + k] = v[k]
          <6>1. u \in Seq(X) /\ w = u \o v /\ v \in Seq(X)
            BY <5>2, <5>5
          <6> HIDE DEF u, v, w
          <6> QED
            BY <6>1
        <5> DEFINE M == L + Len(v)
                   f == [k \in 1..M |-> IF k <= L THEN g[k] ELSE i]
        <5> HIDE DEF u, v, w, L
        <5>7. /\ \A k \in 1..L : k \in 1..M /\ f[k] = g[k] /\ g[k] \in 1..(i - 1)
              /\ \A k \in 1..Len(v) : L + k \in 1..M /\ f[L + k] = i
              /\ \A k \in 1..M : k \in 1..L \/ \E l \in 1..Len(v) : k = L + l
          <6>1. \A k \in 1..M : k \in 1..L \/ \E l \in 1..Len(v) : k = L + l
            <7> SUFFICES ASSUME NEW k \in 1..M, k \notin 1..L PROVE \E l \in 1..Len(v) : k = L + l
              OBVIOUS
            <7>1. k - L \in 1..Len(v) /\ k = L + (k - L)
              BY <5>6
            <7> QED
              BY <7>1
          <6>2. \A k \in 1..L : k \in 1..M /\ f[k] = g[k] /\ g[k] \in 1..(i - 1)
            BY <5>4, <5>6
          <6>3. \A k \in 1..Len(v) : L + k \in 1..M /\ f[L + k] = i
            BY <5>6
          <6> QED
            BY <6>1, <6>2, <6>3
        <5>8. DOMAIN f = 1..M
          OBVIOUS
        <5> HIDE DEF f, M
        <5>9. f \in [1..M -> 1..i]
          <6>1. \A k \in 1..M : f[k] \in 1..i
            <7> SUFFICES ASSUME NEW k \in 1..M PROVE f[k] \in 1..i
              OBVIOUS
            <7>1. i \in 1..i /\ \A m \in 1..(i - 1) : m \in 1..i
              BY <4>0
            <7> QED
              BY <5>7, <7>1
          <6>2. f = [k \in 1..M |-> f[k]]
            BY <5>8 DEF f
          <6> QED
            BY <6>1, <6>2
        <5>10. ASSUME NEW k \in 1..M PROVE \E j \in DOMAIN ss[f[k]] : w[k] = ss[f[k]][j]
          <6>1. CASE k \in 1..L
            <7>1. f[k] = g[k] /\ w[k] = u[k] /\ k \in DOMAIN u
              BY <5>6, <5>7, <6>1
            <7> QED
              BY <5>4, <7>1
          <6>2. ASSUME NEW l \in 1..Len(v), k = L + l PROVE \E j \in DOMAIN ss[f[k]] : w[k] = ss[f[k]][j]
            <7>1. f[k] = i /\ w[k] = v[l]
              BY <5>6, <5>7, <6>2
            <7> QED
              BY <5>6, <7>1 DEF v
          <6> QED
            BY <5>7, <6>1, <6>2
        <5>11. ASSUME NEW k \in 1..M, NEW l \in 1..M, k <= l PROVE f[k] <= f[l]
          <6>1. CASE l \in 1..L
            <7>1. k \in 1..L
              BY <5>6, <5>11, <6>1
            <7> QED
              BY <5>4, <5>6, <5>7, <5>11, <6>1, <7>1
          <6>2. CASE f[l] = i
            <7>1. f[k] \in 1..i
              BY <5>9
            <7> QED
              BY <4>0, <6>2, <7>1
          <6> QED
            BY <5>7, <6>1, <6>2
        <5>12. ASSUME NEW m \in 1..i, NEW j \in DOMAIN ss[m]
               PROVE  \E k \in 1..M : f[k] = m /\ w[k] = ss[m][j]
          <6>1. CASE m = i
            <7>1. j \in 1..Len(v) /\ ss[m][j] = v[j]
              BY <5>6, <6>1 DEF v
            <7> QED
              BY <5>6, <5>7, <6>1, <7>1
          <6>2. CASE m # i
            <7>1. m \in 1..(i - 1)
              BY <4>0, <6>2
            <7>2. PICK k \in 1..L : g[k] = m /\ u[k] = ss[m][j]
              BY <5>4, <5>6, <7>1
            <7> QED
              BY <5>6, <5>7, <7>2
          <6> QED
            BY <6>1, <6>2
        <5>13. Upto(i, f)
          <6>1. h[i] = w /\ DOMAIN w = 1..M
            BY <5>6 DEF w, M
          <6>2. f \in [DOMAIN h[i] -> 1..i]
            BY <5>9, <6>1
          <6>3. \A k \in DOMAIN h[i] : \E j \in DOMAIN ss[f[k]] : h[i][k] = ss[f[k]][j]
            BY <5>10, <6>1
          <6>4. \A k, l \in DOMAIN h[i] : k <= l => f[k] <= f[l]
            BY <5>11, <6>1
          <6>5. ASSUME NEW m \in 1..i, NEW j \in DOMAIN ss[m]
                PROVE  \E k \in DOMAIN h[i] : f[k] = m /\ h[i][k] = ss[m][j]
            <7>1. PICK k \in 1..M : f[k] = m /\ w[k] = ss[m][j]
              BY <5>12
            <7> QED
              BY <6>1, <7>1
          <6> QED
            BY <6>2, <6>3, <6>4, <6>5 DEF Upto
        <5> QED
          BY <4>0, <5>6, <5>13 DEF G, w
      <4> QED
        BY <4>1, <4>2
    <3> HIDE DEF G
    <3> QED
      BY <1>1, <3>1, <3>2, Induction
  <2>6. h[n] \in Seq(X) /\ \E g : Upto(n, g)
    <3>1. n \in 0..n /\ n > 0
      BY <1>1, <1>3
    <3> QED
      BY <2>5, <3>1
  <2>7. PICK g : Upto(n, g)
    BY <2>6
  <2>8. Flattened(ss, h[n], g)
    BY <1>1, <2>7 DEF Flattened
  <2> QED
    BY <2>1, <2>6, <2>8
<1> QED
  BY <1>2, <1>3


-----------------------------------------------------------------------------
(* Trees under change.                                                     *)

(* What IsDocument says of the tree and of the types of the rest.          *)
IsTree(d) ==
  /\ d \in [kids : [Elements(d) -> Seq(Elements(d))], decls : [Elements(d) -> Seq(Name)],
            name : [Elements(d) -> Name], attrs : [Elements(d) -> SUBSET Name]]
  /\ IsForest(d)

LEMMA DocumentTree ==
  ASSUME NEW d, IsDocument(d)
  PROVE  IsTree(d)
BY DEF IsDocument, IsTree

LEMMA TreePlaced ==
  ASSUME NEW d, IsTree(d)
  PROVE  OnePlaced(d) /\ IsForest(d)
BY DEF IsTree, IsForest, OnePlaced

LEMMA LineStep ==
  ASSUME NEW d, OnePlaced(d), IsForest(d), NEW x \in Elements(d)
  PROVE  \/ ParentOf(d, x) = NoElement /\ Line(d, x) = <<x>>
         \/ ParentOf(d, x) \in Elements(d) /\ Line(d, x) = <<x>> \o Line(d, ParentOf(d, x))
<1>1. LeadsUp(d, x, Line(d, x)) /\ NoElement \notin Elements(d)
  BY LineIs DEF OnePlaced
<1>2. CASE ParentOf(d, x) = NoElement
  <2>1. LeadsUp(d, x, <<x>> \o <<>>)
    BY <1>2, OneMoreUp
  <2>2. <<x>> \o <<>> = <<x>>
    OBVIOUS
  <2> QED
    BY <1>1, <1>2, <2>1, <2>2, OneWayUp, Zenon
<1>3. CASE ParentOf(d, x) \in Elements(d)
  <2>1. LeadsUp(d, x, <<x>> \o Line(d, ParentOf(d, x)))
    BY <1>3, OneMoreUp, LineIs
  <2> QED
    BY <1>1, <1>3, <2>1, OneWayUp, Zenon
<1> QED
  BY <1>2, <1>3, ParentOrNone

LEMMA BelowIs ==
  ASSUME NEW d, OnePlaced(d), IsForest(d), NEW x \in Elements(d), NEW e
  PROVE  x \in Below(d, e) <=>
           x = e \/ (ParentOf(d, x) \in Elements(d) /\ ParentOf(d, x) \in Below(d, e))
<1>1. x \in Below(d, e) <=> \E i \in 1..Len(Line(d, x)) : Line(d, x)[i] = e
  <2>1. DOMAIN Line(d, x) = 1..Len(Line(d, x))
    BY LineIs DEF LeadsUp
  <2> QED
    BY <2>1 DEF Below, Contains
<1>2. CASE ParentOf(d, x) = NoElement
  <2>1. Line(d, x) = <<x>> /\ NoElement \notin Elements(d)
    BY <1>2, LineStep DEF OnePlaced
  <2>2. Len(<<x>>) = 1 /\ <<x>>[1] = x /\ 1..1 = {1}
    OBVIOUS
  <2> QED
    BY <1>1, <1>2, <2>1, <2>2
<1>3. CASE ParentOf(d, x) \in Elements(d)
  <2> DEFINE p == ParentOf(d, x)
             s == Line(d, p)
             t == Line(d, x)
  <2>1. /\ t = <<x>> \o s /\ s \in Seq(Elements(d)) /\ Len(s) \in Nat
        /\ DOMAIN s = 1..Len(s)
    <3>1. LeadsUp(d, p, s)
      BY <1>3, LineIs
    <3>2. NoElement \notin Elements(d)
      BY DEF OnePlaced
    <3> QED
      BY <1>3, <3>1, <3>2, LineStep DEF LeadsUp
  <2>2. p \in Below(d, e) <=> \E i \in 1..Len(s) : s[i] = e
    BY <1>3, <2>1 DEF Below, Contains
  <2>3. x \in Below(d, e) <=> \E i \in 1..Len(t) : t[i] = e
    BY <1>1
  <2> HIDE DEF s, t
  <2>4. Len(t) = Len(s) + 1 /\ t[1] = x /\ \A i \in 1..Len(s) : t[i + 1] = s[i]
    <3> DEFINE E == Elements(d)
    <3>1. s \in Seq(E) /\ x \in E /\ t = <<x>> \o s
      BY <2>1
    <3> HIDE DEF E
    <3> QED
      BY <3>1
  <2>5. (\E i \in 1..Len(t) : t[i] = e) <=> x = e \/ \E i \in 1..Len(s) : s[i] = e
    <3>1. ASSUME NEW i \in 1..Len(s), s[i] = e PROVE \E j \in 1..Len(t) : t[j] = e
      <4>1. i + 1 \in 1..Len(t)
        BY <2>1, <2>4
      <4> QED
        BY <2>4, <3>1, <4>1
    <3>2. ASSUME x = e PROVE \E j \in 1..Len(t) : t[j] = e
      <4>1. 1 \in 1..Len(t)
        BY <2>1, <2>4
      <4> QED
        BY <2>4, <3>2, <4>1
    <3>3. ASSUME NEW j \in 1..Len(t), t[j] = e, x # e PROVE \E i \in 1..Len(s) : s[i] = e
      <4> PICK h \in Int : h = j - 1
        BY <2>1, <2>4
      <4>1. j # 1
        BY <2>4, <3>3
      <4>2. h \in 1..Len(s) /\ h + 1 = j
        BY <2>1, <2>4, <4>1
      <4> QED
        BY <2>4, <3>3, <4>2
    <3> QED
      BY <3>1, <3>2, <3>3
  <2> QED
    BY <1>3, <2>2, <2>3, <2>5
<1> QED
  BY <1>2, <1>3, ParentOrNone

(* An element put elsewhere, not below itself, leaves the tree a tree.     *)
LEMMA Regrafted ==
  ASSUME NEW c, OnePlaced(c), NEW d, OnePlaced(d), IsForest(d), Elements(c) = Elements(d),
         NEW e \in Elements(d), NEW parent \in Elements(d), parent \notin Below(d, e),
         ParentOf(c, e) = parent,
         \A x \in Elements(d) : x # e => ParentOf(c, x) = ParentOf(d, x)
  PROVE  IsForest(c)
<1>1. ASSUME NEW S \in (SUBSET Elements(d)) \ {{}},
             \A x \in S : ParentOf(c, x) \in S
      PROVE  FALSE
  <2>1. e \in S
    <3> SUFFICES ASSUME e \notin S PROVE FALSE
      OBVIOUS
    <3>1. PICK x \in S : ParentOf(d, x) \notin S
      BY DEF IsForest
    <3> QED
      BY <1>1, <3>1
  <2> DEFINE T == {x \in S : x \notin Below(d, e)}
  <2>2. T \in (SUBSET Elements(d)) \ {{}}
    BY <1>1, <2>1
  <2>3. PICK x \in T : ParentOf(d, x) \notin T
    <3> HIDE DEF T
    <3> QED
      BY <2>2 DEF IsForest
  <2>4. e \in Below(d, e)
    BY BelowIs
  <2>5. x \in S /\ x # e /\ x \notin Below(d, e) /\ x \in Elements(d)
    BY <2>3, <2>4
  <2>6. ParentOf(d, x) \in S /\ ParentOf(d, x) \in Elements(d)
    BY <1>1, <2>5
  <2>7. ParentOf(d, x) \notin Below(d, e)
    BY <2>5, <2>6, BelowIs
  <2> QED
    BY <2>3, <2>6, <2>7
<1> QED
  BY <1>1 DEF IsForest, OnePlaced

LEMMA RemovedAt ==
  ASSUME NEW X, NEW s \in Seq(X), NEW i \in DOMAIN s
  PROVE  LET r == RemoveAt(s, i)
         IN  /\ r \in Seq(X)
             /\ \A k \in DOMAIN r : k + 1 \in Int /\ (IF k < i THEN k ELSE k + 1) \in DOMAIN s
                                    /\ r[k] = s[IF k < i THEN k ELSE k + 1]
             /\ \A h \in DOMAIN s : h # i => \E k \in DOMAIN r : r[k] = s[h]
<1> DEFINE n == Len(s)
           r == RemoveAt(s, i)
           u == SubSeq(s, 1, i - 1)
           v == SubSeq(s, i + 1, n)
<1>1. n \in Nat /\ DOMAIN s = 1..n /\ i \in 1..n /\ \A k \in 1..n : s[k] \in X
  OBVIOUS
<1>2. r = u \o v
  BY DEF RemoveAt
<1> HIDE DEF n
<1>3. u \in Seq(X) /\ Len(u) = i - 1 /\ \A k \in 1..(i - 1) : u[k] = s[k]
  <2>1. \A k \in 1..(i - 1) : k \in 1..n
    BY <1>1
  <2> QED
    BY <1>1, <2>1
<1>4. v \in Seq(X) /\ Len(v) = n - i /\ \A k \in 1..(n - i) : v[k] = s[k + i]
  <2>1. \A k \in (i + 1)..n : s[k] \in X
    BY <1>1
  <2>2. v \in Seq(X)
    BY <1>1, <2>1
  <2>3. Len(v) = n - i
    BY <1>1
  <2>4. \A k \in 1..(n - i) : v[k] = s[k + i]
    BY <1>1
  <2> QED
    BY <2>2, <2>3, <2>4
<1> HIDE DEF u, v, r
<1>5. /\ r \in Seq(X) /\ DOMAIN r = 1..(n - 1)
      /\ \A k \in 1..(i - 1) : r[k] = s[k]
      /\ \A k \in 1..(n - i) : r[k + (i - 1)] = s[k + i]
  <2>1. r \in Seq(X) /\ Len(r) = Len(u) + Len(v)
    BY <1>2, <1>3, <1>4
  <2>2. \A k \in 1..Len(u) : r[k] = u[k]
    BY <1>2, <1>3, <1>4
  <2>3. \A k \in 1..Len(v) : r[k + Len(u)] = v[k]
    <3>1. u \in Seq(X) /\ v \in Seq(X)
      BY <1>3, <1>4
    <3> QED
      BY <1>2, <3>1
  <2>4. DOMAIN r = 1..(n - 1)
    BY <1>1, <1>3, <1>4, <2>1
  <2> QED
    BY <1>1, <1>3, <1>4, <2>1, <2>2, <2>3, <2>4
<1>6. ASSUME NEW k \in 1..(n - 1)
      PROVE  /\ (IF k < i THEN k ELSE k + 1) \in 1..n
             /\ r[k] = s[IF k < i THEN k ELSE k + 1]
  <2>1. CASE k < i
    <3>1. k \in 1..(i - 1)
      BY <1>1, <2>1
    <3> QED
      BY <1>1, <1>5, <2>1, <3>1
  <2>2. CASE ~(k < i)
    <3> PICK j \in Int : j = k - (i - 1)
      BY <1>1
    <3>0. n \in Nat /\ i \in 1..n
      BY <1>1
    <3>1. j \in 1..(n - i) /\ j + (i - 1) = k /\ j + i = k + 1 /\ k + 1 \in 1..n
      BY <2>2, <3>0
    <3>2. r[j + (i - 1)] = s[j + i]
      BY <1>5, <3>1
    <3> QED
      BY <2>2, <3>1, <3>2
  <2> QED
    BY <2>1, <2>2
<1>7. ASSUME NEW h \in 1..n, h # i PROVE \E k \in 1..(n - 1) : r[k] = s[h]
  <2>1. CASE h < i
    BY <1>1, <1>6, <2>1
  <2>2. CASE ~(h < i)
    <3> PICK k \in Int : k = h - 1
      BY <1>1
    <3>1. k \in 1..(n - 1) /\ ~(k < i) /\ k + 1 = h
      BY <1>1, <1>7, <2>2
    <3> QED
      BY <1>6, <3>1
  <2> QED
    BY <2>1, <2>2
<1>8. \A k \in 1..(n - 1) : k + 1 \in Int
  BY <1>1
<1> QED
  BY <1>1, <1>5, <1>6, <1>7, <1>8, Zenon DEF r


(* Two trees, given who contains whom.                                     *)
LEMMA DetachIs ==
  ASSUME NEW d, IsTree(d), NEW e \in Elements(d)
  PROVE  LET c == Detach(d, e)
         IN  /\ IsTree(c) /\ Elements(c) = Elements(d)
             /\ c.decls = d.decls /\ c.name = d.name /\ c.attrs = d.attrs
             /\ \A x : ParentOf(c, x) = IF x = e THEN NoElement ELSE ParentOf(d, x)
<1> DEFINE c == Detach(d, e)
           p == ParentOf(d, e)
           E == Elements(d)
<1>0. OnePlaced(d) /\ IsForest(d) /\ NoElement \notin E
  BY TreePlaced DEF OnePlaced
<1>1. CASE p = NoElement
  <2>1. c = d
    BY <1>1, Zenon DEF Detach
  <2>2. \A x : ParentOf(d, x) = IF x = e THEN NoElement ELSE ParentOf(d, x)
    BY <1>1
  <2> HIDE DEF c
  <2> QED
    BY <2>1, <2>2, Zenon DEF c
<1>2. CASE p # NoElement
  <2>1. p \in E /\ Contains(d.kids[p], e) /\ d.kids[p] \in Seq(E)
    BY <1>0, <1>2, ParentKnown, ParentIs DEF OnePlaced
  <2> DEFINE s == d.kids[p]
             i == CHOOSE h \in DOMAIN s : s[h] = e
             r == RemoveAt(s, i)
  <2>2. i \in DOMAIN s /\ s[i] = e
    <3>1. \E h \in DOMAIN s : s[h] = e
      <4>1. p \in Elements(d) /\ OnePlaced(d) /\ Contains(d.kids[p], e)
        BY <1>0, <2>1
      <4> HIDE DEF p
      <4> QED
        BY <4>1, Placed
    <3> QED
      BY <3>1
  <2>3. c = [d EXCEPT !.kids[p] = r]
    BY <1>2, Zenon DEF Detach
  <2> HIDE DEF i
  <2>4. /\ r \in Seq(E)
        /\ \A k \in DOMAIN r : (IF k < i THEN k ELSE k + 1) \in DOMAIN s
                               /\ r[k] = s[IF k < i THEN k ELSE k + 1]
        /\ \A h \in DOMAIN s : h # i => \E k \in DOMAIN r : r[k] = s[h]
    BY <2>1, <2>2, RemovedAt
  <2>5. DOMAIN s \subseteq Int /\ DOMAIN r \subseteq Int
    BY <2>1, <2>4
  <2> HIDE DEF r, p
  <2>6. /\ d \in [kids : [E -> Seq(E)], decls : [E -> Seq(Name)], name : [E -> Name],
                  attrs : [E -> SUBSET Name]]
    BY DEF IsTree
  <2>7. /\ c \in [kids : [E -> Seq(E)], decls : [E -> Seq(Name)], name : [E -> Name],
                  attrs : [E -> SUBSET Name]]
        /\ c.decls = d.decls /\ c.name = d.name /\ c.attrs = d.attrs
        /\ c.kids[p] = r /\ \A a \in E : a # p => c.kids[a] = d.kids[a]
    <3> HIDE DEF c, E
    <3> QED
      BY <2>1, <2>3, <2>4, <2>6
  <2>8. Elements(c) = E
    BY <2>7 DEF Elements
  <2> HIDE DEF c
  <2> DEFINE at(a, k) == IF a = p THEN (IF k < i THEN k ELSE k + 1) ELSE k
  <2>9. ASSUME NEW a \in E, NEW k \in DOMAIN c.kids[a]
        PROVE  at(a, k) \in DOMAIN d.kids[a] /\ c.kids[a][k] = d.kids[a][at(a, k)]
    BY <2>4, <2>7
  <2>10. \A k, l \in DOMAIN r : at(p, k) = at(p, l) => k = l
    BY <2>2, <2>5
  <2>11. \A k \in DOMAIN r : at(p, k) # i
    BY <2>2, <2>5
  <2>12. OnePlaced(c)
    <3>1. ASSUME NEW a \in E, NEW b \in E, NEW k \in DOMAIN c.kids[a], NEW l \in DOMAIN c.kids[b],
                 c.kids[a][k] = c.kids[b][l]
          PROVE  a = b /\ k = l
      <4>1. a = b /\ at(a, k) = at(b, l)
        <5> HIDE DEF at
        <5> QED
          BY <1>0, <2>9, <3>1 DEF OnePlaced
      <4>2. CASE a = p
        BY <2>7, <2>10, <4>1, <4>2
      <4> QED
        BY <4>1, <4>2
    <3> QED
      BY <1>0, <2>7, <2>8, <3>1 DEF OnePlaced
  <2>13. ASSUME NEW a \in E, NEW x
         PROVE  Contains(c.kids[a], x) <=> Contains(d.kids[a], x) /\ ~(a = p /\ x = e)
    <3>1. CASE a # p
      BY <2>7, <3>1 DEF Contains
    <3>2. CASE a = p
      <4>1. ASSUME NEW k \in DOMAIN r, r[k] = e PROVE FALSE
        <5>1. at(p, k) \in DOMAIN s /\ s[at(p, k)] = e
          BY <2>4, <4>1
        <5>2. at(p, k) = i
          <6> HIDE DEF at
          <6> QED
            BY <1>0, <2>1, <2>2, <5>1 DEF OnePlaced
        <5> QED
          BY <2>11, <5>2
      <4>2. Contains(c.kids[p], x) <=> \E k \in DOMAIN r : r[k] = x
        <5>1. p \in Elements(c) /\ c.kids[p] = r
          BY <2>1, <2>7, <2>8
        <5>2. Contains(c.kids[p], x) <=> \E k \in DOMAIN c.kids[p] : c.kids[p][k] = x
          BY <2>12, <5>1, Placed
        <5> QED
          BY <5>1, <5>2
      <4>3. Contains(d.kids[a], x) <=> \E h \in DOMAIN s : s[h] = x
        BY <1>0, <3>2, Placed
      <4>4. (\E k \in DOMAIN r : r[k] = x) => x # e /\ \E h \in DOMAIN s : s[h] = x
        BY <2>4, <4>1
      <4>5. x # e /\ (\E h \in DOMAIN s : s[h] = x) => \E k \in DOMAIN r : r[k] = x
        BY <2>2, <2>4
      <4> QED
        BY <3>2, <4>2, <4>3, <4>4, <4>5
    <3> QED
      BY <3>1, <3>2
  <2>14. ASSUME NEW x
         PROVE  ParentOf(c, x) = IF x = e THEN NoElement ELSE ParentOf(d, x)
    <3>1. CASE x = e
      <4>1. \A a \in E : ~Contains(c.kids[a], e)
        BY <1>0, <2>13, ParentIs DEF p
      <4> QED
        BY <2>8, <3>1, <4>1 DEF ParentOf
    <3>2. CASE x # e
      <4>1. \A a \in E : Contains(c.kids[a], x) <=> Contains(d.kids[a], x)
        BY <2>13, <3>2
      <4> QED
        BY <1>0, <2>8, <2>12, <3>2, <4>1, SameParents
    <3> QED
      BY <3>1, <3>2
  <2>15. IsForest(c)
    <3>1. ASSUME NEW S \in (SUBSET E) \ {{}}
          PROVE  \E x \in S : ParentOf(c, x) \notin S
      <4>1. PICK x \in S : ParentOf(d, x) \notin S
        BY <1>0 DEF IsForest
      <4>2. ParentOf(c, x) \notin S
        BY <1>0, <2>14, <4>1
      <4> QED
        BY <4>2
    <3> QED
      BY <2>8, <2>12, <3>1 DEF IsForest, OnePlaced
  <2>16. IsTree(c)
    BY <2>7, <2>8, <2>15 DEF IsTree
  <2> QED
    BY <2>7, <2>8, <2>14, <2>16, Zenon DEF c
<1> QED
  BY <1>1, <1>2

(* An element with no parent joins the children of another.                *)
LEMMA AppendToIs ==
  ASSUME NEW d, IsTree(d), NEW e \in Elements(d), ParentOf(d, e) = NoElement,
         NEW parent \in Elements(d)
  PROVE  LET c == AppendTo(d, parent, e)
         IN  /\ OnePlaced(c) /\ Elements(c) = Elements(d)
             /\ c \in [kids : [Elements(c) -> Seq(Elements(c))], decls : [Elements(c) -> Seq(Name)],
                       name : [Elements(c) -> Name], attrs : [Elements(c) -> SUBSET Name]]
             /\ c.decls = d.decls /\ c.name = d.name /\ c.attrs = d.attrs
             /\ \A x : ParentOf(c, x) = IF x = e THEN parent ELSE ParentOf(d, x)
<1> DEFINE c == AppendTo(d, parent, e)
           E == Elements(d)
           s == d.kids[parent]
           r == Append(s, e)
<1>0. OnePlaced(d) /\ IsForest(d) /\ NoElement \notin E
  BY TreePlaced DEF OnePlaced
<1>1. s \in Seq(E)
  BY <1>0 DEF OnePlaced
<1>2. /\ r \in Seq(E) /\ Len(s) \in Nat /\ DOMAIN s = 1..Len(s) /\ DOMAIN r = 1..(Len(s) + 1)
      /\ \A k \in 1..Len(s) : r[k] = s[k]
      /\ r[Len(s) + 1] = e
  <2> HIDE DEF E, s
  <2> QED
    BY <1>1, Pushed DEF E
<1>3. /\ d \in [kids : [E -> Seq(E)], decls : [E -> Seq(Name)], name : [E -> Name],
                attrs : [E -> SUBSET Name]]
  BY DEF IsTree
<1>4. /\ c \in [kids : [E -> Seq(E)], decls : [E -> Seq(Name)], name : [E -> Name],
                attrs : [E -> SUBSET Name]]
      /\ c.decls = d.decls /\ c.name = d.name /\ c.attrs = d.attrs
      /\ c.kids[parent] = r /\ \A a \in E : a # parent => c.kids[a] = d.kids[a]
  <2>1. c = [d EXCEPT !.kids[parent] = r]
    BY DEF AppendTo
  <2>2. parent \in E
    OBVIOUS
  <2> HIDE DEF c, E, r
  <2> QED
    BY <1>2, <1>3, <2>1, <2>2
<1>5. Elements(c) = E
  BY <1>4 DEF Elements
<1> HIDE DEF c, r
<1>6. \A a \in E : \A k \in DOMAIN d.kids[a] : d.kids[a][k] # e
  <2>1. \A a \in E : ~Contains(d.kids[a], e)
    BY <1>0, ParentIs
  <2> QED
    BY <1>0, <2>1, Placed
<1>7. ASSUME NEW a \in E, NEW k \in DOMAIN c.kids[a]
      PROVE  \/ k \in DOMAIN d.kids[a] /\ c.kids[a][k] = d.kids[a][k]
             \/ a = parent /\ k = Len(s) + 1 /\ c.kids[a][k] = e
  <2>1. CASE a = parent
    <3>0. Len(s) \in Nat /\ k \in 1..(Len(s) + 1)
      BY <1>2, <1>4, <2>1
    <3> HIDE DEF s
    <3>1. k \in 1..Len(s) \/ k = Len(s) + 1
      BY <3>0
    <3> USE DEF s
    <3> QED
      BY <1>2, <1>4, <2>1, <3>1
  <2> QED
    BY <1>4, <2>1
<1>8. OnePlaced(c)
  <2>1. ASSUME NEW a \in E, NEW b \in E, NEW k \in DOMAIN c.kids[a], NEW l \in DOMAIN c.kids[b],
               c.kids[a][k] = c.kids[b][l]
        PROVE  a = b /\ k = l
    <3>1. CASE k \in DOMAIN d.kids[a] /\ c.kids[a][k] = d.kids[a][k]
      <4>1. l \in DOMAIN d.kids[b] /\ c.kids[b][l] = d.kids[b][l]
        BY <1>6, <1>7, <2>1, <3>1
      <4>2. a \in Elements(d) /\ b \in Elements(d) /\ d.kids[a][k] = d.kids[b][l]
        BY <2>1, <3>1, <4>1
      <4> HIDE DEF E, s
      <4> QED
        BY <1>0, <3>1, <4>1, <4>2 DEF OnePlaced
    <3>2. CASE a = parent /\ k = Len(s) + 1 /\ c.kids[a][k] = e
      BY <1>6, <1>7, <2>1, <3>2
    <3> QED
      BY <1>7, <3>1, <3>2
  <2> QED
    BY <1>0, <1>4, <1>5, <2>1 DEF OnePlaced
<1>9. ASSUME NEW a \in E, NEW x
      PROVE  Contains(c.kids[a], x) <=> Contains(d.kids[a], x) \/ (a = parent /\ x = e)
  <2>1. Contains(c.kids[a], x) <=> \E k \in DOMAIN c.kids[a] : c.kids[a][k] = x
    BY <1>5, <1>8, Placed
  <2>2. Contains(d.kids[a], x) <=> \E k \in DOMAIN d.kids[a] : d.kids[a][k] = x
    BY <1>0, Placed
  <2>3. ASSUME NEW k \in DOMAIN d.kids[a]
        PROVE  k \in DOMAIN c.kids[a] /\ c.kids[a][k] = d.kids[a][k]
    <3>1. CASE a = parent
      <4>1. k \in 1..Len(s) /\ k \in 1..(Len(s) + 1)
        BY <1>2, <3>1
      <4> QED
        BY <1>2, <1>4, <3>1, <4>1
    <3> QED
      BY <1>4, <3>1
  <2>4. Len(s) + 1 \in DOMAIN c.kids[parent] /\ c.kids[parent][Len(s) + 1] = e
    BY <1>2, <1>4
  <2> QED
    BY <1>7, <2>1, <2>2, <2>3, <2>4
<1>10. ASSUME NEW x
       PROVE  ParentOf(c, x) = IF x = e THEN parent ELSE ParentOf(d, x)
  <2>1. CASE x = e
    BY <1>5, <1>8, <1>9, <2>1, ParentIs
  <2>2. CASE x # e
    <3>1. \A a \in E : Contains(c.kids[a], x) <=> Contains(d.kids[a], x)
      BY <1>9, <2>2
    <3> QED
      BY <1>0, <1>5, <1>8, <2>2, <3>1, SameParents
  <2> QED
    BY <2>1, <2>2
<1> QED
  BY <1>4, <1>5, <1>8, <1>10, Zenon DEF c


(* Edits that leave the children alone leave the tree alone.               *)
LEMMA SameKids ==
  ASSUME NEW c, NEW d, OnePlaced(d), IsForest(d), c.kids = d.kids
  PROVE  /\ Elements(c) = Elements(d) /\ OnePlaced(c) /\ IsForest(c)
         /\ \A x : ParentOf(c, x) = ParentOf(d, x)
         /\ \A x \in Elements(d) : Line(c, x) = Line(d, x)
<1>1. Elements(c) = Elements(d)
  BY DEF Elements
<1>2. OnePlaced(c)
  BY <1>1 DEF OnePlaced
<1>3. ASSUME NEW x PROVE ParentOf(c, x) = ParentOf(d, x)
  BY <1>1, <1>2, SameParents
<1>4. IsForest(c)
  <2>1. ASSUME NEW S \in (SUBSET Elements(c)) \ {{}}
        PROVE  \E x \in S : ParentOf(c, x) \notin S
    BY <1>1, <1>3, <2>1 DEF IsForest
  <2> QED
    BY <1>2, <2>1 DEF IsForest, OnePlaced
<1>5. ASSUME NEW x \in Elements(d) PROVE Line(c, x) = Line(d, x)
  BY <1>1, <1>2, <1>3, <1>4, SameLines
<1> QED
  BY <1>1, <1>2, <1>3, <1>4, <1>5

-----------------------------------------------------------------------------
(* Declarations of one start tag.                                          *)

LEMMA Listed ==
  ASSUME NEW X, NEW t \in Seq(X), NEW x
  PROVE  /\ Contains(t, x) <=> \E i \in DOMAIN t : t[i] = x
         /\ x \in ToSet(t) <=> Contains(t, x)
         /\ Contains(t, x) => x \in X
         /\ DOMAIN t \subseteq Nat
         /\ \A i \in DOMAIN t : t[i] \in X
<1>1. DOMAIN t = 1..Len(t) /\ \A i \in DOMAIN t : t[i] \in X
  OBVIOUS
<1>2. Contains(t, x) <=> \E i \in DOMAIN t : t[i] = x
  BY <1>1 DEF Contains
<1>3. x \in ToSet(t) <=> \E i \in DOMAIN t : t[i] = x
  BY Ranged
<1> QED
  BY <1>1, <1>2, <1>3

LEMMA PairParts ==
  \A a, b : <<a, b>>[1] = a /\ <<a, b>>[2] = b
OBVIOUS

LEMMA PrefixListed ==
  ASSUME NEW t \in Seq(Name), NEW p
  PROVE  /\ HasPrefix(t, p) <=> \E u : Contains(t, <<p, u>>)
         /\ OncePerPrefix(t) => \A u : Contains(t, <<p, u>>) => Meaning(t, p) = u
         /\ HasPrefix(t, p) => Contains(t, <<p, Meaning(t, p)>>)
<1>1. \A i \in DOMAIN t : t[i] = <<t[i][1], t[i][2]>>
  <2>1. \A x \in Name : x = <<x[1], x[2]>>
    BY DEF Name
  <2>2. \A i \in DOMAIN t : t[i] \in Name
    BY Listed
  <2> QED
    BY <2>1, <2>2
<1>2. \A u : Contains(t, <<p, u>>) <=> \E i \in DOMAIN t : t[i] = <<p, u>>
  BY Listed
<1>3. HasPrefix(t, p) => \E u : Contains(t, <<p, u>>)
  BY <1>1, <1>2 DEF HasPrefix
<1>4. ASSUME NEW u, Contains(t, <<p, u>>)
      PROVE  HasPrefix(t, p) /\ (OncePerPrefix(t) => Meaning(t, p) = u)
  <2>1. PICK i \in DOMAIN t : t[i] = <<p, u>>
    BY <1>2, <1>4
  <2>2. t[i][1] = p /\ t[i][2] = u
    BY <2>1
  <2> DEFINE j == CHOOSE j \in DOMAIN t : t[j][1] = p
  <2>3. j \in DOMAIN t /\ t[j][1] = p
    BY <2>2
  <2>4. Meaning(t, p) = t[j][2]
    BY DEF Meaning
  <2>5. OncePerPrefix(t) => i = j
    BY <2>2, <2>3 DEF OncePerPrefix
  <2> QED
    BY <2>2, <2>4, <2>5 DEF HasPrefix
<1>5. ASSUME HasPrefix(t, p) PROVE Contains(t, <<p, Meaning(t, p)>>)
  <2> DEFINE j == CHOOSE j \in DOMAIN t : t[j][1] = p
  <2>1. j \in DOMAIN t /\ t[j][1] = p
    BY <1>5 DEF HasPrefix
  <2>2. Meaning(t, p) = t[j][2]
    BY DEF Meaning
  <2> QED
    BY <1>1, <1>2, <2>1, <2>2
<1> QED
  BY <1>3, <1>4, <1>5

LEMMA PutIs ==
  ASSUME NEW t \in Seq(Name), NEW q, NEW v, <<q, v>> \in Name
  PROVE  /\ Put(t, <<q, v>>) \in Seq(Name)
         /\ OncePerPrefix(t) => OncePerPrefix(Put(t, <<q, v>>))
         /\ \A p, u : Contains(Put(t, <<q, v>>), <<p, u>>)
                        <=> IF p = q THEN u = v ELSE Contains(t, <<p, u>>)
<1> DEFINE pair == <<q, v>>
           r == Put(t, pair)
           n == Len(t)
<1>0. pair \in Name /\ pair[1] = q /\ pair[2] = v
  BY DEF Name
<1>1. n \in Nat /\ DOMAIN t = 1..n /\ \A i \in 1..n : t[i] \in Name
  OBVIOUS
<1>2. \A i \in 1..n : t[i] = <<t[i][1], t[i][2]>>
  <2>1. \A x \in Name : x = <<x[1], x[2]>>
    BY DEF Name
  <2> QED
    BY <1>1, <2>1
<1>3. CASE HasPrefix(t, q)
  <2>1. r = [i \in DOMAIN t |-> IF t[i][1] = q THEN pair ELSE t[i]]
    BY <1>0, <1>3 DEF Put
  <2>2. PICK h \in 1..n : t[h][1] = q
    BY <1>1, <1>3 DEF HasPrefix
  <2> HIDE DEF n, r, pair
  <2>3. /\ r \in Seq(Name) /\ DOMAIN r = 1..n
        /\ \A i \in 1..n : t[i][1] = q => r[i] = pair
        /\ \A i \in 1..n : t[i][1] # q => r[i] = t[i]
    <3>1. \A i \in 1..n : (IF t[i][1] = q THEN pair ELSE t[i]) \in Name
      BY <1>0, <1>1
    <3>2. r = [i \in 1..n |-> IF t[i][1] = q THEN pair ELSE t[i]]
      BY <1>1, <2>1
    <3>3. r \in Seq(Name)
      <4>1. r = [i \in 1..n |-> r[i]] /\ \A i \in 1..n : r[i] \in Name
        BY <3>1, <3>2
      <4>2. n \in Nat
        BY <1>1
      <4> QED
        BY <4>1, <4>2
    <3> QED
      BY <3>2, <3>3
  <2>4. ASSUME NEW i \in 1..n PROVE r[i][1] = t[i][1]
    <3>1. t[i][1] = q => r[i] = pair
      BY <2>3
    <3>2. t[i][1] # q => r[i] = t[i]
      BY <2>3
    <3>3. pair[1] = q
      BY <1>0
    <3>4. CASE t[i][1] = q
      <4>1. r[i][1] = pair[1]
        BY <3>1, <3>4, Zenon
      <4> QED
        BY <3>3, <3>4, <4>1, Zenon
    <3>5. CASE t[i][1] # q
      BY <3>2, <3>5, Zenon
    <3> QED
      BY <3>4, <3>5, Zenon
  <2>5. OncePerPrefix(t) => OncePerPrefix(r)
    BY <1>1, <2>3, <2>4 DEF OncePerPrefix
  <2>6. ASSUME NEW p, NEW u
        PROVE  Contains(r, <<p, u>>) <=> IF p = q THEN u = v ELSE Contains(t, <<p, u>>)
    <3>1. Contains(r, <<p, u>>) <=> \E i \in 1..n : r[i] = <<p, u>>
      <4>1. r \in Seq(Name) /\ DOMAIN r = 1..n
        BY <2>3
      <4>2. Contains(r, <<p, u>>) <=> \E i \in DOMAIN r : r[i] = <<p, u>>
        BY <4>1, Listed
      <4> QED
        BY <4>1, <4>2
    <3>2. Contains(t, <<p, u>>) <=> \E i \in 1..n : t[i] = <<p, u>>
      BY <1>1, Listed
    <3>3. CASE p = q
      <4>1. u = v => r[h] = <<p, u>>
        BY <2>2, <2>3, <3>3 DEF pair
      <4>2. ASSUME NEW i \in 1..n, r[i] = <<p, u>> PROVE u = v
        <5>1. r[i][1] = p /\ r[i][2] = u
          BY <4>2
        <5>2. t[i][1] = q
          BY <2>4, <3>3, <5>1
        <5>3. r[i] = pair
          BY <2>3, <5>2
        <5> QED
          BY <1>0, <5>1, <5>3
      <4> QED
        BY <2>2, <3>1, <3>3, <4>1, <4>2
    <3>4. CASE p # q
      <4>1. ASSUME NEW i \in 1..n PROVE r[i] = <<p, u>> <=> t[i] = <<p, u>>
        <5>1. r[i] = <<p, u>> => r[i][1] = p
          OBVIOUS
        <5>2. t[i] = <<p, u>> => t[i][1] = p
          OBVIOUS
        <5>3. t[i][1] = p => r[i] = t[i]
          BY <2>3, <3>4
        <5> QED
          BY <2>4, <5>1, <5>2, <5>3
      <4> QED
        BY <3>1, <3>2, <3>4, <4>1
    <3> QED
      BY <3>3, <3>4
  <2> QED
    BY <2>3, <2>5, <2>6 DEF r, pair
<1>4. CASE ~HasPrefix(t, q)
  <2>1. r = Append(t, pair)
    BY <1>0, <1>4 DEF Put
  <2>2. \A i \in 1..n : t[i][1] # q
    BY <1>1, <1>4 DEF HasPrefix
  <2>3. /\ r \in Seq(Name) /\ DOMAIN r = 1..(n + 1)
        /\ \A i \in 1..n : r[i] = t[i]
        /\ r[n + 1] = pair
    <3>1. pair \in Name
      BY <1>0
    <3> HIDE DEF pair
    <3> QED
      BY <2>1, <3>1, Pushed
  <2> HIDE DEF n, r, pair
  <2>4. n + 1 \in 1..(n + 1) /\ (\A i \in 1..(n + 1) : i \in 1..n \/ i = n + 1)
        /\ \A i \in 1..n : i \in 1..(n + 1)
    BY <1>1
  <2>5. OncePerPrefix(t) => OncePerPrefix(r)
    <3> SUFFICES ASSUME OncePerPrefix(t), NEW i \in 1..(n + 1), NEW j \in 1..(n + 1), r[i][1] = r[j][1]
                 PROVE  i = j
      BY <2>3 DEF OncePerPrefix
    <3>1. CASE i \in 1..n /\ j \in 1..n
      BY <1>1, <2>3, <3>1 DEF OncePerPrefix
    <3> QED
      BY <1>0, <2>2, <2>3, <2>4, <3>1
  <2>6. ASSUME NEW p, NEW u
        PROVE  Contains(r, <<p, u>>) <=> IF p = q THEN u = v ELSE Contains(t, <<p, u>>)
    <3>1. Contains(r, <<p, u>>) <=> \E i \in 1..(n + 1) : r[i] = <<p, u>>
      <4>1. r \in Seq(Name) /\ DOMAIN r = 1..(n + 1)
        BY <2>3
      <4>2. Contains(r, <<p, u>>) <=> \E i \in DOMAIN r : r[i] = <<p, u>>
        BY <4>1, Listed
      <4> QED
        BY <4>1, <4>2
    <3>2. Contains(t, <<p, u>>) <=> \E i \in 1..n : t[i] = <<p, u>>
      BY <1>1, Listed
    <3>3. ASSUME NEW i \in 1..n, t[i] = <<p, u>> PROVE p # q
      <4>1. t[i][1] = p
        BY <3>3
      <4> QED
        BY <2>2, <4>1
    <3>4. pair = <<p, u>> <=> p = q /\ u = v
      BY DEF pair
    <3> QED
      BY <2>3, <2>4, <3>1, <3>2, <3>3, <3>4
  <2> QED
    BY <2>3, <2>5, <2>6 DEF r, pair
<1> QED
  BY <1>3, <1>4


-----------------------------------------------------------------------------
(* What the single edits do to a document.                                 *)

(* The part of IsDocument about one element.                               *)
WellNamed(d, e) ==
  /\ OncePerPrefix(d.decls[e])
  /\ \A pair \in ToSet(d.decls[e]) : Reserved(pair[1], pair[2])
  /\ \A name \in d.attrs[e] \cup {d.name[e]} :
       Reserved(name[1], name[2]) /\ (name[2] = "" => name[1] = "")
  /\ \A a, b \in d.attrs[e] : a[2] = b[2] => a = b

LEMMA DocumentIs ==
  ASSUME NEW d
  PROVE  IsDocument(d) <=> IsTree(d) /\ \A e \in Elements(d) : WellNamed(d, e)
BY DEF IsDocument, IsTree, WellNamed

LEMMA TreeTyped ==
  ASSUME NEW d, IsTree(d)
  PROVE  /\ d \in [kids : [Elements(d) -> Seq(Elements(d))], decls : [Elements(d) -> Seq(Name)],
                   name : [Elements(d) -> Name], attrs : [Elements(d) -> SUBSET Name]]
         /\ \A e \in Elements(d) : /\ d.decls[e] \in Seq(Name) /\ d.name[e] \in Name
                                   /\ d.attrs[e] \subseteq Name
BY DEF IsTree

(* Edits that leave the children alone leave a tree of the same types.     *)
LEMMA EditedTree ==
  ASSUME NEW d, IsTree(d), NEW c, c.kids = d.kids,
         c \in [kids : [Elements(d) -> Seq(Elements(d))], decls : [Elements(d) -> Seq(Name)],
                name : [Elements(d) -> Name], attrs : [Elements(d) -> SUBSET Name]]
  PROVE  /\ IsTree(c) /\ Elements(c) = Elements(d)
         /\ \A x \in Elements(d) : Line(c, x) = Line(d, x)
<1>1. OnePlaced(d) /\ IsForest(d)
  BY TreePlaced
<1>2. /\ Elements(c) = Elements(d) /\ IsForest(c)
      /\ \A x \in Elements(d) : Line(c, x) = Line(d, x)
  BY <1>1, SameKids
<1> QED
  BY <1>2 DEF IsTree

(* c is d with uri v declared for prefix q on e.                           *)
DeclaredOn(c, d, e, q, v) ==
  /\ IsTree(c) /\ Elements(c) = Elements(d)
  /\ c.kids = d.kids /\ c.name = d.name /\ c.attrs = d.attrs
  /\ c.decls[e] = Put(d.decls[e], <<q, v>>)
  /\ \A x \in Elements(d) : x # e => c.decls[x] = d.decls[x]
  /\ \A x \in Elements(d) : Line(c, x) = Line(d, x)

LEMMA DeclareIs ==
  ASSUME NEW d, IsTree(d), NEW e \in Elements(d), NEW q, NEW v, <<q, v>> \in Name
  PROVE  DeclaredOn(Declare(d, e, q, v), d, e, q, v)
<1> DEFINE c == Declare(d, e, q, v)
           E == Elements(d)
           r == Put(d.decls[e], <<q, v>>)
<1>1. /\ d \in [kids : [E -> Seq(E)], decls : [E -> Seq(Name)], name : [E -> Name],
                attrs : [E -> SUBSET Name]]
      /\ d.decls[e] \in Seq(Name)
  BY TreeTyped
<1>2. r \in Seq(Name)
  BY <1>1, PutIs
<1>3. c = [d EXCEPT !.decls[e] = r]
  BY DEF Declare
<1>4. e \in E
  OBVIOUS
<1> HIDE DEF r, c, E
<1>5. /\ c.kids = d.kids /\ c.name = d.name /\ c.attrs = d.attrs
      /\ c.decls[e] = r
      /\ \A x \in E : x # e => c.decls[x] = d.decls[x]
      /\ c \in [kids : [E -> Seq(E)], decls : [E -> Seq(Name)], name : [E -> Name],
                attrs : [E -> SUBSET Name]]
  BY <1>1, <1>2, <1>3, <1>4
<1>6. IsTree(c) /\ Elements(c) = E /\ \A x \in E : Line(c, x) = Line(d, x)
  BY <1>5, EditedTree DEF E
<1> QED
  BY <1>5, <1>6, Zenon DEF c, r, E, DeclaredOn

LEMMA DeclareKeeps ==
  ASSUME NEW d, IsDocument(d), NEW e \in Elements(d), NEW q, NEW v, <<q, v>> \in Name,
         Reserved(q, v)
  PROVE  IsDocument(Declare(d, e, q, v))
<1> DEFINE c == Declare(d, e, q, v)
           E == Elements(d)
<1>1. IsTree(d) /\ \A x \in E : WellNamed(d, x)
  BY DocumentIs
<1>2. /\ c.kids = d.kids /\ c.name = d.name /\ c.attrs = d.attrs
      /\ c.decls[e] = Put(d.decls[e], <<q, v>>)
      /\ \A x \in E : x # e => c.decls[x] = d.decls[x]
      /\ IsTree(c) /\ Elements(c) = E
  BY <1>1, DeclareIs DEF DeclaredOn
<1> HIDE DEF c
<1>3. d.decls[e] \in Seq(Name)
  BY <1>1, TreeTyped
<1>4. /\ c.decls[e] \in Seq(Name)
      /\ OncePerPrefix(d.decls[e]) => OncePerPrefix(c.decls[e])
      /\ \A p, u : Contains(c.decls[e], <<p, u>>) <=> IF p = q THEN u = v ELSE Contains(d.decls[e], <<p, u>>)
  <2> DEFINE s == d.decls[e]
             t == Put(s, <<q, v>>)
  <2>1. /\ t \in Seq(Name)
        /\ OncePerPrefix(s) => OncePerPrefix(t)
        /\ \A p, u : Contains(t, <<p, u>>) <=> IF p = q THEN u = v ELSE Contains(s, <<p, u>>)
    <3> HIDE DEF s
    <3> QED
      BY <1>3, PutIs DEF s
  <2>2. c.decls[e] = t
    BY <1>2
  <2> QED
    BY <2>1, <2>2, Zenon
<1>5. \A pair \in ToSet(c.decls[e]) : Reserved(pair[1], pair[2])
  <2> SUFFICES ASSUME NEW pair \in ToSet(c.decls[e]) PROVE Reserved(pair[1], pair[2])
    OBVIOUS
  <2>1. pair \in Name /\ Contains(c.decls[e], pair)
    BY <1>4, Listed
  <2>2. pair = <<pair[1], pair[2]>>
    BY <2>1 DEF Name
  <2>3. Contains(c.decls[e], <<pair[1], pair[2]>>)
    BY <2>1, <2>2, Zenon
  <2>4. pair[1] = q => pair[2] = v
    BY <1>4, <2>3
  <2>5. pair[1] # q => Contains(d.decls[e], <<pair[1], pair[2]>>)
    BY <1>4, <2>3
  <2>6. CASE pair[1] = q
    BY <2>4, <2>6
  <2>7. CASE pair[1] # q
    <3>1. Contains(d.decls[e], pair)
      BY <2>2, <2>5, <2>7, Zenon
    <3>2. pair \in ToSet(d.decls[e])
      BY <1>3, <3>1, Listed
    <3> QED
      BY <1>1, <3>2 DEF WellNamed
  <2> QED
    BY <2>6, <2>7
<1>6. WellNamed(c, e)
  BY <1>1, <1>2, <1>4, <1>5, Zenon DEF WellNamed
<1>7. \A x \in E : x # e => WellNamed(c, x)
  BY <1>1, <1>2, Zenon DEF WellNamed
<1>8. IsDocument(c)
  BY <1>2, <1>6, <1>7, DocumentIs
<1> QED
  BY <1>8 DEF c

(* A name that can be written down.                                        *)
Written(prefix, ns) == Reserved(prefix, ns) /\ (ns = "" => prefix = "")

LEMMA NameKeeps ==
  ASSUME NEW d, IsDocument(d), NEW e \in Elements(d), NEW q, NEW v, <<q, v>> \in Name,
         Written(q, v)
  PROVE  LET c == [d EXCEPT !.name[e] = <<q, v>>]
         IN  /\ IsDocument(c) /\ Elements(c) = Elements(d)
             /\ c.kids = d.kids /\ c.decls = d.decls /\ c.name[e] = <<q, v>>
             /\ \A x \in Elements(d) : Line(c, x) = Line(d, x)
<1> DEFINE c == [d EXCEPT !.name[e] = <<q, v>>]
           E == Elements(d)
<1>1. IsTree(d) /\ \A x \in E : WellNamed(d, x)
  BY DocumentIs
<1>2. d \in [kids : [E -> Seq(E)], decls : [E -> Seq(Name)], name : [E -> Name],
             attrs : [E -> SUBSET Name]]
  BY <1>1, TreeTyped
<1>3. e \in E
  OBVIOUS
<1> HIDE DEF E
<1>4. /\ c.kids = d.kids /\ c.decls = d.decls /\ c.attrs = d.attrs
      /\ c.name[e] = <<q, v>>
      /\ \A x \in E : x # e => c.name[x] = d.name[x]
      /\ c \in [kids : [E -> Seq(E)], decls : [E -> Seq(Name)], name : [E -> Name],
                attrs : [E -> SUBSET Name]]
  BY <1>2, <1>3
<1> HIDE DEF c
<1>5. IsTree(c) /\ Elements(c) = E /\ \A x \in E : Line(c, x) = Line(d, x)
  BY <1>1, <1>4, EditedTree DEF E
<1>6. \A x \in E : x # e => WellNamed(c, x)
  BY <1>1, <1>4, Zenon DEF WellNamed
<1>7. WellNamed(c, e)
  <2>1. \A name \in c.attrs[e] \cup {c.name[e]} :
          Reserved(name[1], name[2]) /\ (name[2] = "" => name[1] = "")
    <3>1. WellNamed(d, e)
      BY <1>1, <1>3
    <3>2. c.name[e][1] = q /\ c.name[e][2] = v
      <4>1. c.name[e] = <<q, v>>
        BY <1>4
      <4> QED
        <5>1. <<q, v>>[1] = q /\ <<q, v>>[2] = v
          BY PairParts, Zenon
        <5> QED
          BY <4>1, <5>1, Zenon
    <3>3. \A name \in d.attrs[e] : Reserved(name[1], name[2]) /\ (name[2] = "" => name[1] = "")
      BY <3>1 DEF WellNamed
    <3>4. Reserved(c.name[e][1], c.name[e][2]) /\ (c.name[e][2] = "" => c.name[e][1] = "")
      BY <3>2, Zenon DEF Written
    <3> QED
      BY <1>4, <3>3, <3>4, Zenon
  <2> QED
    BY <1>1, <1>3, <1>4, <2>1, Zenon DEF WellNamed
<1>8. IsDocument(c)
  BY <1>5, <1>6, <1>7, DocumentIs
<1> QED
  BY <1>4, <1>5, <1>8, Zenon DEF c, E

LEMMA AttributesKeep ==
  ASSUME NEW d, IsDocument(d), NEW e \in Elements(d), NEW attrs \in SUBSET Name,
         \A a \in attrs : Reserved(a[1], a[2]) /\ (a[2] = "" => a[1] = ""),
         \A a, b \in attrs : a[2] = b[2] => a = b
  PROVE  LET c == [d EXCEPT !.attrs[e] = attrs]
         IN  /\ IsDocument(c) /\ Elements(c) = Elements(d)
             /\ c.kids = d.kids /\ c.decls = d.decls /\ c.name = d.name
             /\ \A x \in Elements(d) : Line(c, x) = Line(d, x)
<1> DEFINE c == [d EXCEPT !.attrs[e] = attrs]
           E == Elements(d)
<1>1. IsTree(d) /\ \A x \in E : WellNamed(d, x)
  BY DocumentIs
<1>2. d \in [kids : [E -> Seq(E)], decls : [E -> Seq(Name)], name : [E -> Name],
             attrs : [E -> SUBSET Name]]
  BY <1>1, TreeTyped
<1>3. e \in E
  OBVIOUS
<1> HIDE DEF E
<1>4. /\ c.kids = d.kids /\ c.decls = d.decls /\ c.name = d.name
      /\ c.attrs[e] = attrs
      /\ \A x \in E : x # e => c.attrs[x] = d.attrs[x]
      /\ c \in [kids : [E -> Seq(E)], decls : [E -> Seq(Name)], name : [E -> Name],
                attrs : [E -> SUBSET Name]]
  BY <1>2, <1>3
<1> HIDE DEF c
<1>5. IsTree(c) /\ Elements(c) = E /\ \A x \in E : Line(c, x) = Line(d, x)
  <2>1. c.kids = d.kids
    BY <1>4
  <2>2. c \in [kids : [Elements(d) -> Seq(Elements(d))], decls : [Elements(d) -> Seq(Name)],
               name : [Elements(d) -> Name], attrs : [Elements(d) -> SUBSET Name]]
    BY <1>4 DEF E
  <2> QED
    BY <1>1, <2>1, <2>2, EditedTree, Zenon DEF E
<1>6. \A x \in E : x # e => WellNamed(c, x)
  BY <1>1, <1>4, Zenon DEF WellNamed
<1>7. WellNamed(c, e)
  <2>1. WellNamed(d, e)
    BY <1>1, <1>3
  <2>2. \A name \in c.attrs[e] \cup {c.name[e]} :
          Reserved(name[1], name[2]) /\ (name[2] = "" => name[1] = "")
    BY <1>4, <2>1, Zenon DEF WellNamed
  <2> QED
    BY <1>4, <2>1, <2>2, Zenon DEF WellNamed
<1>8. IsDocument(c)
  BY <1>5, <1>6, <1>7, DocumentIs
<1> QED
  BY <1>4, <1>5, <1>8, Zenon DEF c, E


-----------------------------------------------------------------------------
(* The declarations an element sees, nearest element first.                *)

(* Entry k of t is declared by element g[k] of the line.                   *)
Along(d, line, t, g) ==
  /\ g \in [DOMAIN t -> DOMAIN line]
  /\ \A k \in DOMAIN t : Contains(d.decls[line[g[k]]], t[k])
  /\ \A k, l \in DOMAIN t : k <= l => g[k] <= g[l]
  /\ \A i \in DOMAIN line : \A x :
       Contains(d.decls[line[i]], x) => \E k \in DOMAIN t : g[k] = i /\ t[k] = x

LEMMA AlongIs ==
  ASSUME NEW d, IsTree(d), NEW line \in Seq(Elements(d))
  PROVE  DeclsAlong(d, line) \in Seq(Name) /\ \E g : Along(d, line, DeclsAlong(d, line), g)
<1> DEFINE ss == [i \in DOMAIN line |-> d.decls[line[i]]]
           t == FlattenSeq(ss)
<1>1. \A i \in DOMAIN line : line[i] \in Elements(d) /\ d.decls[line[i]] \in Seq(Name)
  BY TreeTyped
<1>2. DOMAIN line = 1..Len(line) /\ Len(line) \in Nat
  OBVIOUS
<1>3. ss \in Seq(Seq(Name)) /\ DOMAIN ss = DOMAIN line
      /\ \A i \in DOMAIN line : ss[i] = d.decls[line[i]]
  BY <1>1, <1>2
<1>4. DeclsAlong(d, line) = t
  BY DEF DeclsAlong
<1> HIDE DEF ss
<1>5. t \in Seq(Name) /\ \E g : Flattened(ss, t, g)
  BY <1>3, FlattenIs
<1>6. PICK g : Flattened(ss, t, g)
  BY <1>5
<1> HIDE DEF t
<1>7. g \in [DOMAIN t -> DOMAIN line] /\ \A k, l \in DOMAIN t : k <= l => g[k] <= g[l]
  BY <1>3, <1>6 DEF Flattened
<1>8. ASSUME NEW k \in DOMAIN t PROVE Contains(d.decls[line[g[k]]], t[k])
  <2>1. g[k] \in DOMAIN line
    BY <1>7
  <2>2. PICK j \in DOMAIN ss[g[k]] : t[k] = ss[g[k]][j]
    BY <1>6 DEF Flattened
  <2> QED
    BY <1>1, <1>3, <2>1, <2>2, Listed
<1>9. ASSUME NEW i \in DOMAIN line, NEW x, Contains(d.decls[line[i]], x)
      PROVE  \E k \in DOMAIN t : g[k] = i /\ t[k] = x
  <2>1. PICK j \in DOMAIN d.decls[line[i]] : d.decls[line[i]][j] = x
    BY <1>1, <1>9, Listed
  <2>2. \E k \in DOMAIN t : g[k] = i /\ t[k] = ss[i][j]
    BY <1>3, <1>6, <2>1 DEF Flattened
  <2> QED
    BY <1>3, <2>1, <2>2
<1>10. Along(d, line, t, g)
  BY <1>7, <1>8, <1>9 DEF Along
<1> QED
  BY <1>4, <1>5, <1>10

LEMMA LineTyped ==
  ASSUME NEW d, IsTree(d), NEW e \in Elements(d)
  PROVE  /\ Line(d, e) \in Seq(Elements(d)) /\ Len(Line(d, e)) \in Nat /\ Len(Line(d, e)) > 0
         /\ DOMAIN Line(d, e) = 1..Len(Line(d, e)) /\ Line(d, e)[1] = e
         /\ \A i \in DOMAIN Line(d, e) :
              Line(d, e)[i] \in Elements(d) /\ d.decls[Line(d, e)[i]] \in Seq(Name)
<1>1. LeadsUp(d, e, Line(d, e))
  BY TreePlaced, LineIs
<1> DEFINE s == Line(d, e)
<1>2. s \in Seq(Elements(d)) /\ Len(s) > 0 /\ s[1] = e
  BY <1>1 DEF LeadsUp
<1> HIDE DEF s
<1>3. Len(s) \in Nat /\ DOMAIN s = 1..Len(s) /\ \A i \in DOMAIN s : s[i] \in Elements(d)
  BY <1>2
<1>4. \A i \in DOMAIN s : d.decls[s[i]] \in Seq(Name)
  BY <1>3, TreeTyped
<1> QED
  BY <1>2, <1>3, <1>4 DEF s

LEMMA SeenIs ==
  ASSUME NEW d, IsTree(d), NEW e \in Elements(d)
  PROVE  LET t == DeclsAlong(d, Line(d, e))
         IN  /\ t \in Seq(Name)
             /\ \E g : Along(d, Line(d, e), t, g)
             /\ \A x : Contains(t, x) <=> \E i \in DOMAIN Line(d, e) : Contains(d.decls[Line(d, e)[i]], x)
<1> DEFINE line == Line(d, e)
           t == DeclsAlong(d, line)
<1>1. line \in Seq(Elements(d))
  BY LineTyped
<1> HIDE DEF line
<1>2. t \in Seq(Name) /\ \E g : Along(d, line, t, g)
  BY <1>1, AlongIs
<1>3. PICK g : Along(d, line, t, g)
  BY <1>2
<1> HIDE DEF t
<1>4. ASSUME NEW x
      PROVE  Contains(t, x) <=> \E i \in DOMAIN line : Contains(d.decls[line[i]], x)
  <2>1. Contains(t, x) <=> \E k \in DOMAIN t : t[k] = x
    BY <1>2, Listed
  <2>2. ASSUME NEW k \in DOMAIN t, t[k] = x
        PROVE  \E i \in DOMAIN line : Contains(d.decls[line[i]], x)
    BY <1>3, <2>2 DEF Along
  <2>3. ASSUME NEW i \in DOMAIN line, Contains(d.decls[line[i]], x)
        PROVE  \E k \in DOMAIN t : t[k] = x
    BY <1>3, <2>3 DEF Along
  <2> QED
    BY <2>1, <2>2, <2>3
<1> QED
  BY <1>2, <1>4 DEF line, t

(* Whatever an element sees can be written down.                           *)
LEMMA SeenReserved ==
  ASSUME NEW d, IsDocument(d), NEW e \in Elements(d), NEW x,
         Contains(DeclsAlong(d, Line(d, e)), x)
  PROVE  x \in Name /\ Reserved(x[1], x[2])
<1>1. IsTree(d) /\ \A y \in Elements(d) : WellNamed(d, y)
  BY DocumentIs
<1>2. PICK i \in DOMAIN Line(d, e) : Contains(d.decls[Line(d, e)[i]], x)
  BY <1>1, SeenIs
<1>3. Line(d, e)[i] \in Elements(d) /\ d.decls[Line(d, e)[i]] \in Seq(Name)
  BY <1>1, LineTyped
<1>4. x \in ToSet(d.decls[Line(d, e)[i]]) /\ x \in Name
  BY <1>2, <1>3, Listed
<1> QED
  BY <1>1, <1>3, <1>4 DEF WellNamed


-----------------------------------------------------------------------------
(* dict(pairs): every prefix once, with the last uri it is given.          *)

(* f runs through t, putting every pair into what was there before.        *)
PutsFrom(f, t) ==
  /\ f \in [0..Len(t) -> Seq(Name)] /\ f[0] = <<>>
  /\ \A i \in 1..Len(t) : f[i] = Put(f[i - 1], t[i])
  /\ f[Len(t)] = AsDict(t)

LEMMA PutTyped ==
  ASSUME NEW t \in Seq(Name), NEW pair \in Name
  PROVE  Put(t, pair) \in Seq(Name)
<1> DEFINE q == pair[1]
           v == pair[2]
<1>1. pair = <<q, v>> /\ <<q, v>> \in Name
  BY DEF Name
<1> HIDE DEF q, v
<1>2. Put(t, <<q, v>>) \in Seq(Name)
  BY <1>1, PutIs
<1> QED
  BY <1>1, <1>2, Zenon

LEMMA PutsRun ==
  ASSUME NEW t \in Seq(Name)
  PROVE  \E f : PutsFrom(f, t)
<1> DEFINE n == Len(t)
           X == Seq(Name)
           step == [i \in 1..n |-> [a \in X |-> Put(a, t[i])]]
           Is(it) == it = [T \in SUBSET DOMAIN t |->
                             IF T = {} THEN <<>> ELSE Put(it[T \ {Max(T)}], t[Max(T)])]
           iter == CHOOSE it : Is(it)
<1>1. n \in Nat /\ DOMAIN t = 1..n /\ \A i \in 1..n : t[i] \in Name
  OBVIOUS
<1>2. AsDict(t) = iter[DOMAIN t]
  BY DEF AsDict, FoldLeft, MapThenFoldSet
<1>3. <<>> \in X
  OBVIOUS
<1>4. ASSUME NEW a \in X, NEW i \in 1..n PROVE Put(a, t[i]) \in X
  BY <1>1, PutTyped
<1> HIDE DEF n, X
<1>5. /\ step \in [1..n -> [X -> X]]
      /\ \A i \in 1..n, a \in X : step[i][a] = Put(a, t[i])
  BY <1>4
<1> HIDE DEF step
<1>6. PICK F : Folding(F, X, n, <<>>, step)
  BY <1>1, <1>3, <1>5, FoldExists
<1>7. Is(F)
  <2>1. /\ F \in [SUBSET (1..n) -> X] /\ F[{}] = <<>>
        /\ \A T \in SUBSET (1..n) : T # {} => F[T] = step[Max(T)][F[T \ {Max(T)}]]
    BY <1>6 DEF Folding
  <2>2. \A T \in SUBSET (1..n) : T # {} => F[T] = Put(F[T \ {Max(T)}], t[Max(T)])
    BY <1>1, <1>5, <2>1, LastPlace
  <2> QED
    BY <1>1, <2>1, <2>2
<1>8. Is(iter)
  BY <1>7
<1> HIDE DEF iter
<1>9. /\ iter[{}] = <<>>
      /\ \A T \in SUBSET (1..n) : T # {} => iter[T] = Put(iter[T \ {Max(T)}], t[Max(T)])
  BY <1>1, <1>8
<1>10. Unfolds(iter, X, n, <<>>, step)
  BY <1>1, <1>5, <1>9, LastPlace DEF Unfolds
<1> DEFINE f == ValuesOf(iter, n)
<1>11. Loop(f, X, n, <<>>, step)
  BY <1>1, <1>3, <1>5, <1>10, FoldIsLoop
<1>12. f[n] = iter[1..n]
  BY <1>1 DEF ValuesOf
<1> HIDE DEF f
<1>13. f \in [0..n -> X] /\ f[0] = <<>> /\ \A i \in 1..n : f[i] = step[i][f[i - 1]]
  BY <1>11 DEF Loop
<1>14. ASSUME NEW i \in 1..n PROVE f[i] = Put(f[i - 1], t[i])
  <2>1. i - 1 \in 0..n
    BY <1>1
  <2> QED
    BY <1>5, <1>13, <2>1
<1>15. PutsFrom(f, t)
  BY <1>1, <1>2, <1>12, <1>13, <1>14 DEF PutsFrom, n, X
<1> QED
  BY <1>15


(* Of the first m pairs of t, the last one with prefix p gives it uri u.   *)
LastOf(t, m, p, u) ==
  \E k \in 1..m : t[k] = <<p, u>> /\ \A j \in (k + 1)..m : t[j][1] # p

LEMMA AsDictIs ==
  ASSUME NEW t \in Seq(Name)
  PROVE  /\ AsDict(t) \in Seq(Name) /\ OncePerPrefix(AsDict(t))
         /\ \A p, u : Contains(AsDict(t), <<p, u>>) <=> LastOf(t, Len(t), p, u)
<1> DEFINE n == Len(t)
<1>1. n \in Nat /\ DOMAIN t = 1..n /\ \A i \in 1..n : t[i] \in Name
  OBVIOUS
<1>2. PICK f : PutsFrom(f, t)
  BY PutsRun
<1>3. /\ f \in [0..n -> Seq(Name)] /\ f[0] = <<>>
      /\ \A i \in 1..n : f[i] = Put(f[i - 1], t[i])
      /\ f[n] = AsDict(t)
  BY <1>2 DEF PutsFrom
<1> HIDE DEF n
<1> DEFINE Right(i) == OncePerPrefix(f[i])
                       /\ \A p, u : Contains(f[i], <<p, u>>) <=> LastOf(t, i, p, u)
           G == {i \in 0..n : Right(i)}
<1>4. 0 \in G
  <2>1. f[0] = <<>> /\ DOMAIN <<>> = {} /\ <<>> \in Seq(Name)
    BY <1>3
  <2>2. OncePerPrefix(<<>>)
    BY <2>1 DEF OncePerPrefix
  <2>3. \A p, u : ~Contains(<<>>, <<p, u>>)
    BY <2>1, Listed
  <2>4. \A p, u : ~LastOf(t, 0, p, u)
    BY DEF LastOf
  <2>5. 0 \in 0..n
    BY <1>1
  <2> QED
    BY <2>1, <2>2, <2>3, <2>4, <2>5
<1>5. ASSUME NEW i \in 1..n, i - 1 \in G PROVE i \in G
  <2>0. n \in Nat /\ i \in Int /\ 1 <= i /\ i <= n
    BY <1>1
  <2> DEFINE h == i - 1
             q == t[i][1]
             v == t[i][2]
             a == f[h]
  <2>1. h \in 0..n /\ Right(h) /\ a \in Seq(Name) /\ f[i] = Put(a, t[i])
    BY <1>3, <1>5
  <2>2. t[i] \in Name
    BY <1>1
  <2>3. t[i] = <<q, v>> /\ <<q, v>> \in Name
    BY <2>2 DEF Name
  <2>4. h \in Int /\ h + 1 = i /\ (\A k \in 1..i : k \in 1..h \/ k = i)
        /\ (\A k \in 1..h : k \in 1..i /\ k + 1 \in Int)
    BY <2>0
  <2> HIDE DEF h, q, v
  <2> DEFINE b == Put(a, <<q, v>>)
  <2>5. f[i] = b
    BY <2>1, <2>3, Zenon
  <2>6. /\ OncePerPrefix(a) => OncePerPrefix(b)
        /\ \A p, u : Contains(b, <<p, u>>) <=> IF p = q THEN u = v ELSE Contains(a, <<p, u>>)
    <3> HIDE DEF a
    <3> QED
      BY <2>1, <2>3, PutIs DEF a
  <2> HIDE DEF a, b
  <2>7. ASSUME NEW p, NEW u
        PROVE  Contains(b, <<p, u>>) <=> LastOf(t, i, p, u)
    <3>1. CASE p = q
      <4>1. u = v => LastOf(t, i, p, u)
        <5>1. i \in 1..i /\ (i + 1)..i = {}
          BY <2>0
        <5> SUFFICES ASSUME u = v PROVE LastOf(t, i, p, u)
          OBVIOUS
        <5>2. t[i] = <<p, u>>
          BY <2>3, <3>1
        <5> QED
          BY <5>1, <5>2 DEF LastOf
      <4>2. ASSUME LastOf(t, i, p, u) PROVE u = v
        <5>1. PICK k \in 1..i : t[k] = <<p, u>> /\ \A j \in (k + 1)..i : t[j][1] # p
          BY <4>2 DEF LastOf
        <5>2. k = i
          <6> SUFFICES ASSUME k # i PROVE FALSE
            OBVIOUS
          <6>1. i \in (k + 1)..i
            BY <2>0
          <6>2. t[i][1] = p
            BY <3>1 DEF q
          <6> QED
            BY <5>1, <6>1, <6>2
        <5>3. <<p, u>> = <<q, v>>
          BY <2>3, <5>1, <5>2
        <5> QED
          BY <5>3
      <4> QED
        BY <2>6, <3>1, <4>1, <4>2
    <3>2. CASE p # q
      <4>1. Contains(b, <<p, u>>) <=> LastOf(t, h, p, u)
        <5>1. Contains(b, <<p, u>>) <=> Contains(a, <<p, u>>)
          BY <2>6, <3>2
        <5>2. Contains(f[h], <<p, u>>) <=> LastOf(t, h, p, u)
          BY <2>1
        <5> QED
          BY <5>1, <5>2 DEF a
      <4>2. ASSUME NEW k \in 1..h, t[k] = <<p, u>>, \A j \in (k + 1)..h : t[j][1] # p
            PROVE  LastOf(t, i, p, u)
        <5>1. k \in 1..i
          BY <2>4
        <5>2. ASSUME NEW j \in (k + 1)..i PROVE t[j][1] # p
          <6>1. CASE j = i
            BY <3>2, <6>1 DEF q
          <6>2. CASE j # i
            <7>1. j \in (k + 1)..h
              BY <2>0, <2>4, <6>2
            <7> QED
              BY <4>2, <7>1
          <6> QED
            BY <6>1, <6>2
        <5> QED
          BY <4>2, <5>1, <5>2 DEF LastOf
      <4>3. ASSUME NEW k \in 1..i, t[k] = <<p, u>>, \A j \in (k + 1)..i : t[j][1] # p
            PROVE  LastOf(t, h, p, u)
        <5>1. k # i
          <6> SUFFICES ASSUME k = i PROVE FALSE
            OBVIOUS
          <6>1. <<p, u>> = <<q, v>>
            BY <2>3, <4>3
          <6> QED
            BY <3>2, <6>1
        <5>2. k \in 1..h
          BY <2>4, <5>1
        <5>3. \A j \in (k + 1)..h : j \in (k + 1)..i
          BY <2>0, <2>4
        <5>4. \A j \in (k + 1)..h : t[j][1] # p
          BY <4>3, <5>3
        <5> QED
          BY <4>3, <5>2, <5>4 DEF LastOf
      <4>4. LastOf(t, h, p, u) => LastOf(t, i, p, u)
        BY <4>2 DEF LastOf
      <4>5. LastOf(t, i, p, u) => LastOf(t, h, p, u)
        BY <4>3 DEF LastOf
      <4> QED
        BY <4>1, <4>4, <4>5
    <3> QED
      BY <3>1, <3>2
  <2>8. Right(i)
    <3>1. OncePerPrefix(b)
      BY <2>1, <2>6 DEF a
    <3> QED
      BY <2>5, <2>7, <3>1, Zenon
  <2>9. i \in 0..n
    BY <2>0
  <2> QED
    BY <2>8, <2>9
<1>6. n \in G
  <2>1. 0..n \subseteq G
    <3> HIDE DEF G
    <3> QED
      BY <1>1, <1>4, <1>5, Induction
  <2>2. n \in 0..n
    BY <1>1
  <2> HIDE DEF G
  <2> QED
    BY <2>1, <2>2
<1>7. f[n] \in Seq(Name)
  BY <1>1, <1>3
<1>8. Right(n)
  BY <1>6
<1> QED
  BY <1>3, <1>7, <1>8, Zenon DEF n


-----------------------------------------------------------------------------
(* Choosing a prefix.                                                      *)

LEMMA InscopeIs ==
  ASSUME NEW d, IsTree(d), NEW e \in Elements(d), NEW p
  PROVE  p \in Inscope(d, e) <=> \E i \in DOMAIN Line(d, e) : HasPrefix(d.decls[Line(d, e)[i]], p)
<1> DEFINE t == DeclsAlong(d, Line(d, e))
           line == Line(d, e)
<1>1. t \in Seq(Name) /\ \A x : Contains(t, x) <=> \E i \in DOMAIN line : Contains(d.decls[line[i]], x)
  BY SeenIs
<1>2. \A i \in DOMAIN line : d.decls[line[i]] \in Seq(Name)
  BY LineTyped
<1>3. p \in Inscope(d, e) <=> \E x \in ToSet(t) : x[1] = p
  BY DEF Inscope
<1> HIDE DEF t, line
<1>4. ASSUME NEW x \in ToSet(t), x[1] = p PROVE \E i \in DOMAIN line : HasPrefix(d.decls[line[i]], p)
  <2>1. Contains(t, x)
    BY <1>1, Listed
  <2>2. PICK i \in DOMAIN line : Contains(d.decls[line[i]], x)
    BY <1>1, <2>1
  <2>3. \E j \in DOMAIN d.decls[line[i]] : d.decls[line[i]][j] = x
    BY <1>2, <2>2, Listed
  <2> QED
    BY <1>4, <2>3 DEF HasPrefix
<1>5. ASSUME NEW i \in DOMAIN line, HasPrefix(d.decls[line[i]], p) PROVE \E x \in ToSet(t) : x[1] = p
  <2>1. PICK j \in DOMAIN d.decls[line[i]] : d.decls[line[i]][j][1] = p
    BY <1>5 DEF HasPrefix
  <2>2. Contains(d.decls[line[i]], d.decls[line[i]][j])
    BY <1>2, Listed
  <2>3. Contains(t, d.decls[line[i]][j])
    BY <1>1, <2>2
  <2> QED
    BY <1>1, <2>1, <2>3, Listed
<1> QED
  BY <1>3, <1>4, <1>5 DEF line

LEMMA GeneratedAre ==
  /\ DOMAIN Generated = 1..Len(Generated) /\ Len(Generated) \in Nat
  /\ \A i \in DOMAIN Generated : Generated[i] \in Strings \ {"", "xml", "xmlns"}
<1>1. Generated \in Seq(Strings \ {"", "xml", "xmlns"})
  BY NamespacesAssumption, Zenon
<1> DEFINE X == Strings \ {"", "xml", "xmlns"}
<1>2. Generated \in Seq(X)
  BY <1>1
<1> HIDE DEF X
<1>3. /\ DOMAIN Generated = 1..Len(Generated) /\ Len(Generated) \in Nat
      /\ \A i \in DOMAIN Generated : Generated[i] \in X
  BY <1>2
<1> QED
  BY <1>3 DEF X

LEMMA UriTyped ==
  ASSUME NEW ns \in Uris
  PROVE  ns \in Strings /\ ns \in DOMAIN Registry /\ Registry[ns] \in Strings \ {"xmlns"}
BY NamespacesAssumption, Zenon

LEMMA NewPrefixIs ==
  ASSUME NEW d, NEW e, NEW n \in Nat, NumbersLeft(d, e, n)
  PROVE  /\ NewPrefix(d, e, n) \in DOMAIN Generated
         /\ NewPrefix(d, e, n) \in 0..Len(Generated)
         /\ Generated[NewPrefix(d, e, n)] \notin Inscope(d, e)
         /\ Generated[NewPrefix(d, e, n)] \in Strings \ {"", "xml", "xmlns"}
<1> DEFINE G == DOMAIN Generated
           S == {i \in G : i > n /\ Generated[i] \notin Inscope(d, e)}
           P(i) == /\ i > n /\ Generated[i] \notin Inscope(d, e)
                   /\ \A j \in n + 1 .. i - 1 : Generated[j] \in Inscope(d, e)
<1>1. G = 1..Len(Generated) /\ Len(Generated) \in Nat
  BY GeneratedAre
<1>2. S \in SUBSET Nat /\ S # {}
  <2>1. \E i \in G : i > n /\ Generated[i] \notin Inscope(d, e)
    BY DEF NumbersLeft
  <2>2. G \in SUBSET Nat
    BY <1>1
  <2> HIDE DEF G
  <2> QED
    BY <2>1, <2>2
<1>3. PICK i \in S : \A j \in S : i <= j
  BY <1>2, LeastNumber
<1>4. i \in G /\ i > n /\ Generated[i] \notin Inscope(d, e)
  BY <1>3
<1>5. ASSUME NEW j \in n + 1 .. i - 1 PROVE Generated[j] \in Inscope(d, e)
  <2>0. i \in 1..Len(Generated) /\ i > n /\ Len(Generated) \in Nat
    BY <1>1, <1>4
  <2>1. j \in 1..Len(Generated) /\ j > n /\ ~(i <= j)
    BY <2>0
  <2>2. j \notin S
    BY <1>3, <2>1
  <2> QED
    BY <1>1, <2>1, <2>2
<1>6. P(i)
  BY <1>4, <1>5
<1> DEFINE m == CHOOSE k \in G : P(k)
<1>7. m \in G /\ P(m)
  <2> HIDE DEF G, P
  <2> QED
    BY <1>4, <1>6
<1>8. m = NewPrefix(d, e, n)
  BY DEF NewPrefix
<1>9. m \in G /\ Generated[m] \notin Inscope(d, e)
  BY <1>7
<1> HIDE DEF m
<1>10. Generated[m] \in Strings \ {"", "xml", "xmlns"}
  BY <1>9, GeneratedAre
<1>11. m \in 0..Len(Generated)
  BY <1>1, <1>9
<1> QED
  BY <1>8, <1>9, <1>10, <1>11, Zenon

(* A registered or a fresh prefix, declared on e.                          *)
DeclaredFor(d, e, ns, r) ==
  /\ r.d = Declare(d, e, r.prefix, ns)
  /\ r.n \in 0..Len(Generated)
  /\ r.prefix \in Strings \ {"", "xmlns"} /\ <<r.prefix, ns>> \in Name
  /\ \/ r.prefix = Registry[ns]
     \/ Registry[ns] = "" /\ r.prefix \notin Inscope(d, e) /\ r.prefix # "xml"

(* A prefix that some element on the way up declares for ns.               *)
OfferedBy(d, e, n, ns, r) ==
  /\ r.d = d /\ r.n = n
  /\ <<r.prefix, ns>> \in Name
  /\ Contains(DeclsAlong(d, Line(d, e)), <<r.prefix, ns>>)

LEMMA DeclareNewIs ==
  ASSUME NEW d, NEW e, NEW n \in 0..Len(Generated), NumbersLeft(d, e, n), NEW ns \in Uris,
         NEW w, w.d = d, w.n = n
  PROVE  DeclaredFor(d, e, ns, DeclareNew(w, e, ns))
<1> DEFINE r == DeclareNew(w, e, ns)
<1>0. Registry[ns] \in Strings \ {"xmlns"} /\ ns \in Strings /\ n \in Nat
  <2>1. n \in Nat
    <3>1. Len(Generated) \in Nat
      BY GeneratedAre, Zenon
    <3> QED
      BY <3>1
  <2> QED
    BY <2>1, UriTyped, Zenon
<1>1. CASE Registry[ns] # ""
  <2>1. r = [d |-> Declare(d, e, Registry[ns], ns), n |-> n, prefix |-> Registry[ns]]
    BY <1>1 DEF DeclareNew
  <2>2. r.d = Declare(d, e, Registry[ns], ns) /\ r.n = n /\ r.prefix = Registry[ns]
    BY <2>1
  <2> HIDE DEF r
  <2>3. r.prefix \in Strings \ {"", "xmlns"} /\ <<r.prefix, ns>> \in Name
    BY <1>0, <1>1, <2>2 DEF Name
  <2> QED
    BY <2>2, <2>3 DEF DeclaredFor, r
<1>2. CASE Registry[ns] = ""
  <2> DEFINE i == NewPrefix(d, e, n)
  <2>1. r = [d |-> Declare(d, e, Generated[i], ns), n |-> i, prefix |-> Generated[i]]
    BY <1>2 DEF DeclareNew
  <2>2. /\ i \in 0..Len(Generated) /\ Generated[i] \notin Inscope(d, e)
        /\ Generated[i] \in Strings \ {"", "xml", "xmlns"}
    BY <1>0, NewPrefixIs
  <2> HIDE DEF i
  <2>3. r.d = Declare(d, e, Generated[i], ns) /\ r.n = i /\ r.prefix = Generated[i]
    BY <2>1
  <2> HIDE DEF r
  <2>4. r.prefix \in Strings \ {"", "xmlns"} /\ <<r.prefix, ns>> \in Name
    BY <1>0, <2>2, <2>3 DEF Name
  <2> QED
    BY <1>2, <2>2, <2>3, <2>4 DEF DeclaredFor, r
<1> QED
  BY <1>1, <1>2

(* The first of the offers is one of them.                                 *)
LEMMA FirstOffer ==
  ASSUME NEW t \in Seq(Name), NEW O \in SUBSET DOMAIN t, O # {}, NEW ns,
         \A i \in O : t[i][2] = ns
  PROVE  /\ Min(O) \in O
         /\ <<t[Min(O)][1], ns>> \in Name
         /\ Contains(t, <<t[Min(O)][1], ns>>)
<1>1. O \in SUBSET Nat
  BY Listed
<1>2. Min(O) \in O
  BY <1>1, SmallestIs
<1> DEFINE x == t[Min(O)]
<1>3. x \in Name /\ x[2] = ns /\ Contains(t, x)
  BY <1>2, Listed
<1> HIDE DEF x
<1>4. x = <<x[1], ns>>
  BY <1>3 DEF Name
<1>5. <<x[1], ns>> \in Name /\ Contains(t, <<x[1], ns>>)
  BY <1>3, <1>4, Zenon
<1> QED
  BY <1>2, <1>5 DEF x

LEMMA EnsureNsPrefixIs ==
  ASSUME NEW d, IsTree(d), NEW e \in Elements(d), NEW n \in 0..Len(Generated),
         NumbersLeft(d, e, n), NEW ns \in Uris, NEW w, w.d = d, w.n = n
  PROVE  LET r == EnsureNsPrefix(w, e, ns)
         IN  /\ OfferedBy(d, e, n, ns, r) \/ DeclaredFor(d, e, ns, r)
             /\ r.prefix # ""
<1> DEFINE r == EnsureNsPrefix(w, e, ns)
           pairs == DeclsAlong(d, Line(d, e))
           O == {i \in DOMAIN pairs : pairs[i][2] = ns /\ pairs[i][1] # ""}
<1>1. pairs \in Seq(Name)
  BY SeenIs
<1>2. CASE O = {}
  <2>1. r = DeclareNew(w, e, ns)
    BY <1>2 DEF EnsureNsPrefix
  <2>2. DeclaredFor(d, e, ns, r)
    BY <2>1, DeclareNewIs
  <2> HIDE DEF r
  <2>3. r.prefix # ""
    BY <2>2 DEF DeclaredFor
  <2> QED
    BY <2>2, <2>3 DEF r
<1>3. CASE O # {}
  <2>1. r = [d |-> d, n |-> n, prefix |-> pairs[Min(O)][1]]
    BY <1>3 DEF EnsureNsPrefix, Reused
  <2> HIDE DEF r, pairs, O
  <2>2. r.d = d /\ r.n = n /\ r.prefix = pairs[Min(O)][1]
    BY <2>1
  <2> USE DEF O
  <2>3. O \in SUBSET DOMAIN pairs /\ \A i \in O : pairs[i][2] = ns
    OBVIOUS
  <2>4. \A i \in O : pairs[i][1] # ""
    OBVIOUS
  <2> HIDE DEF O
  <2>5. /\ Min(O) \in O
        /\ <<pairs[Min(O)][1], ns>> \in Name
        /\ Contains(pairs, <<pairs[Min(O)][1], ns>>)
    BY <1>1, <1>3, <2>3, FirstOffer
  <2>6. r.prefix # ""
    BY <2>2, <2>4, <2>5
  <2>7. <<r.prefix, ns>> \in Name /\ Contains(pairs, <<r.prefix, ns>>)
    BY <2>2, <2>5, Zenon
  <2> QED
    BY <2>2, <2>6, <2>7 DEF OfferedBy, pairs, r
<1> QED
  BY <1>2, <1>3


LEMMA NameIs ==
  ASSUME NEW q \in Strings, NEW ns \in Uris
  PROVE  <<q, ns>> \in Name
BY UriTyped DEF Name

LEMMA PrefixForNsIs ==
  ASSUME NEW nsmap \in Seq(Name), NEW ns \in Uris
  PROVE  LET r == PrefixForNs(ns, nsmap)
         IN  /\ <<r, ns>> \in Name
             /\ ns # "" /\ r = "" /\ Registry[ns] # "" => Contains(nsmap, <<"", ns>>)
             /\ ns # "" /\ r # "" => Contains(nsmap, <<r, ns>>) \/ r = Registry[ns]
<1> DEFINE r == PrefixForNs(ns, nsmap)
           O == {i \in DOMAIN nsmap : nsmap[i][2] = ns /\ nsmap[i][1] # ""}
<1>0. Registry[ns] \in Strings /\ "" \in Strings
  <2>1. Registry[ns] \in Strings
    BY UriTyped, Zenon
  <2>2. "" \in Strings
    BY ScopeAssumption
  <2> QED
    BY <2>1, <2>2, Zenon
<1>1. CASE ns = ""
  <2>1. r = ""
    BY <1>1 DEF PrefixForNs
  <2>2. <<r, ns>> \in Name
    BY <1>0, <2>1, NameIs
  <2> QED
    BY <1>1, <2>2
<1>2. CASE ns # "" /\ O # {}
  <2>1. r = nsmap[Min(O)][1]
    BY <1>2, Zenon DEF PrefixForNs
  <2>2. O \in SUBSET DOMAIN nsmap /\ \A i \in O : nsmap[i][2] = ns
    OBVIOUS
  <2>3. \A i \in O : nsmap[i][1] # ""
    OBVIOUS
  <2> HIDE DEF O, r
  <2>4. /\ Min(O) \in O
        /\ <<nsmap[Min(O)][1], ns>> \in Name
        /\ Contains(nsmap, <<nsmap[Min(O)][1], ns>>)
    BY <1>2, <2>2, FirstOffer
  <2>5. r # ""
    BY <2>1, <2>3, <2>4
  <2>6. <<r, ns>> \in Name /\ Contains(nsmap, <<r, ns>>)
    BY <2>1, <2>4, Zenon
  <2> QED
    BY <2>5, <2>6 DEF r
<1>3. CASE ns # "" /\ O = {} /\ \E j \in DOMAIN nsmap : nsmap[j] = <<"", ns>>
  <2>1. r = ""
    BY <1>3, Zenon DEF PrefixForNs
  <2>2. Contains(nsmap, <<"", ns>>)
    BY <1>3, Listed
  <2>3. <<r, ns>> \in Name
    BY <1>0, <2>1, NameIs
  <2> QED
    BY <2>1, <2>2, <2>3
<1>4. CASE ns # "" /\ O = {} /\ ~\E j \in DOMAIN nsmap : nsmap[j] = <<"", ns>>
  <2>1. r = Registry[ns]
    BY <1>4, Zenon DEF PrefixForNs
  <2>2. <<r, ns>> \in Name
    BY <1>0, <2>1, NameIs
  <2> HIDE DEF r
  <2>3. r = "" => Registry[ns] = ""
    BY <2>1
  <2> QED
    BY <2>1, <2>2, <2>3, Zenon DEF r
<1> QED
  BY <1>1, <1>2, <1>3, <1>4

(* What happens to a name <<prefix, ns>> of e: nothing, or it is given a   *)
(* prefix that is offered, or none is and its prefix, or a new one, is     *)
(* declared.                                                               *)
FinalizedAs(d, e, n, prefix, ns, r) ==
  \/ ns = "" /\ r.d = d /\ r.n = n
  \/ /\ ns # ""
     /\ \E q : /\ <<q, ns>> \in Name
               /\ Contains(DeclsAlong(d, Line(d, e)), <<q, ns>>)
               /\ r.d = [d EXCEPT !.name[e] = <<q, ns>>] /\ r.n = n
  \/ /\ ns # "" /\ prefix # ""
     /\ ~Contains(DeclsAlong(d, Line(d, e)), <<prefix, ns>>)
     /\ r.d = Declare(d, e, prefix, ns) /\ r.n = n
  \/ /\ ns # "" /\ prefix = ""
     /\ ~Contains(DeclsAlong(d, Line(d, e)), <<prefix, ns>>)
     /\ \E m : /\ DeclaredFor(d, e, ns, m)
               /\ r.d = [m.d EXCEPT !.name[e] = <<m.prefix, ns>>] /\ r.n = m.n

LEMMA FinalizeIs ==
  ASSUME NEW d, IsTree(d), NEW e \in Elements(d), NEW n \in 0..Len(Generated),
         NumbersLeft(d, e, n), NEW ns \in Uris, NEW prefix, d.name[e] = <<prefix, ns>>
  PROVE  FinalizedAs(d, e, n, prefix, ns, FinalizeElementNs([d |-> d, n |-> n], e))
<1> DEFINE w == [d |-> d, n |-> n]
           r == FinalizeElementNs(w, e)
           pairs == DeclsAlong(d, Line(d, e))
           O == {i \in DOMAIN pairs : pairs[i][2] = ns /\ (pairs[i][1] # "" \/ prefix = "")}
<1>1. pairs \in Seq(Name)
  BY SeenIs
<1>2. d.name[e][1] = prefix /\ d.name[e][2] = ns
  <2>1. <<prefix, ns>>[1] = prefix /\ <<prefix, ns>>[2] = ns
    BY PairParts, Zenon
  <2> QED
    BY <2>1, Zenon
<1>3. w.d = d /\ w.n = n
  OBVIOUS
<1>4. r = IF ns = "" THEN w
          ELSE IF O # {} THEN Rename(w, e, pairs[Min(O)][1], ns)
          ELSE IF prefix # "" THEN [w EXCEPT !.d = Declare(d, e, prefix, ns)]
          ELSE LET new == DeclareNew(w, e, ns)
               IN  Rename([d |-> new.d, n |-> new.n], e, new.prefix, ns)
  <2> HIDE DEF w
  <2> QED
    BY <1>2, <1>3, Zenon DEF FinalizeElementNs
<1>5. CASE ns = ""
  <2>1. r = w
    BY <1>4, <1>5, Zenon
  <2> QED
    BY <1>3, <1>5, <2>1, Zenon DEF FinalizedAs
<1>6. CASE ns # "" /\ O # {}
  <2>1. r = Rename(w, e, pairs[Min(O)][1], ns)
    BY <1>4, <1>6, Zenon
  <2>2. O \in SUBSET DOMAIN pairs /\ \A i \in O : pairs[i][2] = ns
    OBVIOUS
  <2> HIDE DEF O, r, pairs
  <2> DEFINE q == pairs[Min(O)][1]
  <2>3. <<q, ns>> \in Name /\ Contains(pairs, <<q, ns>>)
    BY <1>1, <1>6, <2>2, FirstOffer
  <2>4. r = Rename(w, e, q, ns)
    BY <2>1
  <2> HIDE DEF q
  <2>5. r.d = [d EXCEPT !.name[e] = <<q, ns>>] /\ r.n = n
    BY <2>4 DEF Rename
  <2> QED
    BY <1>6, <2>3, <2>5 DEF FinalizedAs, pairs, r
<1>7. O = {} => ~Contains(pairs, <<prefix, ns>>)
  <2> SUFFICES ASSUME Contains(pairs, <<prefix, ns>>) PROVE O # {}
    OBVIOUS
  <2> DEFINE x == <<prefix, ns>>
  <2> HIDE DEF pairs, O, r
  <2>1. Contains(pairs, x)
    OBVIOUS
  <2>2. x[1] = prefix /\ x[2] = ns
    BY PairParts, Zenon
  <2> HIDE DEF x
  <2>3. PICK i \in DOMAIN pairs : pairs[i] = x
    BY <1>1, <2>1, Listed
  <2>4. pairs[i][2] = ns /\ (pairs[i][1] # "" \/ prefix = "")
    BY <2>2, <2>3, Zenon
  <2> QED
    BY <2>4, Zenon DEF O
<1>8. CASE ns # "" /\ O = {} /\ prefix # ""
  <2>1. r = [w EXCEPT !.d = Declare(d, e, prefix, ns)]
    BY <1>4, <1>8, Zenon
  <2> DEFINE c == Declare(d, e, prefix, ns)
  <2> HIDE DEF c, r
  <2>2. r.d = c /\ r.n = n
    BY <2>1 DEF c
  <2> QED
    BY <1>8, <1>7, <2>2, Zenon DEF FinalizedAs, c, r
<1>9. CASE ns # "" /\ O = {} /\ prefix = ""
  <2> DEFINE m == DeclareNew(w, e, ns)
  <2>1. r = Rename([d |-> m.d, n |-> m.n], e, m.prefix, ns)
    BY <1>4, <1>9, Zenon
  <2>2. DeclaredFor(d, e, ns, m)
    BY <1>3, DeclareNewIs
  <2>3. ~Contains(pairs, <<prefix, ns>>)
    BY <1>9, <1>7, Zenon
  <2> HIDE DEF m, r, pairs, O
  <2>4. r.d = [m.d EXCEPT !.name[e] = <<m.prefix, ns>>] /\ r.n = m.n
    <3> DEFINE md == m.d
               mn == m.n
               mp == m.prefix
    <3>1. r = Rename([d |-> md, n |-> mn], e, mp, ns)
      BY <2>1
    <3> HIDE DEF md, mn, mp
    <3>2. r.d = [md EXCEPT !.name[e] = <<mp, ns>>] /\ r.n = mn
      BY <3>1 DEF Rename
    <3> QED
      BY <3>2 DEF md, mn, mp
  <2> QED
    BY <1>9, <2>2, <2>3, <2>4, Zenon DEF FinalizedAs, r, pairs
<1> QED
  BY <1>5, <1>6, <1>8, <1>9


LEMMA ReverseIs ==
  ASSUME NEW X, NEW s \in Seq(X)
  PROVE  /\ Reverse(s) \in Seq(X) /\ Len(Reverse(s)) = Len(s) /\ Len(s) \in Nat
         /\ DOMAIN Reverse(s) = 1..Len(s) /\ DOMAIN s = 1..Len(s)
         /\ \A i \in 1..Len(s) : Len(s) - i + 1 \in 1..Len(s) /\ Reverse(s)[i] = s[Len(s) - i + 1]
<1> DEFINE n == Len(s)
           r == Reverse(s)
<1>1. n \in Nat /\ DOMAIN s = 1..n /\ \A i \in 1..n : s[i] \in X
  OBVIOUS
<1>2. r = [i \in 1..n |-> s[(n - i) + 1]]
  BY DEF Reverse
<1> HIDE DEF n, r
<1>3. \A i \in 1..n : n - i + 1 \in 1..n
  BY <1>1
<1>4. \A i \in 1..n : r[i] = s[n - i + 1] /\ r[i] \in X
  BY <1>1, <1>2, <1>3
<1>5. r \in Seq(X) /\ Len(r) = n /\ DOMAIN r = 1..n
  BY <1>1, <1>2, <1>4
<1> QED
  BY <1>1, <1>3, <1>4, <1>5 DEF n, r

(* What nsmap holds was declared on the way up.                            *)
LEMMA NsmapSeen ==
  ASSUME NEW d, IsTree(d), NEW e \in Elements(d)
  PROVE  /\ Nsmap(d, e) \in Seq(Name)
         /\ \A p, u : Contains(Nsmap(d, e), <<p, u>>) => Contains(DeclsAlong(d, Line(d, e)), <<p, u>>)
<1> DEFINE line == Line(d, e)
           n == Len(line)
           back == Reverse(line)
           t == DeclsAlong(d, back)
<1>1. line \in Seq(Elements(d))
  BY LineTyped
<1>2. /\ back \in Seq(Elements(d)) /\ n \in Nat /\ DOMAIN back = 1..n /\ DOMAIN line = 1..n
      /\ \A i \in 1..n : n - i + 1 \in 1..n /\ back[i] = line[n - i + 1]
  <2> HIDE DEF line
  <2> QED
    BY <1>1, ReverseIs
<1> HIDE DEF line, n, back
<1>3. t \in Seq(Name) /\ \E g : Along(d, back, t, g)
  BY <1>2, AlongIs
<1>4. PICK g : Along(d, back, t, g)
  BY <1>3
<1> HIDE DEF t
<1>5. /\ AsDict(t) \in Seq(Name)
      /\ \A p, u : Contains(AsDict(t), <<p, u>>) <=> LastOf(t, Len(t), p, u)
  BY <1>3, AsDictIs
<1>6. ASSUME NEW p, NEW u, Contains(AsDict(t), <<p, u>>)
      PROVE  Contains(DeclsAlong(d, line), <<p, u>>)
  <2>1. DOMAIN t = 1..Len(t)
    BY <1>3
  <2>2. LastOf(t, Len(t), p, u)
    BY <1>5, <1>6
  <2>3. PICK k \in DOMAIN t : t[k] = <<p, u>>
    BY <2>1, <2>2 DEF LastOf
  <2>4. g[k] \in 1..n /\ Contains(d.decls[back[g[k]]], t[k])
    BY <1>2, <1>4 DEF Along
  <2>5. PICK i \in DOMAIN line : Contains(d.decls[line[i]], t[k])
    BY <1>2, <2>4
  <2>6. Contains(DeclsAlong(d, line), t[k])
    <3>1. \A x : Contains(DeclsAlong(d, line), x) <=> \E h \in DOMAIN line : Contains(d.decls[line[h]], x)
      BY SeenIs DEF line
    <3> QED
      BY <2>5, <3>1
  <2> QED
    BY <2>3, <2>6
<1>7. Nsmap(d, e) = AsDict(t)
  BY DEF Nsmap, t, back, line
<1> QED
  BY <1>5, <1>6, <1>7 DEF line

-----------------------------------------------------------------------------
(* Documents stay documents.                                               *)

LEMMA QNameReserved ==
  ASSUME NEW prefix, NEW ns, ValidQName(prefix, ns)
  PROVE  Reserved(prefix, ns) /\ Written(prefix, ns)
BY ScopeAssumption DEF ValidQName, Reserved, Written

LEMMA DeclaredKeeps ==
  ASSUME NEW d, IsDocument(d), NEW e \in Elements(d), NEW ns, NEW m, DeclaredFor(d, e, ns, m),
         Reserved(m.prefix, ns)
  PROVE  /\ IsDocument(m.d) /\ Elements(m.d) = Elements(d)
         /\ DeclaredOn(m.d, d, e, m.prefix, ns)
         /\ m.n \in 0..Len(Generated)
<1> DEFINE p == m.prefix
           c == Declare(d, e, p, ns)
<1>1. m.d = c /\ <<p, ns>> \in Name /\ m.n \in 0..Len(Generated)
  BY DEF DeclaredFor
<1>2. IsTree(d)
  BY DocumentTree
<1> HIDE DEF p
<1>3. IsDocument(c)
  BY <1>1, DeclareKeeps DEF p
<1>4. DeclaredOn(c, d, e, p, ns)
  BY <1>1, <1>2, DeclareIs
<1> HIDE DEF c
<1>5. Elements(c) = Elements(d)
  BY <1>4 DEF DeclaredOn
<1> QED
  BY <1>1, <1>3, <1>4, <1>5 DEF p

LEMMA AttributesAre ==
  ASSUME NEW old \in SUBSET Name, NEW prefix, NEW ns, <<prefix, ns>> \in Name,
         NEW attrs \in WithAttribute(old, prefix, ns),
         \A a, b \in old : a[2] = b[2] => a = b,
         \A a \in old : Reserved(a[1], a[2]) /\ (a[2] = "" => a[1] = ""),
         ValidQName(prefix, ns)
  PROVE  /\ attrs \in SUBSET Name
         /\ \A a \in attrs : Reserved(a[1], a[2]) /\ (a[2] = "" => a[1] = "")
         /\ \A a, b \in attrs : a[2] = b[2] => a = b
<1> DEFINE same == {a \in old : a[2] = ns}
           pair == <<prefix, ns>>
<1>1. pair[1] = prefix /\ pair[2] = ns
  BY PairParts, Zenon
<1>2. attrs = old \/ attrs = (old \ same) \cup {pair}
  <2>1. CASE same = {}
    BY <2>1, Zenon DEF WithAttribute
  <2>2. CASE same # {}
    BY <2>2, Zenon DEF WithAttribute
  <2> QED
    BY <2>1, <2>2
<1>3. Reserved(prefix, ns) /\ (ns = "" => prefix = "")
  BY QNameReserved DEF Written
<1>4. Reserved(pair[1], pair[2]) /\ (pair[2] = "" => pair[1] = "")
  BY <1>1, <1>3, Zenon
<1> HIDE DEF pair
<1>5. CASE attrs = old
  BY <1>5
<1>6. CASE attrs = (old \ same) \cup {pair}
  <2>1. attrs \in SUBSET Name
    BY <1>6 DEF pair
  <2>2. \A a \in attrs : a = pair \/ (a \in old /\ a[2] # ns)
    BY <1>6
  <2>3. \A a \in attrs : Reserved(a[1], a[2]) /\ (a[2] = "" => a[1] = "")
    BY <1>4, <2>2, Zenon
  <2>4. \A a, b \in attrs : a[2] = b[2] => a = b
    BY <1>1, <2>2, Zenon
  <2> QED
    BY <2>1, <2>3, <2>4
<1> QED
  BY <1>2, <1>5, <1>6

LEMMA AttributeKeeps ==
  ASSUME NEW d, IsDocument(d), NEW e \in Elements(d), NEW ns, NEW r,
         r.d = d \/ DeclaredFor(d, e, ns, r), <<r.prefix, ns>> \in Name,
         ValidQName(r.prefix, ns), NEW attrs \in WithAttribute(d.attrs[e], r.prefix, ns)
  PROVE  IsDocument([r.d EXCEPT !.attrs[e] = attrs])
<1>1. IsTree(d) /\ \A x \in Elements(d) : WellNamed(d, x)
  BY DocumentIs
<1>2. Reserved(r.prefix, ns)
  BY QNameReserved
<1>3. IsDocument(r.d) /\ e \in Elements(r.d)
  <2>1. CASE r.d = d
    BY <2>1
  <2>2. CASE DeclaredFor(d, e, ns, r)
    BY <1>2, <2>2, DeclaredKeeps
  <2> QED
    BY <2>1, <2>2
<1>4. d.attrs[e] \in SUBSET Name
  BY <1>1, TreeTyped
<1>5. WellNamed(d, e)
  BY <1>1
<1>6. /\ \A a, b \in d.attrs[e] : a[2] = b[2] => a = b
      /\ \A a \in d.attrs[e] : Reserved(a[1], a[2]) /\ (a[2] = "" => a[1] = "")
  BY <1>5, Zenon DEF WellNamed
<1>7. /\ attrs \in SUBSET Name
      /\ \A a \in attrs : Reserved(a[1], a[2]) /\ (a[2] = "" => a[1] = "")
      /\ \A a, b \in attrs : a[2] = b[2] => a = b
  BY <1>4, <1>6, AttributesAre, ZenonT(60)
<1> QED
  BY <1>3, <1>7, AttributesKeep

LEMMA SetAttributeKeeps ==
  ASSUME TypeOK, NEW e \in Elements(doc), NEW ns \in Uris, SetAttribute(e, ns)
  PROVE  TypeOK'
<1> DEFINE w == [d |-> doc, n |-> counter, prefix |-> ""]
           r == IF ns = "" THEN w ELSE EnsureNsPrefix(w, e, ns)
<1>1. /\ counter \in 0..Len(Generated) /\ IsDocument(doc) /\ IsTree(doc)
      /\ \A x \in Elements(doc) : WellNamed(doc, x)
  BY DocumentIs DEF TypeOK
<1>2. /\ NumbersLeft(doc, e, counter) /\ counter' = r.n
      /\ \/ /\ ValidQName(r.prefix, ns)
            /\ \E attrs \in WithAttribute(doc.attrs[e], r.prefix, ns) :
                 doc' = [r.d EXCEPT !.attrs[e] = attrs]
         \/ doc' = doc
  BY Zenon DEF SetAttribute
<1>3. w.d = doc /\ w.n = counter /\ w.prefix = ""
  OBVIOUS
<1> HIDE DEF w
<1>4. \/ r.d = doc /\ r.n = counter /\ <<r.prefix, ns>> \in Name
      \/ DeclaredFor(doc, e, ns, r)
  <2>1. CASE ns = ""
    <3>1. r = w /\ "" \in Strings
      BY <2>1, ScopeAssumption
    <3>2. <<"", ns>> \in Name
      BY <3>1, NameIs
    <3> QED
      BY <1>3, <3>1, <3>2, Zenon
  <2>2. CASE ns # ""
    <3>1. r = EnsureNsPrefix(w, e, ns)
      BY <2>2
    <3> HIDE DEF r
    <3>2. OfferedBy(doc, e, counter, ns, r) \/ DeclaredFor(doc, e, ns, r)
      BY <1>1, <1>2, <1>3, <3>1, EnsureNsPrefixIs
    <3> QED
      BY <3>2 DEF OfferedBy
  <2> QED
    BY <2>1, <2>2
<1> HIDE DEF r
<1>5. r.n \in 0..Len(Generated) /\ <<r.prefix, ns>> \in Name
  BY <1>1, <1>4 DEF DeclaredFor
<1>6. CASE doc' = doc
  BY <1>1, <1>2, <1>5, <1>6 DEF TypeOK
<1>7. ASSUME ValidQName(r.prefix, ns), NEW attrs \in WithAttribute(doc.attrs[e], r.prefix, ns),
             doc' = [r.d EXCEPT !.attrs[e] = attrs]
      PROVE  IsDocument(doc')
  <2>1. IsDocument([r.d EXCEPT !.attrs[e] = attrs])
    BY <1>1, <1>4, <1>5, <1>7, AttributeKeeps
  <2> QED
    BY <1>7, <2>1
<1> QED
  BY <1>2, <1>5, <1>6, <1>7 DEF TypeOK


(* A default declaration is at hand for a name without a prefix whose      *)
(* namespace has a registered one.                                         *)
DefaultAtHand(d, e, prefix, ns) ==
  prefix = "" /\ ns # "" /\ Registry[ns] # "" => Contains(DeclsAlong(d, Line(d, e)), <<"", ns>>)

LEMMA FinalizedKeeps ==
  ASSUME NEW d, IsDocument(d), NEW e \in Elements(d), NEW n \in 0..Len(Generated),
         NEW prefix, NEW ns, <<prefix, ns>> \in Name, ValidQName(prefix, ns),
         DefaultAtHand(d, e, prefix, ns), NEW r, FinalizedAs(d, e, n, prefix, ns, r)
  PROVE  IsDocument(r.d) /\ r.n \in 0..Len(Generated)
<1>0. Reserved(prefix, ns)
  BY QNameReserved
<1>1. CASE ns = "" /\ r.d = d /\ r.n = n
  BY <1>1
<1>2. ASSUME ns # "", NEW q, <<q, ns>> \in Name,
             Contains(DeclsAlong(d, Line(d, e)), <<q, ns>>),
             r.d = [d EXCEPT !.name[e] = <<q, ns>>], r.n = n
      PROVE  IsDocument(r.d) /\ r.n \in 0..Len(Generated)
  <2> DEFINE x == <<q, ns>>
  <2>1. x[1] = q /\ x[2] = ns
    BY PairParts, Zenon
  <2>2. Contains(DeclsAlong(d, Line(d, e)), x)
    BY <1>2
  <2> HIDE DEF x
  <2>3. Reserved(x[1], x[2])
    BY <2>2, SeenReserved
  <2>4. Reserved(q, ns)
    BY <2>1, <2>3, Zenon
  <2>5. Written(q, ns)
    BY <1>2, <2>4, Zenon DEF Written
  <2>6. IsDocument([d EXCEPT !.name[e] = <<q, ns>>])
    <3>1. <<q, ns>> \in Name
      BY <1>2
    <3> QED
      BY <2>5, <3>1, NameKeeps
  <2> QED
    BY <1>2, <2>6
<1>3. CASE prefix # "" /\ r.d = Declare(d, e, prefix, ns) /\ r.n = n
  <2>1. IsDocument(Declare(d, e, prefix, ns))
    BY <1>0, DeclareKeeps
  <2> QED
    BY <1>3, <2>1
<1>4. ASSUME ns # "", prefix = "", ~Contains(DeclsAlong(d, Line(d, e)), <<prefix, ns>>),
             NEW m, DeclaredFor(d, e, ns, m),
             r.d = [m.d EXCEPT !.name[e] = <<m.prefix, ns>>], r.n = m.n
      PROVE  IsDocument(r.d) /\ r.n \in 0..Len(Generated)
  <2>1. Registry[ns] = ""
    BY <1>4 DEF DefaultAtHand
  <2>2. /\ m.prefix # "" /\ m.prefix # "xmlns" /\ m.prefix # "xml"
        /\ <<m.prefix, ns>> \in Name /\ m.n \in 0..Len(Generated)
    BY <1>4, <2>1 DEF DeclaredFor
  <2>3. ns # XmlUri /\ ns # XmlnsUri
    BY <1>4 DEF ValidQName
  <2>4. Reserved(m.prefix, ns)
    BY <2>2, <2>3 DEF Reserved
  <2>5. IsDocument(m.d) /\ Elements(m.d) = Elements(d)
    <3>1. IsDocument(d) /\ DeclaredFor(d, e, ns, m) /\ Reserved(m.prefix, ns)
      BY <1>4, <2>4
    <3> QED
      BY <3>1, DeclaredKeeps
  <2> DEFINE md == m.d
             mp == m.prefix
  <2>6. /\ IsDocument(md) /\ e \in Elements(md) /\ <<mp, ns>> \in Name /\ Written(mp, ns)
        /\ r.d = [md EXCEPT !.name[e] = <<mp, ns>>]
    BY <1>4, <2>2, <2>4, <2>5 DEF Written
  <2> HIDE DEF md, mp
  <2>7. IsDocument([md EXCEPT !.name[e] = <<mp, ns>>])
    BY <2>6, NameKeeps
  <2> QED
    BY <1>4, <2>2, <2>6, <2>7
<1> QED
  BY <1>1, <1>2, <1>3, <1>4 DEF FinalizedAs

LEMMA SetXmlnsKeeps ==
  ASSUME TypeOK, NEW e \in Elements(doc), NEW prefix \in Declarable, NEW uri \in Uris,
         SetXmlns(e, prefix, uri)
  PROVE  TypeOK'
<1>1. counter' = counter /\ counter \in 0..Len(Generated) /\ IsDocument(doc)
  BY DEF TypeOK, SetXmlns
<1>2. CASE ValidDeclaration(prefix, uri)
  <2>1. doc' = Declare(doc, e, prefix, uri)
    BY <1>2 DEF SetXmlns
  <2>2. prefix \in Strings
    BY NamespacesAssumption, Zenon
  <2>3. <<prefix, uri>> \in Name
    BY <2>2, NameIs
  <2>4. Reserved(prefix, uri)
    BY <1>2 DEF ValidDeclaration, Reserved
  <2>5. IsDocument(Declare(doc, e, prefix, uri))
    BY <1>1, <2>3, <2>4, DeclareKeeps
  <2> QED
    BY <1>1, <2>1, <2>5 DEF TypeOK
<1>3. CASE ~ValidDeclaration(prefix, uri)
  BY <1>1, <1>3 DEF SetXmlns, TypeOK
<1> QED
  BY <1>2, <1>3

LEMMA RemoveAttributeKeeps ==
  ASSUME TypeOK, NEW e \in Elements(doc), NEW ns \in Uris, RemoveAttribute(e, ns)
  PROVE  TypeOK'
<1> DEFINE attrs == {a \in doc.attrs[e] : a[2] # ns}
<1>1. /\ counter' = counter /\ counter \in 0..Len(Generated) /\ IsDocument(doc)
      /\ doc' = [doc EXCEPT !.attrs[e] = attrs]
  BY DEF TypeOK, RemoveAttribute
<1>2. IsTree(doc) /\ WellNamed(doc, e)
  BY <1>1, DocumentIs
<1>3. attrs \in SUBSET Name
  BY <1>2, TreeTyped
<1>4. \A a \in attrs : a \in doc.attrs[e]
  OBVIOUS
<1> HIDE DEF attrs
<1>5. /\ \A a \in attrs : Reserved(a[1], a[2]) /\ (a[2] = "" => a[1] = "")
      /\ \A a, b \in attrs : a[2] = b[2] => a = b
  BY <1>2, <1>4, Zenon DEF WellNamed
<1>6. IsDocument([doc EXCEPT !.attrs[e] = attrs])
  BY <1>1, <1>3, <1>5, AttributesKeep
<1> QED
  BY <1>1, <1>6 DEF TypeOK

LEMMA SetQNameKeeps ==
  ASSUME TypeOK, NEW e \in Elements(doc), NEW prefix \in Declarable, NEW ns \in Uris,
         SetQName(e, prefix, ns)
  PROVE  TypeOK'
<1>1. counter' = counter /\ counter \in 0..Len(Generated) /\ IsDocument(doc)
  BY DEF TypeOK, SetQName
<1>2. CASE ValidQName(prefix, ns)
  <2>1. doc' = [doc EXCEPT !.name[e] = <<prefix, ns>>]
    BY <1>2 DEF SetQName
  <2>2. prefix \in Strings
    BY NamespacesAssumption, Zenon
  <2>3. <<prefix, ns>> \in Name
    BY <2>2, NameIs
  <2>4. Written(prefix, ns)
    BY <1>2, QNameReserved
  <2>5. IsDocument([doc EXCEPT !.name[e] = <<prefix, ns>>])
    BY <1>1, <2>3, <2>4, NameKeeps
  <2> QED
    BY <1>1, <2>1, <2>5 DEF TypeOK
<1>3. CASE ~ValidQName(prefix, ns)
  BY <1>1, <1>3 DEF SetQName, TypeOK
<1> QED
  BY <1>2, <1>3

(* Naming an element leaves the declarations along its line.               *)
LEMMA SameAlong ==
  ASSUME NEW d, NEW c, NEW e, c.decls = d.decls, Line(c, e) = Line(d, e)
  PROVE  DeclsAlong(c, Line(c, e)) = DeclsAlong(d, Line(d, e))
BY Zenon DEF DeclsAlong

(* The document c is d with the element e named prefix in ns, a name whose *)
(* prefix is at hand there.                                                *)
NamedAs(d, c, e, prefix, ns) ==
  /\ <<prefix, ns>> \in Name
  /\ IsDocument(c) /\ Elements(c) = Elements(d) /\ c.name[e] = <<prefix, ns>>
  /\ c.decls = d.decls /\ c.kids = d.kids
  /\ \A x \in Elements(d) : Line(c, x) = Line(d, x)
  /\ DefaultAtHand(c, e, prefix, ns)
  /\ ns # "" /\ prefix # "" =>
       Contains(DeclsAlong(c, Line(c, e)), <<prefix, ns>>) \/ prefix = Registry[ns]

(* The name an element is given when its tag is set.                       *)
LEMMA NamedTo ==
  ASSUME NEW d, IsDocument(d), NEW e \in Elements(d), NEW ns \in Uris,
         ValidQName(PrefixForNs(ns, Nsmap(d, e)), ns)
  PROVE  NamedAs(d, [d EXCEPT !.name[e] = <<PrefixForNs(ns, Nsmap(d, e)), ns>>], e,
                 PrefixForNs(ns, Nsmap(d, e)), ns)
<1> DEFINE map == Nsmap(d, e)
           prefix == PrefixForNs(ns, map)
           c == [d EXCEPT !.name[e] = <<prefix, ns>>]
<1>1. IsTree(d)
  BY DocumentTree
<1>2. /\ map \in Seq(Name)
      /\ \A p, u : Contains(map, <<p, u>>) => Contains(DeclsAlong(d, Line(d, e)), <<p, u>>)
  BY <1>1, NsmapSeen
<1> HIDE DEF map
<1>3. /\ <<prefix, ns>> \in Name
      /\ ns # "" /\ prefix = "" /\ Registry[ns] # "" => Contains(map, <<"", ns>>)
      /\ ns # "" /\ prefix # "" => Contains(map, <<prefix, ns>>) \/ prefix = Registry[ns]
  BY <1>2, PrefixForNsIs
<1>4. Written(prefix, ns)
  BY QNameReserved DEF map
<1> HIDE DEF prefix
<1>5. /\ IsDocument(c) /\ Elements(c) = Elements(d)
      /\ c.kids = d.kids /\ c.decls = d.decls /\ c.name[e] = <<prefix, ns>>
      /\ \A x \in Elements(d) : Line(c, x) = Line(d, x)
  <2>1. <<prefix, ns>> \in Name
    BY <1>3
  <2> QED
    BY <1>4, <2>1, NameKeeps
<1> HIDE DEF c
<1>6. DeclsAlong(c, Line(c, e)) = DeclsAlong(d, Line(d, e))
  BY <1>5, SameAlong
<1>7. DefaultAtHand(c, e, prefix, ns)
  BY <1>2, <1>3, <1>6, Zenon DEF DefaultAtHand
<1>8. ns # "" /\ prefix # "" =>
        Contains(DeclsAlong(c, Line(c, e)), <<prefix, ns>>) \/ prefix = Registry[ns]
  BY <1>2, <1>3, <1>6, Zenon
<1> QED
  <2>1. NamedAs(d, c, e, prefix, ns)
    BY <1>3, <1>5, <1>7, <1>8, Zenon DEF NamedAs
  <2> QED
    BY <2>1, Zenon DEF c, prefix, map

LEMMA NamedIs ==
  ASSUME NEW d, IsDocument(d), NEW e \in Elements(d), NEW ns \in Uris,
         ValidQName(PrefixForNs(ns, Nsmap(d, e)), ns),
         NEW prefix, prefix = PrefixForNs(ns, Nsmap(d, e)),
         NEW c, c = [d EXCEPT !.name[e] = <<prefix, ns>>]
  PROVE  NamedAs(d, c, e, prefix, ns)
BY NamedTo

LEMMA SetTagKeeps ==
  ASSUME TypeOK, NEW e \in Elements(doc), NEW ns \in Uris, SetTag(e, ns)
  PROVE  TypeOK'
<1> DEFINE prefix == PrefixForNs(ns, Nsmap(doc, e))
           c == [doc EXCEPT !.name[e] = <<prefix, ns>>]
           r == FinalizeElementNs([d |-> c, n |-> counter], e)
<1>1. /\ NumbersLeft(doc, e, counter) /\ ValidQName(prefix, ns)
      /\ doc' = r.d /\ counter' = r.n
  BY Zenon DEF SetTag
<1>2. counter \in 0..Len(Generated) /\ IsDocument(doc)
  BY DEF TypeOK
<1>3. /\ <<prefix, ns>> \in Name
      /\ IsDocument(c) /\ Elements(c) = Elements(doc) /\ c.name[e] = <<prefix, ns>>
      /\ c.decls = doc.decls
      /\ \A x \in Elements(doc) : Line(c, x) = Line(doc, x)
      /\ DefaultAtHand(c, e, prefix, ns)
  <2>1. prefix = PrefixForNs(ns, Nsmap(doc, e)) /\ c = [doc EXCEPT !.name[e] = <<prefix, ns>>]
    OBVIOUS
  <2> HIDE DEF c, r
  <2>2. ValidQName(PrefixForNs(ns, Nsmap(doc, e)), ns)
    BY <1>1
  <2> HIDE DEF prefix
  <2>3. NamedAs(doc, c, e, prefix, ns)
    BY <1>2, <2>1, <2>2, NamedIs
  <2> QED
    BY <2>3 DEF NamedAs
<1> HIDE DEF c, prefix, r
<1>4. NumbersLeft(c, e, counter)
  BY <1>1, <1>3, Zenon DEF NumbersLeft, Inscope, DeclsAlong
<1>5. IsTree(c)
  BY <1>3, DocumentTree
<1>6. FinalizedAs(c, e, counter, prefix, ns, r)
  BY <1>2, <1>3, <1>4, <1>5, FinalizeIs DEF r
<1>7. IsDocument(r.d) /\ r.n \in 0..Len(Generated)
  BY <1>1, <1>2, <1>3, <1>6, FinalizedKeeps
<1> QED
  BY <1>1, <1>7 DEF TypeOK


(* Trees of the same names and declarations.                               *)
LEMMA SameNames ==
  ASSUME NEW d, IsDocument(d), NEW c, IsTree(c), Elements(c) = Elements(d),
         c.decls = d.decls, c.name = d.name, c.attrs = d.attrs
  PROVE  IsDocument(c)
<1>1. \A x \in Elements(d) : WellNamed(d, x)
  BY DocumentIs
<1>2. \A x \in Elements(d) : WellNamed(c, x)
  BY <1>1, Zenon DEF WellNamed
<1> QED
  BY <1>2, DocumentIs

LEMMA MoveKeeps ==
  ASSUME TypeOK, NEW e \in Elements(doc), NEW parent \in Elements(doc), Move(e, parent)
  PROVE  TypeOK'
<1> DEFINE d == doc
           c == Detach(d, e)
           b == AppendTo(c, parent, e)
<1>1. /\ counter' = counter /\ counter \in 0..Len(Generated) /\ IsDocument(d)
      /\ doc' = b /\ parent \notin Below(d, e)
  BY Zenon DEF TypeOK, Move
<1>2. IsTree(d) /\ OnePlaced(d) /\ IsForest(d)
  BY <1>1, DocumentTree, TreePlaced
<1>3. /\ IsTree(c) /\ Elements(c) = Elements(d)
      /\ c.decls = d.decls /\ c.name = d.name /\ c.attrs = d.attrs
      /\ \A x : ParentOf(c, x) = IF x = e THEN NoElement ELSE ParentOf(d, x)
  BY <1>2, DetachIs
<1> HIDE DEF c
<1>4. /\ OnePlaced(b) /\ Elements(b) = Elements(c)
      /\ b \in [kids : [Elements(b) -> Seq(Elements(b))], decls : [Elements(b) -> Seq(Name)],
                name : [Elements(b) -> Name], attrs : [Elements(b) -> SUBSET Name]]
      /\ b.decls = c.decls /\ b.name = c.name /\ b.attrs = c.attrs
      /\ \A x : ParentOf(b, x) = IF x = e THEN parent ELSE ParentOf(c, x)
  <2>1. ParentOf(c, e) = NoElement /\ e \in Elements(c) /\ parent \in Elements(c)
    BY <1>3
  <2> QED
    BY <1>3, <2>1, AppendToIs
<1> HIDE DEF b
<1>5. IsForest(b)
  <2>1. ParentOf(b, e) = parent /\ \A x \in Elements(d) : x # e => ParentOf(b, x) = ParentOf(d, x)
    BY <1>3, <1>4
  <2>2. Elements(b) = Elements(d)
    BY <1>3, <1>4
  <2> HIDE DEF d
  <2>3. e \in Elements(d) /\ parent \in Elements(d)
    BY DEF d
  <2> QED
    BY <1>1, <1>2, <1>4, <2>1, <2>2, <2>3, Regrafted
<1>6. IsTree(b)
  BY <1>4, <1>5 DEF IsTree
<1>7. IsDocument(b)
  BY <1>1, <1>3, <1>4, <1>6, SameNames
<1> QED
  BY <1>1, <1>7 DEF TypeOK

-----------------------------------------------------------------------------
(* A new element below an old one.                                         *)

(* c is d and an element e with no parent and no children.                 *)
Built(c, d, e, name, decls) ==
  /\ IsTree(c) /\ Elements(c) = Elements(d) \cup {e}
  /\ c.decls[e] = decls /\ c.name[e] = name /\ c.attrs[e] = {}
  /\ \A x \in Elements(d) :
       c.decls[x] = d.decls[x] /\ c.name[x] = d.name[x] /\ c.attrs[x] = d.attrs[x]
  /\ ParentOf(c, e) = NoElement
  /\ \A x \in Elements(d) : ParentOf(c, x) = ParentOf(d, x)
  /\ \A x \in Elements(d) : Line(c, x) = Line(d, x)

LEMMA BuildIs ==
  ASSUME NEW d, IsTree(d), NEW e, e \notin Elements(d), e # NoElement,
         NEW name \in Name, NEW decls \in Seq(Name)
  PROVE  Built(Build(d, e, name, decls), d, e, name, decls)
<1> DEFINE c == Build(d, e, name, decls)
           E == Elements(d)
           F == E \cup {e}
<1>1. OnePlaced(d) /\ IsForest(d) /\ NoElement \notin E
  BY TreePlaced DEF OnePlaced
<1>2. /\ \A x \in E : d.kids[x] \in Seq(E)
      /\ \A x \in E : d.decls[x] \in Seq(Name) /\ d.name[x] \in Name /\ d.attrs[x] \in SUBSET Name
  <2>1. \A x \in E : d.kids[x] \in Seq(E)
    BY <1>1 DEF OnePlaced
  <2>2. \A x \in E : d.decls[x] \in Seq(Name) /\ d.name[x] \in Name /\ d.attrs[x] \subseteq Name
    BY TreeTyped
  <2> QED
    BY <2>1, <2>2
<1>3. /\ c.kids = [x \in F |-> IF x = e THEN <<>> ELSE d.kids[x]]
      /\ c.decls = [x \in F |-> IF x = e THEN decls ELSE d.decls[x]]
      /\ c.name = [x \in F |-> IF x = e THEN name ELSE d.name[x]]
      /\ c.attrs = [x \in F |-> IF x = e THEN {} ELSE d.attrs[x]]
      /\ c = [kids |-> c.kids, decls |-> c.decls, name |-> c.name, attrs |-> c.attrs]
  BY DEF Build
<1> HIDE DEF c
<1>4. Elements(c) = F
  BY <1>3 DEF Elements
<1>5. \A x \in E : c.kids[x] \in Seq(F)
  <2> SUFFICES ASSUME NEW x \in E PROVE c.kids[x] \in Seq(F)
    OBVIOUS
  <2>1. c.kids[x] = d.kids[x] /\ d.kids[x] \in Seq(E)
    BY <1>2, <1>3
  <2> DEFINE s == d.kids[x]
  <2> HIDE DEF E, s
  <2>2. s \in Seq(E)
    BY <2>1 DEF s
  <2>3. s = [i \in 1..Len(s) |-> s[i]] /\ Len(s) \in Nat /\ \A i \in 1..Len(s) : s[i] \in F
    BY <2>2
  <2>4. s \in Seq(F)
    BY <2>3
  <2> QED
    BY <2>1, <2>4 DEF s
<1>6. c.kids[e] = <<>> /\ <<>> \in Seq(F)
  BY <1>3
<1>7. /\ c.kids \in [F -> Seq(F)] /\ c.decls \in [F -> Seq(Name)]
      /\ c.name \in [F -> Name] /\ c.attrs \in [F -> SUBSET Name]
  <2>1. c.kids \in [F -> Seq(F)]
    BY <1>3, <1>5, <1>6
  <2>2. c.decls \in [F -> Seq(Name)]
    BY <1>2, <1>3
  <2>3. c.name \in [F -> Name]
    BY <1>2, <1>3
  <2>4. c.attrs \in [F -> SUBSET Name]
    BY <1>2, <1>3
  <2> QED
    BY <2>1, <2>2, <2>3, <2>4
<1>8. OnePlaced(c)
  <2>1. ASSUME NEW p \in F, NEW i \in DOMAIN c.kids[p]
        PROVE  p \in E /\ c.kids[p] = d.kids[p]
    <3>1. p # e
      BY <1>6, <2>1
    <3> QED
      BY <1>3, <3>1
  <2>2. ASSUME NEW p \in F, NEW q \in F, NEW i \in DOMAIN c.kids[p], NEW j \in DOMAIN c.kids[q],
               c.kids[p][i] = c.kids[q][j]
        PROVE  p = q /\ i = j
    BY <1>1, <2>1, <2>2 DEF OnePlaced
  <2> QED
    BY <1>1, <1>4, <1>7, <2>2 DEF OnePlaced
<1>9. ASSUME NEW x, NEW p \in F
      PROVE  Contains(c.kids[p], x) <=> p \in E /\ Contains(d.kids[p], x)
  <2>1. CASE p = e
    <3>1. ~Contains(c.kids[p], x)
      BY <1>6, <2>1 DEF Contains
    <3> QED
      BY <2>1, <3>1
  <2>2. CASE p # e
    BY <1>3, <2>2
  <2> QED
    BY <2>1, <2>2
<1>10. ASSUME NEW x PROVE ParentOf(c, x) = ParentOf(d, x)
  <2>1. CASE \E p \in E : Contains(d.kids[p], x)
    <3>1. PICK p \in E : Contains(d.kids[p], x)
      BY <2>1
    <3>2. p \in Elements(c) /\ Contains(c.kids[p], x)
      BY <1>4, <1>9, <3>1
    <3> QED
      BY <1>1, <1>8, <3>1, <3>2, ParentIs
  <2>2. CASE ~\E p \in E : Contains(d.kids[p], x)
    <3>1. ~\E p \in Elements(c) : Contains(c.kids[p], x)
      BY <1>4, <1>9, <2>2
    <3> QED
      BY <2>2, <3>1 DEF ParentOf
  <2> QED
    BY <2>1, <2>2
<1>11. ParentOf(d, e) = NoElement
  BY <1>1, ParentKnown
<1>12. IsForest(c)
  <2>1. ASSUME NEW S \in (SUBSET F) \ {{}}, \A x \in S : ParentOf(c, x) \in S
        PROVE  FALSE
    <3> DEFINE T == S \ {e}
    <3>1. e \notin S
      BY <1>1, <1>10, <1>11, <2>1
    <3>2. S \in (SUBSET E) \ {{}}
      BY <2>1, <3>1
    <3> QED
      BY <1>1, <1>10, <2>1, <3>2 DEF IsForest
  <2> QED
    BY <1>4, <1>8, <2>1 DEF IsForest, OnePlaced
<1>13. IsTree(c)
  <2>1. c \in [kids : [F -> Seq(F)], decls : [F -> Seq(Name)], name : [F -> Name],
               attrs : [F -> SUBSET Name]]
    <3> DEFINE ck == c.kids
               cd == c.decls
               cn == c.name
               ca == c.attrs
    <3>1. c = [kids |-> ck, decls |-> cd, name |-> cn, attrs |-> ca]
      BY <1>3
    <3>2. ck \in [F -> Seq(F)] /\ cd \in [F -> Seq(Name)] /\ cn \in [F -> Name] /\ ca \in [F -> SUBSET Name]
      BY <1>7
    <3> HIDE DEF ck, cd, cn, ca, F
    <3> QED
      BY <3>1, <3>2
  <2> QED
    BY <1>4, <1>12, <2>1 DEF IsTree
<1>14. ASSUME NEW x \in E PROVE Line(c, x) = Line(d, x)
  BY <1>1, <1>4, <1>8, <1>10, <1>12, SameLines
<1>15. /\ c.decls[e] = decls /\ c.name[e] = name /\ c.attrs[e] = {}
       /\ \A x \in E : c.decls[x] = d.decls[x] /\ c.name[x] = d.name[x] /\ c.attrs[x] = d.attrs[x]
  BY <1>3
<1> QED
  BY <1>4, <1>10, <1>11, <1>13, <1>14, <1>15, Zenon DEF Built, c


(* b is d and an element e below parent.                                   *)
Attached(b, d, e, name, decls) ==
  /\ IsTree(b) /\ Elements(b) = Elements(d) \cup {e}
  /\ b.decls[e] = decls /\ b.name[e] = name /\ b.attrs[e] = {}
  /\ \A x \in Elements(d) :
       b.decls[x] = d.decls[x] /\ b.name[x] = d.name[x] /\ b.attrs[x] = d.attrs[x]
  /\ \A x \in Elements(d) : Line(b, x) = Line(d, x)

LEMMA AttachIs ==
  ASSUME NEW d, IsTree(d), NEW e, e \notin Elements(d), e # NoElement,
         NEW name \in Name, NEW decls \in Seq(Name), NEW parent \in Elements(d)
  PROVE  Attached(AppendTo(Build(d, e, name, decls), parent, e), d, e, name, decls)
<1> DEFINE c == Build(d, e, name, decls)
           b == AppendTo(c, parent, e)
           E == Elements(d)
<1>1. Built(c, d, e, name, decls)
  BY BuildIs
<1> HIDE DEF c
<1>2. /\ IsTree(c) /\ Elements(c) = E \cup {e}
      /\ OnePlaced(c) /\ IsForest(c) /\ OnePlaced(d) /\ IsForest(d)
      /\ ParentOf(c, e) = NoElement /\ \A x \in E : ParentOf(c, x) = ParentOf(d, x)
      /\ \A x \in E : Line(c, x) = Line(d, x)
  BY <1>1, TreePlaced DEF Built
<1>3. /\ OnePlaced(b) /\ Elements(b) = Elements(c)
      /\ b \in [kids : [Elements(b) -> Seq(Elements(b))], decls : [Elements(b) -> Seq(Name)],
                name : [Elements(b) -> Name], attrs : [Elements(b) -> SUBSET Name]]
      /\ b.decls = c.decls /\ b.name = c.name /\ b.attrs = c.attrs
      /\ \A x : ParentOf(b, x) = IF x = e THEN parent ELSE ParentOf(c, x)
  <2>1. e \in Elements(c) /\ parent \in Elements(c)
    BY <1>2
  <2> QED
    BY <1>2, <2>1, AppendToIs
<1> HIDE DEF b
<1>4. parent \notin Below(c, e)
  <2>1. Line(d, parent) \in Seq(E) /\ Line(c, parent) = Line(d, parent)
    BY <1>2, DocumentTree, LineTyped
  <2>2. ~Contains(Line(d, parent), e)
    BY <2>1, Listed
  <2> QED
    BY <2>1, <2>2 DEF Below
<1>5. IsForest(b)
  <2>1. ParentOf(b, e) = parent /\ \A x \in Elements(c) : x # e => ParentOf(b, x) = ParentOf(c, x)
    BY <1>3
  <2>2. e \in Elements(c) /\ parent \in Elements(c)
    BY <1>2
  <2> QED
    BY <1>2, <1>3, <1>4, <2>1, <2>2, Regrafted
<1>6. IsTree(b)
  BY <1>3, <1>5 DEF IsTree
<1>7. \A x \in E : ParentOf(b, x) = ParentOf(d, x)
  BY <1>2, <1>3
<1>8. \A x \in E : Line(b, x) = Line(d, x)
  <2>1. E \subseteq Elements(b)
    BY <1>2, <1>3
  <2> QED
    BY <1>2, <1>3, <1>5, <1>7, <2>1, SameLines
<1>9. /\ b.decls[e] = decls /\ b.name[e] = name /\ b.attrs[e] = {}
      /\ \A x \in E : b.decls[x] = d.decls[x] /\ b.name[x] = d.name[x] /\ b.attrs[x] = d.attrs[x]
  BY <1>1, <1>3, Zenon DEF Built
<1> QED
  BY <1>2, <1>3, <1>6, <1>8, <1>9, Zenon DEF Attached, b, c

(* What NewSubElement attaches, before the name is finalized.              *)
Grown(b, d, e, prefix, ns, nsmap) ==
  /\ <<prefix, ns>> \in Name /\ nsmap \in Seq(Name)
  /\ e \notin Elements(d)
  /\ Attached(b, d, e, <<prefix, ns>>, nsmap)
  /\ IsDocument(b)
  /\ DefaultAtHand(b, e, prefix, ns)
  /\ ns # "" /\ prefix # "" =>
       Contains(DeclsAlong(b, Line(b, e)), <<prefix, ns>>) \/ prefix = Registry[ns]

LEMMA NewElementIs ==
  ASSUME NEW d, IsDocument(d), NEW e \in Spare, e \notin Elements(d), NEW parent \in Elements(d),
         NEW ns \in Uris, NEW nsmap \in Nsmaps,
         \A i \in DOMAIN nsmap : ValidDeclaration(nsmap[i][1], nsmap[i][2]),
         ValidQName(PrefixForNs(ns, nsmap), ns)
  PROVE  LET prefix == PrefixForNs(ns, nsmap)
         IN  Grown(AppendTo(Build(d, e, <<prefix, ns>>, nsmap), parent, e), d, e, prefix, ns, nsmap)
<1> DEFINE prefix == PrefixForNs(ns, nsmap)
           name == <<prefix, ns>>
           b == AppendTo(Build(d, e, name, nsmap), parent, e)
<1>1. nsmap \in Seq(Name) /\ OncePerPrefix(nsmap) /\ e # NoElement
  BY NamespacesAssumption, Zenon
<1>2. /\ <<prefix, ns>> \in Name
      /\ ns # "" /\ prefix = "" /\ Registry[ns] # "" => Contains(nsmap, <<"", ns>>)
      /\ ns # "" /\ prefix # "" => Contains(nsmap, <<prefix, ns>>) \/ prefix = Registry[ns]
  <2>1. nsmap \in Seq(Name)
    BY <1>1
  <2> HIDE DEF name, b
  <2> QED
    BY <2>1, PrefixForNsIs, Zenon
<1>3. Reserved(prefix, ns) /\ Written(prefix, ns)
  BY QNameReserved
<1>4. name[1] = prefix /\ name[2] = ns
  BY PairParts, Zenon
<1>5. IsTree(d) /\ \A x \in Elements(d) : WellNamed(d, x)
  BY DocumentIs
<1>6. Attached(b, d, e, name, nsmap)
  <2>1. nsmap \in Seq(Name) /\ name \in Name /\ e # NoElement /\ e \notin Elements(d) /\ IsTree(d)
    BY <1>1, <1>2, <1>5, Zenon
  <2> HIDE DEF name
  <2> QED
    BY <2>1, AttachIs, Zenon
<1> HIDE DEF b, prefix, name
<1>7. /\ IsTree(b) /\ Elements(b) = Elements(d) \cup {e}
      /\ b.decls[e] = nsmap /\ b.name[e] = name /\ b.attrs[e] = {}
  BY <1>6 DEF Attached
<1>8. \A pair \in ToSet(nsmap) : Reserved(pair[1], pair[2])
  <2>1. ASSUME NEW pair \in ToSet(nsmap) PROVE Reserved(pair[1], pair[2])
    <3>1. PICK i \in DOMAIN nsmap : nsmap[i] = pair
      BY <1>1, <2>1, Listed
    <3>2. ValidDeclaration(pair[1], pair[2])
      BY <3>1
    <3> DEFINE p == pair[1]
               u == pair[2]
    <3>3. ValidDeclaration(p, u)
      BY <3>2
    <3> HIDE DEF p, u
    <3>4. Reserved(p, u)
      BY <3>3 DEF ValidDeclaration, Reserved
    <3> QED
      BY <3>4 DEF p, u
  <2> QED
    BY <2>1
<1>9. WellNamed(b, e)
  <2>1. \A x \in b.attrs[e] \cup {b.name[e]} : Reserved(x[1], x[2]) /\ (x[2] = "" => x[1] = "")
    BY <1>3, <1>4, <1>7, Zenon DEF Written
  <2>2. \A x, y \in b.attrs[e] : x[2] = y[2] => x = y
    BY <1>7
  <2> QED
    BY <1>1, <1>7, <1>8, <2>1, <2>2, Zenon DEF WellNamed
<1>10. \A x \in Elements(d) : WellNamed(b, x)
  BY <1>5, <1>6, Zenon DEF WellNamed, Attached
<1>11. IsDocument(b)
  BY <1>7, <1>9, <1>10, DocumentIs
<1>12. /\ \A x : Contains(nsmap, x) => Contains(DeclsAlong(b, Line(b, e)), x)
       /\ name = <<prefix, ns>>
  <2>1. e \in Elements(b)
    BY <1>7
  <2>l. /\ Len(Line(b, e)) \in Nat /\ Len(Line(b, e)) > 0
        /\ DOMAIN Line(b, e) = 1..Len(Line(b, e)) /\ Line(b, e)[1] = e
    BY <1>7, <2>1, LineTyped, Zenon
  <2>2. 1 \in DOMAIN Line(b, e) /\ Line(b, e)[1] = e
    BY <2>l
  <2>3. \A x : Contains(b.decls[e], x) => Contains(DeclsAlong(b, Line(b, e)), x)
    BY <1>7, <2>1, <2>2, SeenIs
  <2> QED
    BY <1>7, <2>3 DEF name
<1>13. DefaultAtHand(b, e, prefix, ns)
  BY <1>2, <1>12, Zenon DEF DefaultAtHand
<1> QED
  BY <1>1, <1>2, <1>6, <1>11, <1>12, <1>13, Zenon DEF Grown, b, name, prefix

LEMMA NewSubElementKeeps ==
  ASSUME TypeOK, NEW parent \in Elements(doc), NEW e \in Spare, NEW ns \in Uris,
         NEW nsmap \in Nsmaps, NewSubElement(parent, e, ns, nsmap)
  PROVE  TypeOK'
<1> DEFINE prefix == PrefixForNs(ns, nsmap)
           b == AppendTo(Build(doc, e, <<prefix, ns>>, nsmap), parent, e)
           r == FinalizeElementNs([d |-> b, n |-> counter], e)
<1>1. /\ e \notin Elements(doc)
      /\ \A i \in DOMAIN nsmap : ValidDeclaration(nsmap[i][1], nsmap[i][2])
      /\ ValidQName(prefix, ns) /\ NumbersLeft(b, e, counter)
      /\ doc' = r.d /\ counter' = r.n
  BY Zenon DEF NewSubElement
<1>2. counter \in 0..Len(Generated) /\ IsDocument(doc)
  BY DEF TypeOK
<1>3. Grown(b, doc, e, prefix, ns, nsmap)
  BY <1>1, <1>2, NewElementIs
<1> HIDE DEF b, prefix, r
<1>4. /\ <<prefix, ns>> \in Name /\ IsDocument(b) /\ e \in Elements(b)
      /\ b.name[e] = <<prefix, ns>> /\ DefaultAtHand(b, e, prefix, ns)
  BY <1>3, Zenon DEF Grown, Attached
<1>5. IsTree(b)
  BY <1>4, DocumentTree
<1>6. FinalizedAs(b, e, counter, prefix, ns, r)
  BY <1>1, <1>2, <1>4, <1>5, FinalizeIs DEF r
<1>7. IsDocument(r.d) /\ r.n \in 0..Len(Generated)
  BY <1>1, <1>2, <1>4, <1>6, FinalizedKeeps
<1> QED
  BY <1>1, <1>7 DEF TypeOK

LEMMA NextKeeps ==
  ASSUME TypeOK, [Next]_vars
  PROVE  TypeOK'
<1>1. CASE UNCHANGED vars
  BY <1>1 DEF TypeOK, vars
<1>2. ASSUME NEW e \in Elements(doc), NEW ns \in Uris, SetAttribute(e, ns)
      PROVE  TypeOK'
  BY <1>2, SetAttributeKeeps
<1>3. ASSUME NEW e \in Elements(doc), NEW prefix \in Declarable, NEW uri \in Uris,
             SetXmlns(e, prefix, uri)
      PROVE  TypeOK'
  BY <1>3, SetXmlnsKeeps
<1>4. ASSUME NEW e \in Elements(doc), NEW ns \in Uris, RemoveAttribute(e, ns)
      PROVE  TypeOK'
  BY <1>4, RemoveAttributeKeeps
<1>5. ASSUME NEW e \in Elements(doc), NEW ns \in Uris, SetTag(e, ns)
      PROVE  TypeOK'
  BY <1>5, SetTagKeeps
<1>6. ASSUME NEW e \in Elements(doc), NEW prefix \in Declarable, NEW ns \in Uris,
             SetQName(e, prefix, ns)
      PROVE  TypeOK'
  BY <1>6, SetQNameKeeps
<1>7. ASSUME NEW e \in Elements(doc), NEW new \in Spare, NEW ns \in Uris, NEW nsmap \in Nsmaps,
             NewSubElement(e, new, ns, nsmap)
      PROVE  TypeOK'
  BY <1>7, NewSubElementKeeps
<1>8. ASSUME NEW e \in Elements(doc), NEW parent \in Elements(doc), Move(e, parent)
      PROVE  TypeOK'
  BY <1>8, MoveKeeps
<1> QED
  BY <1>1, <1>2, <1>3, <1>4, <1>5, <1>6, <1>7, <1>8, Zenon DEF Next

LEMMA InitTyped ==
  ASSUME Init
  PROVE  TypeOK
<1>1. IsDocument(doc) /\ counter = 0
  BY NamespacesAssumption, Zenon DEF Init
<1>2. Len(Generated) \in Nat
  BY GeneratedAre, Zenon
<1> QED
  BY <1>1, <1>2 DEF TypeOK

(* Every sequence of the operations leaves a document as IsDocument        *)
(* has it: a tree, no prefix declared twice in a start tag, no two attributes*)
(* of one name, the reserved prefixes and namespaces kept apart (set, tag, *)
(* SubElement, set_qname and append, with the prefixes they generate).     *)
THEOREM TypeCorrect == Spec => []TypeOK
<1>1. Init => TypeOK
  BY InitTyped
<1>2. TypeOK /\ [Next]_vars => TypeOK'
  BY NextKeeps
<1> QED
  BY <1>1, <1>2, PTL DEF Spec


-----------------------------------------------------------------------------
(* The prefix chosen for a name.                                           *)

(* What has the same children and declarations is seen alike.              *)
LEMMA SeenAlike ==
  ASSUME NEW d, IsTree(d), NEW e \in Elements(d), NEW c, c.kids = d.kids, c.decls = d.decls
  PROVE  DeclsAlong(c, Line(c, e)) = DeclsAlong(d, Line(d, e))
<1>1. Line(c, e) = Line(d, e)
  BY TreePlaced, SameKids
<1> QED
  BY <1>1, Zenon DEF DeclsAlong

(* An element sees what it declares.                                       *)
LEMMA OwnSeen ==
  ASSUME NEW d, IsTree(d), NEW e \in Elements(d), NEW x, Contains(d.decls[e], x)
  PROVE  Contains(DeclsAlong(d, Line(d, e)), x)
<1>1. 1 \in DOMAIN Line(d, e) /\ Line(d, e)[1] = e
  BY LineTyped
<1>2. \E i \in DOMAIN Line(d, e) : Contains(d.decls[Line(d, e)[i]], x)
  BY <1>1
<1> QED
  BY <1>2, SeenIs

LEMMA DeclaredSeen ==
  ASSUME NEW d, IsTree(d), NEW e \in Elements(d), NEW q, NEW v, <<q, v>> \in Name,
         NEW c, DeclaredOn(c, d, e, q, v)
  PROVE  Contains(DeclsAlong(c, Line(c, e)), <<q, v>>)
<1> DEFINE s == d.decls[e]
<1>1. IsTree(c) /\ Elements(c) = Elements(d) /\ c.decls[e] = Put(s, <<q, v>>)
  BY DEF DeclaredOn
<1>2. s \in Seq(Name)
  BY TreeTyped
<1> HIDE DEF s
<1>3. Contains(Put(s, <<q, v>>), <<q, v>>)
  BY <1>2, PutIs
<1>4. Contains(c.decls[e], <<q, v>>)
  BY <1>1, <1>3, Zenon
<1> DEFINE x == <<q, v>>
<1>5. Contains(c.decls[e], x) /\ e \in Elements(c)
  BY <1>1, <1>4
<1> HIDE DEF x
<1>6. Contains(DeclsAlong(c, Line(c, e)), x)
  BY <1>1, <1>5, OwnSeen
<1> QED
  BY <1>6 DEF x

(* The nearest declaration of a prefix decides, wherever the line starts.  *)
LEMMA NearestIs ==
  ASSUME NEW d, NEW line, DOMAIN line \subseteq Nat, NEW p, NEW j \in DeclaringPlaces(d, line, p),
         \A i \in DeclaringPlaces(d, line, p) : j <= i
  PROVE  NearestOn(d, line, p) = Meaning(d.decls[line[j]], p)
<1> DEFINE places == DeclaringPlaces(d, line, p)
<1>1. places \in SUBSET Nat /\ places # {}
  BY DEF DeclaringPlaces
<1>2. Min(places) \in places /\ \A i \in places : Min(places) <= i
  <2> HIDE DEF places
  <2> QED
    BY <1>1, SmallestIs
<1>3. Min(places) = j
  <2> DEFINE m == Min(places)
  <2>1. m \in Nat /\ j \in Nat /\ m <= j /\ j <= m
    BY <1>1, <1>2
  <2> HIDE DEF m
  <2>2. m = j
    BY <2>1
  <2> QED
    BY <2>2 DEF m
<1>4. NearestOn(d, line, p) = Meaning(d.decls[line[Min(places)]], p)
  BY <1>1, Zenon DEF NearestOn
<1> QED
  BY <1>3, <1>4

(* A prefix that is offered for ns means ns, unless it is hidden.          *)
Found(d, e, p, ns) ==
  \/ Resolve(d, e, p) = ns
  \/ \E i, j \in DOMAIN Line(d, e) :
       /\ i < j
       /\ Contains(d.decls[Line(d, e)[j]], <<p, ns>>)
       /\ HasPrefix(d.decls[Line(d, e)[i]], p)

LEMMA SeenFound ==
  ASSUME NEW d, IsDocument(d), NEW e \in Elements(d), NEW p, NEW ns,
         Contains(DeclsAlong(d, Line(d, e)), <<p, ns>>)
  PROVE  Found(d, e, p, ns)
<1> DEFINE line == Line(d, e)
<1>1. IsTree(d) /\ \A x \in Elements(d) : WellNamed(d, x)
  BY DocumentIs
<1>2. PICK j \in DOMAIN line : Contains(d.decls[line[j]], <<p, ns>>)
  BY <1>1, SeenIs
<1>3. /\ DOMAIN line = 1..Len(line) /\ Len(line) \in Nat
      /\ \A i \in DOMAIN line : line[i] \in Elements(d) /\ d.decls[line[i]] \in Seq(Name)
  BY <1>1, LineTyped
<1> HIDE DEF line
<1>4. DOMAIN line \subseteq Nat
  BY <1>3
<1> DEFINE s == d.decls[line[j]]
<1>5. s \in Seq(Name) /\ OncePerPrefix(s) /\ Contains(s, <<p, ns>>)
  <2>1. line[j] \in Elements(d) /\ s \in Seq(Name)
    BY <1>3
  <2>2. OncePerPrefix(s)
    BY <1>1, <2>1, Zenon DEF WellNamed
  <2> QED
    BY <1>2, <2>1, <2>2, Zenon
<1> HIDE DEF s
<1>6. HasPrefix(s, p) /\ Meaning(s, p) = ns
  BY <1>5, PrefixListed
<1>7. j \in DeclaringPlaces(d, line, p)
  BY <1>6 DEF DeclaringPlaces, s
<1>8. CASE \E i \in DeclaringPlaces(d, line, p) : i < j
  BY <1>2, <1>8 DEF Found, DeclaringPlaces, line
<1>9. CASE ~\E i \in DeclaringPlaces(d, line, p) : i < j
  <2>1. \A i \in DeclaringPlaces(d, line, p) : j <= i
    BY <1>4, <1>9 DEF DeclaringPlaces
  <2>2. NearestOn(d, line, p) = Meaning(s, p)
    BY <1>4, <1>7, <2>1, NearestIs DEF s
  <2>3. Resolve(d, e, p) = ns
    BY <1>6, <2>2 DEF Resolve, line
  <2> QED
    BY <2>3 DEF Found
<1> QED
  BY <1>8, <1>9

(* The name an element ends up with has a prefix that is offered.          *)
LEMMA FinalizedSeen ==
  ASSUME NEW d, IsDocument(d), NEW e \in Elements(d), NEW n,
         NEW prefix, NEW ns, <<prefix, ns>> \in Name, d.name[e] = <<prefix, ns>>,
         NEW r, FinalizedAs(d, e, n, prefix, ns, r), Written(prefix, ns)
  PROVE  \/ ns = ""
         \/ Contains(DeclsAlong(r.d, Line(r.d, e)), <<r.d.name[e][1], ns>>)
<1>0. IsTree(d)
  BY DocumentTree
<1>1. ASSUME NEW c, IsTree(c), e \in Elements(c), NEW q,
             Contains(DeclsAlong(c, Line(c, e)), <<q, ns>>),
             r.d = [c EXCEPT !.name[e] = <<q, ns>>]
      PROVE  Contains(DeclsAlong(r.d, Line(r.d, e)), <<r.d.name[e][1], ns>>)
  <2> DEFINE b == [c EXCEPT !.name[e] = <<q, ns>>]
  <2>1. b.kids = c.kids /\ b.decls = c.decls /\ b.name[e] = <<q, ns>>
    <3>1. c \in [kids : [Elements(c) -> Seq(Elements(c))], decls : [Elements(c) -> Seq(Name)],
                 name : [Elements(c) -> Name], attrs : [Elements(c) -> SUBSET Name]]
      BY <1>1, TreeTyped
    <3>2. e \in Elements(c)
      BY <1>1
    <3> QED
      BY <3>1, <3>2
  <2> HIDE DEF b
  <2>2. DeclsAlong(b, Line(b, e)) = DeclsAlong(c, Line(c, e))
    BY <1>1, <2>1, SeenAlike
  <2>3. b.name[e][1] = q
    BY <2>1, PairParts, Zenon
  <2>4. r.d = b
    BY <1>1 DEF b
  <2> QED
    BY <1>1, <2>2, <2>3, <2>4, Zenon
<1>2. ASSUME NEW q, Contains(DeclsAlong(d, Line(d, e)), <<q, ns>>),
             r.d = [d EXCEPT !.name[e] = <<q, ns>>]
      PROVE  Contains(DeclsAlong(r.d, Line(r.d, e)), <<r.d.name[e][1], ns>>)
  BY <1>0, <1>1, <1>2
<1>3. ASSUME r.d = Declare(d, e, prefix, ns)
      PROVE  Contains(DeclsAlong(r.d, Line(r.d, e)), <<r.d.name[e][1], ns>>)
  <2> DEFINE c == Declare(d, e, prefix, ns)
  <2>1. DeclaredOn(c, d, e, prefix, ns)
    BY <1>0, DeclareIs
  <2> HIDE DEF c
  <2>2. Contains(DeclsAlong(c, Line(c, e)), <<prefix, ns>>)
    BY <1>0, <2>1, DeclaredSeen
  <2>3. c.name[e][1] = prefix
    <3>1. c.name = d.name
      BY <2>1 DEF DeclaredOn
    <3>2. c.name[e] = <<prefix, ns>>
      BY <3>1
    <3> QED
      BY <3>2, PairParts, Zenon
  <2> QED
    BY <1>3, <2>2, <2>3, Zenon DEF c
<1>4. ASSUME NEW m, DeclaredFor(d, e, ns, m),
             r.d = [m.d EXCEPT !.name[e] = <<m.prefix, ns>>]
      PROVE  Contains(DeclsAlong(r.d, Line(r.d, e)), <<r.d.name[e][1], ns>>)
  <2> DEFINE c == m.d
             q == m.prefix
  <2>1. c = Declare(d, e, q, ns) /\ <<q, ns>> \in Name
    BY <1>4, Zenon DEF DeclaredFor
  <2>2. r.d = [c EXCEPT !.name[e] = <<q, ns>>]
    BY <1>4
  <2> HIDE DEF c, q
  <2>3. DeclaredOn(c, d, e, q, ns)
    BY <1>0, <2>1, DeclareIs
  <2>4. Contains(DeclsAlong(c, Line(c, e)), <<q, ns>>)
    BY <1>0, <2>1, <2>3, DeclaredSeen
  <2>5. IsTree(c) /\ e \in Elements(c)
    BY <2>3 DEF DeclaredOn
  <2> QED
    BY <1>1, <2>2, <2>4, <2>5
<1> QED
  BY <1>2, <1>3, <1>4, Zenon DEF FinalizedAs


LEMMA RenamedIs ==
  ASSUME NEW d, IsTree(d), NEW e \in Elements(d), NEW x
  PROVE  LET b == [d EXCEPT !.name[e] = x]
         IN  b.kids = d.kids /\ b.decls = d.decls /\ b.name[e] = x /\ Elements(b) = Elements(d)
<1>1. d \in [kids : [Elements(d) -> Seq(Elements(d))], decls : [Elements(d) -> Seq(Name)],
             name : [Elements(d) -> Name], attrs : [Elements(d) -> SUBSET Name]]
  BY TreeTyped
<1> QED
  BY <1>1 DEF Elements

(* Finalizing a name leaves the tree as it is, and the declarations but for*)
(* one prefix that it may declare on the element.                          *)
FinalizedDecls(b, d, e, prefix, ns) ==
  /\ Elements(b) = Elements(d) /\ b.kids = d.kids
  /\ \/ b.decls = d.decls
     \/ \E q : /\ <<q, ns>> \in Name
               /\ \/ /\ ns # "" /\ prefix # "" /\ q = prefix
                     /\ ~Contains(DeclsAlong(d, Line(d, e)), <<prefix, ns>>)
                  \/ q \in {Registry[ns]} \ {""}
                  \/ q \notin Inscope(d, e) \cup {"", "xml"}
               /\ b.decls[e] = Put(d.decls[e], <<q, ns>>)
               /\ \A x \in Elements(d) : x # e => b.decls[x] = d.decls[x]

LEMMA FinalizedTree ==
  ASSUME NEW d, IsTree(d), NEW e \in Elements(d), NEW n, NEW prefix, NEW ns,
         <<prefix, ns>> \in Name, NEW r, FinalizedAs(d, e, n, prefix, ns, r)
  PROVE  FinalizedDecls(r.d, d, e, prefix, ns)
<1>1. ASSUME r.d = d PROVE FinalizedDecls(r.d, d, e, prefix, ns)
  BY <1>1, Zenon DEF FinalizedDecls
<1>2. ASSUME NEW q, r.d = [d EXCEPT !.name[e] = <<q, ns>>]
      PROVE  FinalizedDecls(r.d, d, e, prefix, ns)
  <2> DEFINE x == <<q, ns>>
  <2>1. r.d = [d EXCEPT !.name[e] = x]
    BY <1>2
  <2> HIDE DEF x
  <2>2. r.d.kids = d.kids /\ r.d.decls = d.decls /\ Elements(r.d) = Elements(d)
    BY <2>1, RenamedIs
  <2> QED
    BY <2>2, Zenon DEF FinalizedDecls
<1>3. ASSUME ns # "", prefix # "", ~Contains(DeclsAlong(d, Line(d, e)), <<prefix, ns>>),
             r.d = Declare(d, e, prefix, ns)
      PROVE  FinalizedDecls(r.d, d, e, prefix, ns)
  <2>1. DeclaredOn(r.d, d, e, prefix, ns)
    BY <1>3, DeclareIs, Zenon
  <2> QED
    BY <1>3, <2>1, Zenon DEF DeclaredOn, FinalizedDecls
<1>4. ASSUME NEW m, DeclaredFor(d, e, ns, m),
             r.d = [m.d EXCEPT !.name[e] = <<m.prefix, ns>>]
      PROVE  FinalizedDecls(r.d, d, e, prefix, ns)
  <2> DEFINE c == m.d
             q == m.prefix
             x == <<q, ns>>
  <2>1. /\ c = Declare(d, e, q, ns) /\ <<q, ns>> \in Name /\ q # ""
        /\ \/ q = Registry[ns]
           \/ Registry[ns] = "" /\ q \notin Inscope(d, e) /\ q # "xml"
    BY <1>4, Zenon DEF DeclaredFor
  <2>2. r.d = [c EXCEPT !.name[e] = x]
    BY <1>4
  <2>3. q \in {Registry[ns]} \ {""} \/ q \notin Inscope(d, e) \cup {"", "xml"}
    BY <2>1, Zenon
  <2> HIDE DEF c, q
  <2>4. DeclaredOn(c, d, e, q, ns)
    BY <2>1, DeclareIs, Zenon
  <2>5. IsTree(c) /\ e \in Elements(c)
    BY <2>4 DEF DeclaredOn
  <2> HIDE DEF x
  <2>6. r.d.kids = c.kids /\ r.d.decls = c.decls /\ Elements(r.d) = Elements(c)
    BY <2>2, <2>5, RenamedIs
  <2> QED
    BY <2>1, <2>3, <2>4, <2>6, Zenon DEF DeclaredOn, FinalizedDecls
<1> QED
  BY <1>1, <1>2, <1>3, <1>4, Zenon DEF FinalizedAs

(* The strengthening: the prefix the last operation chose is declared on   *)
(* the way up for the namespace it was chosen for.                         *)
ChosenIsSeen ==
  Chosen =>
    /\ last.element \in Elements(doc)
    /\ Contains(DeclsAlong(doc, Line(doc, last.element)), <<last.prefix, last.ns>>)
    /\ last.op = "attribute" => last.prefix # ""

LEMMA SeenResolves ==
  ASSUME TypeOK, ChosenIsSeen
  PROVE  NamesResolveUnlessHidden
<1> SUFFICES ASSUME Chosen PROVE ResolvesThere \/ Hidden
  BY DEF NamesResolveUnlessHidden
<1> DEFINE e == last.element
           p == last.prefix
           ns == last.ns
<1>1. /\ IsDocument(doc) /\ e \in Elements(doc)
      /\ Contains(DeclsAlong(doc, Line(doc, e)), <<p, ns>>)
      /\ last.op = "attribute" => p # ""
  BY Zenon DEF TypeOK, ChosenIsSeen
<1> HIDE DEF e, p, ns
<1>2. Found(doc, e, p, ns)
  BY <1>1, SeenFound, Zenon
<1> QED
  BY <1>1, <1>2, Zenon DEF Found, ResolvesThere, Hidden, e, p, ns

LEMMA SetAttributeSeen ==
  ASSUME TypeOK, NEW e \in Elements(doc), NEW ns \in Uris, SetAttribute(e, ns)
  PROVE  ChosenIsSeen'
<1> DEFINE w == [d |-> doc, n |-> counter, prefix |-> ""]
           r == IF ns = "" THEN w ELSE EnsureNsPrefix(w, e, ns)
<1>1. counter \in 0..Len(Generated) /\ IsTree(doc)
  BY DocumentTree DEF TypeOK
<1>2. /\ NumbersLeft(doc, e, counter)
      /\ \/ /\ \E attrs \in WithAttribute(doc.attrs[e], r.prefix, ns) :
                 doc' = [r.d EXCEPT !.attrs[e] = attrs]
            /\ last' = [op |-> "attribute", element |-> e, prefix |-> r.prefix, ns |-> ns]
         \/ last' = [op |-> "other", element |-> NoElement, prefix |-> "", ns |-> ""]
  BY Zenon DEF SetAttribute, Edit, OtherEdit
<1>3. w.d = doc /\ w.n = counter
  OBVIOUS
<1> HIDE DEF w
<1>4. CASE last' = [op |-> "other", element |-> NoElement, prefix |-> "", ns |-> ""]
  BY <1>4, Zenon DEF ChosenIsSeen, Chosen
<1>5. CASE ns = "" /\ last' = [op |-> "attribute", element |-> e, prefix |-> r.prefix, ns |-> ns]
  <2> HIDE DEF r
  <2> QED
    BY <1>5, Zenon DEF ChosenIsSeen, Chosen
<1>6. ASSUME ns # "", NEW attrs, doc' = [r.d EXCEPT !.attrs[e] = attrs],
             last' = [op |-> "attribute", element |-> e, prefix |-> r.prefix, ns |-> ns]
      PROVE  ChosenIsSeen'
  <2>1. r = EnsureNsPrefix(w, e, ns)
    BY <1>6, Zenon
  <2> HIDE DEF r
  <2>2. (OfferedBy(doc, e, counter, ns, r) \/ DeclaredFor(doc, e, ns, r)) /\ r.prefix # ""
    BY <1>1, <1>2, <1>3, <2>1, EnsureNsPrefixIs, Zenon
  <2> DEFINE c == r.d
             q == r.prefix
  <2>3. /\ IsTree(c) /\ e \in Elements(c)
        /\ Contains(DeclsAlong(c, Line(c, e)), <<q, ns>>)
    <3>1. CASE OfferedBy(doc, e, counter, ns, r)
      <4>1. c = doc /\ Contains(DeclsAlong(doc, Line(doc, e)), <<q, ns>>)
        BY <3>1, Zenon DEF OfferedBy
      <4> QED
        BY <1>1, <4>1, Zenon
    <3>2. CASE DeclaredFor(doc, e, ns, r)
      <4>1. c = Declare(doc, e, q, ns) /\ <<q, ns>> \in Name
        BY <3>2, Zenon DEF DeclaredFor
      <4> HIDE DEF c, q
      <4>2. DeclaredOn(c, doc, e, q, ns)
        BY <1>1, <4>1, DeclareIs
      <4>3. Contains(DeclsAlong(c, Line(c, e)), <<q, ns>>)
        BY <1>1, <4>1, <4>2, DeclaredSeen
      <4> QED
        BY <4>2, <4>3 DEF DeclaredOn
    <3> QED
      BY <2>2, <3>1, <3>2, Zenon
  <2> HIDE DEF c
  <2> DEFINE b == [c EXCEPT !.attrs[e] = attrs]
  <2>4. doc' = b
    BY <1>6, Zenon DEF c
  <2>5. b.kids = c.kids /\ b.decls = c.decls
    <3>1. c \in [kids : [Elements(c) -> Seq(Elements(c))], decls : [Elements(c) -> Seq(Name)],
                 name : [Elements(c) -> Name], attrs : [Elements(c) -> SUBSET Name]]
      BY <2>3, TreeTyped
    <3> QED
      BY <3>1
  <2> HIDE DEF b
  <2>6. Elements(b) = Elements(c) /\ DeclsAlong(b, Line(b, e)) = DeclsAlong(c, Line(c, e))
    BY <2>3, <2>5, SeenAlike DEF Elements
  <2>7. /\ last'.element = e /\ last'.prefix = q /\ last'.ns = ns
        /\ last'.op = "attribute"
    BY <1>6, Zenon DEF q
  <2>8. Contains(DeclsAlong(b, Line(b, e)), <<q, ns>>) /\ e \in Elements(b) /\ q # ""
    BY <2>2, <2>3, <2>6, Zenon DEF q
  <2> QED
    BY <2>4, <2>7, <2>8, Zenon DEF ChosenIsSeen
<1> QED
  BY <1>2, <1>4, <1>5, <1>6, Zenon

LEMMA SetTagSeen ==
  ASSUME TypeOK, NEW e \in Elements(doc), NEW ns \in Uris, SetTag(e, ns)
  PROVE  ChosenIsSeen'
<1> DEFINE prefix == PrefixForNs(ns, Nsmap(doc, e))
           c == [doc EXCEPT !.name[e] = <<prefix, ns>>]
           r == FinalizeElementNs([d |-> c, n |-> counter], e)
<1>1. /\ NumbersLeft(doc, e, counter) /\ ValidQName(prefix, ns)
      /\ doc' = r.d
      /\ last' = [op |-> "tag", element |-> e, prefix |-> r.d.name[e][1], ns |-> ns]
  BY Zenon DEF SetTag, Edit
<1>2. counter \in 0..Len(Generated) /\ IsDocument(doc)
  BY DEF TypeOK
<1>3. /\ <<prefix, ns>> \in Name
      /\ IsDocument(c) /\ Elements(c) = Elements(doc) /\ c.name[e] = <<prefix, ns>>
      /\ c.decls = doc.decls
      /\ \A x \in Elements(doc) : Line(c, x) = Line(doc, x)
      /\ DefaultAtHand(c, e, prefix, ns)
  <2>1. prefix = PrefixForNs(ns, Nsmap(doc, e)) /\ c = [doc EXCEPT !.name[e] = <<prefix, ns>>]
    OBVIOUS
  <2> HIDE DEF c, r
  <2>2. ValidQName(PrefixForNs(ns, Nsmap(doc, e)), ns)
    BY <1>1
  <2> HIDE DEF prefix
  <2>3. NamedAs(doc, c, e, prefix, ns)
    BY <1>2, <2>1, <2>2, NamedIs
  <2> QED
    BY <2>3 DEF NamedAs
<1> HIDE DEF c, prefix, r
<1>4. NumbersLeft(c, e, counter)
  BY <1>1, <1>3, Zenon DEF NumbersLeft, Inscope, DeclsAlong
<1>5. IsTree(c) /\ Written(prefix, ns)
  BY <1>1, <1>3, DocumentTree, QNameReserved
<1>6. FinalizedAs(c, e, counter, prefix, ns, r)
  BY <1>2, <1>3, <1>4, <1>5, FinalizeIs DEF r
<1>7. ns = "" \/ Contains(DeclsAlong(r.d, Line(r.d, e)), <<r.d.name[e][1], ns>>)
  BY <1>3, <1>5, <1>6, FinalizedSeen, Zenon
<1>8. e \in Elements(r.d)
  <2>1. FinalizedDecls(r.d, c, e, prefix, ns)
    BY <1>3, <1>5, <1>6, FinalizedTree, Zenon
  <2> QED
    BY <1>3, <2>1, Zenon DEF FinalizedDecls
<1>9. /\ last'.element = e /\ last'.prefix = r.d.name[e][1] /\ last'.ns = ns
      /\ last'.op # "attribute"
  BY <1>1
<1> QED
  BY <1>1, <1>7, <1>8, <1>9, Zenon DEF ChosenIsSeen, Chosen

LEMMA NewSubElementSeen ==
  ASSUME TypeOK, NEW parent \in Elements(doc), NEW e \in Spare, NEW ns \in Uris,
         NEW nsmap \in Nsmaps, NewSubElement(parent, e, ns, nsmap)
  PROVE  ChosenIsSeen'
<1> DEFINE prefix == PrefixForNs(ns, nsmap)
           b == AppendTo(Build(doc, e, <<prefix, ns>>, nsmap), parent, e)
           r == FinalizeElementNs([d |-> b, n |-> counter], e)
<1>1. /\ e \notin Elements(doc)
      /\ \A i \in DOMAIN nsmap : ValidDeclaration(nsmap[i][1], nsmap[i][2])
      /\ ValidQName(prefix, ns) /\ NumbersLeft(b, e, counter)
      /\ doc' = r.d
      /\ last' = [op |-> "subelement", element |-> e, prefix |-> r.d.name[e][1], ns |-> ns]
  BY Zenon DEF NewSubElement, Edit
<1>2. counter \in 0..Len(Generated) /\ IsDocument(doc)
  BY DEF TypeOK
<1>3. Grown(b, doc, e, prefix, ns, nsmap)
  BY <1>1, <1>2, NewElementIs
<1> HIDE DEF b, prefix, r
<1>4. /\ <<prefix, ns>> \in Name /\ IsDocument(b) /\ e \in Elements(b)
      /\ b.name[e] = <<prefix, ns>>
  BY <1>3, Zenon DEF Grown, Attached
<1>5. IsTree(b) /\ Written(prefix, ns)
  BY <1>1, <1>4, DocumentTree, QNameReserved
<1>6. FinalizedAs(b, e, counter, prefix, ns, r)
  BY <1>1, <1>2, <1>4, <1>5, FinalizeIs DEF r
<1>7. ns = "" \/ Contains(DeclsAlong(r.d, Line(r.d, e)), <<r.d.name[e][1], ns>>)
  BY <1>4, <1>5, <1>6, FinalizedSeen, Zenon
<1>8. e \in Elements(r.d)
  <2>1. FinalizedDecls(r.d, b, e, prefix, ns)
    BY <1>4, <1>5, <1>6, FinalizedTree, Zenon
  <2> QED
    BY <1>4, <2>1, Zenon DEF FinalizedDecls
<1>9. /\ last'.element = e /\ last'.prefix = r.d.name[e][1] /\ last'.ns = ns
      /\ last'.op # "attribute"
  BY <1>1
<1> QED
  BY <1>1, <1>7, <1>8, <1>9, Zenon DEF ChosenIsSeen, Chosen

(* The prefix that set, tag and SubElement choose for a namespace means it *)
(* at the element, unless the declaration it was taken from is hidden by a *)
(* nearer one of the same prefix (_ensure_ns_prefix, _finalize_element_ns).*)
THEOREM NamesResolve == Spec => []NamesResolveUnlessHidden
<1>1. Init => TypeOK /\ ChosenIsSeen
  <2> SUFFICES ASSUME Init PROVE TypeOK /\ ChosenIsSeen
    OBVIOUS
  <2>1. last.op = "none"
    BY Zenon DEF Init, NoOperation
  <2> QED
    BY <2>1, InitTyped DEF ChosenIsSeen, Chosen
<1>2. TypeOK /\ ChosenIsSeen /\ [Next]_vars => ChosenIsSeen'
  <2> SUFFICES ASSUME TypeOK, ChosenIsSeen, [Next]_vars PROVE ChosenIsSeen'
    OBVIOUS
  <2>1. CASE UNCHANGED vars
    BY <2>1, Zenon DEF ChosenIsSeen, Chosen, vars
  <2>2. ASSUME last'.op \notin {"attribute", "tag", "subelement"} PROVE ChosenIsSeen'
    BY <2>2, Zenon DEF ChosenIsSeen, Chosen
  <2>3. ASSUME NEW e \in Elements(doc), NEW ns \in Uris, SetAttribute(e, ns)
        PROVE  ChosenIsSeen'
    BY <2>3, SetAttributeSeen
  <2>4. ASSUME NEW e \in Elements(doc), NEW prefix \in Declarable, NEW uri \in Uris,
               SetXmlns(e, prefix, uri)
        PROVE  ChosenIsSeen'
    <3>1. last'.op = "declaration" \/ last'.op = "other"
      <4>1. CASE ValidDeclaration(prefix, uri)
        <5>1. Edit("declaration", NoElement, prefix, "")
          BY <2>4, <4>1, Zenon DEF SetXmlns
        <5>2. last' = [op |-> "declaration", element |-> NoElement, prefix |-> prefix, ns |-> ""]
          BY <5>1, Zenon DEF Edit
        <5> QED
          BY <5>2, Zenon
      <4>2. CASE ~ValidDeclaration(prefix, uri)
        <5>1. OtherEdit
          BY <2>4, <4>2, Zenon DEF SetXmlns
        <5>2. last' = [op |-> "other", element |-> NoElement, prefix |-> "", ns |-> ""]
          BY <5>1, Zenon DEF Edit, OtherEdit
        <5> QED
          BY <5>2, Zenon
      <4> QED
        BY <4>1, <4>2
    <3> QED
      BY <2>2, <3>1
  <2>5. ASSUME NEW e \in Elements(doc), NEW ns \in Uris, RemoveAttribute(e, ns)
        PROVE  ChosenIsSeen'
    <3>1. last'.op = "other"
      BY <2>5, Zenon DEF RemoveAttribute, Edit, OtherEdit
    <3> QED
      BY <2>2, <3>1
  <2>6. ASSUME NEW e \in Elements(doc), NEW ns \in Uris, SetTag(e, ns)
        PROVE  ChosenIsSeen'
    BY <2>6, SetTagSeen
  <2>7. ASSUME NEW e \in Elements(doc), NEW prefix \in Declarable, NEW ns \in Uris,
               SetQName(e, prefix, ns)
        PROVE  ChosenIsSeen'
    <3>1. last'.op = "other"
      BY <2>7, Zenon DEF SetQName, Edit, OtherEdit
    <3> QED
      BY <2>2, <3>1
  <2>8. ASSUME NEW e \in Elements(doc), NEW new \in Spare, NEW ns \in Uris, NEW nsmap \in Nsmaps,
               NewSubElement(e, new, ns, nsmap)
        PROVE  ChosenIsSeen'
    BY <2>8, NewSubElementSeen
  <2>9. ASSUME NEW e \in Elements(doc), NEW parent \in Elements(doc), Move(e, parent)
        PROVE  ChosenIsSeen'
    <3>1. last'.op = "move"
      BY <2>9, Zenon DEF Move, Edit
    <3> QED
      BY <2>2, <3>1
  <2> QED
    BY <2>1, <2>3, <2>4, <2>5, <2>6, <2>7, <2>8, <2>9, Zenon DEF Next
<1>3. TypeOK /\ ChosenIsSeen => NamesResolveUnlessHidden
  BY SeenResolves
<1> QED
  BY <1>1, <1>2, <1>3, TypeCorrect, PTL DEF Spec


-----------------------------------------------------------------------------
(* What bound prefixes mean.                                               *)

(* Two lists of declarations agree about prefix p.                         *)
AgreeOn(t, s, p) ==
  /\ HasPrefix(t, p) <=> HasPrefix(s, p)
  /\ HasPrefix(s, p) => Meaning(t, p) = Meaning(s, p)

LEMMA PutElsewhere ==
  ASSUME NEW s \in Seq(Name), OncePerPrefix(s), NEW q, NEW v, <<q, v>> \in Name, NEW p, p # q
  PROVE  AgreeOn(Put(s, <<q, v>>), s, p)
<1> DEFINE t == Put(s, <<q, v>>)
<1>1. /\ t \in Seq(Name) /\ OncePerPrefix(t)
      /\ \A u : Contains(t, <<p, u>>) <=> Contains(s, <<p, u>>)
  <2>1. /\ t \in Seq(Name)
        /\ OncePerPrefix(s) => OncePerPrefix(t)
        /\ \A k, u : Contains(t, <<k, u>>) <=> IF k = q THEN u = v ELSE Contains(s, <<k, u>>)
    BY PutIs
  <2> HIDE DEF t
  <2>2. OncePerPrefix(s)
    OBVIOUS
  <2> QED
    BY <2>1, <2>2
<1> HIDE DEF t
<1>2. HasPrefix(t, p) <=> \E u : Contains(t, <<p, u>>)
  BY <1>1, PrefixListed
<1>3. HasPrefix(s, p) <=> \E u : Contains(s, <<p, u>>)
  BY PrefixListed
<1>4. HasPrefix(t, p) <=> HasPrefix(s, p)
  BY <1>1, <1>2, <1>3, Zenon
<1>5. ASSUME HasPrefix(s, p) PROVE Meaning(t, p) = Meaning(s, p)
  <2> DEFINE u == Meaning(s, p)
  <2>1. Contains(s, <<p, u>>)
    BY <1>5, PrefixListed
  <2> HIDE DEF u
  <2>2. Contains(t, <<p, u>>)
    BY <1>1, <2>1, Zenon
  <2>3. \A x : Contains(t, <<p, x>>) => Meaning(t, p) = x
    BY <1>1, PrefixListed
  <2> QED
    BY <2>2, <2>3, Zenon DEF u
<1> QED
  BY <1>4, <1>5, Zenon DEF AgreeOn, t

LEMMA SameNearest ==
  ASSUME NEW c, NEW d, NEW line, DOMAIN line \subseteq Nat, NEW p,
         \A i \in DOMAIN line : AgreeOn(c.decls[line[i]], d.decls[line[i]], p)
  PROVE  NearestOn(c, line, p) = NearestOn(d, line, p)
<1> DEFINE P == DeclaringPlaces(d, line, p)
<1>1. DeclaringPlaces(c, line, p) = P
  BY DEF DeclaringPlaces, AgreeOn
<1>2. P \in SUBSET Nat /\ \A i \in P : i \in DOMAIN line /\ HasPrefix(d.decls[line[i]], p)
  BY DEF DeclaringPlaces
<1> HIDE DEF P
<1>3. CASE P = {}
  BY <1>1, <1>3, Zenon DEF NearestOn, P
<1>4. CASE P # {}
  <2>1. Min(P) \in P
    BY <1>2, <1>4, SmallestIs
  <2>2. Meaning(c.decls[line[Min(P)]], p) = Meaning(d.decls[line[Min(P)]], p)
    BY <1>2, <2>1, Zenon DEF AgreeOn
  <2> QED
    BY <1>1, <1>4, <2>2, Zenon DEF NearestOn, P
<1> QED
  BY <1>3, <1>4

(* In c, prefix p means at every element of d what it means in d, if it    *)
(* means anything there.                                                   *)
KeptIn(c, d, p) ==
  \A x \in Elements(d) : Resolve(d, x, p) \in {"", Resolve(c, x, p)}

(* c has the lines of d.                                                   *)
SameWaysUp(c, d) == \A x \in Elements(d) : Line(c, x) = Line(d, x)

LEMMA SameKept ==
  ASSUME NEW d, IsTree(d), NEW c, SameWaysUp(c, d), NEW p,
         \A x \in Elements(d) : AgreeOn(c.decls[x], d.decls[x], p)
  PROVE  KeptIn(c, d, p)
<1> SUFFICES ASSUME NEW x \in Elements(d) PROVE Resolve(d, x, p) = Resolve(c, x, p)
  BY Zenon DEF KeptIn
<1> DEFINE line == Line(d, x)
<1>1. /\ DOMAIN line = 1..Len(line) /\ Len(line) \in Nat
      /\ \A i \in DOMAIN line : line[i] \in Elements(d)
  BY LineTyped
<1>2. Line(c, x) = line
  BY DEF SameWaysUp
<1> HIDE DEF line
<1>3. DOMAIN line \subseteq Nat
  BY <1>1
<1>4. \A i \in DOMAIN line : AgreeOn(c.decls[line[i]], d.decls[line[i]], p)
  BY <1>1
<1>5. NearestOn(c, line, p) = NearestOn(d, line, p)
  BY <1>3, <1>4, SameNearest
<1> QED
  BY <1>2, <1>5 DEF Resolve, line

(* Declaring q on f.                                                       *)
PutOn(c, d, f, q, v) ==
  /\ f \in Elements(d) /\ <<q, v>> \in Name
  /\ c.decls[f] = Put(d.decls[f], <<q, v>>)
  /\ \A x \in Elements(d) : x # f => c.decls[x] = d.decls[x]

LEMMA OthersKept ==
  ASSUME NEW d, IsDocument(d), NEW c, SameWaysUp(c, d), NEW f, NEW q, NEW v,
         PutOn(c, d, f, q, v), NEW p, p # q
  PROVE  KeptIn(c, d, p)
<1>1. IsTree(d) /\ \A x \in Elements(d) : WellNamed(d, x)
  BY DocumentIs
<1>2. ASSUME NEW x \in Elements(d) PROVE AgreeOn(c.decls[x], d.decls[x], p)
  <2> DEFINE s == d.decls[x]
  <2>1. s \in Seq(Name)
    BY <1>1, TreeTyped
  <2>2. OncePerPrefix(s)
    BY <1>1, <1>2, Zenon DEF WellNamed
  <2> HIDE DEF s
  <2>3. AgreeOn(s, s, p)
    BY DEF AgreeOn
  <2>4. AgreeOn(Put(s, <<q, v>>), s, p)
    <3>1. <<q, v>> \in Name
      BY DEF PutOn
    <3> QED
      BY <2>1, <2>2, <3>1, PutElsewhere
  <2>5. c.decls[x] = s \/ c.decls[x] = Put(s, <<q, v>>)
    BY <1>2, Zenon DEF PutOn, s
  <2> QED
    BY <2>3, <2>4, <2>5, Zenon DEF s
<1> QED
  BY <1>1, <1>2, SameKept

(* A prefix that is not declared on the way up from f is, where it is bound*)
(* below f, bound nearer than f.                                           *)
LEMMA FreshKept ==
  ASSUME NEW d, IsTree(d), NEW c, SameWaysUp(c, d), NEW f, NEW q, NEW v,
         PutOn(c, d, f, q, v), q \notin Inscope(d, f), q # "xml"
  PROVE  KeptIn(c, d, q)
<1> SUFFICES ASSUME NEW x \in Elements(d) PROVE Resolve(d, x, q) \in {"", Resolve(c, x, q)}
  BY Zenon DEF KeptIn
<1> DEFINE line == Line(d, x)
           n == Len(line)
           P == DeclaringPlaces(d, line, q)
<1>0. OnePlaced(d) /\ IsForest(d) /\ f \in Elements(d)
  BY TreePlaced DEF PutOn
<1>1. /\ DOMAIN line = 1..n /\ n \in Nat
      /\ \A i \in DOMAIN line : line[i] \in Elements(d)
  BY LineTyped
<1>2. Line(c, x) = line
  BY DEF SameWaysUp
<1>3. \A m \in DOMAIN line : Line(d, line[m]) = SubSeq(line, m, n)
  BY <1>0, LineFrom
<1> HIDE DEF line
<1>4. DOMAIN line \in SUBSET Nat
  BY <1>1
<1>5. ASSUME NEW i \in P, NEW m \in DOMAIN line, line[m] = f PROVE i < m
  <2> SUFFICES ASSUME ~(i < m) PROVE FALSE
    OBVIOUS
  <2>1. i \in DOMAIN line /\ HasPrefix(d.decls[line[i]], q)
    BY DEF DeclaringPlaces
  <2> DEFINE t == SubSeq(line, m, n)
  <2> PICK k \in Nat : k = i - m + 1
    BY <1>1, <2>1
  <2>2. k \in DOMAIN t /\ t[k] = line[i]
    <3>1. i \in 1..n /\ m \in 1..n /\ n \in Nat /\ k = i - m + 1 /\ i >= m
      BY <1>1, <2>1
    <3> HIDE DEF n
    <3>2. k \in 1..(n - m + 1) /\ k + m - 1 = i
      BY <3>1
    <3>3. line \in Seq(Elements(d)) /\ Len(line) = n
      BY LineTyped DEF line, n
    <3>4. DOMAIN t = 1..(n - m + 1) /\ \A j \in 1..(n - m + 1) : t[j] = line[j + m - 1]
      BY <3>1, <3>3, RestIs
    <3> QED
      BY <3>2, <3>4
  <2>3. Line(d, f) = t
    BY <1>3, <1>5
  <2> HIDE DEF t
  <2>4. k \in DOMAIN Line(d, f) /\ HasPrefix(d.decls[Line(d, f)[k]], q)
    BY <2>1, <2>2, <2>3
  <2>5. q \in Inscope(d, f)
    BY <1>0, <2>4, InscopeIs
  <2> QED
    BY <2>5
<1>6. CASE P = {}
  <2>1. NearestOn(d, line, q) = ""
    BY <1>6, Zenon DEF NearestOn
  <2> QED
    BY <2>1, Zenon DEF Resolve, line
<1>7. CASE P # {}
  <2>1. P \in SUBSET Nat
    BY <1>4 DEF DeclaringPlaces
  <2> HIDE DEF P
  <2> PICK i \in P : \A k \in P : i <= k
    BY <1>7, <2>1, LeastNumber
  <2>2. i \in DOMAIN line /\ HasPrefix(d.decls[line[i]], q)
    BY DEF DeclaringPlaces, P
  <2>3. line[i] # f
    <3> SUFFICES ASSUME line[i] = f PROVE FALSE
      OBVIOUS
    <3>1. i < i
      BY <1>5, <2>2
    <3> QED
      BY <2>1, <3>1
  <2>4. c.decls[line[i]] = d.decls[line[i]]
    BY <1>1, <2>2, <2>3 DEF PutOn
  <2>5. i \in DeclaringPlaces(c, line, q)
    BY <2>2, <2>4 DEF DeclaringPlaces
  <2>6. ASSUME NEW k \in DeclaringPlaces(c, line, q) PROVE i <= k
    <3>1. k \in DOMAIN line /\ HasPrefix(c.decls[line[k]], q)
      BY DEF DeclaringPlaces
    <3>2. CASE line[k] = f
      <4>1. i < k
        BY <1>5, <3>1, <3>2
      <4> QED
        BY <1>4, <2>2, <3>1, <4>1
    <3>3. CASE line[k] # f
      <4>1. k \in P
        BY <1>1, <3>1, <3>3 DEF PutOn, DeclaringPlaces, P
      <4> QED
        BY <4>1
    <3> QED
      BY <3>2, <3>3
  <2>7. NearestOn(c, line, q) = Meaning(c.decls[line[i]], q)
    BY <1>4, <2>5, <2>6, NearestIs
  <2>8. NearestOn(d, line, q) = Meaning(d.decls[line[i]], q)
    BY <1>4, NearestIs DEF P
  <2> QED
    BY <1>2, <2>4, <2>7, <2>8, Zenon DEF Resolve, line
<1> QED
  BY <1>6, <1>7, Zenon


LEMMA SameDeclsKept ==
  ASSUME NEW d, IsTree(d), NEW c, c.kids = d.kids, c.decls = d.decls, NEW p
  PROVE  KeptIn(c, d, p)
<1>1. SameWaysUp(c, d)
  BY TreePlaced, SameKids DEF SameWaysUp
<1>2. \A x \in Elements(d) : AgreeOn(c.decls[x], d.decls[x], p)
  BY DEF AgreeOn
<1> QED
  BY <1>1, <1>2, SameKept

(* What BindingsStay says of one prefix at every element.                  *)
StaysBound(p) ==
  \/ last'.op = "move"
  \/ last'.op = "declaration" /\ last'.prefix = p
  \/ p # "" /\ last'.ns \in DOMAIN Registry /\ Registry[last'.ns] = p
  \/ KeptIn(doc', doc, p)

(* Prefixes that may be bound where e is.                                  *)
Bound(d, e) == Inscope(d, e) \cup {"", "xml"}

LEMMA DeclaredBinds ==
  ASSUME NEW d, IsDocument(d), NEW c, c.kids = d.kids, NEW e, NEW q, NEW v, PutOn(c, d, e, q, v),
         NEW p
  PROVE  \/ KeptIn(c, d, p)
         \/ p = q /\ q \in Bound(d, e)
<1>1. IsTree(d)
  BY DocumentTree
<1>2. SameWaysUp(c, d)
  BY <1>1, TreePlaced, SameKids DEF SameWaysUp
<1>3. CASE p # q
  <2>1. p # q
    BY <1>3
  <2>2. KeptIn(c, d, p)
    BY <1>2, <2>1, OthersKept
  <2> QED
    BY <2>2, Zenon
<1>4. CASE p = q /\ q \notin Bound(d, e)
  <2>1. q \notin Inscope(d, e) /\ q # "xml"
    BY <1>4, Zenon DEF Bound
  <2>2. KeptIn(c, d, q)
    BY <1>1, <1>2, <2>1, FreshKept
  <2> QED
    BY <1>4, <2>2, Zenon
<1> QED
  BY <1>3, <1>4, Zenon

LEMMA SetAttributeBinds ==
  ASSUME TypeOK, NEW e \in Elements(doc), NEW ns \in Uris, SetAttribute(e, ns), NEW p
  PROVE  StaysBound(p)
<1> DEFINE w == [d |-> doc, n |-> counter, prefix |-> ""]
           r == IF ns = "" THEN w ELSE EnsureNsPrefix(w, e, ns)
<1>1. counter \in 0..Len(Generated) /\ IsDocument(doc) /\ IsTree(doc)
  BY DocumentTree DEF TypeOK
<1>2. /\ NumbersLeft(doc, e, counter)
      /\ \/ /\ \E attrs \in WithAttribute(doc.attrs[e], r.prefix, ns) :
                 doc' = [r.d EXCEPT !.attrs[e] = attrs]
            /\ last' = [op |-> "attribute", element |-> e, prefix |-> r.prefix, ns |-> ns]
         \/ doc' = doc
  BY Zenon DEF SetAttribute, Edit, OtherEdit
<1>3. w.d = doc /\ w.n = counter
  OBVIOUS
<1> HIDE DEF w
<1>4. CASE doc' = doc
  <2>1. KeptIn(doc', doc, p)
    BY <1>1, <1>4, SameDeclsKept, Zenon
  <2> QED
    BY <2>1, Zenon DEF StaysBound
<1>5. ASSUME NEW c, IsTree(c), e \in Elements(c), NEW attrs, doc' = [c EXCEPT !.attrs[e] = attrs]
      PROVE  doc'.kids = c.kids /\ doc'.decls = c.decls
  <2>1. c \in [kids : [Elements(c) -> Seq(Elements(c))], decls : [Elements(c) -> Seq(Name)],
               name : [Elements(c) -> Name], attrs : [Elements(c) -> SUBSET Name]]
    BY <1>5, TreeTyped
  <2> QED
    BY <1>5, <2>1
<1>6. ASSUME r.d = doc, NEW attrs, doc' = [r.d EXCEPT !.attrs[e] = attrs]
      PROVE  StaysBound(p)
  <2>1. doc'.kids = doc.kids /\ doc'.decls = doc.decls
    BY <1>1, <1>5, <1>6, Zenon
  <2>2. KeptIn(doc', doc, p)
    BY <1>1, <2>1, SameDeclsKept, Zenon
  <2> QED
    BY <2>2, Zenon DEF StaysBound
<1>7. ASSUME DeclaredFor(doc, e, ns, r), NEW attrs, doc' = [r.d EXCEPT !.attrs[e] = attrs],
             last'.ns = ns
      PROVE  StaysBound(p)
  <2> DEFINE q == r.prefix
             c == r.d
  <2>1. /\ c = Declare(doc, e, q, ns) /\ <<q, ns>> \in Name /\ q # ""
        /\ \/ q = Registry[ns]
           \/ q \notin Inscope(doc, e) /\ q # "xml"
    BY <1>7, Zenon DEF DeclaredFor
  <2>2. doc' = [c EXCEPT !.attrs[e] = attrs]
    BY <1>7, Zenon
  <2> HIDE DEF q, c
  <2>3. DeclaredOn(c, doc, e, q, ns)
    BY <1>1, <2>1, DeclareIs, Zenon
  <2>4. doc'.kids = c.kids /\ doc'.decls = c.decls
    BY <1>5, <2>2, <2>3, Zenon DEF DeclaredOn
  <2>5. doc'.kids = doc.kids
    BY <2>3, <2>4, Zenon DEF DeclaredOn
  <2>6. PutOn(doc', doc, e, q, ns)
    BY <2>1, <2>3, <2>4, Zenon DEF DeclaredOn, PutOn
  <2>7. KeptIn(doc', doc, p) \/ (p = q /\ q \in Bound(doc, e))
    BY <1>1, <2>5, <2>6, DeclaredBinds, Zenon
  <2>8. ns \in DOMAIN Registry
    BY UriTyped, Zenon
  <2> QED
    BY <1>7, <2>1, <2>7, <2>8, Zenon DEF StaysBound, Bound
<1>8. r.d = doc \/ DeclaredFor(doc, e, ns, r)
  <2>1. CASE ns = ""
    <3>1. r = w
      BY <2>1, Zenon
    <3> QED
      BY <1>3, <3>1, Zenon
  <2>2. CASE ns # ""
    <3>1. r = EnsureNsPrefix(w, e, ns)
      BY <2>2, Zenon
    <3> HIDE DEF r
    <3>2. OfferedBy(doc, e, counter, ns, r) \/ DeclaredFor(doc, e, ns, r)
      BY <1>1, <1>2, <1>3, <3>1, EnsureNsPrefixIs, Zenon
    <3> QED
      BY <3>2, Zenon DEF OfferedBy
  <2> QED
    BY <2>1, <2>2, Zenon
<1> HIDE DEF r
<1>9. ASSUME NEW attrs, doc' = [r.d EXCEPT !.attrs[e] = attrs],
             last' = [op |-> "attribute", element |-> e, prefix |-> r.prefix, ns |-> ns]
      PROVE  StaysBound(p)
  <2>1. last'.ns = ns
    BY <1>9, Zenon
  <2> QED
    BY <1>6, <1>7, <1>8, <1>9, <2>1, Zenon
<1> QED
  BY <1>2, <1>4, <1>9, Zenon

LEMMA SetXmlnsBinds ==
  ASSUME TypeOK, NEW e \in Elements(doc), NEW prefix \in Declarable, NEW uri \in Uris,
         SetXmlns(e, prefix, uri), NEW p
  PROVE  StaysBound(p)
<1>1. IsDocument(doc) /\ IsTree(doc)
  BY DocumentTree DEF TypeOK
<1>2. CASE ~ValidDeclaration(prefix, uri)
  <2>1. doc' = doc
    BY <1>2, Zenon DEF SetXmlns
  <2>2. KeptIn(doc', doc, p)
    BY <1>1, <2>1, SameDeclsKept, Zenon
  <2> QED
    BY <2>2, Zenon DEF StaysBound
<1>3. CASE ValidDeclaration(prefix, uri)
  <2>1. doc' = Declare(doc, e, prefix, uri) /\ Edit("declaration", NoElement, prefix, "")
    BY <1>3, Zenon DEF SetXmlns
  <2>2. last'.op = "declaration" /\ last'.prefix = prefix
    <3>1. last' = [op |-> "declaration", element |-> NoElement, prefix |-> prefix, ns |-> ""]
      BY <2>1, Zenon DEF Edit
    <3> QED
      BY <3>1, Zenon
  <2>3. prefix \in Strings
    BY NamespacesAssumption, Zenon
  <2>4. <<prefix, uri>> \in Name
    BY <2>3, NameIs
  <2>5. DeclaredOn(doc', doc, e, prefix, uri)
    BY <1>1, <2>1, <2>4, DeclareIs, Zenon
  <2>6. doc'.kids = doc.kids /\ PutOn(doc', doc, e, prefix, uri)
    BY <2>4, <2>5, Zenon DEF DeclaredOn, PutOn
  <2>7. KeptIn(doc', doc, p) \/ p = prefix
    BY <1>1, <2>6, DeclaredBinds, Zenon
  <2> QED
    BY <2>2, <2>7, Zenon DEF StaysBound
<1> QED
  BY <1>2, <1>3

LEMMA RemoveAttributeBinds ==
  ASSUME TypeOK, NEW e \in Elements(doc), NEW ns \in Uris, RemoveAttribute(e, ns), NEW p
  PROVE  StaysBound(p)
<1>1. IsTree(doc)
  BY DocumentTree DEF TypeOK
<1>2. PICK attrs : doc' = [doc EXCEPT !.attrs[e] = attrs]
  BY DEF RemoveAttribute
<1>3. doc'.kids = doc.kids /\ doc'.decls = doc.decls
  <2>1. doc \in [kids : [Elements(doc) -> Seq(Elements(doc))], decls : [Elements(doc) -> Seq(Name)],
                 name : [Elements(doc) -> Name], attrs : [Elements(doc) -> SUBSET Name]]
    BY <1>1, TreeTyped
  <2> QED
    BY <1>2, <2>1
<1>4. KeptIn(doc', doc, p)
  BY <1>1, <1>3, SameDeclsKept, Zenon
<1> QED
  BY <1>4, Zenon DEF StaysBound

LEMMA SetQNameBinds ==
  ASSUME TypeOK, NEW e \in Elements(doc), NEW prefix \in Declarable, NEW ns \in Uris,
         SetQName(e, prefix, ns), NEW p
  PROVE  StaysBound(p)
<1>1. IsTree(doc)
  BY DocumentTree DEF TypeOK
<1>2. doc'.kids = doc.kids /\ doc'.decls = doc.decls
  <2>1. CASE ValidQName(prefix, ns)
    <3>1. doc' = [doc EXCEPT !.name[e] = <<prefix, ns>>]
      BY <2>1, Zenon DEF SetQName
    <3> DEFINE x == <<prefix, ns>>
    <3>2. doc' = [doc EXCEPT !.name[e] = x]
      BY <3>1
    <3> HIDE DEF x
    <3> QED
      BY <1>1, <3>2, RenamedIs
  <2>2. CASE ~ValidQName(prefix, ns)
    <3>1. doc' = doc
      BY <2>2, Zenon DEF SetQName
    <3> QED
      BY <3>1
  <2> QED
    BY <2>1, <2>2
<1>3. KeptIn(doc', doc, p)
  BY <1>1, <1>2, SameDeclsKept, Zenon
<1> QED
  BY <1>3, Zenon DEF StaysBound


LEMMA SetTagBinds ==
  ASSUME TypeOK, NEW e \in Elements(doc), NEW ns \in Uris, SetTag(e, ns), NEW p
  PROVE  StaysBound(p)
<1> DEFINE prefix == PrefixForNs(ns, Nsmap(doc, e))
           c == [doc EXCEPT !.name[e] = <<prefix, ns>>]
           r == FinalizeElementNs([d |-> c, n |-> counter], e)
<1>1. /\ NumbersLeft(doc, e, counter) /\ ValidQName(prefix, ns)
      /\ doc' = r.d
      /\ last' = [op |-> "tag", element |-> e, prefix |-> r.d.name[e][1], ns |-> ns]
  BY Zenon DEF SetTag, Edit
<1>2. counter \in 0..Len(Generated) /\ IsDocument(doc) /\ IsTree(doc)
  BY DocumentTree DEF TypeOK
<1>3. /\ <<prefix, ns>> \in Name
      /\ IsDocument(c) /\ Elements(c) = Elements(doc) /\ c.name[e] = <<prefix, ns>>
      /\ c.decls = doc.decls /\ c.kids = doc.kids
      /\ \A x \in Elements(doc) : Line(c, x) = Line(doc, x)
      /\ ns # "" /\ prefix # "" =>
           Contains(DeclsAlong(c, Line(c, e)), <<prefix, ns>>) \/ prefix = Registry[ns]
  <2>1. prefix = PrefixForNs(ns, Nsmap(doc, e)) /\ c = [doc EXCEPT !.name[e] = <<prefix, ns>>]
    OBVIOUS
  <2> HIDE DEF c, r
  <2>2. ValidQName(PrefixForNs(ns, Nsmap(doc, e)), ns)
    BY <1>1
  <2> HIDE DEF prefix
  <2>3. NamedAs(doc, c, e, prefix, ns)
    BY <1>2, <2>1, <2>2, NamedIs
  <2> QED
    BY <2>3 DEF NamedAs
<1> HIDE DEF c, prefix, r
<1>4. NumbersLeft(c, e, counter) /\ Inscope(c, e) = Inscope(doc, e)
  BY <1>1, <1>3, Zenon DEF NumbersLeft, Inscope, DeclsAlong
<1>5. IsTree(c)
  BY <1>3, DocumentTree
<1>6. FinalizedAs(c, e, counter, prefix, ns, r)
  BY <1>2, <1>3, <1>4, <1>5, FinalizeIs DEF r
<1>7. FinalizedDecls(r.d, c, e, prefix, ns)
  BY <1>3, <1>5, <1>6, FinalizedTree, Zenon
<1>8. doc'.kids = doc.kids
  BY <1>1, <1>3, <1>7, Zenon DEF FinalizedDecls
<1>9. CASE doc'.decls = doc.decls
  <2>1. KeptIn(doc', doc, p)
    BY <1>2, <1>8, <1>9, SameDeclsKept, Zenon
  <2> QED
    BY <2>1, Zenon DEF StaysBound
<1>10. ASSUME NEW q, <<q, ns>> \in Name,
              q \in {Registry[ns]} \ {""} \/ q \notin Inscope(c, e) \cup {"", "xml"},
              doc'.decls[e] = Put(c.decls[e], <<q, ns>>),
              \A x \in Elements(c) : x # e => doc'.decls[x] = c.decls[x]
       PROVE  StaysBound(p)
  <2>1. PutOn(doc', doc, e, q, ns)
    BY <1>3, <1>10, Zenon DEF PutOn
  <2>2. KeptIn(doc', doc, p) \/ (p = q /\ q \in Bound(doc, e))
    BY <1>2, <1>8, <2>1, DeclaredBinds, Zenon
  <2>3. CASE KeptIn(doc', doc, p)
    BY <2>3, Zenon DEF StaysBound
  <2>4. CASE p = q /\ q \in Bound(doc, e)
    <3>1. q = Registry[ns] /\ q # ""
      BY <1>4, <1>10, <2>4, Zenon DEF Bound
    <3>2. last'.ns = ns /\ ns \in DOMAIN Registry
      BY <1>1, UriTyped, Zenon
    <3> QED
      BY <2>4, <3>1, <3>2, Zenon DEF StaysBound
  <2> QED
    BY <2>2, <2>3, <2>4
<1>11. ASSUME NEW q, \/ ns # "" /\ prefix # "" /\ q = prefix
                        /\ ~Contains(DeclsAlong(c, Line(c, e)), <<prefix, ns>>)
                     \/ q \in {Registry[ns]} \ {""}
                     \/ q \notin Inscope(c, e) \cup {"", "xml"}
       PROVE  q \in {Registry[ns]} \ {""} \/ q \notin Inscope(c, e) \cup {"", "xml"}
  BY <1>3, <1>11, Zenon
<1> QED
  BY <1>1, <1>3, <1>7, <1>9, <1>10, <1>11, Zenon DEF FinalizedDecls

(* A new element is on no other element's way up.                          *)
LEMMA NewSubElementBinds ==
  ASSUME TypeOK, NEW parent \in Elements(doc), NEW e \in Spare, NEW ns \in Uris,
         NEW nsmap \in Nsmaps, NewSubElement(parent, e, ns, nsmap), NEW p
  PROVE  StaysBound(p)
<1> DEFINE prefix == PrefixForNs(ns, nsmap)
           b == AppendTo(Build(doc, e, <<prefix, ns>>, nsmap), parent, e)
           r == FinalizeElementNs([d |-> b, n |-> counter], e)
<1>1. /\ e \notin Elements(doc)
      /\ \A i \in DOMAIN nsmap : ValidDeclaration(nsmap[i][1], nsmap[i][2])
      /\ ValidQName(prefix, ns) /\ NumbersLeft(b, e, counter)
      /\ doc' = r.d
  BY Zenon DEF NewSubElement
<1>2. counter \in 0..Len(Generated) /\ IsDocument(doc) /\ IsTree(doc)
  BY DocumentTree DEF TypeOK
<1>3. Grown(b, doc, e, prefix, ns, nsmap)
  BY <1>1, <1>2, NewElementIs
<1> HIDE DEF b, prefix, r
<1>4. /\ <<prefix, ns>> \in Name /\ IsDocument(b) /\ e \in Elements(b)
      /\ b.name[e] = <<prefix, ns>> /\ Elements(b) = Elements(doc) \cup {e}
      /\ \A x \in Elements(doc) : b.decls[x] = doc.decls[x] /\ Line(b, x) = Line(doc, x)
  BY <1>3, Zenon DEF Grown, Attached
<1>5. IsTree(b)
  BY <1>4, DocumentTree
<1>6. FinalizedAs(b, e, counter, prefix, ns, r)
  BY <1>1, <1>2, <1>4, <1>5, FinalizeIs DEF r
<1>7. FinalizedDecls(r.d, b, e, prefix, ns)
  BY <1>4, <1>5, <1>6, FinalizedTree, Zenon
<1>8. \A x \in Elements(b) : Line(r.d, x) = Line(b, x)
  <2>1. r.d.kids = b.kids
    BY <1>7, Zenon DEF FinalizedDecls
  <2> DEFINE c == r.d
  <2>2. c.kids = b.kids
    BY <2>1
  <2> HIDE DEF c
  <2>3. \A x \in Elements(b) : Line(c, x) = Line(b, x)
    BY <1>5, <2>2, TreePlaced, SameKids
  <2> QED
    BY <2>3 DEF c
<1>9. SameWaysUp(doc', doc)
  BY <1>1, <1>4, <1>8, Zenon DEF SameWaysUp
<1>10. \A x \in Elements(b) : x # e => r.d.decls[x] = b.decls[x]
  BY <1>7, Zenon DEF FinalizedDecls
<1>11. \A x \in Elements(doc) : doc'.decls[x] = doc.decls[x]
  BY <1>1, <1>4, <1>10, Zenon
<1>12. \A x \in Elements(doc) : AgreeOn(doc'.decls[x], doc.decls[x], p)
  BY <1>11 DEF AgreeOn
<1>13. KeptIn(doc', doc, p)
  BY <1>2, <1>9, <1>12, SameKept, Zenon
<1> QED
  BY <1>13, Zenon DEF StaysBound

(* An operation changes what a bound prefix means somewhere only by        *)
(* declaring that very prefix (set("xmlns:p"), or the registered prefix of *)
(* the namespace it is given) or by moving the element away; a generated   *)
(* prefix (new_prefix) never does.                                         *)
THEOREM Bindings == Spec => BindingsStay
<1> DEFINE A == \A e \in Elements(doc), p \in BoundPrefixes :
                  \/ last'.op = "move"
                  \/ last'.op = "declaration" /\ last'.prefix = p
                  \/ p # "" /\ last'.ns \in DOMAIN Registry /\ Registry[last'.ns] = p
                  \/ Resolve(doc, e, p) \in {"", Resolve(doc', e, p)}
<1>1. (\A p : StaysBound(p)) => A
  BY Zenon DEF StaysBound, KeptIn
<1>2. TypeOK /\ Next => \A p : StaysBound(p)
  <2> SUFFICES ASSUME TypeOK, Next, NEW p PROVE StaysBound(p)
    OBVIOUS
  <2>1. ASSUME NEW e \in Elements(doc), NEW ns \in Uris, SetAttribute(e, ns)
        PROVE  StaysBound(p)
    BY <2>1, SetAttributeBinds
  <2>2. ASSUME NEW e \in Elements(doc), NEW prefix \in Declarable, NEW uri \in Uris,
               SetXmlns(e, prefix, uri)
        PROVE  StaysBound(p)
    BY <2>2, SetXmlnsBinds
  <2>3. ASSUME NEW e \in Elements(doc), NEW ns \in Uris, RemoveAttribute(e, ns)
        PROVE  StaysBound(p)
    BY <2>3, RemoveAttributeBinds
  <2>4. ASSUME NEW e \in Elements(doc), NEW ns \in Uris, SetTag(e, ns)
        PROVE  StaysBound(p)
    BY <2>4, SetTagBinds
  <2>5. ASSUME NEW e \in Elements(doc), NEW prefix \in Declarable, NEW ns \in Uris,
               SetQName(e, prefix, ns)
        PROVE  StaysBound(p)
    BY <2>5, SetQNameBinds
  <2>6. ASSUME NEW e \in Elements(doc), NEW new \in Spare, NEW ns \in Uris, NEW nsmap \in Nsmaps,
               NewSubElement(e, new, ns, nsmap)
        PROVE  StaysBound(p)
    BY <2>6, NewSubElementBinds
  <2>7. ASSUME NEW e \in Elements(doc), NEW parent \in Elements(doc), Move(e, parent)
        PROVE  StaysBound(p)
    <3>1. last'.op = "move"
      BY <2>7, Zenon DEF Move, Edit
    <3> QED
      BY <3>1, Zenon DEF StaysBound
  <2> QED
    BY <2>1, <2>2, <2>3, <2>4, <2>5, <2>6, <2>7, Zenon DEF Next
<1>3. TypeOK /\ [Next]_vars => [A]_vars
  BY <1>1, <1>2, Zenon
<1> HIDE DEF A
<1>4. Spec => [][A]_vars
  BY <1>3, TypeCorrect, PTL DEF Spec
<1> QED
  BY <1>4 DEF A, BindingsStay


-----------------------------------------------------------------------------
(* The walks that gather a scope.                                          *)

(* FoldLeft(AddUnseen, b, t): what b has, and then the first of every      *)
(* prefix that b does not have.                                            *)
AddedUnseen(b, t) == FoldLeft(AddUnseen, b, t)

UnseenFrom(f, b, t) ==
  /\ f \in [0..Len(t) -> Seq(Name)] /\ f[0] = b
  /\ \A i \in 1..Len(t) : f[i] = AddUnseen(f[i - 1], t[i])
  /\ f[Len(t)] = AddedUnseen(b, t)

LEMMA UnseenRun ==
  ASSUME NEW b \in Seq(Name), NEW t \in Seq(Name)
  PROVE  \E f : UnseenFrom(f, b, t)
<1> DEFINE n == Len(t)
           X == Seq(Name)
           step == [i \in 1..n |-> [a \in X |-> AddUnseen(a, t[i])]]
           Is(it) == it = [T \in SUBSET DOMAIN t |->
                             IF T = {} THEN b ELSE AddUnseen(it[T \ {Max(T)}], t[Max(T)])]
           iter == CHOOSE it : Is(it)
<1>1. n \in Nat /\ DOMAIN t = 1..n /\ \A i \in 1..n : t[i] \in Name
  OBVIOUS
<1>2. AddedUnseen(b, t) = iter[DOMAIN t]
  BY DEF AddedUnseen, FoldLeft, MapThenFoldSet
<1>3. b \in X
  OBVIOUS
<1>4. ASSUME NEW a \in X, NEW i \in 1..n PROVE AddUnseen(a, t[i]) \in X
  BY <1>1 DEF AddUnseen
<1> HIDE DEF n, X
<1>5. /\ step \in [1..n -> [X -> X]]
      /\ \A i \in 1..n, a \in X : step[i][a] = AddUnseen(a, t[i])
  BY <1>4
<1> HIDE DEF step
<1>6. PICK F : Folding(F, X, n, b, step)
  BY <1>1, <1>3, <1>5, FoldExists
<1>7. Is(F)
  <2>1. /\ F \in [SUBSET (1..n) -> X] /\ F[{}] = b
        /\ \A T \in SUBSET (1..n) : T # {} => F[T] = step[Max(T)][F[T \ {Max(T)}]]
    BY <1>6 DEF Folding
  <2>2. \A T \in SUBSET (1..n) : T # {} => F[T] = AddUnseen(F[T \ {Max(T)}], t[Max(T)])
    BY <1>1, <1>5, <2>1, LastPlace
  <2> QED
    BY <1>1, <2>1, <2>2
<1>8. Is(iter)
  BY <1>7
<1> HIDE DEF iter
<1>9. /\ iter[{}] = b
      /\ \A T \in SUBSET (1..n) : T # {} => iter[T] = AddUnseen(iter[T \ {Max(T)}], t[Max(T)])
  BY <1>1, <1>8
<1>10. Unfolds(iter, X, n, b, step)
  BY <1>1, <1>5, <1>9, LastPlace DEF Unfolds
<1> DEFINE f == ValuesOf(iter, n)
<1>11. Loop(f, X, n, b, step)
  BY <1>1, <1>3, <1>5, <1>10, FoldIsLoop
<1>12. f[n] = iter[1..n]
  BY <1>1 DEF ValuesOf
<1> HIDE DEF f
<1>13. f \in [0..n -> X] /\ f[0] = b /\ \A i \in 1..n : f[i] = step[i][f[i - 1]]
  BY <1>11 DEF Loop
<1>14. ASSUME NEW i \in 1..n PROVE f[i] = AddUnseen(f[i - 1], t[i])
  <2>1. i - 1 \in 0..n
    BY <1>1
  <2> QED
    BY <1>5, <1>13, <2>1
<1>15. UnseenFrom(f, b, t)
  BY <1>1, <1>2, <1>12, <1>13, <1>14 DEF UnseenFrom, n, X
<1> QED
  BY <1>15

(* One step: the pair is added at the end unless its prefix is there.      *)
Grows(r, s) == /\ Len(s) \in Nat /\ Len(r) \in Nat /\ Len(s) <= Len(r)
               /\ \A i \in 1..Len(s) : r[i] = s[i]

LEMMA AddUnseenIs ==
  ASSUME NEW s \in Seq(Name), NEW q, NEW v, <<q, v>> \in Name
  PROVE  LET r == AddUnseen(s, <<q, v>>)
         IN  /\ Grows(r, s)
             /\ OncePerPrefix(s) => OncePerPrefix(r)
             /\ \A p, u : Contains(r, <<p, u>>) <=>
                            \/ Contains(s, <<p, u>>)
                            \/ p = q /\ u = v /\ ~HasPrefix(s, q)
             /\ \A p : HasPrefix(r, p) <=> HasPrefix(s, p) \/ p = q
<1> DEFINE x == <<q, v>>
           r == AddUnseen(s, x)
<1>1. x[1] = q
  BY PairParts, Zenon
<1>2. HasPrefix(s, q) <=> \E u : Contains(s, <<q, u>>)
  BY PrefixListed
<1> HIDE DEF x
<1>3. CASE HasPrefix(s, q)
  <2>1. r = s
    BY <1>1, <1>3 DEF AddUnseen
  <2> HIDE DEF r
  <2>2. Grows(r, s)
    BY <2>1 DEF Grows
  <2> QED
    BY <1>3, <2>1, <2>2, Zenon DEF r, x
<1>4. CASE ~HasPrefix(s, q)
  <2>1. r = Put(s, x) /\ r = Append(s, x)
    BY <1>1, <1>4 DEF AddUnseen, Put
  <2>2. /\ r \in Seq(Name)
        /\ OncePerPrefix(s) => OncePerPrefix(r)
        /\ \A p, u : Contains(r, <<p, u>>) <=> IF p = q THEN u = v ELSE Contains(s, <<p, u>>)
    <3> DEFINE c == Put(s, <<q, v>>)
    <3>1. /\ c \in Seq(Name)
          /\ OncePerPrefix(s) => OncePerPrefix(c)
          /\ \A p, u : Contains(c, <<p, u>>) <=> IF p = q THEN u = v ELSE Contains(s, <<p, u>>)
      BY PutIs
    <3> HIDE DEF c, r
    <3> QED
      BY <2>1, <3>1, Zenon DEF c, x
  <2>3. Grows(r, s)
    <3> DEFINE N == Name
    <3>1. s \in Seq(N) /\ x \in N
      BY DEF x
    <3> HIDE DEF N
    <3>2. Len(Append(s, x)) = Len(s) + 1 /\ \A i \in 1..Len(s) : Append(s, x)[i] = s[i]
      BY <3>1
    <3>3. Len(s) \in Nat
      BY <3>1
    <3> HIDE DEF r
    <3> QED
      BY <2>1, <3>2, <3>3 DEF Grows
  <2> HIDE DEF r
  <2>4. ASSUME NEW p, NEW u
        PROVE  Contains(r, <<p, u>>) <=>
                 \/ Contains(s, <<p, u>>)
                 \/ p = q /\ u = v /\ ~HasPrefix(s, q)
    <3>1. CASE p = q
      BY <1>2, <1>4, <2>2, <3>1
    <3>2. CASE p # q
      BY <2>2, <3>2
    <3> QED
      BY <3>1, <3>2
  <2>5. ASSUME NEW p PROVE HasPrefix(r, p) <=> HasPrefix(s, p) \/ p = q
    <3>1. HasPrefix(r, p) <=> \E u : Contains(r, <<p, u>>)
      BY <2>2, PrefixListed
    <3>2. HasPrefix(s, p) <=> \E u : Contains(s, <<p, u>>)
      BY PrefixListed
    <3> QED
      BY <1>4, <2>4, <3>1, <3>2, Zenon
  <2> QED
    BY <2>2, <2>3, <2>4, <2>5, Zenon DEF r, x
<1> QED
  BY <1>3, <1>4


(* Of the first m pairs of t, the first one with prefix p gives it uri u.  *)
FirstOf(t, m, p, u) ==
  \E k \in 1..m : t[k] = <<p, u>> /\ \A j \in 1..(k - 1) : t[j][1] # p

Mentioned(t, m, p) == \E j \in 1..m : t[j][1] = p

LEMMA FirstStep ==
  ASSUME NEW t, NEW h \in Nat, NEW p, NEW u, NEW q, NEW v, t[h + 1] = <<q, v>>
  PROVE  /\ Mentioned(t, h + 1, p) <=> Mentioned(t, h, p) \/ p = q
         /\ FirstOf(t, h + 1, p, u) <=>
              \/ FirstOf(t, h, p, u)
              \/ p = q /\ u = v /\ ~Mentioned(t, h, p)
<1> PICK i \in Nat : i = h + 1
  OBVIOUS
<1>1. /\ \A k \in 1..i : k \in 1..h \/ k = i
      /\ \A k \in 1..h : k \in 1..i
      /\ i \in 1..i /\ i - 1 = h
  OBVIOUS
<1>2. t[i] = <<q, v>> /\ t[i][1] = q
  <2>1. <<q, v>>[1] = q
    BY PairParts, Zenon
  <2> QED
    BY <2>1, Zenon
<1>3. Mentioned(t, i, p) <=> Mentioned(t, h, p) \/ p = q
  BY <1>1, <1>2, Zenon DEF Mentioned
<1>4. ASSUME FirstOf(t, i, p, u)
      PROVE  FirstOf(t, h, p, u) \/ (p = q /\ u = v /\ ~Mentioned(t, h, p))
  <2>1. PICK k \in 1..i : t[k] = <<p, u>> /\ \A j \in 1..(k - 1) : t[j][1] # p
    BY <1>4, Zenon DEF FirstOf
  <2>2. CASE k \in 1..h
    BY <2>1, <2>2, Zenon DEF FirstOf
  <2>3. CASE k = i
    <3>1. <<p, u>> = <<q, v>>
      BY <1>2, <2>1, <2>3, Zenon
    <3>2. p = q /\ u = v
      BY <3>1, PairParts, Zenon
    <3>3. \A j \in 1..h : t[j][1] # p
      BY <1>1, <2>1, <2>3, Zenon
    <3> QED
      BY <3>2, <3>3, Zenon DEF Mentioned
  <2> QED
    BY <1>1, <2>2, <2>3, Zenon
<1>5. ASSUME p = q, u = v, ~Mentioned(t, h, p)
      PROVE  FirstOf(t, i, p, u)
  <2>1. \A j \in 1..(i - 1) : t[j][1] # p
    BY <1>1, <1>5, Zenon DEF Mentioned
  <2> QED
    BY <1>1, <1>2, <1>5, <2>1, Zenon DEF FirstOf
<1>6. FirstOf(t, h, p, u) => FirstOf(t, i, p, u)
  BY <1>1, Zenon DEF FirstOf
<1> QED
  BY <1>3, <1>4, <1>5, <1>6, Zenon

(* r is b and the first of every other prefix among the first m pairs of t.*)
Gathered(r, b, t, m) ==
  /\ r \in Seq(Name) /\ Grows(r, b)
  /\ OncePerPrefix(b) => OncePerPrefix(r)
  /\ \A p, u : Contains(r, <<p, u>>) <=>
                 \/ Contains(b, <<p, u>>)
                 \/ ~HasPrefix(b, p) /\ FirstOf(t, m, p, u)
  /\ \A p : HasPrefix(r, p) <=> HasPrefix(b, p) \/ Mentioned(t, m, p)

LEMMA GatheredStep ==
  ASSUME NEW b \in Seq(Name), NEW t, NEW h \in Nat, NEW a, Gathered(a, b, t, h),
         NEW x \in Name, x = t[h + 1]
  PROVE  Gathered(AddUnseen(a, x), b, t, h + 1)
<1> DEFINE q == x[1]
           v == x[2]
           r == AddUnseen(a, <<q, v>>)
<1>1. x = <<q, v>> /\ <<q, v>> \in Name
  BY DEF Name
<1> HIDE DEF q, v
<1>2. a \in Seq(Name) /\ Grows(a, b)
  BY Zenon DEF Gathered
<1>3. /\ Grows(r, a)
      /\ OncePerPrefix(a) => OncePerPrefix(r)
      /\ \A p, u : Contains(r, <<p, u>>) <=>
                     \/ Contains(a, <<p, u>>)
                     \/ p = q /\ u = v /\ ~HasPrefix(a, q)
      /\ \A p : HasPrefix(r, p) <=> HasPrefix(a, p) \/ p = q
  BY <1>1, <1>2, AddUnseenIs
<1>4. r \in Seq(Name)
  BY <1>1, <1>2 DEF AddUnseen
<1> HIDE DEF r
<1>5. Grows(r, b)
  BY <1>2, <1>3 DEF Grows
<1>6. t[h + 1] = <<q, v>>
  BY <1>1, Zenon
<1>7. ASSUME NEW p
      PROVE  HasPrefix(r, p) <=> HasPrefix(b, p) \/ Mentioned(t, h + 1, p)
  <2>1. Mentioned(t, h + 1, p) <=> Mentioned(t, h, p) \/ p = q
    BY <1>6, FirstStep
  <2>2. HasPrefix(a, p) <=> HasPrefix(b, p) \/ Mentioned(t, h, p)
    BY Zenon DEF Gathered
  <2> QED
    BY <1>3, <2>1, <2>2, Zenon
<1>8. ASSUME NEW p, NEW u
      PROVE  Contains(r, <<p, u>>) <=>
               \/ Contains(b, <<p, u>>)
               \/ ~HasPrefix(b, p) /\ FirstOf(t, h + 1, p, u)
  <2>1. FirstOf(t, h + 1, p, u) <=>
          \/ FirstOf(t, h, p, u)
          \/ p = q /\ u = v /\ ~Mentioned(t, h, p)
    BY <1>6, FirstStep
  <2>2. HasPrefix(a, p) <=> HasPrefix(b, p) \/ Mentioned(t, h, p)
    BY Zenon DEF Gathered
  <2>3. Contains(a, <<p, u>>) <=>
          \/ Contains(b, <<p, u>>)
          \/ ~HasPrefix(b, p) /\ FirstOf(t, h, p, u)
    BY Zenon DEF Gathered
  <2>4. Contains(r, <<p, u>>) <=>
          \/ Contains(a, <<p, u>>)
          \/ p = q /\ u = v /\ ~HasPrefix(a, p)
    BY <1>3
  <2> QED
    BY <2>1, <2>2, <2>3, <2>4
<1>9. OncePerPrefix(b) => OncePerPrefix(r)
  BY <1>3, Zenon DEF Gathered
<1>10. Gathered(r, b, t, h + 1)
  BY <1>4, <1>5, <1>7, <1>8, <1>9, Zenon DEF Gathered
<1> QED
  BY <1>1, <1>10, Zenon DEF r

LEMMA AddedUnseenIs ==
  ASSUME NEW b \in Seq(Name), NEW t \in Seq(Name)
  PROVE  Gathered(AddedUnseen(b, t), b, t, Len(t))
<1> DEFINE n == Len(t)
<1>1. n \in Nat /\ \A i \in 1..n : t[i] \in Name
  OBVIOUS
<1>2. PICK f : UnseenFrom(f, b, t)
  BY UnseenRun
<1>3. /\ f \in [0..n -> Seq(Name)] /\ f[0] = b
      /\ \A i \in 1..n : f[i] = AddUnseen(f[i - 1], t[i])
      /\ f[n] = AddedUnseen(b, t)
  BY <1>2 DEF UnseenFrom
<1> HIDE DEF n
<1> DEFINE G == {i \in 0..n : Gathered(f[i], b, t, i)}
<1>4. 0 \in G
  <2>1. 1..0 = {} /\ 0 \in 0..n
    BY <1>1
  <2>2. \A p, u : ~FirstOf(t, 0, p, u) /\ ~Mentioned(t, 0, p)
    BY <2>1, Zenon DEF FirstOf, Mentioned
  <2>3. Grows(b, b)
    <3>1. Len(b) \in Nat
      OBVIOUS
    <3> QED
      BY <3>1 DEF Grows
  <2>4. Gathered(b, b, t, 0)
    BY <2>2, <2>3, Zenon DEF Gathered
  <2> QED
    BY <1>3, <2>1, <2>4
<1>5. ASSUME NEW i \in 1..n, i - 1 \in G PROVE i \in G
  <2> PICK h \in Nat : h = i - 1
    BY <1>1
  <2>1. h + 1 = i /\ i \in 0..n
    BY <1>1
  <2>2. Gathered(f[h], b, t, h) /\ f[i] = AddUnseen(f[h], t[i]) /\ t[i] \in Name
    BY <1>1, <1>3, <1>5
  <2> DEFINE x == t[i]
             a == f[h]
  <2>3. x \in Name /\ x = t[h + 1] /\ Gathered(a, b, t, h)
    BY <2>1, <2>2
  <2> HIDE DEF x, a
  <2>4. Gathered(AddUnseen(a, x), b, t, h + 1)
    BY <2>3, GatheredStep
  <2> QED
    BY <2>1, <2>2, <2>4 DEF x, a
<1>6. n \in G
  <2>1. 0..n \subseteq G
    <3> HIDE DEF G
    <3> QED
      BY <1>1, <1>4, <1>5, Induction
  <2>2. n \in 0..n
    BY <1>1
  <2> HIDE DEF G
  <2> QED
    BY <2>1, <2>2
<1> QED
  BY <1>3, <1>6 DEF n


(* What Undeclared keeps, one pair after the other.                        *)
Retain(own, kept, pair) == IF HasPrefix(own, pair[1]) THEN kept ELSE Append(kept, pair)

RetainedFrom(f, own, t) ==
  /\ f \in [0..Len(t) -> Seq(Name)] /\ f[0] = <<>>
  /\ \A i \in 1..Len(t) : f[i] = Retain(own, f[i - 1], t[i])
  /\ f[Len(t)] = Undeclared(t, own)

LEMMA RetainedRun ==
  ASSUME NEW own, NEW t \in Seq(Name)
  PROVE  \E f : RetainedFrom(f, own, t)
<1> DEFINE n == Len(t)
           X == Seq(Name)
           step == [i \in 1..n |-> [a \in X |-> Retain(own, a, t[i])]]
           Is(it) == it = [T \in SUBSET DOMAIN t |->
                             IF T = {} THEN <<>> ELSE Retain(own, it[T \ {Max(T)}], t[Max(T)])]
           iter == CHOOSE it : Is(it)
<1>1. n \in Nat /\ DOMAIN t = 1..n /\ \A i \in 1..n : t[i] \in Name
  OBVIOUS
<1>2. Undeclared(t, own) = iter[DOMAIN t]
  BY DEF Undeclared, FoldLeft, MapThenFoldSet, Retain
<1>3. <<>> \in X
  OBVIOUS
<1>4. ASSUME NEW a \in X, NEW i \in 1..n PROVE Retain(own, a, t[i]) \in X
  BY <1>1 DEF Retain
<1> HIDE DEF n, X
<1>5. /\ step \in [1..n -> [X -> X]]
      /\ \A i \in 1..n, a \in X : step[i][a] = Retain(own, a, t[i])
  BY <1>4
<1> HIDE DEF step
<1>6. PICK F : Folding(F, X, n, <<>>, step)
  BY <1>1, <1>3, <1>5, FoldExists
<1>7. Is(F)
  <2>1. /\ F \in [SUBSET (1..n) -> X] /\ F[{}] = <<>>
        /\ \A T \in SUBSET (1..n) : T # {} => F[T] = step[Max(T)][F[T \ {Max(T)}]]
    BY <1>6 DEF Folding
  <2>2. \A T \in SUBSET (1..n) : T # {} => F[T] = Retain(own, F[T \ {Max(T)}], t[Max(T)])
    BY <1>1, <1>5, <2>1, LastPlace
  <2> QED
    BY <1>1, <2>1, <2>2
<1>8. Is(iter)
  BY <1>7
<1> HIDE DEF iter
<1>9. /\ iter[{}] = <<>>
      /\ \A T \in SUBSET (1..n) : T # {} => iter[T] = Retain(own, iter[T \ {Max(T)}], t[Max(T)])
  BY <1>1, <1>8
<1>10. Unfolds(iter, X, n, <<>>, step)
  BY <1>1, <1>5, <1>9, LastPlace DEF Unfolds
<1> DEFINE f == ValuesOf(iter, n)
<1>11. Loop(f, X, n, <<>>, step)
  BY <1>1, <1>3, <1>5, <1>10, FoldIsLoop
<1>12. f[n] = iter[1..n]
  BY <1>1 DEF ValuesOf
<1> HIDE DEF f
<1>13. f \in [0..n -> X] /\ f[0] = <<>> /\ \A i \in 1..n : f[i] = step[i][f[i - 1]]
  BY <1>11 DEF Loop
<1>14. ASSUME NEW i \in 1..n PROVE f[i] = Retain(own, f[i - 1], t[i])
  <2>1. i - 1 \in 0..n
    BY <1>1
  <2> QED
    BY <1>5, <1>13, <2>1
<1>15. RetainedFrom(f, own, t)
  BY <1>1, <1>2, <1>12, <1>13, <1>14 DEF RetainedFrom, n, X
<1> QED
  BY <1>15

Retained(r, own, t, m) ==
  /\ r \in Seq(Name) /\ OncePerPrefix(r)
  /\ \A p, u : Contains(r, <<p, u>>) <=>
                 ~HasPrefix(own, p) /\ \E j \in 1..m : t[j] = <<p, u>>

LEMMA RetainedStep ==
  ASSUME NEW own, NEW t \in Seq(Name), OncePerPrefix(t), NEW i \in 1..Len(t), NEW h \in Nat,
         h + 1 = i, NEW a, Retained(a, own, t, h)
  PROVE  Retained(Retain(own, a, t[i]), own, t, i)
<1>1. /\ DOMAIN t = 1..Len(t) /\ t[i] \in Name
      /\ \A k \in 1..i : k \in 1..h \/ k = i
      /\ \A k \in 1..h : k \in 1..i /\ k # i /\ k \in 1..Len(t)
      /\ i \in 1..i
  OBVIOUS
<1> DEFINE q == t[i][1]
           v == t[i][2]
<1>2. t[i] = <<q, v>> /\ <<q, v>> \in Name
  BY <1>1 DEF Name
<1> HIDE DEF q, v
<1>3. t[i][1] = q
  BY DEF q
<1>4. a \in Seq(Name) /\ OncePerPrefix(a)
  BY Zenon DEF Retained
<1>5. ASSUME NEW p, NEW u
      PROVE  (\E j \in 1..i : t[j] = <<p, u>>) <=>
               (\E j \in 1..h : t[j] = <<p, u>>) \/ (p = q /\ u = v)
  <2>1. t[i] = <<p, u>> <=> p = q /\ u = v
    BY <1>2
  <2> QED
    BY <1>1, <2>1, Zenon
<1>6. CASE HasPrefix(own, q)
  <2>1. Retain(own, a, t[i]) = a
    BY <1>3, <1>6, Zenon DEF Retain
  <2>2. ASSUME NEW p, NEW u
        PROVE  Contains(a, <<p, u>>) <=>
                 ~HasPrefix(own, p) /\ \E j \in 1..i : t[j] = <<p, u>>
    <3>1. Contains(a, <<p, u>>) <=>
            ~HasPrefix(own, p) /\ \E j \in 1..h : t[j] = <<p, u>>
      BY Zenon DEF Retained
    <3> QED
      BY <1>5, <1>6, <3>1
  <2>3. Retained(a, own, t, i)
    BY <1>4, <2>2, Zenon DEF Retained
  <2> QED
    BY <2>1, <2>3, Zenon
<1>7. CASE ~HasPrefix(own, q)
  <2>1. ~HasPrefix(a, q)
    <3> SUFFICES ASSUME HasPrefix(a, q) PROVE FALSE
      OBVIOUS
    <3>1. PICK u : Contains(a, <<q, u>>)
      BY <1>4, PrefixListed
    <3>2. PICK j \in 1..h : t[j] = <<q, u>>
      BY <3>1, Zenon DEF Retained
    <3>3. t[j][1] = q
      BY <3>2, PairParts, Zenon
    <3>4. j = i
      BY <1>1, <1>3, <3>3, Zenon DEF OncePerPrefix
    <3> QED
      BY <1>1, <3>4, Zenon
  <2> DEFINE r == Put(a, <<q, v>>)
  <2>2. Retain(own, a, t[i]) = r
    <3>1. <<q, v>>[1] = q
      BY PairParts, Zenon
    <3> QED
      BY <1>2, <1>3, <1>7, <2>1, <3>1, Zenon DEF Retain, Put
  <2>3. /\ r \in Seq(Name) /\ OncePerPrefix(r)
        /\ \A p, u : Contains(r, <<p, u>>) <=> IF p = q THEN u = v ELSE Contains(a, <<p, u>>)
    BY <1>2, <1>4, PutIs
  <2> HIDE DEF r
  <2>4. ASSUME NEW p, NEW u
        PROVE  Contains(r, <<p, u>>) <=>
                 ~HasPrefix(own, p) /\ \E j \in 1..i : t[j] = <<p, u>>
    <3>1. Contains(a, <<p, u>>) <=>
            ~HasPrefix(own, p) /\ \E j \in 1..h : t[j] = <<p, u>>
      BY Zenon DEF Retained
    <3>2. CASE p = q
      <4>1. ~Contains(a, <<q, u>>)
        BY <1>4, <2>1, PrefixListed
      <4> QED
        BY <1>5, <1>7, <2>3, <3>1, <3>2, <4>1
    <3>3. CASE p # q
      BY <1>5, <2>3, <3>1, <3>3
    <3> QED
      BY <3>2, <3>3
  <2>5. Retained(r, own, t, i)
    BY <2>3, <2>4, Zenon DEF Retained
  <2> QED
    BY <2>2, <2>5, Zenon
<1> QED
  BY <1>6, <1>7

LEMMA UndeclaredIs ==
  ASSUME NEW own, NEW t \in Seq(Name), OncePerPrefix(t)
  PROVE  LET r == Undeclared(t, own)
         IN  /\ r \in Seq(Name) /\ OncePerPrefix(r)
             /\ \A p, u : Contains(r, <<p, u>>) <=> ~HasPrefix(own, p) /\ Contains(t, <<p, u>>)
<1> DEFINE n == Len(t)
<1>1. n \in Nat /\ DOMAIN t = 1..n
  OBVIOUS
<1>2. PICK f : RetainedFrom(f, own, t)
  BY RetainedRun
<1>3. /\ f \in [0..n -> Seq(Name)] /\ f[0] = <<>>
      /\ \A i \in 1..n : f[i] = Retain(own, f[i - 1], t[i])
      /\ f[n] = Undeclared(t, own)
  BY <1>2 DEF RetainedFrom
<1> DEFINE G == {i \in 0..n : Retained(f[i], own, t, i)}
<1>4. 0 \in G
  <2>1. 1..0 = {} /\ 0 \in 0..n
    BY <1>1
  <2>2. <<>> \in Seq(Name) /\ DOMAIN <<>> = {}
    OBVIOUS
  <2>3. OncePerPrefix(<<>>)
    BY <2>2 DEF OncePerPrefix
  <2>4. \A x : ~Contains(<<>>, x)
    BY <2>2, Listed
  <2>5. Retained(<<>>, own, t, 0)
    BY <2>1, <2>2, <2>3, <2>4, Zenon DEF Retained
  <2> QED
    BY <1>3, <2>1, <2>5
<1>5. ASSUME NEW i \in 1..n, i - 1 \in G PROVE i \in G
  <2> PICK h \in Nat : h = i - 1
    BY <1>1
  <2>1. h + 1 = i /\ i \in 0..n
    BY <1>1
  <2>2. Retained(f[h], own, t, h) /\ f[i] = Retain(own, f[h], t[i])
    BY <1>3, <1>5
  <2> DEFINE a == f[h]
  <2>3. Retained(a, own, t, h)
    BY <2>2
  <2> HIDE DEF a
  <2>4. Retained(Retain(own, a, t[i]), own, t, i)
    BY <2>1, <2>3, RetainedStep
  <2> QED
    BY <2>1, <2>2, <2>4 DEF a
<1>6. n \in G
  <2>1. 0..n \subseteq G
    <3> HIDE DEF G, n
    <3> QED
      BY <1>1, <1>4, <1>5, Induction
  <2>2. n \in 0..n
    BY <1>1
  <2> HIDE DEF G
  <2> QED
    BY <2>1, <2>2
<1>7. Retained(Undeclared(t, own), own, t, n)
  BY <1>3, <1>6
<1> HIDE DEF n
<1> DEFINE r == Undeclared(t, own)
<1>8. Retained(r, own, t, n)
  BY <1>7
<1> HIDE DEF r
<1>9. ASSUME NEW p, NEW u
      PROVE  Contains(r, <<p, u>>) <=> ~HasPrefix(own, p) /\ Contains(t, <<p, u>>)
  <2>1. Contains(t, <<p, u>>) <=> \E j \in 1..n : t[j] = <<p, u>>
    BY <1>1, Listed
  <2> QED
    BY <1>8, <2>1, Zenon DEF Retained
<1> QED
  BY <1>8, <1>9, Zenon DEF Retained, r


LEMMA Completed ==
  ASSUME NEW X, NEW s \in Seq(X), NEW r \in Seq(X), Grows(r, s)
  PROVE  s \o SubSeq(r, Len(s) + 1, Len(r)) = r
<1> DEFINE m == Len(s)
           n == Len(r)
           t == SubSeq(r, m + 1, n)
           c == s \o t
<1>1. m \in Nat /\ n \in Nat /\ m <= n /\ \A i \in 1..m : r[i] = s[i]
  BY DEF Grows
<1>2. t \in Seq(X) /\ Len(t) = n - m /\ \A i \in 1..(n - m) : t[i] = r[i + m]
  <2>1. CASE m = n
    <3>1. t = <<>>
      BY <2>1
    <3>2. n - m = 0 /\ 1..(n - m) = {}
      BY <1>1, <2>1
    <3> QED
      BY <3>1, <3>2
  <2>2. CASE m # n
    <3> PICK h \in Nat : h = m + 1
      BY <1>1
    <3>1. h \in 1..n /\ n - h + 1 = n - m /\ \A i \in 1..(n - m) : i + h - 1 = i + m
      BY <1>1, <2>2
    <3>2. SubSeq(r, h, n) \in Seq(X) /\ Len(SubSeq(r, h, n)) = n - h + 1
          /\ \A i \in 1..(n - h + 1) : SubSeq(r, h, n)[i] = r[i + h - 1]
      <4> HIDE DEF t
      <4>1. n = Len(r)
        OBVIOUS
      <4> HIDE DEF n
      <4> QED
        BY <3>1, <4>1, RestIs
    <3> QED
      BY <3>1, <3>2
  <2> QED
    BY <2>1, <2>2
<1>3. s = [i \in 1..m |-> s[i]] /\ r = [i \in 1..n |-> r[i]] /\ \A i \in 1..m : s[i] \in X
  OBVIOUS
<1> HIDE DEF t
<1>4. c \in Seq(X) /\ Len(c) = m + (n - m)
      /\ \A i \in 1..n : c[i] = IF i <= m THEN s[i] ELSE t[i - m]
  BY <1>1, <1>2
<1>5. Len(c) = n
  BY <1>1, <1>4
<1>6. ASSUME NEW i \in 1..n PROVE c[i] = r[i]
  <2>1. CASE i <= m
    <3>1. i \in 1..m
      BY <1>1, <2>1
    <3> QED
      BY <1>1, <1>4, <2>1, <3>1
  <2>2. CASE ~(i <= m)
    <3>1. i - m \in 1..(n - m) /\ (i - m) + m = i
      BY <1>1, <2>2
    <3> QED
      BY <1>2, <1>4, <2>2, <3>1
  <2> QED
    BY <2>1, <2>2
<1> HIDE DEF c, m, n
<1>7. c = [i \in 1..n |-> c[i]]
  BY <1>4, <1>5
<1>8. c = r
  BY <1>3, <1>6, <1>7
<1> QED
  BY <1>8 DEF c, t, m, n

LEMMA Joined ==
  ASSUME NEW a \in Seq(Name), NEW b \in Seq(Name), OncePerPrefix(a), OncePerPrefix(b),
         \A p : ~(HasPrefix(a, p) /\ HasPrefix(b, p))
  PROVE  /\ a \o b \in Seq(Name) /\ OncePerPrefix(a \o b)
         /\ \A x : Contains(a \o b, x) <=> Contains(a, x) \/ Contains(b, x)
<1> DEFINE m == Len(a)
           n == Len(b)
           c == a \o b
           N == Name
<1>1. a \in Seq(N) /\ b \in Seq(N)
  OBVIOUS
<1> HIDE DEF N
<1>2. /\ m \in Nat /\ n \in Nat /\ DOMAIN a = 1..m /\ DOMAIN b = 1..n
      /\ c \in Seq(N) /\ DOMAIN c = 1..(m + n)
      /\ \A i \in 1..m : c[i] = a[i]
      /\ \A i \in 1..n : c[i + m] = b[i]
  BY <1>1
<1> HIDE DEF m, n, c
<1>3. /\ \A i \in 1..(m + n) : i \in 1..m \/ \E j \in 1..n : i = j + m
      /\ \A i \in 1..m : i \in 1..(m + n)
      /\ \A i \in 1..n : i + m \in 1..(m + n)
  <2>1. \A i \in 1..(m + n) : i \in 1..m \/ (i - m \in 1..n /\ i = (i - m) + m)
    BY <1>2
  <2>2. \A i \in 1..m : i \in 1..(m + n)
    BY <1>2
  <2>3. \A i \in 1..n : i + m \in 1..(m + n)
    BY <1>2
  <2> QED
    BY <2>1, <2>2, <2>3, Zenon
<1>4. ASSUME NEW x PROVE Contains(c, x) <=> Contains(a, x) \/ Contains(b, x)
  <2>1. /\ Contains(c, x) <=> \E i \in 1..(m + n) : c[i] = x
        /\ Contains(a, x) <=> \E i \in 1..m : a[i] = x
        /\ Contains(b, x) <=> \E i \in 1..n : b[i] = x
    BY <1>1, <1>2, Listed
  <2>2. ASSUME NEW i \in 1..(m + n), c[i] = x PROVE Contains(a, x) \/ Contains(b, x)
    BY <1>2, <1>3, <2>1, <2>2, Zenon
  <2> QED
    BY <1>2, <1>3, <2>1, <2>2, Zenon
<1>5. ASSUME NEW i \in 1..(m + n), NEW j \in 1..(m + n), c[i][1] = c[j][1]
      PROVE  i = j
  <2>1. CASE i \in 1..m /\ j \in 1..m
    BY <1>2, <1>5, <2>1 DEF OncePerPrefix
  <2>2. ASSUME NEW k \in 1..n, NEW l \in 1..n, i = k + m, j = l + m
        PROVE  i = j
    <3>1. c[i] = b[k] /\ c[j] = b[l]
      BY <1>2, <2>2
    <3>2. b[k][1] = b[l][1]
      BY <1>5, <3>1, Zenon
    <3>3. k = l
      BY <1>2, <3>2 DEF OncePerPrefix
    <3> QED
      BY <2>2, <3>3, Zenon
  <2>3. ASSUME NEW k \in 1..m, NEW l \in 1..n, c[k][1] = c[l + m][1] PROVE FALSE
    <3>1. a[k][1] = b[l][1]
      BY <1>2, <2>3, Zenon
    <3>2. HasPrefix(a, b[l][1]) /\ HasPrefix(b, b[l][1])
      BY <1>2, <3>1, Zenon DEF HasPrefix
    <3> QED
      BY <3>2, Zenon
  <2>4. CASE i \in 1..m /\ j \notin 1..m
    BY <1>3, <1>5, <2>3, <2>4, Zenon
  <2>5. CASE i \notin 1..m /\ j \in 1..m
    BY <1>3, <1>5, <2>3, <2>5, Zenon
  <2>6. CASE i \notin 1..m /\ j \notin 1..m
    BY <1>3, <2>2, <2>6, Zenon
  <2> QED
    BY <2>1, <2>4, <2>5, <2>6
<1>6. OncePerPrefix(c)
  BY <1>2, <1>5, Zenon DEF OncePerPrefix
<1> QED
  BY <1>2, <1>4, <1>6 DEF c, N


(* The nearest element of the line that declares p gives it uri u; the     *)
(* farthest one does.                                                      *)
Nearest(d, line, p, u) ==
  \E i \in 1..Len(line) : /\ Contains(d.decls[line[i]], <<p, u>>)
                          /\ \A j \in 1..(i - 1) : ~HasPrefix(d.decls[line[j]], p)

Farthest(d, line, p, u) ==
  \E i \in 1..Len(line) : /\ Contains(d.decls[line[i]], <<p, u>>)
                          /\ \A j \in (i + 1)..Len(line) : ~HasPrefix(d.decls[line[j]], p)

(* What can be on a line: elements of a document.                          *)
Lined(d, line) ==
  /\ Len(line) \in Nat /\ DOMAIN line = 1..Len(line)
  /\ \A i \in 1..Len(line) : d.decls[line[i]] \in Seq(Name) /\ OncePerPrefix(d.decls[line[i]])

LEMMA DocumentLined ==
  ASSUME NEW d, IsDocument(d), NEW line \in Seq(Elements(d))
  PROVE  Lined(d, line)
<1> DEFINE E == Elements(d)
<1>1. IsTree(d) /\ \A x \in E : WellNamed(d, x)
  BY DocumentIs
<1>2. \A x \in E : d.decls[x] \in Seq(Name) /\ OncePerPrefix(d.decls[x])
  <2> SUFFICES ASSUME NEW x \in E PROVE d.decls[x] \in Seq(Name) /\ OncePerPrefix(d.decls[x])
    OBVIOUS
  <2>1. OncePerPrefix(d.decls[x])
    BY <1>1, Zenon DEF WellNamed
  <2> QED
    BY <1>1, <2>1, TreeTyped
<1>3. line \in Seq(E)
  OBVIOUS
<1> HIDE DEF E
<1>4. Len(line) \in Nat /\ DOMAIN line = 1..Len(line) /\ \A i \in 1..Len(line) : line[i] \in E
  BY <1>3
<1> QED
  BY <1>2, <1>4, Zenon DEF Lined

(* The nearest one is what a prefix means; without one, it means nothing.  *)
LEMMA NearestMeans ==
  ASSUME NEW d, NEW line, Lined(d, line), NEW p
  PROVE  /\ \A u : Nearest(d, line, p, u) => NearestOn(d, line, p) = u
         /\ DeclaringPlaces(d, line, p) # {} => \E u : Nearest(d, line, p, u)
<1> DEFINE n == Len(line)
           T == DeclaringPlaces(d, line, p)
           decls(i) == d.decls[line[i]]
<1>1. /\ n \in Nat /\ DOMAIN line = 1..n
      /\ \A i \in 1..n : decls(i) \in Seq(Name) /\ OncePerPrefix(decls(i))
  BY DEF Lined
<1>2. DOMAIN line \subseteq Nat
  BY <1>1
<1>3. /\ \A i : i \in T <=> i \in 1..n /\ HasPrefix(decls(i), p)
      /\ T \in SUBSET Nat
  BY <1>1, <1>2 DEF DeclaringPlaces
<1>4. ASSUME NEW i \in 1..n
      PROVE  /\ \A u : Contains(decls(i), <<p, u>>) => Meaning(decls(i), p) = u /\ HasPrefix(decls(i), p)
             /\ HasPrefix(decls(i), p) => Contains(decls(i), <<p, Meaning(decls(i), p)>>)
  <2>1. decls(i) \in Seq(Name) /\ OncePerPrefix(decls(i))
    BY <1>1
  <2> HIDE DEF decls
  <2> QED
    BY <2>1, PrefixListed
<1>5. ASSUME NEW u, Nearest(d, line, p, u)
      PROVE  NearestOn(d, line, p) = u
  <2>1. PICK i \in 1..n : /\ Contains(decls(i), <<p, u>>)
                          /\ \A j \in 1..(i - 1) : ~HasPrefix(decls(j), p)
    BY <1>5, Zenon DEF Nearest
  <2>2. i \in T /\ Meaning(decls(i), p) = u
    BY <1>3, <1>4, <2>1, Zenon
  <2>3. ASSUME NEW j \in T PROVE i <= j
    <3>1. j \in 1..n /\ HasPrefix(decls(j), p)
      BY <1>3
    <3>2. j \notin 1..(i - 1)
      BY <2>1, <3>1, Zenon
    <3> HIDE DEF n
    <3> QED
      BY <1>1, <3>1, <3>2
  <2> HIDE DEF n
  <2>4. NearestOn(d, line, p) = Meaning(d.decls[line[i]], p)
    BY <1>2, <2>2, <2>3, NearestIs
  <2> QED
    BY <2>2, <2>4, Zenon
<1>6. ASSUME T # {}
      PROVE  \E u : Nearest(d, line, p, u)
  <2> HIDE DEF T
  <2>1. PICK i \in T : \A j \in T : i <= j
    BY <1>3, <1>6, LeastNumber
  <2>2. i \in 1..n /\ Contains(decls(i), <<p, Meaning(decls(i), p)>>)
    BY <1>3, <1>4, <2>1, Zenon
  <2>3. ASSUME NEW j \in 1..(i - 1) PROVE ~HasPrefix(decls(j), p)
    <3> HIDE DEF n
    <3>1. j \in 1..n /\ ~(i <= j)
      BY <1>1, <2>2
    <3> QED
      BY <1>3, <2>1, <3>1, Zenon
  <2> QED
    BY <2>2, <2>3, Zenon DEF Nearest
<1> QED
  BY <1>5, <1>6

(* Lines on which every prefix has the same nearest declarations agree.    *)
LEMMA NearestAgree ==
  ASSUME NEW c, NEW top, Lined(c, top), NEW d, NEW line, Lined(d, line), NEW p,
         \A u : Nearest(c, top, p, u) <=> Nearest(d, line, p, u)
  PROVE  NearestOn(c, top, p) = NearestOn(d, line, p)
<1>1. CASE \E u : Nearest(d, line, p, u)
  BY <1>1, NearestMeans, Zenon
<1>2. CASE ~\E u : Nearest(d, line, p, u)
  <2>1. DeclaringPlaces(d, line, p) = {} /\ DeclaringPlaces(c, top, p) = {}
    BY <1>2, NearestMeans, Zenon
  <2> QED
    BY <2>1, Zenon DEF NearestOn
<1> QED
  BY <1>1, <1>2


DeclaredAt(d, line, i) == d.decls[line[i]]

(* A list of the declarations along a line, and the places of one prefix.  *)
Listing(d, line, t, g, p) ==
  /\ Len(line) \in Nat /\ Len(t) \in Nat
  /\ \A k \in 1..Len(t) : g[k] \in 1..Len(line) /\ Contains(DeclaredAt(d, line, g[k]), t[k])
  /\ \A k, l \in 1..Len(t) : k <= l => g[k] <= g[l]
  /\ \A i \in 1..Len(line) : \A x :
       Contains(DeclaredAt(d, line, i), x) => \E k \in 1..Len(t) : g[k] = i /\ t[k] = x
  /\ \A i \in 1..Len(line) :
       /\ HasPrefix(DeclaredAt(d, line, i), p) <=> \E w : Contains(DeclaredAt(d, line, i), <<p, w>>)
       /\ \A w, z : Contains(DeclaredAt(d, line, i), <<p, w>>)
                     /\ Contains(DeclaredAt(d, line, i), <<p, z>>) => w = z
  /\ \A k \in 1..Len(t) : t[k][1] = p => \E w : t[k] = <<p, w>>

LEMMA Listings ==
  ASSUME NEW d, NEW line, Lined(d, line), NEW t \in Seq(Name), NEW g, Along(d, line, t, g), NEW p
  PROVE  Listing(d, line, t, g, p)
<1> DEFINE n == Len(line)
           m == Len(t)
<1>1. /\ n \in Nat /\ DOMAIN line = 1..n
      /\ \A i \in 1..n : DeclaredAt(d, line, i) \in Seq(Name) /\ OncePerPrefix(DeclaredAt(d, line, i))
  BY DEF Lined, DeclaredAt
<1>2. m \in Nat /\ DOMAIN t = 1..m /\ \A k \in 1..m : t[k] \in Name
  OBVIOUS
<1> HIDE DEF n, m
<1>3. \A k \in 1..m : g[k] \in 1..n
  BY <1>1, <1>2 DEF Along
<1>4. \A k \in 1..m : Contains(DeclaredAt(d, line, g[k]), t[k])
  BY <1>2, Zenon DEF Along, DeclaredAt
<1>5. \A k, l \in 1..m : k <= l => g[k] <= g[l]
  BY <1>2, Zenon DEF Along
<1>6. \A i \in 1..n : \A x :
        Contains(DeclaredAt(d, line, i), x) => \E k \in 1..m : g[k] = i /\ t[k] = x
  <2> SUFFICES ASSUME NEW i \in 1..n, NEW x, Contains(DeclaredAt(d, line, i), x)
               PROVE  \E k \in 1..m : g[k] = i /\ t[k] = x
    BY Zenon
  <2>1. i \in DOMAIN line /\ Contains(d.decls[line[i]], x)
    BY <1>1, Zenon DEF DeclaredAt
  <2>2. \E k \in DOMAIN t : g[k] = i /\ t[k] = x
    BY <2>1, Zenon DEF Along
  <2> QED
    BY <1>2, <2>2, Zenon
<1>7. ASSUME NEW i \in 1..n
      PROVE  /\ HasPrefix(DeclaredAt(d, line, i), p) <=> \E w : Contains(DeclaredAt(d, line, i), <<p, w>>)
             /\ \A w, z : Contains(DeclaredAt(d, line, i), <<p, w>>)
                           /\ Contains(DeclaredAt(d, line, i), <<p, z>>) => w = z
  <2> DEFINE s == DeclaredAt(d, line, i)
  <2>1. s \in Seq(Name) /\ OncePerPrefix(s)
    BY <1>1
  <2> HIDE DEF s
  <2>2. /\ HasPrefix(s, p) <=> \E w : Contains(s, <<p, w>>)
        /\ \A w : Contains(s, <<p, w>>) => Meaning(s, p) = w
    BY <2>1, PrefixListed
  <2> QED
    BY <2>2, Zenon DEF s
<1>8. ASSUME NEW k \in 1..m, t[k][1] = p
      PROVE  \E w : t[k] = <<p, w>>
  <2>1. t[k] \in Name
    BY <1>2
  <2>2. t[k] = <<p, t[k][2]>>
    BY <1>8, <2>1 DEF Name
  <2> QED
    BY <2>2, Zenon
<1> QED
  BY <1>1, <1>2, <1>3, <1>4, <1>5, <1>6, <1>7, <1>8, Zenon DEF Listing, n, m

(* The first declaration of a prefix along a line is the nearest one, the  *)
(* last declaration the farthest.                                          *)
LEMMA FirstIsNearest ==
  ASSUME NEW d, NEW line, Lined(d, line), NEW t \in Seq(Name), NEW g, Along(d, line, t, g),
         NEW p, NEW u
  PROVE  FirstOf(t, Len(t), p, u) <=> Nearest(d, line, p, u)
<1> DEFINE n == Len(line)
           m == Len(t)
           decls(i) == DeclaredAt(d, line, i)
<1>1. Listing(d, line, t, g, p)
  BY Listings
<1>2. n \in Nat /\ m \in Nat
  BY <1>1, Zenon DEF Listing
<1>3. /\ \A k \in 1..m : g[k] \in 1..n /\ Contains(decls(g[k]), t[k])
      /\ \A k, l \in 1..m : k <= l => g[k] <= g[l]
      /\ \A i \in 1..n : \A x : Contains(decls(i), x) => \E k \in 1..m : g[k] = i /\ t[k] = x
  BY <1>1, Zenon DEF Listing
<1>4. \A i \in 1..n :
        /\ HasPrefix(decls(i), p) <=> \E w : Contains(decls(i), <<p, w>>)
        /\ \A w, z : Contains(decls(i), <<p, w>>) /\ Contains(decls(i), <<p, z>>) => w = z
  BY <1>1, Zenon DEF Listing
<1>5. ASSUME NEW k \in 1..m, t[k][1] = p
      PROVE  g[k] \in 1..n /\ HasPrefix(decls(g[k]), p) /\ \E w : t[k] = <<p, w>>
  <2>1. PICK w : t[k] = <<p, w>>
    BY <1>1, <1>5, Zenon DEF Listing
  <2>2. g[k] \in 1..n /\ Contains(decls(g[k]), <<p, w>>)
    BY <1>3, <2>1, Zenon
  <2> QED
    BY <1>4, <2>1, <2>2, Zenon
<1> HIDE DEF n, m, decls
<1>6. ASSUME FirstOf(t, m, p, u)
      PROVE  Nearest(d, line, p, u)
  <2>1. PICK k \in 1..m : t[k] = <<p, u>> /\ \A j \in 1..(k - 1) : t[j][1] # p
    BY <1>6, Zenon DEF FirstOf
  <2>2. g[k] \in 1..n /\ Contains(decls(g[k]), <<p, u>>)
    BY <1>3, <2>1, Zenon
  <2>3. ASSUME NEW j \in 1..(g[k] - 1), HasPrefix(decls(j), p) PROVE FALSE
    <3>1. j \in 1..n /\ ~(g[k] <= j)
      BY <1>2, <2>2
    <3>2. PICK w : Contains(decls(j), <<p, w>>)
      BY <1>4, <2>3, <3>1, Zenon
    <3>3. PICK l \in 1..m : g[l] = j /\ t[l] = <<p, w>>
      BY <1>3, <3>1, <3>2, Zenon
    <3>4. ~(k <= l)
      BY <1>3, <3>1, <3>3, Zenon
    <3>5. l \in 1..(k - 1)
      BY <1>2, <3>4
    <3>6. t[l][1] = p
      BY <3>3, PairParts, Zenon
    <3> QED
      BY <2>1, <3>5, <3>6, Zenon
  <2> QED
    BY <2>2, <2>3, Zenon DEF Nearest, n, decls, DeclaredAt
<1>7. ASSUME Nearest(d, line, p, u)
      PROVE  FirstOf(t, m, p, u)
  <2>1. PICK i \in 1..n : /\ Contains(decls(i), <<p, u>>)
                          /\ \A j \in 1..(i - 1) : ~HasPrefix(decls(j), p)
    BY <1>7, Zenon DEF Nearest, n, decls, DeclaredAt
  <2> DEFINE K == {k \in 1..m : t[k][1] = p}
  <2>2. PICK h \in 1..m : g[h] = i /\ t[h] = <<p, u>>
    BY <1>3, <2>1, Zenon
  <2>3. h \in K
    BY <2>2, PairParts, Zenon
  <2>4. K \in SUBSET Nat
    BY <1>2
  <2>5. PICK k \in K : \A l \in K : k <= l
    <3> HIDE DEF K
    <3> QED
      BY <2>3, <2>4, LeastNumber
  <2>6. k \in 1..m /\ t[k][1] = p /\ k <= h
    BY <2>3, <2>5
  <2>7. g[k] \in 1..n /\ HasPrefix(decls(g[k]), p) /\ g[k] <= g[h]
    BY <1>3, <1>5, <2>6, Zenon
  <2>8. g[k] = i
    <3>1. g[k] \notin 1..(i - 1)
      BY <2>1, <2>7, Zenon
    <3> QED
      BY <1>2, <2>2, <2>7, <3>1
  <2>9. PICK w : t[k] = <<p, w>>
    BY <1>5, <2>6
  <2>10. w = u
    <3>1. Contains(decls(g[k]), t[k])
      BY <1>3, <2>6, Zenon
    <3>2. Contains(decls(i), <<p, w>>)
      BY <2>8, <2>9, <3>1, Zenon
    <3> QED
      BY <1>4, <2>1, <3>2, Zenon
  <2>11. ASSUME NEW j \in 1..(k - 1) PROVE t[j][1] # p
    <3>1. j \in 1..m /\ ~(k <= j)
      BY <1>2, <2>6
    <3>2. j \notin K
      BY <2>5, <3>1, Zenon
    <3> QED
      BY <3>1, <3>2
  <2> QED
    BY <2>6, <2>9, <2>10, <2>11, Zenon DEF FirstOf
<1> QED
  BY <1>6, <1>7 DEF m

LEMMA LastIsFarthest ==
  ASSUME NEW d, NEW line, Lined(d, line), NEW t \in Seq(Name), NEW g, Along(d, line, t, g),
         NEW p, NEW u
  PROVE  LastOf(t, Len(t), p, u) <=> Farthest(d, line, p, u)
<1> DEFINE n == Len(line)
           m == Len(t)
           decls(i) == DeclaredAt(d, line, i)
<1>1. Listing(d, line, t, g, p)
  BY Listings
<1>2. n \in Nat /\ m \in Nat
  BY <1>1, Zenon DEF Listing
<1>3. /\ \A k \in 1..m : g[k] \in 1..n /\ Contains(decls(g[k]), t[k])
      /\ \A k, l \in 1..m : k <= l => g[k] <= g[l]
      /\ \A i \in 1..n : \A x : Contains(decls(i), x) => \E k \in 1..m : g[k] = i /\ t[k] = x
  BY <1>1, Zenon DEF Listing
<1>4. \A i \in 1..n :
        /\ HasPrefix(decls(i), p) <=> \E w : Contains(decls(i), <<p, w>>)
        /\ \A w, z : Contains(decls(i), <<p, w>>) /\ Contains(decls(i), <<p, z>>) => w = z
  BY <1>1, Zenon DEF Listing
<1>5. ASSUME NEW k \in 1..m, t[k][1] = p
      PROVE  g[k] \in 1..n /\ HasPrefix(decls(g[k]), p) /\ \E w : t[k] = <<p, w>>
  <2>1. PICK w : t[k] = <<p, w>>
    BY <1>1, <1>5, Zenon DEF Listing
  <2>2. g[k] \in 1..n /\ Contains(decls(g[k]), <<p, w>>)
    BY <1>3, <2>1, Zenon
  <2> QED
    BY <1>4, <2>1, <2>2, Zenon
<1> HIDE DEF n, m, decls
<1>6. ASSUME LastOf(t, m, p, u)
      PROVE  Farthest(d, line, p, u)
  <2>1. PICK k \in 1..m : t[k] = <<p, u>> /\ \A j \in (k + 1)..m : t[j][1] # p
    BY <1>6, Zenon DEF LastOf
  <2>2. g[k] \in 1..n /\ Contains(decls(g[k]), <<p, u>>)
    BY <1>3, <2>1, Zenon
  <2>3. ASSUME NEW j \in (g[k] + 1)..n, HasPrefix(decls(j), p) PROVE FALSE
    <3>1. j \in 1..n /\ ~(j <= g[k])
      BY <1>2, <2>2
    <3>2. PICK w : Contains(decls(j), <<p, w>>)
      BY <1>4, <2>3, <3>1, Zenon
    <3>3. PICK l \in 1..m : g[l] = j /\ t[l] = <<p, w>>
      BY <1>3, <3>1, <3>2, Zenon
    <3>4. ~(l <= k)
      BY <1>3, <3>1, <3>3, Zenon
    <3>5. l \in (k + 1)..m
      BY <1>2, <3>4
    <3>6. t[l][1] = p
      BY <3>3, PairParts, Zenon
    <3> QED
      BY <2>1, <3>5, <3>6, Zenon
  <2> QED
    BY <2>2, <2>3, Zenon DEF Farthest, n, decls, DeclaredAt
<1>7. ASSUME Farthest(d, line, p, u)
      PROVE  LastOf(t, m, p, u)
  <2>1. PICK i \in 1..n : /\ Contains(decls(i), <<p, u>>)
                          /\ \A j \in (i + 1)..n : ~HasPrefix(decls(j), p)
    BY <1>7, Zenon DEF Farthest, n, decls, DeclaredAt
  <2> DEFINE K == {k \in 1..m : t[k][1] = p}
  <2>2. PICK h \in 1..m : g[h] = i /\ t[h] = <<p, u>>
    BY <1>3, <2>1, Zenon
  <2>3. h \in K
    BY <2>2, PairParts, Zenon
  <2>4. K \in SUBSET (1..m)
    BY <1>2
  <2>5. PICK k \in K : \A l \in K : l <= k
    <3> HIDE DEF K
    <3> QED
      BY <1>2, <2>3, <2>4, GreatestIs
  <2>6. k \in 1..m /\ t[k][1] = p /\ h <= k
    BY <2>3, <2>5
  <2>7. g[k] \in 1..n /\ HasPrefix(decls(g[k]), p) /\ g[h] <= g[k]
    BY <1>3, <1>5, <2>6, Zenon
  <2>8. g[k] = i
    <3>1. g[k] \notin (i + 1)..n
      BY <2>1, <2>7, Zenon
    <3> QED
      BY <1>2, <2>2, <2>7, <3>1
  <2>9. PICK w : t[k] = <<p, w>>
    BY <1>5, <2>6
  <2>10. w = u
    <3>1. Contains(decls(g[k]), t[k])
      BY <1>3, <2>6, Zenon
    <3>2. Contains(decls(i), <<p, w>>)
      BY <2>8, <2>9, <3>1, Zenon
    <3> QED
      BY <1>4, <2>1, <3>2, Zenon
  <2>11. ASSUME NEW j \in (k + 1)..m PROVE t[j][1] # p
    <3>1. j \in 1..m /\ ~(j <= k)
      BY <1>2, <2>6
    <3>2. j \notin K
      BY <2>5, <3>1, Zenon
    <3> QED
      BY <3>1, <3>2
  <2> QED
    BY <2>6, <2>9, <2>10, <2>11, Zenon DEF LastOf
<1> QED
  BY <1>6, <1>7 DEF m

LEMMA FarthestBack ==
  ASSUME NEW d, NEW X, NEW line \in Seq(X), NEW p, NEW u
  PROVE  Farthest(d, Reverse(line), p, u) <=> Nearest(d, line, p, u)
<1> DEFINE n == Len(line)
           back == Reverse(line)
           decls(x) == d.decls[x]
<1>1. /\ Len(back) = n /\ n \in Nat
      /\ \A i \in 1..n : n - i + 1 \in 1..n /\ back[i] = line[n - i + 1]
  BY ReverseIs
<1> HIDE DEF n, back
<1>2. ASSUME Farthest(d, back, p, u) PROVE Nearest(d, line, p, u)
  <2>1. PICK i \in 1..n : /\ Contains(decls(back[i]), <<p, u>>)
                          /\ \A j \in (i + 1)..n : ~HasPrefix(decls(back[j]), p)
    BY <1>1, <1>2, Zenon DEF Farthest
  <2> PICK k \in Nat : k = n - i + 1
    BY <1>1
  <2>2. k \in 1..n /\ Contains(decls(line[k]), <<p, u>>)
    BY <1>1, <2>1
  <2>3. ASSUME NEW j \in 1..(k - 1) PROVE ~HasPrefix(decls(line[j]), p)
    <3> PICK h \in Nat : h = n - j + 1
      BY <1>1
    <3>1. h \in (i + 1)..n /\ h \in 1..n /\ n - h + 1 = j
      BY <1>1
    <3>2. back[h] = line[j]
      BY <1>1, <3>1
    <3> QED
      BY <2>1, <3>1, <3>2, Zenon
  <2> QED
    BY <2>2, <2>3, Zenon DEF Nearest, n
<1>3. ASSUME Nearest(d, line, p, u) PROVE Farthest(d, back, p, u)
  <2>1. PICK i \in 1..n : /\ Contains(decls(line[i]), <<p, u>>)
                          /\ \A j \in 1..(i - 1) : ~HasPrefix(decls(line[j]), p)
    BY <1>1, <1>3, Zenon DEF Nearest, n
  <2> PICK k \in Nat : k = n - i + 1
    BY <1>1
  <2>2. k \in 1..n /\ n - k + 1 = i
    BY <1>1
  <2>3. Contains(decls(back[k]), <<p, u>>)
    BY <1>1, <2>1, <2>2, Zenon
  <2>4. ASSUME NEW j \in (k + 1)..n PROVE ~HasPrefix(decls(back[j]), p)
    <3> PICK h \in Nat : h = n - j + 1
      BY <1>1
    <3>1. h \in 1..(i - 1) /\ j \in 1..n
      BY <1>1
    <3>2. back[j] = line[h]
      BY <1>1, <3>1
    <3> QED
      BY <2>1, <3>1, <3>2, Zenon
  <2> QED
    BY <1>1, <2>2, <2>3, <2>4, Zenon DEF Farthest
<1> QED
  BY <1>2, <1>3 DEF back


(* Nearest first means one's own declarations before the ancestors'.       *)
LEMMA OwnFirst ==
  ASSUME NEW d, NEW X, NEW line \in Seq(X), Len(line) > 0, NEW p, NEW u,
         NEW own, own = d.decls[line[1]], Contains(own, <<p, u>>) => HasPrefix(own, p)
  PROVE  /\ Tail(line) \in Seq(X)
         /\ Nearest(d, line, p, u) <=>
              \/ Contains(own, <<p, u>>)
              \/ ~HasPrefix(own, p) /\ Nearest(d, Tail(line), p, u)
<1> DEFINE n == Len(line)
           rest == Tail(line)
           decls(x) == d.decls[x]
<1>1. /\ n \in Nat /\ n > 0 /\ rest \in Seq(X) /\ Len(rest) = n - 1
      /\ \A i \in 1..(n - 1) : rest[i] = line[i + 1]
  OBVIOUS
<1> HIDE DEF n, rest
<1>2. ASSUME Nearest(d, line, p, u)
      PROVE  Contains(own, <<p, u>>) \/ (~HasPrefix(own, p) /\ Nearest(d, rest, p, u))
  <2>1. PICK i \in 1..n : /\ Contains(decls(line[i]), <<p, u>>)
                          /\ \A j \in 1..(i - 1) : ~HasPrefix(decls(line[j]), p)
    BY <1>2, Zenon DEF Nearest, n
  <2>2. CASE i = 1
    BY <2>1, <2>2, Zenon
  <2>3. CASE i # 1
    <3> PICK k \in Nat : k = i - 1
      BY <1>1
    <3>1. k \in 1..(n - 1) /\ k + 1 = i /\ 1 \in 1..(i - 1)
      BY <1>1, <2>3
    <3>2. ~HasPrefix(own, p)
      BY <2>1, <3>1, Zenon
    <3>3. Contains(decls(rest[k]), <<p, u>>)
      BY <1>1, <2>1, <3>1, Zenon
    <3>4. ASSUME NEW j \in 1..(k - 1) PROVE ~HasPrefix(decls(rest[j]), p)
      <4> PICK h \in Nat : h = j + 1
        OBVIOUS
      <4>1. h \in 1..(i - 1) /\ j \in 1..(n - 1)
        BY <1>1, <3>1
      <4>2. rest[j] = line[h]
        BY <1>1, <4>1
      <4> QED
        BY <2>1, <4>1, <4>2, Zenon
    <3> QED
      BY <1>1, <3>1, <3>2, <3>3, <3>4, Zenon DEF Nearest
  <2> QED
    BY <2>2, <2>3
<1>3. ASSUME Contains(own, <<p, u>>)
      PROVE  Nearest(d, line, p, u)
  <2>1. 1 \in 1..n /\ 1..(1 - 1) = {}
    BY <1>1
  <2> QED
    BY <1>3, <2>1, Zenon DEF Nearest, n
<1>4. ASSUME ~HasPrefix(own, p), Nearest(d, rest, p, u)
      PROVE  Nearest(d, line, p, u)
  <2>1. PICK i \in 1..(n - 1) : /\ Contains(decls(rest[i]), <<p, u>>)
                                /\ \A j \in 1..(i - 1) : ~HasPrefix(decls(rest[j]), p)
    BY <1>1, <1>4, Zenon DEF Nearest
  <2> PICK k \in Nat : k = i + 1
    OBVIOUS
  <2>2. k \in 1..n /\ Contains(decls(line[k]), <<p, u>>)
    BY <1>1, <2>1
  <2>3. ASSUME NEW j \in 1..(k - 1) PROVE ~HasPrefix(decls(line[j]), p)
    <3>1. CASE j = 1
      BY <1>4, <3>1, Zenon
    <3>2. CASE j # 1
      <4> PICK h \in Nat : h = j - 1
        OBVIOUS
      <4>1. h \in 1..(i - 1) /\ h \in 1..(n - 1) /\ h + 1 = j
        BY <1>1, <3>2
      <4>2. rest[h] = line[j]
        BY <1>1, <4>1
      <4> QED
        BY <2>1, <4>1, <4>2, Zenon
    <3> QED
      BY <3>1, <3>2
  <2> QED
    BY <2>2, <2>3, Zenon DEF Nearest, n
<1> QED
  BY <1>1, <1>2, <1>3, <1>4 DEF rest

(* t is the scope of a line: every declared prefix, with its nearest uri.  *)
Tells(t, d, line) ==
  /\ t \in Seq(Name) /\ OncePerPrefix(t)
  /\ \A p, u : Contains(t, <<p, u>>) <=> Nearest(d, line, p, u)

(* What an element declares itself, and what lies above it.                *)
Spot(d, e, own, rest) ==
  /\ own = d.decls[e] /\ rest = Ancestors(d, e)
  /\ own \in Seq(Name) /\ OncePerPrefix(own)
  /\ rest \in Seq(Elements(d)) /\ Lined(d, rest)
  /\ Line(d, e) \in Seq(Elements(d)) /\ Lined(d, Line(d, e))
  /\ \A p, u : Nearest(d, Line(d, e), p, u) <=>
                 \/ Contains(own, <<p, u>>)
                 \/ ~HasPrefix(own, p) /\ Nearest(d, rest, p, u)

LEMMA SpotIs ==
  ASSUME NEW d, IsDocument(d), NEW e \in Elements(d)
  PROVE  Spot(d, e, d.decls[e], Ancestors(d, e))
<1> DEFINE line == Line(d, e)
           own == d.decls[e]
           rest == Ancestors(d, e)
           E == Elements(d)
<1>1. IsTree(d) /\ WellNamed(d, e)
  BY DocumentIs
<1>2. line \in Seq(E) /\ Len(line) > 0 /\ line[1] = e
  BY <1>1, LineTyped
<1>3. own \in Seq(Name) /\ OncePerPrefix(own)
  <2>1. OncePerPrefix(own)
    BY <1>1, Zenon DEF WellNamed
  <2> QED
    BY <1>1, <2>1, TreeTyped
<1>4. rest = Tail(line)
  BY DEF Ancestors
<1> HIDE DEF line, own, rest, E
<1>5. rest \in Seq(E)
  BY <1>2, <1>4
<1>6. Lined(d, line) /\ Lined(d, rest)
  BY <1>2, <1>5, DocumentLined DEF E
<1>7. ASSUME NEW p, NEW u
      PROVE  Nearest(d, line, p, u) <=>
               \/ Contains(own, <<p, u>>)
               \/ ~HasPrefix(own, p) /\ Nearest(d, rest, p, u)
  <2>1. Contains(own, <<p, u>>) => HasPrefix(own, p)
    BY <1>3, PrefixListed
  <2>2. own = d.decls[line[1]]
    BY <1>2, Zenon DEF own
  <2> QED
    BY <1>2, <1>4, <2>1, <2>2, OwnFirst
<1>8. Spot(d, e, own, rest)
  BY <1>2, <1>3, <1>5, <1>6, <1>7, Zenon DEF Spot, own, rest, line, E
<1> QED
  BY <1>8, Zenon DEF own, rest

(* dict() of the declarations from the outermost element in.               *)
LEMMA DictTells ==
  ASSUME NEW d, IsDocument(d), NEW line \in Seq(Elements(d))
  PROVE  Tells(AsDict(DeclsAlong(d, Reverse(line))), d, line)
<1> DEFINE E == Elements(d)
           back == Reverse(line)
           t == DeclsAlong(d, back)
           r == AsDict(t)
<1>1. IsTree(d)
  BY DocumentTree
<1>2. back \in Seq(E)
  <2> HIDE DEF E
  <2>1. line \in Seq(E)
    BY DEF E
  <2> QED
    BY <2>1, ReverseIs
<1>3. t \in Seq(Name) /\ \E g : Along(d, back, t, g)
  BY <1>1, <1>2, AlongIs
<1>4. PICK g : Along(d, back, t, g)
  BY <1>3
<1>5. Lined(d, back)
  BY <1>2, DocumentLined
<1> HIDE DEF t
<1>6. /\ r \in Seq(Name) /\ OncePerPrefix(r)
      /\ \A p, u : Contains(r, <<p, u>>) <=> LastOf(t, Len(t), p, u)
  BY <1>3, AsDictIs
<1> HIDE DEF r
<1>7. ASSUME NEW p, NEW u
      PROVE  Contains(r, <<p, u>>) <=> Nearest(d, line, p, u)
  <2>1. LastOf(t, Len(t), p, u) <=> Farthest(d, back, p, u)
    BY <1>3, <1>4, <1>5, LastIsFarthest
  <2>2. Farthest(d, back, p, u) <=> Nearest(d, line, p, u)
    BY FarthestBack
  <2> QED
    BY <1>6, <2>1, <2>2, Zenon
<1> QED
  BY <1>6, <1>7, Zenon DEF Tells, r, t

LEMMA ImportTells ==
  ASSUME NEW d, IsDocument(d), NEW e \in Elements(d)
  PROVE  Tells(d.decls[e] \o InheritedNearestFirst(d, e), d, Line(d, e))
<1> DEFINE own == d.decls[e]
           rest == Ancestors(d, e)
           t == DeclsAlong(d, rest)
           all == AddedUnseen(own, t)
           N == Name
<1>1. Spot(d, e, own, rest)
  BY SpotIs
<1>2. IsTree(d)
  BY DocumentTree
<1> HIDE DEF own, rest
<1>3. rest \in Seq(Elements(d)) /\ Lined(d, rest) /\ own \in Seq(N) /\ OncePerPrefix(own)
  BY <1>1, Zenon DEF Spot
<1>4. t \in Seq(N) /\ \E g : Along(d, rest, t, g)
  BY <1>2, <1>3, AlongIs
<1>5. PICK g : Along(d, rest, t, g)
  BY <1>4
<1> HIDE DEF t
<1>6. Gathered(all, own, t, Len(t))
  BY <1>3, <1>4, AddedUnseenIs
<1>7. InheritedNearestFirst(d, e) = SubSeq(all, Len(own) + 1, Len(all))
  BY Zenon DEF InheritedNearestFirst, AddedUnseen, own, t, rest
<1> HIDE DEF all
<1>8. own \o SubSeq(all, Len(own) + 1, Len(all)) = all
  <2>1. all \in Seq(N) /\ Grows(all, own)
    BY <1>6, Zenon DEF Gathered
  <2> HIDE DEF N
  <2> QED
    BY <1>3, <2>1, Completed
<1>9. ASSUME NEW p, NEW u
      PROVE  Contains(all, <<p, u>>) <=> Nearest(d, Line(d, e), p, u)
  <2>1. FirstOf(t, Len(t), p, u) <=> Nearest(d, rest, p, u)
    BY <1>3, <1>4, <1>5, FirstIsNearest
  <2>2. Contains(all, <<p, u>>) <=>
          \/ Contains(own, <<p, u>>)
          \/ ~HasPrefix(own, p) /\ FirstOf(t, Len(t), p, u)
    BY <1>6, Zenon DEF Gathered
  <2>3. Nearest(d, Line(d, e), p, u) <=>
          \/ Contains(own, <<p, u>>)
          \/ ~HasPrefix(own, p) /\ Nearest(d, rest, p, u)
    BY <1>1, Zenon DEF Spot
  <2> QED
    BY <2>1, <2>2, <2>3
<1>10. all \in Seq(N) /\ OncePerPrefix(all)
  BY <1>3, <1>6, Zenon DEF Gathered
<1>11. Tells(all, d, Line(d, e))
  BY <1>9, <1>10, Zenon DEF Tells
<1> QED
  BY <1>7, <1>8, <1>11, Zenon DEF own

LEMMA StandaloneTells ==
  ASSUME NEW d, IsDocument(d), NEW e \in Elements(d)
  PROVE  Tells(d.decls[e] \o InheritedDeclarations(d, e), d, Line(d, e))
<1> DEFINE own == d.decls[e]
           rest == Ancestors(d, e)
           t == AsDict(DeclsAlong(d, Reverse(rest)))
           r == Undeclared(t, own)
           c == own \o r
<1>1. Spot(d, e, own, rest)
  BY SpotIs
<1>2. InheritedDeclarations(d, e) = r
  BY Zenon DEF InheritedDeclarations
<1> HIDE DEF own, rest
<1>3. rest \in Seq(Elements(d)) /\ own \in Seq(Name) /\ OncePerPrefix(own)
  BY <1>1, Zenon DEF Spot
<1>4. Tells(t, d, rest)
  BY <1>3, DictTells
<1> HIDE DEF t
<1>5. t \in Seq(Name) /\ OncePerPrefix(t)
  BY <1>4, Zenon DEF Tells
<1>6. /\ r \in Seq(Name) /\ OncePerPrefix(r)
      /\ \A p, u : Contains(r, <<p, u>>) <=> ~HasPrefix(own, p) /\ Contains(t, <<p, u>>)
  BY <1>5, UndeclaredIs
<1> HIDE DEF r
<1>7. ASSUME NEW p PROVE ~(HasPrefix(own, p) /\ HasPrefix(r, p))
  <2>1. HasPrefix(r, p) => \E u : Contains(r, <<p, u>>)
    BY <1>6, PrefixListed
  <2> QED
    BY <1>6, <2>1, Zenon
<1>8. /\ c \in Seq(Name) /\ OncePerPrefix(c)
      /\ \A x : Contains(c, x) <=> Contains(own, x) \/ Contains(r, x)
  BY <1>3, <1>6, <1>7, Joined
<1> HIDE DEF c
<1>9. ASSUME NEW p, NEW u
      PROVE  Contains(c, <<p, u>>) <=> Nearest(d, Line(d, e), p, u)
  <2>1. Nearest(d, Line(d, e), p, u) <=>
          \/ Contains(own, <<p, u>>)
          \/ ~HasPrefix(own, p) /\ Nearest(d, rest, p, u)
    BY <1>1, Zenon DEF Spot
  <2>2. Contains(t, <<p, u>>) <=> Nearest(d, rest, p, u)
    BY <1>4, Zenon DEF Tells
  <2>3. Contains(c, <<p, u>>) <=> Contains(own, <<p, u>>) \/ Contains(r, <<p, u>>)
    BY <1>8, Zenon
  <2>4. Contains(r, <<p, u>>) <=> ~HasPrefix(own, p) /\ Contains(t, <<p, u>>)
    BY <1>6, Zenon
  <2> QED
    BY <2>1, <2>2, <2>3, <2>4
<1>10. Tells(c, d, Line(d, e))
  BY <1>8, <1>9, Zenon DEF Tells
<1> QED
  BY <1>2, <1>10, Zenon DEF c, own


-----------------------------------------------------------------------------
(* Copies.                                                                 *)

(* A line that stops at place m, where the scope of the rest is declared,  *)
(* tells of every prefix what the whole line does.                         *)
LEMMA CutNearest ==
  ASSUME NEW d, NEW line, Len(line) \in Nat, NEW m \in 1..Len(line),
         NEW c, NEW top, Len(top) = m,
         \A i \in 1..(m - 1) : c.decls[top[i]] = d.decls[line[i]],
         NEW rest, Len(rest) = Len(line) - m + 1,
         \A i \in 1..(Len(line) - m + 1) : rest[i] = line[i + m - 1],
         Tells(c.decls[top[m]], d, rest),
         NEW p, NEW u
  PROVE  Nearest(c, top, p, u) <=> Nearest(d, line, p, u)
<1> DEFINE n == Len(line)
           old(i) == d.decls[line[i]]
           left(i) == d.decls[rest[i]]
           new(i) == c.decls[top[i]]
<1>1. n \in Nat /\ m \in 1..n /\ \A i \in 1..(m - 1) : new(i) = old(i)
  OBVIOUS
<1>2. ASSUME NEW i \in 1..(n - m + 1), NEW h, h = i + m - 1 PROVE left(i) = old(h)
  BY <1>2
<1>3. Contains(new(m), <<p, u>>) <=>
        \E i \in 1..(n - m + 1) : /\ Contains(left(i), <<p, u>>)
                                  /\ \A j \in 1..(i - 1) : ~HasPrefix(left(j), p)
  BY Zenon DEF Tells, Nearest
<1>4. /\ Nearest(c, top, p, u) <=>
           \E i \in 1..m : /\ Contains(new(i), <<p, u>>)
                           /\ \A j \in 1..(i - 1) : ~HasPrefix(new(j), p)
      /\ Nearest(d, line, p, u) <=>
           \E i \in 1..n : /\ Contains(old(i), <<p, u>>)
                           /\ \A j \in 1..(i - 1) : ~HasPrefix(old(j), p)
  BY Zenon DEF Nearest
<1> HIDE DEF n, old, left, new
<1>5. ASSUME NEW i \in 1..m, Contains(new(i), <<p, u>>),
             \A j \in 1..(i - 1) : ~HasPrefix(new(j), p)
      PROVE  \E k \in 1..n : /\ Contains(old(k), <<p, u>>)
                             /\ \A j \in 1..(k - 1) : ~HasPrefix(old(j), p)
  <2>1. CASE i # m
    <3>1. i \in 1..(m - 1) /\ i \in 1..n /\ \A j \in 1..(i - 1) : j \in 1..(m - 1)
      BY <1>1, <2>1
    <3>2. Contains(old(i), <<p, u>>) /\ \A j \in 1..(i - 1) : ~HasPrefix(old(j), p)
      BY <1>1, <1>5, <3>1, Zenon
    <3> QED
      BY <3>1, <3>2, Zenon
  <2>2. CASE i = m
    <3>1. Contains(new(m), <<p, u>>)
      BY <1>5, <2>2, Zenon
    <3>2. PICK h \in 1..(n - m + 1) : /\ Contains(left(h), <<p, u>>)
                                      /\ \A j \in 1..(h - 1) : ~HasPrefix(left(j), p)
      BY <1>3, <3>1, Zenon
    <3> PICK k \in Nat : k = h + m - 1
      BY <1>1
    <3>3. k \in 1..n
      BY <1>1
    <3>4. Contains(old(k), <<p, u>>)
      BY <1>2, <3>2, Zenon
    <3>5. ASSUME NEW j \in 1..(k - 1) PROVE ~HasPrefix(old(j), p)
      <4>1. CASE j \in 1..(m - 1)
        BY <1>1, <1>5, <2>2, <4>1, Zenon
      <4>2. CASE j \notin 1..(m - 1)
        <5> PICK l \in Nat : l = j - m + 1
          BY <1>1, <4>2
        <5>1. l \in 1..(h - 1) /\ l \in 1..(n - m + 1) /\ j = l + m - 1
          BY <1>1, <3>3, <4>2
        <5>2. left(l) = old(j)
          BY <1>2, <5>1
        <5> QED
          BY <3>2, <5>1, <5>2, Zenon
      <4> QED
        BY <4>1, <4>2
    <3> QED
      BY <3>3, <3>4, <3>5, Zenon
  <2> QED
    BY <2>1, <2>2
<1>6. ASSUME NEW k \in 1..n, Contains(old(k), <<p, u>>),
             \A j \in 1..(k - 1) : ~HasPrefix(old(j), p)
      PROVE  \E i \in 1..m : /\ Contains(new(i), <<p, u>>)
                             /\ \A j \in 1..(i - 1) : ~HasPrefix(new(j), p)
  <2>1. CASE k \in 1..(m - 1)
    <3>1. k \in 1..m /\ \A j \in 1..(k - 1) : j \in 1..(m - 1)
      BY <1>1, <2>1
    <3>2. Contains(new(k), <<p, u>>) /\ \A j \in 1..(k - 1) : ~HasPrefix(new(j), p)
      BY <1>1, <1>6, <2>1, <3>1, Zenon
    <3> QED
      BY <3>1, <3>2, Zenon
  <2>2. CASE k \notin 1..(m - 1)
    <3> PICK h \in Nat : h = k - m + 1
      BY <1>1, <2>2
    <3>1. /\ h \in 1..(n - m + 1) /\ k = h + m - 1 /\ m \in 1..m
          /\ \A j \in 1..(m - 1) : j \in 1..(k - 1)
      BY <1>1, <2>2
    <3>2. Contains(left(h), <<p, u>>)
      BY <1>2, <1>6, <3>1
    <3>3. ASSUME NEW j \in 1..(h - 1) PROVE ~HasPrefix(left(j), p)
      <4> PICK l \in Nat : l = j + m - 1
        BY <1>1
      <4>1. l \in 1..(k - 1) /\ j \in 1..(n - m + 1)
        BY <1>1, <3>1
      <4>2. left(j) = old(l)
        BY <1>2, <4>1
      <4> QED
        BY <1>6, <4>1, <4>2, Zenon
    <3>4. Contains(new(m), <<p, u>>)
      BY <1>3, <3>1, <3>2, <3>3, Zenon
    <3>5. \A j \in 1..(m - 1) : ~HasPrefix(new(j), p)
      BY <1>1, <1>6, <3>1, Zenon
    <3> QED
      BY <3>1, <3>4, <3>5, Zenon
  <2> QED
    BY <2>1, <2>2
<1> QED
  BY <1>4, <1>5, <1>6, Zenon

(* c is a copy of e and what is below it, the declarations of e replaced.  *)
CopyOf(c, d, e, decls) ==
  /\ IsTree(c) /\ Elements(c) = Elements(d) /\ c.decls[e] = decls
  /\ \A x \in Elements(d) : x # e => c.decls[x] = d.decls[x]
  /\ ParentOf(c, e) = NoElement
  /\ \A x : x # e => ParentOf(c, x) = ParentOf(d, x)

LEMMA CutIs ==
  ASSUME NEW d, IsTree(d), NEW e \in Elements(d), NEW decls \in Seq(Name)
  PROVE  CopyOf(Cut(d, e, decls), d, e, decls)
<1> DEFINE b == Detach(d, e)
           c == Cut(d, e, decls)
           E == Elements(d)
<1>1. /\ IsTree(b) /\ Elements(b) = E /\ b.decls = d.decls
      /\ \A x : ParentOf(b, x) = IF x = e THEN NoElement ELSE ParentOf(d, x)
  BY DetachIs
<1>2. c = [b EXCEPT !.decls[e] = decls]
  BY DEF Cut
<1> HIDE DEF b, c
<1>3. /\ b \in [kids : [E -> Seq(E)], decls : [E -> Seq(Name)], name : [E -> Name],
                attrs : [E -> SUBSET Name]]
      /\ e \in E
  BY <1>1, TreeTyped
<1> HIDE DEF E
<1>4. /\ c.kids = b.kids /\ c.decls[e] = decls
      /\ \A x \in E : x # e => c.decls[x] = b.decls[x]
      /\ c \in [kids : [E -> Seq(E)], decls : [E -> Seq(Name)], name : [E -> Name],
                attrs : [E -> SUBSET Name]]
  BY <1>2, <1>3
<1>5. IsTree(c) /\ Elements(c) = E
  BY <1>1, <1>4, EditedTree
<1>6. \A x : ParentOf(c, x) = ParentOf(b, x)
  <2>1. OnePlaced(b) /\ IsForest(b)
    BY <1>1, TreePlaced
  <2> QED
    BY <1>4, <2>1, SameKids
<1>7. \A x \in E : x # e => c.decls[x] = d.decls[x]
  BY <1>1, <1>4
<1>8. ParentOf(c, e) = NoElement /\ \A x : x # e => ParentOf(c, x) = ParentOf(d, x)
  BY <1>1, <1>6, Zenon
<1> QED
  BY <1>4, <1>5, <1>7, <1>8, Zenon DEF CopyOf, c, E

LEMMA FrontIs ==
  ASSUME NEW X, NEW s \in Seq(X), NEW m \in 1..Len(s)
  PROVE  /\ SubSeq(s, 1, m) \in Seq(X) /\ Len(SubSeq(s, 1, m)) = m
         /\ \A i \in 1..m : SubSeq(s, 1, m)[i] = s[i]
<1>1. m \in Nat /\ 1..m \subseteq 1..Len(s)
  OBVIOUS
<1> QED
  BY <1>1

(* Below e the way up is as it was, as far as e.                           *)
LEMMA CopyLine ==
  ASSUME NEW d, IsTree(d), NEW e \in Elements(d), NEW decls, NEW c, CopyOf(c, d, e, decls),
         NEW x \in Below(d, e)
  PROVE  \E m \in 1..Len(Line(d, x)) :
           /\ Line(d, x)[m] = e /\ \A i \in 1..(m - 1) : Line(d, x)[i] # e
           /\ Line(c, x) = SubSeq(Line(d, x), 1, m)
<1> DEFINE line == Line(d, x)
           n == Len(line)
           E == Elements(d)
           M == {i \in 1..n : line[i] = e}
<1>1. x \in E /\ Contains(line, e)
  BY DEF Below
<1>2. OnePlaced(d) /\ IsForest(d) /\ OnePlaced(c) /\ IsForest(c) /\ Elements(c) = E
  BY TreePlaced DEF CopyOf
<1>3. LeadsUp(d, x, line)
  BY <1>1, <1>2, LineIs
<1> HIDE DEF line, n
<1>4. /\ line \in Seq(E) /\ n \in Nat /\ n > 0 /\ DOMAIN line = 1..n /\ line[1] = x
      /\ \A i \in 1..(n - 1) : line[i + 1] = ParentOf(d, line[i])
      /\ n = Len(line)
  BY <1>3 DEF LeadsUp, n
<1>5. M \in SUBSET Nat /\ M # {}
  <2>1. \E i \in DOMAIN line : line[i] = e
    BY <1>1, <1>4, Listed
  <2> QED
    BY <1>4, <2>1
<1>6. PICK m \in M : \A i \in M : m <= i
  <2> HIDE DEF M
  <2> QED
    BY <1>5, LeastNumber
<1>7. m \in 1..n /\ line[m] = e /\ \A i \in 1..(m - 1) : line[i] # e
  <2>1. m \in 1..n /\ line[m] = e
    BY <1>6
  <2>2. ASSUME NEW i \in 1..(m - 1) PROVE line[i] # e
    <3>1. i \in 1..n /\ ~(m <= i)
      BY <1>4, <2>1
    <3> QED
      BY <1>6, <3>1
  <2> QED
    BY <2>1, <2>2
<1> DEFINE top == SubSeq(line, 1, m)
<1>8. top \in Seq(E) /\ Len(top) = m /\ \A i \in 1..m : top[i] = line[i]
  <2> HIDE DEF E
  <2> QED
    BY <1>4, <1>7, FrontIs
<1> HIDE DEF top, M
<1>9. LeadsUp(c, x, top)
  <2>1. Len(top) > 0 /\ top[1] = x /\ top[Len(top)] = e
    <3>1. m > 0 /\ 1 \in 1..m /\ m \in 1..m
      BY <1>4, <1>7
    <3> QED
      BY <1>4, <1>7, <1>8, <3>1
  <2>2. ASSUME NEW i \in 1..(m - 1) PROVE top[i + 1] = ParentOf(c, top[i])
    <3>1. i \in 1..m /\ i + 1 \in 1..m /\ i \in 1..(n - 1)
      BY <1>4, <1>7
    <3>2. top[i] = line[i] /\ top[i + 1] = ParentOf(d, line[i]) /\ line[i] # e
      BY <1>4, <1>7, <1>8, <3>1, Zenon
    <3> QED
      BY <3>2, Zenon DEF CopyOf
  <2>3. ParentOf(c, top[Len(top)]) = NoElement
    BY <2>1, Zenon DEF CopyOf
  <2> QED
    BY <1>2, <1>8, <2>1, <2>2, <2>3 DEF LeadsUp
<1>10. LeadsUp(c, x, Line(c, x))
  BY <1>1, <1>2, LineIs
<1>11. Line(c, x) = top
  BY <1>2, <1>9, <1>10, OneWayUp DEF OnePlaced
<1> QED
  BY <1>7, <1>11 DEF top, line, n


(* A copy whose top declares the scope of e means by every prefix what the *)
(* source does.                                                            *)
LEMMA CopyAlike ==
  ASSUME TypeOK, NEW e \in Elements(doc), NEW decls, Tells(decls, doc, Line(doc, e))
  PROVE  ResolvesAlike(Cut(doc, e, decls), e)
<1> DEFINE d == doc
           c == Cut(d, e, decls)
           E == Elements(d)
<1>1. IsDocument(d) /\ IsTree(d) /\ e \in E
  BY DocumentTree DEF TypeOK
<1>2. decls \in Seq(Name) /\ OncePerPrefix(decls)
  BY Zenon DEF Tells
<1>3. CopyOf(c, d, e, decls)
  BY <1>1, <1>2, CutIs
<1>4. Tells(decls, d, Line(d, e))
  OBVIOUS
<1> HIDE DEF c, d, E
<1>5. OncePerPrefix(c.decls[e])
  BY <1>2, <1>3, Zenon DEF CopyOf
<1>6. ASSUME NEW x \in Below(d, e), NEW p
      PROVE  NearestOn(c, Line(c, x), p) = NearestOn(d, Line(d, x), p)
  <2> DEFINE line == Line(d, x)
             n == Len(line)
             rest == Line(d, e)
  <2>1. PICK m \in 1..n : /\ line[m] = e /\ \A i \in 1..(m - 1) : line[i] # e
                          /\ Line(c, x) = SubSeq(line, 1, m)
    BY <1>1, <1>3, <1>6, CopyLine DEF E
  <2>2. x \in E
    BY <1>6 DEF Below, E
  <2>3. line \in Seq(E) /\ DOMAIN line = 1..n /\ n \in Nat
    BY <1>1, <2>2, LineTyped DEF E
  <2>4. rest = SubSeq(line, m, n)
    <3>1. OnePlaced(d) /\ IsForest(d)
      BY <1>1, TreePlaced
    <3>2. m \in DOMAIN line
      BY <2>1, <2>3
    <3> QED
      BY <2>1, <2>2, <3>1, <3>2, LineFrom DEF E
  <2> DEFINE top == SubSeq(line, 1, m)
  <2>5. Lined(d, line)
    BY <1>1, <2>3, DocumentLined DEF E
  <2> HIDE DEF line, rest
  <2>6. /\ top \in Seq(E) /\ Len(top) = m /\ \A i \in 1..m : top[i] = line[i]
    BY <2>1, <2>3, FrontIs
  <2>7. /\ Len(rest) = n - m + 1 /\ \A i \in 1..(n - m + 1) : rest[i] = line[i + m - 1]
    <3> HIDE DEF n
    <3>1. n = Len(line)
      BY DEF n
    <3> QED
      BY <2>1, <2>3, <2>4, <3>1, RestIs
  <2> HIDE DEF top
  <2>8. c.decls[top[m]] = decls /\ m \in 1..m
    <3>1. m \in 1..m
      BY <2>1, <2>3
    <3> QED
      BY <1>3, <2>1, <2>6, <3>1, Zenon DEF CopyOf
  <2>9. ASSUME NEW i \in 1..(m - 1) PROVE c.decls[top[i]] = d.decls[line[i]]
    <3>1. i \in 1..m /\ i \in 1..n
      BY <2>1, <2>3
    <3>2. line[i] \in E /\ line[i] # e /\ top[i] = line[i]
      BY <2>1, <2>3, <2>6, <3>1
    <3> QED
      BY <1>3, <3>2, Zenon DEF CopyOf, E
  <2>10. \A u : Nearest(c, top, p, u) <=> Nearest(d, line, p, u)
    <3>1. n \in Nat /\ m \in 1..n
      BY <2>1, <2>3
    <3>2. Tells(c.decls[top[m]], d, rest)
      BY <1>4, <2>8, Zenon DEF rest
    <3> QED
      BY <2>6, <2>7, <2>9, <3>1, <3>2, CutNearest
  <2>11. Lined(c, top)
    <3>1. ASSUME NEW i \in 1..m
          PROVE  c.decls[top[i]] \in Seq(Name) /\ OncePerPrefix(c.decls[top[i]])
      <4>1. CASE i = m
        BY <1>2, <2>8, <4>1, Zenon
      <4>2. CASE i # m
        <5>1. i \in 1..(m - 1) /\ i \in 1..n
          BY <2>1, <2>3, <4>2
        <5>2. d.decls[line[i]] \in Seq(Name) /\ OncePerPrefix(d.decls[line[i]])
          BY <2>5, <5>1, Zenon DEF Lined
        <5> QED
          BY <2>9, <5>1, <5>2, Zenon
      <4> QED
        BY <4>1, <4>2
    <3>2. Len(top) \in Nat /\ DOMAIN top = 1..Len(top)
      BY <2>6
    <3> QED
      BY <2>6, <3>1, <3>2, Zenon DEF Lined
  <2>12. NearestOn(c, top, p) = NearestOn(d, line, p)
    BY <2>5, <2>10, <2>11, NearestAgree
  <2> QED
    BY <2>1, <2>12, Zenon DEF top, line
<1> QED
  BY <1>5, <1>6, Zenon DEF ResolvesAlike, c, d

(* dict(element.nsmap()) is the scope of the element.                      *)
LEMMA NsmapKept ==
  ASSUME TypeOK
  PROVE  NsmapIsTheScope
<1>1. SUFFICES ASSUME NEW e \in Elements(doc)
               PROVE  LET map == Nsmap(doc, e)
                          line == Line(doc, e)
                      IN  /\ OncePerPrefix(map)
                          /\ \A pair \in ToSet(map) : NearestOn(doc, line, pair[1]) = pair[2]
                          /\ \A p \in BoundPrefixes \ {"xml"} :
                               NearestOn(doc, line, p) # "" => HasPrefix(map, p)
  BY Zenon DEF NsmapIsTheScope
<1> DEFINE map == Nsmap(doc, e)
           line == Line(doc, e)
<1>2. IsDocument(doc) /\ IsTree(doc)
  BY DocumentTree DEF TypeOK
<1>3. line \in Seq(Elements(doc))
  BY <1>2, LineTyped
<1>4. Lined(doc, line) /\ Tells(map, doc, line)
  <2>1. Lined(doc, line)
    BY <1>2, <1>3, DocumentLined
  <2>2. map = AsDict(DeclsAlong(doc, Reverse(line)))
    BY Zenon DEF Nsmap
  <2> HIDE DEF map, line
  <2> QED
    BY <1>2, <1>3, <2>1, <2>2, DictTells
<1> HIDE DEF map, line
<1>5. map \in Seq(Name) /\ OncePerPrefix(map)
  BY <1>4, Zenon DEF Tells
<1>6. ASSUME NEW pair \in ToSet(map) PROVE NearestOn(doc, line, pair[1]) = pair[2]
  <2>1. Contains(map, pair) /\ pair \in Name
    BY <1>5, Listed
  <2>2. pair = <<pair[1], pair[2]>>
    BY <2>1 DEF Name
  <2>3. Contains(map, <<pair[1], pair[2]>>)
    BY <2>1, <2>2, Zenon
  <2>4. Nearest(doc, line, pair[1], pair[2])
    BY <1>4, <2>3, Zenon DEF Tells
  <2> QED
    BY <1>4, <2>4, NearestMeans
<1>7. ASSUME NEW p, p # "xml", NearestOn(doc, line, p) # "" PROVE HasPrefix(map, p)
  <2>1. DeclaringPlaces(doc, line, p) # {}
    BY <1>7, Zenon DEF NearestOn
  <2>2. \E u : Nearest(doc, line, p, u)
    BY <1>4, <2>1, NearestMeans
  <2>3. \E u : Contains(map, <<p, u>>)
    BY <1>4, <2>2, Zenon DEF Tells
  <2> QED
    BY <1>5, <2>3, PrefixListed
<1> QED
  BY <1>5, <1>6, <1>7, Zenon DEF map, line

(* Cross-document copies, standalone serializations and nsmap each walk the*)
(* scope in a way of their own: in every document, whatever edits made it, *)
(* all of them keep what every prefix means at every element.              *)
THEOREM ScopeKept == Spec => []ScopeIsKept
<1>1. TypeOK => ScopeIsKept
  <2> SUFFICES ASSUME TypeOK PROVE ScopeIsKept
    OBVIOUS
  <2>1. IsDocument(doc)
    BY DEF TypeOK
  <2>2. ASSUME NEW e \in Elements(doc) PROVE ResolvesAlike(ImportSubtree(doc, e), e)
    <3>1. Tells(doc.decls[e] \o InheritedNearestFirst(doc, e), doc, Line(doc, e))
      BY <2>1, ImportTells
    <3> QED
      BY <3>1, CopyAlike DEF ImportSubtree
  <2>3. ASSUME NEW e \in Elements(doc) PROVE ResolvesAlike(Standalone(doc, e), e)
    <3>1. Tells(doc.decls[e] \o InheritedDeclarations(doc, e), doc, Line(doc, e))
      BY <2>1, StandaloneTells
    <3> QED
      BY <3>1, CopyAlike DEF Standalone
  <2> QED
    BY <2>2, <2>3, NsmapKept, Zenon
       DEF ScopeIsKept, ImportResolvesAlike, StandaloneResolvesAlike
<1> QED
  BY <1>1, TypeCorrect, PTL
=============================================================================
