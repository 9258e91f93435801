--------------------------- MODULE ChildListProofs ---------------------------
(***************************************************************************)
(* Proofs about ChildList, for chains of any length: through any sequence  *)
(* of edits every node has one parent and one place, what an edit does not *)
(* move stays where it is relative to everything else that stays, and what *)
(* callers see of an edit, slice assignments included, is what a Python    *)
(* list of elements and tails does.  For chains, loops and edits of any    *)
(* length, too: what a loop over the children hands out while its body     *)
(* edits them (ChildIter).                                                 *)
(***************************************************************************)
EXTENDS ChildIter, LoopLemmas

-----------------------------------------------------------------------------
(* Sequences.                                                              *)

(* InsertAt makes room for one entry at its place.                         *)
LEMMA Inserted ==
  ASSUME NEW X, NEW s \in Seq(X), NEW x \in X, NEW i \in 1..(Len(s) + 1)
  PROVE  LET a == InsertAt(s, i, x)
         IN  /\ a \in Seq(X) /\ Len(s) \in Nat
             /\ DOMAIN s = 1..Len(s) /\ DOMAIN a = 1..(Len(s) + 1)
             /\ \A j \in 1..(i - 1) : a[j] = s[j]
             /\ a[i] = x
             /\ \A j \in i..Len(s) : a[j + 1] = s[j]
<1> DEFINE left == SubSeq(s, 1, i - 1)
           right == SubSeq(s, i, Len(s))
<1>1. Len(s) \in Nat /\ DOMAIN s = 1..Len(s) /\ i \in Int /\ 1 <= i /\ i <= Len(s) + 1
  OBVIOUS
<1>2. left \in Seq(X) /\ Len(left) = i - 1 /\ \A j \in 1..(i - 1) : left[j] = s[j]
  <2>1. \A j \in 1..(i - 1) : s[j] \in X
    BY <1>1
  <2> QED
    BY <1>1, <2>1
<1>3. /\ right \in Seq(X) /\ Len(right) = Len(s) - i + 1
      /\ \A j \in 1..(Len(s) - i + 1) : right[j] = s[i + j - 1]
  <2>1. \A j \in i..Len(s) : s[j] \in X
    BY <1>1
  <2> QED
    BY <1>1, <2>1
<1>4. InsertAt(s, i, x) = left \o <<x>> \o right
  BY Zenon DEF InsertAt
<1> HIDE DEF left, right
<1> DEFINE m == left \o <<x>>
<1>5. /\ m \in Seq(X) /\ Len(m) = i
      /\ \A j \in 1..(i - 1) : m[j] = s[j]
      /\ m[i] = x
  <2> DEFINE one == <<x>>
  <2>1. one \in Seq(X) /\ Len(one) = 1 /\ one[1] = x
    BY OneIs
  <2> HIDE DEF one
  <2>2. Two(X, left, one)
    BY <1>2, <2>1 DEF Two
  <2>3. /\ left \o one \in Seq(X) /\ Len(left \o one) = Len(left) + Len(one)
        /\ \A j \in 1..Len(left) : (left \o one)[j] = left[j]
        /\ \A j \in 1..Len(one) : (left \o one)[Len(left) + j] = one[j]
    BY <2>2, JoinTwo
  <2>4. m = left \o one
    BY DEF one
  <2> HIDE DEF m
  <2>5. m[(i - 1) + 1] = one[1]
    BY <1>2, <2>1, <2>3, <2>4
  <2> QED
    BY <1>1, <1>2, <2>1, <2>3, <2>4, <2>5
<1> HIDE DEF m
<1> DEFINE a == m \o right
<1>6. /\ a \in Seq(X) /\ Len(a) = Len(s) + 1
      /\ \A j \in 1..i : a[j] = m[j]
      /\ \A j \in 1..(Len(s) - i + 1) : a[i + j] = right[j]
  <2>1. Two(X, m, right)
    BY <1>3, <1>5 DEF Two
  <2>2. /\ a \in Seq(X) /\ Len(a) = Len(m) + Len(right)
        /\ \A j \in 1..Len(m) : a[j] = m[j]
        /\ \A j \in 1..Len(right) : a[Len(m) + j] = right[j]
    BY <2>1, JoinTwo
  <2> HIDE DEF a
  <2> QED
    BY <1>1, <1>3, <1>5, <2>2
<1> HIDE DEF a
<1>7. \A j \in i..Len(s) : a[j + 1] = s[j]
  <2> SUFFICES ASSUME NEW j \in i..Len(s) PROVE a[j + 1] = s[j]
    OBVIOUS
  <2>1. PICK h \in 1..(Len(s) - i + 1) : h = j - i + 1
    BY <1>1
  <2>2. i + h = j + 1 /\ i + h - 1 = j
    BY <1>1, <2>1
  <2>3. a[i + h] = right[h] /\ right[h] = s[i + h - 1]
    BY <1>3, <1>6
  <2> QED
    BY <2>2, <2>3
<1>8. InsertAt(s, i, x) = a
  BY <1>4 DEF a, m
<1>9. DOMAIN a = 1..(Len(s) + 1) /\ \A j \in 1..(i - 1) : j \in 1..i
  BY <1>1, <1>6
<1>10. i \in 1..i
  BY <1>1
<1> QED
  BY <1>1, <1>5, <1>6, <1>7, <1>8, <1>9, <1>10

-----------------------------------------------------------------------------
(* Chains in which every node has one place: the states of TypeOK.         *)

Node == Elem \cup Text

Sound ==
  {k \in [Parent -> Chain] :
     \A p, q \in Parent : \A i \in DOMAIN k[p], j \in DOMAIN k[q] :
       k[p][i] = k[q][j] => p = q /\ i = j}

LEMMA OnePlace ==
  ASSUME NEW k \in Sound, NEW p \in Parent, NEW q \in Parent,
         NEW i \in DOMAIN k[p], NEW j \in DOMAIN k[q], k[p][i] = k[q][j]
  PROVE  p = q /\ i = j
BY DEF Sound

LEMMA SoundChain ==
  ASSUME NEW k \in Sound, NEW p \in Parent
  PROVE  /\ k[p] \in Seq(Node) /\ Len(k[p]) \in Nat /\ DOMAIN k[p] = 1..Len(k[p])
         /\ \A i \in DOMAIN k[p] : k[p][i] \in Node
         /\ \A i, j \in DOMAIN k[p] : k[p][i] = k[p][j] => i = j
<1>1. k[p] \in Seq(Node)
  BY DEF Sound, Chain, Node
<1>2. \A i, j \in DOMAIN k[p] : k[p][i] = k[p][j] => i = j
  BY DEF Sound
<1> QED
  BY <1>1, <1>2

LEMMA PosIs ==
  ASSUME NEW s, NEW n, n \in ToSet(s)
  PROVE  Pos(s, n) \in DOMAIN s /\ s[Pos(s, n)] = n
<1>1. \E i \in DOMAIN s : s[i] = n
  BY DEF ToSet
<1> QED
  BY <1>1 DEF Pos

(* Detaching nodes takes them out of every chain and leaves the rest.      *)
LEMMA Detached ==
  ASSUME NEW k \in Sound, NEW S
  PROVE  /\ DetachAll(k, S) \in Sound
         /\ \A p \in Parent : /\ DetachAll(k, S)[p] = NotIn(k[p], S)
                              /\ ToSet(DetachAll(k, S)[p]) = ToSet(k[p]) \ S
<1> DEFINE d == DetachAll(k, S)
<1>1. \A p \in Parent : k[p] \in Seq(Node)
  BY SoundChain
<1>2. \A p \in Parent : NotIn(k[p], S) \in Seq(Node) /\ ToSet(NotIn(k[p], S)) = ToSet(k[p]) \ S
  BY <1>1, NotInRange
<1>3. \A p \in Parent : d[p] = NotIn(k[p], S)
  BY DEF DetachAll
<1>4. d \in [Parent -> Chain]
  BY <1>2 DEF DetachAll, Chain, Node
<1> HIDE DEF d
<1>5. ASSUME NEW p \in Parent
      PROVE  \E g : Thinned(k[p], d[p], g)
  <2>1. \E g : Spares(k[p], S, NotIn(k[p], S), g)
    BY <1>1, NotInIs
  <2> QED
    BY <1>3, <2>1 DEF Spares
<1>6. ASSUME NEW p \in Parent, NEW q \in Parent, NEW i \in DOMAIN d[p], NEW j \in DOMAIN d[q],
             d[p][i] = d[q][j]
      PROVE  p = q /\ i = j
  <2>1. PICK g : Thinned(k[p], d[p], g)
    BY <1>5
  <2>2. PICK h : Thinned(k[q], d[q], h)
    BY <1>5
  <2>3. g[i] \in DOMAIN k[p] /\ d[p][i] = k[p][g[i]] /\ h[j] \in DOMAIN k[q] /\ d[q][j] = k[q][h[j]]
    BY <2>1, <2>2 DEF Thinned
  <2>4. p = q
    <3>1. g[i] \in DOMAIN k[p] /\ h[j] \in DOMAIN k[q] /\ k[p][g[i]] = k[q][h[j]]
      BY <1>6, <2>3
    <3> QED
      BY <3>1, OnePlace
  <2>5. g[j] \in DOMAIN k[p] /\ d[p][j] = k[p][g[j]]
    BY <2>1, <2>4 DEF Thinned
  <2>6. g[i] = g[j]
    BY <1>6, <2>3, <2>4, <2>5, SoundChain
  <2>7. i \in Int /\ j \in Int /\ g[i] \in Int
    BY <1>1, <1>2, <1>3, <2>3, <2>4, SoundChain
  <2>8. ~(g[i] < g[j]) /\ ~(g[j] < g[i])
    BY <2>6, <2>7
  <2>9. ~(i < j) /\ ~(j < i)
    BY <2>1, <2>4, <2>8 DEF Thinned
  <2> QED
    BY <2>4, <2>7, <2>9
<1>7. d \in Sound
  BY <1>4, <1>6 DEF Sound
<1> QED
  BY <1>2, <1>3, <1>7 DEF d

(* A node that has no place can be put at any place of any chain.          *)
LEMMA Put ==
  ASSUME NEW k \in Sound, NEW p \in Parent, NEW n \in Node,
         \A q \in Parent : n \notin ToSet(k[q]),
         NEW i \in 1..(Len(k[p]) + 1)
  PROVE  [k EXCEPT ![p] = InsertAt(@, i, n)] \in Sound
<1> DEFINE a == InsertAt(k[p], i, n)
           d == [k EXCEPT ![p] = a]
           old(j) == IF j < i THEN j ELSE j - 1
<1>1. /\ k[p] \in Seq(Node) /\ Len(k[p]) \in Nat /\ DOMAIN k[p] = 1..Len(k[p])
  BY SoundChain
<1>2. /\ a \in Seq(Node) /\ DOMAIN a = 1..(Len(k[p]) + 1)
      /\ \A j \in 1..(i - 1) : a[j] = k[p][j]
      /\ a[i] = n
      /\ \A j \in i..Len(k[p]) : a[j + 1] = k[p][j]
  <2> DEFINE s == k[p]
  <2> HIDE DEF s
  <2>1. s \in Seq(Node) /\ i \in 1..(Len(s) + 1)
    BY <1>1 DEF s
  <2>2. LET b == InsertAt(s, i, n)
        IN  /\ b \in Seq(Node) /\ Len(s) \in Nat
            /\ DOMAIN s = 1..Len(s) /\ DOMAIN b = 1..(Len(s) + 1)
            /\ \A j \in 1..(i - 1) : b[j] = s[j]
            /\ b[i] = n
            /\ \A j \in i..Len(s) : b[j + 1] = s[j]
    BY <2>1, Inserted
  <2> QED
    BY <2>2 DEF s
<1> HIDE DEF a
<1>3. k \in [Parent -> Chain]
  BY DEF Sound
<1>4. d \in [Parent -> Chain] /\ d[p] = a /\ \A q \in Parent : q # p => d[q] = k[q]
  BY <1>2, <1>3 DEF Chain, Node
<1> HIDE DEF d
<1>5. \A q \in Parent : \A j \in DOMAIN k[q] : k[q][j] # n
  BY DEF ToSet
<1>6. ASSUME NEW j \in DOMAIN a, j # i
      PROVE  old(j) \in DOMAIN k[p] /\ a[j] = k[p][old(j)]
  <2>1. CASE j < i
    BY <1>1, <1>2, <2>1
  <2>2. CASE j > i
    <3>1. PICK h \in i..Len(k[p]) : h + 1 = j
      <4>1. j - 1 \in i..Len(k[p]) /\ (j - 1) + 1 = j
        BY <1>1, <1>2, <2>2
      <4> QED
        BY <4>1
    <3>2. a[h + 1] = k[p][h]
      BY <1>2
    <3>3. old(j) = h /\ h \in DOMAIN k[p]
      BY <1>1, <2>2, <3>1
    <3> QED
      BY <3>1, <3>2, <3>3
  <2> QED
    BY <1>1, <1>2, <1>6, <2>1, <2>2
<1>7. ASSUME NEW q \in Parent, NEW r \in Parent, NEW j \in DOMAIN d[q], NEW h \in DOMAIN d[r],
             d[q][j] = d[r][h]
      PROVE  q = r /\ j = h
  <2>1. CASE d[q][j] = n
    <3>1. q = p /\ r = p /\ j \in DOMAIN a /\ h \in DOMAIN a /\ a[j] = n /\ a[h] = n
      BY <1>4, <1>5, <1>7, <2>1
    <3>2. j = i /\ h = i
      BY <1>5, <1>6, <3>1
    <3> QED
      BY <3>1, <3>2
  <2>2. CASE d[q][j] # n
    <3>1. q = p => j # i /\ j \in DOMAIN a /\ a[j] = d[q][j]
      BY <1>2, <1>4, <2>2
    <3>2. r = p => h # i /\ h \in DOMAIN a /\ a[h] = d[q][j]
      BY <1>2, <1>4, <1>7, <2>2
    <3>3. CASE q = p /\ r = p
      <4>1. old(j) \in DOMAIN k[p] /\ old(h) \in DOMAIN k[p] /\ k[p][old(j)] = k[p][old(h)]
        BY <1>6, <3>1, <3>2, <3>3
      <4>2. old(j) = old(h)
        BY <4>1, SoundChain
      <4>3. j \in Int /\ h \in Int
        BY <1>1, <1>2, <3>1, <3>2, <3>3
      <4> QED
        BY <3>1, <3>2, <3>3, <4>2, <4>3
    <3>4. CASE q = p /\ r # p
      <4>1. k[p][old(j)] = k[r][h] /\ old(j) \in DOMAIN k[p] /\ h \in DOMAIN k[r]
        BY <1>4, <1>6, <1>7, <3>1, <3>4
      <4> QED
        BY <3>4, <4>1 DEF Sound
    <3>5. CASE q # p /\ r = p
      <4>1. k[p][old(h)] = k[q][j] /\ old(h) \in DOMAIN k[p] /\ j \in DOMAIN k[q]
        BY <1>4, <1>6, <1>7, <3>2, <3>5
      <4> QED
        BY <3>5, <4>1 DEF Sound
    <3>6. CASE q # p /\ r # p
      BY <1>4, <1>7, <3>6 DEF Sound
    <3> QED
      BY <3>3, <3>4, <3>5, <3>6
  <2> QED
    BY <2>1, <2>2
<1>8. d \in Sound
  BY <1>4, <1>7 DEF Sound
<1> QED
  BY <1>8 DEF a, d

-----------------------------------------------------------------------------
(* What an edit does not move keeps its chain and its place among the rest *)
(* that is not moved.                                                      *)

Before(s, x, y) == \E i, j \in DOMAIN s : i < j /\ s[i] = x /\ s[j] = y

(* The sound chains that differ from k in the places of nodes of M only.   *)
Unmoved(k, M) ==
  {l \in Sound : \A p \in Parent :
     /\ \A x : x \notin M => (x \in ToSet(l[p]) <=> x \in ToSet(k[p]))
     /\ \A x, y : x \notin M /\ y \notin M /\ Before(k[p], x, y) => Before(l[p], x, y)}

LEMMA UnmovedSound ==
  ASSUME NEW k, NEW M, NEW l \in Unmoved(k, M)
  PROVE  l \in Sound
BY DEF Unmoved

LEMMA UnmovedSelf ==
  ASSUME NEW k \in Sound, NEW M
  PROVE  k \in Unmoved(k, M)
BY DEF Unmoved

LEMMA UnmovedThen ==
  ASSUME NEW k, NEW M, NEW l \in Unmoved(k, M), NEW L, L \subseteq M, NEW m \in Unmoved(l, L)
  PROVE  m \in Unmoved(k, M)
<1>1. m \in Sound
  BY DEF Unmoved
<1>2. ASSUME NEW p \in Parent, NEW x, x \notin M
      PROVE  x \in ToSet(m[p]) <=> x \in ToSet(k[p])
  <2>1. x \notin L
    BY <1>2
  <2>2. x \in ToSet(m[p]) <=> x \in ToSet(l[p])
    BY <2>1 DEF Unmoved
  <2>3. x \in ToSet(l[p]) <=> x \in ToSet(k[p])
    BY <1>2 DEF Unmoved
  <2> QED
    BY <2>2, <2>3
<1>3. ASSUME NEW p \in Parent, NEW x, NEW y, x \notin M, y \notin M, Before(k[p], x, y)
      PROVE  Before(m[p], x, y)
  <2>1. x \notin L /\ y \notin L
    BY <1>3
  <2>2. Before(l[p], x, y)
    BY <1>3 DEF Unmoved
  <2> QED
    BY <2>1, <2>2 DEF Unmoved
<1> QED
  BY <1>1, <1>2, <1>3 DEF Unmoved

LEMMA UnmovedFewer ==
  ASSUME NEW k, NEW M, NEW L, L \subseteq M, NEW m \in Unmoved(k, L)
  PROVE  m \in Unmoved(k, M)
BY DEF Unmoved

LEMMA DetachMoves ==
  ASSUME NEW k \in Sound, NEW S
  PROVE  DetachAll(k, S) \in Unmoved(k, S)
<1> DEFINE d == DetachAll(k, S)
<1> HIDE DEF d
<1>1. d \in Sound /\ \A p \in Parent : d[p] = NotIn(k[p], S) /\ ToSet(d[p]) = ToSet(k[p]) \ S
  BY Detached DEF d
<1>2. ASSUME NEW p \in Parent, NEW x, NEW y, x \notin S, y \notin S, Before(k[p], x, y)
      PROVE  Before(d[p], x, y)
  <2> DEFINE s == k[p]
             t == d[p]
  <2>1. s \in Seq(Node) /\ t \in Seq(Node) /\ t = NotIn(s, S)
    BY <1>1, SoundChain
  <2> HIDE DEF s, t
  <2>2. \E g : Spares(s, S, t, g)
    BY <2>1, NotInIs
  <2>3. PICK g : /\ g \in [DOMAIN t -> DOMAIN s] /\ DOMAIN g = DOMAIN t
                 /\ \A j \in DOMAIN t : t[j] = s[g[j]]
                 /\ \A i, j \in DOMAIN t : i < j => g[i] < g[j]
                 /\ \A i \in DOMAIN s : s[i] \notin S <=> \E j \in DOMAIN g : g[j] = i
    BY <2>2 DEF Spares, Thinned
  <2>4. PICK i \in DOMAIN s, j \in DOMAIN s : i < j /\ s[i] = x /\ s[j] = y
    BY <1>2 DEF Before, s
  <2>5. PICK a \in DOMAIN t : g[a] = i
    BY <1>2, <2>3, <2>4
  <2>6. PICK b \in DOMAIN t : g[b] = j
    BY <1>2, <2>3, <2>4
  <2>7. a \in Int /\ b \in Int /\ i \in Int /\ j \in Int
    BY <2>1
  <2>8. a < b
    <3>1. ~(g[b] < g[a]) /\ g[a] # g[b]
      BY <2>4, <2>5, <2>6, <2>7
    <3>2. ~(b < a) /\ a # b
      BY <2>3, <3>1
    <3> QED
      BY <2>7, <3>2
  <2>9. t[a] = x /\ t[b] = y
    BY <2>3, <2>4, <2>5, <2>6
  <2> QED
    BY <2>8, <2>9 DEF Before, t
<1>3. ASSUME NEW p \in Parent, NEW x, x \notin S
      PROVE  x \in ToSet(d[p]) <=> x \in ToSet(k[p])
  BY <1>1, <1>3
<1>4. d \in Unmoved(k, S)
  BY <1>1, <1>2, <1>3 DEF Unmoved
<1> QED
  BY <1>4 DEF d

LEMMA PutMoves ==
  ASSUME NEW k \in Sound, NEW p \in Parent, NEW n \in Node,
         \A q \in Parent : n \notin ToSet(k[q]),
         NEW i \in 1..(Len(k[p]) + 1)
  PROVE  [k EXCEPT ![p] = InsertAt(@, i, n)] \in Unmoved(k, {n})
<1> DEFINE s == k[p]
           a == InsertAt(s, i, n)
           d == [k EXCEPT ![p] = InsertAt(@, i, n)]
           new(j) == IF j < i THEN j ELSE j + 1
<1>1. d \in Sound
  BY Put
<1>2. k \in [Parent -> Chain]
  BY DEF Sound
<1>3. d[p] = a /\ \A q \in Parent : q # p => d[q] = k[q]
  BY <1>2
<1> HIDE DEF d
<1>4. s \in Seq(Node) /\ i \in 1..(Len(s) + 1)
  BY SoundChain
<1> HIDE DEF s
<1>5. /\ a \in Seq(Node) /\ Len(s) \in Nat
      /\ DOMAIN s = 1..Len(s) /\ DOMAIN a = 1..(Len(s) + 1)
      /\ \A j \in 1..(i - 1) : a[j] = s[j]
      /\ a[i] = n
      /\ \A j \in i..Len(s) : a[j + 1] = s[j]
  BY <1>4, Inserted
<1> HIDE DEF a
<1>6. ASSUME NEW j \in DOMAIN s PROVE new(j) \in DOMAIN a /\ a[new(j)] = s[j]
  BY <1>4, <1>5
<1>7. ASSUME NEW j \in DOMAIN s, NEW h \in DOMAIN s, j < h PROVE new(j) < new(h)
  BY <1>4, <1>5, <1>7
<1>8. ASSUME NEW j \in DOMAIN a, j # i PROVE \E h \in DOMAIN s : s[h] = a[j]
  <2>1. CASE j < i
    BY <1>4, <1>5, <2>1
  <2>2. CASE j > i
    <3>1. PICK h \in i..Len(s) : h + 1 = j
      <4>1. j - 1 \in i..Len(s) /\ (j - 1) + 1 = j
        BY <1>4, <1>5, <2>2
      <4> QED
        BY <4>1
    <3>2. h \in DOMAIN s /\ a[h + 1] = s[h]
      BY <1>4, <1>5
    <3> QED
      BY <3>1, <3>2
  <2> QED
    BY <1>4, <1>5, <1>8, <2>1, <2>2
<1> HIDE DEF new
<1>9. ASSUME NEW x, x # n PROVE x \in ToSet(a) <=> x \in ToSet(s)
  <2>1. (\E j \in DOMAIN a : a[j] = x) <=> (\E h \in DOMAIN s : s[h] = x)
    BY <1>5, <1>6, <1>8, <1>9
  <2> QED
    BY <2>1 DEF ToSet
<1>10. ASSUME NEW x, NEW y, Before(s, x, y) PROVE Before(a, x, y)
  BY <1>6, <1>7, <1>10 DEF Before
<1>11. ASSUME NEW q \in Parent, NEW x, x \notin {n} PROVE x \in ToSet(d[q]) <=> x \in ToSet(k[q])
  BY <1>3, <1>9, <1>11 DEF s
<1>12. ASSUME NEW q \in Parent, NEW x, NEW y, Before(k[q], x, y) PROVE Before(d[q], x, y)
  BY <1>3, <1>10, <1>12 DEF s
<1>13. d \in Unmoved(k, {n})
  BY <1>1, <1>11, <1>12 DEF Unmoved
<1> QED
  BY <1>13 DEF d

-----------------------------------------------------------------------------
(* The native inserts move the node they are given and no other.           *)

LEMMA DetachedNode ==
  ASSUME NEW k \in Sound, NEW n \in Node
  PROVE  LET d == DetachAll(k, {n})
         IN  /\ d \in Sound /\ d \in Unmoved(k, {n})
             /\ \A q \in Parent : n \notin ToSet(d[q])
<1>1. \A q \in Parent : ToSet(DetachAll(k, {n})[q]) = ToSet(k[q]) \ {n}
  BY Detached
<1> QED
  BY <1>1, Detached, DetachMoves

(* A node without a place is put somewhere in one chain.                   *)
LEMMA DetachThenPut ==
  ASSUME NEW k \in Sound, NEW p \in Parent, NEW n \in Node,
         NEW i \in 1..(Len(DetachAll(k, {n})[p]) + 1)
  PROVE  [DetachAll(k, {n}) EXCEPT ![p] = InsertAt(@, i, n)] \in Unmoved(k, {n})
<1> DEFINE d == DetachAll(k, {n})
<1> HIDE DEF d
<1>1. d \in Sound /\ d \in Unmoved(k, {n}) /\ \A q \in Parent : n \notin ToSet(d[q])
  BY DetachedNode DEF d
<1>2. i \in 1..(Len(d[p]) + 1)
  BY DEF d
<1>3. [d EXCEPT ![p] = InsertAt(@, i, n)] \in Unmoved(d, {n})
  BY <1>1, <1>2, PutMoves
<1>4. [d EXCEPT ![p] = InsertAt(@, i, n)] \in Unmoved(k, {n})
  BY <1>1, <1>3, UnmovedThen
<1> QED
  BY <1>4 DEF d

LEMMA AppendIsInsert ==
  ASSUME NEW X, NEW s \in Seq(X), NEW x \in X
  PROVE  Append(s, x) = InsertAt(s, Len(s) + 1, x)
<1> DEFINE a == InsertAt(s, Len(s) + 1, x)
           b == Append(s, x)
<1>1. Len(s) + 1 \in 1..(Len(s) + 1)
  OBVIOUS
<1>2. /\ a \in Seq(X) /\ Len(s) \in Nat /\ DOMAIN a = 1..(Len(s) + 1)
      /\ \A j \in 1..((Len(s) + 1) - 1) : a[j] = s[j]
      /\ a[Len(s) + 1] = x
  BY <1>1, Inserted
<1>3. /\ b \in Seq(X) /\ DOMAIN b = 1..(Len(s) + 1)
      /\ \A j \in 1..Len(s) : b[j] = s[j]
      /\ b[Len(s) + 1] = x
  BY Pushed
<1> HIDE DEF a, b
<1>4. \A j \in 1..(Len(s) + 1) : a[j] = b[j]
  BY <1>2, <1>3
<1>5. a = b
  BY <1>2, <1>3, <1>4
<1> QED
  BY <1>5 DEF a, b

LEMMA AppendChildMoves ==
  ASSUME NEW k \in Sound, NEW p \in Parent, NEW n \in Node
  PROVE  AppendChild(k, p, n) \in Unmoved(k, {n})
<1> DEFINE d == DetachAll(k, {n})
<1> HIDE DEF d
<1>1. d \in Sound
  BY DetachedNode DEF d
<1>2. d[p] \in Seq(Node) /\ Len(d[p]) \in Nat /\ d \in [Parent -> Chain]
  BY <1>1, SoundChain DEF Sound
<1>3. Append(d[p], n) = InsertAt(d[p], Len(d[p]) + 1, n)
  BY <1>2, AppendIsInsert
<1>4. AppendChild(k, p, n) = [d EXCEPT ![p] = InsertAt(@, Len(d[p]) + 1, n)]
  BY <1>2, <1>3 DEF AppendChild, d
<1>5. PICK i \in 1..(Len(d[p]) + 1) : i = Len(d[p]) + 1
  BY <1>2
<1>6. [d EXCEPT ![p] = InsertAt(@, i, n)] \in Unmoved(k, {n})
  BY DetachThenPut DEF d
<1> QED
  BY <1>4, <1>5, <1>6

LEMMA InsertsMove ==
  ASSUME NEW k \in Sound, NEW p \in Parent, NEW n \in Node, NEW ref
  PROVE  /\ InsertBefore(k, p, n, ref) \in Unmoved(k, {n})
         /\ InsertAfter(k, p, n, ref) \in Unmoved(k, {n})
<1> DEFINE d == DetachAll(k, {n})
           i == Pos(d[p], ref)
<1>1. d \in Sound /\ d \in Unmoved(k, {n})
  BY DetachedNode
<1>2. ASSUME p \in Homes(d, ref)
      PROVE  i \in 1..(Len(d[p]) + 1) /\ i + 1 \in 1..(Len(d[p]) + 1)
  <2>1. ref \in ToSet(d[p])
    BY <1>2 DEF Homes
  <2> HIDE DEF d
  <2>2. i \in DOMAIN d[p]
    BY <2>1, PosIs
  <2>3. DOMAIN d[p] = 1..Len(d[p]) /\ Len(d[p]) \in Nat
    BY <1>1, SoundChain
  <2> QED
    BY <2>2, <2>3
<1>3. InsertBefore(k, p, n, ref) =
        IF p \in Homes(d, ref) THEN [d EXCEPT ![p] = InsertAt(@, i, n)] ELSE d
  <2>1. d \in [Parent -> Chain]
    BY <1>1 DEF Sound
  <2> QED
    BY <2>1 DEF InsertBefore
<1>4. InsertAfter(k, p, n, ref) =
        IF p \in Homes(d, ref) THEN [d EXCEPT ![p] = InsertAt(@, i + 1, n)] ELSE d
  <2>1. d \in [Parent -> Chain]
    BY <1>1 DEF Sound
  <2> QED
    BY <2>1 DEF InsertAfter
<1>5. p \in Homes(d, ref) => /\ [d EXCEPT ![p] = InsertAt(@, i, n)] \in Unmoved(k, {n})
                             /\ [d EXCEPT ![p] = InsertAt(@, i + 1, n)] \in Unmoved(k, {n})
  <2> HIDE DEF i
  <2> QED
    BY <1>2, DetachThenPut
<1> QED
  BY <1>1, <1>3, <1>4, <1>5

-----------------------------------------------------------------------------
(* The text that belongs to a node, and the helpers that move it.          *)

LEMMA TextRunIs ==
  ASSUME NEW s \in Seq(Node), NEW i \in Nat
  PROVE  TextRunAfter(s, i) \in Seq(Text)
<1> DEFINE stops == {j \in (i + 1)..Len(s) : s[j] \notin Text}
           end == IF stops = {} THEN Len(s) ELSE Min(stops) - 1
<1>1. Len(s) \in Nat /\ \A j \in 1..Len(s) : s[j] \in Node
  OBVIOUS
<1>2. TextRunAfter(s, i) = SubSeq(s, i + 1, end)
  BY DEF TextRunAfter
<1>3. end \in Nat /\ end <= Len(s) /\ \A j \in (i + 1)..end : s[j] \in Text
  <2>1. CASE stops = {}
    BY <1>1, <2>1
  <2>2. CASE stops # {}
    <3>1. stops \in SUBSET Nat
      OBVIOUS
    <3> DEFINE m == Min(stops)
    <3>2. m \in stops /\ \A x \in stops : m <= x
      <4> HIDE DEF stops
      <4> QED
        BY <2>2, <3>1, SmallestIs
    <3>3. m \in (i + 1)..Len(s)
      BY <3>2
    <3>4. end = m - 1
      BY <2>2
    <3> HIDE DEF m, end
    <3>5. \A j \in (i + 1)..end : j \in (i + 1)..Len(s) /\ ~(m <= j)
      BY <1>1, <3>3, <3>4
    <3>6. end \in Nat /\ end <= Len(s)
      BY <1>1, <3>3, <3>4
    <3> QED
      BY <3>2, <3>5, <3>6
  <2> QED
    BY <2>1, <2>2
<1> HIDE DEF end
<1>4. SubSeq(s, i + 1, end) \in Seq(Text)
  BY <1>1, <1>3
<1> QED
  BY <1>2, <1>4

LEMMA TailRunIs ==
  ASSUME NEW k \in Sound, NEW e
  PROVE  /\ TailRun(k, e) \in Seq(Text) /\ TailRun(k, e) \in Seq(Node)
         /\ ToSet(TailRun(k, e)) \subseteq Text
<1> DEFINE p == CHOOSE p \in Homes(k, e) : TRUE
<1>1. CASE Homes(k, e) = {}
  <2>1. TailRun(k, e) = <<>> /\ <<>> \in Seq(Text)
    BY <1>1 DEF TailRun
  <2> QED
    BY <2>1 DEF ToSet
<1>2. CASE Homes(k, e) # {}
  <2>1. p \in Homes(k, e)
    BY <1>2
  <2>2. p \in Parent /\ e \in ToSet(k[p])
    BY <2>1 DEF Homes
  <2>3. TailRun(k, e) = TextRunAfter(k[p], Pos(k[p], e))
    BY <1>2 DEF TailRun
  <2> HIDE DEF p
  <2>4. k[p] \in Seq(Node) /\ DOMAIN k[p] = 1..Len(k[p]) /\ Pos(k[p], e) \in DOMAIN k[p]
    BY <2>2, SoundChain, PosIs
  <2>5. Pos(k[p], e) \in Nat
    BY <2>4
  <2>6. TailRun(k, e) \in Seq(Text)
    BY <2>3, <2>4, <2>5, TextRunIs
  <2> HIDE DEF p
  <2>7. TailRun(k, e) \in Seq(Node)
    BY <2>6 DEF Node
  <2> QED
    BY <2>6, <2>7, Ranged
<1> QED
  BY <1>1, <1>2

(* What an edit of e takes along.                                          *)
Moving(k, e) == {e} \cup ToSet(TailRun(k, e))

LEMMA ExtractMoves ==
  ASSUME NEW k \in Sound, NEW e
  PROVE  Extract(k, e) \in Unmoved(k, Moving(k, e))
BY DetachMoves DEF Extract, Moving

-----------------------------------------------------------------------------
(* The folds of the model.                                                 *)

LEMMA AttachTailMoves ==
  ASSUME NEW k \in Sound, NEW p \in Parent, NEW tail \in Seq(Node), NEW after
  PROVE  AttachTail(k, p, tail, after) \in Unmoved(k, ToSet(tail))
<1> DEFINE n == Len(tail)
           M == ToSet(tail)
           X == [k : Unmoved(k, M), ref : Node \cup {after}]
           base == [k |-> k, ref |-> after]
           op(a, t) == [k |-> InsertAfter(a.k, p, t, a.ref), ref |-> t]
           step == [i \in 1..n |-> [a \in X |-> op(a, tail[i])]]
           Is(it) == it = [T \in SUBSET DOMAIN tail |->
                             IF T = {} THEN base ELSE op(it[T \ {Max(T)}], tail[Max(T)])]
           iter == CHOOSE it : Is(it)
<1>1. n \in Nat /\ DOMAIN tail = 1..n /\ \A i \in 1..n : tail[i] \in Node /\ {tail[i]} \subseteq M
  BY DEF ToSet
<1>2. AttachTail(k, p, tail, after) = iter[DOMAIN tail].k
  BY DEF AttachTail, FoldLeft, MapThenFoldSet
<1>3. base \in X
  BY UnmovedSelf
<1>4. ASSUME NEW a \in X, NEW i \in 1..n PROVE op(a, tail[i]) \in X
  <2>1. a.k \in Unmoved(k, M) /\ a.k \in Sound
    BY UnmovedSound
  <2>2. InsertAfter(a.k, p, tail[i], a.ref) \in Unmoved(a.k, {tail[i]})
    BY <1>1, <2>1, InsertsMove
  <2>3. InsertAfter(a.k, p, tail[i], a.ref) \in Unmoved(k, M)
    BY <1>1, <2>1, <2>2, UnmovedThen
  <2> QED
    BY <1>1, <2>3
<1> HIDE DEF n, M, X, base
<1>5. step \in [1..n -> [X -> X]] /\ \A i \in 1..n, a \in X : step[i][a] = op(a, tail[i])
  BY <1>4
<1> HIDE DEF op, step
<1>6. PICK F : Folding(F, X, n, base, step)
  BY <1>1, <1>3, <1>5, FoldExists
<1>7. Is(F)
  <2>1. /\ F \in [SUBSET (1..n) -> X] /\ F[{}] = base
        /\ \A T \in SUBSET (1..n) : T # {} => F[T] = step[Max(T)][F[T \ {Max(T)}]]
    BY <1>6 DEF Folding
  <2>2. \A T \in SUBSET (1..n) : T # {} => F[T] = op(F[T \ {Max(T)}], tail[Max(T)])
    BY <1>1, <1>5, <2>1, LastPlace
  <2> QED
    BY <1>1, <2>1, <2>2
<1>8. Is(iter)
  BY <1>7
<1> HIDE DEF iter
<1>9. /\ iter[{}] = base
      /\ \A T \in SUBSET (1..n) : T # {} => iter[T] = op(iter[T \ {Max(T)}], tail[Max(T)])
  BY <1>1, <1>8
<1>10. Unfolds(iter, X, n, base, step)
  BY <1>1, <1>5, <1>9, LastPlace DEF Unfolds
<1>11. iter[1..n] \in X
  BY <1>1, <1>3, <1>5, <1>10, FoldIsLoop
<1> QED
  BY <1>1, <1>2, <1>11 DEF X, M

LEMMA AttachMoves ==
  ASSUME NEW k \in Sound, NEW p \in Parent, NEW e \in Node, NEW tail \in Seq(Node), NEW ref
  PROVE  Attach(k, p, e, tail, ref) \in Unmoved(k, {e} \cup ToSet(tail))
<1> DEFINE M == {e} \cup ToSet(tail)
           l == IF ref = NoNode THEN AppendChild(k, p, e) ELSE InsertBefore(k, p, e, ref)
<1>1. l \in Unmoved(k, {e})
  BY AppendChildMoves, InsertsMove
<1>2. Attach(k, p, e, tail, ref) = AttachTail(l, p, tail, e)
  BY DEF Attach
<1> HIDE DEF l
<1>3. l \in Sound /\ l \in Unmoved(k, M)
  BY <1>1, UnmovedSound, UnmovedFewer
<1>4. AttachTail(l, p, tail, e) \in Unmoved(l, ToSet(tail))
  BY <1>3, AttachTailMoves
<1>5. ToSet(tail) \subseteq M
  OBVIOUS
<1> HIDE DEF M
<1>6. AttachTail(l, p, tail, e) \in Unmoved(k, M)
  BY <1>3, <1>4, <1>5, UnmovedThen
<1> QED
  BY <1>2, <1>6 DEF M

(* The shape of every call that moves one element: it leaves with its tail *)
(* and comes back with it.                                                 *)
LEMMA OutAndBack ==
  ASSUME NEW k \in Sound, NEW p \in Parent, NEW e \in Elem, NEW ref
  PROVE  Attach(Extract(k, e), p, e, TailRun(k, e), ref) \in Unmoved(k, Moving(k, e))
<1> DEFINE d == Extract(k, e)
           tail == TailRun(k, e)
<1>1. d \in Unmoved(k, Moving(k, e)) /\ d \in Sound
  BY ExtractMoves, UnmovedSound
<1>2. tail \in Seq(Node) /\ e \in Node
  BY TailRunIs DEF Node
<1>3. {e} \cup ToSet(tail) \subseteq Moving(k, e)
  BY DEF Moving
<1> HIDE DEF d, tail
<1>4. Attach(d, p, e, tail, ref) \in Unmoved(d, {e} \cup ToSet(tail))
  BY <1>1, <1>2, AttachMoves
<1>5. Attach(d, p, e, tail, ref) \in Unmoved(k, Moving(k, e))
  BY <1>1, <1>3, <1>4, UnmovedThen
<1> QED
  BY <1>5 DEF d, tail

LEMMA AppendToMoves ==
  ASSUME NEW k \in Sound, NEW p \in Parent, NEW e \in Elem
  PROVE  AppendTo(k, p, e) \in Unmoved(k, Moving(k, e))
BY OutAndBack DEF AppendTo

LEMMA InsertInMoves ==
  ASSUME NEW k \in Sound, NEW p \in Parent, NEW e \in Elem, NEW index
  PROVE  InsertIn(k, p, index, e) \in Unmoved(k, Moving(k, e))
<1>1. \E ref : InsertIn(k, p, index, e) = Attach(Extract(k, e), p, e, TailRun(k, e), ref)
  BY Zenon DEF InsertIn
<1> QED
  BY <1>1, OutAndBack

LEMMA PutsMove ==
  ASSUME NEW k \in Sound, NEW p \in Parent, NEW e \in Elem, NEW self
  PROVE  /\ PutAfter(k, p, self, e) \in Unmoved(k, Moving(k, e))
         /\ PutBefore(k, p, self, e) \in Unmoved(k, Moving(k, e))
<1> DEFINE d == Extract(k, e)
           tail == TailRun(k, e)
           a == InsertAfter(d, p, e, self)
           b == InsertBefore(d, p, e, self)
<1>1. d \in Unmoved(k, Moving(k, e)) /\ d \in Sound
  BY ExtractMoves, UnmovedSound
<1>2. tail \in Seq(Node) /\ e \in Node
  BY TailRunIs DEF Node
<1>3. ToSet(tail) \subseteq Moving(k, e) /\ {e} \subseteq Moving(k, e)
  BY DEF Moving
<1>4. PutAfter(k, p, self, e) = AttachTail(a, p, tail, e)
      /\ PutBefore(k, p, self, e) = AttachTail(b, p, tail, e)
  BY DEF PutAfter, PutBefore
<1> HIDE DEF d, tail
<1>5. a \in Unmoved(d, {e}) /\ b \in Unmoved(d, {e})
  BY <1>1, <1>2, InsertsMove
<1> HIDE DEF a, b
<1>6. ASSUME NEW c \in Unmoved(d, {e})
      PROVE  AttachTail(c, p, tail, e) \in Unmoved(k, Moving(k, e))
  <2>1. c \in Unmoved(k, Moving(k, e)) /\ c \in Sound
    BY <1>1, <1>3, UnmovedThen, UnmovedSound
  <2>2. AttachTail(c, p, tail, e) \in Unmoved(c, ToSet(tail))
    BY <1>2, <2>1, AttachTailMoves
  <2> QED
    BY <1>3, <2>1, <2>2, UnmovedThen
<1> QED
  BY <1>4, <1>5, <1>6

LEMMA DropTailMoves ==
  ASSUME NEW k \in Sound, NEW e
  PROVE  DropTail(k, e) \in Unmoved(k, ToSet(TailRun(k, e)))
BY DetachMoves DEF DropTail

LEMMA MovingIs ==
  ASSUME NEW k \in Sound, NEW e, NEW S, e \in S
  PROVE  Moving(k, e) \subseteq S \cup Text
BY TailRunIs DEF Moving

LEMMA ReplaceInMoves ==
  ASSUME NEW k \in Sound, NEW p \in Parent, NEW e \in Elem, NEW old
  PROVE  ReplaceIn(k, p, old, e) \in Unmoved(k, {e, old} \cup Text)
<1> DEFINE M == {e, old} \cup Text
           a == Extract(k, e)
           b == InsertBefore(a, p, e, old)
           c == Extract(b, old)
           tail == TailRun(k, e)
<1>1. tail \in Seq(Node) /\ e \in Node /\ ToSet(tail) \subseteq M
  BY TailRunIs DEF Node
<1>2. a \in Unmoved(k, M) /\ a \in Sound
  <2>1. a \in Unmoved(k, Moving(k, e))
    BY ExtractMoves
  <2>2. Moving(k, e) \subseteq M
    BY MovingIs
  <2> HIDE DEF a, M
  <2> QED
    BY <2>1, <2>2, UnmovedFewer, UnmovedSound
<1> HIDE DEF a, tail
<1>3. b \in Unmoved(a, {e}) /\ {e} \subseteq M
  BY <1>1, <1>2, InsertsMove
<1> HIDE DEF b
<1>4. b \in Unmoved(k, M) /\ b \in Sound
  <2> HIDE DEF M
  <2> QED
    BY <1>2, <1>3, UnmovedThen, UnmovedSound
<1>5. c \in Unmoved(b, Moving(b, old)) /\ Moving(b, old) \subseteq M
  BY <1>4, ExtractMoves, MovingIs
<1> HIDE DEF c, M
<1>6. c \in Unmoved(k, M) /\ c \in Sound
  BY <1>4, <1>5, UnmovedThen, UnmovedSound
<1>7. AttachTail(c, p, tail, e) \in Unmoved(c, ToSet(tail))
  BY <1>1, <1>6, AttachTailMoves
<1>8. AttachTail(c, p, tail, e) \in Unmoved(k, M)
  BY <1>1, <1>6, <1>7, UnmovedThen
<1> QED
  BY <1>8 DEF ReplaceIn, a, b, c, tail, M

LEMMA ExtendLoop ==
  ASSUME NEW k \in Sound, NEW p \in Parent, NEW els \in Seq(Elem)
  PROVE  \E f \in [0..Len(els) -> Unmoved(k, ToSet(els) \cup Text)] :
           /\ f[0] = k /\ f[Len(els)] = ExtendBy(k, p, els)
           /\ \A i \in 1..Len(els) : f[i] = AppendTo(f[i - 1], p, els[i])
<1> DEFINE n == Len(els)
           M == ToSet(els) \cup Text
           X == Unmoved(k, M)
           op(a, e) == AppendTo(a, p, e)
           step == [i \in 1..n |-> [a \in X |-> op(a, els[i])]]
           Is(it) == it = [T \in SUBSET DOMAIN els |->
                             IF T = {} THEN k ELSE op(it[T \ {Max(T)}], els[Max(T)])]
           iter == CHOOSE it : Is(it)
<1>1. n \in Nat /\ DOMAIN els = 1..n /\ \A i \in 1..n : els[i] \in Elem /\ els[i] \in ToSet(els)
  BY DEF ToSet
<1>2. ExtendBy(k, p, els) = iter[DOMAIN els]
  BY DEF ExtendBy, FoldLeft, MapThenFoldSet
<1>3. k \in X
  BY UnmovedSelf
<1>4. ASSUME NEW a \in X, NEW i \in 1..n PROVE op(a, els[i]) \in X
  <2>1. a \in Sound
    BY UnmovedSound
  <2>2. op(a, els[i]) \in Unmoved(a, Moving(a, els[i]))
    BY <1>1, <2>1, AppendToMoves
  <2>3. Moving(a, els[i]) \subseteq M
    BY <1>1, <2>1, MovingIs
  <2> HIDE DEF M, op
  <2> QED
    BY <2>2, <2>3, UnmovedThen
<1> HIDE DEF n, M, X
<1>5. step \in [1..n -> [X -> X]] /\ \A i \in 1..n, a \in X : step[i][a] = op(a, els[i])
  BY <1>4
<1> HIDE DEF op, step
<1>6. PICK F : Folding(F, X, n, k, step)
  BY <1>1, <1>3, <1>5, FoldExists
<1>7. Is(F)
  <2>1. /\ F \in [SUBSET (1..n) -> X] /\ F[{}] = k
        /\ \A T \in SUBSET (1..n) : T # {} => F[T] = step[Max(T)][F[T \ {Max(T)}]]
    BY <1>6 DEF Folding
  <2>2. \A T \in SUBSET (1..n) : T # {} => F[T] = op(F[T \ {Max(T)}], els[Max(T)])
    BY <1>1, <1>5, <2>1, LastPlace
  <2> QED
    BY <1>1, <2>1, <2>2
<1>8. Is(iter)
  BY <1>7
<1> HIDE DEF iter
<1>9. /\ iter[{}] = k
      /\ \A T \in SUBSET (1..n) : T # {} => iter[T] = op(iter[T \ {Max(T)}], els[Max(T)])
  BY <1>1, <1>8
<1>10. Unfolds(iter, X, n, k, step)
  BY <1>1, <1>5, <1>9, LastPlace DEF Unfolds
<1> DEFINE f == ValuesOf(iter, n)
<1>11. Loop(f, X, n, k, step) /\ f[n] = iter[1..n]
  <2>1. Loop(f, X, n, k, step)
    BY <1>1, <1>3, <1>5, <1>10, FoldIsLoop
  <2>2. f[n] = iter[1..n]
    BY <1>1 DEF ValuesOf
  <2> QED
    BY <2>1, <2>2
<1> HIDE DEF f
<1>12. /\ f \in [0..n -> X] /\ f[0] = k
       /\ \A i \in 1..n : f[i] = op(f[i - 1], els[i])
  <2>1. /\ f \in [0..n -> X] /\ f[0] = k
        /\ \A i \in 1..n : f[i] = step[i][f[i - 1]]
    BY <1>11 DEF Loop
  <2>2. \A i \in 1..n : i - 1 \in 0..n
    BY <1>1
  <2> QED
    BY <1>5, <2>1, <2>2
<1>13. ExtendBy(k, p, els) = f[n]
  BY <1>1, <1>2, <1>11
<1> QED
  BY <1>12, <1>13 DEF n, X, M, op

LEMMA ExtendByMoves ==
  ASSUME NEW k \in Sound, NEW p \in Parent, NEW els \in Seq(Elem)
  PROVE  ExtendBy(k, p, els) \in Unmoved(k, ToSet(els) \cup Text)
<1> DEFINE M == Unmoved(k, ToSet(els) \cup Text)
<1>1. Len(els) \in 0..Len(els)
  OBVIOUS
<1>2. PICK f \in [0..Len(els) -> M] : f[Len(els)] = ExtendBy(k, p, els)
  BY ExtendLoop
<1> HIDE DEF M
<1>3. f[Len(els)] \in M
  BY <1>1
<1> QED
  BY <1>2, <1>3 DEF M

Extracting(k, seq, f) ==
  /\ f \in [0..Len(seq) -> Unmoved(k, ToSet(seq) \cup Text)]
  /\ f[0] = k /\ f[Len(seq)] = ExtractAll(k, seq)
  /\ \A i \in 1..Len(seq) : f[i] = Extract(f[i - 1], seq[i])

LEMMA ExtractLoop ==
  ASSUME NEW k \in Sound, NEW Y, NEW seq \in Seq(Y)
  PROVE  \E f : Extracting(k, seq, f)
<1> DEFINE n == Len(seq)
           M == ToSet(seq) \cup Text
           X == Unmoved(k, M)
           step == [i \in 1..n |-> [a \in X |-> Extract(a, seq[i])]]
           Is(it) == it = [T \in SUBSET DOMAIN seq |->
                             IF T = {} THEN k ELSE Extract(it[T \ {Max(T)}], seq[Max(T)])]
           iter == CHOOSE it : Is(it)
<1>1. n \in Nat /\ DOMAIN seq = 1..n /\ \A i \in 1..n : seq[i] \in ToSet(seq)
  BY DEF ToSet
<1>2. ExtractAll(k, seq) = iter[DOMAIN seq]
  BY DEF ExtractAll, FoldLeft, MapThenFoldSet
<1>3. k \in X
  BY UnmovedSelf
<1>4. ASSUME NEW a \in X, NEW i \in 1..n PROVE Extract(a, seq[i]) \in X
  <2>1. a \in Sound
    BY UnmovedSound
  <2>2. Extract(a, seq[i]) \in Unmoved(a, Moving(a, seq[i]))
    BY <2>1, ExtractMoves
  <2>3. Moving(a, seq[i]) \subseteq M
    BY <1>1, <2>1, MovingIs
  <2> HIDE DEF M
  <2> QED
    BY <2>2, <2>3, UnmovedThen
<1> HIDE DEF n, M, X
<1>5. /\ step \in [1..n -> [X -> X]]
      /\ \A i \in 1..n, a \in X : step[i][a] = Extract(a, seq[i])
  BY <1>4
<1> HIDE DEF step
<1>6. PICK F : Folding(F, X, n, k, step)
  BY <1>1, <1>3, <1>5, FoldExists
<1>7. Is(F)
  <2>1. /\ F \in [SUBSET (1..n) -> X] /\ F[{}] = k
        /\ \A T \in SUBSET (1..n) : T # {} => F[T] = step[Max(T)][F[T \ {Max(T)}]]
    BY <1>6 DEF Folding
  <2>2. \A T \in SUBSET (1..n) : T # {} => F[T] = Extract(F[T \ {Max(T)}], seq[Max(T)])
    BY <1>1, <1>5, <2>1, LastPlace
  <2> QED
    BY <1>1, <2>1, <2>2
<1>8. Is(iter)
  BY <1>7
<1> HIDE DEF iter
<1>9. /\ iter[{}] = k
      /\ \A T \in SUBSET (1..n) : T # {} => iter[T] = Extract(iter[T \ {Max(T)}], seq[Max(T)])
  BY <1>1, <1>8
<1>10. Unfolds(iter, X, n, k, step)
  BY <1>1, <1>5, <1>9, LastPlace DEF Unfolds
<1> DEFINE f == ValuesOf(iter, n)
<1>11. Loop(f, X, n, k, step) /\ f[n] = iter[1..n]
  <2>1. Loop(f, X, n, k, step)
    BY <1>1, <1>3, <1>5, <1>10, FoldIsLoop
  <2>2. f[n] = iter[1..n]
    BY <1>1 DEF ValuesOf
  <2> QED
    BY <2>1, <2>2
<1> HIDE DEF f
<1>12. /\ f \in [0..n -> X] /\ f[0] = k
       /\ \A i \in 1..n : f[i] = Extract(f[i - 1], seq[i])
  <2>1. /\ f \in [0..n -> X] /\ f[0] = k
        /\ \A i \in 1..n : f[i] = step[i][f[i - 1]]
    BY <1>11 DEF Loop
  <2>2. \A i \in 1..n : i - 1 \in 0..n
    BY <1>1
  <2> QED
    BY <1>5, <2>1, <2>2
<1>13. ExtractAll(k, seq) = f[n]
  BY <1>1, <1>2, <1>11
<1> QED
  BY <1>12, <1>13 DEF n, X, M, Extracting

LEMMA ExtractAllMoves ==
  ASSUME NEW k \in Sound, NEW Y, NEW seq \in Seq(Y)
  PROVE  ExtractAll(k, seq) \in Unmoved(k, ToSet(seq) \cup Text)
<1> DEFINE M == Unmoved(k, ToSet(seq) \cup Text)
<1>1. Len(seq) \in 0..Len(seq)
  OBVIOUS
<1>2. PICK f \in [0..Len(seq) -> M] : f[Len(seq)] = ExtractAll(k, seq)
  BY ExtractLoop DEF Extracting
<1> HIDE DEF M
<1>3. f[Len(seq)] \in M
  BY <1>1
<1> QED
  BY <1>2, <1>3 DEF M

Adopted(k, els) == [k : Unmoved(k, ToSet(els) \cup Text), tails : Seq(Seq(Text))]

Adopting(k, els, f) ==
  /\ f \in [0..Len(els) -> Adopted(k, els)]
  /\ f[0].k = k /\ f[0].tails = <<>> /\ f[Len(els)] = AdoptAll(k, els)
  /\ \A i \in 1..Len(els) :
       /\ f[i].k = Extract(f[i - 1].k, els[i])
       /\ f[i].tails = Append(f[i - 1].tails, TailRun(f[i - 1].k, els[i]))

LEMMA AdoptLoop ==
  ASSUME NEW k \in Sound, NEW els \in Seq(Elem)
  PROVE  \E f : Adopting(k, els, f)
<1> DEFINE n == Len(els)
           M == ToSet(els) \cup Text
           X == [k : Unmoved(k, M), tails : Seq(Seq(Text))]
           base == [k |-> k, tails |-> <<>>]
           op(a, e) == [k |-> Extract(a.k, e), tails |-> Append(a.tails, TailRun(a.k, e))]
           step == [i \in 1..n |-> [a \in X |-> op(a, els[i])]]
           Is(it) == it = [T \in SUBSET DOMAIN els |->
                             IF T = {} THEN base ELSE op(it[T \ {Max(T)}], els[Max(T)])]
           iter == CHOOSE it : Is(it)
<1>1. n \in Nat /\ DOMAIN els = 1..n /\ \A i \in 1..n : els[i] \in ToSet(els)
  BY DEF ToSet
<1>2. AdoptAll(k, els) = iter[DOMAIN els]
  BY DEF AdoptAll, FoldLeft, MapThenFoldSet
<1>3. base \in X
  BY UnmovedSelf
<1>4. ASSUME NEW a \in X, NEW i \in 1..n PROVE op(a, els[i]) \in X
  <2>1. a.k \in Unmoved(k, M) /\ a.k \in Sound
    BY UnmovedSound
  <2>2. Extract(a.k, els[i]) \in Unmoved(a.k, Moving(a.k, els[i]))
    BY <2>1, ExtractMoves
  <2>3. Moving(a.k, els[i]) \subseteq M
    BY <1>1, <2>1, MovingIs
  <2>4. Extract(a.k, els[i]) \in Unmoved(k, M)
    <3> HIDE DEF M
    <3> QED
      BY <2>1, <2>2, <2>3, UnmovedThen
  <2>5. TailRun(a.k, els[i]) \in Seq(Text)
    BY <2>1, TailRunIs
  <2>6. Append(a.tails, TailRun(a.k, els[i])) \in Seq(Seq(Text))
    BY <2>5
  <2> QED
    BY <2>4, <2>6
<1>5. \A a, e : /\ op(a, e).k = Extract(a.k, e)
                /\ op(a, e).tails = Append(a.tails, TailRun(a.k, e))
  OBVIOUS
<1>7. base.k = k /\ base.tails = <<>>
  OBVIOUS
<1> HIDE DEF n, M, X, base
<1>8. step \in [1..n -> [X -> X]] /\ \A i \in 1..n, a \in X : step[i][a] = op(a, els[i])
  BY <1>4
<1> HIDE DEF op, step
<1>9. PICK F : Folding(F, X, n, base, step)
  BY <1>1, <1>3, <1>8, FoldExists
<1>10. Is(F)
  <2>1. /\ F \in [SUBSET (1..n) -> X] /\ F[{}] = base
        /\ \A T \in SUBSET (1..n) : T # {} => F[T] = step[Max(T)][F[T \ {Max(T)}]]
    BY <1>9 DEF Folding
  <2>2. \A T \in SUBSET (1..n) : T # {} => F[T] = op(F[T \ {Max(T)}], els[Max(T)])
    BY <1>1, <1>8, <2>1, LastPlace
  <2> QED
    BY <1>1, <2>1, <2>2
<1>11. Is(iter)
  BY <1>10
<1> HIDE DEF iter
<1>12. /\ iter[{}] = base
       /\ \A T \in SUBSET (1..n) : T # {} => iter[T] = op(iter[T \ {Max(T)}], els[Max(T)])
  BY <1>1, <1>11
<1>13. Unfolds(iter, X, n, base, step)
  BY <1>1, <1>8, <1>12, LastPlace DEF Unfolds
<1>14. iter[1..n] \in X /\ Loop(ValuesOf(iter, n), X, n, base, step)
  BY <1>1, <1>3, <1>8, <1>13, FoldIsLoop
<1> DEFINE f == ValuesOf(iter, n)
<1>15. f \in [0..n -> X] /\ f[0] = base /\ \A i \in 1..n : f[i] = step[i][f[i - 1]]
  BY <1>14 DEF Loop
<1>16. f[n] = iter[1..n]
  BY <1>1 DEF ValuesOf
<1> HIDE DEF f
<1>17. ASSUME NEW i \in 1..n
       PROVE  /\ f[i].k = Extract(f[i - 1].k, els[i])
              /\ f[i].tails = Append(f[i - 1].tails, TailRun(f[i - 1].k, els[i]))
  <2>1. f[i - 1] \in X
    BY <1>1, <1>15
  <2>2. f[i] = op(f[i - 1], els[i])
    BY <1>8, <1>15, <2>1
  <2> QED
    BY <1>5, <2>2, Zenon
<1>18. f[0].k = k /\ f[0].tails = <<>> /\ f[n] = AdoptAll(k, els)
  BY <1>1, <1>2, <1>7, <1>15, <1>16
<1>19. X = Adopted(k, els)
  BY DEF X, M, Adopted
<1> QED
  BY <1>15, <1>17, <1>18, <1>19 DEF n, Adopting

(* Adopting every new element first records one tail for each.             *)
LEMMA AdoptAllMoves ==
  ASSUME NEW k \in Sound, NEW els \in Seq(Elem)
  PROVE  /\ AdoptAll(k, els).k \in Unmoved(k, ToSet(els) \cup Text)
         /\ AdoptAll(k, els).tails \in Seq(Seq(Text))
         /\ Len(AdoptAll(k, els).tails) = Len(els)
<1> DEFINE n == Len(els)
           M == ToSet(els) \cup Text
           X == Adopted(k, els)
<1>0. PICK f : Adopting(k, els, f)
  BY AdoptLoop
<1> DEFINE G == {i \in 0..n : Len(f[i].tails) = i}
<1>1. n \in Nat /\ n \in 0..n
  OBVIOUS
<1>6. \A a \in X : a.k \in Unmoved(k, M) /\ a.tails \in Seq(Seq(Text))
  BY DEF Adopted
<1> HIDE DEF n, M, X
<1>15. /\ f \in [0..n -> X] /\ f[0].tails = <<>> /\ f[n] = AdoptAll(k, els)
       /\ \A i \in 1..n : f[i].tails = Append(f[i - 1].tails, TailRun(f[i - 1].k, els[i]))
  BY <1>0 DEF n, X, Adopting
<1>17. 0 \in G
  BY <1>1, <1>15
<1>18. ASSUME NEW i \in 1..n, i - 1 \in G PROVE i \in G
  <2>1. i - 1 \in 0..n /\ i \in 0..n /\ f[i - 1] \in X
    BY <1>1, <1>15
  <2>2. f[i].tails = Append(f[i - 1].tails, TailRun(f[i - 1].k, els[i]))
    BY <1>15
  <2> DEFINE old == f[i - 1].tails
             new == TailRun(f[i - 1].k, els[i])
  <2>3. old \in Seq(Seq(Text)) /\ Len(old) = i - 1
    BY <1>6, <1>18, <2>1
  <2>4. new \in Seq(Text)
    BY <1>6, <2>1, UnmovedSound, TailRunIs
  <2>5. f[i].tails = Append(old, new)
    BY <2>2
  <2> HIDE DEF old, new
  <2>6. Len(Append(old, new)) = Len(old) + 1
    BY <2>3, <2>4
  <2> QED
    BY <2>1, <2>3, <2>5, <2>6
<1>19. 0..n \subseteq G
  <2> HIDE DEF G
  <2> QED
    BY <1>1, <1>17, <1>18, Induction
<1>20. Len(f[n].tails) = n /\ f[n] \in X
  BY <1>1, <1>15, <1>19
<1> QED
  BY <1>6, <1>15, <1>20 DEF n, M

Placing(k, p, els, tails, anchors, f) ==
  /\ f \in [0..Len(els) -> Unmoved(k, ToSet(els) \cup Text)]
  /\ f[0] = k /\ f[Len(els)] = PlaceAll(k, p, els, tails, anchors)
  /\ \A i \in 1..Len(els) : f[i] = Attach(f[i - 1], p, els[i], tails[i], anchors[i])

LEMMA PlaceLoop ==
  ASSUME NEW k \in Sound, NEW p \in Parent, NEW els \in Seq(Elem),
         NEW tails \in Seq(Seq(Text)), Len(tails) = Len(els), NEW anchors
  PROVE  \E f : Placing(k, p, els, tails, anchors, f)
<1> DEFINE n == Len(els)
           M == ToSet(els) \cup Text
           X == Unmoved(k, M)
           js == [j \in DOMAIN els |-> j]
           op(a, j) == Attach(a, p, els[j], tails[j], anchors[j])
           step == [i \in 1..n |-> [a \in X |-> op(a, i)]]
           Is(it) == it = [T \in SUBSET DOMAIN js |->
                             IF T = {} THEN k ELSE op(it[T \ {Max(T)}], js[Max(T)])]
           iter == CHOOSE it : Is(it)
<1>1. n \in Nat /\ DOMAIN els = 1..n /\ \A i \in 1..n : els[i] \in Elem /\ els[i] \in ToSet(els)
  <2>1. n \in Nat /\ DOMAIN els = 1..n /\ \A i \in 1..n : els[i] \in Elem
    OBVIOUS
  <2> HIDE DEF n, js, step, iter
  <2> QED
    BY <2>1 DEF ToSet
<1>2. DOMAIN js = 1..n /\ \A i \in 1..n : js[i] = i
  BY <1>1
<1>3. PlaceAll(k, p, els, tails, anchors) = iter[DOMAIN js]
  BY DEF PlaceAll, FoldLeft, MapThenFoldSet
<1>4. k \in X
  BY UnmovedSelf
<1>5. ASSUME NEW a \in X, NEW i \in 1..n PROVE op(a, i) \in X
  <2>1. a \in Sound
    BY UnmovedSound
  <2>2. tails[i] \in Seq(Text) /\ els[i] \in Node
    BY <1>1 DEF Node
  <2>3. tails[i] \in Seq(Node) /\ ToSet(tails[i]) \subseteq Text
    BY <2>2, Ranged DEF Node
  <2> DEFINE L == {els[i]} \cup ToSet(tails[i])
  <2>4. op(a, i) \in Unmoved(a, L)
    BY <2>1, <2>2, <2>3, AttachMoves
  <2>5. L \subseteq M
    BY <1>1, <2>3
  <2> HIDE DEF L, M, op
  <2> QED
    BY <2>4, <2>5, UnmovedThen
<1> HIDE DEF n, M, X, js
<1>13. \A T \in SUBSET (1..n) : T # {} => js[Max(T)] = Max(T) /\ Max(T) \in 1..n
  BY <1>1, <1>2, LastPlace
<1>6. step \in [1..n -> [X -> X]] /\ \A i \in 1..n, a \in X : step[i][a] = op(a, i)
  BY <1>5
<1>14. \A a, i : op(a, i) = Attach(a, p, els[i], tails[i], anchors[i])
  OBVIOUS
<1> HIDE DEF op, step
<1>7. PICK F : Folding(F, X, n, k, step)
  BY <1>1, <1>4, <1>6, FoldExists
<1>8. Is(F)
  <2>1. /\ F \in [SUBSET (1..n) -> X] /\ F[{}] = k
        /\ \A T \in SUBSET (1..n) : T # {} => F[T] = step[Max(T)][F[T \ {Max(T)}]]
    BY <1>7 DEF Folding
  <2>2. \A T \in SUBSET (1..n) : T # {} => F[T] = op(F[T \ {Max(T)}], js[Max(T)])
    <3> SUFFICES ASSUME NEW T \in SUBSET (1..n), T # {}
                 PROVE  F[T] = op(F[T \ {Max(T)}], js[Max(T)])
      OBVIOUS
    <3>1. PICK m \in 1..n : m = Max(T) /\ js[m] = m
      BY <1>13
    <3>2. T \ {m} \in SUBSET (1..n) /\ F[T] = step[m][F[T \ {m}]]
      BY <2>1, <3>1
    <3>3. F[T] = op(F[T \ {m}], m)
      BY <1>6, <2>1, <3>2
    <3> QED
      BY <3>1, <3>3
  <2> QED
    BY <1>2, <2>1, <2>2
<1>9. Is(iter)
  BY <1>8
<1> HIDE DEF iter
<1>10. /\ iter[{}] = k
       /\ \A T \in SUBSET (1..n) : T # {} => iter[T] = op(iter[T \ {Max(T)}], js[Max(T)])
  BY <1>2, <1>9
<1>11. Unfolds(iter, X, n, k, step)
  <2> SUFFICES ASSUME NEW T \in SUBSET (1..n), T # {}, iter[T \ {Max(T)}] \in X
               PROVE  iter[T] = step[Max(T)][iter[T \ {Max(T)}]]
    BY <1>10 DEF Unfolds
  <2>1. PICK m \in 1..n : m = Max(T) /\ js[m] = m
    BY <1>13
  <2>2. iter[T] = op(iter[T \ {m}], m)
    BY <1>10, <2>1
  <2> QED
    BY <1>6, <2>1, <2>2
<1>12. Loop(ValuesOf(iter, n), X, n, k, step)
  BY <1>1, <1>4, <1>6, <1>11, FoldIsLoop
<1> DEFINE f == ValuesOf(iter, n)
<1>15. f \in [0..n -> X] /\ f[0] = k /\ \A i \in 1..n : f[i] = step[i][f[i - 1]]
  BY <1>12 DEF Loop
<1>16. f[n] = iter[1..n]
  BY <1>1 DEF ValuesOf
<1> HIDE DEF f
<1>17. ASSUME NEW i \in 1..n
       PROVE  f[i] = Attach(f[i - 1], p, els[i], tails[i], anchors[i])
  <2>1. f[i - 1] \in X
    BY <1>1, <1>15
  <2> QED
    BY <1>6, <1>14, <1>15, <2>1
<1>18. f[n] = PlaceAll(k, p, els, tails, anchors)
  BY <1>2, <1>3, <1>16
<1> QED
  BY <1>15, <1>17, <1>18 DEF n, X, M, Placing

LEMMA PlaceAllMoves ==
  ASSUME NEW k \in Sound, NEW p \in Parent, NEW els \in Seq(Elem),
         NEW tails \in Seq(Seq(Text)), Len(tails) = Len(els), NEW anchors
  PROVE  PlaceAll(k, p, els, tails, anchors) \in Unmoved(k, ToSet(els) \cup Text)
<1>1. PICK f : Placing(k, p, els, tails, anchors, f)
  BY PlaceLoop
<1> DEFINE n == Len(els)
           M == Unmoved(k, ToSet(els) \cup Text)
<1>2. n \in 0..n
  OBVIOUS
<1> HIDE DEF M
<1>3. f \in [0..n -> M] /\ f[n] = PlaceAll(k, p, els, tails, anchors)
  BY <1>1 DEF M, Placing
<1> HIDE DEF n
<1>4. f[n] \in M
  BY <1>2, <1>3
<1> QED
  BY <1>3, <1>4 DEF M

-----------------------------------------------------------------------------
(* Slices and texts.                                                       *)

LEMMA SwapIn ==
  ASSUME NEW k \in Sound, NEW p \in Parent, NEW els \in Seq(Elem),
         NEW Y, NEW seq \in Seq(Y), NEW anchors
  PROVE  PlaceAll(ExtractAll(AdoptAll(k, els).k, seq), p, els, AdoptAll(k, els).tails, anchors)
           \in Unmoved(k, ToSet(els) \cup ToSet(seq) \cup Text)
<1> DEFINE M == ToSet(els) \cup ToSet(seq) \cup Text
           E == ToSet(els) \cup Text
           D == ToSet(seq) \cup Text
           a == AdoptAll(k, els)
           c == ExtractAll(a.k, seq)
           r == PlaceAll(c, p, els, a.tails, anchors)
<1>1. a.k \in Unmoved(k, E) /\ a.tails \in Seq(Seq(Text)) /\ Len(a.tails) = Len(els)
  BY AdoptAllMoves
<1>2. E \subseteq M /\ D \subseteq M
  OBVIOUS
<1> HIDE DEF a
<1>3. a.k \in Sound /\ a.k \in Unmoved(k, M)
  <2> HIDE DEF E, M
  <2> QED
    BY <1>1, <1>2, UnmovedSound, UnmovedFewer
<1>4. c \in Unmoved(a.k, D)
  BY <1>3, ExtractAllMoves
<1> HIDE DEF c
<1>5. c \in Sound /\ c \in Unmoved(k, M)
  <2> HIDE DEF D, M
  <2> QED
    BY <1>2, <1>3, <1>4, UnmovedSound, UnmovedThen
<1>6. r \in Unmoved(c, E)
  BY <1>1, <1>5, PlaceAllMoves
<1> HIDE DEF r
<1>7. r \in Unmoved(k, M)
  <2> HIDE DEF E, M
  <2> QED
    BY <1>2, <1>5, <1>6, UnmovedThen
<1> QED
  BY <1>7 DEF r, c, a, M

LEMMA ContentIs ==
  ASSUME NEW k \in Sound, NEW p \in Parent
  PROVE  /\ ContentChildren(k[p]) \in Seq(Node)
         /\ ToSet(ContentChildren(k[p])) = ToSet(k[p]) \ Text
         /\ Len(ContentChildren(k[p])) \in Nat
<1>1. ContentChildren(k[p]) \in Seq(Node) /\ ToSet(ContentChildren(k[p])) = ToSet(k[p]) \ Text
  BY SoundChain, NotInRange DEF ContentChildren
<1> QED
  BY <1>1

(* A forward slice moves what it brings in and the children it replaces.   *)
LEMMA SpliceSliceMoves ==
  ASSUME NEW k \in Sound, NEW p \in Parent, NEW els \in Seq(Elem),
         NEW start \in 0..Len(ContentChildren(k[p])), NEW stop \in 0..Len(ContentChildren(k[p]))
  PROVE  SpliceSlice(k, p, start, stop, els) \in
           Unmoved(k, ToSet(els) \cup ToSet(SubSeq(ContentChildren(k[p]), start + 1, stop)) \cup Text)
<1> DEFINE now == ContentChildren(k[p])
           cut == SubSeq(now, start + 1, stop)
           gone == NotIn(cut, ToSet(els))
<1>1. now \in Seq(Node) /\ Len(now) \in Nat
  BY ContentIs
<1>2. cut \in Seq(Node)
  <2>1. start + 1 \in Nat \ {0} /\ stop \in Nat /\ stop <= Len(now)
    BY <1>1
  <2> HIDE DEF now
  <2> QED
    BY <1>1, <2>1, Sliced
<1> HIDE DEF cut
<1>3. gone \in Seq(Node) /\ ToSet(gone) \subseteq ToSet(cut)
  BY <1>2, NotInRange
<1>4. \E anchors :
        SpliceSlice(k, p, start, stop, els) =
          PlaceAll(ExtractAll(AdoptAll(k, els).k, gone), p, els, AdoptAll(k, els).tails, anchors)
  BY Zenon DEF SpliceSlice, cut
<1> HIDE DEF gone
<1>5. SpliceSlice(k, p, start, stop, els) \in Unmoved(k, ToSet(els) \cup ToSet(gone) \cup Text)
  BY <1>3, <1>4, SwapIn
<1> DEFINE L == ToSet(els) \cup ToSet(gone) \cup Text
           M == ToSet(els) \cup ToSet(cut) \cup Text
<1>6. L \subseteq M
  BY <1>3
<1>7. SpliceSlice(k, p, start, stop, els) \in Unmoved(k, M)
  <2> HIDE DEF L, M
  <2>1. SpliceSlice(k, p, start, stop, els) \in Unmoved(k, L)
    BY <1>5 DEF L
  <2> QED
    BY <1>6, <2>1, UnmovedFewer
<1> QED
  BY <1>7 DEF M, cut

(* The children an extended slice names.                                   *)
Chosen(k, p, slots) == [j \in DOMAIN slots |-> ContentChildren(k[p])[slots[j] + 1]]

LEMMA ChosenIs ==
  ASSUME NEW k, NEW p, NEW slots \in Seq(Int)
  PROVE  \E Y : Chosen(k, p, slots) \in Seq(Y)
<1> DEFINE c == Chosen(k, p, slots)
           Y == {ContentChildren(k[p])[slots[j] + 1] : j \in DOMAIN slots}
<1>1. DOMAIN slots = 1..Len(slots) /\ Len(slots) \in Nat
  OBVIOUS
<1>2. c \in [1..Len(slots) -> Y]
  BY <1>1 DEF Chosen
<1> HIDE DEF c, Y
<1>3. c \in Seq(Y)
  BY <1>1, <1>2
<1> QED
  BY <1>3 DEF c

LEMMA AssignSlotsMoves ==
  ASSUME NEW k \in Sound, NEW p \in Parent, NEW els \in Seq(Elem), NEW slots \in Seq(Int)
  PROVE  AssignSlots(k, p, slots, els) \in
           Unmoved(k, ToSet(els) \cup ToSet(Chosen(k, p, slots)) \cup Text)
<1> DEFINE c == Chosen(k, p, slots)
           gone == NotIn(c, ToSet(els))
<1>1. PICK Y : c \in Seq(Y)
  BY ChosenIs
<1>2. AssignSlots(k, p, slots, els) =
        PlaceAll(ExtractAll(AdoptAll(k, els).k, gone), p, els, AdoptAll(k, els).tails,
                 SlotAnchors(k, p, slots, els))
  BY Zenon DEF AssignSlots, Chosen
<1> HIDE DEF c
<1>3. gone \in Seq(Y) /\ ToSet(gone) \subseteq ToSet(c)
  BY <1>1, NotInRange
<1> HIDE DEF gone
<1>4. AssignSlots(k, p, slots, els) \in Unmoved(k, ToSet(els) \cup ToSet(gone) \cup Text)
  BY <1>2, <1>3, SwapIn
<1> DEFINE L == ToSet(els) \cup ToSet(gone) \cup Text
           M == ToSet(els) \cup ToSet(c) \cup Text
<1>5. L \subseteq M
  BY <1>3
<1>6. AssignSlots(k, p, slots, els) \in Unmoved(k, M)
  <2> HIDE DEF L, M
  <2>1. AssignSlots(k, p, slots, els) \in Unmoved(k, L)
    BY <1>4 DEF L
  <2> QED
    BY <1>5, <2>1, UnmovedFewer
<1> QED
  BY <1>6 DEF M, c

LEMMA SetTextMoves ==
  ASSUME NEW k \in Sound, NEW p \in Parent, NEW t \in Text
  PROVE  SetText(k, p, t) \in Unmoved(k, Text)
<1> DEFINE run == TextRunAfter(k[p], 0)
<1>1. run \in Seq(Text) /\ k[p] \in Seq(Node)
  BY SoundChain, TextRunIs
<1>2. t \in Node /\ {t} \subseteq Text
  BY DEF Node
<1>3. CASE run # <<>>
  <2>1. SetText(k, p, t) = DetachAll(k, ToSet(Tail(run)))
    BY <1>3 DEF SetText
  <2> HIDE DEF run
  <2>2. Tail(run) \in Seq(Text)
    BY <1>1, <1>3
  <2>3. ToSet(Tail(run)) \subseteq Text
    BY <2>2, Ranged
  <2> QED
    BY <2>1, <2>3, DetachMoves, UnmovedFewer
<1>4. CASE run = <<>> /\ k[p] = <<>>
  <2>1. SetText(k, p, t) = AppendChild(k, p, t)
    BY <1>4 DEF SetText
  <2> QED
    BY <1>2, <2>1, AppendChildMoves, UnmovedFewer
<1>5. CASE run = <<>> /\ k[p] # <<>>
  <2>1. SetText(k, p, t) = InsertBefore(k, p, t, Head(k[p]))
    BY <1>5 DEF SetText
  <2>2. \A ref : InsertBefore(k, p, t, ref) \in Unmoved(k, {t})
    BY <1>2, InsertsMove
  <2> QED
    BY <1>2, <2>1, <2>2, UnmovedFewer
<1> QED
  BY <1>3, <1>4, <1>5

LEMMA DropTextMoves ==
  ASSUME NEW k \in Sound, NEW p \in Parent
  PROVE  DropText(k, p) \in Unmoved(k, Text)
<1>1. TextRunAfter(k[p], 0) \in Seq(Text)
  BY SoundChain, TextRunIs
<1>2. ToSet(TextRunAfter(k[p], 0)) \subseteq Text
  BY <1>1, Ranged
<1> QED
  BY <1>2, DetachMoves, UnmovedFewer DEF DropText

LEMMA SetTailMoves ==
  ASSUME NEW k \in Sound, NEW e, NEW t \in Text
  PROVE  SetTail(k, e, t) \in Unmoved(k, Text)
<1> DEFINE run == TailRun(k, e)
           p == CHOOSE p \in Homes(k, e) : TRUE
<1>1. run \in Seq(Text)
  BY TailRunIs
<1>2. t \in Node /\ {t} \subseteq Text
  BY DEF Node
<1>3. CASE run # <<>>
  <2>1. SetTail(k, e, t) = DetachAll(k, ToSet(Tail(run)))
    BY <1>3 DEF SetTail
  <2> HIDE DEF run
  <2>2. Tail(run) \in Seq(Text)
    BY <1>1, <1>3
  <2>3. ToSet(Tail(run)) \subseteq Text
    BY <2>2, Ranged
  <2> QED
    BY <2>1, <2>3, DetachMoves, UnmovedFewer
<1>4. CASE run = <<>> /\ Homes(k, e) = {}
  <2>1. SetTail(k, e, t) = k
    BY <1>4 DEF SetTail
  <2> QED
    BY <2>1, UnmovedSelf
<1>5. CASE run = <<>> /\ Homes(k, e) # {}
  <2>1. SetTail(k, e, t) = InsertAfter(k, p, t, e)
    BY <1>5 DEF SetTail
  <2>2. p \in Parent
    BY <1>5 DEF Homes
  <2> HIDE DEF p
  <2> QED
    BY <1>2, <2>1, <2>2, InsertsMove, UnmovedFewer
<1> QED
  BY <1>3, <1>4, <1>5

LEMMA ClearSound ==
  ASSUME NEW k \in Sound, NEW p \in Parent
  PROVE  ClearChildren(k, p) \in Sound
<1> DEFINE d == ClearChildren(k, p)
<1>1. d \in [Parent -> Chain] /\ d[p] = <<>> /\ \A q \in Parent : q # p => d[q] = k[q]
  BY DEF ClearChildren, Sound, Chain
<1> HIDE DEF d
<1>2. ASSUME NEW q \in Parent, NEW r \in Parent, NEW i \in DOMAIN d[q], NEW j \in DOMAIN d[r],
             d[q][i] = d[r][j]
      PROVE  q = r /\ i = j
  <2>1. q # p /\ r # p
    BY <1>1
  <2>2. i \in DOMAIN k[q] /\ j \in DOMAIN k[r] /\ k[q][i] = k[r][j]
    BY <1>1, <1>2, <2>1
  <2> QED
    BY <2>2, OnePlace
<1> QED
  BY <1>1, <1>2 DEF Sound, d

LEMMA RangeIs ==
  ASSUME NEW start \in Int, NEW stop \in Int, NEW step \in {1, 2, 3, -1, -2}
  PROVE  RangeSeq(start, stop, step) \in Seq(Int)
<1> DEFINE span == IF step > 0 THEN stop - start ELSE start - stop
           width == IF step > 0 THEN step ELSE -step
           count == IF span > 0 THEN (span + width - 1) \div width ELSE 0
<1>1. span \in Int /\ width \in {1, 2, 3}
  OBVIOUS
<1>2. RangeSeq(start, stop, step) = [j \in 1..count |-> start + (j - 1) * step]
  BY DEF RangeSeq
<1> HIDE DEF span, width
<1>3. count \in Nat
  <2>1. CASE width = 1
    BY <1>1, <2>1
  <2>2. CASE width = 2
    BY <1>1, <2>2
  <2>3. CASE width = 3
    BY <1>1, <2>3
  <2> QED
    BY <1>1, <2>1, <2>2, <2>3
<1> HIDE DEF count
<1>4. \A j \in 1..count : start + (j - 1) * step \in Int
  <2>1. \A j \in 1..count : (j - 1) * 1 \in Int /\ (j - 1) * 2 \in Int /\ (j - 1) * 3 \in Int
                            /\ (j - 1) * (-1) \in Int /\ (j - 1) * (-2) \in Int
    BY <1>3
  <2> QED
    BY <1>3, <2>1
<1> QED
  BY <1>2, <1>3, <1>4

LEMMA SelectionsAre ==
  ASSUME NEW p \in Parent, NEW slots \in Selections(p), kids \in Sound
  PROVE  slots \in Seq(Int)
<1>1. Sizes(p) \subseteq Int
  BY ContentIs DEF Sizes
<1>2. \/ \E start \in Sizes(p), stop \in Sizes(p), step \in {1, 2, 3} :
           slots = RangeSeq(start, stop, step)
      \/ \E start \in Sizes(p), stop \in Sizes(p), step \in {-1, -2} :
           slots = RangeSeq(start - 1, stop - 1, step)
  BY DEF Selections
<1>3. CASE \E start \in Sizes(p), stop \in Sizes(p), step \in {1, 2, 3} :
             slots = RangeSeq(start, stop, step)
  BY <1>1, <1>3, RangeIs
<1>4. CASE \E start \in Sizes(p), stop \in Sizes(p), step \in {-1, -2} :
             slots = RangeSeq(start - 1, stop - 1, step)
  <2>1. PICK start \in Sizes(p), stop \in Sizes(p), step \in {-1, -2} :
               slots = RangeSeq(start - 1, stop - 1, step)
    BY <1>4
  <2>2. start - 1 \in Int /\ stop - 1 \in Int
    BY <1>1
  <2>3. RangeSeq(start - 1, stop - 1, step) \in Seq(Int)
    BY <2>2, RangeIs
  <2> QED
    BY <2>1, <2>3
<1> QED
  BY <1>2, <1>3, <1>4

-----------------------------------------------------------------------------
(* The specification.                                                      *)

LEMMA TypeOKIsSound == TypeOK <=> kids \in Sound
BY DEF TypeOK, Sound

LEMMA NextKeepsSound ==
  ASSUME kids \in Sound, Next
  PROVE  kids' \in Sound
<1>1. \A l, M : l \in Unmoved(kids, M) => l \in Sound
  BY UnmovedSound
<1>2. ASSUME NEW els \in NewElements PROVE els \in Seq(Elem)
  <2>1. PICK n \in 0..MaxNew : els \in [1..n -> Elem]
    BY <1>2 DEF NewElements
  <2>2. n \in Nat
    BY ChildListAssumption
  <2> QED
    BY <2>1, <2>2
<1>3. ASSUME NEW p \in Parent, NEW e \in Elem, Append_(p, e) PROVE kids' \in Sound
  BY <1>1, <1>3, AppendToMoves DEF Append_
<1>4. ASSUME NEW p \in Parent, NEW e \in Elem, Remove_(p, e) PROVE kids' \in Sound
  BY <1>1, <1>4, ExtractMoves DEF Remove_
<1>5. ASSUME NEW p \in Parent, NEW e \in Elem, NEW index, Insert(p, index, e)
      PROVE  kids' \in Sound
  BY <1>1, <1>5, InsertInMoves DEF Insert
<1>6. ASSUME NEW p \in Parent, NEW old \in Elem, NEW e \in Elem, Replace(p, old, e)
      PROVE  kids' \in Sound
  <2>1. ReplaceIn(kids, p, old, e) \in Unmoved(kids, {e, old} \cup Text)
    BY ReplaceInMoves
  <2> QED
    BY <1>1, <1>6, <2>1 DEF Replace
<1>7. ASSUME NEW p \in Parent, NEW self \in Elem, NEW e \in Elem,
             AddNext(p, self, e) \/ AddPrevious(p, self, e)
      PROVE  kids' \in Sound
  BY <1>1, <1>7, PutsMove DEF AddNext, AddPrevious
<1>8. ASSUME NEW p \in Parent, NEW els \in NewElements, Extend(p, els) PROVE kids' \in Sound
  <2>1. ExtendBy(kids, p, els) \in Unmoved(kids, ToSet(els) \cup Text)
    BY <1>2, ExtendByMoves
  <2> QED
    BY <1>1, <1>8, <2>1 DEF Extend
<1>9. ASSUME NEW p \in Parent, NEW els \in NewElements, NEW start \in Sizes(p),
             NEW stop \in Sizes(p), SetSlice(p, start, stop, els)
      PROVE  kids' \in Sound
  <2>1. SpliceSlice(kids, p, start, stop, els) \in
          Unmoved(kids, ToSet(els) \cup ToSet(SubSeq(ContentChildren(kids[p]), start + 1, stop))
                          \cup Text)
    BY <1>2, SpliceSliceMoves DEF Sizes
  <2> QED
    BY <1>1, <1>9, <2>1 DEF SetSlice
<1>10. ASSUME NEW p \in Parent, NEW els \in NewElements, NEW slots \in Selections(p),
              SetExtendedSlice(p, slots, els)
       PROVE  kids' \in Sound
  <2>1. slots \in Seq(Int) /\ els \in Seq(Elem)
    BY <1>2, SelectionsAre
  <2>2. AssignSlots(kids, p, slots, els) \in
          Unmoved(kids, ToSet(els) \cup ToSet(Chosen(kids, p, slots)) \cup Text)
    BY <2>1, AssignSlotsMoves
  <2> QED
    BY <1>1, <1>10, <2>2 DEF SetExtendedSlice
<1>11. ASSUME NEW p \in Parent, NEW slots \in Selections(p), DelItems(p, slots)
       PROVE  kids' \in Sound
  <2>1. PICK Y : Chosen(kids, p, slots) \in Seq(Y)
    BY SelectionsAre, ChosenIs
  <2>2. kids' = ExtractAll(kids, Chosen(kids, p, slots))
    BY <1>11 DEF DelItems, Chosen
  <2>3. ExtractAll(kids, Chosen(kids, p, slots)) \in
          Unmoved(kids, ToSet(Chosen(kids, p, slots)) \cup Text)
    BY <2>1, ExtractAllMoves
  <2> QED
    BY <1>1, <2>2, <2>3
<1>12. ASSUME NEW p \in Parent, \/ \E t \in Fresh : AssignText(p, t)
                                \/ DeleteText(p)
                                \/ Clear(p)
       PROVE  kids' \in Sound
  <2>1. ASSUME NEW t \in Fresh, AssignText(p, t) PROVE kids' \in Sound
    BY <1>1, <2>1, SetTextMoves DEF AssignText, Fresh
  <2>2. DeleteText(p) => kids' \in Sound
    BY <1>1, DropTextMoves DEF DeleteText
  <2>3. Clear(p) => kids' \in Sound
    BY ClearSound DEF Clear
  <2> QED
    BY <1>12, <2>1, <2>2, <2>3
<1>13. ASSUME NEW e \in Elem, (\E t \in Fresh : AssignTail(e, t)) \/ DeleteTail(e)
       PROVE  kids' \in Sound
  <2>1. ASSUME NEW t \in Fresh, AssignTail(e, t) PROVE kids' \in Sound
    BY <1>1, <2>1, SetTailMoves DEF AssignTail, Fresh
  <2>2. DeleteTail(e) => kids' \in Sound
    BY <1>1, DropTailMoves DEF DeleteTail
  <2> QED
    BY <1>13, <2>1, <2>2
<1> QED
  BY <1>3, <1>4, <1>5, <1>6, <1>7, <1>8, <1>9, <1>10, <1>11, <1>12, <1>13 DEF Next

(* Through any sequence of edits of child lists, texts and tails, every    *)
(* chain holds known nodes and every node has at most one place: TypeOK of *)
(* etree's _Element layer, for any number of parents, elements and texts.  *)
THEOREM NodesHaveOnePlace == Spec => []TypeOK
<1>1. Init => kids \in Sound
  <2>1. Init => kids \in [Parent -> Chain] /\ \A p \in Parent : kids[p] = <<>>
    BY DEF Init, Chain
  <2> QED
    BY <2>1 DEF Sound
<1>2. kids \in Sound /\ [Next]_kids => (kids \in Sound)'
  <2>1. ASSUME kids \in Sound, UNCHANGED kids PROVE kids' \in Sound
    BY <2>1
  <2> QED
    BY <2>1, NextKeepsSound
<1>3. Spec => [](kids \in Sound)
  BY <1>1, <1>2, PTL DEF Spec
<1> QED
  BY <1>3, TypeOKIsSound, PTL

(* What every call may move.  append, insert, addnext, addprevious and     *)
(* remove move one element and its tail.  The others may also bring texts  *)
(* together, and move the elements they name: what extend and the slices   *)
(* bring, and what replace and the slices take out.                        *)
CallsMoveOnlyTheirs ==
  /\ \A p \in Parent, e, other \in Elem :
       /\ Append_(p, e) \/ Remove_(p, e) \/ AddNext(p, other, e) \/ AddPrevious(p, other, e)
            => kids' \in Unmoved(kids, Moving(kids, e))
       /\ \A index \in Int : Insert(p, index, e) => kids' \in Unmoved(kids, Moving(kids, e))
       /\ Replace(p, other, e) => kids' \in Unmoved(kids, {e, other} \cup Text)
  /\ \A p \in Parent, els \in Seq(Elem) :
       /\ Extend(p, els) => kids' \in Unmoved(kids, ToSet(els) \cup Text)
       /\ \A start, stop \in Sizes(p) :
            SetSlice(p, start, stop, els) =>
              kids' \in Unmoved(kids, ToSet(els) \cup Text
                          \cup ToSet(SubSeq(ContentChildren(kids[p]), start + 1, stop)))
       /\ \A slots \in Seq(Int) : SetExtendedSlice(p, slots, els) =>
            kids' \in Unmoved(kids, ToSet(els) \cup Text \cup ToSet(Chosen(kids, p, slots)))
  /\ \A p \in Parent, slots \in Seq(Int) :
       DelItems(p, slots) => kids' \in Unmoved(kids, ToSet(Chosen(kids, p, slots)) \cup Text)
  /\ \A p \in Parent, t \in Text :
       AssignText(p, t) \/ DeleteText(p) => kids' \in Unmoved(kids, Text)
  /\ \A e \in Elem, t \in Text : AssignTail(e, t) => kids' \in Unmoved(kids, Text)
  /\ \A e \in Elem : DeleteTail(e) => kids' \in Unmoved(kids, ToSet(TailRun(kids, e)))

LEMMA MovesTheirs ==
  ASSUME kids \in Sound
  PROVE  CallsMoveOnlyTheirs
<1>1. ASSUME NEW p \in Parent, NEW e \in Elem, NEW other \in Elem
      PROVE  /\ Append_(p, e) \/ Remove_(p, e) \/ AddNext(p, other, e) \/ AddPrevious(p, other, e)
                  => kids' \in Unmoved(kids, Moving(kids, e))
             /\ \A index \in Int : Insert(p, index, e) => kids' \in Unmoved(kids, Moving(kids, e))
             /\ Replace(p, other, e) => kids' \in Unmoved(kids, {e, other} \cup Text)
  <2>1. AppendTo(kids, p, e) \in Unmoved(kids, Moving(kids, e))
        /\ Extract(kids, e) \in Unmoved(kids, Moving(kids, e))
    BY AppendToMoves, ExtractMoves
  <2>2. PutAfter(kids, p, other, e) \in Unmoved(kids, Moving(kids, e))
        /\ PutBefore(kids, p, other, e) \in Unmoved(kids, Moving(kids, e))
    BY PutsMove
  <2>3. \A index \in Int : InsertIn(kids, p, index, e) \in Unmoved(kids, Moving(kids, e))
    BY InsertInMoves
  <2>4. ReplaceIn(kids, p, other, e) \in Unmoved(kids, {e, other} \cup Text)
    BY ReplaceInMoves
  <2> QED
    BY <2>1, <2>2, <2>3, <2>4 DEF Append_, Remove_, AddNext, AddPrevious, Insert, Replace
<1>2. ASSUME NEW p \in Parent, NEW els \in Seq(Elem)
      PROVE  /\ Extend(p, els) => kids' \in Unmoved(kids, ToSet(els) \cup Text)
             /\ \A start, stop \in Sizes(p) :
                  SetSlice(p, start, stop, els) =>
                    kids' \in Unmoved(kids, ToSet(els) \cup Text
                                \cup ToSet(SubSeq(ContentChildren(kids[p]), start + 1, stop)))
             /\ \A slots \in Seq(Int) : SetExtendedSlice(p, slots, els) =>
                  kids' \in Unmoved(kids, ToSet(els) \cup Text \cup ToSet(Chosen(kids, p, slots)))
  <2>1. \A A, B, C : A \cup B \cup C = A \cup C \cup B
    OBVIOUS
  <2>2. ExtendBy(kids, p, els) \in Unmoved(kids, ToSet(els) \cup Text)
    BY ExtendByMoves
  <2>3. ASSUME NEW start \in Sizes(p), NEW stop \in Sizes(p)
        PROVE  SpliceSlice(kids, p, start, stop, els) \in
                 Unmoved(kids, ToSet(els) \cup Text
                           \cup ToSet(SubSeq(ContentChildren(kids[p]), start + 1, stop)))
    <3>1. SpliceSlice(kids, p, start, stop, els) \in
            Unmoved(kids, ToSet(els) \cup ToSet(SubSeq(ContentChildren(kids[p]), start + 1, stop))
                            \cup Text)
      BY SpliceSliceMoves DEF Sizes
    <3> QED
      BY <2>1, <3>1
  <2>4. ASSUME NEW slots \in Seq(Int)
        PROVE  AssignSlots(kids, p, slots, els) \in
                 Unmoved(kids, ToSet(els) \cup Text \cup ToSet(Chosen(kids, p, slots)))
    <3>1. AssignSlots(kids, p, slots, els) \in
            Unmoved(kids, ToSet(els) \cup ToSet(Chosen(kids, p, slots)) \cup Text)
      BY AssignSlotsMoves
    <3> QED
      BY <2>1, <3>1
  <2> QED
    BY <2>2, <2>3, <2>4 DEF Extend, SetSlice, SetExtendedSlice
<1>3. ASSUME NEW p \in Parent, NEW slots \in Seq(Int), DelItems(p, slots)
      PROVE  kids' \in Unmoved(kids, ToSet(Chosen(kids, p, slots)) \cup Text)
  <2>1. PICK Y : Chosen(kids, p, slots) \in Seq(Y)
    BY ChosenIs
  <2>2. kids' = ExtractAll(kids, Chosen(kids, p, slots))
    BY <1>3 DEF DelItems, Chosen
  <2> QED
    BY <2>1, <2>2, ExtractAllMoves
<1>4. ASSUME NEW p \in Parent, NEW t \in Text
      PROVE  AssignText(p, t) \/ DeleteText(p) => kids' \in Unmoved(kids, Text)
  BY SetTextMoves, DropTextMoves DEF AssignText, DeleteText
<1>5. ASSUME NEW e \in Elem, NEW t \in Text, AssignTail(e, t)
      PROVE  kids' \in Unmoved(kids, Text)
  BY <1>5, SetTailMoves DEF AssignTail
<1>6. ASSUME NEW e \in Elem, DeleteTail(e)
      PROVE  kids' \in Unmoved(kids, ToSet(TailRun(kids, e)))
  BY <1>6, DropTailMoves DEF DeleteTail
<1> QED
  BY <1>1, <1>2, <1>3, <1>4, <1>5, <1>6 DEF CallsMoveOnlyTheirs

(* No call disturbs what it does not name: every other element stays under *)
(* its parent, in the same order among the others that stay.               *)
THEOREM OthersStay == Spec => [][CallsMoveOnlyTheirs]_kids
<1>1. TypeOK /\ [Next]_kids => [CallsMoveOnlyTheirs]_kids
  BY TypeOKIsSound, MovesTheirs
<1> QED
  BY <1>1, NodesHaveOnePlace, PTL DEF Spec

-----------------------------------------------------------------------------
(* Items that leave a list.                                                *)

LEMMA KeepingSifts ==
  ASSUME NEW X, NEW s \in Seq(X), NEW S, NEW K,
         \A x \in ToSet(s) : x \in K <=> x.el \notin S
  PROVE  Keeping(s, S) = Sift(s, K)
<1> DEFINE n == Len(s)
           Is(f) == f = [i \in 0..n |-> IF i = 0 THEN <<>>
                                        ELSE IF s[i].el \in S THEN f[i - 1]
                                        ELSE Append(f[i - 1], s[i])]
           g == CHOOSE f : Is(f)
<1>1. n \in Nat /\ n = Len(s) /\ \A i \in 1..n : i \in 0..n /\ i # 0 /\ (s[i] \in K <=> s[i].el \notin S)
  BY DEF ToSet
<1>2. Keeping(s, S) = g[n]
  BY Zenon DEF Keeping
<1> HIDE DEF n
<1>3. PICK h : Sifts(h, s, K)
  BY SiftIs
<1>4. Is([i \in 0..n |-> h[i]])
  <2> DEFINE f == [i \in 0..n |-> h[i]]
  <2>1. \A i \in 0..n : f[i] = h[i]
    OBVIOUS
  <2>2. \A i \in 0..n : i # 0 => i \in 1..n /\ i - 1 \in 0..n
    BY <1>1
  <2>3. \A i \in 1..n : f[i] = IF s[i].el \in S THEN f[i - 1] ELSE Append(f[i - 1], s[i])
    BY <1>1, <1>3, <2>1, <2>2 DEF Sifts
  <2>4. 0 \in 0..n /\ f[0] = <<>>
    BY <1>1, <1>3 DEF Sifts
  <2>5. \A i \in 0..n : f[i] = IF i = 0 THEN <<>>
                               ELSE IF s[i].el \in S THEN f[i - 1]
                               ELSE Append(f[i - 1], s[i])
    <3> HIDE DEF f
    <3> QED
      BY <2>2, <2>3, <2>4
  <2> QED
    BY <2>5
<1>5. Is(g)
  BY <1>4
<1> HIDE DEF g
<1>6. Sifts(g, s, K)
  <2>1. \A i \in 0..n : g[i] = IF i = 0 THEN <<>>
                               ELSE IF s[i].el \in S THEN g[i - 1]
                               ELSE Append(g[i - 1], s[i])
    BY <1>5
  <2>2. 0 \in 0..n
    BY <1>1
  <2> QED
    BY <1>1, <2>1, <2>2 DEF Sifts
<1> QED
  BY <1>1, <1>2, <1>6, SiftIs

LEMMA KeepingJoin ==
  ASSUME NEW X, NEW a \in Seq(X), NEW b \in Seq(X), NEW S
  PROVE  Keeping(a \o b, S) = Keeping(a, S) \o Keeping(b, S)
<1> DEFINE K == {x \in X : x.el \notin S}
<1>1. ASSUME NEW s \in Seq(X) PROVE Keeping(s, S) = Sift(s, K)
  <2>1. \A x \in ToSet(s) : x \in K <=> x.el \notin S
    BY Ranged
  <2> HIDE DEF K
  <2> QED
    BY <2>1, KeepingSifts
<1>2. a \o b \in Seq(X)
  BY JoinIs
<1> HIDE DEF K
<1>3. Sift(a \o b, K) = Sift(a, K) \o Sift(b, K)
  BY SiftJoin
<1> QED
  BY <1>1, <1>2, <1>3

LEMMA KeepingIs ==
  ASSUME NEW X, NEW a \in Seq(X), NEW S
  PROVE  /\ Keeping(a, S) \in Seq(X)
         /\ ToSet(Keeping(a, S)) = {x \in ToSet(a) : x.el \notin S}
         /\ (\A x \in ToSet(a) : x.el \notin S) => Keeping(a, S) = a
         /\ (\A x \in ToSet(a) : x.el \in S) => Keeping(a, S) = <<>>
<1> DEFINE K == {x \in X : x.el \notin S}
<1>1. ASSUME NEW s \in Seq(X) PROVE Keeping(s, S) = Sift(s, K)
  <2>1. \A x \in ToSet(s) : x \in K <=> x.el \notin S
    BY Ranged
  <2> HIDE DEF K
  <2> QED
    BY <2>1, KeepingSifts
<1>2. ToSet(a) \subseteq X
  BY Ranged
<1>3. Sift(a, K) \in Seq(X) /\ ToSet(Sift(a, K)) = ToSet(a) \cap K
  BY SiftIs, SiftRange
<1>4. ToSet(a) \cap K = {x \in ToSet(a) : x.el \notin S}
  BY <1>2
<1>5. (\A x \in ToSet(a) : x.el \notin S) => ToSet(a) \subseteq K
  BY <1>2
<1>6. (\A x \in ToSet(a) : x.el \in S) => ToSet(a) \cap K = {}
  OBVIOUS
<1> HIDE DEF K
<1>9. ToSet(a) \subseteq K => Sift(a, K) = a
  BY SiftAll
<1>10. ToSet(a) \cap K = {} => Sift(a, K) = <<>>
  BY SiftNone
<1>11. Keeping(a, S) = Sift(a, K)
  BY <1>1
<1> QED
  BY <1>3, <1>4, <1>5, <1>6, <1>9, <1>10, <1>11

LEMMA KeepingOne ==
  ASSUME NEW x, NEW S
  PROVE  Keeping(<<x>>, S) = IF x.el \in S THEN <<>> ELSE <<x>>
<1>1. <<x>> \in Seq({x}) /\ ToSet(<<x>>) = {x}
  BY OneIs, OneRange
<1> DEFINE o == <<x>>
<1> HIDE DEF o
<1>2. o \in Seq({x}) /\ ToSet(o) = {x}
  BY <1>1 DEF o
<1>3. x.el \in S => Keeping(o, S) = <<>>
  BY <1>2, KeepingIs
<1>4. x.el \notin S => Keeping(o, S) = o
  BY <1>2, KeepingIs
<1> QED
  BY <1>3, <1>4 DEF o

LEMMA KeepingTwice ==
  ASSUME NEW X, NEW a \in Seq(X), NEW S, NEW T
  PROVE  Keeping(Keeping(a, S), T) = Keeping(a, S \cup T)
<1> DEFINE K == {x \in X : x.el \notin S}
           L == {x \in X : x.el \notin T}
           M == {x \in X : x.el \notin S \cup T}
<1>1. ToSet(a) \subseteq X
  BY Ranged
<1>2. /\ \A x \in ToSet(a) : x \in K <=> x.el \notin S
      /\ \A x \in ToSet(a) : x \in L <=> x.el \notin T
      /\ \A x \in ToSet(a) : x \in M <=> x.el \notin S \cup T
      /\ \A x \in ToSet(a) : x \in M <=> x \in K /\ x \in L
  BY <1>1
<1> HIDE DEF K, L, M
<1>3. Keeping(a, S) = Sift(a, K) /\ Keeping(a, S \cup T) = Sift(a, M)
  BY <1>2, KeepingSifts
<1>4. Sift(a, K) \in Seq(X) /\ ToSet(Sift(a, K)) \subseteq ToSet(a)
  BY SiftIs, SiftRange
<1>5. Keeping(Sift(a, K), T) = Sift(Sift(a, K), L)
  <2>1. \A x \in ToSet(Sift(a, K)) : x \in L <=> x.el \notin T
    BY <1>2, <1>4
  <2> QED
    BY <1>4, <2>1, KeepingSifts
<1>6. Sift(Sift(a, K), L) = Sift(a, M)
  BY <1>2, SiftTwice
<1> QED
  BY <1>3, <1>5, <1>6

-----------------------------------------------------------------------------
(* Text runs of a chain that is put together from parts.                   *)

Lead(s) == TextRunAfter(s, 0)

(* No text at the front.                                                   *)
Solid(b) == b = <<>> \/ b[1] \notin Text

LEMMA SolidJoin ==
  ASSUME NEW a \in Seq(Node), Solid(a), NEW b \in Seq(Node), Solid(b)
  PROVE  Solid(a \o b)
<1>1. CASE a = <<>>
  BY <1>1, JoinEmpty
<1>2. CASE a # <<>>
  <2>1. 1 \in 1..Len(a) /\ a[1] \notin Text
    BY <1>2 DEF Solid
  <2>2. (a \o b)[1] = a[1]
    BY <2>1, JoinIs
  <2> QED
    BY <2>1, <2>2 DEF Solid
<1> QED
  BY <1>1, <1>2

LEMMA SolidFront ==
  ASSUME NEW e \in Elem, NEW b \in Seq(Node)
  PROVE  /\ e \in Node /\ e \notin Text
         /\ <<e>> \in Seq(Node) /\ Solid(<<e>>)
         /\ <<e>> \o b \in Seq(Node) /\ Solid(<<e>> \o b)
<1>1. e \in Node /\ e \notin Text
  BY ChildListAssumption DEF Node
<1> DEFINE o == <<e>>
<1>2. o \in Seq(Node) /\ Len(o) = 1 /\ o[1] = e
  BY <1>1, OneIs
<1> HIDE DEF o
<1>3. o \o b \in Seq(Node) /\ (o \o b)[1] = e
  BY <1>2, JoinIs
<1>4. Solid(o) /\ Solid(o \o b)
  BY <1>1, <1>2, <1>3 DEF Solid
<1> QED
  BY <1>1, <1>2, <1>3, <1>4 DEF o

LEMMA TextNodes ==
  ASSUME NEW t \in Seq(Text)
  PROVE  t \in Seq(Node) /\ ToSet(t) \subseteq Text /\ \A i \in 1..Len(t) : t[i] \in Text
BY DEF Node, ToSet

(* The run after a place is the text up to the first node that is none.    *)
LEMMA RunIs ==
  ASSUME NEW a \in Seq(Node), NEW t \in Seq(Text), NEW b \in Seq(Node), Solid(b)
  PROVE  TextRunAfter(a \o (t \o b), Len(a)) = t
<1> DEFINE c == t \o b
           s == a \o c
           i == Len(a)
           m == Len(a) + Len(t)
           stops == {j \in (i + 1)..Len(s) : s[j] \notin Text}
           r == SubSeq(s, i + 1, m)
<1>1. t \in Seq(Node) /\ \A j \in 1..Len(t) : t[j] \in Text
  BY TextNodes
<1>t. t \in Seq(Node)
  BY <1>1
<1>2. /\ c \in Seq(Node) /\ Len(t) \in Nat /\ Len(b) \in Nat /\ Len(c) = Len(t) + Len(b)
      /\ \A j \in 1..Len(t) : c[j] = t[j]
      /\ \A j \in 1..Len(b) : c[Len(t) + j] = b[j]
  BY <1>t, JoinIs
<1> HIDE DEF c
<1>c. c \in Seq(Node)
  BY <1>2
<1>3. /\ s \in Seq(Node) /\ Len(a) \in Nat /\ Len(s) = Len(a) + Len(c)
      /\ \A j \in 1..Len(c) : s[Len(a) + j] = c[j]
  BY <1>c, JoinIs
<1> HIDE DEF s
<1>4. i \in Nat /\ m \in Nat /\ m <= Len(s) /\ m = i + Len(t) /\ i = Len(a) /\ Len(s) = m + Len(b)
  <2>1. /\ Len(a) \in Nat /\ Len(t) \in Nat /\ Len(b) \in Nat
        /\ Len(s) = Len(a) + Len(c) /\ Len(c) = Len(t) + Len(b)
    BY <1>2, <1>3
  <2> QED
    BY <2>1
<1>5. \A j \in 1..Len(t) : s[i + j] = t[j]
  <2>1. \A j \in 1..Len(t) : j \in 1..Len(c)
    BY <1>2
  <2> QED
    BY <1>2, <1>3, <2>1
<1> HIDE DEF i, m
<1>6. \A j \in (i + 1)..m : s[j] \in Text
  <2> SUFFICES ASSUME NEW j \in (i + 1)..m PROVE s[j] \in Text
    OBVIOUS
  <2>1. PICK h \in 1..Len(t) : j = i + h
    <3>1. j - i \in 1..Len(t) /\ j = i + (j - i)
      BY <1>2, <1>4
    <3> QED
      BY <3>1
  <2> QED
    BY <1>1, <1>5, <2>1
<1>7. ASSUME b # <<>> PROVE m + 1 \in (i + 1)..Len(s) /\ s[m + 1] \notin Text
  <2>1. 1 \in 1..Len(b) /\ b[1] \notin Text
    BY <1>7 DEF Solid
  <2>2. Len(t) + 1 \in 1..Len(c) /\ Len(b) >= 1
    BY <1>2, <2>1
  <2>3. c[Len(t) + 1] = b[1] /\ s[Len(a) + (Len(t) + 1)] = c[Len(t) + 1]
    BY <1>2, <1>3, <2>1, <2>2
  <2>4. m + 1 = Len(a) + (Len(t) + 1) /\ m + 1 \in (i + 1)..Len(s)
    BY <1>2, <1>4, <2>2
  <2> QED
    BY <2>1, <2>3, <2>4
<1>8. \A j \in stops : m + 1 <= j /\ j \in Nat
  BY <1>4, <1>6
<1>9. TextRunAfter(s, i) = SubSeq(s, i + 1, IF stops = {} THEN Len(s) ELSE Min(stops) - 1)
  BY Zenon DEF TextRunAfter
<1>10. (IF stops = {} THEN Len(s) ELSE Min(stops) - 1) = m
  <2>1. CASE b = <<>>
    <3>1. Len(b) = 0
      BY <2>1
    <3>2. Len(s) = m
      BY <1>4, <3>1
    <3>3. stops = {}
      BY <1>8, <3>2
    <3> QED
      BY <3>2, <3>3
  <2>2. CASE b # <<>>
    <3>1. m + 1 \in stops
      BY <1>7, <2>2
    <3>2. stops \in SUBSET Nat /\ stops # {}
      BY <1>8, <3>1
    <3> HIDE DEF stops
    <3>3. Min(stops) \in stops /\ \A j \in stops : Min(stops) <= j
      BY <3>2, SmallestIs
    <3>4. Min(stops) = m + 1
      BY <1>4, <1>8, <3>1, <3>3
    <3>5. (m + 1) - 1 = m
      BY <1>4
    <3> QED
      BY <3>2, <3>4, <3>5, Zenon
  <2> QED
    BY <2>1, <2>2
<1>11. r = t
  <2>1. i + 1 \in Nat \ {0} /\ m \in Nat /\ m <= Len(s)
    BY <1>4
  <2>2. /\ r \in Seq(Node) /\ Len(r) = (IF i + 1 <= m THEN m - (i + 1) + 1 ELSE 0)
        /\ DOMAIN r = 1..Len(r)
        /\ \A h \in DOMAIN r : r[h] = s[(i + 1) + h - 1]
    <3> DEFINE g == i + 1
               w == SubSeq(s, g, m)
    <3>1. g \in Nat \ {0} /\ m \in Nat /\ m <= Len(s) /\ s \in Seq(Node)
      BY <1>3, <2>1
    <3> HIDE DEF g
    <3>2. /\ w \in Seq(Node) /\ Len(w) = (IF g <= m THEN m - g + 1 ELSE 0)
          /\ DOMAIN w = 1..Len(w)
          /\ \A h \in DOMAIN w : w[h] = s[g + h - 1]
      BY <3>1, Sliced
    <3> QED
      BY <3>2 DEF g
  <2> HIDE DEF r
  <2>3. Len(r) = Len(t)
    <3>1. Len(t) \in Nat /\ m = i + Len(t) /\ i \in Nat
      BY <1>2, <1>4
    <3>2. Len(r) = (IF i + 1 <= m THEN m - (i + 1) + 1 ELSE 0)
      BY <2>2
    <3> HIDE DEF i, m, s, c
    <3> QED
      BY <3>1, <3>2
  <2>4. \A h \in 1..Len(t) : (i + 1) + h - 1 = i + h
    BY <1>2, <1>4
  <2>5. \A h \in 1..Len(r) : r[h] = t[h]
    BY <1>5, <2>2, <2>3, <2>4
  <2> QED
    BY <1>t, <2>2, <2>3, <2>5, SameSeq
<1>12. TextRunAfter(s, i) = t
  BY <1>9, <1>10, <1>11, Zenon DEF r
<1> QED
  BY <1>12 DEF s, c, i

(* Any chain is its leading text and a rest that starts with none.         *)
LEMMA LeadIs ==
  ASSUME NEW s \in Seq(Node)
  PROVE  \E b \in Seq(Node) : s = Lead(s) \o b /\ Solid(b) /\ Lead(s) \in Seq(Text)
<1> DEFINE G == {i \in 0..Len(s) : \A j \in 1..i : s[j] \in Text}
<1>1. Len(s) \in Nat /\ \A j \in 1..Len(s) : s[j] \in Node
  OBVIOUS
<1>2. \E i \in G : i = Len(s) \/ s[i + 1] \notin Text
  <2> SUFFICES ASSUME \A i \in G : i # Len(s) /\ s[i + 1] \in Text PROVE FALSE
    OBVIOUS
  <2>1. 0 \in G
    BY <1>1
  <2>2. ASSUME NEW i \in 1..Len(s), i - 1 \in G PROVE i \in G
    <3>1. s[(i - 1) + 1] \in Text /\ (i - 1) + 1 = i
      BY <2>2
    <3>2. \A j \in 1..i : j = i \/ j \in 1..(i - 1)
      OBVIOUS
    <3> QED
      BY <2>2, <3>1, <3>2
  <2>3. 0..Len(s) \subseteq G
    <3> HIDE DEF G
    <3> QED
      BY <1>1, <2>1, <2>2, Induction
  <2>4. Len(s) \in 0..Len(s)
    BY <1>1
  <2> HIDE DEF G
  <2> QED
    BY <2>3, <2>4
<1>3. PICK i \in G : i = Len(s) \/ s[i + 1] \notin Text
  BY <1>2
<1>4. PICK t \in Seq(Node), b \in Seq(Node) : s = t \o b /\ Len(t) = i
  <2>1. i \in 0..Len(s)
    OBVIOUS
  <2> HIDE DEF G
  <2> QED
    BY <2>1, CutAt
<1>5. /\ Len(s) = Len(t) + Len(b) /\ Len(t) \in Nat /\ Len(b) \in Nat
      /\ \A j \in 1..Len(t) : s[j] = t[j]
      /\ \A j \in 1..Len(b) : s[Len(t) + j] = b[j]
  <2>1. /\ Len(t \o b) = Len(t) + Len(b) /\ Len(t) \in Nat /\ Len(b) \in Nat
        /\ \A j \in 1..Len(t) : (t \o b)[j] = t[j]
        /\ \A j \in 1..Len(b) : (t \o b)[Len(t) + j] = b[j]
    BY JoinIs
  <2> QED
    BY <1>4, <2>1, Zenon
<1>6. t \in Seq(Text)
  <2>1. \A j \in 1..Len(t) : t[j] \in Text
    BY <1>3, <1>4, <1>5
  <2> QED
    BY <2>1
<1>7. Solid(b)
  <2>1. CASE i = Len(s)
    <3>1. Len(b) = 0
      BY <1>4, <1>5, <2>1
    <3> QED
      BY <3>1 DEF Solid
  <2>2. CASE i # Len(s)
    <3>1. 1 \in 1..Len(b) /\ s[Len(t) + 1] \notin Text
      BY <1>3, <1>4, <1>5, <2>2
    <3> QED
      BY <1>5, <3>1 DEF Solid
  <2> QED
    BY <2>1, <2>2
<1>8. TextRunAfter(<<>> \o (t \o b), Len(<<>>)) = t
  BY <1>6, <1>7, RunIs, EmptyIs
<1>9. <<>> \o (t \o b) = s /\ Len(<<>>) = 0
  BY <1>4, JoinEmpty
<1>10. Lead(s) = t
  BY <1>8, <1>9 DEF Lead
<1> QED
  BY <1>4, <1>6, <1>7, <1>10

LEMMA LeadJoin ==
  ASSUME NEW t \in Seq(Text), NEW b \in Seq(Node), Solid(b)
  PROVE  Lead(t \o b) = t
<1>1. TextRunAfter(<<>> \o (t \o b), Len(<<>>)) = t
  BY RunIs, EmptyIs
<1>2. t \o b \in Seq(Node)
  BY TextNodes, JoinIs
<1>3. <<>> \o (t \o b) = t \o b /\ Len(<<>>) = 0
  BY <1>2, JoinEmpty
<1> QED
  BY <1>1, <1>3 DEF Lead

(* The run after a place leads what comes after it.                        *)
LEMMA RunLeads ==
  ASSUME NEW a \in Seq(Node), NEW c \in Seq(Node)
  PROVE  TextRunAfter(a \o c, Len(a)) = Lead(c)
<1>1. PICK b \in Seq(Node) : c = Lead(c) \o b /\ Solid(b) /\ Lead(c) \in Seq(Text)
  BY LeadIs
<1>2. TextRunAfter(a \o (Lead(c) \o b), Len(a)) = Lead(c)
  BY <1>1, RunIs
<1> QED
  BY <1>1, <1>2

(* An element ends the run before it.                                      *)
LEMMA LeadStops ==
  ASSUME NEW a \in Seq(Node), NEW b \in Seq(Node), Solid(b)
  PROVE  Lead(a \o b) = Lead(a)
<1>1. PICK c \in Seq(Node) : a = Lead(a) \o c /\ Solid(c) /\ Lead(a) \in Seq(Text)
  BY LeadIs
<1> DEFINE t == Lead(a)
<1>2. t \in Seq(Text) /\ t \in Seq(Node) /\ a = t \o c
  BY <1>1, TextNodes
<1> HIDE DEF t
<1>3. c \o b \in Seq(Node) /\ Solid(c \o b)
  BY <1>1, SolidJoin, JoinIs
<1>4. a \o b = t \o (c \o b)
  <2>1. All3(Node, t, c, b)
    BY <1>2 DEF All3
  <2>2. (t \o c) \o b = t \o (c \o b) /\ c \o b \in Seq(Node)
    BY <2>1, Assoc
  <2> QED
    BY <1>2, <2>2
<1>5. Lead(t \o (c \o b)) = t
  BY <1>2, <1>3, LeadJoin
<1> QED
  BY <1>4, <1>5 DEF t

LEMMA RunsBefore ==
  ASSUME NEW a \in Seq(Node), NEW b \in Seq(Node), Solid(b), NEW i \in 0..Len(a)
  PROVE  TextRunAfter(a \o b, i) = TextRunAfter(a, i)
<1>1. PICK c \in Seq(Node), d \in Seq(Node) : a = c \o d /\ Len(c) = i
  BY CutAt
<1>2. a \o b = c \o (d \o b) /\ d \o b \in Seq(Node)
  <2>1. All3(Node, c, d, b)
    BY <1>1 DEF All3
  <2>2. (c \o d) \o b = c \o (d \o b) /\ d \o b \in Seq(Node)
    BY <2>1, Assoc
  <2> QED
    BY <1>1, <2>2
<1>3. TextRunAfter(c \o (d \o b), Len(c)) = Lead(d \o b) /\ TextRunAfter(c \o d, Len(c)) = Lead(d)
  BY <1>2, RunLeads
<1>4. Lead(d \o b) = Lead(d)
  BY LeadStops
<1> QED
  BY <1>1, <1>2, <1>3, <1>4

LEMMA RunsBehind ==
  ASSUME NEW a \in Seq(Node), NEW b \in Seq(Node), NEW i \in 0..Len(b)
  PROVE  TextRunAfter(a \o b, Len(a) + i) = TextRunAfter(b, i)
<1>1. PICK c \in Seq(Node), d \in Seq(Node) : b = c \o d /\ Len(c) = i
  BY CutAt
<1>2. a \o b = (a \o c) \o d /\ a \o c \in Seq(Node) /\ Len(a \o c) = Len(a) + i
  <2>1. (a \o c) \o d = a \o (c \o d)
    <3>1. All3(Node, a, c, d)
      BY DEF All3
    <3> QED
      BY <3>1, Assoc
  <2>2. a \o c \in Seq(Node) /\ Len(a \o c) = Len(a) + Len(c)
    BY JoinIs
  <2> QED
    BY <1>1, <2>1, <2>2
<1>3. TextRunAfter((a \o c) \o d, Len(a \o c)) = Lead(d) /\ TextRunAfter(c \o d, Len(c)) = Lead(d)
  BY <1>2, RunLeads
<1> QED
  BY <1>1, <1>2, <1>3

-----------------------------------------------------------------------------
(* The list that the etree layer shows of a chain.                         *)

(* Chains without a node twice.                                            *)
Plain == {s \in Seq(Node) : \A i, j \in DOMAIN s : s[i] = s[j] => i = j}

ItemSet == [el : Elem, tail : Seq(Text)]

(* The children of a chain, each with its tail.                            *)
Row(s) ==
  [i \in DOMAIN ContentChildren(s) |->
     Entry(ContentChildren(s)[i], TextRunAfter(s, Pos(s, ContentChildren(s)[i])))]

LEMMA PlainJoin ==
  ASSUME NEW a \in Seq(Node), NEW b \in Seq(Node), a \o b \in Plain
  PROVE  a \in Plain /\ b \in Plain /\ ToSet(a) \cap ToSet(b) = {}
<1> DEFINE s == a \o b
<1>1. /\ Len(a) \in Nat /\ Len(b) \in Nat
      /\ DOMAIN a = 1..Len(a) /\ DOMAIN b = 1..Len(b) /\ DOMAIN s = 1..(Len(a) + Len(b))
      /\ \A i \in 1..Len(a) : s[i] = a[i]
      /\ \A i \in 1..Len(b) : s[Len(a) + i] = b[i]
  BY JoinIs
<1>2. \A i, j \in DOMAIN s : s[i] = s[j] => i = j
  BY DEF Plain
<1> HIDE DEF s
<1>3. \A i \in 1..Len(a) : i \in DOMAIN s
  BY <1>1
<1>4. \A i \in 1..Len(b) : Len(a) + i \in DOMAIN s
  BY <1>1
<1>5. ASSUME NEW i \in DOMAIN a, NEW j \in DOMAIN a, a[i] = a[j] PROVE i = j
  BY <1>1, <1>2, <1>3, <1>5
<1>6. ASSUME NEW i \in DOMAIN b, NEW j \in DOMAIN b, b[i] = b[j] PROVE i = j
  <2>1. Len(a) + i = Len(a) + j
    BY <1>1, <1>2, <1>4, <1>6
  <2> QED
    BY <1>1, <2>1
<1>7. ASSUME NEW i \in DOMAIN a, NEW j \in DOMAIN b, a[i] = b[j] PROVE FALSE
  <2>1. i = Len(a) + j
    BY <1>1, <1>2, <1>3, <1>4, <1>7
  <2> QED
    BY <1>1, <2>1
<1>8. ASSUME NEW x \in ToSet(a), x \in ToSet(b) PROVE FALSE
  <2>1. (\E i \in DOMAIN a : a[i] = x) /\ (\E j \in DOMAIN b : b[j] = x)
    BY <1>8, Ranged
  <2> QED
    BY <1>7, <2>1
<1> QED
  BY <1>5, <1>6, <1>8 DEF Plain

LEMMA PlainParts ==
  ASSUME NEW s \in Plain, NEW a \in Seq(Node), NEW x \in Node, NEW b \in Seq(Node),
         Parts(s, a, x, b)
  PROVE  /\ s \in Seq(Node) /\ a \in Plain /\ b \in Plain /\ <<x>> \o b \in Plain
         /\ x \notin ToSet(a) /\ x \notin ToSet(b)
         /\ ToSet(a) \cap ToSet(b) = {}
<1> DEFINE o == <<x>>
           c == o \o b
<1>1. o \in Seq(Node) /\ ToSet(o) = {x}
  BY OneIs, OneRange
<1> HIDE DEF o
<1>2. c \in Seq(Node) /\ ToSet(c) = {x} \cup ToSet(b)
  BY <1>1, JoinIs, JoinRange
<1>3. c \in Plain => b \in Plain /\ ToSet(o) \cap ToSet(b) = {}
  BY <1>1, PlainJoin
<1> HIDE DEF c
<1>4. s = a \o c
  BY DEF Parts, c, o
<1>5. a \in Plain /\ c \in Plain /\ ToSet(a) \cap ToSet(c) = {}
  BY <1>2, <1>4, PlainJoin
<1>6. s \in Seq(Node)
  BY DEF Plain
<1> QED
  BY <1>1, <1>2, <1>3, <1>5, <1>6 DEF c, o

LEMMA PosOnly ==
  ASSUME NEW s \in Plain, NEW i \in DOMAIN s
  PROVE  Pos(s, s[i]) = i
<1>1. \A j \in DOMAIN s : s[j] = s[i] => j = i
  BY DEF Plain
<1> QED
  BY <1>1 DEF Pos

LEMMA ChildrenAre ==
  ASSUME NEW s \in Seq(Node)
  PROVE  /\ ContentChildren(s) \in Seq(Elem)
         /\ ToSet(ContentChildren(s)) = ToSet(s) \cap Elem
<1> DEFINE c == ContentChildren(s)
<1>1. c \in Seq(Node) /\ ToSet(c) = ToSet(s) \ Text
  BY NotInSome DEF ContentChildren
<1> HIDE DEF c
<1>2. ToSet(s) \subseteq Elem \cup Text /\ Elem \cap Text = {}
  BY ChildListAssumption, Ranged DEF Node
<1>3. \A i \in 1..Len(c) : c[i] \in Elem
  <2>1. \A i \in 1..Len(c) : c[i] \in ToSet(c)
    BY <1>1, Ranged
  <2> QED
    BY <1>1, <1>2, <2>1
<1>4. c \in Seq(Elem)
  BY <1>1, <1>3
<1> QED
  BY <1>1, <1>2, <1>4 DEF c

LEMMA RowIs ==
  ASSUME NEW s \in Plain
  PROVE  /\ Row(s) \in Seq(ItemSet)
         /\ Len(Row(s)) = Len(ContentChildren(s)) /\ Len(Row(s)) \in Nat
         /\ DOMAIN Row(s) = 1..Len(Row(s))
         /\ \A i \in 1..Len(Row(s)) :
              /\ Row(s)[i].el = ContentChildren(s)[i]
              /\ Row(s)[i] = Entry(ContentChildren(s)[i],
                                   TextRunAfter(s, Pos(s, ContentChildren(s)[i])))
              /\ Row(s)[i].el \in ToSet(s) /\ Row(s)[i].el \in Elem
<1> DEFINE c == ContentChildren(s)
<1>1. s \in Seq(Node)
  BY DEF Plain
<1>2. c \in Seq(Elem) /\ ToSet(c) = ToSet(s) \cap Elem
  BY <1>1, ChildrenAre
<1> HIDE DEF c
<1>3. \A i \in 1..Len(c) : c[i] \in Elem /\ c[i] \in ToSet(s)
  BY <1>2, Ranged
<1>4. \A i \in 1..Len(c) : TextRunAfter(s, Pos(s, c[i])) \in Seq(Text)
  <2> SUFFICES ASSUME NEW i \in 1..Len(c) PROVE TextRunAfter(s, Pos(s, c[i])) \in Seq(Text)
    OBVIOUS
  <2>1. Pos(s, c[i]) \in DOMAIN s
    BY <1>3, PosIs
  <2>2. Pos(s, c[i]) \in Nat
    BY <1>1, <2>1
  <2> QED
    BY <1>1, <2>2, TextRunIs
<1>5. DOMAIN c = 1..Len(c) /\ Len(c) \in Nat
  BY <1>2
<1>6. /\ DOMAIN Row(s) = 1..Len(c)
      /\ \A i \in 1..Len(c) : Row(s)[i] = Entry(c[i], TextRunAfter(s, Pos(s, c[i])))
  BY <1>5 DEF Row, c
<1>7. \A i \in 1..Len(c) : Row(s)[i] \in ItemSet /\ Row(s)[i].el = c[i]
  BY <1>3, <1>4, <1>6 DEF Entry, ItemSet
<1>8. Row(s) \in Seq(ItemSet) /\ Len(Row(s)) = Len(c)
  <2>1. Row(s) = [i \in 1..Len(c) |-> Row(s)[i]]
    <3>1. Row(s) = [i \in DOMAIN c |-> Entry(c[i], TextRunAfter(s, Pos(s, c[i])))]
      BY DEF Row, c
    <3> QED
      BY <1>5, <3>1
  <2> QED
    BY <1>5, <1>7, <2>1
<1> QED
  BY <1>3, <1>5, <1>6, <1>7, <1>8 DEF c

LEMMA ChildrenJoin ==
  ASSUME NEW a \in Seq(Node), NEW b \in Seq(Node)
  PROVE  ContentChildren(a \o b) = ContentChildren(a) \o ContentChildren(b)
<1>1. NotIn(a \o b, Text) = NotIn(a, Text) \o NotIn(b, Text)
  BY NotInJoin
<1> QED
  BY <1>1 DEF ContentChildren

LEMMA ChildrenParts ==
  ASSUME NEW a \in Seq(Node), NEW e \in Elem, NEW b \in Seq(Node), NEW s, Parts(s, a, e, b)
  PROVE  Parts(ContentChildren(s), ContentChildren(a), e, ContentChildren(b))
<1> DEFINE o == <<e>>
<1>1. o \in Seq(Node) /\ ToSet(o) = {e} /\ e \notin Text
  BY SolidFront, OneRange
<1> HIDE DEF o
<1>2. ContentChildren(o) = o
  BY <1>1, NotInSome DEF ContentChildren
<1>3. o \o b \in Seq(Node) /\ ContentChildren(o \o b) = o \o ContentChildren(b)
  <2>1. Two(Node, o, b)
    BY <1>1 DEF Two
  <2>2. o \o b \in Seq(Node)
    BY <2>1, JoinTwo
  <2>3. ContentChildren(o \o b) = ContentChildren(o) \o ContentChildren(b)
    BY <1>1, ChildrenJoin
  <2> QED
    BY <1>2, <2>2, <2>3
<1>4. ContentChildren(a \o (o \o b)) = ContentChildren(a) \o (o \o ContentChildren(b))
  BY <1>3, ChildrenJoin
<1> QED
  BY <1>4 DEF Parts, o

(* An element among the nodes of a chain is one among its entries, with    *)
(* the text that leads the rest as its tail.                               *)
LEMMA RowParts ==
  ASSUME NEW s \in Plain, NEW a \in Seq(Node), NEW e \in Elem, NEW b \in Seq(Node),
         Parts(s, a, e, b)
  PROVE  /\ Entry(e, Lead(b)) \in ItemSet
         /\ Lead(s) = Lead(a)
         /\ Row(a) \in Seq(ItemSet) /\ Row(b) \in Seq(ItemSet)
         /\ Parts(Row(s), Row(a), Entry(e, Lead(b)), Row(b))
<1> DEFINE n == Len(a)
           cs == ContentChildren(s)
           ca == ContentChildren(a)
           cb == ContentChildren(b)
           na == Len(ca)
           nb == Len(cb)
           x == Entry(e, Lead(b))
           r == Row(a) \o (<<x>> \o Row(b))
<1>1. /\ a \in Plain /\ b \in Plain /\ e \in Node /\ s \in Seq(Node)
      /\ e \notin ToSet(a) /\ e \notin ToSet(b) /\ ToSet(a) \cap ToSet(b) = {}
  BY PlainParts, SolidFront
<1>2. /\ n \in Nat /\ Len(b) \in Nat /\ DOMAIN a = 1..n /\ DOMAIN b = 1..Len(b)
      /\ DOMAIN s = 1..(n + 1 + Len(b))
      /\ \A i \in 1..n : s[i] = a[i]
      /\ s[n + 1] = e
      /\ \A i \in 1..Len(b) : s[n + 1 + i] = b[i]
  BY <1>1, PartsAre
<1>3. <<e>> \o b \in Seq(Node) /\ Solid(<<e>> \o b) /\ <<e>> \in Seq(Node) /\ Len(<<e>>) = 1
  BY SolidFront, OneIs
<1>4. s = a \o (<<e>> \o b)
  BY DEF Parts
<1>5. \A i \in 0..n : TextRunAfter(s, i) = TextRunAfter(a, i)
  <2> DEFINE c == <<e>> \o b
  <2>1. c \in Seq(Node) /\ Solid(c) /\ s = a \o c
    BY <1>3, <1>4
  <2> HIDE DEF c
  <2> QED
    BY <2>1, RunsBefore
<1>6. Lead(s) = Lead(a)
  BY <1>2, <1>5 DEF Lead
<1>7. \A j \in 0..Len(b) : TextRunAfter(s, n + 1 + j) = TextRunAfter(b, j)
  <2> DEFINE o == <<e>>
             c == a \o o
  <2>1. o \in Seq(Node) /\ Len(o) = 1
    BY <1>3
  <2> HIDE DEF o
  <2>2. c \in Seq(Node) /\ Len(c) = n + Len(o)
    BY <2>1, JoinIs
  <2>3. c \o b = a \o (o \o b)
    <3>1. All3(Node, a, o, b)
      BY <2>1 DEF All3
    <3> QED
      BY <3>1, Assoc
  <2>4. s = c \o b
    BY <1>4, <2>3 DEF o
  <2> HIDE DEF c
  <2>5. \A j \in 0..Len(b) : TextRunAfter(c \o b, Len(c) + j) = TextRunAfter(b, j)
    BY <2>2, RunsBehind
  <2>6. Len(c) = n + 1
    BY <2>1, <2>2
  <2> QED
    BY <2>4, <2>5, <2>6
<1>8. TextRunAfter(s, n + 1) = Lead(b)
  <2>1. 0 \in 0..Len(b) /\ n + 1 + 0 = n + 1
    BY <1>2
  <2>2. TextRunAfter(s, n + 1 + 0) = TextRunAfter(b, 0)
    BY <1>7, <2>1
  <2> QED
    BY <2>1, <2>2 DEF Lead
<1>9. /\ ca \in Seq(Elem) /\ cb \in Seq(Elem) /\ na \in Nat /\ nb \in Nat
      /\ na = Len(ca) /\ nb = Len(cb)
      /\ ToSet(ca) = ToSet(a) \cap Elem /\ ToSet(cb) = ToSet(b) \cap Elem
  BY ChildrenAre
<1>10. /\ Len(cs) = na + 1 + nb
       /\ \A i \in 1..na : cs[i] = ca[i]
       /\ cs[na + 1] = e
       /\ \A i \in 1..nb : cs[na + 1 + i] = cb[i]
  <2>1. Parts(cs, ca, e, cb)
    BY ChildrenParts
  <2>2. ca \in Seq(Elem) /\ cb \in Seq(Elem)
    BY <1>9
  <2> HIDE DEF cs, ca, cb
  <2> QED
    BY <2>1, <2>2, PartsAre
<1> HIDE DEF n, cs, ca, cb, na, nb
<1>11. ASSUME NEW y \in ToSet(a) PROVE TextRunAfter(s, Pos(s, y)) = TextRunAfter(a, Pos(a, y))
  <2>1. Pos(a, y) \in 1..n /\ a[Pos(a, y)] = y
    BY <1>2, PosIs
  <2>2. Pos(a, y) \in DOMAIN s /\ s[Pos(a, y)] = y
    BY <1>2, <2>1
  <2>3. Pos(s, y) = Pos(a, y)
    BY <2>2, PosOnly
  <2>4. Pos(a, y) \in 0..n
    BY <1>2, <2>1
  <2> QED
    BY <1>5, <2>3, <2>4
<1>12. TextRunAfter(s, Pos(s, e)) = Lead(b)
  <2>1. n + 1 \in DOMAIN s /\ s[n + 1] = e
    BY <1>2
  <2>2. Pos(s, e) = n + 1
    BY <2>1, PosOnly
  <2> QED
    BY <1>8, <2>2
<1>13. ASSUME NEW y \in ToSet(b) PROVE TextRunAfter(s, Pos(s, y)) = TextRunAfter(b, Pos(b, y))
  <2> DEFINE j == Pos(b, y)
  <2>1. j \in 1..Len(b) /\ b[j] = y
    BY <1>2, PosIs
  <2> HIDE DEF j
  <2>2. n + 1 + j \in DOMAIN s /\ s[n + 1 + j] = y
    BY <1>2, <2>1
  <2>3. Pos(s, y) = n + 1 + j
    BY <2>2, PosOnly
  <2>4. j \in 0..Len(b)
    BY <1>2, <2>1
  <2>5. TextRunAfter(s, Pos(s, y)) = TextRunAfter(b, j)
    BY <1>7, <2>3, <2>4
  <2> QED
    BY <2>5 DEF j
<1>14. /\ Row(s) \in Seq(ItemSet) /\ Len(Row(s)) = na + 1 + nb
       /\ \A i \in 1..(na + 1 + nb) :
            Row(s)[i] = Entry(cs[i], TextRunAfter(s, Pos(s, cs[i])))
  BY <1>10, RowIs DEF cs
<1>15. /\ Row(a) \in Seq(ItemSet) /\ Len(Row(a)) = na
       /\ \A i \in 1..na : Row(a)[i] = Entry(ca[i], TextRunAfter(a, Pos(a, ca[i])))
  BY <1>1, RowIs DEF ca, na
<1>16. /\ Row(b) \in Seq(ItemSet) /\ Len(Row(b)) = nb
       /\ \A i \in 1..nb : Row(b)[i] = Entry(cb[i], TextRunAfter(b, Pos(b, cb[i])))
  BY <1>1, RowIs DEF cb, nb
<1>17. x \in ItemSet
  <2>1. Lead(b) \in Seq(Text)
    BY LeadIs
  <2> QED
    BY <2>1 DEF Entry, ItemSet
<1> HIDE DEF x
<1>18. /\ r \in Seq(ItemSet)
       /\ Len(r) = Len(Row(a)) + 1 + Len(Row(b))
       /\ \A i \in 1..Len(Row(a)) : r[i] = Row(a)[i]
       /\ r[Len(Row(a)) + 1] = x
       /\ \A i \in 1..Len(Row(b)) : r[Len(Row(a)) + 1 + i] = Row(b)[i]
  <2>1. Parts(r, Row(a), x, Row(b))
    BY DEF Parts
  <2>2. Row(a) \in Seq(ItemSet) /\ Row(b) \in Seq(ItemSet)
    BY <1>15, <1>16
  <2> HIDE DEF r
  <2> QED
    BY <1>17, <2>1, <2>2, PartsAre
<1> HIDE DEF r
<1>19. \A i \in 1..(na + 1 + nb) : Row(s)[i] = r[i]
  <2> SUFFICES ASSUME NEW i \in 1..(na + 1 + nb) PROVE Row(s)[i] = r[i]
    OBVIOUS
  <2>1. Row(s)[i] = Entry(cs[i], TextRunAfter(s, Pos(s, cs[i])))
    BY <1>14
  <2>2. CASE i \in 1..na
    <3>1. cs[i] = ca[i] /\ r[i] = Row(a)[i]
      BY <1>10, <1>15, <1>18, <2>2
    <3>2. ca[i] \in ToSet(a)
      BY <1>9, <2>2, Ranged
    <3> QED
      BY <1>11, <1>15, <2>1, <2>2, <3>1, <3>2
  <2>3. CASE i = na + 1
    <3>1. cs[i] = e /\ r[i] = x
      BY <1>10, <1>15, <1>18, <2>3
    <3> QED
      BY <1>12, <2>1, <3>1 DEF x
  <2>4. CASE i \notin 1..na /\ i # na + 1
    <3>1. PICK j \in 1..nb : i = na + 1 + j
      <4>1. i - (na + 1) \in 1..nb /\ i = na + 1 + (i - (na + 1))
        BY <1>9, <2>4
      <4> QED
        BY <4>1
    <3>2. cs[i] = cb[j] /\ r[i] = Row(b)[j]
      BY <1>10, <1>15, <1>16, <1>18, <3>1
    <3>3. cb[j] \in ToSet(b)
      BY <1>9, <3>1, Ranged
    <3> QED
      BY <1>13, <1>16, <2>1, <3>1, <3>2, <3>3
  <2> QED
    BY <2>2, <2>3, <2>4
<1>20. Row(s) = r
  <2>1. Len(Row(s)) = Len(r) /\ \A i \in 1..Len(Row(s)) : Row(s)[i] = r[i]
    BY <1>14, <1>15, <1>16, <1>18, <1>19
  <2> QED
    BY <1>14, <1>18, <2>1, SameSeq
<1> QED
  BY <1>6, <1>15, <1>16, <1>17, <1>20 DEF Parts, r, x

LEMMA PlainEmpty == <<>> \in Plain /\ Row(<<>>) = <<>> /\ Lead(<<>>) = <<>>
<1>1. <<>> \in Seq(Node) /\ <<>> \in Seq(Text) /\ Len(<<>>) = 0 /\ DOMAIN <<>> = {} /\ ToSet(<<>>) = {}
  BY EmptyIs
<1>2. <<>> \in Plain
  BY <1>1 DEF Plain
<1>3. NotIn(<<>>, Text) = <<>>
  BY <1>1, NotInSome
<1>4. Len(Row(<<>>)) = 0 /\ Row(<<>>) \in Seq(ItemSet)
  BY <1>1, <1>2, <1>3, RowIs DEF ContentChildren
<1>5. Row(<<>>) = <<>>
  BY <1>4
<1>6. Lead(<<>> \o <<>>) = <<>>
  BY <1>1, LeadJoin DEF Solid
<1>7. <<>> \o <<>> = <<>>
  BY <1>1, JoinEmpty
<1> QED
  BY <1>2, <1>5, <1>6, <1>7

LEMMA RowText ==
  ASSUME NEW t \in Seq(Text), t \in Plain
  PROVE  Row(t) = <<>>
<1>1. t \in Seq(Node) /\ ToSet(t) \subseteq Text
  BY TextNodes
<1>2. ContentChildren(t) = <<>>
  BY <1>1, NotInSome DEF ContentChildren
<1>3. Len(Row(t)) = 0 /\ Row(t) \in Seq(ItemSet)
  BY <1>2, RowIs
<1> QED
  BY <1>3

LEMMA SolidParts ==
  ASSUME NEW b \in Seq(Node), Solid(b), b # <<>>
  PROVE  \E e \in Elem, c \in Seq(Node) : b = <<e>> \o c /\ Parts(b, <<>>, e, c) /\ e = b[1]
<1>1. 1 \in 1..Len(b) /\ b[1] \in Node /\ b[1] \notin Text
  BY DEF Solid
<1>2. b[1] \in Elem
  BY <1>1 DEF Node
<1>3. PICK a \in Seq(Node), c \in Seq(Node) : Parts(b, a, b[1], c) /\ Len(a) + 1 = 1
  BY <1>1, SplitAt
<1>4. a = <<>>
  <2>1. Len(a) = 0
    BY <1>3
  <2> QED
    BY <2>1
<1>5. <<b[1]>> \o c \in Seq(Node)
  BY <1>2, SolidFront
<1>6. <<>> \o (<<b[1]>> \o c) = <<b[1]>> \o c
  BY <1>5, JoinEmpty
<1>7. b = <<b[1]>> \o c
  BY <1>3, <1>4, <1>6 DEF Parts
<1> QED
  BY <1>2, <1>3, <1>4, <1>7

(* Behind text, or behind any chain, comes what is shown of the rest.      *)
LEMMA RowJoin ==
  ASSUME NEW a \in Seq(Node), NEW b \in Seq(Node), Solid(b), a \o b \in Plain
  PROVE  /\ Row(a) \in Seq(ItemSet) /\ Row(b) \in Seq(ItemSet)
         /\ Row(a \o b) = Row(a) \o Row(b)
         /\ Lead(a \o b) = Lead(a)
<1>1. a \in Plain /\ b \in Plain
  BY PlainJoin
<1>2. Row(a) \in Seq(ItemSet) /\ Row(b) \in Seq(ItemSet)
  BY <1>1, RowIs
<1>3. Lead(a \o b) = Lead(a)
  BY LeadStops
<1>4. CASE b = <<>>
  <2>1. a \o b = a /\ Row(b) = <<>>
    BY <1>4, JoinEmpty, PlainEmpty
  <2>2. Row(a) \o <<>> = Row(a)
    BY <1>2, JoinEmpty
  <2> QED
    BY <1>2, <1>3, <2>1, <2>2
<1>5. CASE b # <<>>
  <2>1. PICK e \in Elem, c \in Seq(Node) : b = <<e>> \o c /\ Parts(b, <<>>, e, c)
    BY <1>5, SolidParts
  <2> DEFINE x == Entry(e, Lead(c))
  <2>2. Parts(a \o b, a, e, c)
    BY <2>1 DEF Parts
  <2>3. Parts(Row(a \o b), Row(a), x, Row(c))
    BY <2>2, RowParts
  <2>4. Parts(Row(b), Row(<<>>), x, Row(c)) /\ x \in ItemSet /\ Row(c) \in Seq(ItemSet)
    BY <1>1, <2>1, RowParts, EmptyIs
  <2> HIDE DEF x
  <2>5. <<x>> \o Row(c) \in Seq(ItemSet)
    <3>1. <<x>> \in Seq(ItemSet)
      BY <2>4, OneIs
    <3> QED
      BY <2>4, <3>1, JoinIs
  <2>6. Row(b) = <<x>> \o Row(c)
    <3>1. <<>> \o (<<x>> \o Row(c)) = <<x>> \o Row(c)
      BY <2>5, JoinEmpty
    <3> QED
      BY <2>4, <3>1, PlainEmpty DEF Parts
  <2>7. Row(a \o b) = Row(a) \o Row(b)
    BY <2>3, <2>6 DEF Parts
  <2> QED
    BY <1>2, <1>3, <2>7
<1> QED
  BY <1>4, <1>5

LEMMA RowLead ==
  ASSUME NEW t \in Seq(Text), NEW b \in Seq(Node), Solid(b), t \o b \in Plain
  PROVE  Row(t \o b) = Row(b) /\ Row(b) \in Seq(ItemSet) /\ Lead(t \o b) = t
<1>1. t \in Seq(Node)
  BY TextNodes
<1>2. t \in Plain
  BY <1>1, PlainJoin
<1>3. Row(t) = <<>>
  BY <1>2, RowText
<1>4. Row(t \o b) = Row(t) \o Row(b) /\ Row(b) \in Seq(ItemSet)
  BY <1>1, RowJoin
<1>5. <<>> \o Row(b) = Row(b)
  BY <1>4, JoinEmpty
<1>6. Lead(t \o b) = t
  BY LeadJoin
<1> QED
  BY <1>3, <1>4, <1>5, <1>6

-----------------------------------------------------------------------------
(* The views of sound chains.                                              *)

LEMMA SoundPlain ==
  ASSUME NEW k \in Sound, NEW p \in Parent
  PROVE  k[p] \in Plain /\ k[p] \in Seq(Node)
BY SoundChain DEF Plain

LEMMA HomeIs ==
  ASSUME NEW k \in Sound, NEW p \in Parent, NEW n, n \in ToSet(k[p])
  PROVE  /\ Homes(k, n) = {p}
         /\ TailRun(k, n) = TextRunAfter(k[p], Pos(k[p], n))
<1>1. ASSUME NEW q \in Parent, n \in ToSet(k[q]) PROVE q = p
  <2>1. (\E i \in DOMAIN k[p] : k[p][i] = n) /\ (\E j \in DOMAIN k[q] : k[q][j] = n)
    BY <1>1, SoundChain, Ranged
  <2> QED
    BY <2>1, OnePlace
<1>2. Homes(k, n) = {p}
  BY <1>1 DEF Homes
<1> QED
  BY <1>2 DEF TailRun

LEMMA HomelessIs ==
  ASSUME NEW k, NEW n, \A q \in Parent : n \notin ToSet(k[q])
  PROVE  Homes(k, n) = {} /\ TailRun(k, n) = <<>>
BY DEF Homes, TailRun

LEMMA ViewIs ==
  ASSUME NEW k \in Sound
  PROVE  View(k) = [p \in Parent |-> [lead |-> Lead(k[p]), items |-> Row(k[p])]]
<1>1. ASSUME NEW p \in Parent
      PROVE  [i \in DOMAIN ContentChildren(k[p]) |->
                Entry(ContentChildren(k[p])[i], TailRun(k, ContentChildren(k[p])[i]))] = Row(k[p])
  <2> DEFINE c == ContentChildren(k[p])
  <2>1. c \in Seq(Elem) /\ ToSet(c) = ToSet(k[p]) \cap Elem
    BY SoundPlain, ChildrenAre
  <2>2. Row(k[p]) = [i \in DOMAIN c |-> Entry(c[i], TextRunAfter(k[p], Pos(k[p], c[i])))]
    BY DEF Row
  <2> HIDE DEF c
  <2>3. \A i \in DOMAIN c : TailRun(k, c[i]) = TextRunAfter(k[p], Pos(k[p], c[i]))
    <3>1. \A i \in DOMAIN c : c[i] \in ToSet(k[p])
      BY <2>1, Ranged
    <3> QED
      BY <3>1, HomeIs
  <2>4. [i \in DOMAIN c |-> Entry(c[i], TailRun(k, c[i]))] = Row(k[p])
    BY <2>2, <2>3
  <2> QED
    BY <2>4 DEF c
<1>2. View(k) = [p \in Parent |->
        [lead  |-> TextRunAfter(k[p], 0),
         items |-> [i \in DOMAIN ContentChildren(k[p]) |->
                      Entry(ContentChildren(k[p])[i], TailRun(k, ContentChildren(k[p])[i]))]]]
  BY DEF View
<1> QED
  BY <1>1, <1>2 DEF Lead

LEMMA WithoutIs ==
  ASSUME NEW k \in Sound, NEW S
  PROVE  Without(View(k), S) =
           [p \in Parent |-> [lead |-> Lead(k[p]), items |-> Keeping(Row(k[p]), S)]]
<1>1. View(k) = [p \in Parent |-> [lead |-> Lead(k[p]), items |-> Row(k[p])]]
  BY ViewIs
<1>2. Without(View(k), S) =
        [p \in DOMAIN View(k) |-> [View(k)[p] EXCEPT !.items = Keeping(@, S)]]
  BY DEF Without
<1> QED
  BY <1>1, <1>2

(* The run of an element that is followed by c.                            *)
LEMMA RunOf ==
  ASSUME NEW s \in Plain, NEW a \in Seq(Node), NEW e \in Elem, NEW c \in Seq(Node),
         Parts(s, a, e, c)
  PROVE  TextRunAfter(s, Pos(s, e)) = Lead(c)
<1> DEFINE o == <<e>>
           h == a \o o
<1>1. o \in Seq(Node) /\ Len(o) = 1 /\ e \in Node
  BY SolidFront, OneIs
<1> HIDE DEF o
<1>2. h \in Seq(Node) /\ Len(h) = Len(a) + Len(o)
  BY <1>1, JoinIs
<1>3. h \o c = a \o (o \o c)
  <2>1. All3(Node, a, o, c)
    BY <1>1 DEF All3
  <2> QED
    BY <2>1, Assoc
<1>4. s = h \o c
  BY <1>3 DEF Parts, o
<1> HIDE DEF h
<1>5. TextRunAfter(h \o c, Len(h)) = Lead(c)
  BY <1>2, RunLeads
<1>6. DOMAIN s = 1..(Len(a) + 1 + Len(c)) /\ Len(a) \in Nat /\ Len(c) \in Nat /\ s[Len(a) + 1] = e
  BY <1>1, PartsAre
<1>7. Len(a) + 1 \in DOMAIN s
  BY <1>6
<1>8. Pos(s, e) = Len(a) + 1
  BY <1>6, <1>7, PosOnly
<1> QED
  BY <1>1, <1>2, <1>4, <1>5, <1>8

(* A placed element, its tail, and the rest, which begins with no text.    *)
LEMMA BlockIs ==
  ASSUME NEW k \in Sound, NEW p \in Parent, NEW e \in Elem, e \in ToSet(k[p])
  PROVE  /\ TailRun(k, e) \in Seq(Text)
         /\ \E a, b \in Seq(Node) : Parts(k[p], a, e, TailRun(k, e) \o b) /\ Solid(b)
<1>1. k[p] \in Plain /\ k[p] \in Seq(Node) /\ e \in Node
  BY SoundPlain, SolidFront
<1>2. PICK a \in Seq(Node), c \in Seq(Node) : Parts(k[p], a, e, c)
  BY <1>1, SplitAround
<1>3. PICK b \in Seq(Node) : c = Lead(c) \o b /\ Solid(b) /\ Lead(c) \in Seq(Text)
  BY LeadIs
<1>4. TailRun(k, e) = Lead(c)
  BY <1>1, <1>2, HomeIs, RunOf
<1> QED
  BY <1>2, <1>3, <1>4

LEMMA TailApart ==
  ASSUME NEW k \in Sound, NEW p \in Parent, NEW e \in Elem,
         NEW a \in Seq(Node), NEW t \in Seq(Text), NEW b \in Seq(Node),
         Parts(k[p], a, e, t \o b)
  PROVE  /\ a \o b \in Seq(Node) /\ t \in Seq(Node) /\ t \in Plain
         /\ ToSet(k[p]) = ToSet(a) \cup {e} \cup ToSet(t) \cup ToSet(b)
         /\ e \notin ToSet(a) /\ e \notin ToSet(t) /\ e \notin ToSet(b)
         /\ ToSet(a) \cap ToSet(t) = {} /\ ToSet(b) \cap ToSet(t) = {}
<1>1. t \in Seq(Node) /\ e \in Node /\ a \o b \in Seq(Node)
  BY TextNodes, SolidFront, JoinIs
<1>2. t \o b \in Seq(Node) /\ ToSet(t \o b) = ToSet(t) \cup ToSet(b)
  BY <1>1, JoinIs, JoinRange
<1> DEFINE c == t \o b
<1>3. c \in Plain => t \in Plain /\ ToSet(t) \cap ToSet(b) = {}
  BY <1>1, PlainJoin
<1> HIDE DEF c
<1>4. Parts(k[p], a, e, c) /\ c \in Seq(Node) /\ k[p] \in Plain
  BY <1>2, SoundPlain DEF c
<1>5. /\ c \in Plain /\ e \notin ToSet(a) /\ e \notin ToSet(c) /\ ToSet(a) \cap ToSet(c) = {}
  BY <1>1, <1>4, PlainParts
<1>6. ToSet(k[p]) = ToSet(a) \cup {e} \cup ToSet(c)
  BY <1>1, <1>4, PartsAre
<1> QED
  BY <1>1, <1>2, <1>3, <1>5, <1>6 DEF c

LEMMA OneChain ==
  ASSUME NEW k \in Sound, NEW p \in Parent, NEW q \in Parent, NEW n,
         n \in ToSet(k[p]), n \in ToSet(k[q])
  PROVE  p = q
<1>1. (\E i \in DOMAIN k[p] : k[p][i] = n) /\ (\E j \in DOMAIN k[q] : k[q][j] = n)
  BY SoundChain, Ranged
<1> QED
  BY <1>1, OnePlace

LEMMA RowEls ==
  ASSUME NEW s \in Plain
  PROVE  \A x \in ToSet(Row(s)) : x \in ItemSet /\ x.el \in ToSet(s) /\ x.el \in Elem
<1>1. /\ Row(s) \in Seq(ItemSet) /\ DOMAIN Row(s) = 1..Len(Row(s))
      /\ \A i \in 1..Len(Row(s)) : Row(s)[i].el \in ToSet(s) /\ Row(s)[i].el \in Elem
  BY RowIs
<1>2. \A x \in ToSet(Row(s)) : x \in ItemSet /\ \E i \in DOMAIN Row(s) : Row(s)[i] = x
  BY <1>1, Ranged
<1> QED
  BY <1>1, <1>2

(* An element with its tail t is an entry with the tail t.                 *)
LEMMA RowBlock ==
  ASSUME NEW s \in Plain, NEW a \in Seq(Node), NEW e \in Elem, NEW t \in Seq(Text),
         NEW b \in Seq(Node), Solid(b), Parts(s, a, e, t \o b)
  PROVE  /\ Entry(e, t) \in ItemSet /\ Row(a) \in Seq(ItemSet) /\ Row(b) \in Seq(ItemSet)
         /\ a \in Plain /\ b \in Plain
         /\ Parts(Row(s), Row(a), Entry(e, t), Row(b))
         /\ Lead(s) = Lead(a)
<1>1. t \in Seq(Node) /\ e \in Node
  BY TextNodes, SolidFront
<1> DEFINE c == t \o b
<1>2. c \in Seq(Node)
  BY <1>1, JoinIs
<1>3. c \in Plain => Row(c) = Row(b) /\ Row(b) \in Seq(ItemSet) /\ Lead(c) = t /\ b \in Plain
  BY <1>1, RowLead, PlainJoin
<1> HIDE DEF c
<1>4. Parts(s, a, e, c)
  BY DEF c
<1>5. a \in Plain /\ c \in Plain
  BY <1>1, <1>2, <1>4, PlainParts
<1>6. /\ Entry(e, Lead(c)) \in ItemSet /\ Lead(s) = Lead(a)
      /\ Row(a) \in Seq(ItemSet)
      /\ Parts(Row(s), Row(a), Entry(e, Lead(c)), Row(c))
  BY <1>2, <1>4, RowParts
<1> QED
  BY <1>3, <1>5, <1>6

(* Taking nodes out of the middle.                                         *)
LEMMA NotInMiddle ==
  ASSUME NEW a \in Seq(Node), NEW c \in Seq(Node), NEW b \in Seq(Node), NEW S,
         ToSet(a) \cap S = {}, ToSet(c) \subseteq S, ToSet(b) \cap S = {}
  PROVE  NotIn(a \o (c \o b), S) = a \o b
<1>1. NotIn(a, S) = a /\ NotIn(c, S) = <<>> /\ NotIn(b, S) = b
  BY NotInSome
<1> DEFINE h == c \o b
<1>2. h \in Seq(Node) /\ NotIn(h, S) = NotIn(c, S) \o NotIn(b, S)
  BY JoinIs, NotInJoin
<1> HIDE DEF h
<1>h. h \in Seq(Node)
  BY <1>2
<1>3. NotIn(a \o h, S) = NotIn(a, S) \o NotIn(h, S)
  <2>1. Two(Node, a, h)
    BY <1>h DEF Two
  <2> QED
    BY <2>1, NotInTwo
<1>4. <<>> \o b = b
  BY JoinEmpty
<1> QED
  BY <1>1, <1>2, <1>3, <1>4 DEF h

LEMMA NotInMiddleOf ==
  ASSUME NEW a, NEW c, NEW b, All3(Node, a, c, b), NEW S,
         ToSet(a) \cap S = {}, ToSet(c) \subseteq S, ToSet(b) \cap S = {}
  PROVE  NotIn(a \o (c \o b), S) = a \o b
<1>1. a \in Seq(Node) /\ c \in Seq(Node) /\ b \in Seq(Node)
  BY DEF All3
<1> QED
  BY <1>1, NotInMiddle

LEMMA KeepingMiddle ==
  ASSUME NEW X, NEW a \in Seq(X), NEW x \in X, NEW b \in Seq(X), NEW s, NEW S,
         Parts(s, a, x, b), \A y \in ToSet(a) \cup ToSet(b) : y.el \notin S
  PROVE  Keeping(s, S) = IF x.el \in S THEN a \o b ELSE s
<1>1. Keeping(a, S) = a /\ Keeping(b, S) = b
  BY KeepingIs
<1> DEFINE o == <<x>>
           h == o \o b
<1>2. o \in Seq(X) /\ Keeping(o, S) = IF x.el \in S THEN <<>> ELSE o
  BY OneIs, KeepingOne
<1> HIDE DEF o
<1>o. o \in Seq(X)
  BY <1>2
<1>3. h \in Seq(X) /\ Keeping(h, S) = Keeping(o, S) \o Keeping(b, S)
  BY <1>o, JoinIs, KeepingJoin
<1> HIDE DEF h
<1>h. h \in Seq(X)
  BY <1>3
<1>4. Keeping(a \o h, S) = Keeping(a, S) \o Keeping(h, S)
  BY <1>h, KeepingJoin
<1>5. <<>> \o b = b
  BY JoinEmpty
<1>6. s = a \o h
  BY DEF Parts, o, h
<1> QED
  BY <1>1, <1>2, <1>3, <1>4, <1>5, <1>6 DEF h

(* An element leaves with its tail.                                        *)
LEMMA ExtractIs ==
  ASSUME NEW k \in Sound, NEW e \in Elem
  PROVE  LET d == Extract(k, e)
             S == {e} \cup ToSet(TailRun(k, e))
         IN  /\ d \in Sound
             /\ TailRun(k, e) \in Seq(Text)
             /\ \A q \in Parent : ToSet(d[q]) = ToSet(k[q]) \ S
             /\ \A q \in Parent : e \notin ToSet(k[q]) => d[q] = k[q]
             /\ \A p \in Parent : \A a, b \in Seq(Node) :
                  Parts(k[p], a, e, TailRun(k, e) \o b) => d[p] = a \o b
<1> DEFINE t == TailRun(k, e)
           S == {e} \cup ToSet(t)
           d == Extract(k, e)
<1>1. t \in Seq(Text)
  BY TailRunIs
<1>2. d = DetachAll(k, S)
  BY DEF Extract
<1>3. d \in Sound /\ \A q \in Parent : d[q] = NotIn(k[q], S) /\ ToSet(d[q]) = ToSet(k[q]) \ S
  BY <1>2, Detached
<1>4. ASSUME NEW q \in Parent, e \notin ToSet(k[q]) PROVE d[q] = k[q]
  <2>1. ToSet(k[q]) \cap S = {}
    <3>1. CASE \A p \in Parent : e \notin ToSet(k[p])
      <4>1. t = <<>>
        BY <3>1, HomelessIs
      <4>2. S = {e}
        BY <4>1, EmptyIs
      <4> QED
        BY <1>4, <4>2
    <3>2. CASE \E p \in Parent : e \in ToSet(k[p])
      <4>1. PICK p \in Parent : e \in ToSet(k[p])
        BY <3>2
      <4>2. PICK a \in Seq(Node), b \in Seq(Node) : Parts(k[p], a, e, t \o b)
        BY <4>1, BlockIs
      <4>3. ToSet(t) \subseteq ToSet(k[p])
        BY <1>1, <4>2, TailApart
      <4> HIDE DEF t
      <4>4. \A n \in S : n \in ToSet(k[p])
        BY <4>1, <4>3
      <4> QED
        BY <1>4, <4>1, <4>4, OneChain
    <3> QED
      BY <3>1, <3>2
  <2>2. k[q] \in Seq(Node)
    BY SoundPlain
  <2>3. NotIn(k[q], S) = k[q]
    <3> HIDE DEF S
    <3> QED
      BY <2>1, <2>2, NotInSome
  <2> QED
    BY <1>3, <2>3
<1>5. ASSUME NEW p \in Parent, NEW a \in Seq(Node), NEW b \in Seq(Node),
             Parts(k[p], a, e, t \o b)
      PROVE  d[p] = a \o b
  <2> HIDE DEF t
  <2>0. /\ t \in Seq(Node)
        /\ e \notin ToSet(a) /\ e \notin ToSet(b)
        /\ ToSet(a) \cap ToSet(t) = {} /\ ToSet(b) \cap ToSet(t) = {}
    BY <1>1, <1>5, TailApart
  <2>1. t \in Seq(Node) /\ ToSet(a) \cap S = {} /\ ToSet(b) \cap S = {}
    BY <2>0
  <2> DEFINE o == <<e>>
             c == o \o t
  <2>2. o \in Seq(Node) /\ ToSet(o) = {e}
    BY SolidFront, OneRange
  <2> HIDE DEF o
  <2>3. c \in Seq(Node) /\ ToSet(c) = ToSet(o) \cup ToSet(t)
    BY <2>1, <2>2, JoinIs, JoinRange
  <2>4. c \o b = o \o (t \o b)
    <3>1. All3(Node, o, t, b)
      BY <2>1, <2>2 DEF All3
    <3> QED
      BY <3>1, Assoc
  <2>5. k[p] = a \o (c \o b)
    BY <1>5, <2>4 DEF Parts, o
  <2> HIDE DEF c
  <2>6. ToSet(c) \subseteq S
    BY <2>2, <2>3
  <2> HIDE DEF S, d
  <2>7. NotIn(a \o (c \o b), S) = a \o b
    BY <2>1, <2>3, <2>6, NotInMiddle
  <2> QED
    BY <1>3, <2>5, <2>7
<1> QED
  BY <1>1, <1>3, <1>4, <1>5

(* What ExtractIs says of the chains afterwards.                           *)
Extracted(k, e, d) ==
  /\ d \in Sound
  /\ \A q \in Parent : ToSet(d[q]) \subseteq ToSet(k[q])
  /\ \A q \in Parent : e \notin ToSet(k[q]) => d[q] = k[q]
  /\ \A p \in Parent : \A a, b \in Seq(Node) : Parts(k[p], a, e, TailRun(k, e) \o b) => d[p] = a \o b

LEMMA ExtractedIs ==
  ASSUME NEW k \in Sound, NEW e \in Elem
  PROVE  Extracted(k, e, Extract(k, e))
<1> DEFINE d == Extract(k, e)
           S == {e} \cup ToSet(TailRun(k, e))
<1>1. /\ d \in Sound
      /\ \A q \in Parent : ToSet(d[q]) = ToSet(k[q]) \ S
      /\ \A q \in Parent : e \notin ToSet(k[q]) => d[q] = k[q]
      /\ \A p \in Parent : \A a, b \in Seq(Node) : Parts(k[p], a, e, TailRun(k, e) \o b) => d[p] = a \o b
  BY ExtractIs
<1> HIDE DEF d, S
<1>2. Extracted(k, e, d)
  BY <1>1 DEF Extracted
<1> QED
  BY <1>2 DEF d

LEMMA ExtractShows ==
  ASSUME NEW k \in Sound, NEW e \in Elem
  PROVE  View(Extract(k, e)) = Without(View(k), {e})
<1> DEFINE t == TailRun(k, e)
           d == Extract(k, e)
<1>1. /\ d \in Sound /\ t \in Seq(Text)
      /\ \A q \in Parent : e \notin ToSet(k[q]) => d[q] = k[q]
      /\ \A p \in Parent : \A a, b \in Seq(Node) : Parts(k[p], a, e, t \o b) => d[p] = a \o b
  BY ExtractIs
<1>2. ASSUME NEW q \in Parent
      PROVE  Lead(d[q]) = Lead(k[q]) /\ Row(d[q]) = Keeping(Row(k[q]), {e})
  <2>1. k[q] \in Plain /\ d[q] \in Plain
    BY <1>1, SoundPlain
  <2>2. CASE e \notin ToSet(k[q])
    <3>1. d[q] = k[q]
      BY <1>1, <2>2
    <3>2. Row(k[q]) \in Seq(ItemSet) /\ \A x \in ToSet(Row(k[q])) : x.el \notin {e}
      BY <2>1, <2>2, RowIs, RowEls
    <3>3. Keeping(Row(k[q]), {e}) = Row(k[q])
      BY <3>2, KeepingIs
    <3> QED
      BY <3>1, <3>3
  <2>3. CASE e \in ToSet(k[q])
    <3>1. PICK a \in Seq(Node), b \in Seq(Node) : Parts(k[q], a, e, t \o b) /\ Solid(b)
      BY <2>3, BlockIs
    <3>2. d[q] = a \o b
      BY <1>1, <3>1
    <3> HIDE DEF d, t
    <3>3. /\ Entry(e, t) \in ItemSet /\ Row(a) \in Seq(ItemSet) /\ Row(b) \in Seq(ItemSet)
          /\ a \in Plain /\ b \in Plain
          /\ Parts(Row(k[q]), Row(a), Entry(e, t), Row(b))
          /\ Lead(k[q]) = Lead(a)
      BY <1>1, <2>1, <3>1, RowBlock
    <3>4. e \notin ToSet(a) /\ e \notin ToSet(b)
      BY <1>1, <3>1, TailApart
    <3>5. \A y \in ToSet(Row(a)) \cup ToSet(Row(b)) : y.el \notin {e}
      BY <3>3, <3>4, RowEls
    <3>6. Entry(e, t).el \in {e}
      BY DEF Entry
    <3>7. Keeping(Row(k[q]), {e}) = Row(a) \o Row(b)
      <4> DEFINE x == Entry(e, t)
                 r == Row(a)
                 u == Row(b)
                 w == Row(k[q])
                 S == {e}
      <4>1. /\ x \in ItemSet /\ r \in Seq(ItemSet) /\ u \in Seq(ItemSet) /\ Parts(w, r, x, u)
            /\ x.el \in S /\ \A y \in ToSet(r) \cup ToSet(u) : y.el \notin S
        BY <3>3, <3>5, <3>6
      <4> HIDE DEF x, r, u, w, S
      <4>2. Keeping(w, S) = r \o u
        BY <4>1, KeepingMiddle
      <4> QED
        BY <4>2 DEF w, r, u, S
    <3>8. Row(a \o b) = Row(a) \o Row(b) /\ Lead(a \o b) = Lead(a)
      BY <2>1, <3>1, <3>2, RowJoin
    <3> QED
      BY <3>2, <3>3, <3>7, <3>8
  <2> QED
    BY <2>2, <2>3
<1>3. View(d) = [p \in Parent |-> [lead |-> Lead(d[p]), items |-> Row(d[p])]]
  BY <1>1, ViewIs
<1>4. Without(View(k), {e}) =
        [p \in Parent |-> [lead |-> Lead(k[p]), items |-> Keeping(Row(k[p]), {e})]]
  BY WithoutIs
<1> QED
  BY <1>2, <1>3, <1>4

-----------------------------------------------------------------------------
(* Native inserts of nodes that have no place.                             *)

Homeless(k, S) == \A q \in Parent : ToSet(k[q]) \cap S = {}

LEMMA DetachNothing ==
  ASSUME NEW k \in Sound, NEW S, Homeless(k, S)
  PROVE  DetachAll(k, S) = k
<1>1. \A q \in Parent : NotIn(k[q], S) = k[q]
  BY SoundPlain, NotInSome DEF Homeless
<1>2. k = [q \in Parent |-> k[q]]
  BY DEF Sound
<1> QED
  BY <1>1, <1>2 DEF DetachAll

LEMMA InsertInto ==
  ASSUME NEW X, NEW a \in Seq(X), NEW x \in X, NEW b \in Seq(X)
  PROVE  Parts(InsertAt(a \o b, Len(a) + 1, x), a, x, b)
<1> DEFINE s == a \o b
           i == Len(a) + 1
           t == InsertAt(s, i, x)
           r == a \o (<<x>> \o b)
<1>1. /\ s \in Seq(X) /\ Len(a) \in Nat /\ Len(b) \in Nat /\ Len(s) = Len(a) + Len(b)
      /\ \A j \in 1..Len(a) : s[j] = a[j]
      /\ \A j \in 1..Len(b) : s[Len(a) + j] = b[j]
  BY JoinIs
<1> HIDE DEF s
<1>2. i \in 1..(Len(s) + 1) /\ i - 1 = Len(a) /\ i \in Nat
  <2>1. Len(a) \in Nat /\ Len(b) \in Nat /\ Len(s) = Len(a) + Len(b)
    BY <1>1
  <2> QED
    BY <2>1
<1>s. s \in Seq(X)
  BY <1>1
<1>3. i = Len(a) + 1
  OBVIOUS
<1> HIDE DEF i
<1>4. /\ t \in Seq(X) /\ DOMAIN t = 1..(Len(s) + 1)
      /\ \A j \in 1..(i - 1) : t[j] = s[j]
      /\ t[i] = x
      /\ \A j \in i..Len(s) : t[j + 1] = s[j]
  BY <1>s, <1>2, Inserted
<1> HIDE DEF t
<1>5. /\ r \in Seq(X) /\ Len(r) = Len(a) + 1 + Len(b)
      /\ \A j \in 1..Len(a) : r[j] = a[j]
      /\ r[Len(a) + 1] = x
      /\ \A j \in 1..Len(b) : r[Len(a) + 1 + j] = b[j]
  <2>1. Parts(r, a, x, b)
    BY DEF Parts
  <2> HIDE DEF r
  <2> QED
    BY <2>1, PartsAre
<1> HIDE DEF r
<1>6. Len(t) = Len(r)
  <2>1. Len(t) = Len(s) + 1
    BY <1>1, <1>4
  <2> QED
    BY <1>1, <1>5, <2>1
<1>7. \A j \in 1..Len(t) : t[j] = r[j]
  <2> SUFFICES ASSUME NEW j \in 1..Len(t) PROVE t[j] = r[j]
    OBVIOUS
  <2>0. j \in 1..(Len(a) + 1 + Len(b))
    BY <1>5, <1>6
  <2>1. CASE j \in 1..Len(a)
    BY <1>1, <1>2, <1>4, <1>5, <2>1
  <2>2. CASE j = Len(a) + 1
    BY <1>3, <1>4, <1>5, <2>2
  <2>3. CASE j \notin 1..Len(a) /\ j # Len(a) + 1
    <3>1. PICK h \in 1..Len(b) : j = Len(a) + 1 + h
      <4>1. j - (Len(a) + 1) \in 1..Len(b) /\ j = Len(a) + 1 + (j - (Len(a) + 1))
        BY <1>1, <2>0, <2>3
      <4> QED
        BY <4>1
    <3>2. Len(a) + h \in i..Len(s) /\ (Len(a) + h) + 1 = j
      BY <1>1, <1>3, <3>1
    <3>3. t[(Len(a) + h) + 1] = s[Len(a) + h]
      BY <1>4, <3>2
    <3> QED
      BY <1>1, <1>5, <3>1, <3>2, <3>3
  <2> QED
    BY <2>1, <2>2, <2>3
<1>8. t = r
  BY <1>4, <1>5, <1>6, <1>7, SameSeq
<1> QED
  BY <1>8 DEF t, r, s, i, Parts

(* d is k but for the chain of p, which is s.                              *)
Becomes(k, d, p, s) ==
  d \in Sound /\ d[p] = s /\ \A q \in Parent : q # p => d[q] = k[q]

LEMMA InsertsSound ==
  ASSUME NEW k \in Sound, NEW p \in Parent, NEW n \in Node, NEW ref
  PROVE  /\ InsertBefore(k, p, n, ref) \in Sound
         /\ InsertAfter(k, p, n, ref) \in Sound
         /\ AppendChild(k, p, n) \in Sound
BY InsertsMove, AppendChildMoves, UnmovedSound

LEMMA HomelessOne ==
  ASSUME NEW k, NEW n, \A q \in Parent : n \notin ToSet(k[q])
  PROVE  Homeless(k, {n})
BY DEF Homeless

LEMMA AppendIs ==
  ASSUME NEW k \in Sound, NEW p \in Parent, NEW n \in Node, Homeless(k, {n})
  PROVE  Becomes(k, AppendChild(k, p, n), p, k[p] \o <<n>>)
<1> DEFINE d == AppendChild(k, p, n)
<1>1. DetachAll(k, {n}) = k
  BY DetachNothing
<1>2. d = [k EXCEPT ![p] = Append(@, n)]
  BY <1>1 DEF AppendChild
<1>3. k \in [Parent -> Chain] /\ k[p] \in Seq(Node)
  BY SoundPlain DEF Sound
<1>4. Append(k[p], n) = k[p] \o <<n>>
  BY <1>3
<1>5. d \in Sound
  BY InsertsSound
<1>6. d[p] = k[p] \o <<n>> /\ \A q \in Parent : q # p => d[q] = k[q]
  BY <1>2, <1>3, <1>4
<1> QED
  BY <1>5, <1>6 DEF Becomes

LEMMA PosInParts ==
  ASSUME NEW k \in Sound, NEW p \in Parent, NEW a \in Seq(Node), NEW ref \in Node,
         NEW b \in Seq(Node), Parts(k[p], a, ref, b)
  PROVE  p \in Homes(k, ref) /\ Pos(k[p], ref) = Len(a) + 1
<1>1. /\ k[p] \in Plain /\ ToSet(k[p]) = ToSet(a) \cup {ref} \cup ToSet(b)
      /\ DOMAIN k[p] = 1..(Len(a) + 1 + Len(b)) /\ Len(a) \in Nat /\ Len(b) \in Nat
      /\ k[p][Len(a) + 1] = ref
  BY SoundPlain, PartsAre
<1>2. Len(a) + 1 \in DOMAIN k[p]
  BY <1>1
<1>3. Pos(k[p], ref) = Len(a) + 1
  BY <1>1, <1>2, PosOnly
<1> QED
  BY <1>1, <1>3 DEF Homes

LEMMA InsertBeforeIs ==
  ASSUME NEW k \in Sound, NEW p \in Parent, NEW n \in Node, Homeless(k, {n}),
         NEW a \in Seq(Node), NEW ref \in Node, NEW b \in Seq(Node), Parts(k[p], a, ref, b)
  PROVE  Becomes(k, InsertBefore(k, p, n, ref), p, a \o (<<n>> \o (<<ref>> \o b)))
<1> DEFINE d == InsertBefore(k, p, n, ref)
           o == <<ref>>
           c == o \o b
<1>1. DetachAll(k, {n}) = k
  BY DetachNothing
<1>2. p \in Homes(k, ref) /\ Pos(k[p], ref) = Len(a) + 1
  BY PosInParts
<1>3. k \in [Parent -> Chain]
  BY DEF Sound
<1>4. d = [k EXCEPT ![p] = InsertAt(k[p], Len(a) + 1, n)]
  BY <1>1, <1>2, <1>3 DEF InsertBefore
<1>5. d \in Sound
  BY InsertsSound
<1> HIDE DEF d
<1>6. o \in Seq(Node)
  BY OneIs
<1> HIDE DEF o
<1>7. c \in Seq(Node)
  BY <1>6, JoinIs
<1>8. k[p] = a \o c
  BY DEF Parts, c, o
<1> HIDE DEF c
<1>9. Parts(InsertAt(a \o c, Len(a) + 1, n), a, n, c)
  BY <1>7, InsertInto
<1>10. d[p] = a \o (<<n>> \o c) /\ \A q \in Parent : q # p => d[q] = k[q]
  BY <1>3, <1>4, <1>8, <1>9 DEF Parts
<1> QED
  BY <1>5, <1>10 DEF Becomes, c, o, d

LEMMA InsertAfterIs ==
  ASSUME NEW k \in Sound, NEW p \in Parent, NEW n \in Node, Homeless(k, {n}),
         NEW a \in Seq(Node), NEW ref \in Node, NEW b \in Seq(Node), Parts(k[p], a, ref, b)
  PROVE  Becomes(k, InsertAfter(k, p, n, ref), p, a \o (<<ref>> \o (<<n>> \o b)))
<1> DEFINE d == InsertAfter(k, p, n, ref)
           o == <<ref>>
           c == a \o o
           m == <<n>>
<1>1. DetachAll(k, {n}) = k
  BY DetachNothing
<1>2. p \in Homes(k, ref) /\ Pos(k[p], ref) = Len(a) + 1
  BY PosInParts
<1>3. k \in [Parent -> Chain]
  BY DEF Sound
<1>4. d = [k EXCEPT ![p] = InsertAt(k[p], Len(a) + 1 + 1, n)]
  BY <1>1, <1>2, <1>3 DEF InsertAfter
<1>5. d \in Sound
  BY InsertsSound
<1> HIDE DEF d
<1>6. o \in Seq(Node) /\ m \in Seq(Node) /\ Len(o) = 1
  BY OneIs
<1> HIDE DEF o, m
<1>7. c \in Seq(Node) /\ Len(c) = Len(a) + Len(o)
  BY <1>6, JoinIs
<1>8. c \o b = a \o (o \o b)
  <2>1. All3(Node, a, o, b)
    BY <1>6 DEF All3
  <2> QED
    BY <2>1, Assoc
<1>9. k[p] = c \o b
  BY <1>8 DEF Parts, o
<1>10. c \o (m \o b) = a \o (o \o (m \o b))
  <2>1. m \o b \in Seq(Node)
    BY <1>6, JoinIs
  <2> DEFINE h == m \o b
  <2> HIDE DEF h
  <2>2. h \in Seq(Node)
    BY <2>1 DEF h
  <2>o. o \in Seq(Node)
    BY <1>6
  <2>3. (a \o o) \o h = a \o (o \o h)
    <3>1. All3(Node, a, o, h)
      BY <2>o, <2>2 DEF All3
    <3> QED
      BY <3>1, Assoc
  <2> QED
    BY <2>3 DEF h, c
<1> HIDE DEF c
<1>c. c \in Seq(Node) /\ Len(c) = Len(a) + 1
  BY <1>6, <1>7
<1>11. Parts(InsertAt(c \o b, Len(c) + 1, n), c, n, b)
  BY <1>c, InsertInto
<1>12. d[p] = c \o (m \o b) /\ \A q \in Parent : q # p => d[q] = k[q]
  BY <1>3, <1>4, <1>9, <1>c, <1>11 DEF Parts, m
<1> QED
  BY <1>5, <1>10, <1>12 DEF Becomes, o, m, d

LEMMA PlainFront ==
  ASSUME NEW e \in Elem, NEW t \in Seq(Text), t \in Plain
  PROVE  <<e>> \o t \in Plain
<1> DEFINE o == <<e>>
           s == o \o t
<1>1. t \in Seq(Node) /\ \A i \in 1..Len(t) : t[i] \in Text
  BY TextNodes
<1>e. e \in Node /\ e \notin Text
  BY ChildListAssumption DEF Node
<1>2. o \in Seq(Node) /\ Len(o) = 1 /\ o[1] = e /\ e \notin Text
  BY <1>e, OneIs
<1> HIDE DEF o
<1>o. o \in Seq(Node) /\ t \in Seq(Node)
  BY <1>1, <1>2
<1>3. /\ s \in Seq(Node) /\ Len(t) \in Nat /\ DOMAIN t = 1..Len(t)
      /\ DOMAIN s = 1..(Len(o) + Len(t))
      /\ \A i \in 1..Len(o) : s[i] = o[i]
      /\ \A i \in 1..Len(t) : s[Len(o) + i] = t[i]
  BY <1>o, JoinIs
<1> HIDE DEF s
<1>4. \A i \in DOMAIN s : i # 1 => i - 1 \in 1..Len(t) /\ s[i] = t[i - 1] /\ i \in Int
  <2> SUFFICES ASSUME NEW i \in DOMAIN s, i # 1
               PROVE  i - 1 \in 1..Len(t) /\ s[i] = t[i - 1] /\ i \in Int
    OBVIOUS
  <2>1. i - 1 \in 1..Len(t) /\ Len(o) + (i - 1) = i /\ i \in Int
    BY <1>2, <1>3
  <2>2. s[Len(o) + (i - 1)] = t[i - 1]
    BY <1>3, <2>1
  <2> QED
    BY <2>1, <2>2
<1>5. s[1] = e
  BY <1>2, <1>3
<1>6. ASSUME NEW i \in DOMAIN s, NEW j \in DOMAIN s, s[i] = s[j] PROVE i = j
  <2>1. CASE i = 1 \/ j = 1
    BY <1>1, <1>2, <1>4, <1>5, <1>6, <2>1
  <2>2. CASE i # 1 /\ j # 1
    <3>1. t[i - 1] = t[j - 1] /\ i - 1 \in DOMAIN t /\ j - 1 \in DOMAIN t
      BY <1>3, <1>4, <1>6, <2>2
    <3>2. i - 1 = j - 1
      BY <3>1 DEF Plain
    <3> QED
      BY <1>4, <2>2, <3>2
  <2> QED
    BY <2>1, <2>2
<1> QED
  BY <1>3, <1>6 DEF Plain, s, o

LEMMA LastOf ==
  ASSUME NEW X, NEW z \in Seq(X), z # <<>>
  PROVE  z[Len(z)] \in X /\ \E y \in Seq(X) : z = y \o <<z[Len(z)]>>
<1>1. Len(z) \in 1..Len(z)
  OBVIOUS
<1>2. z[Len(z)] \in X
  BY <1>1
<1> DEFINE x == z[Len(z)]
<1>3. PICK y \in Seq(X), c \in Seq(X) : Parts(z, y, x, c) /\ Len(y) + 1 = Len(z)
  BY <1>1, SplitAt
<1>x. x \in X
  BY <1>2
<1> HIDE DEF x
<1>4. Len(z) = Len(y) + 1 + Len(c) /\ Len(y) \in Nat /\ Len(c) \in Nat
  BY <1>x, <1>3, PartsAre
<1>5. c = <<>>
  <2>1. Len(c) = 0
    BY <1>3, <1>4
  <2> QED
    BY <2>1
<1>6. <<x>> \in Seq(X)
  BY <1>x, OneIs
<1>7. <<x>> \o <<>> = <<x>>
  BY <1>6, JoinEmpty
<1>8. z = y \o <<x>>
  BY <1>3, <1>5, <1>7 DEF Parts
<1> QED
  BY <1>2, <1>8 DEF x

LEMMA Regroup ==
  ASSUME NEW X, NEW a, NEW y, NEW o, NEW b, All3(X, a, y, o), b \in Seq(X)
  PROVE  (a \o y) \o (o \o b) = a \o ((y \o o) \o b)
<1> DEFINE ob == o \o b
<1>1. All3(X, y, o, b)
  BY DEF All3
<1>2. (y \o o) \o b = y \o ob /\ ob \in Seq(X)
  BY <1>1, Assoc
<1> HIDE DEF ob
<1>3. All3(X, a, y, ob)
  BY <1>2 DEF All3
<1>4. (a \o y) \o ob = a \o (y \o ob)
  BY <1>3, Assoc
<1> QED
  BY <1>2, <1>4 DEF ob

All5(X, a, y, o, m, b) == All3(X, a, y, o) /\ All3(X, o, m, b)

Regrouped(a, y, o, m, b) == (a \o y) \o (o \o (m \o b)) = a \o (((y \o o) \o m) \o b)

LEMMA RegroupMore ==
  ASSUME NEW X, NEW a, NEW y, NEW o, NEW m, NEW b, All5(X, a, y, o, m, b)
  PROVE  Regrouped(a, y, o, m, b)
<1> DEFINE mb == m \o b
           yo == y \o o
<1>0. All3(X, a, y, o) /\ All3(X, o, m, b)
  BY DEF All5
<1>1. mb \in Seq(X)
  BY <1>0, Assoc
<1>2. yo \in Seq(X)
  BY <1>0, Assoc
<1> HIDE DEF yo
<1>3. (yo \o m) \o b = yo \o mb
  <2>1. All3(X, yo, m, b)
    BY <1>0, <1>2 DEF All3
  <2> QED
    BY <2>1, Assoc
<1> HIDE DEF mb
<1>4. (a \o y) \o (o \o mb) = a \o ((y \o o) \o mb)
  <2>1. All3(X, a, y, o)
    BY <1>0
  <2> QED
    BY <1>1, <2>1, Regroup
<1> QED
  BY <1>3, <1>4 DEF mb, yo, Regrouped

LEMMA AroundLast ==
  ASSUME NEW X, NEW a, NEW y, NEW b, All3(X, a, y, b), NEW x \in X
  PROVE  Parts(a \o ((y \o <<x>>) \o b), a \o y, x, b)
<1> DEFINE o == <<x>>
<1>1. o \in Seq(X)
  BY OneIs
<1> HIDE DEF o
<1>2. All3(X, a, y, o) /\ b \in Seq(X)
  BY <1>1 DEF All3
<1>3. (a \o y) \o (o \o b) = a \o ((y \o o) \o b)
  BY <1>2, Regroup
<1> QED
  BY <1>3, Zenon DEF Parts, o

LEMMA AfterLast ==
  ASSUME NEW k \in Sound, NEW p \in Parent, NEW n \in Node, Homeless(k, {n}),
         NEW a \in Seq(Node), NEW z \in Seq(Node), z # <<>>, NEW b \in Seq(Node),
         k[p] = a \o (z \o b)
  PROVE  Becomes(k, InsertAfter(k, p, n, z[Len(z)]), p, a \o ((z \o <<n>>) \o b))
<1> DEFINE ref == z[Len(z)]
<1>1. ref \in Node /\ \E y \in Seq(Node) : z = y \o <<ref>>
  BY LastOf
<1> HIDE DEF ref
<1>2. PICK y \in Seq(Node) : z = y \o <<ref>>
  BY <1>1
<1> DEFINE ay == a \o y
<1>r. ref \in Node
  BY <1>1
<1>y. All3(Node, a, y, b)
  BY DEF All3
<1>s. a \o y \in Seq(Node)
  BY <1>y, Assoc
<1>t. Parts(a \o ((y \o <<ref>>) \o b), a \o y, ref, b)
  BY <1>r, <1>y, AroundLast, Zenon
<1>u. (a \o y) \o (<<ref>> \o (<<n>> \o b)) = a \o (((y \o <<ref>>) \o <<n>>) \o b)
  <2> DEFINE o == <<ref>>
             m == <<n>>
  <2>1. o \in Seq(Node) /\ m \in Seq(Node)
    BY <1>r, OneIs
  <2> HIDE DEF o, m
  <2>2. All5(Node, a, y, o, m, b)
    BY <1>y, <2>1 DEF All3, All5
  <2>3. Regrouped(a, y, o, m, b)
    BY <2>2, RegroupMore
  <2> QED
    BY <2>3 DEF o, m, Regrouped
<1>3. /\ ay \in Seq(Node)
      /\ Parts(a \o ((y \o <<ref>>) \o b), ay, ref, b)
      /\ ay \o (<<ref>> \o (<<n>> \o b)) = a \o (((y \o <<ref>>) \o <<n>>) \o b)
  BY <1>s, <1>t, <1>u
<1>4. Parts(k[p], ay, ref, b)
  BY <1>2, <1>3
<1> HIDE DEF ay
<1>5. Becomes(k, InsertAfter(k, p, n, ref), p, ay \o (<<ref>> \o (<<n>> \o b)))
  BY <1>1, <1>3, <1>4, InsertAfterIs
<1>6. ay \o (<<ref>> \o (<<n>> \o b)) = a \o ((z \o <<n>>) \o b)
  BY <1>2, <1>3
<1> QED
  BY <1>5, <1>6 DEF ref

LEMMA BecomesThen ==
  ASSUME NEW k, NEW d, NEW p, NEW s, Becomes(k, d, p, s), NEW c, NEW r, Becomes(d, c, p, r)
  PROVE  Becomes(k, c, p, r)
BY DEF Becomes

(* A tail is put behind its element.                                       *)
LEMMA AttachTailIs ==
  ASSUME NEW k \in Sound, NEW p \in Parent, NEW e \in Elem,
         NEW tail \in Seq(Text), tail \in Plain, Homeless(k, ToSet(tail)),
         NEW a \in Seq(Node), NEW b \in Seq(Node), Parts(k[p], a, e, b)
  PROVE  Becomes(k, AttachTail(k, p, tail, e), p, a \o (<<e>> \o (tail \o b)))
<1> DEFINE n == Len(tail)
           X == [k : Sound, ref : Node]
           base == [k |-> k, ref |-> e]
           op(acc, t) == [k |-> InsertAfter(acc.k, p, t, acc.ref), ref |-> t]
           step == [i \in 1..n |-> [acc \in X |-> op(acc, tail[i])]]
           Is(it) == it = [T \in SUBSET DOMAIN tail |->
                             IF T = {} THEN base ELSE op(it[T \ {Max(T)}], tail[Max(T)])]
           iter == CHOOSE it : Is(it)
<1>1. n \in Nat /\ DOMAIN tail = 1..n /\ \A i \in 1..n : tail[i] \in Node /\ tail[i] \in ToSet(tail)
  BY DEF ToSet, Node
<1>2. AttachTail(k, p, tail, e) = iter[DOMAIN tail].k
  BY DEF AttachTail, FoldLeft, MapThenFoldSet
<1>e. e \in Node
  BY DEF Node
<1>3. base \in X
  BY <1>e
<1>4. ASSUME NEW acc \in X, NEW i \in 1..n PROVE op(acc, tail[i]) \in X
  <2>1. acc.k \in Sound
    OBVIOUS
  <2>2. InsertAfter(acc.k, p, tail[i], acc.ref) \in Sound
    BY <1>1, <2>1, InsertsSound
  <2> QED
    BY <1>1, <2>2
<1> HIDE DEF n
<1>x. X = [k : Sound, ref : Node] /\ base.k = k /\ base.ref = e
  OBVIOUS
<1> HIDE DEF X, base
<1>5. step \in [1..n -> [X -> X]] /\ \A i \in 1..n, acc \in X : step[i][acc] = op(acc, tail[i])
  BY <1>4
<1>o. \A acc, t : op(acc, t).k = InsertAfter(acc.k, p, t, acc.ref) /\ op(acc, t).ref = t
  OBVIOUS
<1> HIDE DEF op, step
<1>6. PICK F : Folding(F, X, n, base, step)
  BY <1>1, <1>3, <1>5, FoldExists
<1>7. Is(F)
  <2>1. /\ F \in [SUBSET (1..n) -> X] /\ F[{}] = base
        /\ \A T \in SUBSET (1..n) : T # {} => F[T] = step[Max(T)][F[T \ {Max(T)}]]
    BY <1>6 DEF Folding
  <2>2. \A T \in SUBSET (1..n) : T # {} => F[T] = op(F[T \ {Max(T)}], tail[Max(T)])
    BY <1>1, <1>5, <2>1, LastPlace
  <2> QED
    BY <1>1, <2>1, <2>2
<1>8. Is(iter)
  BY <1>7
<1> HIDE DEF iter
<1>9. /\ iter[{}] = base
      /\ \A T \in SUBSET (1..n) : T # {} => iter[T] = op(iter[T \ {Max(T)}], tail[Max(T)])
  BY <1>1, <1>8
<1>10. Unfolds(iter, X, n, base, step)
  BY <1>1, <1>5, <1>9, LastPlace DEF Unfolds
<1> DEFINE f == ValuesOf(iter, n)
<1>11. /\ f \in [0..n -> X] /\ f[0] = base /\ f[n] = iter[1..n]
       /\ \A i \in 1..n : f[i] = step[i][f[i - 1]]
  <2>1. Loop(ValuesOf(iter, n), X, n, base, step)
    BY <1>1, <1>3, <1>5, <1>10, FoldIsLoop
  <2>2. f[n] = iter[1..n]
    BY <1>1 DEF ValuesOf
  <2> QED
    BY <2>1, <2>2 DEF Loop
<1> HIDE DEF f
<1>12. \A i \in 1..n : /\ f[i - 1] \in X
                       /\ f[i].k = InsertAfter(f[i - 1].k, p, tail[i], f[i - 1].ref)
                       /\ f[i].ref = tail[i]
  <2>1. \A i \in 1..n : i - 1 \in 0..n
    BY <1>1
  <2>2. \A i \in 1..n : f[i - 1] \in X
    BY <1>11, <2>1
  <2>3. \A i \in 1..n : f[i] = op(f[i - 1], tail[i])
    BY <1>5, <1>11, <2>2
  <2> QED
    BY <1>o, <2>2, <2>3
<1> DEFINE o == <<e>>
           w == o \o tail
           Done(i, z, v) == /\ w = z \o v /\ Len(z) = i + 1 /\ f[i].ref = z[i + 1]
                            /\ Becomes(k, f[i].k, p, a \o (z \o b))
           G == {i \in 0..n : \E z, v \in Seq(Node) : Done(i, z, v)}
<1>13. o \in Seq(Node) /\ Len(o) = 1 /\ o[1] = e
  BY <1>e, OneIs
<1>14. w \in Plain /\ k[p] = a \o (o \o b)
  BY PlainFront DEF Parts
<1> HIDE DEF o
<1>t. tail \in Seq(Node)
  BY TextNodes
<1>15. /\ Len(w) = 1 + n
       /\ \A i \in 1..n : w[1 + i] = tail[i]
  <2>1. Len(w) = Len(o) + Len(tail) /\ \A i \in 1..Len(tail) : w[Len(o) + i] = tail[i]
    <3>1. o \in Seq(Node)
      BY <1>13
    <3> QED
      BY <3>1, <1>t, JoinIs
  <2> HIDE DEF w
  <2> QED
    BY <1>13, <2>1 DEF n
<1>16. 0 \in G
  <2>1. Done(0, o, tail)
    <3>1. Becomes(k, k, p, a \o (o \o b))
      BY <1>14 DEF Becomes
    <3>2. f[0].k = k /\ f[0].ref = e
      BY <1>11, <1>x
    <3> QED
      BY <1>13, <3>1, <3>2
  <2> HIDE DEF Done
  <2> QED
    BY <1>1, <1>13, <1>t, <2>1
<1> HIDE DEF w
<1>17. ASSUME NEW i \in 1..n, i - 1 \in G PROVE i \in G
  <2>1. PICK z \in Seq(Node), v \in Seq(Node) : Done(i - 1, z, v)
    BY <1>17
  <2>2. /\ w = z \o v /\ Len(z) = i /\ f[i - 1].ref = z[i]
        /\ Becomes(k, f[i - 1].k, p, a \o (z \o b))
    <3>1. (i - 1) + 1 = i
      BY <1>1
    <3> QED
      BY <2>1, <3>1
  <2>3. /\ Len(z) + Len(v) = 1 + n /\ Len(v) \in Nat
        /\ \A j \in 1..Len(v) : w[Len(z) + j] = v[j]
    <3>1. Len(z \o v) = Len(z) + Len(v) /\ Len(v) \in Nat /\ \A j \in 1..Len(v) : (z \o v)[Len(z) + j] = v[j]
      BY JoinIs
    <3> QED
      BY <1>15, <2>2, <3>1, Zenon
  <2> DEFINE x == tail[i]
  <2>4. x \in Node /\ x \in ToSet(tail) /\ 1 \in 1..Len(v) /\ v[1] = x
    <3>1. 1 \in 1..Len(v) /\ Len(z) + 1 = 1 + i
      BY <1>1, <2>2, <2>3
    <3> QED
      BY <1>1, <1>15, <2>3, <3>1
  <2> HIDE DEF x
  <2>5. PICK y \in Seq(Node), u \in Seq(Node) : Parts(v, y, v[1], u) /\ Len(y) + 1 = 1
    BY <2>4, SplitAt
  <2> DEFINE m == <<x>>
  <2>6. m \in Seq(Node) /\ Len(m) = 1 /\ m[1] = x /\ ToSet(m) = {x}
    BY <2>4, OneIs, OneRange
  <2>7. v = m \o u
    <3>1. y = <<>>
      <4>1. Len(y) = 0
        BY <2>5
      <4> QED
        BY <4>1
    <3>2. m \o u \in Seq(Node)
      BY <2>6, JoinIs
    <3>3. <<>> \o (m \o u) = m \o u
      BY <3>2, JoinEmpty
    <3> QED
      BY <2>4, <2>5, <3>1, <3>3 DEF Parts
  <2> HIDE DEF m
  <2> DEFINE d == f[i - 1].k
             zm == z \o m
  <2>m. m \in Seq(Node)
    BY <2>6
  <2>8. zm \in Seq(Node) /\ Len(zm) = Len(z) + Len(m) /\ zm[Len(z) + 1] = x /\ w = zm \o u
    <3>1. zm \in Seq(Node) /\ Len(zm) = Len(z) + Len(m) /\ \A j \in 1..Len(m) : zm[Len(z) + j] = m[j]
      BY <2>m, JoinIs
    <3>2. (z \o m) \o u = z \o (m \o u)
      <4>1. Assoc3(z, m, u)
        <5>1. All3(Node, z, m, u)
          BY <2>m DEF All3
        <5> QED
          BY <5>1, AssocIs
      <4> QED
        BY <4>1, Zenon DEF Assoc3
    <3> HIDE DEF zm
    <3>3. zm[Len(z) + 1] = x
      BY <2>6, <3>1
    <3> QED
      BY <2>2, <2>7, <3>1, <3>2, <3>3 DEF zm
  <2>9. x \notin ToSet(z)
    <3>1. v \in Seq(Node) /\ z \o v \in Plain /\ x \in ToSet(v)
      <4>1. x \in ToSet(m) \cup ToSet(u)
        BY <2>6
      <4>2. ToSet(m \o u) = ToSet(m) \cup ToSet(u)
        BY <2>m, JoinRange
      <4> QED
        BY <1>14, <2>2, <2>7, <4>1, <4>2
    <3> QED
      BY <3>1, PlainJoin
  <2>10. d \in Sound /\ d[p] = a \o (z \o b) /\ \A q \in Parent : q # p => d[q] = k[q]
    BY <2>2 DEF Becomes
  <2> HIDE DEF d
  <2>11. Homeless(d, {x})
    <3>1. x \notin ToSet(a) /\ x \notin ToSet(b)
      <4>1. k[p] = a \o (o \o b) /\ Parts(k[p], a, e, b)
        BY <1>14
      <4>2. ToSet(k[p]) = ToSet(a) \cup {e} \cup ToSet(b)
        BY <1>e, PartsAre
      <4>3. x \notin ToSet(k[p])
        BY <2>4 DEF Homeless
      <4> QED
        BY <4>2, <4>3
    <3>2. ToSet(a \o (z \o b)) = ToSet(a) \cup (ToSet(z) \cup ToSet(b))
      <4> DEFINE h == z \o b
      <4>1. h \in Seq(Node) /\ ToSet(h) = ToSet(z) \cup ToSet(b)
        BY JoinIs, JoinRange
      <4> HIDE DEF h
      <4>2. ToSet(a \o h) = ToSet(a) \cup ToSet(h)
        BY <4>1, JoinRange
      <4> QED
        BY <4>1, <4>2 DEF h
    <3>3. ASSUME NEW q \in Parent PROVE x \notin ToSet(d[q])
      <4>1. CASE q = p
        BY <2>9, <2>10, <3>1, <3>2, <4>1
      <4>2. CASE q # p
        BY <2>4, <2>10, <4>2 DEF Homeless
      <4> QED
        BY <4>1, <4>2
    <3> QED
      BY <3>3 DEF Homeless
  <2>12. Becomes(d, InsertAfter(d, p, x, z[Len(z)]), p, a \o ((z \o <<x>>) \o b))
    <3>1. z # <<>>
      BY <1>1, <2>2
    <3> QED
      BY <2>4, <2>10, <2>11, <3>1, AfterLast
  <2>13. f[i].k = InsertAfter(d, p, x, z[Len(z)]) /\ f[i].ref = x
    BY <1>12, <2>2 DEF x, d
  <2>14. Becomes(k, d, p, a \o (z \o b))
    BY <2>2 DEF d
  <2>15. Becomes(k, f[i].k, p, a \o (zm \o b))
    BY <2>12, <2>13, <2>14, BecomesThen DEF zm, m
  <2> HIDE DEF zm
  <2>16. Len(zm) = i + 1 /\ zm[i + 1] = x
    BY <2>2, <2>6, <2>8
  <2>17. Done(i, zm, u)
    BY <2>8, <2>13, <2>15, <2>16
  <2> HIDE DEF Done
  <2>18. i \in 0..n
    BY <1>1
  <2> QED
    BY <2>8, <2>17, <2>18
<1>18. n \in G
  <2>1. 0..n \subseteq G
    <3> HIDE DEF G
    <3> QED
      BY <1>1, <1>16, <1>17, Induction
  <2>2. n \in 0..n
    BY <1>1
  <2> HIDE DEF G
  <2> QED
    BY <2>1, <2>2
<1>19. PICK z \in Seq(Node), v \in Seq(Node) : Done(n, z, v)
  BY <1>18
<1>20. v = <<>>
  <2>1. Len(z \o v) = Len(z) + Len(v) /\ Len(v) \in Nat
    BY JoinIs
  <2>2. Len(v) = 0
    BY <1>1, <1>15, <1>19, <2>1
  <2> QED
    BY <2>2
<1>21. z = w
  BY <1>19, <1>20, JoinEmpty
<1>22. (o \o tail) \o b = o \o (tail \o b)
  <2>1. o \in Seq(Node)
    BY <1>13
  <2> QED
    <3>1. All3(Node, o, tail, b)
      BY <1>t, <2>1 DEF All3
    <3> QED
      BY <3>1, Assoc
<1>23. Becomes(k, f[n].k, p, a \o (o \o (tail \o b)))
  BY <1>19, <1>21, <1>22 DEF w
<1>24. AttachTail(k, p, tail, e) = f[n].k
  BY <1>1, <1>2, <1>11
<1> QED
  BY <1>23, <1>24 DEF o

(* The place an anchor names: in front of it, or at the end of the chain.   *)
Anchored(s, a, ref, b) ==
  \/ ref = NoNode /\ b = <<>> /\ s = a
  \/ /\ ref \in Node
     /\ \E c \in Seq(Node) : Parts(s, a, ref, c) /\ b = <<ref>> \o c

LEMMA AnchoredIs ==
  ASSUME NEW a \in Seq(Node), NEW b \in Seq(Node), NEW s, NEW ref, Anchored(s, a, ref, b)
  PROVE  s = a \o b /\ ToSet(s) = ToSet(a) \cup ToSet(b)
<1>1. CASE ref = NoNode /\ b = <<>> /\ s = a
  <2>1. a \o <<>> = a
    BY JoinEmpty
  <2>2. ToSet(<<>>) = {}
    BY EmptyIs
  <2> QED
    BY <1>1, <2>1, <2>2
<1>2. CASE ref \in Node /\ \E c \in Seq(Node) : Parts(s, a, ref, c) /\ b = <<ref>> \o c
  <2>1. s = a \o b
    BY <1>2 DEF Parts
  <2>2. ToSet(a \o b) = ToSet(a) \cup ToSet(b)
    BY JoinRange
  <2> QED
    BY <2>1, <2>2
<1> QED
  BY <1>1, <1>2 DEF Anchored

Joined(s, a, b) == s = a \o b

Block(a, e, t, b) == a \o (<<e>> \o (t \o b))

(* An element and its tail, attached, stand at the place named.            *)
LEMMA AttachIs ==
  ASSUME NEW k \in Sound, NEW p \in Parent, NEW e \in Elem, Homeless(k, {e}),
         NEW t \in Seq(Text), t \in Plain, Homeless(k, ToSet(t)),
         NEW a \in Seq(Node), NEW b \in Seq(Node), NEW ref, Anchored(k[p], a, ref, b)
  PROVE  Becomes(k, Attach(k, p, e, t, ref), p, Block(a, e, t, b))
<1> DEFINE d == IF ref = NoNode THEN AppendChild(k, p, e) ELSE InsertBefore(k, p, e, ref)
<1>e. e \in Node /\ e \notin Text /\ NoNode \notin Node
  BY ChildListAssumption DEF Node
<1>1. Becomes(k, d, p, a \o (<<e>> \o b))
  <2>1. CASE ref = NoNode /\ b = <<>> /\ k[p] = a
    <3>1. Becomes(k, AppendChild(k, p, e), p, k[p] \o <<e>>)
      BY <1>e, AppendIs
    <3>2. <<e>> \o <<>> = <<e>>
      <4>1. <<e>> \in Seq(Node)
        BY <1>e, OneIs
      <4> QED
        BY <4>1, JoinEmpty
    <3> QED
      BY <2>1, <3>1, <3>2
  <2>2. CASE ref \in Node /\ \E c \in Seq(Node) : Parts(k[p], a, ref, c) /\ b = <<ref>> \o c
    <3>1. PICK c \in Seq(Node) : Parts(k[p], a, ref, c) /\ b = <<ref>> \o c
      BY <2>2
    <3>2. Becomes(k, InsertBefore(k, p, e, ref), p, a \o (<<e>> \o (<<ref>> \o c)))
      BY <1>e, <2>2, <3>1, InsertBeforeIs
    <3>3. ref # NoNode
      BY <1>e, <2>2
    <3> QED
      BY <3>1, <3>2, <3>3
  <2> QED
    BY <2>1, <2>2 DEF Anchored
<1> HIDE DEF d
<1>2. d \in Sound /\ Parts(d[p], a, e, b) /\ \A q \in Parent : q # p => d[q] = k[q]
  BY <1>1 DEF Becomes, Parts
<1>3. Homeless(d, ToSet(t))
  <2>1. ToSet(t) \subseteq Text
    BY TextNodes
  <2>2. ToSet(d[p]) = ToSet(a) \cup {e} \cup ToSet(b)
    BY <1>e, <1>2, PartsAre
  <2>3. ToSet(k[p]) = ToSet(a) \cup ToSet(b)
    BY AnchoredIs
  <2>4. ASSUME NEW q \in Parent PROVE ToSet(d[q]) \cap ToSet(t) = {}
    <3>1. ToSet(k[q]) \cap ToSet(t) = {}
      BY DEF Homeless
    <3>2. CASE q = p
      BY <1>e, <2>1, <2>2, <2>3, <3>1, <3>2
    <3>3. CASE q # p
      BY <1>2, <3>1, <3>3
    <3> QED
      BY <3>2, <3>3
  <2> QED
    BY <2>4 DEF Homeless
<1>4. Becomes(d, AttachTail(d, p, t, e), p, a \o (<<e>> \o (t \o b)))
  BY <1>2, <1>3, AttachTailIs
<1>5. Becomes(k, AttachTail(d, p, t, e), p, a \o (<<e>> \o (t \o b)))
  BY <1>1, <1>4, BecomesThen
<1> QED
  BY <1>5 DEF Attach, d, Block

LEMMA ItemsOf ==
  ASSUME NEW k \in Sound, NEW p \in Parent
  PROVE  View(k)[p] = [lead |-> Lead(k[p]), items |-> Row(k[p])] /\ View(k)[p].items = Row(k[p])
<1>1. View(k) = [q \in Parent |-> [lead |-> Lead(k[q]), items |-> Row(k[q])]]
  BY ViewIs
<1>2. View(k)[p] = [lead |-> Lead(k[p]), items |-> Row(k[p])]
  BY <1>1
<1> QED
  BY <1>2

WithItems(v, p, items) == [v EXCEPT ![p].items = items]

LEMMA ItemsChange ==
  ASSUME NEW k \in Sound, NEW d \in Sound, NEW p \in Parent,
         \A q \in Parent : q # p => d[q] = k[q], Lead(d[p]) = Lead(k[p])
  PROVE  View(d) = WithItems(View(k), p, Row(d[p]))
<1>1. View(k) = [q \in Parent |-> [lead |-> Lead(k[q]), items |-> Row(k[q])]]
  BY ViewIs
<1>2. View(d) = [q \in Parent |-> [lead |-> Lead(d[q]), items |-> Row(d[q])]]
  BY ViewIs
<1> DEFINE n == [View(k) EXCEPT ![p].items = Row(d[p])]
<1>3. DOMAIN n = Parent /\ n \in [Parent -> {n[q] : q \in Parent}]
  BY <1>1
<1>4. ASSUME NEW q \in Parent PROVE n[q] = [lead |-> Lead(d[q]), items |-> Row(d[q])]
  <2>1. CASE q = p
    BY <1>1, <2>1
  <2>2. CASE q # p
    BY <1>1, <2>2
  <2> QED
    BY <2>1, <2>2
<1> HIDE DEF n
<1>5. n = [q \in Parent |-> n[q]]
  BY <1>3
<1>6. n = [q \in Parent |-> [lead |-> Lead(d[q]), items |-> Row(d[q])]]
  BY <1>4, <1>5
<1> QED
  BY <1>2, <1>6 DEF n, WithItems

(* How the placed element is presented.                                    *)
LEMMA PlacedShows ==
  ASSUME NEW k \in Sound, NEW p \in Parent, NEW e \in Elem, NEW t \in Seq(Text),
         NEW a \in Seq(Node), NEW b \in Seq(Node), Solid(b), Joined(k[p], a, b),
         NEW d, Becomes(k, d, p, Block(a, e, t, b))
  PROVE  View(d) = WithItems(View(k), p, InsertAt(Row(k[p]), Len(Row(a)) + 1, Entry(e, t)))
<1> DEFINE x == Entry(e, t)
           ra == Row(a)
           rb == Row(b)
<1>1. d \in Sound /\ d[p] = a \o (<<e>> \o (t \o b)) /\ \A q \in Parent : q # p => d[q] = k[q]
  BY DEF Becomes, Block
<1>2. d[p] \in Plain /\ k[p] \in Plain
  BY <1>1, SoundPlain
<1>3. t \o b \in Seq(Node)
  <2>1. t \in Seq(Node)
    BY TextNodes
  <2> QED
    BY <2>1, JoinIs
<1>4. Parts(d[p], a, e, t \o b)
  BY <1>1 DEF Parts
<1>5. /\ x \in ItemSet /\ ra \in Seq(ItemSet) /\ rb \in Seq(ItemSet)
      /\ Parts(Row(d[p]), ra, x, rb) /\ Lead(d[p]) = Lead(a)
  BY <1>2, <1>4, RowBlock
<1>6. Row(k[p]) = ra \o rb /\ Lead(k[p]) = Lead(a)
  BY <1>2, RowJoin DEF Joined
<1> HIDE DEF x, ra, rb
<1>7. Parts(InsertAt(ra \o rb, Len(ra) + 1, x), ra, x, rb)
  BY <1>5, InsertInto
<1>8. Row(d[p]) = InsertAt(ra \o rb, Len(ra) + 1, x)
  BY <1>5, <1>7 DEF Parts
<1> DEFINE new == InsertAt(Row(k[p]), Len(ra) + 1, x)
<1>9. Row(d[p]) = new /\ Lead(d[p]) = Lead(k[p])
  BY <1>5, <1>6, <1>8
<1> HIDE DEF new
<1>10. View(d) = WithItems(View(k), p, new)
  <2>1. View(d) = WithItems(View(k), p, Row(d[p]))
    <3>1. d \in Sound /\ \A q \in Parent : q # p => d[q] = k[q]
      BY <1>1
    <3>2. Lead(d[p]) = Lead(k[p])
      BY <1>9
    <3> QED
      BY <3>1, <3>2, ItemsChange, Zenon
  <2> QED
    BY <1>9, <2>1
<1> QED
  BY <1>10 DEF new, x, ra

(* The entries a view lists for an element, of which there is at most one. *)
Its(v, e) == {x \in UNION {ToSet(Items(v, q)) : q \in DOMAIN v} : x.el = e}

LEMMA ListedFrom ==
  ASSUME NEW v, NEW e
  PROVE  Listed(v, e) = (IF Its(v, e) = {} THEN Entry(e, <<>>) ELSE CHOOSE x \in Its(v, e) : TRUE)
BY DEF Listed, Its

FirstOf(I, e) == IF I = {} THEN Entry(e, <<>>) ELSE CHOOSE x \in I : TRUE

LEMMA ListedFirst ==
  ASSUME NEW v, NEW e
  PROVE  Listed(v, e) = FirstOf(Its(v, e), e)
BY ListedFrom DEF FirstOf

LEMMA ItsOf ==
  ASSUME NEW k \in Sound, NEW e
  PROVE  \A x : x \in Its(View(k), e) <=> x.el = e /\ \E q \in Parent : x \in ToSet(Row(k[q]))
<1>1. DOMAIN View(k) = Parent
  BY ViewIs
<1>2. \A q \in Parent : Items(View(k), q) = Row(k[q])
  BY ItemsOf DEF Items
<1> QED
  BY <1>1, <1>2 DEF Its

LEMMA ListedIs ==
  ASSUME NEW k \in Sound, NEW e \in Elem
  PROVE  /\ Listed(View(k), e) = Entry(e, TailRun(k, e))
         /\ TailRun(k, e) \in Seq(Text)
<1>1. CASE \A q \in Parent : e \notin ToSet(k[q])
  <2>1. TailRun(k, e) = <<>>
    BY <1>1, HomelessIs
  <2>2. ASSUME NEW q \in Parent, NEW x \in ToSet(Row(k[q])) PROVE x.el # e
    <3>1. k[q] \in Plain
      BY SoundPlain
    <3>2. x.el \in ToSet(k[q])
      BY <3>1, RowEls
    <3> QED
      BY <1>1, <3>2
  <2>3. Its(View(k), e) = {}
    BY <2>2, ItsOf
  <2>4. <<>> \in Seq(Text)
    BY EmptyIs
  <2> QED
    BY <2>1, <2>3, <2>4, ListedFrom
<1>2. CASE \E q \in Parent : e \in ToSet(k[q])
  <2>1. PICK p \in Parent : e \in ToSet(k[p])
    BY <1>2
  <2> DEFINE t == TailRun(k, e)
             x == Entry(e, t)
  <2>2. t \in Seq(Text) /\ \E a, b \in Seq(Node) : Parts(k[p], a, e, t \o b) /\ Solid(b)
    BY <2>1, BlockIs
  <2>3. PICK a \in Seq(Node), b \in Seq(Node) : Parts(k[p], a, e, t \o b) /\ Solid(b)
    BY <2>2
  <2> HIDE DEF t
  <2>4. k[p] \in Plain
    BY SoundPlain
  <2>5. e \notin ToSet(a) /\ e \notin ToSet(b)
    BY <2>2, <2>3, TailApart
  <2>6. /\ x \in ItemSet /\ Row(a) \in Seq(ItemSet) /\ Row(b) \in Seq(ItemSet)
        /\ a \in Plain /\ b \in Plain /\ Parts(Row(k[p]), Row(a), x, Row(b))
    BY <2>2, <2>3, <2>4, RowBlock
  <2>7. x.el = e
    BY DEF Entry
  <2> HIDE DEF x
  <2>8. ToSet(Row(k[p])) = ToSet(Row(a)) \cup {x} \cup ToSet(Row(b))
    BY <2>6, PartsAre
  <2>9. \A y \in ToSet(Row(a)) \cup ToSet(Row(b)) : y.el # e
    BY <2>5, <2>6, RowEls
  <2>10. ASSUME NEW y \in Its(View(k), e) PROVE y = x
    <3>1. PICK q \in Parent : y \in ToSet(Row(k[q]))
      BY ItsOf
    <3>2. y.el = e
      BY ItsOf
    <3>3. k[q] \in Plain
      BY SoundPlain
    <3>4. e \in ToSet(k[q])
      BY <3>1, <3>2, <3>3, RowEls
    <3>5. q = p
      BY <2>1, <3>4, OneChain
    <3> QED
      BY <2>8, <2>9, <3>1, <3>2, <3>5
  <2>11. x \in Its(View(k), e)
    BY <2>7, <2>8, ItsOf
  <2>12. Its(View(k), e) = {x}
    BY <2>10, <2>11
  <2>13. Listed(View(k), e) = x
    BY <2>12, ListedFrom
  <2> QED
    BY <2>2, <2>13 DEF x, t
<1> QED
  BY <1>1, <1>2

(* An element has one place among the entries of its list.                 *)
LEMMA PlaceOf ==
  ASSUME NEW s \in Plain, NEW a \in Seq(Node), NEW e \in Elem, NEW c \in Seq(Node),
         Parts(s, a, e, c)
  PROVE  /\ Len(Row(a)) \in Nat /\ Len(Row(a)) + 1 \in 1..Len(Row(s))
         /\ Row(s)[Len(Row(a)) + 1] = Entry(e, Lead(c))
         /\ \A i \in 1..Len(Row(s)) : Row(s)[i].el = e => i = Len(Row(a)) + 1
<1> DEFINE x == Entry(e, Lead(c))
           ra == Row(a)
           rc == Row(c)
           r == Row(s)
<1>1. x \in ItemSet /\ ra \in Seq(ItemSet) /\ rc \in Seq(ItemSet) /\ Parts(r, ra, x, rc)
  BY RowParts
<1>2. /\ a \in Plain /\ c \in Plain /\ e \notin ToSet(a) /\ e \notin ToSet(c)
  <2>1. e \in Node
    BY DEF Node
  <2> QED
    BY <2>1, PlainParts
<1>3. (\A y \in ToSet(ra) : y.el # e) /\ (\A y \in ToSet(rc) : y.el # e)
  BY <1>2, RowEls
<1> HIDE DEF x, ra, rc, r
<1>4. /\ Len(ra) \in Nat /\ Len(rc) \in Nat /\ Len(r) = Len(ra) + 1 + Len(rc)
      /\ DOMAIN ra = 1..Len(ra) /\ DOMAIN rc = 1..Len(rc)
      /\ \A i \in 1..Len(ra) : r[i] = ra[i]
      /\ r[Len(ra) + 1] = x
      /\ \A i \in 1..Len(rc) : r[Len(ra) + 1 + i] = rc[i]
  BY <1>1, PartsAre
<1>5. \A i \in 1..Len(ra) : r[i].el # e
  BY <1>3, <1>4 DEF ToSet
<1>6. \A i \in 1..Len(rc) : r[Len(ra) + 1 + i].el # e
  BY <1>3, <1>4 DEF ToSet
<1>7. ASSUME NEW i \in 1..Len(r), r[i].el = e PROVE i = Len(ra) + 1
  <2>1. i > Len(ra)
    BY <1>4, <1>5, <1>7
  <2>2. CASE i > Len(ra) + 1
    <3> DEFINE j == i - (Len(ra) + 1)
    <3>1. j \in 1..Len(rc) /\ Len(ra) + 1 + j = i
      BY <1>4, <2>2
    <3> HIDE DEF j
    <3> QED
      BY <1>6, <1>7, <3>1
  <2>3. CASE ~(i > Len(ra) + 1)
    <3>1. i \in Int /\ Len(ra) \in Int
      BY <1>4
    <3> QED
      BY <2>1, <2>3, <3>1
  <2> QED
    BY <2>2, <2>3
<1>8. Len(ra) + 1 \in 1..Len(r)
  BY <1>4
<1> QED
  BY <1>4, <1>7, <1>8 DEF ra, r, x

LEMMA ChildSplit ==
  ASSUME NEW s \in Plain, NEW i \in 1..Len(ContentChildren(s))
  PROVE  /\ ContentChildren(s)[i] \in Elem
         /\ \E a, c \in Seq(Node) : /\ Parts(s, a, ContentChildren(s)[i], c)
                                    /\ Len(Row(a)) + 1 = i /\ Len(Row(a)) \in Nat
<1> DEFINE e == ContentChildren(s)[i]
<1>s. s \in Seq(Node)
  BY DEF Plain
<1>1. i \in 1..Len(Row(s)) /\ Row(s)[i].el = e /\ e \in ToSet(s) /\ e \in Elem
  BY RowIs
<1> HIDE DEF e
<1>2. PICK a \in Seq(Node), c \in Seq(Node) : Parts(s, a, e, c)
  BY <1>1, <1>s, SplitAround
<1>3. i = Len(Row(a)) + 1 /\ Len(Row(a)) \in Nat
  BY <1>1, <1>2, PlaceOf
<1> QED
  BY <1>1, <1>2, <1>3 DEF e

(* An element that has left, and its tail, stand nowhere.                  *)
LEMMA Leaving ==
  ASSUME NEW k \in Sound, NEW e \in Elem
  PROVE  /\ Extract(k, e) \in Sound
         /\ TailRun(k, e) \in Seq(Text) /\ TailRun(k, e) \in Plain
         /\ Homeless(Extract(k, e), {e})
         /\ Homeless(Extract(k, e), ToSet(TailRun(k, e)))
         /\ View(Extract(k, e)) = Without(View(k), {e})
         /\ \A q \in Parent : ToSet(Extract(k, e)[q])
                                = ToSet(k[q]) \ ({e} \cup ToSet(TailRun(k, e)))
<1> DEFINE t == TailRun(k, e)
           d == Extract(k, e)
<1>1. d \in Sound /\ t \in Seq(Text)
  BY ExtractIs
<1>2. \A q \in Parent : ToSet(d[q]) = ToSet(k[q]) \ ({e} \cup ToSet(t))
  BY ExtractIs
<1>3. View(d) = Without(View(k), {e})
  BY ExtractShows
<1>4. t \in Plain
  <2>1. CASE \A q \in Parent : e \notin ToSet(k[q])
    BY <2>1, HomelessIs, PlainEmpty
  <2>2. CASE \E q \in Parent : e \in ToSet(k[q])
    <3>1. PICK p \in Parent : e \in ToSet(k[p])
      BY <2>2
    <3>2. PICK a \in Seq(Node), b \in Seq(Node) : Parts(k[p], a, e, t \o b)
      BY <3>1, BlockIs
    <3> HIDE DEF t
    <3> QED
      BY <1>1, <3>2, TailApart
  <2> QED
    BY <2>1, <2>2
<1> HIDE DEF t, d
<1>5. Homeless(d, {e}) /\ Homeless(d, ToSet(t))
  BY <1>2 DEF Homeless
<1> QED
  BY <1>1, <1>2, <1>3, <1>4, <1>5 DEF t, d

(* A list after e has left it and come back as entry number at.            *)
MovedTo(v, p, e, at) ==
  LET rest == Without(v, {e})
  IN  [rest EXCEPT ![p].items = InsertAt(@, at, Listed(v, e))]

LEMMA MovedIs ==
  ASSUME NEW v, NEW p, NEW e, NEW at
  PROVE  MovedTo(v, p, e, at) =
           WithItems(Without(v, {e}), p,
                     InsertAt(Items(Without(v, {e}), p), at, Listed(v, e)))
BY DEF MovedTo, WithItems, Items

LEMMA AttachPlaces ==
  ASSUME NEW k \in Sound, NEW p \in Parent, NEW e \in Elem,
         NEW a \in Seq(Node), NEW b \in Seq(Node), Solid(b), NEW ref,
         Anchored(Extract(k, e)[p], a, ref, b)
  PROVE  /\ Attach(Extract(k, e), p, e, TailRun(k, e), ref) \in Sound
         /\ View(Attach(Extract(k, e), p, e, TailRun(k, e), ref))
              = MovedTo(View(k), p, e, Len(Row(a)) + 1)
<1> DEFINE d == Extract(k, e)
           t == TailRun(k, e)
           c == Attach(d, p, e, t, ref)
<1>1. /\ d \in Sound /\ t \in Seq(Text) /\ t \in Plain
      /\ Homeless(d, {e}) /\ Homeless(d, ToSet(t)) /\ View(d) = Without(View(k), {e})
  BY Leaving
<1>2. Listed(View(k), e) = Entry(e, t)
  BY ListedIs
<1>3. Anchored(d[p], a, ref, b)
  OBVIOUS
<1> HIDE DEF d, t
<1>4. Becomes(d, c, p, Block(a, e, t, b))
  BY <1>1, <1>3, AttachIs
<1>5. Joined(d[p], a, b)
  BY <1>3, AnchoredIs DEF Joined
<1> HIDE DEF c
<1>6. View(c) = WithItems(View(d), p, InsertAt(Row(d[p]), Len(Row(a)) + 1, Entry(e, t)))
  <2>1. d \in Sound /\ t \in Seq(Text)
    BY <1>1
  <2> QED
    BY <2>1, <1>4, <1>5, PlacedShows
<1>7. Items(View(d), p) = Row(d[p])
  BY <1>1, ItemsOf DEF Items
<1>8. c \in Sound
  BY <1>4 DEF Becomes
<1>9. View(c) = MovedTo(View(k), p, e, Len(Row(a)) + 1)
  BY <1>1, <1>2, <1>6, <1>7, MovedIs
<1> QED
  BY <1>8, <1>9 DEF c, d, t

(* The place before a child, as an anchor.                                 *)
LEMMA BeforeChild ==
  ASSUME NEW s \in Plain, NEW a \in Seq(Node), NEW e \in Elem, NEW c \in Seq(Node),
         Parts(s, a, e, c)
  PROVE  /\ <<e>> \o c \in Seq(Node) /\ Solid(<<e>> \o c) /\ Anchored(s, a, e, <<e>> \o c)
<1>1. e \in Node
  BY DEF Node
<1>2. <<e>> \o c \in Seq(Node) /\ Solid(<<e>> \o c)
  BY SolidFront
<1>3. Anchored(s, a, e, <<e>> \o c)
  BY <1>1 DEF Anchored
<1> QED
  BY <1>2, <1>3

(* insert is list.insert.                                                  *)
LEMMA InsertAgrees ==
  ASSUME NEW k \in Sound, NEW p \in Parent, NEW e \in Elem, NEW index \in Int
  PROVE  View(InsertIn(k, p, index, e)) = ListInsert(View(k), p, index, e)
<1> DEFINE d == Extract(k, e)
           s == d[p]
           now == ContentChildren(s)
           n == Len(now)
           i == InsertIndex(index, n)
           ref == IF i < n THEN now[i + 1] ELSE NoNode
<1>1. d \in Sound /\ View(d) = Without(View(k), {e})
  BY Leaving
<1> HIDE DEF d
<1>2. s \in Plain /\ s \in Seq(Node)
  BY <1>1, SoundPlain
<1>3. Items(View(d), p) = Row(s)
  BY <1>1, ItemsOf DEF Items
<1> HIDE DEF s
<1>4. n = Len(Row(s)) /\ n \in Nat
  BY <1>2, RowIs
<1>5. ListInsert(View(k), p, index, e) = MovedTo(View(k), p, e, Clamped(index, n) + 1)
  BY <1>1, <1>3, <1>4 DEF ListInsert, MovedTo
<1>6. InsertIn(k, p, index, e) = Attach(Extract(k, e), p, e, TailRun(k, e), ref)
  BY DEF InsertIn, d, s
<1>7. i \in Nat
  BY <1>4 DEF InsertIndex
<1>8. CASE i < n
  <2>1. i + 1 \in 1..Len(ContentChildren(s))
    BY <1>4, <1>7, <1>8
  <2>2. ref \in Elem /\ \E a, c \in Seq(Node) : /\ Parts(s, a, ref, c)
                                                /\ Len(Row(a)) + 1 = i + 1 /\ Len(Row(a)) \in Nat
    BY <1>2, <1>8, <2>1, ChildSplit
  <2> HIDE DEF ref
  <2>3. PICK a \in Seq(Node), c \in Seq(Node) : Parts(s, a, ref, c) /\ Len(Row(a)) + 1 = i + 1
    BY <2>2
  <2> DEFINE b == <<ref>> \o c
  <2>4. b \in Seq(Node) /\ Solid(b) /\ Anchored(s, a, ref, b)
    BY <1>2, <2>2, <2>3, BeforeChild
  <2> HIDE DEF b
  <2>5. View(Attach(Extract(k, e), p, e, TailRun(k, e), ref))
          = MovedTo(View(k), p, e, Len(Row(a)) + 1)
    BY <2>4, AttachPlaces DEF s, d
  <2>6. Clamped(index, n) = i
    BY <1>4, <1>7, <1>8 DEF Clamped, InsertIndex
  <2> QED
    BY <1>5, <1>6, <2>3, <2>5, <2>6
<1>9. CASE ~(i < n)
  <2>1. ref = NoNode
    BY <1>9
  <2>2. <<>> \in Seq(Node) /\ Solid(<<>>)
    BY EmptyIs DEF Solid
  <2>3. Anchored(s, s, NoNode, <<>>)
    BY DEF Anchored
  <2>4. View(Attach(Extract(k, e), p, e, TailRun(k, e), NoNode))
          = MovedTo(View(k), p, e, Len(Row(s)) + 1)
    <3>1. Anchored(Extract(k, e)[p], s, NoNode, <<>>)
      <4>1. s = Extract(k, e)[p]
        BY DEF s, d
      <4> QED
        BY <2>3, <4>1
    <3>2. s \in Seq(Node)
      BY <1>2
    <3> DEFINE none == <<>>
    <3>3. none \in Seq(Node) /\ Solid(none) /\ Anchored(Extract(k, e)[p], s, NoNode, none)
      BY <2>2, <3>1
    <3> HIDE DEF none
    <3> QED
      BY <3>2, <3>3, AttachPlaces
  <2>5. Clamped(index, n) = n
    BY <1>4, <1>7, <1>9 DEF Clamped, InsertIndex
  <2> QED
    BY <1>4, <1>5, <1>6, <2>1, <2>4, <2>5
<1> QED
  BY <1>8, <1>9

(* A child other than e is still there when e has left.                    *)
LEMMA StaysWhenLeaving ==
  ASSUME NEW k \in Sound, NEW p \in Parent, NEW self \in Elem, NEW e \in Elem, self # e,
         IsChild(k, p, self)
  PROVE  self \in ToSet(Extract(k, e)[p])
<1>1. self \in ToSet(k[p])
  BY DEF IsChild, Homes
<1>2. TailRun(k, e) \in Seq(Text)
  BY Leaving
<1>3. self \notin ToSet(TailRun(k, e))
  BY <1>2, TextNodes, ChildListAssumption
<1>4. ToSet(Extract(k, e)[p]) = ToSet(k[p]) \ ({e} \cup ToSet(TailRun(k, e)))
  BY Leaving
<1> QED
  BY <1>1, <1>3, <1>4

LEMMA ChosenPlace ==
  ASSUME NEW s \in Plain, NEW a \in Seq(Node), NEW e \in Elem, NEW c \in Seq(Node),
         Parts(s, a, e, c)
  PROVE  (CHOOSE i \in DOMAIN Row(s) : Row(s)[i].el = e) = Len(Row(a)) + 1
<1>1. /\ Len(Row(a)) + 1 \in 1..Len(Row(s))
      /\ Row(s)[Len(Row(a)) + 1] = Entry(e, Lead(c))
      /\ \A i \in 1..Len(Row(s)) : Row(s)[i].el = e => i = Len(Row(a)) + 1
  BY PlaceOf
<1>2. DOMAIN Row(s) = 1..Len(Row(s))
  BY RowIs
<1>3. Row(s)[Len(Row(a)) + 1].el = e
  BY <1>1 DEF Entry
<1> DEFINE n == Len(Row(a)) + 1
           r == Row(s)
<1> HIDE DEF n, r
<1>4. n \in DOMAIN r /\ r[n].el = e /\ \A i \in DOMAIN r : r[i].el = e => i = n
  BY <1>1, <1>2, <1>3 DEF n, r
<1>5. (CHOOSE i \in DOMAIN r : r[i].el = e) = n
  BY <1>4
<1> QED
  BY <1>5 DEF n, r

(* addprevious puts an entry before its reference.                         *)
LEMMA PutBeforeAgrees ==
  ASSUME NEW k \in Sound, NEW p \in Parent, NEW self \in Elem, NEW e \in Elem, self # e,
         IsChild(k, p, self)
  PROVE  View(PutBefore(k, p, self, e)) = ListPutBefore(View(k), p, self, e)
<1> DEFINE d == Extract(k, e)
           s == d[p]
<1>1. d \in Sound /\ View(d) = Without(View(k), {e})
  BY Leaving
<1>2. self \in ToSet(s)
  BY StaysWhenLeaving
<1>s. s = Extract(k, e)[p]
  OBVIOUS
<1> HIDE DEF d
<1>3. s \in Plain /\ s \in Seq(Node)
  BY <1>1, SoundPlain
<1>4. Items(View(d), p) = Row(s)
  BY <1>1, ItemsOf DEF Items
<1> HIDE DEF s
<1>5. PICK a \in Seq(Node), c \in Seq(Node) : Parts(s, a, self, c)
  BY <1>2, <1>3, SplitAround
<1> DEFINE b == <<self>> \o c
<1>6. b \in Seq(Node) /\ Solid(b) /\ Anchored(s, a, self, b)
  BY <1>3, <1>5, BeforeChild
<1> HIDE DEF b
<1>7. View(Attach(Extract(k, e), p, e, TailRun(k, e), self))
        = MovedTo(View(k), p, e, Len(Row(a)) + 1)
  <2>1. Anchored(Extract(k, e)[p], a, self, b)
    BY <1>s, <1>6
  <2>2. b \in Seq(Node) /\ Solid(b)
    BY <1>6
  <2> QED
    BY <2>1, <2>2, AttachPlaces
<1>8. PutBefore(k, p, self, e) = Attach(Extract(k, e), p, e, TailRun(k, e), self)
  <2>1. self # NoNode
    BY ChildListAssumption
  <2> QED
    BY <2>1 DEF PutBefore, Attach
<1>9. (CHOOSE i \in DOMAIN Row(s) : Row(s)[i].el = self) = Len(Row(a)) + 1
  BY <1>3, <1>5, ChosenPlace
<1>10. ListPutBefore(View(k), p, self, e) = MovedTo(View(k), p, e, Len(Row(a)) + 1)
  BY <1>1, <1>4, <1>9 DEF ListPutBefore, MovedTo
<1> QED
  BY <1>7, <1>8, <1>10

LEMMA PartsExcept ==
  ASSUME NEW X, NEW s, NEW a \in Seq(X), NEW x \in X, NEW b \in Seq(X), Parts(s, a, x, b),
         NEW y \in X
  PROVE  Parts([s EXCEPT ![Len(a) + 1] = y], a, y, b)
<1> DEFINE u == a \o (<<y>> \o b)
           w == [s EXCEPT ![Len(a) + 1] = y]
<1>1. /\ s \in Seq(X) /\ Len(a) \in Nat /\ Len(b) \in Nat
      /\ Len(s) = Len(a) + 1 + Len(b)
      /\ DOMAIN s = 1..(Len(a) + 1 + Len(b))
      /\ \A i \in 1..Len(a) : s[i] = a[i]
      /\ \A i \in 1..Len(b) : s[Len(a) + 1 + i] = b[i]
  BY PartsAre
<1>2. Parts(u, a, y, b)
  BY DEF Parts
<1>3. w \in Seq(X) /\ Len(w) = Len(s) /\ DOMAIN w = DOMAIN s
  BY <1>1
<1>4. \A i \in DOMAIN s : w[i] = IF i = Len(a) + 1 THEN y ELSE s[i]
  OBVIOUS
<1> HIDE DEF u, w
<1>5. /\ u \in Seq(X) /\ Len(u) = Len(a) + 1 + Len(b)
      /\ \A i \in 1..Len(a) : u[i] = a[i]
      /\ u[Len(a) + 1] = y
      /\ \A i \in 1..Len(b) : u[Len(a) + 1 + i] = b[i]
  BY <1>2, PartsAre
<1>6. ASSUME NEW i \in 1..Len(w) PROVE w[i] = u[i]
  <2>1. i \in 1..(Len(a) + 1 + Len(b)) /\ i \in DOMAIN s
    BY <1>1, <1>3
  <2>2. CASE i \in 1..Len(a)
    BY <1>1, <1>4, <1>5, <2>1, <2>2
  <2>3. CASE i = Len(a) + 1
    BY <1>1, <1>4, <1>5, <2>1, <2>3
  <2>4. CASE i \notin 1..Len(a) /\ i # Len(a) + 1
    <3> DEFINE j == i - (Len(a) + 1)
    <3>1. j \in 1..Len(b) /\ Len(a) + 1 + j = i
      BY <1>1, <2>1, <2>4
    <3> HIDE DEF j
    <3>2. s[Len(a) + 1 + j] = b[j] /\ u[Len(a) + 1 + j] = b[j]
      BY <1>1, <1>5, <3>1
    <3> QED
      BY <1>4, <2>1, <2>4, <3>1, <3>2
  <2> QED
    BY <2>2, <2>3, <2>4
<1>7. w = u
  <2>1. Len(w) = Len(u)
    BY <1>1, <1>3, <1>5
  <2> QED
    BY <1>3, <1>5, <1>6, <2>1, SameSeq
<1> QED
  BY <1>2, <1>7 DEF w

(* The joins of addnext: e and its tail get between self and self's tail.  *)
LEMMA BlockAfter ==
  ASSUME NEW a, NEW t, NEW r, All3(Node, a, t, r), NEW self \in Node, NEW e \in Node,
         NEW b \in Seq(Node)
  PROVE  /\ a \o <<self>> \in Seq(Node) /\ r \o b \in Seq(Node)
         /\ Parts(a \o (<<self>> \o (<<e>> \o (r \o b))), a \o <<self>>, e, r \o b)
         /\ Parts((a \o <<self>>) \o (<<e>> \o (t \o (r \o b))), a \o <<self>>, e, (t \o r) \o b)
         /\ Parts(a \o <<self>>, a, self, <<>>)
<1> DEFINE o == <<self>>
           m == <<e>>
           rb == r \o b
<1>1. o \in Seq(Node)
  BY OneIs
<1>2. m \in Seq(Node)
  BY OneIs
<1>0. o \o <<>> = o
  BY <1>1, JoinEmpty
<1> HIDE DEF o, m
<1>3. All3(Node, t, r, b)
  BY DEF All3
<1>4. (t \o r) \o b = t \o rb /\ rb \in Seq(Node)
  BY <1>3, Assoc
<1> HIDE DEF rb
<1>5. All3(Node, o, m, rb)
  BY <1>1, <1>2, <1>4 DEF All3
<1>6. m \o rb \in Seq(Node)
  BY <1>5, Assoc
<1> DEFINE h == m \o rb
<1> HIDE DEF h
<1>7. All3(Node, a, o, h)
  BY <1>1, <1>6 DEF All3, h
<1>8. (a \o o) \o h = a \o (o \o h) /\ a \o o \in Seq(Node)
  BY <1>7, Assoc
<1>9. Parts(a \o (o \o (m \o rb)), a \o o, e, rb)
  BY <1>8 DEF Parts, h, m
<1>10. Parts((a \o o) \o (m \o (t \o rb)), a \o o, e, (t \o r) \o b)
  BY <1>4 DEF Parts, m
<1>11. Parts(a \o o, a, self, <<>>)
  BY <1>0 DEF Parts, o
<1>12. rb \in Seq(Node) /\ a \o o \in Seq(Node)
  BY <1>4, <1>8
<1> QED
  BY <1>9, <1>10, <1>11, <1>12 DEF o, m, rb

(* In w, y stands where x stood in s and n behind it.                      *)
PutBehind(X, a, b, x, y, n, s, c, w) ==
  /\ a \in Seq(X) /\ b \in Seq(X) /\ x \in X /\ y \in X /\ n \in X
  /\ Parts(s, a, x, b) /\ Parts(c, a, y, <<>>) /\ Parts(w, c, n, b)

LEMMA InsertedAfter ==
  ASSUME NEW X, NEW a, NEW b, NEW x, NEW y, NEW n, NEW s, NEW c, NEW w,
         PutBehind(X, a, b, x, y, n, s, c, w)
  PROVE  w = InsertAt([s EXCEPT ![Len(a) + 1] = y], Len(a) + 1 + 1, n)
<1> SUFFICES ASSUME a \in Seq(X), b \in Seq(X), x \in X, y \in X, n \in X,
                    Parts(s, a, x, b), Parts(c, a, y, <<>>), Parts(w, c, n, b)
             PROVE  w = InsertAt([s EXCEPT ![Len(a) + 1] = y], Len(a) + 1 + 1, n)
  BY DEF PutBehind
<1> DEFINE o == <<y>>
           v == [s EXCEPT ![Len(a) + 1] = y]
<1>1. o \in Seq(X) /\ Len(o) = 1
  BY OneIs
<1>2. o \o <<>> = o
  <2>1. o \in Seq(X)
    BY <1>1
  <2> HIDE DEF o
  <2> QED
    BY <2>1, JoinEmpty
<1>3. Parts(v, a, y, b)
  BY PartsExcept
<1> HIDE DEF v
<1>4. v = a \o (o \o b)
  BY <1>3 DEF Parts
<1>5. c = a \o o
  BY <1>2 DEF Parts
<1>w. w = c \o (<<n>> \o b)
  BY DEF Parts
<1> HIDE DEF o
<1>6. All3(X, a, o, b)
  BY <1>1 DEF All3
<1>7. (a \o o) \o b = a \o (o \o b) /\ a \o o \in Seq(X)
  BY <1>6, Assoc
<1>8. v = c \o b /\ c \in Seq(X)
  BY <1>4, <1>5, <1>7
<1>9. Len(c) = Len(a) + 1
  <2>1. Len(a \o o) = Len(a) + Len(o)
    BY <1>1, JoinIs, Zenon
  <2> QED
    BY <1>1, <1>5, <2>1
<1>10. Parts(InsertAt(c \o b, Len(c) + 1, n), c, n, b)
  <2>1. c \in Seq(X)
    BY <1>8
  <2> QED
    BY <2>1, InsertInto
<1>11. InsertAt(c \o b, Len(c) + 1, n) = c \o (<<n>> \o b)
  BY <1>10 DEF Parts
<1> QED
  BY <1>8, <1>9, <1>11, <1>w DEF v

(* addnext puts an entry after its reference and takes over its tail.      *)
LEMMA PutAfterAgrees ==
  ASSUME NEW k \in Sound, NEW p \in Parent, NEW self \in Elem, NEW e \in Elem, self # e,
         IsChild(k, p, self)
  PROVE  View(PutAfter(k, p, self, e)) = ListPutAfter(View(k), p, self, e)
<1> DEFINE d == Extract(k, e)
           t == TailRun(k, e)
           s == d[p]
           r == TailRun(d, self)
           d1 == InsertAfter(d, p, e, self)
           c == AttachTail(d1, p, t, e)
<1>e. e \in Node /\ self \in Node /\ e \notin Text /\ self \notin Text
  BY ChildListAssumption DEF Node
<1>1. /\ d \in Sound /\ t \in Seq(Text) /\ t \in Plain
      /\ Homeless(d, {e}) /\ Homeless(d, ToSet(t)) /\ View(d) = Without(View(k), {e})
  BY Leaving
<1>2. self \in ToSet(s)
  BY StaysWhenLeaving
<1>3. Listed(View(k), e) = Entry(e, t)
  BY ListedIs
<1>4. PutAfter(k, p, self, e) = c
  BY DEF PutAfter
<1> HIDE DEF t, d
<1>5. s \in Plain /\ Items(View(d), p) = Row(s)
  BY <1>1, SoundPlain, ItemsOf DEF Items
<1>6. r \in Seq(Text) /\ \E a, b \in Seq(Node) : Parts(s, a, self, r \o b) /\ Solid(b)
  BY <1>1, <1>2, BlockIs
<1>7. PICK a \in Seq(Node), b \in Seq(Node) : Parts(s, a, self, r \o b) /\ Solid(b)
  BY <1>6
<1> HIDE DEF r
<1>8. r \in Seq(Node) /\ t \in Seq(Node) /\ ToSet(t) \subseteq Text
  BY <1>1, <1>6, TextNodes
<1>9. All3(Node, a, t, r)
  BY <1>8 DEF All3
<1> DEFINE a1 == a \o <<self>>
           rb == r \o b
<1>10. /\ a1 \in Seq(Node) /\ rb \in Seq(Node)
       /\ Parts(a \o (<<self>> \o (<<e>> \o rb)), a1, e, rb)
       /\ Parts(a1 \o (<<e>> \o (t \o rb)), a1, e, (t \o r) \o b)
       /\ Parts(a1, a, self, <<>>)
  BY <1>e, <1>9, BlockAfter
<1>11. Becomes(d, d1, p, a \o (<<self>> \o (<<e>> \o rb)))
  <2>1. rb \in Seq(Node) /\ Parts(d[p], a, self, rb)
    BY <1>7, <1>10
  <2> HIDE DEF rb
  <2> QED
    BY <1>e, <1>1, <2>1, InsertAfterIs
<1> HIDE DEF d1, s
<1>12. d1 \in Sound /\ Parts(d1[p], a1, e, rb) /\ \A q \in Parent : q # p => d1[q] = d[q]
  BY <1>10, <1>11 DEF Becomes
<1>13. Parts(s, a, self, rb)
  BY <1>7
<1> HIDE DEF a1, rb
<1>14. Homeless(d1, ToSet(t))
  <2>1. ToSet(d1[p]) = ToSet(a1) \cup {e} \cup ToSet(rb)
    BY <1>e, <1>10, <1>12, PartsAre
  <2>2. ToSet(a1) = ToSet(a) \cup {self}
    <3>1. self \in Node
      BY <1>e
    <3> QED
      BY <3>1, Longer DEF a1
  <2>3. ToSet(s) = ToSet(a) \cup {self} \cup ToSet(rb)
    BY <1>e, <1>10, <1>13, PartsAre
  <2>4. ASSUME NEW q \in Parent PROVE ToSet(d1[q]) \cap ToSet(t) = {}
    <3>1. ToSet(d[q]) \cap ToSet(t) = {}
      BY <1>1 DEF Homeless
    <3>2. CASE q = p
      BY <1>e, <1>8, <2>1, <2>2, <2>3, <3>1, <3>2 DEF s
    <3>3. CASE q # p
      BY <1>12, <3>1, <3>3
    <3> QED
      BY <3>2, <3>3
  <2> QED
    BY <2>4 DEF Homeless
<1>15. Becomes(d1, c, p, a1 \o (<<e>> \o (t \o rb)))
  BY <1>1, <1>10, <1>12, <1>14, AttachTailIs
<1> HIDE DEF c
<1>16. /\ c \in Sound /\ Parts(c[p], a1, e, (t \o r) \o b)
       /\ \A q \in Parent : q # p => c[q] = d[q]
  BY <1>10, <1>12, <1>15 DEF Becomes
<1> DEFINE u == t \o r
<1>17. u \in Seq(Text)
  BY <1>1, <1>6, JoinIs
<1> HIDE DEF u
<1> DEFINE x == Entry(self, r)
           y == Entry(self, <<>>)
           n == Entry(e, u)
<1>18. /\ n \in ItemSet /\ a1 \in Plain /\ Row(a1) \in Seq(ItemSet)
       /\ Parts(Row(c[p]), Row(a1), n, Row(b)) /\ Lead(c[p]) = Lead(a1)
  <2>1. c[p] \in Plain
    BY <1>16, SoundPlain
  <2>2. Parts(c[p], a1, e, u \o b)
    BY <1>16 DEF u
  <2>3. a1 \in Seq(Node)
    BY <1>10
  <2> QED
    BY <1>7, <1>17, <2>1, <2>2, <2>3, RowBlock
<1>19. /\ x \in ItemSet /\ Row(a) \in Seq(ItemSet) /\ Row(b) \in Seq(ItemSet)
       /\ Parts(Row(s), Row(a), x, Row(b)) /\ Lead(s) = Lead(a)
  BY <1>5, <1>6, <1>7, RowBlock
<1>20. y \in ItemSet /\ Parts(Row(a1), Row(a), y, <<>>) /\ Lead(a1) = Lead(a)
  <2> DEFINE none == <<>>
  <2>1. none \in Seq(Node) /\ Parts(a1, a, self, none) /\ Row(none) = <<>> /\ Lead(none) = <<>>
    BY <1>10, PlainEmpty, EmptyIs
  <2> HIDE DEF none
  <2>2. /\ Entry(self, Lead(none)) \in ItemSet /\ Lead(a1) = Lead(a)
        /\ Parts(Row(a1), Row(a), Entry(self, Lead(none)), Row(none))
    BY <1>18, <2>1, RowParts
  <2> QED
    BY <2>1, <2>2
<1>21. x.tail = r /\ [x EXCEPT !.tail = <<>>] = y
  BY DEF Entry
<1> DEFINE at == Len(Row(a)) + 1
<1>22. /\ (CHOOSE i \in DOMAIN Row(s) : Row(s)[i].el = self) = at
       /\ Row(s)[at] = x /\ at \in DOMAIN Row(s)
  <2>1. rb \in Seq(Node) /\ Parts(s, a, self, rb)
    BY <1>10, <1>13
  <2>2. (CHOOSE i \in DOMAIN Row(s) : Row(s)[i].el = self) = at
    BY <1>5, <2>1, ChosenPlace
  <2>3. Row(s)[at] = x /\ DOMAIN Row(s) = 1..(Len(Row(a)) + 1 + Len(Row(b)))
    BY <1>19, PartsAre
  <2>4. Len(Row(a)) \in Nat /\ Len(Row(b)) \in Nat
    BY <1>19, PartsAre
  <2>5. at \in DOMAIN Row(s)
    BY <2>3, <2>4
  <2> QED
    BY <2>2, <2>3, <2>5
<1> HIDE DEF x, y
<1>23. Row(c[p]) = InsertAt([Row(s) EXCEPT ![at] = y], at + 1, n)
  <2> DEFINE r0 == Row(s)
             ra == Row(a)
             rb0 == Row(b)
             r1 == Row(a1)
             w == Row(c[p])
  <2>1. n \in ItemSet /\ x \in ItemSet /\ y \in ItemSet
    BY <1>18, <1>19, <1>20
  <2>2. ra \in Seq(ItemSet) /\ rb0 \in Seq(ItemSet)
    BY <1>19
  <2>3. Parts(r0, ra, x, rb0)
    BY <1>19
  <2>4. Parts(r1, ra, y, <<>>)
    BY <1>20
  <2>5. Parts(w, r1, n, rb0)
    BY <1>18
  <2> HIDE DEF n, r0, ra, rb0, r1, w
  <2>6. w = InsertAt([r0 EXCEPT ![Len(ra) + 1] = y], Len(ra) + 1 + 1, n)
    <3>1. PutBehind(ItemSet, ra, rb0, x, y, n, r0, r1, w)
      BY <2>1, <2>2, <2>3, <2>4, <2>5 DEF PutBehind
    <3> QED
      BY <3>1, InsertedAfter
  <2> QED
    BY <2>6 DEF r0, ra, w
<1> HIDE DEF n, at
<1> DEFINE base == [Row(s) EXCEPT ![at].tail = <<>>]
<1>24. base = [Row(s) EXCEPT ![at] = y]
  BY <1>21, <1>22
<1> HIDE DEF base
<1>25. View(c) = WithItems(View(d), p, InsertAt(base, at + 1, n))
  <2>1. View(c) = WithItems(View(d), p, Row(c[p]))
    <3>1. Lead(c[p]) = Lead(d[p])
      BY <1>18, <1>19, <1>20 DEF s
    <3>2. c \in Sound /\ d \in Sound /\ \A q \in Parent : q # p => c[q] = d[q]
      BY <1>1, <1>16
    <3> QED
      BY <3>1, <3>2, ItemsChange
  <2> QED
    BY <1>23, <1>24, <2>1
<1>26. ListPutAfter(View(k), p, self, e) = WithItems(View(d), p, InsertAt(base, at + 1, n))
  <2>1. Entry(e, Listed(View(k), e).tail \o r) = n
    BY <1>3 DEF Entry, n, u
  <2>2. Row(s)[at].tail = r
    BY <1>21, <1>22
  <2>3. View(d)[p].items = Row(s)
    BY <1>5 DEF Items
  <2> QED
    BY <1>1, <1>5, <1>22, <2>1, <2>2, <2>3 DEF ListPutAfter, WithItems, base
<1> QED
  BY <1>4, <1>25, <1>26

-----------------------------------------------------------------------------
(* Views, as the list operations use them.                                 *)
ViewSet == [Parent -> [lead : Seq(Text), items : Seq(ItemSet)]]

LEMMA ViewTyped ==
  ASSUME NEW k \in Sound
  PROVE  View(k) \in ViewSet
<1>1. View(k) = [q \in Parent |-> [lead |-> Lead(k[q]), items |-> Row(k[q])]]
  BY ViewIs
<1>2. ASSUME NEW q \in Parent PROVE Lead(k[q]) \in Seq(Text) /\ Row(k[q]) \in Seq(ItemSet)
  <2>1. k[q] \in Plain /\ k[q] \in Seq(Node)
    BY SoundPlain
  <2>2. Row(k[q]) \in Seq(ItemSet)
    BY <2>1, RowIs
  <2>3. Lead(k[q]) \in Seq(Text)
    BY <2>1, LeadIs
  <2> QED
    BY <2>2, <2>3
<1> QED
  BY <1>1, <1>2 DEF ViewSet

LEMMA WithoutOf ==
  ASSUME NEW v \in ViewSet, NEW S
  PROVE  /\ Without(v, S) \in ViewSet /\ DOMAIN Without(v, S) = Parent /\ DOMAIN v = Parent
         /\ \A q \in Parent : /\ Without(v, S)[q].lead = v[q].lead
                              /\ Without(v, S)[q].items = Keeping(v[q].items, S)
                              /\ v[q].items \in Seq(ItemSet)
<1> DEFINE w == Without(v, S)
           R == [lead : Seq(Text), items : Seq(ItemSet)]
<1>1. DOMAIN v = Parent /\ \A q \in Parent : v[q] \in R /\ v[q].items \in Seq(ItemSet)
  BY DEF ViewSet
<1>2. w = [q \in Parent |-> [v[q] EXCEPT !.items = Keeping(@, S)]]
  BY <1>1 DEF Without
<1>3. ASSUME NEW q \in Parent
      PROVE  w[q] \in R /\ w[q].lead = v[q].lead /\ w[q].items = Keeping(v[q].items, S)
  <2>1. Keeping(v[q].items, S) \in Seq(ItemSet)
    BY <1>1, KeepingIs
  <2> DEFINE new == Keeping(v[q].items, S)
             old == v[q]
  <2>2. w[q] = [old EXCEPT !.items = new]
    BY <1>2
  <2>3. new \in Seq(ItemSet) /\ old \in R
    BY <1>1, <2>1
  <2> HIDE DEF new, old
  <2>4. [old EXCEPT !.items = new] \in R /\ [old EXCEPT !.items = new].lead = old.lead
        /\ [old EXCEPT !.items = new].items = new
    BY <2>3
  <2> QED
    BY <2>2, <2>4 DEF new, old
<1>4. w \in ViewSet /\ DOMAIN w = Parent
  BY <1>2, <1>3 DEF ViewSet
<1> QED
  BY <1>1, <1>3, <1>4

LEMMA SameView ==
  ASSUME NEW v \in ViewSet, NEW w \in ViewSet,
         \A q \in Parent : v[q].lead = w[q].lead /\ v[q].items = w[q].items
  PROVE  v = w
<1>1. ASSUME NEW q \in Parent PROVE v[q] = w[q]
  BY DEF ViewSet
<1>2. v = [q \in Parent |-> v[q]] /\ w = [q \in Parent |-> w[q]]
  BY DEF ViewSet
<1> QED
  BY <1>1, <1>2

LEMMA WithItemsOf ==
  ASSUME NEW v \in ViewSet, NEW p \in Parent, NEW r \in Seq(ItemSet)
  PROVE  /\ WithItems(v, p, r) \in ViewSet
         /\ WithItems(v, p, r)[p].items = r
         /\ \A q \in Parent : /\ WithItems(v, p, r)[q].lead = v[q].lead
                              /\ q # p => WithItems(v, p, r)[q].items = v[q].items
<1> DEFINE w == WithItems(v, p, r)
<1>1. w \in [Parent -> {w[q] : q \in Parent}]
  BY DEF ViewSet, WithItems
<1>2. ASSUME NEW q \in Parent
      PROVE  /\ w[q] \in [lead : Seq(Text), items : Seq(ItemSet)] /\ w[q].lead = v[q].lead
             /\ q = p => w[q].items = r
             /\ q # p => w[q].items = v[q].items
  <2>1. v[q] \in [lead : Seq(Text), items : Seq(ItemSet)]
    BY DEF ViewSet
  <2>2. CASE q = p
    <3>1. w[q] = [v[q] EXCEPT !.items = r]
      BY <2>2 DEF ViewSet, WithItems
    <3> QED
      BY <2>1, <2>2, <3>1
  <2>3. CASE q # p
    <3>1. w[q] = v[q]
      BY <2>3 DEF ViewSet, WithItems
    <3> QED
      BY <2>1, <2>3, <3>1
  <2> QED
    BY <2>2, <2>3
<1> HIDE DEF w
<1>3. w \in ViewSet
  BY <1>1, <1>2 DEF ViewSet
<1> QED
  BY <1>2, <1>3 DEF w

LEMMA WithoutTwice ==
  ASSUME NEW v \in ViewSet, NEW S, NEW T
  PROVE  Without(Without(v, S), T) = Without(v, S \cup T)
<1> DEFINE a == Without(v, S)
           b == Without(a, T)
           c == Without(v, S \cup T)
<1>1. /\ a \in ViewSet
      /\ \A q \in Parent : /\ a[q].lead = v[q].lead /\ a[q].items = Keeping(v[q].items, S)
                           /\ v[q].items \in Seq(ItemSet)
  BY WithoutOf
<1>2. /\ c \in ViewSet
      /\ \A q \in Parent : c[q].lead = v[q].lead /\ c[q].items = Keeping(v[q].items, S \cup T)
  BY WithoutOf
<1> HIDE DEF a, c
<1>3. /\ b \in ViewSet
      /\ \A q \in Parent : b[q].lead = a[q].lead /\ b[q].items = Keeping(a[q].items, T)
  BY <1>1, WithoutOf
<1> HIDE DEF b
<1>4. ASSUME NEW q \in Parent PROVE b[q].lead = c[q].lead /\ b[q].items = c[q].items
  <2>1. b[q].items = Keeping(Keeping(v[q].items, S), T)
    BY <1>1, <1>3
  <2>2. v[q].items \in Seq(ItemSet)
    BY <1>1
  <2>3. Keeping(Keeping(v[q].items, S), T) = Keeping(v[q].items, S \cup T)
    BY <2>2, KeepingTwice
  <2> QED
    BY <1>1, <1>2, <1>3, <2>1, <2>3
<1>5. b = c
  BY <1>2, <1>3, <1>4, SameView
<1> QED
  BY <1>5 DEF a, b, c

LEMMA WithoutNone ==
  ASSUME NEW v \in ViewSet
  PROVE  Without(v, {}) = v
<1> DEFINE a == Without(v, {})
<1>1. /\ a \in ViewSet
      /\ \A q \in Parent : /\ a[q].lead = v[q].lead /\ a[q].items = Keeping(v[q].items, {})
                           /\ v[q].items \in Seq(ItemSet)
  BY WithoutOf
<1> HIDE DEF a
<1>2. ASSUME NEW q \in Parent PROVE Keeping(v[q].items, {}) = v[q].items
  <2>1. v[q].items \in Seq(ItemSet)
    BY <1>1
  <2> QED
    BY <2>1, KeepingIs
<1>3. a = v
  BY <1>1, <1>2, SameView
<1> QED
  BY <1>3 DEF a

LEMMA ListedTyped ==
  ASSUME NEW v \in ViewSet, NEW e \in Elem
  PROVE  Listed(v, e) \in ItemSet /\ Listed(v, e).el = e
<1>1. CASE Its(v, e) = {}
  <2>1. Listed(v, e) = Entry(e, <<>>)
    BY <1>1, ListedFrom
  <2> QED
    BY <2>1 DEF Entry, ItemSet
<1>2. CASE Its(v, e) # {}
  <2>1. Listed(v, e) \in Its(v, e)
    BY <1>2, ListedFrom
  <2>2. PICK q \in DOMAIN v : Listed(v, e) \in ToSet(Items(v, q)) /\ Listed(v, e).el = e
    BY <2>1 DEF Its
  <2>3. v[q].items \in Seq(ItemSet)
    BY DEF ViewSet
  <2>4. ToSet(v[q].items) \subseteq ItemSet
    BY <2>3, Ranged
  <2> QED
    BY <2>2, <2>4 DEF Items
<1> QED
  BY <1>1, <1>2

(* A list without the elements of S, and with entries of theirs at its end. *)
Extended(v, p, S, ent) ==
  WithItems(Without(v, S), p, Keeping(Items(v, p), S) \o ent)

LEMMA ExtendedIs ==
  ASSUME NEW v \in ViewSet, NEW p \in Parent, NEW S, NEW ent \in Seq(ItemSet)
  PROVE  /\ Extended(v, p, S, ent) \in ViewSet
         /\ Keeping(v[p].items, S) \in Seq(ItemSet)
         /\ Extended(v, p, S, ent)[p].items = Keeping(v[p].items, S) \o ent
         /\ \A q \in Parent : /\ Extended(v, p, S, ent)[q].lead = v[q].lead
                              /\ q # p => Extended(v, p, S, ent)[q].items = Keeping(v[q].items, S)
<1> DEFINE w == Without(v, S)
           m == Keeping(v[p].items, S)
           r == m \o ent
<1>1. /\ w \in ViewSet
      /\ \A q \in Parent : /\ w[q].lead = v[q].lead /\ w[q].items = Keeping(v[q].items, S)
                           /\ v[q].items \in Seq(ItemSet)
  BY WithoutOf
<1>2. m \in Seq(ItemSet)
  <2>1. v[p].items \in Seq(ItemSet)
    BY <1>1
  <2> QED
    BY <2>1, KeepingIs
<1>3. Extended(v, p, S, ent) = WithItems(w, p, r)
  BY DEF Extended, Items
<1> HIDE DEF w, m
<1>4. r \in Seq(ItemSet)
  BY <1>2, JoinIs
<1> HIDE DEF r
<1>5. /\ WithItems(w, p, r) \in ViewSet
      /\ WithItems(w, p, r)[p].items = r
      /\ \A q \in Parent : /\ WithItems(w, p, r)[q].lead = w[q].lead
                           /\ q # p => WithItems(w, p, r)[q].items = w[q].items
  BY <1>1, <1>4, WithItemsOf
<1>6. Extended(v, p, S, ent)[p].items = r
  BY <1>3, <1>5
<1>7. \A q \in Parent : /\ Extended(v, p, S, ent)[q].lead = v[q].lead
                        /\ q # p => Extended(v, p, S, ent)[q].items = Keeping(v[q].items, S)
  BY <1>1, <1>3, <1>5
<1>8. Extended(v, p, S, ent) \in ViewSet
  BY <1>3, <1>5
<1> QED
  BY <1>2, <1>6, <1>7, <1>8 DEF m, r

(* Another element leaves an extended list.                                *)
LEMMA ExtendedWithout ==
  ASSUME NEW v \in ViewSet, NEW p \in Parent, NEW S, NEW ent \in Seq(ItemSet),
         NEW T, \A x \in ToSet(ent) : x.el \notin T
  PROVE  Without(Extended(v, p, S, ent), T) = Extended(v, p, S \cup T, ent)
<1> DEFINE w == Extended(v, p, S, ent)
           a == Without(w, T)
           u == Extended(v, p, S \cup T, ent)
           m == Keeping(v[p].items, S)
           mm == Keeping(v[p].items, S \cup T)
<1>1. /\ w \in ViewSet /\ m \in Seq(ItemSet) /\ w[p].items = m \o ent
      /\ \A q \in Parent : /\ w[q].lead = v[q].lead
                           /\ q # p => w[q].items = Keeping(v[q].items, S)
  BY ExtendedIs
<1>2. /\ u \in ViewSet /\ u[p].items = mm \o ent
      /\ \A q \in Parent : /\ u[q].lead = v[q].lead
                           /\ q # p => u[q].items = Keeping(v[q].items, S \cup T)
  BY ExtendedIs
<1>3. \A q \in Parent : v[q].items \in Seq(ItemSet)
  BY WithoutOf
<1>4. ASSUME NEW q \in Parent
      PROVE  Keeping(Keeping(v[q].items, S), T) = Keeping(v[q].items, S \cup T)
  <2>1. v[q].items \in Seq(ItemSet)
    BY <1>3
  <2> QED
    BY <2>1, KeepingTwice
<1> HIDE DEF w, u
<1>5. /\ a \in ViewSet
      /\ \A q \in Parent : a[q].lead = w[q].lead /\ a[q].items = Keeping(w[q].items, T)
  <2>1. w \in ViewSet
    BY <1>1
  <2> QED
    BY <2>1, WithoutOf
<1> HIDE DEF a
<1>6. Keeping(ent, T) = ent
  BY KeepingIs
<1>7. Keeping(m, T) = mm
  BY <1>4
<1> HIDE DEF m, mm
<1>8. Keeping(m \o ent, T) = Keeping(m, T) \o Keeping(ent, T)
  <2>1. m \in Seq(ItemSet)
    BY <1>1
  <2> QED
    BY <2>1, KeepingJoin
<1>9. a[p].items = u[p].items
  BY <1>1, <1>2, <1>5, <1>6, <1>7, <1>8, Zenon
<1>10. ASSUME NEW q \in Parent PROVE a[q].lead = u[q].lead /\ a[q].items = u[q].items
  <2>1. CASE q = p
    BY <1>1, <1>2, <1>5, <1>9, <2>1
  <2>2. CASE q # p
    <3>1. a[q].lead = w[q].lead /\ w[q].lead = v[q].lead /\ u[q].lead = v[q].lead
      BY <1>1, <1>2, <1>5
    <3>2. a[q].items = Keeping(w[q].items, T) /\ w[q].items = Keeping(v[q].items, S)
      BY <1>1, <1>5, <2>2
    <3>3. Keeping(Keeping(v[q].items, S), T) = Keeping(v[q].items, S \cup T)
      BY <1>4
    <3>4. u[q].items = Keeping(v[q].items, S \cup T)
      BY <1>2, <2>2
    <3> QED
      BY <3>1, <3>2, <3>3, <3>4, Zenon
  <2> QED
    BY <2>1, <2>2
<1>11. a = u
  BY <1>2, <1>5, <1>10, SameView
<1> QED
  BY <1>11 DEF a, u, w

LEMMA ListedStays ==
  ASSUME NEW v \in ViewSet, NEW p \in Parent, NEW S, NEW ent \in Seq(ItemSet),
         \A x \in ToSet(ent) : x.el \in S, NEW e, e \notin S
  PROVE  Listed(Extended(v, p, S, ent), e) = Listed(v, e)
<1> DEFINE w == Extended(v, p, S, ent)
           m == Keeping(v[p].items, S)
<1>1. /\ w \in ViewSet /\ m \in Seq(ItemSet) /\ w[p].items = m \o ent
      /\ \A q \in Parent : q # p => w[q].items = Keeping(v[q].items, S)
  BY ExtendedIs
<1> HIDE DEF w
<1>2. ASSUME NEW q \in Parent
      PROVE  ToSet(Keeping(v[q].items, S)) = {x \in ToSet(v[q].items) : x.el \notin S}
  <2>1. v[q].items \in Seq(ItemSet)
    BY DEF ViewSet
  <2> QED
    BY <2>1, KeepingIs
<1>3. ToSet(m \o ent) = ToSet(m) \cup ToSet(ent)
  <2>1. m \in Seq(ItemSet)
    BY <1>1
  <2> HIDE DEF m
  <2> QED
    BY <2>1, JoinRange
<1>4. ToSet(w[p].items) = ToSet(m) \cup ToSet(ent)
  BY <1>1, <1>3
<1>5. ASSUME NEW q \in Parent, NEW x, x.el = e
      PROVE  x \in ToSet(w[q].items) <=> x \in ToSet(v[q].items)
  <2>1. CASE q = p
    BY <1>2, <1>4, <1>5, <2>1
  <2>2. CASE q # p
    BY <1>1, <1>2, <1>5, <2>2
  <2> QED
    BY <2>1, <2>2
<1>6. DOMAIN v = Parent /\ DOMAIN w = Parent
  BY <1>1 DEF ViewSet
<1>7. Its(w, e) = Its(v, e)
  BY <1>5, <1>6 DEF Its, Items
<1>8. Listed(w, e) = Listed(v, e)
  BY <1>7, ListedFirst
<1> QED
  BY <1>8 DEF w

LEMMA InsertLast ==
  ASSUME NEW X, NEW s \in Seq(X), NEW x \in X
  PROVE  InsertAt(s, Len(s) + 1, x) = s \o <<x>>
<1> DEFINE o == <<x>>
           none == <<>>
<1>1. o \in Seq(X) /\ none \in Seq(X)
  BY OneIs, EmptyIs
<1>2. s \o none = s
  BY JoinEmpty
<1>3. o \o none = o
  <2>1. o \in Seq(X)
    BY <1>1
  <2> HIDE DEF o
  <2> QED
    BY <2>1, JoinEmpty
<1> HIDE DEF none
<1>4. Parts(InsertAt(s \o none, Len(s) + 1, x), s, x, none)
  <2>1. none \in Seq(X)
    BY <1>1
  <2> QED
    BY <2>1, InsertInto
<1>5. InsertAt(s, Len(s) + 1, x) = s \o (o \o none)
  BY <1>2, <1>4 DEF Parts
<1> QED
  BY <1>3, <1>5

(* One more element at the end of an extended list.                        *)
LEMMA ExtendStep ==
  ASSUME NEW v \in ViewSet, NEW p \in Parent, NEW S, NEW ent \in Seq(ItemSet),
         \A x \in ToSet(ent) : x.el \in S, NEW e \in Elem, e \notin S
  PROVE  LET w == Extended(v, p, S, ent)
         IN  MovedTo(w, p, e, Len(Items(Without(w, {e}), p)) + 1)
               = Extended(v, p, S \cup {e}, ent \o <<Listed(v, e)>>)
<1> DEFINE w == Extended(v, p, S, ent)
           x == Listed(v, e)
           o == <<x>>
           T == S \cup {e}
           a == Extended(v, p, T, ent)
           m == Keeping(v[p].items, T)
           n == ent \o o
           u == Extended(v, p, T, n)
<1>1. Without(w, {e}) = a
  BY ExtendedWithout
<1>2. Listed(w, e) = x
  BY ListedStays
<1>3. x \in ItemSet
  BY ListedTyped
<1> HIDE DEF x
<1>4. o \in Seq(ItemSet)
  BY <1>3, OneIs
<1>5. /\ a \in ViewSet /\ m \in Seq(ItemSet) /\ a[p].items = m \o ent
      /\ \A q \in Parent : /\ a[q].lead = v[q].lead
                           /\ q # p => a[q].items = Keeping(v[q].items, T)
  BY ExtendedIs
<1>6. n \in Seq(ItemSet)
  BY <1>4, JoinIs
<1> HIDE DEF n
<1>7. /\ u \in ViewSet /\ u[p].items = m \o n
      /\ \A q \in Parent : /\ u[q].lead = v[q].lead
                           /\ q # p => u[q].items = Keeping(v[q].items, T)
  BY <1>6, ExtendedIs
<1> HIDE DEF w, a, u, o
<1> DEFINE i == a[p].items
           r == InsertAt(i, Len(i) + 1, x)
<1>8. i \in Seq(ItemSet)
  BY <1>5 DEF ViewSet
<1>9. r = i \o o
  <2> HIDE DEF i
  <2> QED
    BY <1>3, <1>8, InsertLast DEF o
<1>10. (m \o ent) \o o = m \o n
  <2>1. All3(ItemSet, m, ent, o)
    BY <1>4, <1>5 DEF All3
  <2> HIDE DEF m
  <2>2. (m \o ent) \o o = m \o (ent \o o)
    BY <2>1, Assoc
  <2> QED
    BY <2>2 DEF n
<1>11. r = u[p].items
  BY <1>5, <1>7, <1>9, <1>10
<1>12. r \in Seq(ItemSet)
  <2>1. u[p].items \in Seq(ItemSet)
    BY <1>7 DEF ViewSet
  <2> HIDE DEF r
  <2> QED
    BY <1>11, <2>1
<1>13. MovedTo(w, p, e, Len(Items(Without(w, {e}), p)) + 1) = WithItems(a, p, r)
  BY <1>1, <1>2, MovedIs DEF Items
<1> HIDE DEF r
<1>14. /\ WithItems(a, p, r) \in ViewSet
       /\ WithItems(a, p, r)[p].items = r
       /\ \A q \in Parent : /\ WithItems(a, p, r)[q].lead = a[q].lead
                            /\ q # p => WithItems(a, p, r)[q].items = a[q].items
  BY <1>5, <1>12, WithItemsOf
<1>15. ASSUME NEW q \in Parent
       PROVE  /\ WithItems(a, p, r)[q].lead = u[q].lead
              /\ WithItems(a, p, r)[q].items = u[q].items
  <2>1. CASE q = p
    BY <1>5, <1>7, <1>11, <1>14, <2>1
  <2>2. CASE q # p
    BY <1>5, <1>7, <1>14, <2>2
  <2> QED
    BY <2>1, <2>2
<1>16. WithItems(a, p, r) = u
  BY <1>7, <1>14, <1>15, SameView
<1> QED
  BY <1>13, <1>16 DEF w, u, n, o, x, T

LEMMA AppendPlaces ==
  ASSUME NEW k \in Sound, NEW p \in Parent, NEW e \in Elem
  PROVE  /\ AppendTo(k, p, e) \in Sound
         /\ View(AppendTo(k, p, e))
              = MovedTo(View(k), p, e, Len(Items(Without(View(k), {e}), p)) + 1)
<1> DEFINE d == Extract(k, e)
           s == d[p]
           none == <<>>
<1>1. d \in Sound /\ View(d) = Without(View(k), {e})
  BY Leaving
<1>2. s \in Plain /\ s \in Seq(Node) /\ Items(View(d), p) = Row(s)
  BY <1>1, SoundPlain, ItemsOf DEF Items
<1>3. none \in Seq(Node) /\ Solid(none) /\ Anchored(d[p], s, NoNode, none)
  BY EmptyIs DEF Solid, Anchored
<1> HIDE DEF none
<1>4. /\ Attach(d, p, e, TailRun(k, e), NoNode) \in Sound
      /\ View(Attach(d, p, e, TailRun(k, e), NoNode)) = MovedTo(View(k), p, e, Len(Row(s)) + 1)
  <2>1. s \in Seq(Node)
    BY <1>2
  <2> HIDE DEF s
  <2> QED
    BY <2>1, <1>3, AttachPlaces DEF d
<1>5. AppendTo(k, p, e) = Attach(d, p, e, TailRun(k, e), NoNode)
  BY DEF AppendTo
<1> HIDE DEF d, s
<1> QED
  BY <1>1, <1>2, <1>4, <1>5

(* extend adds the entries in their order, each taken from where it was.   *)
LEMMA ExtendAgrees ==
  ASSUME NEW k \in Sound, NEW p \in Parent, NEW els \in Seq(Elem), Distinct(els)
  PROVE  View(ExtendBy(k, p, els)) = ListExtend(View(k), p, els)
<1> DEFINE n == Len(els)
           v == View(k)
           S(i) == {els[j] : j \in 1..i}
           ent(i) == [j \in 1..i |-> Listed(v, els[j])]
<1>1. n \in Nat /\ DOMAIN els = 1..n /\ \A i \in 1..n : els[i] \in Elem
  OBVIOUS
<1>2. PICK f \in [0..n -> Unmoved(k, ToSet(els) \cup Text)] :
         /\ f[0] = k /\ f[n] = ExtendBy(k, p, els)
         /\ \A i \in 1..n : f[i] = AppendTo(f[i - 1], p, els[i])
  BY ExtendLoop
<1>3. \A i \in 0..n : f[i] \in Sound
  BY <1>2, UnmovedSound
<1>4. v \in ViewSet
  BY ViewTyped
<1> HIDE DEF v, n
<1>5. ASSUME NEW i \in 0..n PROVE ent(i) \in Seq(ItemSet) /\ \A x \in ToSet(ent(i)) : x.el \in S(i)
  <2>1. \A j \in 1..i : Listed(v, els[j]) \in ItemSet /\ Listed(v, els[j]).el = els[j]
    BY <1>1, <1>4, ListedTyped
  <2>2. DOMAIN ent(i) = 1..i /\ \A j \in 1..i : ent(i)[j] = Listed(v, els[j])
    OBVIOUS
  <2>3. ent(i) \in Seq(ItemSet)
    BY <1>1, <2>1
  <2>4. \A x \in ToSet(ent(i)) : \E j \in 1..i : x = Listed(v, els[j])
    BY <2>2 DEF ToSet
  <2> QED
    BY <2>1, <2>3, <2>4
<1> DEFINE H == {i \in 0..n : View(f[i]) = Extended(v, p, S(i), ent(i))}
<1>6. 0 \in H
  <2>1. S(0) = {} /\ ent(0) = <<>>
    OBVIOUS
  <2>2. Extended(v, p, {}, <<>>) = v
    <3> DEFINE none == <<>>
               w == Extended(v, p, {}, none)
    <3>1. none \in Seq(ItemSet)
      BY EmptyIs
    <3>2. \A q \in Parent : v[q].items \in Seq(ItemSet) /\ Keeping(v[q].items, {}) = v[q].items
      <4>1. \A q \in Parent : v[q].items \in Seq(ItemSet)
        BY <1>4 DEF ViewSet
      <4> QED
        BY <4>1, KeepingIs
    <3>3. v[p].items \o none = v[p].items
      <4>1. v[p].items \in Seq(ItemSet)
        BY <3>2
      <4> QED
        BY <4>1, JoinEmpty
    <3> HIDE DEF none
    <3>4. /\ w \in ViewSet /\ w[p].items = Keeping(v[p].items, {}) \o none
          /\ \A q \in Parent : /\ w[q].lead = v[q].lead
                               /\ q # p => w[q].items = Keeping(v[q].items, {})
      BY <1>4, <3>1, ExtendedIs
    <3> HIDE DEF w
    <3>5. \A q \in Parent : w[q].lead = v[q].lead /\ w[q].items = v[q].items
      BY <3>2, <3>3, <3>4
    <3>6. w = v
      BY <1>4, <3>4, <3>5, SameView
    <3> QED
      BY <3>6 DEF w, none
  <2>3. View(f[0]) = v
    BY <1>2 DEF v
  <2> HIDE DEF S, ent
  <2>4. View(f[0]) = Extended(v, p, S(0), ent(0))
    BY <2>1, <2>2, <2>3
  <2>5. 0 \in 0..n
    BY <1>1
  <2> QED
    BY <2>4, <2>5
<1>7. ASSUME NEW i \in 1..n, i - 1 \in H PROVE i \in H
  <2> DEFINE h == i - 1
             e == els[i]
             w == Extended(v, p, S(h), ent(h))
  <2>1. h \in 0..n /\ i \in 0..n /\ i = h + 1 /\ e \in Elem
    BY <1>1
  <2>2. View(f[h]) = w /\ f[h] \in Sound
    BY <1>3, <1>7, <2>1
  <2>3. S(i) = S(h) \cup {e}
    <3>1. 1..i = (1..h) \cup {i}
      BY <1>1
    <3> HIDE DEF h
    <3> QED
      BY <3>1
  <2>4. e \notin S(h)
    <3>1. \A j \in 1..h : j \in DOMAIN els /\ j # i
      BY <1>1
    <3>2. i \in DOMAIN els
      BY <1>1
    <3> QED
      BY <3>1, <3>2 DEF Distinct
  <2>5. ent(h) \in Seq(ItemSet) /\ \A x \in ToSet(ent(h)) : x.el \in S(h)
    BY <1>5, <2>1
  <2>6. ent(i) = ent(h) \o <<Listed(v, e)>>
    <3> DEFINE o == <<Listed(v, e)>>
               l == ent(h)
               u == ent(i)
    <3>1. Listed(v, e) \in ItemSet
      BY <1>4, <2>1, ListedTyped
    <3>2. o \in Seq(ItemSet) /\ Len(o) = 1 /\ o[1] = Listed(v, e)
      BY <3>1, OneIs
    <3>3. Len(l) = h /\ DOMAIN l = 1..h /\ \A j \in 1..h : l[j] = Listed(v, els[j])
      BY <2>1
    <3>4. /\ u \in Seq(ItemSet) /\ Len(u) = i
          /\ \A j \in 1..i : u[j] = Listed(v, els[j])
      BY <1>5, <2>1
    <3>5. l \in Seq(ItemSet)
      BY <2>5
    <3>6. u[i] = Listed(v, e)
      BY <2>1, <3>4
    <3> HIDE DEF o, l, u, e, h
    <3>o. o \in Seq(ItemSet)
      BY <3>2
    <3>7. /\ l \o o \in Seq(ItemSet) /\ Len(l \o o) = Len(l) + Len(o)
          /\ \A j \in 1..Len(l) : (l \o o)[j] = l[j]
          /\ \A j \in 1..Len(o) : (l \o o)[Len(l) + j] = o[j]
      BY <3>5, <3>o, JoinIs
    <3> DEFINE c == l \o o
    <3> HIDE DEF c
    <3>8. /\ c \in Seq(ItemSet) /\ Len(c) = h + 1 /\ \A j \in 1..h : c[j] = l[j]
          /\ c[h + 1] = o[1]
      <4>1. 1 \in 1..Len(o)
        BY <3>2
      <4> QED
        BY <3>2, <3>3, <3>7, <4>1 DEF c
    <3>9. ASSUME NEW j \in 1..Len(u) PROVE u[j] = c[j]
      <4>1. CASE j \in 1..h
        BY <2>1, <3>3, <3>4, <3>8, <4>1
      <4>2. CASE j \notin 1..h
        <5>1. j = i
          BY <2>1, <3>4, <4>2
        <5> QED
          BY <2>1, <3>2, <3>6, <3>8, <5>1
      <4> QED
        BY <4>1, <4>2
    <3>10. Len(u) = Len(c)
      BY <2>1, <3>4, <3>8
    <3>11. u = c
      <4>1. u \in Seq(ItemSet) /\ c \in Seq(ItemSet)
        BY <3>4, <3>8
      <4> QED
        BY <3>9, <3>10, <4>1, SameSeq
    <3> QED
      BY <3>11 DEF c, l, o, u
  <2>7. f[i] = AppendTo(f[h], p, e)
    BY <1>2
  <2> HIDE DEF S, ent, h, e
  <2>8. MovedTo(w, p, e, Len(Items(Without(w, {e}), p)) + 1)
          = Extended(v, p, S(h) \cup {e}, ent(h) \o <<Listed(v, e)>>)
    BY <1>4, <2>1, <2>4, <2>5, ExtendStep
  <2> HIDE DEF w
  <2>9. View(AppendTo(f[h], p, e)) = MovedTo(w, p, e, Len(Items(Without(w, {e}), p)) + 1)
    BY <2>1, <2>2, AppendPlaces
  <2>10. View(f[i]) = Extended(v, p, S(i), ent(i))
    BY <2>3, <2>6, <2>7, <2>8, <2>9
  <2> QED
    BY <2>1, <2>10
<1>8. n \in H
  <2>1. 0..n \subseteq H
    <3> HIDE DEF H
    <3> QED
      BY <1>1, <1>6, <1>7, Induction
  <2>2. n \in 0..n
    BY <1>1
  <2> HIDE DEF H
  <2> QED
    BY <2>1, <2>2
<1>9. View(ExtendBy(k, p, els)) = Extended(v, p, S(n), ent(n))
  BY <1>2, <1>8
<1>10. S(n) = ToSet(els) /\ ent(n) = Entries(v, els)
  BY <1>1 DEF ToSet, Entries
<1> HIDE DEF S, ent
<1>11. ListExtend(v, p, els) = Extended(v, p, ToSet(els), Entries(v, els))
  <2> DEFINE a == Without(v, ToSet(els))
  <2>1. a[p].items = Keeping(v[p].items, ToSet(els))
    BY <1>4, WithoutOf
  <2> DEFINE m == Entries(v, els)
  <2>2. ListExtend(v, p, els) = [a EXCEPT ![p].items = @ \o m]
    BY DEF ListExtend
  <2> HIDE DEF a, m
  <2>3. [a EXCEPT ![p].items = @ \o m] = [a EXCEPT ![p].items = a[p].items \o m]
    OBVIOUS
  <2> QED
    BY <2>1, <2>2, <2>3 DEF Extended, WithItems, Items, a, m
<1> QED
  BY <1>9, <1>10, <1>11 DEF v

(* Each item in a slot of its own, kept or not.                            *)
Mapped(a, S) == [i \in DOMAIN a |-> Keeping(<<a[i]>>, S)]

LEMMA MappedIs ==
  ASSUME NEW X, NEW a \in Seq(X), NEW S
  PROVE  /\ Mapped(a, S) \in Seq(Seq(X)) /\ Len(Mapped(a, S)) = Len(a)
         /\ \A i \in 1..Len(a) : Mapped(a, S)[i] = Keeping(<<a[i]>>, S)
<1>1. Len(a) \in Nat /\ DOMAIN a = 1..Len(a) /\ \A i \in 1..Len(a) : a[i] \in X
  OBVIOUS
<1>2. ASSUME NEW i \in 1..Len(a) PROVE Keeping(<<a[i]>>, S) \in Seq(X)
  <2> DEFINE o == <<a[i]>>
  <2>1. o \in Seq(X)
    BY <1>1, OneIs
  <2> HIDE DEF o
  <2>2. Keeping(o, S) \in Seq(X)
    BY <2>1, KeepingIs
  <2> QED
    BY <2>2 DEF o
<1>3. Mapped(a, S) = [i \in 1..Len(a) |-> Keeping(<<a[i]>>, S)]
  BY <1>1 DEF Mapped
<1> QED
  BY <1>1, <1>2, <1>3

LEMMA MappedAppend ==
  ASSUME NEW X, NEW a \in Seq(X), NEW x \in X, NEW S
  PROVE  Mapped(a \o <<x>>, S) = Mapped(a, S) \o <<Keeping(<<x>>, S)>>
<1> DEFINE o == <<x>>
           c == a \o o
           u == Keeping(<<x>>, S)
           q == <<u>>
           m == Mapped(a, S)
           w == m \o q
           r == Mapped(c, S)
           Y == Seq(X)
<1>1. o \in Seq(X) /\ Len(o) = 1 /\ o[1] = x
  BY OneIs
<1>o. o \in Seq(X)
  BY <1>1
<1>2. u \in Y
  <2>1. Keeping(o, S) \in Seq(X)
    <3> HIDE DEF o
    <3> QED
      BY <1>o, KeepingIs
  <2> QED
    BY <2>1
<1> HIDE DEF u
<1>3. q \in Seq(Y) /\ Len(q) = 1 /\ q[1] = u
  BY <1>2, OneIs
<1>q. q \in Seq(Y)
  BY <1>3
<1>4. m \in Seq(Y) /\ Len(m) = Len(a) /\ \A i \in 1..Len(a) : m[i] = Keeping(<<a[i]>>, S)
  BY MappedIs
<1>m. m \in Seq(Y)
  BY <1>4
<1> HIDE DEF o, q, m, Y
<1>5. /\ c \in Seq(X) /\ Len(c) = Len(a) + Len(o) /\ Len(a) \in Nat
      /\ \A i \in 1..Len(a) : c[i] = a[i]
      /\ \A i \in 1..Len(o) : c[Len(a) + i] = o[i]
  BY <1>o, JoinIs
<1>6. /\ w \in Seq(Y) /\ Len(w) = Len(m) + Len(q)
      /\ \A i \in 1..Len(m) : w[i] = m[i]
      /\ \A i \in 1..Len(q) : w[Len(m) + i] = q[i]
  BY <1>m, <1>q, JoinIs
<1> HIDE DEF c, w
<1>7. r \in Seq(Y) /\ Len(r) = Len(c) /\ \A i \in 1..Len(c) : r[i] = Keeping(<<c[i]>>, S)
  BY <1>5, MappedIs DEF Y
<1> HIDE DEF r
<1>8. c[Len(a) + 1] = x /\ w[Len(a) + 1] = u /\ Len(c) = Len(a) + 1 /\ Len(w) = Len(a) + 1
  <2>1. 1 \in 1..Len(o) /\ 1 \in 1..Len(q)
    BY <1>1, <1>3
  <2> QED
    BY <1>1, <1>3, <1>4, <1>5, <1>6, <2>1
<1>9. ASSUME NEW i \in 1..Len(r) PROVE r[i] = w[i]
  <2>1. i \in 1..(Len(a) + 1) /\ i \in 1..Len(c)
    BY <1>7, <1>8
  <2>2. CASE i \in 1..Len(a)
    BY <1>4, <1>5, <1>6, <1>7, <2>1, <2>2
  <2>3. CASE i \notin 1..Len(a)
    <3>1. i = Len(a) + 1
      BY <1>5, <2>1, <2>3
    <3> QED
      BY <1>7, <1>8, <2>1, <3>1 DEF u
  <2> QED
    BY <2>2, <2>3
<1>10. r = w
  <2>1. Len(r) = Len(w) /\ r \in Seq(Y) /\ w \in Seq(Y)
    BY <1>6, <1>7, <1>8
  <2> QED
    BY <1>9, <2>1, SameSeq
<1> QED
  BY <1>10 DEF r, w, c, o, q, m, u

LEMMA FlattenMapped ==
  ASSUME NEW X, NEW a \in Seq(X), NEW S
  PROVE  FlattenSeq(Mapped(a, S)) = Keeping(a, S)
<1> DEFINE G == {s \in Seq(X) : FlattenSeq(Mapped(s, S)) = Keeping(s, S)}
<1>1. <<>> \in G
  <2> DEFINE none == <<>>
  <2>1. Mapped(none, S) = <<>>
    <3>1. DOMAIN none = {}
      BY EmptyIs
    <3> QED
      BY <3>1 DEF Mapped
  <2>2. none \in Seq(X) /\ ToSet(none) = {}
    BY EmptyIs
  <2> HIDE DEF none
  <2>3. Keeping(none, S) = none
    BY <2>2, KeepingIs
  <2>4. FlattenSeq(Mapped(none, S)) = Keeping(none, S)
    BY <2>1, <2>3, FlattenEmpty DEF none
  <2> QED
    BY <2>2, <2>4 DEF none
<1>2. ASSUME NEW s \in Seq(X), NEW x \in X, s \in G PROVE s \o <<x>> \in G
  <2> DEFINE u == Keeping(<<x>>, S)
             m == Mapped(s, S)
  <2>1. m \in Seq(Seq(X))
    BY MappedIs
  <2>o. <<x>> \in Seq(X)
    BY OneIs
  <2>2. u \in Seq(X)
    BY <2>o, KeepingIs
  <2>3. Mapped(s \o <<x>>, S) = m \o <<u>>
    BY MappedAppend
  <2>4. FlattenSeq(m) = Keeping(s, S)
    BY <1>2
  <2>5. Keeping(s \o <<x>>, S) = Keeping(s, S) \o u
    <3> DEFINE o == <<x>>
    <3>1. o \in Seq(X)
      BY <2>o
    <3> HIDE DEF o
    <3>2. Keeping(s \o o, S) = Keeping(s, S) \o Keeping(o, S)
      BY <3>1, KeepingJoin
    <3> QED
      BY <3>2 DEF o
  <2> HIDE DEF m, u
  <2>6. FlattenSeq(m \o <<u>>) = FlattenSeq(m) \o u
    BY <2>1, <2>2, FlattenAppend
  <2>7. s \o <<x>> \in Seq(X)
    BY Longer
  <2> QED
    BY <2>3, <2>4, <2>5, <2>6, <2>7
<1> HIDE DEF G
<1>3. Seq(X) \subseteq G
  BY <1>1, <1>2, AppendInduction
<1> QED
  BY <1>3 DEF G

-----------------------------------------------------------------------------
(* replace and el[i] = new.                                                *)
SplitOf(X, s, a, x, b) == a \in Seq(X) /\ x \in X /\ b \in Seq(X) /\ Parts(s, a, x, b)

LEMMA SplitIs ==
  ASSUME NEW X, NEW s, NEW a, NEW x, NEW b, SplitOf(X, s, a, x, b)
  PROVE  /\ s \in Seq(X) /\ Len(a) \in Nat /\ Len(b) \in Nat
         /\ Len(s) = Len(a) + 1 + Len(b)
         /\ DOMAIN a = 1..Len(a) /\ DOMAIN b = 1..Len(b)
         /\ DOMAIN s = 1..(Len(a) + 1 + Len(b))
         /\ \A i \in 1..Len(a) : s[i] = a[i]
         /\ s[Len(a) + 1] = x
         /\ \A i \in 1..Len(b) : s[Len(a) + 1 + i] = b[i]
         /\ ToSet(s) = ToSet(a) \cup {x} \cup ToSet(b)
BY PartsAre DEF SplitOf

SplitParts(s, a, b) ==
  /\ Len(a) \in Nat /\ Len(b) \in Nat
  /\ Len(s) = Len(a) + 1 + Len(b)
  /\ \A i \in 1..Len(a) : s[i] = a[i]
  /\ \A i \in 1..Len(b) : s[Len(a) + 1 + i] = b[i]

LEMMA SplitPartsOf ==
  ASSUME NEW X, NEW s, NEW a, NEW x, NEW b, SplitOf(X, s, a, x, b)
  PROVE  SplitParts(s, a, b)
BY SplitIs DEF SplitParts

LEMMA SameSplit ==
  ASSUME NEW X, NEW s, NEW a, NEW x, NEW b, SplitOf(X, s, a, x, b),
         NEW c, NEW y, NEW d, SplitOf(X, s, c, y, d), Len(a) = Len(c)
  PROVE  a = c /\ b = d
<1>0. a \in Seq(X) /\ b \in Seq(X) /\ c \in Seq(X) /\ d \in Seq(X)
  BY DEF SplitOf
<1>1. /\ Len(a) \in Nat /\ Len(b) \in Nat
      /\ Len(s) = Len(a) + 1 + Len(b)
      /\ \A i \in 1..Len(a) : s[i] = a[i]
      /\ \A i \in 1..Len(b) : s[Len(a) + 1 + i] = b[i]
  <2>1. SplitParts(s, a, b)
    BY SplitPartsOf
  <2> QED
    BY <2>1 DEF SplitParts
<1>2. /\ Len(c) \in Nat /\ Len(d) \in Nat
      /\ Len(s) = Len(c) + 1 + Len(d)
      /\ \A i \in 1..Len(c) : s[i] = c[i]
      /\ \A i \in 1..Len(d) : s[Len(c) + 1 + i] = d[i]
  <2>1. SplitParts(s, c, d)
    BY SplitPartsOf
  <2> QED
    BY <2>1 DEF SplitParts
<1>3. Len(b) = Len(d)
  BY <1>1, <1>2
<1>4. a = c
  <2>1. \A i \in 1..Len(a) : a[i] = c[i]
    BY <1>1, <1>2
  <2> QED
    BY <1>0, <2>1, SameSeq
<1>5. b = d
  <2>1. \A i \in 1..Len(b) : b[i] = d[i]
    BY <1>1, <1>2, <1>3
  <2> QED
    BY <1>0, <1>3, <2>1, SameSeq
<1> QED
  BY <1>4, <1>5

LEMMA KeepingParts ==
  ASSUME NEW X, NEW a \in Seq(X), NEW x \in X, NEW b \in Seq(X), NEW s, NEW S,
         Parts(s, a, x, b), x.el \notin S
  PROVE  /\ Keeping(a, S) \in Seq(X) /\ Keeping(b, S) \in Seq(X)
         /\ Parts(Keeping(s, S), Keeping(a, S), x, Keeping(b, S))
<1> DEFINE o == <<x>>
           ob == o \o b
<1>1. o \in Seq(X)
  BY OneIs
<1>2. Keeping(o, S) = o
  BY KeepingOne
<1>3. s = a \o ob
  BY DEF Parts
<1> HIDE DEF o
<1>4. ob \in Seq(X)
  BY <1>1, JoinIs
<1>5. Keeping(ob, S) = Keeping(o, S) \o Keeping(b, S)
  BY <1>1, KeepingJoin
<1> HIDE DEF ob
<1>6. Keeping(a \o ob, S) = Keeping(a, S) \o Keeping(ob, S)
  BY <1>4, KeepingJoin
<1>7. Keeping(s, S) = Keeping(a, S) \o (o \o Keeping(b, S))
  BY <1>2, <1>3, <1>5, <1>6
<1>8. Parts(Keeping(s, S), Keeping(a, S), x, Keeping(b, S))
  BY <1>7 DEF Parts, o
<1>9. Keeping(a, S) \in Seq(X) /\ Keeping(b, S) \in Seq(X)
  BY KeepingIs
<1> QED
  BY <1>8, <1>9

(* One slot replaced, the others kept or not.                              *)
LEMMA OneSlot ==
  ASSUME NEW X, NEW a \in Seq(X), NEW x \in X, NEW b \in Seq(X), NEW s, NEW S,
         Parts(s, a, x, b), NEW y \in X, NEW r,
         r = [j \in DOMAIN s |-> IF j = Len(a) + 1 THEN <<y>> ELSE Keeping(<<s[j]>>, S)]
  PROVE  Parts(FlattenSeq(r), Keeping(a, S), y, Keeping(b, S))
<1> DEFINE Y == Seq(X)
           u == <<y>>
           ma == Mapped(a, S)
           mb == Mapped(b, S)
           q == <<u>>
           qb == q \o mb
           w == ma \o qb
<1>1. /\ s \in Seq(X) /\ Len(a) \in Nat /\ Len(b) \in Nat
      /\ Len(s) = Len(a) + 1 + Len(b)
      /\ DOMAIN s = 1..(Len(a) + 1 + Len(b))
      /\ \A i \in 1..Len(a) : s[i] = a[i]
      /\ \A i \in 1..Len(b) : s[Len(a) + 1 + i] = b[i]
  BY PartsAre
<1>2. u \in Y
  BY OneIs
<1>3. q \in Seq(Y)
  <2> HIDE DEF u
  <2> QED
    BY <1>2, OneIs
<1>4. ma \in Seq(Y) /\ Len(ma) = Len(a) /\ \A i \in 1..Len(a) : ma[i] = Keeping(<<a[i]>>, S)
  BY MappedIs
<1>5. mb \in Seq(Y) /\ Len(mb) = Len(b) /\ \A i \in 1..Len(b) : mb[i] = Keeping(<<b[i]>>, S)
  BY MappedIs
<1>6. FlattenSeq(ma) = Keeping(a, S) /\ FlattenSeq(mb) = Keeping(b, S)
  BY FlattenMapped
<1>7. FlattenSeq(q) = u
  <2> HIDE DEF u
  <2> QED
    BY <1>2, FlattenOne
<1>8. Parts(w, ma, u, mb)
  BY DEF Parts
<1>9. ma \in Seq(Seq(X)) /\ mb \in Seq(Seq(X)) /\ q \in Seq(Seq(X))
  BY <1>3, <1>4, <1>5
<1> HIDE DEF ma, mb, q
<1>10. FlattenSeq(qb) = FlattenSeq(q) \o FlattenSeq(mb)
  BY <1>9, FlattenJoin
<1>11. qb \in Seq(Y)
  BY <1>9, JoinIs
<1> HIDE DEF qb
<1>12. FlattenSeq(w) = FlattenSeq(ma) \o FlattenSeq(qb)
  BY <1>9, <1>11, FlattenJoin
<1> HIDE DEF w
<1>13. Parts(FlattenSeq(w), Keeping(a, S), y, Keeping(b, S))
  BY <1>6, <1>7, <1>10, <1>12 DEF Parts, u
<1> HIDE DEF u, Y
<1>14. /\ w \in Seq(Y) /\ Len(w) = Len(ma) + 1 + Len(mb)
       /\ \A i \in 1..Len(ma) : w[i] = ma[i]
       /\ w[Len(ma) + 1] = u
       /\ \A i \in 1..Len(mb) : w[Len(ma) + 1 + i] = mb[i]
  <2>1. SplitOf(Y, w, ma, u, mb)
    BY <1>2, <1>4, <1>5, <1>8 DEF SplitOf
  <2> QED
    BY <2>1, SplitIs
<1> DEFINE n == Len(a) + 1 + Len(b)
<1>15. DOMAIN r = 1..n /\ DOMAIN w = 1..n /\ n \in Nat
  BY <1>1, <1>4, <1>5, <1>14
<1>16. ASSUME NEW i \in 1..n PROVE r[i] = w[i]
  <2>1. r[i] = IF i = Len(a) + 1 THEN u ELSE Keeping(<<s[i]>>, S)
    BY <1>1 DEF u
  <2>2. CASE i \in 1..Len(a)
    <3>1. i # Len(a) + 1 /\ s[i] = a[i] /\ w[i] = ma[i] /\ ma[i] = Keeping(<<a[i]>>, S)
      BY <1>1, <1>4, <1>14, <2>2
    <3> QED
      BY <2>1, <3>1
  <2>3. CASE i = Len(a) + 1
    BY <1>4, <1>14, <2>1, <2>3
  <2>4. CASE i \notin 1..Len(a) /\ i # Len(a) + 1
    <3> DEFINE j == i - (Len(a) + 1)
    <3>1. j \in 1..Len(b) /\ Len(a) + 1 + j = i
      BY <1>1, <2>4
    <3> HIDE DEF j
    <3>2. s[Len(a) + 1 + j] = b[j] /\ w[Len(a) + 1 + j] = mb[j] /\ mb[j] = Keeping(<<b[j]>>, S)
      BY <1>1, <1>4, <1>5, <1>14, <3>1
    <3> QED
      BY <2>1, <2>4, <3>1, <3>2
  <2> QED
    BY <2>2, <2>3, <2>4
<1>17. r = w
  <2>1. r = [i \in 1..n |-> r[i]]
    BY <1>15
  <2>2. w = [i \in 1..n |-> w[i]]
    <3>1. w = [i \in DOMAIN w |-> w[i]]
      BY <1>14
    <3> QED
      BY <1>15, <3>1
  <2> QED
    BY <1>16, <2>1, <2>2
<1> QED
  BY <1>13, <1>17

LEMMA ReplaceIs ==
  ASSUME NEW k \in Sound, NEW p \in Parent, NEW old \in Elem, NEW e \in Elem, old # e,
         IsChild(k, p, old)
  PROVE  \E a, b \in Seq(Node), to \in Seq(Text) :
           /\ Parts(Extract(k, e)[p], a, old, to \o b) /\ Solid(b)
           /\ Becomes(Extract(k, e), ReplaceIn(k, p, old, e), p, Block(a, e, TailRun(k, e), b))
<1> DEFINE d == Extract(k, e)
           t == TailRun(k, e)
           to == TailRun(d, old)
           k1 == InsertBefore(d, p, e, old)
           k2 == Extract(k1, old)
           c == AttachTail(k2, p, t, e)
<1>e. e \in Node /\ old \in Node /\ e \notin Text
  BY ChildListAssumption DEF Node
<1>1. /\ d \in Sound /\ t \in Seq(Text) /\ t \in Plain
      /\ Homeless(d, {e}) /\ Homeless(d, ToSet(t))
  BY Leaving
<1>2. old \in ToSet(d[p])
  BY StaysWhenLeaving
<1>3. ReplaceIn(k, p, old, e) = c
  BY DEF ReplaceIn
<1> HIDE DEF t, d
<1>4. to \in Seq(Text) /\ \E a, b \in Seq(Node) : Parts(d[p], a, old, to \o b) /\ Solid(b)
  BY <1>1, <1>2, BlockIs
<1>5. PICK a \in Seq(Node), b \in Seq(Node) : Parts(d[p], a, old, to \o b) /\ Solid(b)
  BY <1>4
<1> HIDE DEF to
<1>6. to \in Seq(Node) /\ ToSet(t) \subseteq Text
  BY <1>1, <1>4, TextNodes
<1>7. All3(Node, a, to, to)
  BY <1>6 DEF All3
<1> DEFINE a1 == a \o <<e>>
           rb == to \o b
<1>8. /\ a1 \in Seq(Node) /\ rb \in Seq(Node)
      /\ Parts(a \o (<<e>> \o (<<old>> \o rb)), a1, old, rb)
      /\ Parts(a1, a, e, <<>>)
  BY <1>e, <1>7, BlockAfter
<1>9. Parts(d[p], a, old, rb)
  BY <1>5
<1>l. Lead(rb) = to
  BY <1>4, <1>5, LeadJoin
<1>10. Becomes(d, k1, p, a \o (<<e>> \o (<<old>> \o rb)))
  <2>1. rb \in Seq(Node)
    BY <1>8
  <2> HIDE DEF rb
  <2> QED
    BY <1>e, <1>1, <1>9, <2>1, InsertBeforeIs
<1> HIDE DEF k1, a1
<1>11. k1 \in Sound /\ Parts(k1[p], a1, old, to \o b) /\ \A q \in Parent : q # p => k1[q] = d[q]
  BY <1>8, <1>10 DEF Becomes
<1>12. Parts(k1[p], a1, old, rb)
  BY <1>11
<1> HIDE DEF rb
<1>13. old \in ToSet(k1[p]) /\ k1[p] \in Plain
  <2>1. ToSet(k1[p]) = ToSet(a1) \cup {old} \cup ToSet(rb)
    BY <1>e, <1>8, <1>12, PartsAre
  <2> QED
    BY <1>11, <2>1, SoundPlain
<1>14. TailRun(k1, old) = to
  <2>1. TailRun(k1, old) = TextRunAfter(k1[p], Pos(k1[p], old))
    BY <1>11, <1>13, HomeIs
  <2>2. TextRunAfter(k1[p], Pos(k1[p], old)) = Lead(rb)
    BY <1>8, <1>12, <1>13, RunOf
  <2> QED
    BY <1>l, <2>1, <2>2
<1>15. /\ k2 \in Sound
       /\ \A q \in Parent : ToSet(k2[q]) \subseteq ToSet(k1[q])
       /\ \A q \in Parent : old \notin ToSet(k1[q]) => k2[q] = k1[q]
       /\ \A u, w \in Seq(Node) : Parts(k1[p], u, old, TailRun(k1, old) \o w) => k2[p] = u \o w
  <2>1. k1 \in Sound
    BY <1>11
  <2>2. Extracted(k1, old, k2)
    BY <2>1, ExtractedIs
  <2> HIDE DEF k1, k2
  <2> QED
    BY <2>2 DEF Extracted
<1>16. k2[p] = a1 \o b
  BY <1>8, <1>11, <1>14, <1>15
<1>17. \A q \in Parent : q # p => k2[q] = d[q]
  <2>1. \A q \in Parent : q # p => old \notin ToSet(k1[q])
    BY <1>11, <1>13, OneChain
  <2> QED
    BY <1>11, <1>15, <2>1
<1> HIDE DEF k2
<1>18. k2[p] = a \o (<<e>> \o b)
  <2> DEFINE o == <<e>>
  <2>1. o \in Seq(Node)
    BY <1>e, OneIs
  <2> HIDE DEF o
  <2>2. All3(Node, a, o, b)
    BY <2>1 DEF All3
  <2>3. (a \o o) \o b = a \o (o \o b)
    BY <2>2, Assoc
  <2> QED
    BY <1>16, <2>3 DEF a1, o
<1>19. Parts(k2[p], a, e, b)
  BY <1>18 DEF Parts
<1>20. Homeless(k2, ToSet(t))
  <2>1. ToSet(k2[p]) = ToSet(a) \cup {e} \cup ToSet(b)
    BY <1>e, <1>19, PartsAre
  <2>2. ToSet(k2[p]) \subseteq ToSet(a1) \cup {old} \cup ToSet(rb)
    <3>1. ToSet(k1[p]) = ToSet(a1) \cup {old} \cup ToSet(rb)
      BY <1>e, <1>8, <1>12, PartsAre
    <3> QED
      BY <1>15, <3>1
  <2>3. ToSet(a1) = ToSet(a) \cup {e}
    BY <1>e, Longer DEF a1
  <2>4. ToSet(d[p]) = ToSet(a) \cup {old} \cup ToSet(rb)
    BY <1>e, <1>8, <1>9, PartsAre
  <2>5. ToSet(k2[p]) \subseteq ToSet(d[p]) \cup {e}
    BY <2>2, <2>3, <2>4
  <2>6. ASSUME NEW q \in Parent PROVE ToSet(k2[q]) \cap ToSet(t) = {}
    <3>1. ToSet(d[q]) \cap ToSet(t) = {}
      BY <1>1 DEF Homeless
    <3>2. CASE q = p
      BY <1>e, <1>6, <2>5, <3>1, <3>2
    <3>3. CASE q # p
      BY <1>17, <3>1, <3>3
    <3> QED
      BY <3>2, <3>3
  <2> QED
    BY <2>6 DEF Homeless
<1>21. Becomes(k2, c, p, a \o (<<e>> \o (t \o b)))
  <2>1. k2 \in Sound
    BY <1>15
  <2> QED
    BY <1>1, <1>19, <1>20, <2>1, AttachTailIs
<1> HIDE DEF c
<1>22. Becomes(d, c, p, Block(a, e, t, b))
  BY <1>17, <1>21 DEF Becomes, Block
<1>23. Parts(d[p], a, old, to \o b)
  BY <1>5
<1> QED
  BY <1>3, <1>4, <1>5, <1>22, <1>23 DEF d, t

LEMMA BlockShows ==
  ASSUME NEW d \in Sound, NEW p \in Parent, NEW e \in Elem, NEW t \in Seq(Text),
         NEW a \in Seq(Node), NEW b \in Seq(Node), Solid(b), Lead(d[p]) = Lead(a),
         NEW c, Becomes(d, c, p, Block(a, e, t, b))
  PROVE  /\ c \in Sound /\ View(c) = WithItems(View(d), p, Row(c[p]))
         /\ Entry(e, t) \in ItemSet /\ Row(a) \in Seq(ItemSet) /\ Row(b) \in Seq(ItemSet)
         /\ Parts(Row(c[p]), Row(a), Entry(e, t), Row(b))
<1>1. c \in Sound /\ c[p] = a \o (<<e>> \o (t \o b)) /\ \A q \in Parent : q # p => c[q] = d[q]
  BY DEF Becomes, Block
<1>2. c[p] \in Plain
  BY <1>1, SoundPlain
<1>3. Parts(c[p], a, e, t \o b)
  BY <1>1 DEF Parts
<1>4. /\ Entry(e, t) \in ItemSet /\ Row(a) \in Seq(ItemSet) /\ Row(b) \in Seq(ItemSet)
      /\ Parts(Row(c[p]), Row(a), Entry(e, t), Row(b)) /\ Lead(c[p]) = Lead(a)
  BY <1>2, <1>3, RowBlock
<1>5. c \in Sound /\ \A q \in Parent : q # p => c[q] = d[q]
  BY <1>1
<1>6. View(c) = WithItems(View(d), p, Row(c[p]))
  BY <1>4, <1>5, ItemsChange
<1> QED
  BY <1>4, <1>5, <1>6

(* replace and el[i] = new put the entry where the old one was.            *)
LEMMA ReplacementAgrees ==
  ASSUME NEW k \in Sound, NEW p \in Parent, NEW i \in DOMAIN ContentChildren(k[p]),
         NEW e \in Elem, e # ContentChildren(k[p])[i]
  PROVE  View(SetItem(k, p, i - 1, e)) = ListAssign(View(k), p, <<i - 1>>, <<e>>)
<1> DEFINE s == k[p]
           old == ContentChildren(s)[i]
           d == Extract(k, e)
           t == TailRun(k, e)
           c == ReplaceIn(k, p, old, e)
           r == Row(s)
           v == View(k)
           x == Entry(e, t)
           S == {e}
<1>1. s \in Plain /\ s \in Seq(Node)
  BY SoundPlain
<1>2. /\ i \in 1..Len(r) /\ i \in Nat /\ r \in Seq(ItemSet) /\ DOMAIN r = 1..Len(r)
      /\ r[i].el = old /\ old \in ToSet(s) /\ old \in Elem
  <2>1. ContentChildren(s) \in Seq(Elem)
    BY <1>1, ChildrenAre
  <2>2. i \in 1..Len(ContentChildren(s)) /\ i \in Nat
    BY <2>1
  <2> QED
    BY <1>1, <2>2, RowIs
<1>3. SetItem(k, p, i - 1, e) = c
  <2>1. (i - 1) + 1 = i
    BY <1>2
  <2> QED
    BY <2>1 DEF SetItem
<1>4. old # e /\ IsChild(k, p, old)
  BY <1>2 DEF IsChild, Homes
<1>5. v \in ViewSet /\ v[p].items = r
  BY ViewTyped, ItemsOf
<1>6. Listed(v, e) = x /\ t \in Seq(Text)
  BY ListedIs
<1>7. d \in Sound /\ View(d) = Without(v, S)
  BY Leaving
<1> HIDE DEF s, old
<1>8. PICK a \in Seq(Node), b \in Seq(Node), to \in Seq(Text) :
        /\ Parts(d[p], a, old, to \o b) /\ Solid(b) /\ Becomes(d, c, p, Block(a, e, t, b))
  BY <1>2, <1>4, ReplaceIs
<1> HIDE DEF c, d, t, r, v
<1>9. d[p] \in Plain
  BY <1>7, SoundPlain
<1>10. /\ Entry(old, to) \in ItemSet /\ Row(a) \in Seq(ItemSet) /\ Row(b) \in Seq(ItemSet)
       /\ Parts(Row(d[p]), Row(a), Entry(old, to), Row(b)) /\ Lead(d[p]) = Lead(a)
  BY <1>2, <1>8, <1>9, RowBlock
<1>11. /\ View(c) = WithItems(View(d), p, Row(c[p]))
       /\ x \in ItemSet /\ Parts(Row(c[p]), Row(a), x, Row(b))
  BY <1>6, <1>7, <1>8, <1>10, BlockShows
<1> HIDE DEF x, S
<1> DEFINE it == r[i]
<1>12. PICK ra \in Seq(ItemSet), rb \in Seq(ItemSet) : Parts(r, ra, it, rb) /\ Len(ra) + 1 = i
  BY <1>2, SplitAt
<1>13. it \in ItemSet /\ it.el \notin S
  BY <1>2, <1>4 DEF S
<1> DEFINE ka == Keeping(ra, S)
           kb == Keeping(rb, S)
<1>i. it.el = old
  BY <1>2
<1> HIDE DEF it
<1>14. ka \in Seq(ItemSet) /\ kb \in Seq(ItemSet) /\ Parts(Keeping(r, S), ka, it, kb)
  BY <1>12, <1>13, KeepingParts
<1>15. Row(d[p]) = Keeping(r, S)
  <2>1. View(d)[p].items = Row(d[p])
    BY <1>7, ItemsOf
  <2>2. Without(v, S)[p].items = Keeping(v[p].items, S)
    BY <1>5, WithoutOf
  <2> QED
    BY <1>5, <1>7, <2>1, <2>2
<1> HIDE DEF ka, kb
<1>16. SplitOf(ItemSet, Row(d[p]), ka, it, kb)
  BY <1>13, <1>14, <1>15 DEF SplitOf
<1>17. SplitOf(ItemSet, Row(d[p]), Row(a), Entry(old, to), Row(b))
  BY <1>10 DEF SplitOf
<1>18. Len(ka) = Len(Row(a))
  <2> DEFINE n == Len(ka) + 1
  <2>1. /\ Len(ka) \in Nat /\ Len(kb) \in Nat /\ Len(Row(d[p])) = Len(ka) + 1 + Len(kb)
        /\ Row(d[p])[n] = it
    BY <1>16, SplitIs
  <2>2. n \in 1..Len(Row(d[p]))
    BY <2>1
  <2>3. Row(d[p])[n].el = old
    BY <1>i, <2>1
  <2> DEFINE h == to \o b
  <2>4. h \in Seq(Node)
    <3>1. to \in Seq(Node)
      BY TextNodes
    <3> QED
      BY <3>1, JoinIs
  <2>5. Parts(d[p], a, old, h)
    BY <1>8
  <2> HIDE DEF h, n
  <2>6. Len(Row(a)) \in Nat /\ n = Len(Row(a)) + 1
    BY <1>2, <1>9, <2>2, <2>3, <2>4, <2>5, PlaceOf
  <2> QED
    BY <2>1, <2>6 DEF n
<1>19. ka = Row(a) /\ kb = Row(b)
  BY <1>16, <1>17, <1>18, SameSplit
<1> DEFINE slots == [j \in DOMAIN r |-> IF j = Len(ra) + 1 THEN <<x>> ELSE Keeping(<<r[j]>>, S)]
           new == FlattenSeq(slots)
<1>20. Parts(new, ka, x, kb)
  BY <1>11, <1>12, <1>13, OneSlot DEF ka, kb
<1>21. Row(c[p]) = new
  BY <1>11, <1>19, <1>20 DEF Parts
<1>22. ListAssign(v, p, <<i - 1>>, <<e>>) = WithItems(Without(v, S), p, new)
  <2> DEFINE one == <<i - 1>>
             els == <<e>>
             Slot(j) == IF j - 1 \in ToSet(one)
                        THEN <<Listed(v, els[CHOOSE m \in DOMAIN one : one[m] = j - 1])>>
                        ELSE Keeping(<<r[j]>>, ToSet(els))
  <2>1. ToSet(one) = {i - 1} /\ ToSet(els) = S
    BY OneRange DEF S
  <2>2. DOMAIN one = {1} /\ one[1] = i - 1 /\ els[1] = e
    OBVIOUS
  <2>3. ASSUME NEW j \in DOMAIN r PROVE Slot(j) = slots[j]
    <3>1. j \in Nat /\ (j = Len(ra) + 1 <=> j = i) /\ (j - 1 = i - 1 <=> j = i)
      BY <1>2, <1>12
    <3>2. CASE j = i
      <4>1. (CHOOSE m \in DOMAIN one : one[m] = j - 1) = 1
        BY <2>2, <3>2
      <4> HIDE DEF one, els
      <4> QED
        BY <1>6, <2>1, <2>2, <3>1, <3>2, <4>1
    <3>3. CASE j # i
      <4> HIDE DEF one, els
      <4> QED
        BY <2>1, <3>1, <3>3
    <3> QED
      BY <3>2, <3>3
  <2>4. [j \in DOMAIN r |-> Slot(j)] = slots
    <3> HIDE DEF one, els
    <3> QED
      BY <2>3
  <2>5. ListAssign(v, p, one, els) =
          [Without(v, ToSet(els)) EXCEPT ![p].items = FlattenSeq([j \in DOMAIN r |-> Slot(j)])]
    <3> HIDE DEF one, els
    <3> QED
      BY <1>5 DEF ListAssign, Items
  <2> HIDE DEF one, els, Slot
  <2> QED
    BY <2>1, <2>4, <2>5 DEF WithItems, one, els
<1> QED
  BY <1>3, <1>7, <1>11, <1>21, <1>22 DEF v, s, old

-----------------------------------------------------------------------------
(* remove and del.                                                         *)
LEMMA ExtractAllShows ==
  ASSUME NEW k \in Sound, NEW seq \in Seq(Elem)
  PROVE  View(ExtractAll(k, seq)) = Without(View(k), ToSet(seq))
<1>0. PICK f : Extracting(k, seq, f)
  BY ExtractLoop
<1> DEFINE n == Len(seq)
           v == View(k)
           S(i) == {seq[j] : j \in 1..i}
<1>1. n \in Nat /\ DOMAIN seq = 1..n /\ \A i \in 1..n : seq[i] \in Elem
  OBVIOUS
<1>2. /\ f \in [0..n -> Unmoved(k, ToSet(seq) \cup Text)]
      /\ f[0] = k /\ f[n] = ExtractAll(k, seq)
      /\ \A i \in 1..n : f[i] = Extract(f[i - 1], seq[i])
  BY <1>0 DEF Extracting
<1>3. \A i \in 0..n : f[i] \in Sound
  BY <1>2, UnmovedSound
<1>4. v \in ViewSet
  BY ViewTyped
<1>v. View(f[0]) = v
  BY <1>2
<1> HIDE DEF v, n
<1> DEFINE H == {i \in 0..n : View(f[i]) = Without(v, S(i))}
<1>5. 0 \in H
  <2>1. S(0) = {}
    OBVIOUS
  <2>2. Without(v, {}) = v
    BY <1>4, WithoutNone
  <2> HIDE DEF S
  <2>3. 0 \in 0..n
    BY <1>1
  <2> QED
    BY <1>v, <2>1, <2>2, <2>3
<1>6. ASSUME NEW i \in 1..n, i - 1 \in H PROVE i \in H
  <2> DEFINE h == i - 1
             e == seq[i]
  <2>1. h \in 0..n /\ i \in 0..n /\ e \in Elem
    BY <1>1
  <2>2. S(i) = S(h) \cup {e}
    <3>1. 1..i = (1..h) \cup {i}
      BY <1>1
    <3> HIDE DEF h
    <3> QED
      BY <3>1
  <2>3. View(f[h]) = Without(v, S(h)) /\ f[h] \in Sound /\ f[i] = Extract(f[h], e)
    BY <1>2, <1>3, <1>6, <2>1
  <2> HIDE DEF S, h, e
  <2>4. View(Extract(f[h], e)) = Without(View(f[h]), {e})
    BY <2>1, <2>3, ExtractShows
  <2>5. Without(Without(v, S(h)), {e}) = Without(v, S(h) \cup {e})
    BY <1>4, WithoutTwice
  <2>6. View(f[i]) = Without(v, S(i))
    BY <2>2, <2>3, <2>4, <2>5
  <2> QED
    BY <2>1, <2>6
<1>7. n \in H
  <2>1. 0..n \subseteq H
    <3> HIDE DEF H
    <3> QED
      BY <1>1, <1>5, <1>6, Induction
  <2>2. n \in 0..n
    BY <1>1
  <2> HIDE DEF H
  <2> QED
    BY <2>1, <2>2
<1>8. S(n) = ToSet(seq)
  BY <1>1 DEF ToSet
<1>9. View(f[n]) = Without(v, S(n))
  BY <1>7
<1> HIDE DEF S
<1> QED
  BY <1>2, <1>8, <1>9 DEF v

(* range() with these bounds stays within the list.                        *)
LEMMA RangeWithin ==
  ASSUME NEW n \in Nat, NEW start \in 0..n, NEW stop \in 0..n, NEW step \in {1, 2, 3}
  PROVE  \A j \in DOMAIN RangeSeq(start, stop, step) : RangeSeq(start, stop, step)[j] \in 0..(n - 1)
<1> DEFINE span == stop - start
           count == IF span > 0 THEN (span + step - 1) \div step ELSE 0
           r == RangeSeq(start, stop, step)
<1>1. r = [j \in 1..count |-> start + (j - 1) * step]
  BY DEF RangeSeq
<1>2. SUFFICES ASSUME NEW j \in 1..count PROVE start + (j - 1) * step \in 0..(n - 1)
  BY <1>1
<1>3. span > 0
  OBVIOUS
<1>4. CASE step = 1
  BY <1>3, <1>4
<1>5. CASE step = 2
  BY <1>3, <1>5
<1>6. CASE step = 3
  BY <1>3, <1>6
<1> QED
  BY <1>4, <1>5, <1>6

LEMMA RangeWithinBack ==
  ASSUME NEW n \in Nat, NEW start \in 0..n, NEW stop \in 0..n, NEW step \in {-1, -2}
  PROVE  \A j \in DOMAIN RangeSeq(start - 1, stop - 1, step) :
           RangeSeq(start - 1, stop - 1, step)[j] \in 0..(n - 1)
<1> DEFINE span == (start - 1) - (stop - 1)
           width == -step
           count == IF span > 0 THEN (span + width - 1) \div width ELSE 0
           r == RangeSeq(start - 1, stop - 1, step)
<1>1. r = [j \in 1..count |-> (start - 1) + (j - 1) * step]
  BY DEF RangeSeq
<1>2. SUFFICES ASSUME NEW j \in 1..count PROVE (start - 1) + (j - 1) * step \in 0..(n - 1)
  BY <1>1
<1>3. span > 0
  OBVIOUS
<1>4. CASE step = -1
  BY <1>3, <1>4
<1>5. CASE step = -2
  BY <1>3, <1>5
<1> QED
  BY <1>4, <1>5

(* remove and del take out the entries they name.                          *)
LEMMA RemovalAgrees ==
  ASSUME kids \in Sound
  PROVE  RemovalAgreesWithList
<1> SUFFICES ASSUME NEW p \in Parent, NEW slots \in Selections(p)
             PROVE  View(ExtractAll(kids, Chosen(kids, p, slots)))
                      = Without(View(kids), ToSet(Chosen(kids, p, slots)))
  BY DEF RemovalAgreesWithList, Chosen
<1> DEFINE now == ContentChildren(kids[p])
           n == Len(now)
<1>1. now \in Seq(Elem) /\ n \in Nat /\ DOMAIN now = 1..n
  <2>1. now \in Seq(Elem)
    BY SoundPlain, ChildrenAre
  <2> HIDE DEF now
  <2> QED
    BY <2>1
<1>2. slots \in Seq(Int)
  BY SelectionsAre
<1>3. \A j \in DOMAIN slots : slots[j] \in 0..(n - 1)
  <2>1. Sizes(p) = 0..n
    BY DEF Sizes
  <2>2. \/ \E start \in 0..n, stop \in 0..n, step \in {1, 2, 3} :
             slots = RangeSeq(start, stop, step)
        \/ \E start \in 0..n, stop \in 0..n, step \in {-1, -2} :
             slots = RangeSeq(start - 1, stop - 1, step)
    BY <2>1 DEF Selections
  <2> HIDE DEF n
  <2>3. n \in Nat
    BY <1>1
  <2>4. CASE \E start \in 0..n, stop \in 0..n, step \in {1, 2, 3} :
               slots = RangeSeq(start, stop, step)
    BY <2>3, <2>4, RangeWithin
  <2>5. CASE \E start \in 0..n, stop \in 0..n, step \in {-1, -2} :
               slots = RangeSeq(start - 1, stop - 1, step)
    BY <2>3, <2>5, RangeWithinBack
  <2> QED
    BY <2>2, <2>4, <2>5
<1>4. Chosen(kids, p, slots) = [j \in DOMAIN slots |-> now[slots[j] + 1]]
  BY DEF Chosen
<1> HIDE DEF now, n
<1>5. \A j \in DOMAIN slots : slots[j] + 1 \in 1..n /\ now[slots[j] + 1] \in Elem
  BY <1>1, <1>2, <1>3
<1>6. Chosen(kids, p, slots) \in Seq(Elem)
  BY <1>2, <1>4, <1>5
<1> QED
  BY <1>6, ExtractAllShows

-----------------------------------------------------------------------------
(* .text and .tail.                                                        *)

(* A run of text keeps its first node only.                                *)
Stub(r) == <<Head(r)>>

LEMMA RunCut ==
  ASSUME NEW r \in Seq(Text), r # <<>>
  PROVE  /\ Stub(r) \in Seq(Text) /\ Tail(r) \in Seq(Text)
         /\ Joined(r, Stub(r), Tail(r))
<1> DEFINE h == Head(r)
           tl == Tail(r)
           n == Len(r)
<1>1. n \in Nat /\ n > 0 /\ h = r[1] /\ h \in Text /\ tl \in Seq(Text)
      /\ Len(tl) = n - 1 /\ \A i \in 1..(n - 1) : tl[i] = r[i + 1]
  OBVIOUS
<1> HIDE DEF h, tl, n
<1> DEFINE o == <<h>>
           s == o \o tl
<1>2. o \in Seq(Text) /\ Len(o) = 1 /\ o[1] = h
  BY <1>1, OneIs
<1> HIDE DEF o
<1>3. /\ s \in Seq(Text) /\ Len(s) = 1 + Len(tl) /\ \A i \in 1..1 : s[i] = o[i]
      /\ \A i \in 1..Len(tl) : s[1 + i] = tl[i]
  <2>1. o \in Seq(Text) /\ tl \in Seq(Text)
    BY <1>1, <1>2
  <2>2. /\ s \in Seq(Text) /\ Len(s) = Len(o) + Len(tl) /\ \A i \in 1..Len(o) : s[i] = o[i]
        /\ \A i \in 1..Len(tl) : s[Len(o) + i] = tl[i]
    BY <2>1, JoinIs
  <2> QED
    BY <1>2, <2>2
<1> HIDE DEF s
<1>4. Len(s) = Len(r)
  BY <1>1, <1>3 DEF n
<1>5. ASSUME NEW i \in 1..Len(s) PROVE s[i] = r[i]
  <2>1. CASE i = 1
    BY <1>1, <1>2, <1>3, <2>1
  <2>2. CASE i # 1
    <3>1. i - 1 \in 1..Len(tl) /\ 1 + (i - 1) = i /\ (i - 1) + 1 = i
      BY <1>1, <1>3, <2>2
    <3>2. s[1 + (i - 1)] = tl[i - 1] /\ tl[i - 1] = r[(i - 1) + 1]
      BY <1>1, <1>3, <3>1
    <3> QED
      BY <3>1, <3>2
  <2> QED
    BY <2>1, <2>2
<1>6. s = r
  BY <1>3, <1>4, <1>5, SameSeq
<1> QED
  BY <1>1, <1>2, <1>6 DEF Joined, Stub, s, o, h, tl

(* s with r between a and b.                                               *)
Between(s, a, r, b) == s = a \o (r \o b)

LEMMA StubStays ==
  ASSUME NEW k \in Sound, NEW p \in Parent, NEW a \in Seq(Node), NEW r \in Seq(Text), r # <<>>,
         NEW b \in Seq(Node), Between(k[p], a, r, b)
  PROVE  Becomes(k, DetachAll(k, ToSet(Tail(r))), p, a \o (Stub(r) \o b))
<1> DEFINE tl == Tail(r)
           o == Stub(r)
           S == ToSet(tl)
           d == DetachAll(k, S)
<1>1. o \in Seq(Text) /\ tl \in Seq(Text) /\ Joined(r, o, tl)
  BY RunCut
<1>2. o \in Seq(Node) /\ tl \in Seq(Node)
  BY <1>1, TextNodes
<1> HIDE DEF o, tl
<1>3. r = o \o tl
  BY <1>1 DEF Joined
<1> DEFINE h == a \o o
           u == tl \o b
<1>4. All3(Node, o, tl, b)
  BY <1>2 DEF All3
<1>5. (o \o tl) \o b = o \o u /\ u \in Seq(Node) /\ o \o b \in Seq(Node)
  <2>1. (o \o tl) \o b = o \o u
    BY <1>4, Assoc
  <2>2. u \in Seq(Node)
    BY <1>4, Assoc
  <2>3. o \o b \in Seq(Node)
    BY <1>2, JoinIs
  <2> QED
    BY <2>1, <2>2, <2>3
<1>6. h \o u = a \o (o \o u) /\ h \in Seq(Node)
  <2> HIDE DEF u
  <2>1. All3(Node, a, o, u)
    BY <1>2, <1>5 DEF All3
  <2> QED
    BY <2>1, Assoc
<1>7. h \o b = a \o (o \o b)
  <2>1. All3(Node, a, o, b)
    BY <1>2 DEF All3
  <2> QED
    BY <2>1, Assoc
<1>8. k[p] = h \o u
  BY <1>3, <1>5, <1>6 DEF Between
<1>9. k[p] \in Plain
  BY SoundPlain
<1>10. u \in Plain /\ ToSet(h) \cap ToSet(u) = {}
  <2> HIDE DEF h, u
  <2> QED
    BY <1>5, <1>6, <1>8, <1>9, PlainJoin
<1>11. ToSet(tl) \cap ToSet(b) = {} /\ ToSet(u) = ToSet(tl) \cup ToSet(b)
  <2>1. ToSet(tl) \cap ToSet(b) = {}
    BY <1>2, <1>10, PlainJoin
  <2>2. ToSet(u) = ToSet(tl) \cup ToSet(b)
    BY <1>2, JoinRange
  <2> QED
    BY <2>1, <2>2
<1>12. ToSet(k[p]) = ToSet(h) \cup ToSet(u)
  <2>1. h \in Seq(Node) /\ u \in Seq(Node)
    BY <1>5, <1>6
  <2> HIDE DEF h, u
  <2>2. ToSet(h \o u) = ToSet(h) \cup ToSet(u)
    BY <2>1, JoinRange
  <2> QED
    BY <1>8, <2>2
<1>13. d \in Sound /\ \A q \in Parent : d[q] = NotIn(k[q], S)
  BY Detached
<1>14. NotIn(h \o u, S) = h \o b
  <2> HIDE DEF h
  <2>1. ToSet(h) \cap S = {} /\ ToSet(tl) \subseteq S /\ ToSet(b) \cap S = {}
    BY <1>10, <1>11
  <2>2. h \in Seq(Node)
    BY <1>6
  <2>3. All3(Node, h, tl, b)
    BY <1>2, <2>2 DEF All3
  <2> HIDE DEF S
  <2> QED
    BY <1>4, <2>1, <2>2, <2>3, NotInMiddleOf
<1>15. ASSUME NEW q \in Parent, q # p PROVE d[q] = k[q]
  <2>1. ToSet(k[q]) \cap S = {}
    <3>1. \A n \in S : n \in ToSet(k[p])
      BY <1>11, <1>12
    <3> HIDE DEF S
    <3> QED
      BY <1>15, <3>1, OneChain
  <2>2. k[q] \in Seq(Node)
    BY SoundPlain
  <2> HIDE DEF S
  <2>3. NotIn(k[q], S) = k[q]
    BY <2>1, <2>2, NotInSome
  <2> QED
    BY <1>13, <2>3
<1>16. d[p] = a \o (o \o b)
  <2> HIDE DEF h, u, S
  <2>1. d[p] = NotIn(k[p], S)
    BY <1>13
  <2> QED
    BY <1>7, <1>8, <1>14, <2>1
<1> QED
  BY <1>13, <1>15, <1>16 DEF Becomes, d, S, o, tl

(* What a run is after a text has been assigned to it.                     *)
Settled(r, t) == IF r = <<>> THEN <<t>> ELSE Stub(r)

LEMMA SettledIs ==
  ASSUME NEW r \in Seq(Text), NEW t \in Text
  PROVE  Settled(r, t) \in Seq(Text)
<1>1. <<t>> \in Seq(Text)
  BY OneIs
<1>2. r # <<>> => Stub(r) \in Seq(Text)
  BY RunCut
<1> QED
  BY <1>1, <1>2 DEF Settled

LEMMA SetTextIs ==
  ASSUME NEW k \in Sound, NEW p \in Parent, NEW t \in Text, Homeless(k, {t}),
         NEW b \in Seq(Node), Solid(b), Lead(k[p]) \in Seq(Text), Joined(k[p], Lead(k[p]), b)
  PROVE  Becomes(k, SetText(k, p, t), p, Settled(Lead(k[p]), t) \o b)
<1> DEFINE l == Lead(k[p])
           c == SetText(k, p, t)
           m == Settled(l, t)
<1>1. c = IF l # <<>> THEN DetachAll(k, ToSet(Tail(l)))
          ELSE IF k[p] = <<>> THEN AppendChild(k, p, t)
          ELSE InsertBefore(k, p, t, Head(k[p]))
  BY DEF SetText, Lead
<1>0. SUFFICES Becomes(k, c, p, m \o b)
  OBVIOUS
<1>2. m \in Seq(Text) /\ m \in Seq(Node) /\ t \in Node /\ <<t>> \in Seq(Node)
  <2>1. m \in Seq(Text)
    BY SettledIs
  <2>2. t \in Node
    BY DEF Node
  <2>3. m \in Seq(Node)
    <3> HIDE DEF m
    <3> QED
      BY <2>1, TextNodes
  <2> QED
    BY <2>1, <2>2, <2>3, OneIs
<1>3. k[p] = l \o b /\ k[p] \in Plain /\ k[p] \in Seq(Node)
  BY SoundPlain DEF Joined
<1>4. m \o b \in Seq(Node)
  <2> HIDE DEF m
  <2> QED
    BY <1>2, JoinIs
<1>5. <<>> \o (m \o b) = m \o b
  <2> DEFINE u == m \o b
  <2> HIDE DEF u
  <2>1. u \in Seq(Node)
    BY <1>4 DEF u
  <2>2. <<>> \o u = u
    BY <2>1, JoinEmpty
  <2> QED
    BY <2>2 DEF u
<1> HIDE DEF c
<1>6. CASE l # <<>>
  <2>1. m = Stub(l)
    BY <1>6 DEF Settled
  <2>2. Between(k[p], <<>>, l, b)
    <3>1. <<>> \o k[p] = k[p]
      BY <1>3, JoinEmpty
    <3> QED
      BY <1>3, <3>1 DEF Between
  <2> HIDE DEF m
  <2> DEFINE none == <<>>
  <2>3. none \in Seq(Node) /\ Between(k[p], none, l, b)
    BY <2>2, EmptyIs
  <2>4. l \in Seq(Text) /\ l # <<>>
    BY <1>6
  <2> HIDE DEF none, l
  <2>5. Becomes(k, DetachAll(k, ToSet(Tail(l))), p, none \o (Stub(l) \o b))
    BY <2>3, <2>4, StubStays
  <2> QED
    BY <1>1, <1>5, <1>6, <2>1, <2>5 DEF none
<1>7. CASE l = <<>> /\ b = <<>>
  <2>1. k[p] = <<>>
    <3>1. <<>> \o <<>> = <<>>
      OBVIOUS
    <3> QED
      BY <1>3, <1>7, <3>1
  <2>2. m \o b = <<t>> /\ k[p] \o <<t>> = <<t>>
    BY <1>2, <1>7, <2>1, JoinEmpty DEF Settled
  <2>3. Becomes(k, AppendChild(k, p, t), p, k[p] \o <<t>>)
    BY <1>2, AppendIs
  <2> QED
    BY <1>1, <1>7, <2>1, <2>2, <2>3
<1>8. CASE l = <<>> /\ b # <<>>
  <2>1. k[p] = b
    BY <1>3, <1>8, JoinEmpty
  <2>2. PICK e \in Elem, v \in Seq(Node) : b = <<e>> \o v /\ Parts(b, <<>>, e, v) /\ e = b[1]
    BY <1>8, SolidParts
  <2>3. Head(k[p]) = e
    BY <2>1, <2>2
  <2>4. Becomes(k, InsertBefore(k, p, t, e), p, <<>> \o (<<t>> \o (<<e>> \o v)))
    <3> DEFINE none == <<>>
    <3>1. none \in Seq(Node) /\ Parts(k[p], none, e, v) /\ e \in Node
      BY <2>1, <2>2, EmptyIs DEF Node
    <3> HIDE DEF none
    <3>2. Becomes(k, InsertBefore(k, p, t, e), p, none \o (<<t>> \o (<<e>> \o v)))
      BY <1>2, <3>1, InsertBeforeIs
    <3> QED
      BY <3>2 DEF none
  <2>5. m = <<t>>
    BY <1>8 DEF Settled
  <2>6. <<>> \o (<<t>> \o (<<e>> \o v)) = m \o b
    BY <1>5, <2>2, <2>5, Zenon
  <2>7. c = InsertBefore(k, p, t, e)
    BY <1>1, <1>8, <2>1, <2>3
  <2> HIDE DEF m
  <2> QED
    BY <2>4, <2>6, <2>7
<1> QED
  BY <1>6, <1>7, <1>8

(* Assigning .text changes the leading text only.                          *)
LEMMA TextAgrees ==
  ASSUME NEW k \in Sound, NEW p \in Parent, NEW t \in Text, Homeless(k, {t})
  PROVE  View(SetText(k, p, t)) =
           [View(k) EXCEPT ![p].lead = IF @ = <<>> THEN <<t>> ELSE <<Head(@)>>]
<1> DEFINE l == Lead(k[p])
           c == SetText(k, p, t)
           m == Settled(l, t)
<1>1. k[p] \in Plain /\ k[p] \in Seq(Node)
  BY SoundPlain
<1>2. PICK b \in Seq(Node) : Joined(k[p], l, b) /\ Solid(b) /\ l \in Seq(Text)
  BY <1>1, LeadIs DEF Joined
<1>3. Becomes(k, c, p, m \o b)
  BY <1>2, SetTextIs
<1>4. m \in Seq(Text)
  BY <1>2, SettledIs
<1>5. Row(k[p]) = Row(b)
  <2> HIDE DEF l
  <2> QED
    BY <1>1, <1>2, RowLead DEF Joined
<1> HIDE DEF c, m
<1>6. c \in Sound /\ c[p] = m \o b /\ \A q \in Parent : q # p => c[q] = k[q]
  BY <1>3 DEF Becomes
<1>7. c[p] \in Plain
  BY <1>6, SoundPlain
<1>8. Row(c[p]) = Row(b) /\ Lead(c[p]) = m
  BY <1>2, <1>4, <1>6, <1>7, RowLead
<1>9. View(k) = [q \in Parent |-> [lead |-> Lead(k[q]), items |-> Row(k[q])]]
  BY ViewIs
<1>10. View(c) = [q \in Parent |-> [lead |-> Lead(c[q]), items |-> Row(c[q])]]
  BY <1>6, ViewIs
<1> DEFINE n == [View(k) EXCEPT ![p].lead = m]
<1>11. n = [View(k) EXCEPT ![p].lead = IF @ = <<>> THEN <<t>> ELSE <<Head(@)>>]
  <2>1. View(k)[p].lead = l
    BY <1>9
  <2> HIDE DEF l
  <2>2. m = IF View(k)[p].lead = <<>> THEN <<t>> ELSE <<Head(View(k)[p].lead)>>
    BY <2>1 DEF m, Settled, Stub
  <2> HIDE DEF m
  <2> QED
    BY <2>2
<1>12. ASSUME NEW q \in Parent PROVE n[q] = [lead |-> Lead(c[q]), items |-> Row(c[q])]
  <2>1. CASE q = p
    BY <1>5, <1>8, <1>9, <2>1
  <2>2. CASE q # p
    BY <1>6, <1>9, <2>2
  <2> QED
    BY <2>1, <2>2
<1>13. DOMAIN n = Parent /\ n = [q \in DOMAIN n |-> n[q]]
  BY <1>9
<1> HIDE DEF n
<1>14. n = [q \in Parent |-> [lead |-> Lead(c[q]), items |-> Row(c[q])]]
  BY <1>12, <1>13
<1> QED
  BY <1>10, <1>11, <1>14 DEF c

(* Assigning .tail keeps one node of the run behind the element.           *)
LEMMA SetTailIs ==
  ASSUME NEW k \in Sound, NEW p \in Parent, NEW t \in Text, Homeless(k, {t}),
         NEW a \in Seq(Node), NEW e \in Elem, NEW b \in Seq(Node), Solid(b),
         Parts(k[p], a, e, TailRun(k, e) \o b)
  PROVE  Becomes(k, SetTail(k, e, t), p, Block(a, e, Settled(TailRun(k, e), t), b))
<1> DEFINE r == TailRun(k, e)
           o == <<e>>
           h == a \o o
           m == Settled(r, t)
<1>1. r \in Seq(Text) /\ r \in Seq(Node)
  BY TailRunIs
<1>2. o \in Seq(Node) /\ e \in Node /\ t \in Node
  BY SolidFront DEF Node
<1>3. e \in ToSet(k[p])
  <2>1. r \o b \in Seq(Node)
    <3> HIDE DEF r
    <3> QED
      BY <1>1, JoinIs
  <2> DEFINE u == r \o b
  <2>2. u \in Seq(Node) /\ Parts(k[p], a, e, u)
    BY <2>1
  <2> HIDE DEF u
  <2> QED
    BY <1>2, <2>2, PartsAre
<1>4. Homes(k, e) = {p}
  BY <1>3, HomeIs
<1>5. SetTail(k, e, t) = IF r # <<>> THEN DetachAll(k, ToSet(Tail(r)))
                         ELSE InsertAfter(k, p, t, e)
  <2>1. (CHOOSE q \in Homes(k, e) : TRUE) = p /\ Homes(k, e) # {}
    BY <1>4
  <2> QED
    BY <2>1 DEF SetTail
<1>6. CASE r # <<>>
  <2> HIDE DEF r, o
  <2>1. All3(Node, a, o, r \o b) /\ All3(Node, a, o, Stub(r) \o b) /\ h \in Seq(Node)
    <3>1. Stub(r) \in Seq(Node)
      BY <1>1, <1>6, RunCut, TextNodes
    <3>2. r \o b \in Seq(Node)
      BY <1>1, JoinIs
    <3>3. Stub(r) \o b \in Seq(Node)
      BY <3>1, JoinIs
    <3>4. h \in Seq(Node)
      BY <1>2, JoinIs
    <3> QED
      BY <1>2, <3>2, <3>3, <3>4 DEF All3
  <2>2. h \o (r \o b) = a \o (o \o (r \o b))
    <3> DEFINE u == r \o b
    <3>1. All3(Node, a, o, u)
      BY <2>1
    <3> HIDE DEF u
    <3>2. h \o u = a \o (o \o u)
      BY <3>1, Assoc
    <3> QED
      BY <3>2 DEF u
  <2>3. h \o (Stub(r) \o b) = a \o (o \o (Stub(r) \o b))
    <3> DEFINE u == Stub(r) \o b
    <3>1. All3(Node, a, o, u)
      BY <2>1
    <3> HIDE DEF u
    <3>2. h \o u = a \o (o \o u)
      BY <3>1, Assoc
    <3> QED
      BY <3>2 DEF u
  <2>4. Between(k[p], h, r, b)
    BY <2>2 DEF Between, Parts, o, r
  <2> HIDE DEF h
  <2>5. Becomes(k, DetachAll(k, ToSet(Tail(r))), p, h \o (Stub(r) \o b))
    BY <1>1, <1>6, <2>1, <2>4, StubStays
  <2>6. Settled(r, t) = Stub(r) /\ SetTail(k, e, t) = DetachAll(k, ToSet(Tail(r)))
    BY <1>5, <1>6 DEF Settled
  <2> QED
    BY <2>3, <2>5, <2>6 DEF Block, h, o, r
<1>7. CASE r = <<>>
  <2>1. r \o b = b
    BY <1>7, JoinEmpty
  <2>2. Parts(k[p], a, e, b)
    BY <2>1
  <2>3. Becomes(k, InsertAfter(k, p, t, e), p, a \o (<<e>> \o (<<t>> \o b)))
    <3> HIDE DEF r
    <3> QED
      BY <1>2, <2>2, InsertAfterIs
  <2>4. Settled(r, t) = <<t>> /\ SetTail(k, e, t) = InsertAfter(k, p, t, e)
    BY <1>5, <1>7 DEF Settled
  <2> QED
    BY <2>3, <2>4 DEF Block
<1> QED
  BY <1>6, <1>7

LEMMA TailAgrees ==
  ASSUME NEW k \in Sound, NEW p \in Parent, NEW t \in Text, Homeless(k, {t}),
         NEW i \in DOMAIN ContentChildren(k[p])
  PROVE  View(SetTail(k, ContentChildren(k[p])[i], t)) =
           [View(k) EXCEPT ![p].items[i].tail = IF @ = <<>> THEN <<t>> ELSE <<Head(@)>>]
<1> DEFINE e == ContentChildren(k[p])[i]
           s == k[p]
           r == TailRun(k, e)
           c == SetTail(k, e, t)
           m == Settled(r, t)
<1>1. s \in Plain /\ s \in Seq(Node)
  BY SoundPlain
<1>2. /\ e \in Elem
      /\ \E a, v \in Seq(Node) : Parts(s, a, e, v) /\ Len(Row(a)) + 1 = i /\ Len(Row(a)) \in Nat
  <2>1. i \in 1..Len(ContentChildren(s))
    <3>1. ContentChildren(s) \in Seq(Elem)
      BY <1>1, ChildrenAre
    <3> QED
      BY <3>1
  <2> HIDE DEF s
  <2> QED
    BY <1>1, <2>1, ChildSplit DEF s
<1>3. PICK a \in Seq(Node), v \in Seq(Node) :
        Parts(s, a, e, v) /\ Len(Row(a)) + 1 = i /\ Len(Row(a)) \in Nat
  BY <1>2
<1> HIDE DEF e
<1>4. r = Lead(v)
  <2>1. e \in ToSet(s)
    <3>1. e \in Node
      BY <1>2 DEF Node
    <3> HIDE DEF s
    <3> QED
      BY <1>3, <3>1, PartsAre
  <2>2. TailRun(k, e) = TextRunAfter(s, Pos(s, e))
    BY <2>1, HomeIs
  <2> HIDE DEF s
  <2>3. TextRunAfter(s, Pos(s, e)) = Lead(v)
    BY <1>1, <1>2, <1>3, RunOf
  <2> QED
    BY <2>2, <2>3
<1>5. PICK b \in Seq(Node) : v = Lead(v) \o b /\ Solid(b) /\ Lead(v) \in Seq(Text)
  BY LeadIs
<1>6. Parts(k[p], a, e, r \o b) /\ r \in Seq(Text)
  BY <1>3, <1>4, <1>5
<1>7. m \in Seq(Text)
  <2> HIDE DEF r
  <2> QED
    BY <1>6, SettledIs
<1>8. Becomes(k, c, p, Block(a, e, m, b))
  BY <1>2, <1>5, <1>6, SetTailIs
<1> HIDE DEF s, r, c, m
<1>9. /\ Row(a) \in Seq(ItemSet) /\ Row(b) \in Seq(ItemSet) /\ Entry(e, r) \in ItemSet
      /\ Parts(Row(s), Row(a), Entry(e, r), Row(b)) /\ Lead(s) = Lead(a)
  BY <1>1, <1>2, <1>5, <1>6, RowBlock DEF s
<1>10. /\ View(c) = WithItems(View(k), p, Row(c[p])) /\ Entry(e, m) \in ItemSet
       /\ Parts(Row(c[p]), Row(a), Entry(e, m), Row(b))
  BY <1>2, <1>5, <1>7, <1>8, <1>9, BlockShows DEF s
<1> DEFINE x == Entry(e, r)
           y == Entry(e, m)
           w == [Row(s) EXCEPT ![i] = y]
           ra == Row(a)
           rb == Row(b)
<1>11. Row(c[p]) = w
  <2>1. /\ ra \in Seq(ItemSet) /\ rb \in Seq(ItemSet) /\ x \in ItemSet /\ y \in ItemSet
        /\ Parts(Row(s), ra, x, rb) /\ Parts(Row(c[p]), ra, y, rb)
    BY <1>9, <1>10
  <2>i. i = Len(ra) + 1
    BY <1>3
  <2> HIDE DEF x, y, ra, rb
  <2>2. Parts([Row(s) EXCEPT ![Len(ra) + 1] = y], ra, y, rb)
    BY <2>1, PartsExcept
  <2> QED
    BY <2>1, <2>2, <2>i DEF Parts
<1>12. Row(s)[i] = x /\ i \in DOMAIN Row(s)
  <2>1. /\ ra \in Seq(ItemSet) /\ rb \in Seq(ItemSet) /\ x \in ItemSet
        /\ Parts(Row(s), ra, x, rb)
    BY <1>9
  <2>i. i = Len(ra) + 1 /\ Len(ra) \in Nat
    BY <1>3
  <2> HIDE DEF x, ra, rb
  <2>2. /\ DOMAIN Row(s) = 1..(Len(ra) + 1 + Len(rb)) /\ Len(rb) \in Nat
        /\ Row(s)[Len(ra) + 1] = x
    BY <2>1, PartsAre
  <2> QED
    BY <2>2, <2>i
<1>13. View(k)[p].items = Row(s)
  BY ItemsOf DEF s
<1> DEFINE F(q) == IF q = <<>> THEN <<t>> ELSE <<Head(q)>>
<1>14. F(r) = m
  BY DEF m, Settled, Stub
<1> HIDE DEF F
<1>15. [Row(s) EXCEPT ![i].tail = F(@)] = w
  <2>1. [x EXCEPT !.tail = F(@)] = y
    BY <1>14 DEF Entry
  <2> HIDE DEF x, y
  <2> QED
    BY <1>12, <2>1
<1>16. [View(k) EXCEPT ![p].items[i].tail = F(@)] = WithItems(View(k), p, w)
  <2> HIDE DEF w
  <2>1. [View(k) EXCEPT ![p].items[i].tail = F(@)]
          = [View(k) EXCEPT ![p].items =
               [View(k)[p].items EXCEPT ![i].tail = F(View(k)[p].items[i].tail)]]
    OBVIOUS
  <2>2. [View(k)[p].items EXCEPT ![i].tail = F(View(k)[p].items[i].tail)] = w
    BY <1>13, <1>15
  <2> QED
    BY <2>1, <2>2 DEF WithItems
<1> HIDE DEF w
<1>17. View(c) = [View(k) EXCEPT ![p].items[i].tail = F(@)]
  BY <1>10, <1>11, <1>16
<1> QED
  BY <1>17 DEF c, e, F

-----------------------------------------------------------------------------
(* The reachable states.                                                   *)

LEMMA MovesAgree ==
  ASSUME kids \in Sound
  PROVE  MovesAgreeWithList
<1>1. ASSUME NEW p \in Parent, NEW els \in NewElements, Distinct(els)
      PROVE  View(ExtendBy(kids, p, els)) = ListExtend(View(kids), p, els)
  <2>1. PICK n \in 0..MaxNew : els \in [1..n -> Elem]
    BY DEF NewElements
  <2>2. n \in Nat
    BY ChildListAssumption
  <2>3. els \in Seq(Elem)
    BY <2>1, <2>2
  <2> QED
    BY <1>1, <2>3, ExtendAgrees
<1>2. ASSUME NEW p \in Parent, NEW e \in Elem,
             NEW index \in -(Cardinality(Elem) + 1)..(Cardinality(Elem) + 1)
      PROVE  View(InsertIn(kids, p, index, e)) = ListInsert(View(kids), p, index, e)
  <2>1. index \in Int
    OBVIOUS
  <2> QED
    BY <2>1, InsertAgrees
<1>3. ASSUME NEW p \in Parent, NEW self \in Elem, NEW e \in Elem, self # e,
             IsChild(kids, p, self)
      PROVE  /\ View(PutAfter(kids, p, self, e)) = ListPutAfter(View(kids), p, self, e)
             /\ View(PutBefore(kids, p, self, e)) = ListPutBefore(View(kids), p, self, e)
  BY <1>3, PutAfterAgrees, PutBeforeAgrees
<1> QED
  BY <1>1, <1>2, <1>3 DEF MovesAgreeWithList

LEMMA TextsAgree ==
  ASSUME kids \in Sound
  PROVE  TextAssignmentIsWhole
<1> SUFFICES ASSUME NEW t \in Fresh
             PROVE  /\ \A p \in Parent :
                         View(SetText(kids, p, t)) =
                           [View(kids) EXCEPT ![p].lead = IF @ = <<>> THEN <<t>> ELSE <<Head(@)>>]
                    /\ \A p \in Parent : \A i \in DOMAIN ContentChildren(kids[p]) :
                         View(SetTail(kids, ContentChildren(kids[p])[i], t)) =
                           [View(kids) EXCEPT ![p].items[i].tail =
                              IF @ = <<>> THEN <<t>> ELSE <<Head(@)>>]
  BY DEF TextAssignmentIsWhole
<1>1. t \in Text /\ Homeless(kids, {t})
  BY DEF Fresh, Homes, Homeless
<1> QED
  BY <1>1, TextAgrees, TailAgrees

LEMMA SoundAgrees == kids \in Sound => EditsAgreeWithList
<1>1. ASSUME kids \in Sound PROVE ReplacementAgreesWithList
  BY <1>1, ReplacementAgrees DEF ReplacementAgreesWithList
<1> QED
  BY <1>1, MovesAgree, RemovalAgrees, TextsAgree DEF EditsAgreeWithList

(* In every state that edits can reach, append, extend, insert, addnext,   *)
(* addprevious, replace, remove, del, .text = and .tail = of etree's       *)
(* _Element do to .text, the children and their .tails what the same edit  *)
(* does to a Python list of (element, tail) pairs, whatever the sizes of   *)
(* the lists and of the runs of text nodes: the sibling chain and its      *)
(* anchors never show.  extend is given distinct elements, and insert an   *)
(* index up to one beyond either end (InsertAgrees has it for every one).  *)
THEOREM EditsAgree == Spec => []EditsAgreeWithList
<1>1. TypeOK => EditsAgreeWithList
  BY TypeOKIsSound, SoundAgrees
<1> QED
  BY <1>1, NodesHaveOnePlace, PTL

-----------------------------------------------------------------------------
(* Slices.  The elements that come in are adopted first.                   *)

LEMMA ListedWithout ==
  ASSUME NEW v \in ViewSet, NEW S, NEW e, e \notin S
  PROVE  Listed(Without(v, S), e) = Listed(v, e)
<1> DEFINE w == Without(v, S)
<1>1. /\ DOMAIN w = Parent /\ DOMAIN v = Parent
      /\ \A q \in Parent : w[q].items = Keeping(v[q].items, S) /\ v[q].items \in Seq(ItemSet)
  BY WithoutOf
<1> HIDE DEF w
<1>2. \A q \in Parent : ToSet(w[q].items) = {x \in ToSet(v[q].items) : x.el \notin S}
  BY <1>1, KeepingIs
<1>3. Its(w, e) = Its(v, e)
  BY <1>1, <1>2 DEF Its, Items
<1>4. Listed(w, e) = Listed(v, e)
  BY <1>3, ListedFirst
<1> QED
  BY <1>4 DEF w

(* What others leave behind keeps its tail.                                *)
LEMMA TailStays ==
  ASSUME NEW k \in Sound, NEW d \in Sound, NEW S, View(d) = Without(View(k), S),
         NEW e \in Elem, e \notin S
  PROVE  TailRun(d, e) = TailRun(k, e)
<1>1. View(k) \in ViewSet
  BY ViewTyped
<1>2. Listed(View(d), e) = Listed(View(k), e)
  BY <1>1, ListedWithout
<1>3. Entry(e, TailRun(d, e)) = Entry(e, TailRun(k, e))
  BY <1>2, ListedIs
<1> QED
  BY <1>3 DEF Entry

(* Two elements have no text in common.                                    *)
LEMMA TailsApart ==
  ASSUME NEW k \in Sound, NEW e \in Elem, NEW o \in Elem, e # o
  PROVE  ToSet(TailRun(k, e)) \cap ToSet(TailRun(k, o)) = {}
<1> DEFINE d == Extract(k, e)
           t == TailRun(k, o)
<1>1. d \in Sound /\ View(d) = Without(View(k), {e}) /\ Homeless(d, ToSet(TailRun(k, e)))
  BY Leaving
<1> HIDE DEF d
<1>2. TailRun(d, o) = t
  BY <1>1, TailStays
<1> HIDE DEF t
<1>3. CASE \A q \in Parent : o \notin ToSet(d[q])
  <2>1. t = <<>>
    BY <1>2, <1>3, HomelessIs
  <2>2. ToSet(t) = {}
    BY <2>1, EmptyIs
  <2> QED
    BY <2>2 DEF t
<1>4. CASE \E q \in Parent : o \in ToSet(d[q])
  <2>1. PICK p \in Parent : o \in ToSet(d[p])
    BY <1>4
  <2>2. PICK a \in Seq(Node), b \in Seq(Node) : Parts(d[p], a, o, t \o b)
    BY <1>1, <1>2, <2>1, BlockIs
  <2>3. t \in Seq(Text)
    BY <1>1, <1>2, Leaving
  <2>4. ToSet(t) \subseteq ToSet(d[p])
    BY <1>1, <2>2, <2>3, TailApart
  <2>5. ToSet(d[p]) \cap ToSet(TailRun(k, e)) = {}
    BY <1>1 DEF Homeless
  <2> QED
    BY <2>4, <2>5 DEF t
<1> QED
  BY <1>3, <1>4

(* The elements els and the texts tails, which go with them, stand nowhere.*)
Ready(k, els, tails) ==
  /\ els \in Seq(Elem) /\ tails \in Seq(Seq(Text)) /\ Len(tails) = Len(els)
  /\ \A i, j \in 1..Len(els) : i # j => /\ els[i] # els[j]
                                        /\ ToSet(tails[i]) \cap ToSet(tails[j]) = {}
  /\ \A j \in 1..Len(els) : /\ tails[j] \in Plain
                            /\ Homeless(k, {els[j]}) /\ Homeless(k, ToSet(tails[j]))

LEMMA AdoptShows ==
  ASSUME NEW k \in Sound, NEW els \in Seq(Elem), Distinct(els)
  PROVE  LET a == AdoptAll(k, els)
         IN  /\ a.k \in Sound /\ View(a.k) = Without(View(k), ToSet(els))
             /\ Ready(a.k, els, a.tails)
             /\ \A j \in 1..Len(els) : a.tails[j] = TailRun(k, els[j])
<1> DEFINE n == Len(els)
           v == View(k)
           S(i) == {els[j] : j \in 1..i}
           t(j) == TailRun(k, els[j])
           Out(c, j) == \A q \in Parent : ToSet(c[q]) \cap ({els[j]} \cup ToSet(t(j))) = {}
<1>0. PICK f : Adopting(k, els, f)
  BY AdoptLoop
<1>1. n \in Nat /\ DOMAIN els = 1..n /\ \A i \in 1..n : els[i] \in Elem
  OBVIOUS
<1>2. /\ f[0].k = k /\ f[0].tails = <<>> /\ f[n] = AdoptAll(k, els)
      /\ \A i \in 1..n : /\ f[i].k = Extract(f[i - 1].k, els[i])
                         /\ f[i].tails = Append(f[i - 1].tails, TailRun(f[i - 1].k, els[i]))
  BY <1>0 DEF Adopting
<1>3. \A i \in 0..n : f[i].k \in Sound /\ f[i].tails \in Seq(Seq(Text))
  BY <1>0, UnmovedSound DEF Adopting, Adopted
<1>4. v \in ViewSet
  BY ViewTyped
<1>5. \A i, j \in 1..n : els[i] = els[j] => i = j
  BY <1>1 DEF Distinct
<1> HIDE DEF n
<1> DEFINE H == {i \in 0..n : /\ View(f[i].k) = Without(v, S(i))
                              /\ Len(f[i].tails) = i
                              /\ \A j \in 1..i : f[i].tails[j] = t(j) /\ Out(f[i].k, j)}
<1>6. 0 \in H
  <2>1. S(0) = {} /\ 1..0 = {}
    OBVIOUS
  <2>2. Without(v, {}) = v
    BY <1>4, WithoutNone
  <2>3. 0 \in 0..n /\ Len(f[0].tails) = 0
    BY <1>1, <1>2
  <2>4. View(f[0].k) = v
    BY <1>2
  <2> HIDE DEF S, Out, t, v
  <2> QED
    BY <2>1, <2>2, <2>3, <2>4
<1>7. ASSUME NEW i \in 1..n, i - 1 \in H PROVE i \in H
  <2> DEFINE h == i - 1
             e == els[i]
             c == f[h].k
             d == f[i].k
  <2>1. h \in 0..n /\ i \in 0..n /\ e \in Elem
    BY <1>1
  <2>2. S(i) = S(h) \cup {e} /\ e \notin S(h)
    <3>1. 1..i = (1..h) \cup {i} /\ i \notin 1..h /\ \A j \in 1..h : j \in 1..n
      BY <1>1
    <3> HIDE DEF h
    <3> QED
      BY <1>5, <3>1
  <2>3. /\ View(c) = Without(v, S(h)) /\ Len(f[h].tails) = h
        /\ \A j \in 1..h : f[h].tails[j] = t(j) /\ Out(c, j)
    BY <1>7
  <2>4. c \in Sound /\ d = Extract(c, e) /\ f[h].tails \in Seq(Seq(Text))
    BY <1>2, <1>3, <2>1
  <2>5. \A j \in 1..i : j = i \/ j \in 1..h
    BY <1>1
  <2>x. i = h + 1 /\ h \in Nat
    BY <1>1
  <2>y. f[i].tails = Append(f[h].tails, TailRun(c, e))
    BY <1>2
  <2> HIDE DEF S, c, d, h, e
  <2>z. View(c) = Without(View(k), S(h))
    BY <2>3
  <2> HIDE DEF v
  <2>6. TailRun(c, e) = TailRun(k, e) /\ TailRun(c, e) \in Seq(Text)
    <3>1. TailRun(c, e) = TailRun(k, e)
      BY <2>1, <2>2, <2>4, <2>z, TailStays
    <3>2. TailRun(k, e) \in Seq(Text)
      BY <2>1, Leaving
    <3> QED
      BY <3>1, <3>2
  <2>7. /\ View(d) = Without(View(c), {e})
        /\ \A q \in Parent : ToSet(d[q]) = ToSet(c[q]) \ ({e} \cup ToSet(TailRun(k, e)))
    BY <2>1, <2>4, <2>6, Leaving
  <2>8. View(d) = Without(v, S(i))
    BY <1>4, <2>2, <2>3, <2>7, WithoutTwice
  <2>9. \A j \in 1..i : Out(d, j)
    BY <2>3, <2>5, <2>7 DEF e
  <2>10. Len(f[i].tails) = i /\ \A j \in 1..i : f[i].tails[j] = t(j)
    <3> DEFINE u == f[h].tails
               x == TailRun(c, e)
               w == f[i].tails
    <3>1. u \in Seq(Seq(Text)) /\ Len(u) = h /\ x \in Seq(Text) /\ w = Append(u, x)
      BY <2>3, <2>4, <2>6, <2>y
    <3>2. x = t(i) /\ \A j \in 1..h : u[j] = t(j)
      BY <2>3, <2>6 DEF e
    <3> HIDE DEF u, x, t, w
    <3>3. Len(w) = h + 1 /\ w[h + 1] = x /\ \A j \in 1..h : w[j] = u[j]
      BY <3>1, <2>x, Pushed
    <3> QED
      BY <2>5, <2>x, <3>2, <3>3 DEF w
  <2> QED
    BY <2>1, <2>8, <2>9, <2>10 DEF d
<1>8. n \in H
  <2>1. 0..n \subseteq H
    <3> HIDE DEF H
    <3> QED
      BY <1>1, <1>6, <1>7, Induction
  <2>2. n \in 0..n
    BY <1>1
  <2> HIDE DEF H
  <2> QED
    BY <2>1, <2>2
<1>9. S(n) = ToSet(els)
  BY <1>1 DEF ToSet
<1>10. /\ View(f[n].k) = Without(v, S(n)) /\ Len(f[n].tails) = n
       /\ \A j \in 1..n : f[n].tails[j] = t(j) /\ Out(f[n].k, j)
  BY <1>8
<1> HIDE DEF S
<1>11. f[n].k \in Sound /\ f[n].tails \in Seq(Seq(Text))
  BY <1>1, <1>3
<1>12. \A j \in 1..n : Homeless(f[n].k, {els[j]}) /\ Homeless(f[n].k, ToSet(t(j)))
  BY <1>10 DEF Homeless
<1>13. \A j \in 1..n : t(j) \in Plain
  BY <1>1, Leaving
<1>14. \A i, j \in 1..n : i # j => els[i] # els[j] /\ ToSet(t(i)) \cap ToSet(t(j)) = {}
  BY <1>1, <1>5, TailsApart
<1> HIDE DEF t, Out
<1>15. Ready(f[n].k, els, f[n].tails)
  BY <1>10, <1>11, <1>12, <1>13, <1>14 DEF Ready, n
<1> QED
  BY <1>2, <1>9, <1>10, <1>11, <1>15 DEF n, v, t

(* Taking elements out brings no node in.                                  *)
LEMMA ExtractAllShrinks ==
  ASSUME NEW k \in Sound, NEW seq \in Seq(Elem)
  PROVE  /\ ExtractAll(k, seq) \in Sound
         /\ \A q \in Parent : ToSet(ExtractAll(k, seq)[q]) \subseteq ToSet(k[q])
<1>0. PICK f : Extracting(k, seq, f)
  BY ExtractLoop
<1> DEFINE n == Len(seq)
           H == {i \in 0..n : \A q \in Parent : ToSet(f[i][q]) \subseteq ToSet(k[q])}
<1>1. n \in Nat /\ \A i \in 1..n : seq[i] \in Elem
  OBVIOUS
<1> HIDE DEF n
<1>2. /\ f[0] = k /\ f[n] = ExtractAll(k, seq)
      /\ \A i \in 1..n : f[i] = Extract(f[i - 1], seq[i])
      /\ \A i \in 0..n : f[i] \in Sound
  BY <1>0, UnmovedSound DEF Extracting, n
<1>3. 0 \in H
  BY <1>1, <1>2
<1>4. ASSUME NEW i \in 1..n, i - 1 \in H PROVE i \in H
  <2>1. i - 1 \in 0..n /\ i \in 0..n
    BY <1>1
  <2> DEFINE c == f[i - 1]
             e == seq[i]
  <2>2. c \in Sound /\ e \in Elem /\ f[i] = Extract(c, e)
    BY <1>1, <1>2, <2>1
  <2>3. \A q \in Parent : ToSet(c[q]) \subseteq ToSet(k[q])
    BY <1>4
  <2> HIDE DEF c, e
  <2>4. \A q \in Parent : ToSet(f[i][q]) \subseteq ToSet(c[q])
    <3> DEFINE S == {e} \cup ToSet(TailRun(c, e))
    <3>1. \A q \in Parent : ToSet(Extract(c, e)[q]) = ToSet(c[q]) \ S
      BY <2>2, Leaving
    <3> HIDE DEF S
    <3>2. \A q \in Parent : ToSet(Extract(c, e)[q]) \subseteq ToSet(c[q])
      BY <3>1
    <3> QED
      BY <2>2, <3>2
  <2> QED
    BY <2>1, <2>3, <2>4
<1>5. 0..n \subseteq H
  <2> HIDE DEF H
  <2> QED
    BY <1>1, <1>3, <1>4, Induction
<1>6. n \in 0..n
  BY <1>1
<1> QED
  BY <1>2, <1>5, <1>6

LEMMA StillReady ==
  ASSUME NEW k, NEW els, NEW tails, Ready(k, els, tails),
         NEW d, \A q \in Parent : ToSet(d[q]) \subseteq ToSet(k[q])
  PROVE  Ready(d, els, tails)
<1>1. ASSUME NEW S, Homeless(k, S) PROVE Homeless(d, S)
  BY <1>1 DEF Homeless
<1> QED
  BY <1>1 DEF Ready

(* What an anchor names: the first element of the rest of a list.          *)
FirstEl(b) == IF b = <<>> THEN NoNode ELSE b[1].el

LEMMA JoinCancels ==
  ASSUME NEW X, NEW a \in Seq(X), NEW b \in Seq(X), NEW c \in Seq(X), a \o b = a \o c
  PROVE  b = c
<1>1. /\ Len(a \o b) = Len(a) + Len(b) /\ Len(a \o c) = Len(a) + Len(c)
      /\ Len(a) \in Nat /\ Len(b) \in Nat /\ Len(c) \in Nat
  BY JoinIs
<1>2. Len(b) = Len(c)
  BY <1>1
<1>3. \A i \in 1..Len(b) : b[i] = (a \o b)[Len(a) + i]
  BY JoinIs
<1>4. \A i \in 1..Len(c) : c[i] = (a \o c)[Len(a) + i]
  BY JoinIs
<1> QED
  BY <1>2, <1>3, <1>4, SameSeq

(* The place in a chain that corresponds to a place in its list.           *)
LEMMA PlaceFor ==
  ASSUME NEW s \in Plain, NEW A \in Seq(ItemSet), NEW B \in Seq(ItemSet), Joined(Row(s), A, B)
  PROVE  \E a, b \in Seq(Node) : /\ Anchored(s, a, FirstEl(B), b) /\ Solid(b)
                                 /\ Row(a) = A /\ Row(b) = B
<1>0. s \in Seq(Node) /\ Row(s) = A \o B /\ Row(s) \in Seq(ItemSet)
  BY RowIs DEF Plain, Joined
<1>1. CASE B = <<>>
  <2>1. Row(s) = A
    BY <1>0, <1>1, JoinEmpty
  <2> DEFINE none == <<>>
  <2>2. none \in Seq(Node) /\ Solid(none) /\ Row(none) = B
    BY <1>1, PlainEmpty DEF Solid, Plain
  <2>3. Anchored(s, s, FirstEl(B), none)
    BY <1>1 DEF Anchored, FirstEl
  <2> HIDE DEF none
  <2> QED
    BY <1>0, <2>1, <2>2, <2>3
<1>2. CASE B # <<>>
  <2> DEFINE i == Len(A) + 1
             e == ContentChildren(s)[i]
  <2>1. Len(A) \in Nat /\ Len(B) \in Nat /\ Len(Row(s)) = Len(A) + Len(B) /\ Len(B) # 0
    BY <1>0, <1>2, JoinIs
  <2>2. i \in 1..Len(Row(s)) /\ 1 \in 1..Len(B)
    BY <2>1
  <2>3. i \in 1..Len(ContentChildren(s)) /\ Row(s)[i].el = e
    BY <2>2, RowIs
  <2>4. Row(s)[i] = B[1]
    BY <1>0, <2>2, JoinIs
  <2>5. FirstEl(B) = e
    BY <1>2, <2>3, <2>4 DEF FirstEl
  <2> HIDE DEF e
  <2>6. PICK a \in Seq(Node), c \in Seq(Node) : Parts(s, a, e, c) /\ Len(Row(a)) + 1 = i
    BY <2>3, ChildSplit DEF e
  <2>7. e \in Elem
    BY <2>3, ChildSplit DEF e
  <2> DEFINE b == <<e>> \o c
  <2>8. b \in Seq(Node) /\ Solid(b) /\ Anchored(s, a, e, b)
    BY <2>6, <2>7, BeforeChild
  <2>9. s = a \o b
    BY <2>6 DEF Parts
  <2> HIDE DEF b
  <2>10. Row(a) \in Seq(ItemSet) /\ Row(b) \in Seq(ItemSet) /\ Row(s) = Row(a) \o Row(b)
    BY <2>8, <2>9, RowJoin
  <2>11. Row(a) = A
    <3> DEFINE ra == Row(a)
               rb == Row(b)
    <3>1. ra \in Seq(ItemSet) /\ rb \in Seq(ItemSet) /\ Row(s) = ra \o rb
      BY <2>10
    <3>2. Len(ra) = Len(A)
      <4>1. Len(ra) \in Nat
        BY <3>1
      <4> QED
        BY <2>1, <2>6, <4>1
    <3> HIDE DEF ra, rb
    <3>3. \A j \in 1..Len(ra) : ra[j] = Row(s)[j]
      BY <3>1, JoinIs
    <3>4. \A j \in 1..Len(A) : A[j] = Row(s)[j]
      BY <1>0, JoinIs
    <3>5. ra = A
      BY <3>1, <3>2, <3>3, <3>4, SameSeq
    <3> QED
      BY <3>5 DEF ra
  <2>12. Row(b) = B
    <3> DEFINE rb == Row(b)
    <3>1. rb \in Seq(ItemSet) /\ A \o rb = A \o B
      BY <1>0, <2>10, <2>11
    <3> HIDE DEF rb
    <3>2. rb = B
      BY <3>1, JoinCancels
    <3> QED
      BY <3>2 DEF rb
  <2> QED
    BY <2>5, <2>8, <2>11, <2>12
<1> QED
  BY <1>1, <1>2

(* An element that is attached in front of B is an entry there.            *)
LEMMA PlaceAt ==
  ASSUME NEW d \in Sound, NEW p \in Parent, NEW e \in Elem, Homeless(d, {e}),
         NEW t \in Seq(Text), t \in Plain, Homeless(d, ToSet(t)),
         NEW A \in Seq(ItemSet), NEW B \in Seq(ItemSet), Joined(Row(d[p]), A, B)
  PROVE  LET c == Attach(d, p, e, t, FirstEl(B))
         IN  /\ c \in Sound /\ View(c) = WithItems(View(d), p, Row(c[p]))
             /\ Entry(e, t) \in ItemSet /\ Parts(Row(c[p]), A, Entry(e, t), B)
             /\ \A q \in Parent : ToSet(c[q]) \subseteq ToSet(d[q]) \cup {e} \cup ToSet(t)
<1> DEFINE ref == FirstEl(B)
           c == Attach(d, p, e, t, ref)
<1>1. d[p] \in Plain
  BY SoundPlain
<1>2. PICK a \in Seq(Node), b \in Seq(Node) :
        Anchored(d[p], a, ref, b) /\ Solid(b) /\ Row(a) = A /\ Row(b) = B
  BY <1>1, PlaceFor
<1> HIDE DEF ref
<1>3. Becomes(d, c, p, Block(a, e, t, b))
  BY <1>2, AttachIs
<1>4. d[p] = a \o b /\ ToSet(d[p]) = ToSet(a) \cup ToSet(b)
  BY <1>2, AnchoredIs
<1>5. Lead(d[p]) = Lead(a)
  BY <1>2, <1>4, LeadStops
<1> HIDE DEF c
<1>6. /\ c \in Sound /\ View(c) = WithItems(View(d), p, Row(c[p]))
      /\ Entry(e, t) \in ItemSet /\ Parts(Row(c[p]), Row(a), Entry(e, t), Row(b))
  BY <1>2, <1>3, <1>5, BlockShows
<1>7. ToSet(c[p]) = ToSet(a) \cup {e} \cup ToSet(t) \cup ToSet(b)
  <2>1. t \in Seq(Node) /\ e \in Node
    BY TextNodes DEF Node
  <2> DEFINE r == t \o b
  <2>2. r \in Seq(Node) /\ ToSet(r) = ToSet(t) \cup ToSet(b)
    BY <2>1, JoinIs, JoinRange
  <2>3. Parts(c[p], a, e, r)
    BY <1>3 DEF Becomes, Block, Parts
  <2> HIDE DEF r
  <2>4. ToSet(c[p]) = ToSet(a) \cup {e} \cup ToSet(r)
    BY <2>1, <2>2, <2>3, PartsAre
  <2> QED
    BY <2>2, <2>4
<1>8. ASSUME NEW q \in Parent PROVE ToSet(c[q]) \subseteq ToSet(d[q]) \cup {e} \cup ToSet(t)
  <2>1. CASE q = p
    BY <1>4, <1>7, <2>1
  <2>2. CASE q # p
    BY <1>3, <2>2 DEF Becomes
  <2> QED
    BY <2>1, <2>2
<1> QED
  BY <1>2, <1>6, <1>8 DEF c, ref

(* How the list grows: i elements placed, A[i] is done and B[i] still to   *)
(* come; the next one skips M[i] and is placed in front of B[i].           *)
Course(n, A, B, M, els, tails, anchors) ==
  /\ A \in [0..n -> Seq(ItemSet)] /\ B \in [0..n -> Seq(ItemSet)] /\ M \in [1..n -> Seq(ItemSet)]
  /\ \A i \in 1..n : /\ Joined(B[i - 1], M[i], B[i])
                     /\ Joined(A[i], A[i - 1] \o M[i], <<Entry(els[i], tails[i])>>)
                     /\ anchors[i] = FirstEl(B[i])

(* s, w and the parts before and behind the place of x.                    *)
LEMMA PlaceStep ==
  ASSUME NEW X, NEW s, NEW a, NEW m, NEW b, All3(X, a, m, b), NEW r, Joined(r, m, b),
         Joined(s, a, r)
  PROVE  a \o m \in Seq(X) /\ Joined(s, a \o m, b)
<1>1. (a \o m) \o b = a \o (m \o b) /\ a \o m \in Seq(X)
  BY Assoc
<1>2. r = m \o b /\ s = a \o r
  BY DEF Joined
<1> QED
  BY <1>1, <1>2, Zenon DEF Joined

LEMMA PlacedStep ==
  ASSUME NEW X, NEW a \in Seq(X), NEW x \in X, NEW b \in Seq(X), NEW w, Parts(w, a, x, b),
         NEW c, Joined(c, a, <<x>>)
  PROVE  Joined(w, c, b)
<1> DEFINE one == <<x>>
<1>1. one \in Seq(X) /\ w = a \o (one \o b) /\ c = a \o one
  BY OneIs DEF Parts, Joined
<1> HIDE DEF one
<1>2. All3(X, a, one, b)
  BY <1>1 DEF All3
<1>3. (a \o one) \o b = a \o (one \o b)
  BY <1>2, Assoc
<1> QED
  BY <1>1, <1>3, Zenon DEF Joined

(* A course that starts from the list under p.                             *)
Going(k, p, A, B, M, els, tails, anchors) ==
  /\ Ready(k, els, tails) /\ Course(Len(els), A, B, M, els, tails, anchors)
  /\ Joined(Row(k[p]), A[0], B[0])

LEMMA WithItemsTwice ==
  ASSUME NEW v, NEW p, NEW a, NEW b
  PROVE  WithItems(WithItems(v, p, a), p, b) = WithItems(v, p, b)
  BY DEF WithItems

LEMMA PlaceAllShows ==
  ASSUME NEW k \in Sound, NEW p \in Parent, NEW els, NEW tails, NEW A, NEW B, NEW M, NEW anchors,
         Going(k, p, A, B, M, els, tails, anchors)
  PROVE  View(PlaceAll(k, p, els, tails, anchors))
           = WithItems(View(k), p, A[Len(els)] \o B[Len(els)])
<1> DEFINE n == Len(els)
           v == View(k)
<1>g. /\ Ready(k, els, tails) /\ Course(n, A, B, M, els, tails, anchors)
      /\ Joined(Row(k[p]), A[0], B[0])
  BY DEF Going
<1>r. els \in Seq(Elem) /\ tails \in Seq(Seq(Text)) /\ Len(tails) = Len(els)
  BY <1>g DEF Ready
<1>0. PICK f : Placing(k, p, els, tails, anchors, f)
  BY <1>r, PlaceLoop
<1>1. n \in Nat /\ \A i \in 1..n : els[i] \in Elem /\ tails[i] \in Seq(Text)
  BY <1>r
<1>2. /\ f[0] = k /\ f[n] = PlaceAll(k, p, els, tails, anchors)
      /\ \A i \in 1..n : f[i] = Attach(f[i - 1], p, els[i], tails[i], anchors[i])
  BY <1>0 DEF Placing
<1>3. /\ \A i \in 0..n : A[i] \in Seq(ItemSet) /\ B[i] \in Seq(ItemSet)
      /\ \A i \in 1..n : /\ M[i] \in Seq(ItemSet) /\ Joined(B[i - 1], M[i], B[i])
                         /\ Joined(A[i], A[i - 1] \o M[i], <<Entry(els[i], tails[i])>>)
                         /\ anchors[i] = FirstEl(B[i])
  BY <1>g DEF Course
<1>4. /\ \A j \in 1..n : tails[j] \in Plain /\ Homeless(k, {els[j]}) /\ Homeless(k, ToSet(tails[j]))
      /\ \A i, j \in 1..n : i # j => els[i] # els[j] /\ ToSet(tails[i]) \cap ToSet(tails[j]) = {}
  BY <1>g DEF Ready
<1>5. \A i, j \in 1..n : els[i] \notin ToSet(tails[j])
  <2> SUFFICES ASSUME NEW i \in 1..n, NEW j \in 1..n PROVE els[i] \notin ToSet(tails[j])
    OBVIOUS
  <2>1. els[i] \in Elem /\ tails[j] \in Seq(Text)
    BY <1>1
  <2>2. ToSet(tails[j]) \subseteq Text
    BY <2>1, TextNodes
  <2> QED
    BY <2>1, <2>2, ChildListAssumption
<1>v. v \in ViewSet
  BY ViewTyped
<1>w. View(k) = v
  OBVIOUS
<1> HIDE DEF n, v
<1> DEFINE Rest(c, i) == \A j \in (i + 1)..n : Homeless(c, {els[j]}) /\ Homeless(c, ToSet(tails[j]))
           H == {i \in 0..n : /\ f[i] \in Sound /\ View(f[i]) = WithItems(v, p, Row(f[i][p]))
                              /\ Joined(Row(f[i][p]), A[i], B[i])
                              /\ Rest(f[i], i)}
<1>6. 0 \in H
  <2>1. k \in Sound /\ Joined(Row(k[p]), A[0], B[0]) /\ 0 \in 0..n
    BY <1>1, <1>g
  <2>2. v[p].items = Row(k[p])
    BY <1>w, ItemsOf
  <2>3. WithItems(v, p, v[p].items) = v
    BY <1>v DEF WithItems, ViewSet
  <2>4. Rest(k, 0)
    BY <1>4
  <2> HIDE DEF Rest
  <2> QED
    BY <1>2, <1>w, <2>1, <2>2, <2>3, <2>4
<1>7. ASSUME NEW i \in 1..n, i - 1 \in H PROVE i \in H
  <2> DEFINE h == i - 1
             c == f[h]
             e == els[i]
             t == tails[i]
             a == A[h]
             m == M[i]
             b == B[i]
             r == B[h]
             x == Entry(e, t)
             d == f[i]
  <2>1. h \in 0..n /\ i \in 0..n /\ h + 1 = i
    BY <1>1
  <2>2. c \in Sound /\ View(c) = WithItems(v, p, Row(c[p])) /\ Joined(Row(c[p]), a, r) /\ Rest(c, h)
    BY <1>7
  <2>3. e \in Elem /\ t \in Seq(Text) /\ t \in Plain
    BY <1>1, <1>4
  <2>4. Homeless(c, {e}) /\ Homeless(c, ToSet(t))
    <3>1. i \in (h + 1)..n
      BY <1>1
    <3> QED
      BY <2>2, <3>1
  <2>5. All3(ItemSet, a, m, b) /\ Joined(r, m, b) /\ Joined(A[i], a \o m, <<x>>)
    BY <1>3, <2>1 DEF All3
  <2>6. d = Attach(c, p, e, t, FirstEl(b))
    BY <1>2, <1>3
  <2>7. \A j \in (i + 1)..n : j \in 1..n /\ j # i /\ j \in (h + 1)..n
    BY <1>1
  <2>8. \A j \in (i + 1)..n : /\ els[j] # e /\ els[j] \notin ToSet(t)
                              /\ e \notin ToSet(tails[j]) /\ ToSet(t) \cap ToSet(tails[j]) = {}
    BY <1>4, <1>5, <2>7
  <2>9. \A j \in (i + 1)..n : Homeless(c, {els[j]}) /\ Homeless(c, ToSet(tails[j]))
    BY <2>2, <2>7
  <2> HIDE DEF c, e, t, a, m, b, r, x, d, h, Rest
  <2>10. a \o m \in Seq(ItemSet) /\ Joined(Row(c[p]), a \o m, b) /\ b \in Seq(ItemSet)
    BY <2>2, <2>5, PlaceStep DEF All3
  <2> DEFINE am == a \o m
  <2> HIDE DEF am
  <2>11. am \in Seq(ItemSet) /\ Joined(Row(c[p]), am, b) /\ Joined(A[i], am, <<x>>)
    BY <2>5, <2>10 DEF am
  <2>12. /\ d \in Sound /\ View(d) = WithItems(View(c), p, Row(d[p]))
         /\ Entry(e, t) \in ItemSet /\ Parts(Row(d[p]), am, Entry(e, t), b)
         /\ \A q \in Parent : ToSet(d[q]) \subseteq ToSet(c[q]) \cup {e} \cup ToSet(t)
    <3>1. /\ c \in Sound /\ e \in Elem /\ Homeless(c, {e})
          /\ t \in Seq(Text) /\ t \in Plain /\ Homeless(c, ToSet(t))
      BY <2>2, <2>3, <2>4
    <3>2. am \in Seq(ItemSet) /\ b \in Seq(ItemSet) /\ Joined(Row(c[p]), am, b)
      BY <2>10, <2>11
    <3> QED
      BY <3>1, <3>2, <2>6, PlaceAt
  <2>13. Joined(Row(d[p]), A[i], b)
    <3>1. x \in ItemSet /\ Parts(Row(d[p]), am, x, b)
      BY <2>12 DEF x
    <3> QED
      BY <2>10, <2>11, <3>1, PlacedStep
  <2>14. View(d) = WithItems(v, p, Row(d[p]))
    <3>1. View(c) = WithItems(v, p, Row(c[p])) /\ View(d) = WithItems(View(c), p, Row(d[p]))
      BY <2>2, <2>12
    <3> QED
      BY <3>1, WithItemsTwice
  <2>15. \A j \in (i + 1)..n : Homeless(d, {els[j]}) /\ Homeless(d, ToSet(tails[j]))
    <3> SUFFICES ASSUME NEW j \in (i + 1)..n
                 PROVE  Homeless(d, {els[j]}) /\ Homeless(d, ToSet(tails[j]))
      OBVIOUS
    <3> DEFINE o == els[j]
               u == ToSet(tails[j])
    <3>1. o # e /\ o \notin ToSet(t) /\ e \notin u /\ ToSet(t) \cap u = {}
      BY <2>8
    <3>2. Homeless(c, {o}) /\ Homeless(c, u)
      BY <2>9
    <3> HIDE DEF o, u
    <3>3. \A q \in Parent : ToSet(d[q]) \cap {o} = {} /\ ToSet(d[q]) \cap u = {}
      BY <2>12, <3>1, <3>2 DEF Homeless
    <3> QED
      BY <3>3 DEF Homeless, o, u
  <2>16. Rest(d, i)
    BY <2>15 DEF Rest
  <2> QED
    BY <2>1, <2>12, <2>13, <2>14, <2>16 DEF b, d
<1>8. n \in H
  <2>1. 0..n \subseteq H
    <3> HIDE DEF H
    <3> QED
      BY <1>1, <1>6, <1>7, Induction
  <2>2. n \in 0..n
    BY <1>1
  <2> HIDE DEF H
  <2> QED
    BY <2>1, <2>2
<1>9. View(f[n]) = WithItems(v, p, A[n] \o B[n])
  BY <1>8 DEF Joined
<1> QED
  BY <1>2, <1>9 DEF n, v

-----------------------------------------------------------------------------
(* Slices of lists.                                                        *)

(* s is a, then b, then c.                                                 *)
Thirds(X, s, a, b, c) == All3(X, a, b, c) /\ s = a \o (b \o c)

LEMMA ThirdsAre ==
  ASSUME NEW X, NEW s, NEW a, NEW b, NEW c, Thirds(X, s, a, b, c)
  PROVE  /\ SubSeq(s, 1, Len(a)) = a
         /\ SubSeq(s, Len(a) + 1, Len(a) + Len(b)) = b
         /\ SubSeq(s, Len(a) + Len(b) + 1, Len(s)) = c
         /\ Len(s) = Len(a) + Len(b) + Len(c) /\ s \in Seq(X)
<1> DEFINE r == b \o c
           la == Len(a)
           lb == Len(b)
           lc == Len(c)
<1>1. a \in Seq(X) /\ b \in Seq(X) /\ c \in Seq(X)
  BY DEF Thirds, All3
<1>2. /\ r \in Seq(X) /\ Len(r) = lb + lc /\ lb \in Nat /\ lc \in Nat
      /\ \A i \in 1..lb : r[i] = b[i]
      /\ \A i \in 1..lc : r[lb + i] = c[i]
  BY <1>1, JoinIs
<1>3. s = a \o r
  BY DEF Thirds
<1> HIDE DEF r
<1>k. a \in Seq(X) /\ r \in Seq(X)
  BY <1>1, <1>2
<1>4. /\ s \in Seq(X) /\ Len(s) = la + Len(r) /\ la \in Nat
      /\ \A i \in 1..la : s[i] = a[i]
      /\ \A i \in 1..Len(r) : s[la + i] = r[i]
  BY <1>3, <1>k, JoinIs
<1>5. /\ \A i \in 1..lb : s[la + i] = b[i]
      /\ \A i \in 1..lc : s[la + (lb + i)] = c[i]
  <2>1. /\ \A i \in 1..lb : i \in 1..Len(r)
        /\ \A i \in 1..lc : lb + i \in 1..Len(r)
    BY <1>2
  <2> QED
    BY <1>2, <1>4, <2>1
<1> DEFINE u == SubSeq(s, 1, la)
           v == SubSeq(s, la + 1, la + lb)
           w == SubSeq(s, la + lb + 1, Len(s))
<1>a. la \in Nat /\ lb \in Nat /\ lc \in Nat /\ Len(s) = la + lb + lc /\ Len(r) = lb + lc
  BY <1>2, <1>4
<1>b. a \in Seq(X) /\ Len(a) = la /\ b \in Seq(X) /\ Len(b) = lb /\ c \in Seq(X) /\ Len(c) = lc
  BY <1>1
<1> HIDE DEF la, lb, lc
<1>6. u = a
  <2>1. u \in Seq(X) /\ Len(u) = la /\ \A i \in 1..la : u[i] = s[i]
    BY <1>4, <1>a
  <2> HIDE DEF u
  <2> QED
    BY <1>4, <1>b, <2>1, SameSeq
<1>7. v = b
  <2>1. v \in Seq(X) /\ Len(v) = lb /\ \A i \in 1..lb : v[i] = s[la + i]
    <3>1. la + 1 \in Nat \ {0} /\ la + lb \in Nat /\ la + lb <= Len(s)
      BY <1>a
    <3>2. v \in Seq(X)
      BY <1>4, <3>1, Sliced
    <3>3. Len(v) = lb
      BY <1>4, <1>a
    <3>4. \A i \in 1..lb : v[i] = s[la + i]
      BY <1>4, <1>a
    <3> QED
      BY <3>2, <3>3, <3>4
  <2> HIDE DEF v
  <2> QED
    BY <1>5, <1>b, <2>1, SameSeq
<1>8. w = c
  <2>1. w \in Seq(X) /\ Len(w) = lc /\ \A i \in 1..lc : w[i] = s[la + (lb + i)]
    <3>1. la + lb + 1 \in Nat \ {0} /\ Len(s) \in Nat /\ Len(s) <= Len(s)
      BY <1>a
    <3>2. w \in Seq(X)
      BY <1>4, <3>1, Sliced
    <3>3. Len(w) = lc
      BY <1>4, <1>a
    <3>4. \A i \in 1..lc : w[i] = s[la + (lb + i)]
      BY <1>4, <1>a
    <3> QED
      BY <3>2, <3>3, <3>4
  <2> HIDE DEF w
  <2> QED
    BY <1>5, <1>b, <2>1, SameSeq
<1> QED
  BY <1>4, <1>6, <1>7, <1>8, <1>a DEF la, lb, lc

(* A list cut at two places.                                               *)
LEMMA CutTwice ==
  ASSUME NEW X, NEW s \in Seq(X), NEW i \in 0..Len(s), NEW j \in 0..Len(s), i <= j
  PROVE  \E a, b, c : /\ Thirds(X, s, a, b, c) /\ Len(a) = i /\ Len(a) + Len(b) = j
                      /\ SubSeq(s, 1, i) = a /\ SubSeq(s, i + 1, j) = b
                      /\ SubSeq(s, j + 1, Len(s)) = c
<1>1. PICK a \in Seq(X), r \in Seq(X) : s = a \o r /\ Len(a) = i
  BY CutAt
<1>2. Len(s) = i + Len(r) /\ Len(r) \in Nat /\ i \in Nat
  BY <1>1, JoinIs
<1>3. j - i \in 0..Len(r)
  BY <1>2
<1>4. PICK b \in Seq(X), c \in Seq(X) : r = b \o c /\ Len(b) = j - i
  BY <1>3, CutAt
<1>5. All3(X, a, b, c) /\ s = a \o (b \o c)
  BY <1>1, <1>4 DEF All3
<1>6. Len(a) + Len(b) = j
  BY <1>1, <1>2, <1>4
<1>9. Thirds(X, s, a, b, c)
  BY <1>5 DEF Thirds
<1>7. /\ SubSeq(s, 1, Len(a)) = a
      /\ SubSeq(s, Len(a) + 1, Len(a) + Len(b)) = b
      /\ SubSeq(s, Len(a) + Len(b) + 1, Len(s)) = c
  BY <1>9, ThirdsAre
<1>8. SubSeq(s, 1, i) = a /\ SubSeq(s, i + 1, j) = b /\ SubSeq(s, j + 1, Len(s)) = c
  BY <1>1, <1>6, <1>7
<1> QED
  BY <1>1, <1>6, <1>8, <1>9, Zenon

(* The elements of a list's entries.                                       *)
Els(s) == [i \in DOMAIN s |-> s[i].el]

LEMMA ElsIs ==
  ASSUME NEW s \in Seq(ItemSet)
  PROVE  /\ Els(s) \in Seq(Elem) /\ Len(Els(s)) = Len(s) /\ Len(s) \in Nat
         /\ \A i \in 1..Len(s) : Els(s)[i] = s[i].el
         /\ ToSet(Els(s)) = {x.el : x \in ToSet(s)}
         /\ FirstOr(Els(s), NoNode) = FirstEl(s)
<1>1. Len(s) \in Nat /\ DOMAIN s = 1..Len(s) /\ \A i \in 1..Len(s) : s[i].el \in Elem
  <2>1. Len(s) \in Nat /\ DOMAIN s = 1..Len(s) /\ \A i \in 1..Len(s) : s[i] \in ItemSet
    OBVIOUS
  <2>2. \A x \in ItemSet : x.el \in Elem
    BY DEF ItemSet
  <2> QED
    BY <2>1, <2>2
<1>2. Els(s) \in [1..Len(s) -> Elem] /\ \A i \in 1..Len(s) : Els(s)[i] = s[i].el
  BY <1>1 DEF Els
<1>3. Els(s) \in Seq(Elem) /\ Len(Els(s)) = Len(s) /\ DOMAIN Els(s) = 1..Len(s)
  BY <1>1, <1>2
<1>4. ToSet(Els(s)) = {x.el : x \in ToSet(s)}
  BY <1>1, <1>2, <1>3 DEF ToSet
<1>5. FirstOr(Els(s), NoNode) = FirstEl(s)
  <2>1. CASE s = <<>>
    <3>1. Els(s) = <<>>
      BY <1>3, <2>1
    <3> QED
      BY <2>1, <3>1 DEF FirstOr, FirstEl
  <2>2. CASE s # <<>>
    <3>1. Len(s) # 0
      BY <2>2
    <3>2. Els(s) # <<>> /\ 1 \in 1..Len(s)
      BY <1>1, <1>3, <3>1
    <3>3. Head(Els(s)) = s[1].el
      BY <1>2, <1>3, <3>2
    <3> QED
      BY <2>2, <3>2, <3>3 DEF FirstOr, FirstEl
  <2> QED
    BY <2>1, <2>2
<1> QED
  BY <1>1, <1>2, <1>3, <1>4, <1>5

LEMMA ElsJoin ==
  ASSUME NEW a \in Seq(ItemSet), NEW b \in Seq(ItemSet)
  PROVE  Els(a \o b) = Els(a) \o Els(b)
<1> DEFINE c == a \o b
           ea == Els(a)
           eb == Els(b)
           d == ea \o eb
           la == Len(a)
           lb == Len(b)
<1>1. /\ c \in Seq(ItemSet) /\ Len(c) = la + lb /\ la \in Nat /\ lb \in Nat
      /\ \A i \in 1..la : c[i] = a[i]
      /\ \A i \in 1..lb : c[la + i] = b[i]
  BY JoinIs
<1>2. /\ ea \in Seq(Elem) /\ Len(ea) = la /\ \A i \in 1..la : ea[i] = a[i].el
      /\ eb \in Seq(Elem) /\ Len(eb) = lb /\ \A i \in 1..lb : eb[i] = b[i].el
  BY ElsIs
<1> HIDE DEF ea, eb, c
<1>3. /\ d \in Seq(Elem) /\ Len(d) = la + lb
      /\ \A i \in 1..la : d[i] = ea[i]
      /\ \A i \in 1..lb : d[la + i] = eb[i]
  <2>1. ea \in Seq(Elem) /\ eb \in Seq(Elem)
    BY <1>2
  <2>2. /\ d \in Seq(Elem) /\ Len(d) = Len(ea) + Len(eb)
        /\ \A i \in 1..Len(ea) : d[i] = ea[i]
        /\ \A i \in 1..Len(eb) : d[Len(ea) + i] = eb[i]
    BY <2>1, JoinIs
  <2> QED
    BY <1>2, <2>2
<1>4. Els(c) \in Seq(Elem) /\ Len(Els(c)) = la + lb /\ \A i \in 1..(la + lb) : Els(c)[i] = c[i].el
  BY <1>1, ElsIs
<1> HIDE DEF d, la, lb
<1>5. ASSUME NEW i \in 1..(la + lb) PROVE Els(c)[i] = d[i]
  <2>1. CASE i \in 1..la
    <3>1. Els(c)[i] = c[i].el
      BY <1>4
    <3>2. c[i] = a[i] /\ d[i] = ea[i] /\ ea[i] = a[i].el
      BY <1>1, <1>2, <1>3, <2>1
    <3> QED
      BY <3>1, <3>2
  <2>2. CASE i \notin 1..la
    <3>1. i - la \in 1..lb /\ la + (i - la) = i
      BY <1>1, <2>2
    <3> DEFINE j == i - la
    <3>2. j \in 1..lb /\ la + j = i
      BY <3>1
    <3> HIDE DEF j
    <3>3. d[la + j] = eb[j] /\ eb[j] = b[j].el /\ c[la + j] = b[j]
      BY <1>1, <1>2, <1>3, <3>2
    <3> QED
      BY <1>4, <3>2, <3>3
  <2> QED
    BY <2>1, <2>2
<1>6. Els(c) = d
  BY <1>3, <1>4, <1>5, SameSeq
<1> QED
  BY <1>6 DEF c, d, ea, eb

LEMMA ElsOne ==
  ASSUME NEW x \in ItemSet
  PROVE  Els(<<x>>) = <<x.el>> /\ x.el \in Elem /\ <<x>> \in Seq(ItemSet)
<1> DEFINE s == <<x>>
<1>1. s \in Seq(ItemSet) /\ DOMAIN s = 1..1 /\ s[1] = x /\ x.el \in Elem
  BY OneIs DEF ItemSet
<1> HIDE DEF s
<1>2. Els(s) = [i \in 1..1 |-> s[i].el]
  BY <1>1 DEF Els
<1>3. [i \in 1..1 |-> s[i].el] = <<x.el>>
  <2>1. \A i \in 1..1 : i = 1
    OBVIOUS
  <2>2. [i \in 1..1 |-> s[i].el] = [i \in 1..1 |-> x.el]
    BY <1>1, <2>1
  <2>3. [i \in 1..1 |-> x.el] = <<x.el>>
    OBVIOUS
  <2> QED
    BY <2>2, <2>3
<1> QED
  BY <1>1, <1>2, <1>3 DEF s

(* Leaving out elements is leaving out their entries.                      *)
LEMMA NotInEls ==
  ASSUME NEW s \in Seq(ItemSet), NEW S
  PROVE  NotIn(Els(s), S) = Els(Keeping(s, S))
<1> DEFINE G == {u \in Seq(ItemSet) : NotIn(Els(u), S) = Els(Keeping(u, S))}
<1>1. <<>> \in G
  <2> DEFINE none == <<>>
  <2>1. none \in Seq(ItemSet) /\ ToSet(none) = {} /\ none \in Seq(Elem)
    BY EmptyIs
  <2>2. Els(none) = none
    BY DEF Els
  <2> HIDE DEF none
  <2>3. NotIn(none, S) = none
    BY <2>1, NotInSome
  <2>4. Keeping(none, S) = none
    BY <2>1, KeepingIs
  <2>5. none \in G
    BY <2>1, <2>2, <2>3, <2>4
  <2> QED
    BY <2>5 DEF none
<1>2. ASSUME NEW u \in Seq(ItemSet), NEW x \in ItemSet, u \in G
      PROVE  u \o <<x>> \in G
  <2> DEFINE one == <<x>>
             eu == Els(u)
             eo == <<x.el>>
             ku == Keeping(u, S)
             ko == Keeping(one, S)
  <2>1. Els(one) = eo /\ x.el \in Elem /\ one \in Seq(ItemSet)
    BY ElsOne
  <2>2. eu \in Seq(Elem) /\ eo \in Seq(Elem) /\ ToSet(eo) = {x.el}
    BY <2>1, ElsIs, OneIs, OneRange
  <2>e. eo \in Seq(Elem) /\ ToSet(eo) = {x.el}
    BY <2>2
  <2>3. ku \in Seq(ItemSet) /\ ko \in Seq(ItemSet) /\ ko = IF x.el \in S THEN <<>> ELSE one
    BY <2>1, KeepingIs, KeepingOne
  <2>4. NotIn(eu, S) = Els(ku)
    BY <1>2
  <2>5. NotIn(eo, S) = Els(ko)
    <3>n. /\ ToSet(eo) \subseteq S => NotIn(eo, S) = <<>>
          /\ ToSet(eo) \cap S = {} => NotIn(eo, S) = eo
      <4> HIDE DEF eo
      <4> QED
        BY <2>e, NotInSome
    <3>1. CASE x.el \in S
      <4>1. NotIn(eo, S) = <<>>
        BY <2>e, <3>n, <3>1
      <4>2. Els(ko) = <<>>
        BY <2>3, <3>1 DEF Els
      <4> QED
        BY <4>1, <4>2
    <3>2. CASE x.el \notin S
      <4>1. NotIn(eo, S) = eo
        BY <2>e, <3>n, <3>2
      <4> QED
        BY <2>1, <2>3, <3>2, <4>1
    <3> QED
      BY <3>1, <3>2
  <2> HIDE DEF one, eo
  <2>6. Els(u \o one) = eu \o eo
    BY <2>1, ElsJoin
  <2> HIDE DEF eu, ku, ko
  <2>7. NotIn(eu \o eo, S) = NotIn(eu, S) \o NotIn(eo, S)
    BY <2>2, NotInJoin
  <2>8. Keeping(u \o one, S) = ku \o ko
    BY <2>1, KeepingJoin DEF ku, ko
  <2>9. Els(ku \o ko) = Els(ku) \o Els(ko)
    BY <2>3, ElsJoin
  <2>10. u \o one \in Seq(ItemSet)
    BY <2>1, JoinIs
  <2>11. NotIn(Els(u \o one), S) = Els(Keeping(u \o one, S))
    BY <2>4, <2>5, <2>6, <2>7, <2>8, <2>9
  <2> QED
    BY <2>10, <2>11 DEF one
<1>3. Seq(ItemSet) \subseteq G
  <2> HIDE DEF G
  <2> QED
    BY <1>1, <1>2, AppendInduction
<1> QED
  BY <1>3

(* Cutting a list cuts its elements.                                       *)
LEMMA ElsCut ==
  ASSUME NEW s, NEW a, NEW b, NEW c, Thirds(ItemSet, s, a, b, c)
  PROVE  /\ SubSeq(Els(s), Len(a) + 1, Len(a) + Len(b)) = Els(b)
         /\ SubSeq(Els(s), Len(a) + Len(b) + 1, Len(Els(s))) = Els(c)
         /\ Els(b) \in Seq(Elem) /\ Els(c) \in Seq(Elem)
<1> DEFINE ea == Els(a)
           eb == Els(b)
           ec == Els(c)
           r == b \o c
<1>1. a \in Seq(ItemSet) /\ b \in Seq(ItemSet) /\ c \in Seq(ItemSet)
  BY DEF Thirds, All3
<1>2. /\ ea \in Seq(Elem) /\ Len(ea) = Len(a)
      /\ eb \in Seq(Elem) /\ Len(eb) = Len(b)
      /\ ec \in Seq(Elem)
  BY <1>1, ElsIs
<1>3. Els(r) = eb \o ec /\ r \in Seq(ItemSet)
  BY <1>1, ElsJoin, JoinIs
<1>4. s = a \o r
  BY DEF Thirds
<1> HIDE DEF ea, eb, ec, r
<1>5. Els(s) = ea \o Els(r)
  BY <1>1, <1>3, <1>4, ElsJoin DEF ea
<1>6. All3(Elem, ea, eb, ec)
  BY <1>2 DEF All3
<1> DEFINE es == Els(s)
<1>7. Thirds(Elem, es, ea, eb, ec)
  BY <1>3, <1>5, <1>6 DEF Thirds
<1> HIDE DEF es
<1>8. /\ SubSeq(es, Len(ea) + 1, Len(ea) + Len(eb)) = eb
      /\ SubSeq(es, Len(ea) + Len(eb) + 1, Len(es)) = ec
  BY <1>7, ThirdsAre
<1> QED
  BY <1>2, <1>8 DEF es, eb, ec

(* The children of a chain are the elements of its list.                   *)
LEMMA ChildrenEls ==
  ASSUME NEW s \in Plain
  PROVE  ContentChildren(s) = Els(Row(s)) /\ Row(s) \in Seq(ItemSet)
<1> DEFINE r == Row(s)
           c == ContentChildren(s)
<1>1. /\ r \in Seq(ItemSet) /\ Len(r) = Len(c)
      /\ \A i \in 1..Len(r) : r[i].el = c[i]
  BY RowIs
<1>2. c \in Seq(Elem)
  BY ChildrenAre DEF Plain
<1> HIDE DEF c, r
<1>3. Els(r) \in Seq(Elem) /\ Len(Els(r)) = Len(r) /\ \A i \in 1..Len(r) : Els(r)[i] = r[i].el
  BY <1>1, ElsIs
<1>4. Els(r) = c
  BY <1>1, <1>2, <1>3, SameSeq
<1> QED
  BY <1>1, <1>4 DEF c, r

(* What is left when the new elements have been adopted and the children of *)
(* the slice have left.                                                    *)
LEMMA CutShows ==
  ASSUME NEW k \in Sound, NEW els \in Seq(Elem), Distinct(els), NEW seq \in Seq(Elem)
  PROVE  LET a == AdoptAll(k, els)
             c == ExtractAll(a.k, seq)
             S == ToSet(els) \cup ToSet(seq)
         IN  /\ c \in Sound /\ View(c) = Without(View(k), S) /\ Ready(c, els, a.tails)
             /\ \A j \in 1..Len(els) : a.tails[j] = TailRun(k, els[j])
             /\ \A q \in Parent : Row(c[q]) = Keeping(Row(k[q]), S)
<1> DEFINE a == AdoptAll(k, els)
           d == a.k
           c == ExtractAll(d, seq)
           E == ToSet(els)
           S == E \cup ToSet(seq)
           v == View(k)
<1>1. /\ d \in Sound /\ View(d) = Without(v, E) /\ Ready(d, els, a.tails)
      /\ \A j \in 1..Len(els) : a.tails[j] = TailRun(k, els[j])
  BY AdoptShows
<1>v. v \in ViewSet
  BY ViewTyped
<1> HIDE DEF a, d, E
<1>2. View(c) = Without(View(d), ToSet(seq))
  BY <1>1, ExtractAllShows
<1>3. c \in Sound /\ \A q \in Parent : ToSet(c[q]) \subseteq ToSet(d[q])
  BY <1>1, ExtractAllShrinks
<1> HIDE DEF c
<1>4. Ready(c, els, a.tails)
  BY <1>1, <1>3, StillReady
<1> HIDE DEF v
<1>5. View(c) = Without(v, S)
  <2>1. Without(Without(v, E), ToSet(seq)) = Without(v, E \cup ToSet(seq))
    BY <1>v, WithoutTwice
  <2> QED
    BY <1>1, <1>2, <2>1
<1> HIDE DEF S
<1>6. ASSUME NEW q \in Parent PROVE Row(c[q]) = Keeping(Row(k[q]), S)
  <2>1. View(c)[q].items = Row(c[q])
    BY <1>3, ItemsOf
  <2>2. v[q].items = Row(k[q])
    BY ItemsOf DEF v
  <2>3. Without(v, S)[q].items = Keeping(v[q].items, S)
    BY <1>v, WithoutOf
  <2> QED
    BY <1>5, <2>1, <2>2, <2>3
<1> QED
  BY <1>1, <1>3, <1>4, <1>5, <1>6 DEF a, c, d, v, S, E

LEMMA ChildIs ==
  ASSUME NEW c \in Sound, NEW p \in Parent, NEW x \in Elem
  PROVE  IsChild(c, p, x) <=> x \in {y.el : y \in ToSet(Row(c[p]))}
<1> DEFINE s == c[p]
           r == Row(s)
<1>1. s \in Plain /\ s \in Seq(Node)
  BY SoundPlain
<1>2. IsChild(c, p, x) <=> x \in ToSet(s)
  BY DEF IsChild, Homes
<1> HIDE DEF s
<1>3. ToSet(ContentChildren(s)) = ToSet(s) \cap Elem
  BY <1>1, ChildrenAre
<1>4. ContentChildren(s) = Els(r) /\ r \in Seq(ItemSet)
  BY <1>1, ChildrenEls
<1> HIDE DEF r
<1>5. ToSet(Els(r)) = {y.el : y \in ToSet(r)}
  BY <1>4, ElsIs
<1> QED
  BY <1>2, <1>3, <1>4, <1>5 DEF r, s

(* Which children are still there when the elements of S have left.        *)
LEMMA ChildLeft ==
  ASSUME NEW k \in Sound, NEW c \in Sound, NEW p \in Parent, NEW S,
         Row(c[p]) = Keeping(Row(k[p]), S), NEW x \in Elem
  PROVE  IsChild(c, p, x) <=> IsChild(k, p, x) /\ x \notin S
<1> DEFINE r == Row(k[p])
           w == Row(c[p])
<1>1. r \in Seq(ItemSet)
  BY SoundPlain, RowIs
<1>2. /\ IsChild(k, p, x) <=> x \in {y.el : y \in ToSet(r)}
      /\ IsChild(c, p, x) <=> x \in {y.el : y \in ToSet(w)}
  BY ChildIs
<1>3. w = Keeping(r, S)
  OBVIOUS
<1> HIDE DEF r, w
<1>4. ToSet(w) = {y \in ToSet(r) : y.el \notin S}
  BY <1>1, <1>3, KeepingIs
<1> QED
  BY <1>2, <1>4

(* The anchor is the first entry of the rest that stays.                   *)
LEMMA FirstStaying ==
  ASSUME NEW r \in Seq(ItemSet), NEW S, NEW T, \A y \in ToSet(r) : y.el \in S <=> y.el \in T
  PROVE  /\ FirstOr(NotIn(Els(r), T), NoNode) = FirstEl(Keeping(r, S))
         /\ Keeping(r, S) \in Seq(ItemSet)
<1> DEFINE es == Els(r)
           w == Keeping(r, S)
<1>1. es \in Seq(Elem) /\ ToSet(es) = {y.el : y \in ToSet(r)}
  BY ElsIs
<1>2. w \in Seq(ItemSet)
  BY KeepingIs
<1>3. NotIn(es, S) = Els(w)
  BY NotInEls
<1> HIDE DEF es, w
<1>4. NotIn(es, S) = NotIn(es, T)
  <2>1. \A x \in ToSet(es) : x \in S <=> x \in T
    BY <1>1
  <2> QED
    BY <1>1, <2>1, NotInAgree
<1>5. FirstOr(Els(w), NoNode) = FirstEl(w)
  BY <1>2, ElsIs
<1> QED
  BY <1>2, <1>3, <1>4, <1>5 DEF es, w

LEMMA FirstOnes ==
  ASSUME NEW X, NEW s \in Seq(X)
  PROVE  /\ SubSeq(s, 1, 0) = <<>> /\ SubSeq(s, 1, Len(s)) = s
         /\ \A i \in 0..Len(s) : SubSeq(s, 1, i) \in Seq(X)
         /\ \A i \in 1..Len(s) : Joined(SubSeq(s, 1, i), SubSeq(s, 1, i - 1), <<s[i]>>)
<1>0. Len(s) \in Nat /\ \A i \in 1..Len(s) : s[i] \in X
  OBVIOUS
<1>1. ASSUME NEW i \in 0..Len(s)
      PROVE  /\ SubSeq(s, 1, i) \in Seq(X) /\ Len(SubSeq(s, 1, i)) = i
             /\ \A h \in 1..i : SubSeq(s, 1, i)[h] = s[h]
  <2> DEFINE t == SubSeq(s, 1, i)
  <2>1. t \in Seq(X) /\ Len(t) = (IF 1 <= i THEN i - 1 + 1 ELSE 0) /\ DOMAIN t = 1..Len(t)
        /\ \A h \in DOMAIN t : t[h] = s[1 + h - 1]
    <3>1. 1 \in Nat \ {0} /\ i \in Nat /\ i <= Len(s)
      BY <1>0
    <3> QED
      BY <3>1, Sliced
  <2> HIDE DEF t
  <2>2. Len(t) = i
    BY <1>0, <2>1
  <2> QED
    BY <2>1, <2>2 DEF t
<1>2. SubSeq(s, 1, 0) = <<>>
  <2>1. SubSeq(s, 1, 0) \in Seq(X) /\ Len(SubSeq(s, 1, 0)) = 0
    BY <1>0, <1>1
  <2> QED
    BY <2>1
<1>3. SubSeq(s, 1, Len(s)) = s
  <2> DEFINE t == SubSeq(s, 1, Len(s))
  <2>1. t \in Seq(X) /\ Len(t) = Len(s) /\ \A h \in 1..Len(s) : t[h] = s[h]
    BY <1>0, <1>1
  <2> HIDE DEF t
  <2>2. t = s
    BY <2>1, SameSeq
  <2> QED
    BY <2>2 DEF t
<1>4. ASSUME NEW i \in 1..Len(s)
      PROVE  Joined(SubSeq(s, 1, i), SubSeq(s, 1, i - 1), <<s[i]>>)
  <2> DEFINE t == SubSeq(s, 1, i)
             u == SubSeq(s, 1, i - 1)
             one == <<s[i]>>
             w == u \o one
  <2>1. t \in Seq(X) /\ Len(t) = i /\ \A h \in 1..i : t[h] = s[h]
    BY <1>0, <1>1
  <2>2. u \in Seq(X) /\ Len(u) = i - 1 /\ \A h \in 1..(i - 1) : u[h] = s[h]
    <3>1. i - 1 \in 0..Len(s)
      BY <1>0
    <3> QED
      BY <1>1, <3>1
  <2>3. one \in Seq(X) /\ Len(one) = 1 /\ one[1] = s[i]
    BY <1>0, OneIs
  <2> HIDE DEF t, u, one
  <2>4. /\ w \in Seq(X) /\ Len(w) = (i - 1) + 1
        /\ \A h \in 1..(i - 1) : w[h] = u[h]
        /\ \A h \in 1..1 : w[(i - 1) + h] = one[h]
    <3>0. u \in Seq(X) /\ one \in Seq(X)
      BY <2>2, <2>3
    <3>1. /\ w \in Seq(X) /\ Len(w) = Len(u) + Len(one)
          /\ \A h \in 1..Len(u) : w[h] = u[h]
          /\ \A h \in 1..Len(one) : w[Len(u) + h] = one[h]
      BY <3>0, JoinIs
    <3> QED
      BY <2>2, <2>3, <3>1
  <2> HIDE DEF w
  <2>5. \A h \in 1..i : w[h] = s[h]
    <3>1. w[i] = s[i]
      <4>1. 1 \in 1..1 /\ (i - 1) + 1 = i
        OBVIOUS
      <4> QED
        BY <2>3, <2>4, <4>1
    <3>2. \A h \in 1..i : h \in 1..(i - 1) \/ h = i
      OBVIOUS
    <3> QED
      BY <2>2, <2>4, <3>1, <3>2
  <2>6. Len(w) = i
    BY <2>4
  <2>7. t = w
    BY <2>1, <2>4, <2>5, <2>6, SameSeq
  <2> QED
    BY <2>7 DEF Joined, t, u, one, w
<1> QED
  BY <1>1, <1>2, <1>3, <1>4

(* Elements that are placed before the same anchor stand there in order.   *)
InRow(k, p, els, tails, a, b, anchors, ent) ==
  /\ Ready(k, els, tails)
  /\ All3(ItemSet, a, ent, b) /\ Joined(Row(k[p]), a, b)
  /\ \A j \in 1..Len(els) : anchors[j] = FirstEl(b)
  /\ Len(ent) = Len(els) /\ \A j \in 1..Len(els) : ent[j] = Entry(els[j], tails[j])

LEMMA PlaceInRow ==
  ASSUME NEW k \in Sound, NEW p \in Parent, NEW els, NEW tails, NEW a, NEW b, NEW anchors, NEW ent,
         InRow(k, p, els, tails, a, b, anchors, ent)
  PROVE  View(PlaceAll(k, p, els, tails, anchors)) = WithItems(View(k), p, (a \o ent) \o b)
<1> DEFINE n == Len(els)
           A == [i \in 0..n |-> a \o SubSeq(ent, 1, i)]
           B == [i \in 0..n |-> b]
           none == <<>>
           M == [i \in 1..n |-> none]
           c == PlaceAll(k, p, els, tails, anchors)
<1>0. a \in Seq(ItemSet) /\ b \in Seq(ItemSet)
  BY DEF InRow, All3
<1>r. Ready(k, els, tails)
  BY DEF InRow
<1>1. n \in Nat
  <2>1. els \in Seq(Elem)
    BY <1>r DEF Ready
  <2> QED
    BY <2>1
<1>2. ent \in Seq(ItemSet) /\ Len(ent) = n /\ \A i \in 1..n : ent[i] = Entry(els[i], tails[i])
  BY DEF InRow, All3
<1>e. \A i \in 1..n : ent[i] \in ItemSet
  BY <1>2
<1>a. \A i \in 1..n : anchors[i] = FirstEl(b)
  BY DEF InRow
<1>3. none \in Seq(ItemSet) /\ b \o none = b /\ none \o b = b
  BY <1>0, EmptyIs, JoinEmpty
<1> HIDE DEF none, n
<1>4. /\ SubSeq(ent, 1, 0) = none /\ SubSeq(ent, 1, n) = ent
      /\ \A i \in 0..n : SubSeq(ent, 1, i) \in Seq(ItemSet)
      /\ \A i \in 1..n : Joined(SubSeq(ent, 1, i), SubSeq(ent, 1, i - 1), <<ent[i]>>)
  BY <1>2, FirstOnes DEF none
<1>5. \A i \in 0..n : a \o SubSeq(ent, 1, i) \in Seq(ItemSet)
  <2> SUFFICES ASSUME NEW i \in 0..n PROVE a \o SubSeq(ent, 1, i) \in Seq(ItemSet)
    OBVIOUS
  <2> DEFINE t == SubSeq(ent, 1, i)
  <2>1. t \in Seq(ItemSet)
    BY <1>4
  <2> HIDE DEF t
  <2>2. a \o t \in Seq(ItemSet)
    BY <1>0, <2>1, JoinIs
  <2> QED
    BY <2>2 DEF t
<1>6. A \in [0..n -> Seq(ItemSet)] /\ B \in [0..n -> Seq(ItemSet)] /\ M \in [1..n -> Seq(ItemSet)]
  BY <1>0, <1>3, <1>5
<1>7. ASSUME NEW i \in 1..n
      PROVE  /\ Joined(B[i - 1], M[i], B[i])
             /\ Joined(A[i], A[i - 1] \o M[i], <<Entry(els[i], tails[i])>>)
             /\ anchors[i] = FirstEl(B[i])
  <2>0. i \in 0..n /\ i - 1 \in 0..n
    BY <1>1
  <2> DEFINE t == SubSeq(ent, 1, i - 1)
             one == <<ent[i]>>
             u == SubSeq(ent, 1, i)
  <2>1. B[i - 1] = b /\ B[i] = b /\ M[i] = none /\ A[i] = a \o u /\ A[i - 1] = a \o t
    BY <2>0
  <2>2. anchors[i] = FirstEl(B[i])
    BY <1>a, <2>1
  <2>3. Joined(B[i - 1], M[i], B[i])
    BY <1>3, <2>1 DEF Joined
  <2>4. u = t \o one /\ t \in Seq(ItemSet) /\ ent[i] = Entry(els[i], tails[i])
    BY <1>2, <1>4, <2>0 DEF Joined
  <2>5. one \in Seq(ItemSet)
    <3>1. ent[i] \in ItemSet
      BY <1>e
    <3> QED
      BY <3>1, OneIs
  <2>6. All3(ItemSet, a, t, one)
    BY <1>0, <2>4, <2>5 DEF All3
  <2> HIDE DEF t, one, u, A, B, M
  <2>7. (a \o t) \o one = a \o (t \o one) /\ a \o t \in Seq(ItemSet)
    BY <2>6, Assoc
  <2> DEFINE at == a \o t
  <2>8. at \o none = at
    <3> HIDE DEF at
    <3>1. at \in Seq(ItemSet)
      BY <2>7 DEF at
    <3> QED
      BY <3>1, JoinEmpty DEF none
  <2>9. A[i] = at \o one /\ A[i - 1] \o M[i] = at /\ one = <<Entry(els[i], tails[i])>>
    BY <2>1, <2>4, <2>7, <2>8 DEF one
  <2>10. Joined(A[i], A[i - 1] \o M[i], <<Entry(els[i], tails[i])>>)
    <3> HIDE DEF at
    <3> QED
      BY <2>9 DEF Joined
  <2> QED
    BY <2>2, <2>3, <2>10
<1>8. A[0] = a /\ A[n] = a \o ent /\ B[0] = b /\ B[n] = b
  <2>1. 0 \in 0..n /\ n \in 0..n
    BY <1>1
  <2>2. a \o none = a
    BY <1>0, JoinEmpty DEF none
  <2> QED
    BY <1>4, <2>1, <2>2
<1> HIDE DEF A, B, M
<1>9. Course(n, A, B, M, els, tails, anchors)
  BY <1>6, <1>7 DEF Course
<1>10. Joined(Row(k[p]), A[0], B[0])
  BY <1>8 DEF InRow
<1>11. View(c) = WithItems(View(k), p, A[n] \o B[n])
  <2>1. Going(k, p, A, B, M, els, tails, anchors)
    BY <1>r, <1>9, <1>10 DEF n, Going
  <2>2. View(c) = WithItems(View(k), p, A[Len(els)] \o B[Len(els)])
    BY <2>1, PlaceAllShows
  <2> QED
    BY <2>2 DEF n
<1> HIDE DEF c
<1>12. View(c) = WithItems(View(k), p, (a \o ent) \o b)
  BY <1>8, <1>11, Zenon
<1> QED
  BY <1>12 DEF c

(* The elements a slice of a list names.                                   *)
Within(r, i, j) == {r[h].el : h \in (i + 1)..j}

Names(y) == {u.el : u \in ToSet(y)}

LEMMA ElsBetween ==
  ASSUME NEW r, NEW x, NEW y, NEW z, Thirds(ItemSet, r, x, y, z)
  PROVE  Within(r, Len(x), Len(x) + Len(y)) = Names(y)
<1> DEFINE i == Len(x)
           n == Len(y)
           w == y \o z
<1>1. x \in Seq(ItemSet) /\ y \in Seq(ItemSet) /\ z \in Seq(ItemSet) /\ r = x \o w
  BY DEF Thirds, All3
<1>2. /\ w \in Seq(ItemSet) /\ n \in Nat /\ Len(z) \in Nat /\ Len(w) = n + Len(z)
      /\ \A h \in 1..n : w[h] = y[h]
  BY <1>1, JoinIs
<1>3. i \in Nat /\ \A h \in 1..Len(w) : r[i + h] = w[h]
  <2> HIDE DEF w
  <2>1. x \in Seq(ItemSet) /\ w \in Seq(ItemSet) /\ r = x \o w
    BY <1>1, <1>2
  <2> QED
    BY <2>1, JoinIs
<1>4. \A h \in 1..n : r[i + h] = y[h]
  <2>1. \A h \in 1..n : h \in 1..Len(w)
    BY <1>2
  <2> QED
    BY <1>2, <1>3, <2>1
<1>5. ToSet(y) = {y[h] : h \in 1..n}
  BY <1>1 DEF ToSet
<1> HIDE DEF i, n, w
<1>6. /\ \A h \in (i + 1)..(i + n) : h - i \in 1..n /\ i + (h - i) = h
      /\ \A h \in 1..n : i + h \in (i + 1)..(i + n)
  BY <1>2, <1>3
<1>7. ASSUME NEW h \in (i + 1)..(i + n) PROVE r[h].el \in Names(y)
  <2> DEFINE g == h - i
  <2>1. g \in 1..n /\ i + g = h
    BY <1>6
  <2> HIDE DEF g
  <2>2. y[g] = r[h] /\ y[g] \in ToSet(y)
    BY <1>4, <1>5, <2>1
  <2> QED
    BY <2>2 DEF Names
<1>8. ASSUME NEW u \in ToSet(y) PROVE u.el \in Within(r, i, i + n)
  <2>1. PICK h \in 1..n : u = y[h]
    BY <1>5
  <2>2. u = r[i + h] /\ i + h \in (i + 1)..(i + n)
    BY <1>4, <1>6, <2>1
  <2> QED
    BY <2>2 DEF Within
<1>9. Within(r, i, i + n) = Names(y)
  BY <1>7, <1>8 DEF Within, Names
<1> QED
  BY <1>9 DEF i, n

(* The list reference of a slice, with its list cut into thirds.           *)
LEMMA SpliceIs ==
  ASSUME NEW v, NEW p, NEW x, NEW y, NEW z, Thirds(ItemSet, Items(v, p), x, y, z), NEW els,
         NEW S, S = ToSet(els) \cup Names(y)
  PROVE  ListSplice(v, p, Len(x), Len(x) + Len(y), els) =
           WithItems(Without(v, S), p, (Keeping(x, S) \o Entries(v, els)) \o Keeping(z, S))
<1> DEFINE start == Len(x)
           stop == Len(x) + Len(y)
           r == Items(v, p)
<1>1. /\ SubSeq(r, 1, Len(x)) = x /\ SubSeq(r, Len(x) + Len(y) + 1, Len(r)) = z
      /\ Within(r, Len(x), Len(x) + Len(y)) = Names(y)
  BY ThirdsAre, ElsBetween
<1>2. Len(x) \in Nat /\ Len(y) \in Nat
  BY DEF Thirds, All3
<1>3. (IF stop < start THEN start ELSE stop) = stop
  BY <1>2
<1>4. /\ SubSeq(r, 1, start) = x /\ SubSeq(r, stop + 1, Len(r)) = z
      /\ Within(r, start, stop) \cup ToSet(els) = S
  BY <1>1
<1> QED
  BY <1>3, <1>4, Zenon DEF ListSplice, WithItems, Within

(* A list without the elements of S, where all of its second third goes.   *)
LEMMA KeepingThirds ==
  ASSUME NEW r, NEW x, NEW y, NEW z, Thirds(ItemSet, r, x, y, z), NEW S, Names(y) \subseteq S
  PROVE  /\ Keeping(x, S) \in Seq(ItemSet) /\ Keeping(z, S) \in Seq(ItemSet)
         /\ Joined(Keeping(r, S), Keeping(x, S), Keeping(z, S))
<1> DEFINE w == y \o z
           kx == Keeping(x, S)
           ky == Keeping(y, S)
           kz == Keeping(z, S)
           none == <<>>
<1>1. x \in Seq(ItemSet) /\ y \in Seq(ItemSet) /\ z \in Seq(ItemSet) /\ r = x \o w
  BY DEF Thirds, All3
<1>2. w \in Seq(ItemSet)
  BY <1>1, JoinIs
<1>3. Keeping(w, S) = ky \o kz
  BY <1>1, KeepingJoin
<1>4. ky = none
  <2>1. \A u \in ToSet(y) : u.el \in S
    BY DEF Names
  <2> QED
    BY <1>1, <2>1, KeepingIs
<1>5. kx \in Seq(ItemSet) /\ kz \in Seq(ItemSet)
  BY <1>1, KeepingIs
<1> HIDE DEF w
<1>6. Keeping(r, S) = kx \o Keeping(w, S)
  <2>1. x \in Seq(ItemSet) /\ w \in Seq(ItemSet)
    BY <1>1, <1>2
  <2> HIDE DEF kx, ky, kz, none
  <2>2. Keeping(x \o w, S) = Keeping(x, S) \o Keeping(w, S)
    BY <2>1, KeepingJoin
  <2>3. Keeping(r, S) = Keeping(x, S) \o Keeping(w, S)
    BY <1>1, <2>2, Zenon
  <2> QED
    BY <2>3, Zenon DEF kx
<1> HIDE DEF kx, ky, kz
<1>7. none \o kz = kz
  BY <1>5, JoinEmpty
<1> HIDE DEF none
<1>8. Keeping(r, S) = kx \o kz
  BY <1>3, <1>4, <1>6, <1>7
<1> QED
  BY <1>5, <1>8 DEF Joined, kx, kz

(* The entries of elements, with the tails that were taken with them.      *)
LEMMA EntriesAre ==
  ASSUME NEW k \in Sound, NEW els \in Seq(Elem), NEW tails,
         \A j \in 1..Len(els) : tails[j] = TailRun(k, els[j])
  PROVE  /\ Entries(View(k), els) \in Seq(ItemSet) /\ Len(Entries(View(k), els)) = Len(els)
         /\ \A j \in 1..Len(els) : Entries(View(k), els)[j] = Entry(els[j], tails[j])
<1> DEFINE ent == Entries(View(k), els)
           n == Len(els)
<1>1. n \in Nat /\ DOMAIN els = 1..n /\ \A j \in 1..n : els[j] \in Elem
  OBVIOUS
<1>2. \A j \in 1..n : /\ Listed(View(k), els[j]) = Entry(els[j], tails[j])
                      /\ Entry(els[j], tails[j]) \in ItemSet
  <2> SUFFICES ASSUME NEW j \in 1..n
               PROVE  /\ Listed(View(k), els[j]) = Entry(els[j], tails[j])
                      /\ Entry(els[j], tails[j]) \in ItemSet
    OBVIOUS
  <2> DEFINE e == els[j]
  <2>1. e \in Elem /\ tails[j] = TailRun(k, e)
    BY <1>1
  <2> HIDE DEF e
  <2>2. Listed(View(k), e) = Entry(e, TailRun(k, e)) /\ TailRun(k, e) \in Seq(Text)
    BY <2>1, ListedIs
  <2>3. Entry(e, TailRun(k, e)) \in ItemSet
    BY <2>1, <2>2 DEF Entry, ItemSet
  <2> QED
    BY <2>1, <2>2, <2>3 DEF e
<1> HIDE DEF n
<1>3. ent = [j \in 1..n |-> Listed(View(k), els[j])]
  BY <1>1 DEF Entries
<1>4. ent \in [1..n -> ItemSet] /\ \A j \in 1..n : ent[j] = Entry(els[j], tails[j])
  BY <1>2, <1>3
<1> HIDE DEF ent
<1>5. ent \in Seq(ItemSet) /\ Len(ent) = n
  BY <1>1, <1>4
<1> QED
  BY <1>4, <1>5 DEF ent, n

(* el[start:stop] = els, with its list cut into thirds.                    *)
LEMMA SpliceShows ==
  ASSUME NEW k \in Sound, NEW p \in Parent, NEW els \in Seq(Elem), Distinct(els),
         NEW x, NEW y, NEW z, Thirds(ItemSet, Row(k[p]), x, y, z)
  PROVE  View(SpliceSlice(k, p, Len(x), Len(x) + Len(y), els))
           = ListSplice(View(k), p, Len(x), Len(x) + Len(y), els)
<1> DEFINE start == Len(x)
           stop == Len(x) + Len(y)
           s == k[p]
           now == ContentChildren(s)
           r == Row(s)
           v == View(k)
           E == ToSet(els)
           a == AdoptAll(k, els)
           ys == Els(y)
           seq == NotIn(ys, E)
           S == E \cup Names(y)
           c == ExtractAll(a.k, seq)
           kx == Keeping(x, S)
           kz == Keeping(z, S)
           Z == {n \in Elem : ~IsChild(c, p, n)}
           anchor == FirstOr(NotIn(NotIn(From(now, stop), E), Z), NoNode)
           anchors == [j \in DOMAIN els |-> anchor]
           ent == Entries(v, els)
<1>1. s \in Plain /\ now = Els(r) /\ r \in Seq(ItemSet)
  BY SoundPlain, ChildrenEls
<1>2. x \in Seq(ItemSet) /\ y \in Seq(ItemSet) /\ z \in Seq(ItemSet)
  BY DEF Thirds, All3
<1>3. /\ SubSeq(now, start + 1, stop) = ys /\ From(now, stop) = Els(z)
      /\ ys \in Seq(Elem) /\ Els(z) \in Seq(Elem)
  <2>1. Thirds(ItemSet, r, x, y, z)
    OBVIOUS
  <2> HIDE DEF r, now, s
  <2>2. /\ SubSeq(Els(r), Len(x) + 1, Len(x) + Len(y)) = Els(y)
        /\ SubSeq(Els(r), Len(x) + Len(y) + 1, Len(Els(r))) = Els(z)
        /\ Els(y) \in Seq(Elem) /\ Els(z) \in Seq(Elem)
    BY <2>1, ElsCut
  <2> QED
    BY <1>1, <2>2 DEF From
<1>4. ToSet(ys) = Names(y)
  BY <1>2, ElsIs DEF Names
<1>5. seq \in Seq(Elem) /\ S = E \cup ToSet(seq)
  <2> HIDE DEF ys, E
  <2>1. NotIn(ys, E) \in Seq(Elem) /\ ToSet(NotIn(ys, E)) = ToSet(ys) \ E
    BY <1>3, NotInSome
  <2> QED
    BY <1>4, <2>1
<1>6. /\ c \in Sound /\ View(c) = Without(v, S) /\ Ready(c, els, a.tails)
      /\ \A j \in 1..Len(els) : a.tails[j] = TailRun(k, els[j])
      /\ Row(c[p]) = Keeping(r, S)
  <2> HIDE DEF seq, S
  <2> DEFINE U == ToSet(els) \cup ToSet(seq)
  <2>1. seq \in Seq(Elem) /\ S = U
    BY <1>5
  <2>2. /\ c \in Sound /\ View(c) = Without(View(k), U) /\ Ready(c, els, a.tails)
        /\ \A j \in 1..Len(els) : a.tails[j] = TailRun(k, els[j])
        /\ \A q \in Parent : Row(c[q]) = Keeping(Row(k[q]), U)
    <3> HIDE DEF s, now, r, v, ys, kx, kz, Z, anchor, anchors, ent, start, stop
    <3>1. seq \in Seq(Elem)
      BY <2>1
    <3> QED
      BY <3>1, CutShows
  <2> HIDE DEF U, c, a
  <2>3. Row(c[p]) = Keeping(r, U)
    BY <2>2
  <2> QED
    BY <2>1, <2>2, <2>3
<1>7. kx \in Seq(ItemSet) /\ kz \in Seq(ItemSet) /\ Joined(Row(c[p]), kx, kz)
  <2>1. Names(y) \subseteq S /\ Thirds(ItemSet, r, x, y, z)
    OBVIOUS
  <2> HIDE DEF S, r, c
  <2> QED
    BY <1>6, <2>1, KeepingThirds
<1>8. anchor = FirstEl(kz)
  <2>1. \A u \in ToSet(z) : u.el \in Elem /\ u \in ToSet(r)
    <3> DEFINE w == y \o z
    <3>1. r = x \o w
      BY DEF Thirds
    <3>2. w \in Seq(ItemSet) /\ ToSet(w) = ToSet(y) \cup ToSet(z)
      BY <1>2, JoinIs, JoinRange
    <3> HIDE DEF w, r
    <3>3. ToSet(x \o w) = ToSet(x) \cup ToSet(w)
      BY <1>2, <3>2, JoinRange
    <3>4. \A u \in ToSet(z) : u \in ItemSet
      BY <1>2, Ranged
    <3> QED
      BY <3>1, <3>2, <3>3, <3>4 DEF ItemSet
  <2>2. ASSUME NEW u \in ToSet(z) PROVE u.el \in S <=> u.el \in E \cup Z
    <3> DEFINE e == u.el
    <3>1. e \in Elem /\ e \in {w.el : w \in ToSet(r)}
      BY <2>1
    <3> HIDE DEF e, r
    <3>2. IsChild(k, p, e)
      BY <3>1, ChildIs DEF r
    <3> HIDE DEF c, S
    <3>3. IsChild(c, p, e) <=> IsChild(k, p, e) /\ e \notin S
      BY <1>6, <3>1, ChildLeft DEF r
    <3>4. e \in Z <=> e \in S
      BY <3>1, <3>2, <3>3
    <3>5. E \subseteq S
      BY DEF S
    <3> HIDE DEF Z, E
    <3>6. e \in S <=> e \in E \cup Z
      BY <3>4, <3>5
    <3> QED
      BY <3>6 DEF e
  <2> DEFINE T == E \cup Z
             zs == Els(z)
  <2> HIDE DEF S, E, Z, c
  <2>3. FirstOr(NotIn(Els(z), T), NoNode) = FirstEl(Keeping(z, S))
    <3> HIDE DEF T
    <3> QED
      BY <1>2, <2>2, FirstStaying DEF T
  <2>4. NotIn(NotIn(zs, E), Z) = NotIn(zs, T)
    BY <1>3, NotInTwice
  <2> QED
    BY <1>3, <2>3, <2>4
<1>9. /\ ent \in Seq(ItemSet) /\ Len(ent) = Len(els)
      /\ \A j \in 1..Len(els) : ent[j] = Entry(els[j], a.tails[j])
  <2> HIDE DEF a, ent
  <2> QED
    BY <1>6, EntriesAre DEF ent
<1>10. \A j \in 1..Len(els) : anchors[j] = FirstEl(kz)
  <2> HIDE DEF anchor, kz
  <2> QED
    BY <1>8
<1>11. SpliceSlice(k, p, start, stop, els) = PlaceAll(c, p, els, a.tails, anchors)
  <2>1. NotIn(SubSeq(now, start + 1, stop), E) = seq
    BY <1>3
  <2> QED
    BY <2>1, Zenon DEF SpliceSlice
<1>12. ListSplice(v, p, start, stop, els) = WithItems(Without(v, S), p, (kx \o ent) \o kz)
  <2>1. Items(v, p) = r
    BY ItemsOf DEF Items
  <2>2. Thirds(ItemSet, Items(v, p), x, y, z)
    BY <2>1
  <2>3. S = ToSet(els) \cup Names(y)
    OBVIOUS
  <2> HIDE DEF v, S
  <2> QED
    BY <2>2, <2>3, SpliceIs
<1> HIDE DEF a, c, kx, kz, ent, anchors, v, S, r
<1>13. View(PlaceAll(c, p, els, a.tails, anchors)) = WithItems(View(c), p, (kx \o ent) \o kz)
  <2> DEFINE ts == a.tails
  <2>1. Ready(c, els, ts) /\ \A j \in 1..Len(els) : ent[j] = Entry(els[j], ts[j])
    BY <1>6, <1>9
  <2> HIDE DEF ts
  <2>2. InRow(c, p, els, ts, kx, kz, anchors, ent)
    BY <1>7, <1>9, <1>10, <2>1 DEF InRow, All3
  <2>3. View(PlaceAll(c, p, els, ts, anchors)) = WithItems(View(c), p, (kx \o ent) \o kz)
    BY <1>6, <2>2, PlaceInRow
  <2> QED
    BY <2>3 DEF ts
<1>14. View(PlaceAll(c, p, els, a.tails, anchors)) = WithItems(Without(v, S), p, (kx \o ent) \o kz)
  BY <1>6, <1>13, Zenon
<1> QED
  BY <1>11, <1>12, <1>14, Zenon DEF v

(* el[start:stop] = els, for a stop that is not before start.              *)
LEMMA SpliceAgrees ==
  ASSUME NEW k \in Sound, NEW p \in Parent, NEW els \in Seq(Elem), Distinct(els),
         NEW start \in 0..Len(ContentChildren(k[p])), NEW stop \in 0..Len(ContentChildren(k[p])),
         start <= stop
  PROVE  View(SpliceSlice(k, p, start, stop, els)) = ListSplice(View(k), p, start, stop, els)
<1> DEFINE r == Row(k[p])
<1>1. r \in Seq(ItemSet) /\ Len(r) = Len(ContentChildren(k[p]))
  BY SoundPlain, RowIs
<1>2. start \in 0..Len(r) /\ stop \in 0..Len(r)
  BY <1>1
<1> HIDE DEF r
<1>3. PICK x, y, z : Thirds(ItemSet, r, x, y, z) /\ Len(x) = start /\ Len(x) + Len(y) = stop
  BY <1>1, <1>2, CutTwice
<1>4. Thirds(ItemSet, Row(k[p]), x, y, z)
  BY <1>3 DEF r
<1>5. View(SpliceSlice(k, p, Len(x), Len(x) + Len(y), els))
        = ListSplice(View(k), p, Len(x), Len(x) + Len(y), els)
  BY <1>4, SpliceShows
<1> QED
  BY <1>3, <1>5, Zenon

LEMMA SplicesAgree ==
  ASSUME kids \in Sound
  PROVE  SpliceAgreesWithList
<1> SUFFICES ASSUME NEW p \in Parent, NEW start \in Sizes(p), NEW stop \in Sizes(p),
                    NEW els \in NewElements, start <= stop, Distinct(els)
             PROVE  View(SpliceSlice(kids, p, start, stop, els))
                      = ListSplice(View(kids), p, start, stop, els)
  BY DEF SpliceAgreesWithList
<1>1. els \in Seq(Elem)
  BY ChildListAssumption DEF NewElements
<1>2. /\ start \in 0..Len(ContentChildren(kids[p]))
      /\ stop \in 0..Len(ContentChildren(kids[p]))
  BY DEF Sizes
<1> QED
  BY <1>1, <1>2, SpliceAgrees

-----------------------------------------------------------------------------
(* Extended slices.  A list between two places, and joined again.          *)
Sub(s, i, j) == SubSeq(s, i + 1, j)

Span(s, i, j) == i \in Nat /\ j \in Nat /\ i <= j /\ j <= Len(s)

LEMMA SubIs ==
  ASSUME NEW X, NEW s \in Seq(X), NEW i, NEW j, Span(s, i, j)
  PROVE  /\ Sub(s, i, j) \in Seq(X) /\ Len(Sub(s, i, j)) = j - i
         /\ \A h \in 1..(j - i) : Sub(s, i, j)[h] = s[i + h]
<1> DEFINE t == SubSeq(s, i + 1, j)
<1>1. i \in Nat /\ j \in Nat /\ i <= j /\ j <= Len(s)
  BY DEF Span
<1>2. t \in Seq(X) /\ Len(t) = (IF i + 1 <= j THEN j - (i + 1) + 1 ELSE 0)
      /\ DOMAIN t = 1..Len(t) /\ \A h \in DOMAIN t : t[h] = s[(i + 1) + h - 1]
  <2>1. i + 1 \in Nat \ {0} /\ j \in Nat /\ j <= Len(s)
    BY <1>1
  <2> QED
    BY <2>1, Sliced
<1> HIDE DEF t
<1>3. Len(t) = j - i
  BY <1>1, <1>2
<1>4. \A h \in 1..(j - i) : t[h] = s[i + h]
  <2>1. \A h \in 1..(j - i) : (i + 1) + h - 1 = i + h
    BY <1>1
  <2> QED
    BY <1>2, <1>3, <2>1
<1> QED
  BY <1>2, <1>3, <1>4 DEF t, Sub

LEMMA SubJoin ==
  ASSUME NEW X, NEW s \in Seq(X), NEW i, NEW m, NEW j, Span(s, i, m), Span(s, m, j)
  PROVE  Sub(s, i, j) = Sub(s, i, m) \o Sub(s, m, j) /\ Span(s, i, j)
<1> DEFINE a == Sub(s, i, m)
           b == Sub(s, m, j)
           t == Sub(s, i, j)
           w == a \o b
<1>1. i \in Nat /\ m \in Nat /\ j \in Nat /\ i <= m /\ m <= j /\ j <= Len(s)
  BY DEF Span
<1>2. Span(s, i, j)
  BY <1>1 DEF Span
<1>3. a \in Seq(X) /\ Len(a) = m - i /\ \A h \in 1..(m - i) : a[h] = s[i + h]
  BY SubIs
<1>4. b \in Seq(X) /\ Len(b) = j - m /\ \A h \in 1..(j - m) : b[h] = s[m + h]
  BY SubIs
<1>5. t \in Seq(X) /\ Len(t) = j - i /\ \A h \in 1..(j - i) : t[h] = s[i + h]
  BY <1>2, SubIs
<1> HIDE DEF a, b, t
<1>s. a \in Seq(X) /\ b \in Seq(X)
  BY <1>3, <1>4
<1>6. /\ w \in Seq(X) /\ Len(w) = Len(a) + Len(b)
      /\ \A h \in 1..Len(a) : w[h] = a[h]
      /\ \A h \in 1..Len(b) : w[Len(a) + h] = b[h]
  BY <1>s, JoinIs
<1> HIDE DEF w
<1>7. Len(w) = Len(t)
  BY <1>1, <1>3, <1>4, <1>5, <1>6
<1>8. ASSUME NEW h \in 1..(j - i) PROVE w[h] = t[h]
  <2>1. CASE h <= m - i
    <3>1. h \in 1..(m - i)
      BY <1>1, <2>1
    <3> QED
      BY <1>3, <1>5, <1>6, <3>1
  <2>2. CASE h > m - i
    <3> DEFINE g == h - (m - i)
    <3>1. g \in 1..(j - m) /\ (m - i) + g = h /\ m + g = i + h
      BY <1>1, <2>2
    <3> HIDE DEF g
    <3>2. w[h] = b[g] /\ b[g] = s[m + g]
      BY <1>3, <1>4, <1>6, <3>1
    <3> QED
      BY <1>5, <3>1, <3>2
  <2> QED
    BY <1>1, <2>1, <2>2
<1>9. w = t
  BY <1>5, <1>6, <1>7, <1>8, SameSeq
<1> QED
  BY <1>2, <1>9 DEF w, a, b, t

LEMMA SubEnds ==
  ASSUME NEW X, NEW s \in Seq(X)
  PROVE  /\ Sub(s, 0, 0) = <<>> /\ Sub(s, 0, Len(s)) = s
         /\ \A i \in 1..Len(s) : Sub(s, i - 1, i) = <<s[i]>> /\ Span(s, i - 1, i)
<1>0. Len(s) \in Nat /\ \A i \in 1..Len(s) : s[i] \in X
  OBVIOUS
<1>1. Sub(s, 0, 0) = <<>>
  <2>1. Span(s, 0, 0)
    BY <1>0 DEF Span
  <2>2. Sub(s, 0, 0) \in Seq(X) /\ Len(Sub(s, 0, 0)) = 0 - 0
    BY <2>1, SubIs
  <2> QED
    BY <2>2
<1>2. Sub(s, 0, Len(s)) = s
  <2> DEFINE t == Sub(s, 0, Len(s))
  <2>1. Span(s, 0, Len(s))
    BY <1>0 DEF Span
  <2>2. t \in Seq(X) /\ Len(t) = Len(s) - 0 /\ \A h \in 1..(Len(s) - 0) : t[h] = s[0 + h]
    BY <2>1, SubIs
  <2> HIDE DEF t
  <2>3. Len(t) = Len(s) /\ \A h \in 1..Len(t) : t[h] = s[h]
    BY <1>0, <2>2
  <2>4. t = s
    BY <2>2, <2>3, SameSeq
  <2> QED
    BY <2>4 DEF t
<1>3. ASSUME NEW i \in 1..Len(s) PROVE Sub(s, i - 1, i) = <<s[i]>> /\ Span(s, i - 1, i)
  <2> DEFINE f == i - 1
             t == Sub(s, f, i)
             one == <<s[i]>>
  <2>1. Span(s, f, i)
    BY <1>0 DEF Span
  <2>4. i - f = 1 /\ f + 1 = i
    OBVIOUS
  <2> HIDE DEF f
  <2>2. t \in Seq(X) /\ Len(t) = i - f /\ \A h \in 1..(i - f) : t[h] = s[f + h]
    BY <2>1, SubIs
  <2>3. one \in Seq(X) /\ Len(one) = 1 /\ one[1] = s[i]
    BY <1>0, OneIs
  <2> HIDE DEF t, one
  <2>5. Len(t) = 1 /\ \A h \in 1..1 : t[h] = one[h]
    BY <2>2, <2>3, <2>4
  <2>6. t = one
    BY <2>2, <2>3, <2>5, SameSeq
  <2> QED
    BY <2>1, <2>6 DEF t, one, f
<1> QED
  BY <1>1, <1>2, <1>3

LEMMA KeepingAgree ==
  ASSUME NEW X, NEW s \in Seq(X), NEW S, NEW T, \A x \in ToSet(s) : x.el \in S <=> x.el \in T
  PROVE  Keeping(s, S) = Keeping(s, T)
<1> DEFINE K == {x \in ToSet(s) : x.el \notin S}
<1>1. \A x \in ToSet(s) : (x \in K <=> x.el \notin S) /\ (x \in K <=> x.el \notin T)
  OBVIOUS
<1> HIDE DEF K
<1>2. Keeping(s, S) = Sift(s, K) /\ Keeping(s, T) = Sift(s, K)
  BY <1>1, KeepingSifts
<1> QED
  BY <1>2

(* The entries between two places that are left, and what slots make of    *)
(* them.                                                                   *)
Kept(r, S, i, j) == Keeping(Sub(r, i, j), S)

Flat(F, i, j) == FlattenSeq(Sub(F, i, j))

LEMMA KeptJoin ==
  ASSUME NEW r \in Seq(ItemSet), NEW S, NEW i, NEW m, NEW j, Span(r, i, m), Span(r, m, j)
  PROVE  /\ Kept(r, S, i, j) = Kept(r, S, i, m) \o Kept(r, S, m, j)
         /\ Kept(r, S, i, m) \in Seq(ItemSet) /\ Kept(r, S, m, j) \in Seq(ItemSet)
<1> DEFINE a == Sub(r, i, m)
           b == Sub(r, m, j)
<1>1. Sub(r, i, j) = a \o b
  BY SubJoin
<1>2. a \in Seq(ItemSet) /\ b \in Seq(ItemSet)
  BY SubIs
<1> HIDE DEF a, b
<1>3. Keeping(a \o b, S) = Keeping(a, S) \o Keeping(b, S)
  BY <1>2, KeepingJoin
<1>4. Keeping(a, S) \in Seq(ItemSet) /\ Keeping(b, S) \in Seq(ItemSet)
  BY <1>2, KeepingIs
<1> QED
  BY <1>1, <1>3, <1>4 DEF Kept, a, b

LEMMA FlatJoin ==
  ASSUME NEW F \in Seq(Seq(ItemSet)), NEW i, NEW m, NEW j, Span(F, i, m), Span(F, m, j)
  PROVE  /\ Flat(F, i, j) = Flat(F, i, m) \o Flat(F, m, j)
         /\ Flat(F, i, m) \in Seq(ItemSet) /\ Flat(F, m, j) \in Seq(ItemSet)
<1> DEFINE a == Sub(F, i, m)
           b == Sub(F, m, j)
<1>1. Sub(F, i, j) = a \o b
  BY SubJoin
<1>2. a \in Seq(Seq(ItemSet)) /\ b \in Seq(Seq(ItemSet))
  BY SubIs
<1> HIDE DEF a, b
<1>3. /\ FlattenSeq(a \o b) = FlattenSeq(a) \o FlattenSeq(b)
      /\ FlattenSeq(a) \in Seq(ItemSet) /\ FlattenSeq(b) \in Seq(ItemSet)
  BY <1>2, FlattenJoin
<1> QED
  BY <1>1, <1>3 DEF Flat, a, b

LEMMA OnePiece ==
  ASSUME NEW r \in Seq(ItemSet), NEW S, NEW i \in 1..Len(r)
  PROVE  Kept(r, S, i - 1, i) = IF r[i].el \in S THEN <<>> ELSE <<r[i]>>
<1>1. Sub(r, i - 1, i) = <<r[i]>>
  BY SubEnds
<1>2. Keeping(<<r[i]>>, S) = IF r[i].el \in S THEN <<>> ELSE <<r[i]>>
  BY KeepingOne
<1> QED
  BY <1>1, <1>2, Zenon DEF Kept

LEMMA OneFlat ==
  ASSUME NEW F \in Seq(Seq(ItemSet)), NEW i \in 1..Len(F)
  PROVE  Flat(F, i - 1, i) = F[i]
<1>1. Sub(F, i - 1, i) = <<F[i]>>
  BY SubEnds
<1>2. F[i] \in Seq(ItemSet)
  OBVIOUS
<1>3. FlattenSeq(<<F[i]>>) = F[i]
  BY <1>2, FlattenOne
<1> QED
  BY <1>1, <1>3 DEF Flat

(* F has, for every item of r, its slot: the entries of ent in slots c[1]  *)
(* to c[n], and elsewhere the item, unless its element is in E.  S has the *)
(* elements of the slots as well.                                          *)
Slotted(r, F, ent, c, n, E, S) ==
  /\ r \in Seq(ItemSet) /\ F \in Seq(Seq(ItemSet)) /\ Len(F) = Len(r)
  /\ n \in Nat /\ c \in [0..n -> 0..Len(r)] /\ c[0] = 0
  /\ \A g, h \in 0..n : g < h => c[g] < c[h]
  /\ \A j \in 1..n : F[c[j]] = <<ent[j]>> /\ ent[j] \in ItemSet /\ r[c[j]].el \in S
  /\ E \subseteq S
  /\ \A i \in 1..Len(r) : (\A j \in 1..n : i # c[j]) =>
       F[i] = Keeping(<<r[i]>>, E) /\ (r[i].el \in S => r[i].el \in E)

(* Between the slots the items that are left are the list's.               *)
LEMMA FreeSpan ==
  ASSUME NEW r, NEW F, NEW ent, NEW c, NEW n, NEW E, NEW S, Slotted(r, F, ent, c, n, E, S),
         NEW i, NEW j, Span(r, i, j), \A h \in (i + 1)..j : \A g \in 1..n : h # c[g]
  PROVE  Flat(F, i, j) = Kept(r, S, i, j)
<1> DEFINE u == Sub(r, i, j)
           w == Sub(F, i, j)
<1>1. r \in Seq(ItemSet) /\ F \in Seq(Seq(ItemSet)) /\ Len(F) = Len(r) /\ E \subseteq S
  BY DEF Slotted
<1>2. i \in Nat /\ j \in Nat /\ i <= j /\ j <= Len(r) /\ Len(r) \in Nat
  BY <1>1 DEF Span
<1>3. \A h \in (i + 1)..j : F[h] = Keeping(<<r[h]>>, E) /\ (r[h].el \in S => r[h].el \in E)
  <2>1. \A h \in (i + 1)..j : h \in 1..Len(r)
    BY <1>2
  <2> QED
    BY <2>1 DEF Slotted
<1>4. u \in Seq(ItemSet) /\ Len(u) = j - i /\ \A h \in 1..(j - i) : u[h] = r[i + h]
  BY <1>1, SubIs
<1>5. w \in Seq(Seq(ItemSet)) /\ Len(w) = j - i /\ \A h \in 1..(j - i) : w[h] = F[i + h]
  <2>1. Span(F, i, j)
    BY <1>1 DEF Span
  <2> QED
    BY <1>1, <2>1, SubIs
<1> HIDE DEF u, w
<1>6. Mapped(u, E) \in Seq(Seq(ItemSet)) /\ Len(Mapped(u, E)) = j - i
      /\ \A h \in 1..(j - i) : Mapped(u, E)[h] = Keeping(<<u[h]>>, E)
  BY <1>4, MappedIs
<1>7. \A h \in 1..(j - i) : i + h \in (i + 1)..j
  BY <1>2
<1>8. \A h \in 1..(j - i) : w[h] = Mapped(u, E)[h]
  BY <1>3, <1>4, <1>5, <1>6, <1>7
<1>9. w = Mapped(u, E)
  BY <1>5, <1>6, <1>8, SameSeq
<1>10. FlattenSeq(w) = Keeping(u, E)
  BY <1>4, <1>9, FlattenMapped
<1>11. \A x \in ToSet(u) : x.el \in E <=> x.el \in S
  <2> SUFFICES ASSUME NEW x \in ToSet(u) PROVE x.el \in E <=> x.el \in S
    OBVIOUS
  <2>1. PICK h \in 1..(j - i) : x = u[h]
    BY <1>4 DEF ToSet
  <2> QED
    BY <1>1, <1>3, <1>4, <1>7, <2>1
<1>12. Keeping(u, E) = Keeping(u, S)
  BY <1>4, <1>11, KeepingAgree
<1> QED
  BY <1>10, <1>12 DEF Flat, Kept, u, w

(* What is done when j slots are filled, what is to come, and what the     *)
(* next one skips.                                                         *)
Done(F, c, j) == Flat(F, 0, c[j])

ToCome(r, S, c, j) == Kept(r, S, c[j], Len(r))

Skipped(r, S, c, j) == Kept(r, S, c[j - 1], c[j] - 1)

LEMMA SlotPlaces ==
  ASSUME NEW r, NEW F, NEW ent, NEW c, NEW n, NEW E, NEW S, Slotted(r, F, ent, c, n, E, S)
  PROVE  /\ \A j \in 0..n : /\ Span(r, 0, c[j]) /\ Span(r, c[j], Len(r))
                            /\ Span(F, 0, c[j]) /\ Span(F, c[j], Len(F))
         /\ \A j \in 1..n : /\ c[j] \in 1..Len(r) /\ c[j - 1] \in Nat
                            /\ Span(r, c[j - 1], c[j] - 1) /\ Span(F, c[j - 1], c[j] - 1)
                            /\ Span(r, c[j] - 1, c[j]) /\ Span(F, c[j] - 1, c[j])
                            /\ Span(F, 0, c[j] - 1) /\ Span(r, c[j] - 1, Len(r))
<1>1. /\ r \in Seq(ItemSet) /\ Len(F) = Len(r) /\ n \in Nat
      /\ \A j \in 0..n : c[j] \in 0..Len(r)
      /\ \A g, h \in 0..n : g < h => c[g] < c[h]
  BY DEF Slotted
<1>2. Len(r) \in Nat
  BY <1>1
<1>3. ASSUME NEW j \in 0..n
      PROVE  /\ Span(r, 0, c[j]) /\ Span(r, c[j], Len(r))
             /\ Span(F, 0, c[j]) /\ Span(F, c[j], Len(F))
  BY <1>1, <1>2 DEF Span
<1>4. ASSUME NEW j \in 1..n
      PROVE  /\ c[j] \in 1..Len(r) /\ c[j - 1] \in Nat
             /\ Span(r, c[j - 1], c[j] - 1) /\ Span(F, c[j - 1], c[j] - 1)
             /\ Span(r, c[j] - 1, c[j]) /\ Span(F, c[j] - 1, c[j])
             /\ Span(F, 0, c[j] - 1) /\ Span(r, c[j] - 1, Len(r))
  <2>1. j - 1 \in 0..n /\ j \in 0..n /\ j - 1 < j
    BY <1>1
  <2>2. c[j - 1] \in 0..Len(r) /\ c[j] \in 0..Len(r) /\ c[j - 1] < c[j]
    BY <1>1, <2>1
  <2> QED
    BY <1>1, <1>2, <2>2 DEF Span
<1> QED
  BY <1>3, <1>4

LEMMA SlotGaps ==
  ASSUME NEW r, NEW F, NEW ent, NEW c, NEW n, NEW E, NEW S, Slotted(r, F, ent, c, n, E, S)
  PROVE  /\ \A j \in 1..n : Flat(F, c[j - 1], c[j] - 1) = Skipped(r, S, c, j)
         /\ Flat(F, c[n], Len(F)) = ToCome(r, S, c, n)
<1>1. /\ r \in Seq(ItemSet) /\ Len(F) = Len(r) /\ n \in Nat /\ Len(r) \in Nat
      /\ \A j \in 0..n : c[j] \in 0..Len(r)
      /\ \A g, h \in 0..n : g < h => c[g] < c[h]
  BY DEF Slotted
<1>2. ASSUME NEW j \in 1..n PROVE Flat(F, c[j - 1], c[j] - 1) = Skipped(r, S, c, j)
  <2> DEFINE i == c[j - 1]
             m == c[j] - 1
  <2>1. Span(r, i, m) /\ i \in Nat /\ c[j] \in Nat
    BY SlotPlaces
  <2>2. ASSUME NEW h \in (i + 1)..m, NEW g \in 1..n PROVE h # c[g]
    <3>1. c[g] \in 0..Len(r) /\ g \in 0..n /\ j \in 0..n /\ j - 1 \in 0..n
      BY <1>1
    <3>2. g < j - 1 \/ g = j - 1 \/ g = j \/ j < g
      BY <1>1
    <3>3. c[g] <= i \/ c[j] <= c[g]
      <4>1. CASE g < j - 1
        <5>1. c[g] < i
          BY <1>1, <3>1, <4>1
        <5> QED
          BY <2>1, <3>1, <5>1
      <4>2. CASE g = j - 1
        BY <2>1, <4>2
      <4>3. CASE g = j
        BY <2>1, <4>3
      <4>4. CASE j < g
        <5>1. c[j] < c[g]
          BY <1>1, <3>1, <4>4
        <5> QED
          BY <2>1, <3>1, <5>1
      <4> QED
        BY <3>2, <4>1, <4>2, <4>3, <4>4
    <3>4. i < h /\ h < c[j]
      BY <2>1
    <3> HIDE DEF i
    <3> QED
      BY <2>1, <3>1, <3>3, <3>4
  <2> HIDE DEF i, m
  <2>3. Flat(F, i, m) = Kept(r, S, i, m)
    BY <2>1, <2>2, FreeSpan
  <2> QED
    BY <2>3 DEF Skipped, i, m
<1>3. Flat(F, c[n], Len(F)) = ToCome(r, S, c, n)
  <2> DEFINE i == c[n]
             m == Len(r)
  <2>1. n \in 0..n /\ i \in Nat /\ m \in Nat
    BY <1>1
  <2>2. Span(r, i, m)
    BY <2>1, SlotPlaces
  <2>3. ASSUME NEW h \in (i + 1)..m, NEW g \in 1..n PROVE h # c[g]
    <3>1. c[g] \in 0..Len(r) /\ g \in 0..n /\ (g < n \/ g = n)
      BY <1>1
    <3>2. c[g] <= i
      BY <1>1, <2>1, <3>1
    <3> HIDE DEF i
    <3> QED
      BY <2>1, <3>1, <3>2
  <2> HIDE DEF i, m
  <2>4. Flat(F, i, m) = Kept(r, S, i, m)
    BY <2>2, <2>3, FreeSpan
  <2> QED
    BY <1>1, <2>4 DEF ToCome, i, m
<1> QED
  BY <1>2, <1>3

LEMMA SlotStep ==
  ASSUME NEW r, NEW F, NEW ent, NEW c, NEW n, NEW E, NEW S, Slotted(r, F, ent, c, n, E, S),
         NEW j \in 1..n
  PROVE  /\ Joined(ToCome(r, S, c, j - 1), Skipped(r, S, c, j), ToCome(r, S, c, j))
         /\ Joined(Done(F, c, j), Done(F, c, j - 1) \o Skipped(r, S, c, j), <<ent[j]>>)
         /\ Skipped(r, S, c, j) \in Seq(ItemSet)
<1> DEFINE i == c[j - 1]
           m == c[j] - 1
           e == c[j]
           l == Len(r)
           none == <<>>
           one == <<ent[j]>>
<1>1. r \in Seq(ItemSet) /\ F \in Seq(Seq(ItemSet)) /\ Len(F) = Len(r) /\ n \in Nat
  BY DEF Slotted
<1>2. F[e] = one /\ r[e].el \in S
  BY DEF Slotted
<1>3. /\ e \in 1..l /\ Span(r, i, m) /\ Span(F, i, m) /\ Span(r, m, e) /\ Span(F, m, e)
      /\ Span(F, 0, m) /\ Span(r, m, l)
  BY SlotPlaces
<1>4. Span(r, e, l) /\ Span(F, 0, e) /\ Span(F, 0, i)
  <2>1. j \in 0..n /\ j - 1 \in 0..n
    BY <1>1
  <2> QED
    BY <2>1, SlotPlaces
<1>5. m = e - 1
  OBVIOUS
<1>6. Flat(F, i, m) = Skipped(r, S, c, j)
  BY SlotGaps
<1>7. Kept(r, S, m, e) = none /\ Flat(F, m, e) = one
  <2>1. Kept(r, S, e - 1, e) = (IF r[e].el \in S THEN <<>> ELSE <<r[e]>>) /\ Flat(F, e - 1, e) = F[e]
    <3>1. e \in 1..Len(r) /\ e \in 1..Len(F)
      BY <1>1, <1>3
    <3> HIDE DEF e
    <3>2. Kept(r, S, e - 1, e) = (IF r[e].el \in S THEN <<>> ELSE <<r[e]>>)
      BY <1>1, <3>1, OnePiece
    <3>3. Flat(F, e - 1, e) = F[e]
      BY <1>1, <3>1, OneFlat
    <3> QED
      BY <3>2, <3>3
  <2> QED
    BY <1>2, <1>5, <2>1
<1> HIDE DEF i, m, e, l, none, one
<1> DEFINE gap == Kept(r, S, i, m)
           rest == Kept(r, S, e, l)
           so == Flat(F, 0, i)
<1>8. Kept(r, S, i, l) = gap \o Kept(r, S, m, l) /\ gap \in Seq(ItemSet)
  <2>1. r \in Seq(ItemSet) /\ Span(r, i, m) /\ Span(r, m, l)
    BY <1>1, <1>3
  <2> HIDE DEF so, rest
  <2> QED
    BY <2>1, KeptJoin
<1>9. Kept(r, S, m, l) = Kept(r, S, m, e) \o rest /\ rest \in Seq(ItemSet)
  BY <1>1, <1>3, <1>4, KeptJoin
<1>10. Flat(F, 0, e) = Flat(F, 0, m) \o Flat(F, m, e)
  BY <1>1, <1>3, FlatJoin
<1>11. Flat(F, 0, m) = so \o Flat(F, i, m)
  BY <1>1, <1>3, <1>4, FlatJoin
<1> HIDE DEF gap, rest, so
<1>12. none \o rest = rest
  BY <1>9, JoinEmpty DEF none
<1>13. Joined(Kept(r, S, i, l), gap, rest)
  BY <1>7, <1>8, <1>9, <1>12 DEF Joined
<1>14. gap = Skipped(r, S, c, j)
  BY DEF gap, Skipped, i, m
<1>15. Joined(Flat(F, 0, e), so \o Skipped(r, S, c, j), one)
  BY <1>6, <1>7, <1>10, <1>11 DEF Joined
<1>16. ToCome(r, S, c, j - 1) = Kept(r, S, i, l) /\ ToCome(r, S, c, j) = rest
  BY DEF ToCome, i, e, l, rest
<1>17. Done(F, c, j) = Flat(F, 0, e) /\ Done(F, c, j - 1) = so
  BY DEF Done, i, e, so
<1> QED
  BY <1>8, <1>13, <1>14, <1>15, <1>16, <1>17 DEF one

LEMMA SlotEnds ==
  ASSUME NEW r, NEW F, NEW ent, NEW c, NEW n, NEW E, NEW S, Slotted(r, F, ent, c, n, E, S)
  PROVE  /\ Joined(Keeping(r, S), Done(F, c, 0), ToCome(r, S, c, 0))
         /\ Joined(FlattenSeq(F), Done(F, c, n), ToCome(r, S, c, n))
         /\ \A j \in 0..n : Done(F, c, j) \in Seq(ItemSet) /\ ToCome(r, S, c, j) \in Seq(ItemSet)
<1>1. /\ r \in Seq(ItemSet) /\ F \in Seq(Seq(ItemSet)) /\ Len(F) = Len(r) /\ n \in Nat
      /\ c[0] = 0
  BY DEF Slotted
<1>2. Sub(r, 0, Len(r)) = r /\ Sub(F, 0, Len(F)) = F /\ Sub(F, 0, 0) = <<>>
  BY <1>1, SubEnds
<1>3. ASSUME NEW j \in 0..n PROVE Done(F, c, j) \in Seq(ItemSet) /\ ToCome(r, S, c, j) \in Seq(ItemSet)
  <2>1. /\ Span(r, 0, c[j]) /\ Span(r, c[j], Len(r))
        /\ Span(F, 0, c[j]) /\ Span(F, c[j], Len(F))
    BY SlotPlaces
  <2>2. Kept(r, S, c[j], Len(r)) \in Seq(ItemSet)
    BY <1>1, <2>1, KeptJoin
  <2>3. Flat(F, 0, c[j]) \in Seq(ItemSet)
    BY <1>1, <2>1, FlatJoin
  <2> QED
    BY <2>2, <2>3 DEF Done, ToCome
<1>4. Joined(Keeping(r, S), Done(F, c, 0), ToCome(r, S, c, 0))
  <2> DEFINE none == <<>>
             w == Keeping(r, S)
  <2>1. Done(F, c, 0) = none
    BY <1>1, <1>2, FlattenEmpty DEF Done, Flat
  <2>2. ToCome(r, S, c, 0) = w
    BY <1>1, <1>2 DEF ToCome, Kept
  <2>3. w \in Seq(ItemSet)
    BY <1>1, KeepingIs
  <2> HIDE DEF w
  <2>4. none \o w = w
    BY <2>3, JoinEmpty
  <2> HIDE DEF none
  <2> QED
    BY <2>1, <2>2, <2>4 DEF Joined, w
<1>5. Joined(FlattenSeq(F), Done(F, c, n), ToCome(r, S, c, n))
  <2>1. Span(F, 0, c[n]) /\ Span(F, c[n], Len(F))
    <3>1. n \in 0..n
      BY <1>1
    <3> QED
      BY <3>1, SlotPlaces
  <2>2. Flat(F, 0, Len(F)) = Flat(F, 0, c[n]) \o Flat(F, c[n], Len(F))
    <3> DEFINE m == c[n]
               l == Len(F)
    <3>1. Span(F, 0, m) /\ Span(F, m, l) /\ F \in Seq(Seq(ItemSet))
      BY <1>1, <2>1
    <3> HIDE DEF m, l
    <3>2. Flat(F, 0, l) = Flat(F, 0, m) \o Flat(F, m, l)
      BY <3>1, FlatJoin
    <3> QED
      BY <3>2 DEF m, l
  <2>3. Flat(F, c[n], Len(F)) = ToCome(r, S, c, n)
    BY SlotGaps
  <2>4. Flat(F, 0, Len(F)) = FlattenSeq(F)
    BY <1>2 DEF Flat
  <2> QED
    BY <2>2, <2>3, <2>4 DEF Joined, Done
<1> QED
  BY <1>3, <1>4, <1>5

(* Filling the slots one by one gives the list of all the slots.           *)
LEMMA FillSlots ==
  ASSUME NEW k \in Sound, NEW p \in Parent, NEW els, NEW tails, Ready(k, els, tails),
         NEW r, NEW F, NEW ent, NEW c, NEW E, NEW S,
         Slotted(r, F, ent, c, Len(els), E, S), Row(k[p]) = Keeping(r, S),
         \A j \in 1..Len(els) : ent[j] = Entry(els[j], tails[j]),
         NEW anchors, \A j \in 1..Len(els) : anchors[j] = FirstEl(ToCome(r, S, c, j))
  PROVE  View(PlaceAll(k, p, els, tails, anchors)) = WithItems(View(k), p, FlattenSeq(F))
<1> DEFINE n == Len(els)
           A == [j \in 0..n |-> Done(F, c, j)]
           B == [j \in 0..n |-> ToCome(r, S, c, j)]
           M == [j \in 1..n |-> Skipped(r, S, c, j)]
<1>1. n \in Nat
  BY DEF Slotted
<1>2. /\ Joined(Keeping(r, S), Done(F, c, 0), ToCome(r, S, c, 0))
      /\ Joined(FlattenSeq(F), Done(F, c, n), ToCome(r, S, c, n))
      /\ \A j \in 0..n : Done(F, c, j) \in Seq(ItemSet) /\ ToCome(r, S, c, j) \in Seq(ItemSet)
  BY SlotEnds
<1>3. \A j \in 1..n :
        /\ Joined(ToCome(r, S, c, j - 1), Skipped(r, S, c, j), ToCome(r, S, c, j))
        /\ Joined(Done(F, c, j), Done(F, c, j - 1) \o Skipped(r, S, c, j), <<ent[j]>>)
        /\ Skipped(r, S, c, j) \in Seq(ItemSet)
  BY SlotStep
<1>4. \A j \in 1..n : ent[j] = Entry(els[j], tails[j]) /\ anchors[j] = FirstEl(ToCome(r, S, c, j))
  OBVIOUS
<1>5. A \in [0..n -> Seq(ItemSet)] /\ B \in [0..n -> Seq(ItemSet)] /\ M \in [1..n -> Seq(ItemSet)]
  BY <1>2, <1>3
<1>6. /\ \A j \in 0..n : A[j] = Done(F, c, j) /\ B[j] = ToCome(r, S, c, j)
      /\ \A j \in 1..n : M[j] = Skipped(r, S, c, j)
  OBVIOUS
<1>7. \A j \in 1..n : j \in 0..n /\ j - 1 \in 0..n
  BY <1>1
<1> HIDE DEF A, B, M, n
<1>8. \A j \in 1..n : /\ Joined(B[j - 1], M[j], B[j])
                      /\ Joined(A[j], A[j - 1] \o M[j], <<Entry(els[j], tails[j])>>)
                      /\ anchors[j] = FirstEl(B[j])
  <2> SUFFICES ASSUME NEW j \in 1..n
               PROVE  /\ Joined(B[j - 1], M[j], B[j])
                      /\ Joined(A[j], A[j - 1] \o M[j], <<Entry(els[j], tails[j])>>)
                      /\ anchors[j] = FirstEl(B[j])
    OBVIOUS
  <2>1. /\ A[j] = Done(F, c, j) /\ B[j] = ToCome(r, S, c, j) /\ M[j] = Skipped(r, S, c, j)
        /\ A[j - 1] = Done(F, c, j - 1) /\ B[j - 1] = ToCome(r, S, c, j - 1)
    BY <1>6, <1>7
  <2> QED
    BY <1>3, <1>4, <2>1
<1>9. Course(n, A, B, M, els, tails, anchors)
  BY <1>5, <1>8 DEF Course
<1>10. A[0] = Done(F, c, 0) /\ B[0] = ToCome(r, S, c, 0)
       /\ A[n] = Done(F, c, n) /\ B[n] = ToCome(r, S, c, n)
  <2>1. 0 \in 0..n /\ n \in 0..n
    BY <1>1
  <2> QED
    BY <1>6, <2>1
<1>11. Going(k, p, A, B, M, els, tails, anchors)
  <2>1. Joined(Row(k[p]), A[0], B[0])
    BY <1>2, <1>10
  <2> QED
    BY <1>9, <2>1 DEF Going, n
<1>12. View(PlaceAll(k, p, els, tails, anchors)) = WithItems(View(k), p, A[Len(els)] \o B[Len(els)])
  BY <1>11, PlaceAllShows
<1>13. A[Len(els)] \o B[Len(els)] = FlattenSeq(F)
  BY <1>2, <1>10 DEF Joined, n
<1> QED
  BY <1>12, <1>13

(* Positions of a list of l items, in their order.                         *)
Ascending(slots, l) ==
  /\ slots \in Seq(Nat) /\ \A j \in 1..Len(slots) : slots[j] < l
  /\ \A g, h \in 1..Len(slots) : g < h => slots[g] < slots[h]

Ends(slots) == [j \in 0..Len(slots) |-> IF j = 0 THEN 0 ELSE slots[j] + 1]

(* The slots of list assignment.                                           *)
SlotList(v, r, slots, els) ==
  [i \in DOMAIN r |->
     IF i - 1 \in ToSet(slots)
     THEN <<Listed(v, els[CHOOSE j \in DOMAIN slots : slots[j] = i - 1])>>
     ELSE Keeping(<<r[i]>>, ToSet(els))]

LEMMA ListAssignIs ==
  ASSUME NEW v, NEW p, NEW slots, NEW els
  PROVE  ListAssign(v, p, slots, els) =
           WithItems(Without(v, ToSet(els)), p,
                     FlattenSeq(SlotList(v, Items(v, p), slots, els)))
BY Zenon DEF ListAssign, WithItems, SlotList

(* A list has an element once.                                             *)
LEMMA RowApart ==
  ASSUME NEW s \in Plain, NEW i \in 1..Len(Row(s)), NEW j \in 1..Len(Row(s)),
         Row(s)[i].el = Row(s)[j].el
  PROVE  i = j
<1> DEFINE r == Row(s)
           now == ContentChildren(s)
<1>1. Len(r) = Len(now) /\ r[i].el = now[i]
  BY RowIs
<1>2. i \in 1..Len(now)
  BY <1>1
<1>3. PICK a \in Seq(Node), c \in Seq(Node) : Parts(s, a, now[i], c) /\ Len(Row(a)) + 1 = i
  BY <1>2, ChildSplit
<1>4. now[i] \in Elem
  BY <1>2, ChildSplit
<1> DEFINE e == now[i]
<1>5. e \in Elem /\ Parts(s, a, e, c)
  BY <1>3, <1>4
<1>6. r[j].el = e
  BY <1>1
<1> HIDE DEF e
<1>7. \A h \in 1..Len(Row(s)) : Row(s)[h].el = e => h = Len(Row(a)) + 1
  BY <1>5, PlaceOf
<1> QED
  BY <1>3, <1>6, <1>7

LEMMA EndsAre ==
  ASSUME NEW slots, NEW l \in Nat, Ascending(slots, l), NEW n, n = Len(slots)
  PROVE  LET c == Ends(slots)
         IN  /\ n \in Nat /\ c \in [0..n -> 0..l] /\ c[0] = 0
             /\ \A j \in 1..n : c[j] = slots[j] + 1 /\ slots[j] \in Nat /\ slots[j] + 1 \in 1..l
             /\ \A g, h \in 0..n : g < h => c[g] < c[h]
             /\ DOMAIN slots = 1..n
             /\ \A g, h \in 1..n : slots[g] = slots[h] => g = h
<1> DEFINE c == Ends(slots)
<1>1. /\ n \in Nat /\ DOMAIN slots = 1..n /\ \A j \in 1..n : slots[j] \in Nat /\ slots[j] < l
      /\ \A g, h \in 1..n : g < h => slots[g] < slots[h]
  BY DEF Ascending
<1>2. \A j \in 1..n : slots[j] + 1 \in 1..l
  BY <1>1
<1>3. c = [j \in 0..n |-> IF j = 0 THEN 0 ELSE slots[j] + 1]
  BY DEF Ends
<1>4. c[0] = 0 /\ \A j \in 1..n : c[j] = slots[j] + 1
  BY <1>1, <1>3
<1>5. c \in [0..n -> 0..l]
  <2>1. \A j \in 0..n : (IF j = 0 THEN 0 ELSE slots[j] + 1) \in 0..l
    <3>1. \A j \in 0..n : j = 0 \/ j \in 1..n
      BY <1>1
    <3> QED
      BY <1>2, <3>1
  <2> QED
    BY <1>3, <2>1
<1>6. ASSUME NEW g \in 0..n, NEW h \in 0..n, g < h PROVE c[g] < c[h]
  <2>1. h \in 1..n /\ (g = 0 \/ g \in 1..n)
    BY <1>1, <1>6
  <2> HIDE DEF c
  <2>2. CASE g = 0
    BY <1>1, <1>4, <2>1, <2>2
  <2>3. CASE g \in 1..n
    <3>1. slots[g] < slots[h] /\ slots[g] \in Nat /\ slots[h] \in Nat
      BY <1>1, <1>6, <2>1, <2>3
    <3> QED
      BY <1>4, <2>1, <2>3, <3>1
  <2> QED
    BY <2>1, <2>2, <2>3
<1>7. ASSUME NEW g \in 1..n, NEW h \in 1..n, slots[g] = slots[h] PROVE g = h
  <2>1. slots[g] \in Nat /\ slots[h] \in Nat
    BY <1>1
  <2>2. ~(g < h) /\ ~(h < g)
    BY <1>1, <1>7, <2>1
  <2> QED
    BY <1>1, <2>2
<1> QED
  BY <1>1, <1>2, <1>4, <1>5, <1>6, <1>7

(* The targets of an extended slice.                                       *)
LEMMA TargetsAre ==
  ASSUME NEW k \in Sound, NEW p \in Parent, NEW slots, Ascending(slots, Len(Row(k[p])))
  PROVE  /\ Chosen(k, p, slots) \in Seq(Elem)
         /\ ToSet(Chosen(k, p, slots)) = {Row(k[p])[slots[j] + 1].el : j \in 1..Len(slots)}
         /\ \A j \in 1..Len(slots) : ContentChildren(k[p])[slots[j] + 1] = Row(k[p])[slots[j] + 1].el
<1> DEFINE r == Row(k[p])
           now == ContentChildren(k[p])
           n == Len(slots)
           t == Chosen(k, p, slots)
<1>1. /\ r \in Seq(ItemSet) /\ Len(r) = Len(now) /\ Len(r) \in Nat
      /\ \A i \in 1..Len(r) : r[i].el = now[i] /\ r[i].el \in Elem
  BY SoundPlain, RowIs
<1> HIDE DEF r, now
<1>2. n \in Nat /\ DOMAIN slots = 1..n /\ \A j \in 1..n : slots[j] + 1 \in 1..Len(r)
  BY <1>1, EndsAre DEF r
<1>3. t = [j \in 1..n |-> now[slots[j] + 1]]
  BY <1>2 DEF Chosen, now
<1>4. \A j \in 1..n : now[slots[j] + 1] = r[slots[j] + 1].el /\ now[slots[j] + 1] \in Elem
  BY <1>1, <1>2
<1> HIDE DEF n, t
<1>5. t \in [1..n -> Elem] /\ \A j \in 1..n : t[j] = r[slots[j] + 1].el
  BY <1>3, <1>4
<1>6. t \in Seq(Elem)
  BY <1>2, <1>5
<1>7. ToSet(t) = {r[slots[j] + 1].el : j \in 1..n}
  BY <1>3, <1>5 DEF ToSet
<1> QED
  BY <1>4, <1>6, <1>7 DEF t, n, r, now

(* Assignment's slots fit the list: S is what leaves it, the elements of   *)
(* the right-hand side and the targets.                                    *)
LEMMA SlotsFit ==
  ASSUME NEW k \in Sound, NEW p \in Parent, NEW els \in Seq(Elem),
         NEW slots, Ascending(slots, Len(Row(k[p]))), Len(slots) = Len(els)
  PROVE  LET r == Row(k[p])
             F == SlotList(View(k), r, slots, els)
             S == ToSet(els) \cup ToSet(Chosen(k, p, slots))
         IN  Slotted(r, F, Entries(View(k), els), Ends(slots), Len(els), ToSet(els), S)
<1> DEFINE s == k[p]
           r == Row(s)
           l == Len(r)
           v == View(k)
           n == Len(els)
           E == ToSet(els)
           T == ToSet(Chosen(k, p, slots))
           S == E \cup T
           F == SlotList(v, r, slots, els)
           ent == Entries(v, els)
           c == Ends(slots)
<1>1. s \in Plain /\ r \in Seq(ItemSet) /\ l \in Nat /\ DOMAIN r = 1..l
  BY SoundPlain, RowIs
<1>2. T = {r[slots[j] + 1].el : j \in 1..n}
  BY TargetsAre
<1>3. \A g, h \in 1..l : r[g].el = r[h].el => g = h
  BY <1>1, RowApart
<1>4. v \in ViewSet
  BY ViewTyped
<1>5. /\ n \in Nat /\ c \in [0..n -> 0..l] /\ c[0] = 0
      /\ \A j \in 1..n : c[j] = slots[j] + 1 /\ slots[j] \in Nat /\ slots[j] + 1 \in 1..l
      /\ \A g, h \in 0..n : g < h => c[g] < c[h]
      /\ DOMAIN slots = 1..n
      /\ \A g, h \in 1..n : slots[g] = slots[h] => g = h
  <2>1. Ascending(slots, l) /\ n = Len(slots)
    OBVIOUS
  <2> HIDE DEF l, n
  <2> QED
    BY <1>1, <2>1, EndsAre
<1>6. \A j \in 1..n : els[j] \in Elem
  OBVIOUS
<1>7. DOMAIN els = 1..n /\ ent = [j \in 1..n |-> Listed(v, els[j])]
  BY DEF Entries
<1> HIDE DEF s, r, l, v, n, T, c, ent
<1> DEFINE J(i) == CHOOSE j \in DOMAIN slots : slots[j] = i - 1
<1>8. \A j \in 1..n : ent[j] = Listed(v, els[j]) /\ ent[j] \in ItemSet
  <2> SUFFICES ASSUME NEW j \in 1..n PROVE ent[j] = Listed(v, els[j]) /\ ent[j] \in ItemSet
    OBVIOUS
  <2>1. els[j] \in Elem
    BY <1>6
  <2>2. Listed(v, els[j]) \in ItemSet
    BY <1>4, <2>1, ListedTyped
  <2> QED
    BY <1>7, <2>2
<1>9. ToSet(slots) = {slots[j] : j \in 1..n}
  BY <1>5 DEF ToSet
<1>10. F = [i \in 1..l |-> IF i - 1 \in ToSet(slots) THEN <<Listed(v, els[J(i)])>>
                                                     ELSE Keeping(<<r[i]>>, E)]
  BY <1>1 DEF SlotList
<1> HIDE DEF F
<1>11. ASSUME NEW j \in 1..n PROVE F[c[j]] = <<ent[j]>> /\ r[c[j]].el \in S
  <2> DEFINE i == c[j]
  <2>1. i \in 1..l /\ i - 1 = slots[j] /\ i = slots[j] + 1
    BY <1>5
  <2> HIDE DEF i
  <2>2. i - 1 \in ToSet(slots)
    BY <1>9, <2>1
  <2>3. J(i) = j
    BY <1>5, <2>1
  <2>4. F[i] = <<Listed(v, els[j])>>
    BY <1>10, <2>1, <2>2, <2>3
  <2>5. r[i].el \in T
    BY <1>2, <2>1
  <2> QED
    BY <1>8, <2>4, <2>5 DEF i
<1>12. ASSUME NEW i \in 1..l, \A j \in 1..n : i # c[j]
       PROVE  F[i] = Keeping(<<r[i]>>, E) /\ (r[i].el \in S => r[i].el \in E)
  <2>1. \A j \in 1..n : i # slots[j] + 1
    BY <1>5, <1>12
  <2>2. i - 1 \notin ToSet(slots)
    <3>1. \A j \in 1..n : i - 1 # slots[j]
      BY <1>5, <2>1
    <3> QED
      BY <1>9, <3>1
  <2>3. r[i].el \notin T
    <3>1. \A j \in 1..n : slots[j] + 1 \in 1..l
      BY <1>5
    <3> QED
      BY <1>2, <1>3, <2>1, <3>1
  <2> QED
    BY <1>10, <2>2, <2>3
<1>13. F \in Seq(Seq(ItemSet)) /\ Len(F) = l
  <2>1. ASSUME NEW i \in 1..l PROVE F[i] \in Seq(ItemSet)
    <3>1. CASE i - 1 \in ToSet(slots)
      <4>1. PICK j \in 1..n : slots[j] = i - 1
        BY <1>9, <3>1
      <4>2. c[j] = i
        BY <1>5, <4>1
      <4>3. F[i] = <<ent[j]>> /\ ent[j] \in ItemSet
        BY <1>8, <1>11, <4>2
      <4> QED
        BY <4>3, OneIs
    <3>2. CASE i - 1 \notin ToSet(slots)
      <4> DEFINE one == <<r[i]>>
      <4>1. r[i] \in ItemSet
        BY <1>1 DEF l
      <4>2. one \in Seq(ItemSet)
        BY <4>1, OneIs
      <4>3. F[i] = Keeping(one, E)
        BY <1>10, <3>2
      <4> HIDE DEF one
      <4>4. Keeping(one, E) \in Seq(ItemSet)
        BY <4>2, KeepingIs
      <4> QED
        BY <4>3, <4>4
    <3> QED
      BY <3>1, <3>2
  <2>2. F \in [1..l -> Seq(ItemSet)]
    BY <1>10, <2>1
  <2> QED
    BY <1>1, <2>2
<1>14. E \subseteq S
  OBVIOUS
<1> HIDE DEF S, E
<1>15. Slotted(r, F, ent, c, n, E, S)
  BY <1>1, <1>5, <1>8, <1>11, <1>12, <1>13, <1>14 DEF Slotted, l
<1> QED
  BY <1>15 DEF r, s, F, ent, c, n, E, S, T, v

LEMMA ElsSub ==
  ASSUME NEW s \in Seq(ItemSet), NEW i, NEW j, Span(s, i, j)
  PROVE  Sub(Els(s), i, j) = Els(Sub(s, i, j)) /\ Sub(s, i, j) \in Seq(ItemSet)
<1> DEFINE es == Els(s)
           u == Sub(s, i, j)
           a == Sub(es, i, j)
           b == Els(u)
<1>1. es \in Seq(Elem) /\ Len(es) = Len(s) /\ \A h \in 1..Len(s) : es[h] = s[h].el
  BY ElsIs
<1>2. u \in Seq(ItemSet) /\ Len(u) = j - i /\ \A h \in 1..(j - i) : u[h] = s[i + h]
  BY SubIs
<1>3. i \in Nat /\ j \in Nat /\ i <= j /\ j <= Len(s)
  BY DEF Span
<1> HIDE DEF es, u
<1>4. a \in Seq(Elem) /\ Len(a) = j - i /\ \A h \in 1..(j - i) : a[h] = es[i + h]
  <2>1. Span(es, i, j)
    BY <1>1 DEF Span
  <2> QED
    BY <1>1, <2>1, SubIs
<1>5. b \in Seq(Elem) /\ Len(b) = j - i /\ \A h \in 1..(j - i) : b[h] = u[h].el
  BY <1>2, ElsIs
<1> HIDE DEF a, b
<1>6. \A h \in 1..(j - i) : i + h \in 1..Len(s)
  BY <1>3
<1>7. \A h \in 1..Len(a) : a[h] = b[h]
  BY <1>1, <1>2, <1>4, <1>5, <1>6
<1>8. a = b
  BY <1>4, <1>5, <1>7, SameSeq
<1> QED
  BY <1>2, <1>8 DEF a, b, es, u

(* The anchor of each slot is the first item to come.                      *)
LEMMA AnchorsFit ==
  ASSUME NEW k \in Sound, NEW p \in Parent, NEW els \in Seq(Elem),
         NEW slots, Ascending(slots, Len(Row(k[p]))), Len(slots) = Len(els), NEW j \in 1..Len(els)
  PROVE  SlotAnchors(k, p, slots, els)[j] =
           FirstEl(ToCome(Row(k[p]), ToSet(els) \cup ToSet(Chosen(k, p, slots)), Ends(slots), j))
<1> DEFINE s == k[p]
           r == Row(s)
           l == Len(r)
           now == ContentChildren(s)
           n == Len(els)
           E == ToSet(els)
           T == ToSet(Chosen(k, p, slots))
           S == E \cup T
           c == Ends(slots)
           i == slots[j] + 1
           targets == {now[slots[g] + 1] : g \in DOMAIN slots}
           reused == {e \in E : IsChild(k, p, e)}
           U == targets \cup reused
           rest == Sub(r, i, l)
<1>1. s \in Plain /\ now = Els(r) /\ r \in Seq(ItemSet) /\ l \in Nat
  BY SoundPlain, ChildrenEls
<1>2. n \in Nat /\ DOMAIN slots = 1..n /\ i \in 1..l /\ c[j] = i
  <2>1. Ascending(slots, l) /\ n = Len(slots)
    OBVIOUS
  <2> HIDE DEF l, n
  <2> QED
    BY <1>1, <2>1, EndsAre
<1>3. targets = T
  <2>1. /\ T = {r[slots[g] + 1].el : g \in 1..n}
        /\ \A g \in 1..n : now[slots[g] + 1] = r[slots[g] + 1].el
    <3>1. /\ T = {r[slots[g] + 1].el : g \in 1..Len(slots)}
          /\ \A g \in 1..Len(slots) : now[slots[g] + 1] = r[slots[g] + 1].el
      <4> HIDE DEF l, n, E, S, c, i, targets, reused, U, rest
      <4> QED
        BY TargetsAre
    <3> QED
      BY <3>1
  <2> QED
    BY <1>2, <2>1
<1>4. Span(r, i, l)
  BY <1>1, <1>2 DEF Span
<1>5. rest \in Seq(ItemSet) /\ Sub(now, i, l) = Els(rest)
  BY <1>1, <1>4, ElsSub
<1>6. From(now, i) = Els(rest)
  <2>1. Len(now) = l
    BY <1>1, ElsIs
  <2> QED
    BY <1>5, <2>1 DEF From, Sub
<1>7. ASSUME NEW y \in ToSet(rest) PROVE y.el \in S <=> y.el \in U
  <2>1. y \in ToSet(r) /\ y \in ItemSet
    <3>1. Len(rest) = l - i /\ \A h \in 1..(l - i) : rest[h] = r[i + h]
      BY <1>1, <1>4, SubIs
    <3>2. PICK h \in 1..(l - i) : y = rest[h]
      BY <1>5, <3>1 DEF ToSet
    <3>3. i + h \in 1..l
      BY <1>1, <1>2
    <3>4. y = r[i + h]
      BY <3>1, <3>2
    <3>5. r[i + h] \in ToSet(r)
      BY <1>1, <3>3 DEF ToSet
    <3>6. y \in ItemSet
      BY <1>1, <3>3, <3>4
    <3> QED
      BY <3>4, <3>5, <3>6
  <2> DEFINE e == y.el
  <2>2. e \in Elem /\ e \in {w.el : w \in ToSet(r)}
    BY <2>1 DEF ItemSet
  <2> HIDE DEF e
  <2>3. IsChild(k, p, e)
    BY <2>2, ChildIs
  <2>4. e \in E <=> e \in reused
    BY <2>3
  <2>5. e \in S <=> e \in U
    BY <1>3, <2>4
  <2> QED
    BY <2>5 DEF e
<1> HIDE DEF rest, U, S
<1>8. FirstOr(NotIn(Els(rest), U), NoNode) = FirstEl(Keeping(rest, S))
  BY <1>5, <1>7, FirstStaying
<1>9. Keeping(rest, S) = ToCome(r, S, c, j)
  BY <1>2 DEF ToCome, Kept, rest
<1>10. SlotAnchors(k, p, slots, els) =
         [g \in 1..n |-> FirstOr(NotIn(From(now, slots[g] + 1), U), NoNode)]
  BY <1>2, Zenon DEF SlotAnchors, U
<1>11. SlotAnchors(k, p, slots, els)[j] = FirstOr(NotIn(From(now, i), U), NoNode)
  <2> HIDE DEF now
  <2> QED
    BY <1>10
<1> QED
  BY <1>6, <1>8, <1>9, <1>11 DEF S

(* T holds elements that are children of p.                                *)
Inside(k, p, T) == \A e \in T : IsChild(k, p, e) /\ e \in Elem

(* In the other lists, leaving out children of p changes nothing.          *)
LEMMA SameOutside ==
  ASSUME NEW k \in Sound, NEW p \in Parent, NEW E, NEW T, Inside(k, p, T),
         NEW w \in Seq(ItemSet)
  PROVE  WithItems(Without(View(k), E \cup T), p, w) = WithItems(Without(View(k), E), p, w)
<1> DEFINE v == View(k)
           S == E \cup T
           a == Without(v, S)
           b == Without(v, E)
           x == WithItems(a, p, w)
           y == WithItems(b, p, w)
<1>1. v \in ViewSet /\ \A q \in Parent : v[q].items = Row(k[q])
  BY ViewTyped, ItemsOf
<1>2. ASSUME NEW q \in Parent, q # p PROVE Keeping(Row(k[q]), S) = Keeping(Row(k[q]), E)
  <2> DEFINE r == Row(k[q])
  <2>1. r \in Seq(ItemSet)
    BY SoundPlain, RowIs
  <2>2. \A u \in ToSet(r) : u.el \in ToSet(k[q])
    BY SoundPlain, RowEls
  <2>3. \A e \in T : e \notin ToSet(k[q])
    <3>1. \A e \in T : e \in ToSet(k[p])
      BY DEF Inside, IsChild, Homes
    <3> QED
      BY <1>2, <3>1, OneChain
  <2>4. \A u \in ToSet(r) : u.el \in S <=> u.el \in E
    BY <2>2, <2>3
  <2> HIDE DEF r, S
  <2>5. Keeping(r, S) = Keeping(r, E)
    BY <2>1, <2>4, KeepingAgree
  <2> QED
    BY <2>5 DEF r
<1> HIDE DEF v, S
<1>3. /\ a \in ViewSet
      /\ \A q \in Parent : a[q].lead = v[q].lead /\ a[q].items = Keeping(v[q].items, S)
  BY <1>1, WithoutOf
<1>4. /\ b \in ViewSet
      /\ \A q \in Parent : b[q].lead = v[q].lead /\ b[q].items = Keeping(v[q].items, E)
  BY <1>1, WithoutOf
<1> HIDE DEF a, b
<1>5. /\ x \in ViewSet /\ x[p].items = w
      /\ \A q \in Parent : x[q].lead = a[q].lead /\ (q # p => x[q].items = a[q].items)
  BY <1>3, WithItemsOf
<1>6. /\ y \in ViewSet /\ y[p].items = w
      /\ \A q \in Parent : y[q].lead = b[q].lead /\ (q # p => y[q].items = b[q].items)
  BY <1>4, WithItemsOf
<1> HIDE DEF x, y
<1>7. \A q \in Parent : x[q].lead = y[q].lead /\ x[q].items = y[q].items
  BY <1>1, <1>2, <1>3, <1>4, <1>5, <1>6
<1>8. x = y
  BY <1>5, <1>6, <1>7, SameView
<1> QED
  BY <1>8 DEF x, y, a, b, v, S

(* What CutShows says of a and c.                                          *)
CutOut(k, els, seq, a, c) ==
  LET S == ToSet(els) \cup ToSet(seq)
  IN  /\ c \in Sound /\ View(c) = Without(View(k), S) /\ Ready(c, els, a.tails)
      /\ \A j \in 1..Len(els) : a.tails[j] = TailRun(k, els[j])
      /\ \A q \in Parent : Row(c[q]) = Keeping(Row(k[q]), S)

LEMMA CutOutIs ==
  ASSUME NEW k \in Sound, NEW els \in Seq(Elem), Distinct(els), NEW seq \in Seq(Elem)
  PROVE  CutOut(k, els, seq, AdoptAll(k, els), ExtractAll(AdoptAll(k, els).k, seq))
<1> DEFINE a == AdoptAll(k, els)
           c == ExtractAll(a.k, seq)
           S == ToSet(els) \cup ToSet(seq)
<1>1. /\ c \in Sound /\ View(c) = Without(View(k), S) /\ Ready(c, els, a.tails)
      /\ \A j \in 1..Len(els) : a.tails[j] = TailRun(k, els[j])
      /\ \A q \in Parent : Row(c[q]) = Keeping(Row(k[q]), S)
  BY CutShows
<1> HIDE DEF a, c
<1>2. CutOut(k, els, seq, a, c)
  BY <1>1 DEF CutOut
<1> QED
  BY <1>2 DEF a, c

(* el[start:stop:step] = els, for positions in their order.                *)
LEMMA AssignAgrees ==
  ASSUME NEW k \in Sound, NEW p \in Parent, NEW els \in Seq(Elem), Distinct(els),
         NEW slots, Ascending(slots, Len(Row(k[p]))), Len(slots) = Len(els)
  PROVE  View(AssignSlots(k, p, slots, els)) = ListAssign(View(k), p, slots, els)
<1> DEFINE r == Row(k[p])
           v == View(k)
           E == ToSet(els)
           ts == Chosen(k, p, slots)
           T == ToSet(ts)
           S == E \cup T
           a == AdoptAll(k, els)
           tails == a.tails
           seq == NotIn(ts, E)
           d == ExtractAll(a.k, seq)
           anchors == SlotAnchors(k, p, slots, els)
           F == SlotList(v, r, slots, els)
           ent == Entries(v, els)
           c == Ends(slots)
           new == FlattenSeq(F)
<1>1. ts \in Seq(Elem) /\ T = {r[slots[j] + 1].el : j \in 1..Len(slots)}
  BY TargetsAre
<1>2. seq \in Seq(Elem) /\ S = E \cup ToSet(seq)
  <2> HIDE DEF ts, E
  <2>1. NotIn(ts, E) \in Seq(Elem) /\ ToSet(NotIn(ts, E)) = ToSet(ts) \ E
    BY <1>1, NotInSome
  <2> QED
    BY <2>1
<1>3. /\ d \in Sound /\ View(d) = Without(v, S) /\ Ready(d, els, tails)
      /\ \A j \in 1..Len(els) : tails[j] = TailRun(k, els[j])
      /\ Row(d[p]) = Keeping(r, S)
  <2> HIDE DEF seq, S
  <2> DEFINE U == ToSet(els) \cup ToSet(seq)
  <2>1. seq \in Seq(Elem) /\ S = U
    BY <1>2
  <2>2. /\ d \in Sound /\ View(d) = Without(v, U) /\ Ready(d, els, tails)
        /\ \A j \in 1..Len(els) : tails[j] = TailRun(k, els[j])
        /\ Row(d[p]) = Keeping(r, U)
    <3>1. CutOut(k, els, seq, a, d)
      BY <2>1, CutOutIs
    <3> HIDE DEF a, d, U
    <3> QED
      BY <3>1 DEF CutOut, U, tails, v, r
  <2> HIDE DEF U
  <2> QED
    BY <2>1, <2>2
<1>4. Slotted(r, F, ent, c, Len(els), E, S)
  BY SlotsFit
<1>5. \A j \in 1..Len(els) : anchors[j] = FirstEl(ToCome(r, S, c, j))
  BY AnchorsFit
<1>6. \A j \in 1..Len(els) : ent[j] = Entry(els[j], tails[j])
  <2> HIDE DEF tails, ent
  <2> QED
    BY <1>3, EntriesAre DEF ent
<1>7. ListAssign(v, p, slots, els) = WithItems(Without(v, E), p, new)
  <2>1. Items(v, p) = r
    BY ItemsOf DEF Items
  <2> QED
    BY <2>1, ListAssignIs
<1>8. AssignSlots(k, p, slots, els) = PlaceAll(d, p, els, tails, anchors)
  BY Zenon DEF AssignSlots, Chosen
<1>9. new \in Seq(ItemSet)
  <2> HIDE DEF F
  <2>1. F \in Seq(Seq(ItemSet))
    BY <1>4 DEF Slotted
  <2>2. <<>> \in Seq(Seq(ItemSet))
    BY EmptyIs
  <2> QED
    BY <2>1, <2>2, FlattenJoin
<1>10. Inside(k, p, T)
  <2> SUFFICES ASSUME NEW e \in T PROVE IsChild(k, p, e) /\ e \in Elem
    BY DEF Inside
  <2>1. r \in Seq(ItemSet) /\ Len(r) \in Nat
    BY SoundPlain, RowIs
  <2>2. PICK j \in 1..Len(slots) : e = r[slots[j] + 1].el
    BY <1>1
  <2>3. slots[j] + 1 \in 1..Len(r)
    BY <2>1, EndsAre
  <2> HIDE DEF r, T
  <2>4. r[slots[j] + 1] \in ToSet(r) /\ r[slots[j] + 1] \in ItemSet
    BY <2>1, <2>3 DEF ToSet
  <2>5. e \in Elem /\ e \in {y.el : y \in ToSet(r)}
    BY <2>2, <2>4 DEF ItemSet
  <2> QED
    BY <2>5, ChildIs DEF r
<1> HIDE DEF r, v, S, E, T, d, tails, anchors, F, ent, c, new
<1>11. View(PlaceAll(d, p, els, tails, anchors)) = WithItems(View(d), p, FlattenSeq(F))
  BY <1>3, <1>4, <1>5, <1>6, FillSlots
<1>12. WithItems(Without(v, S), p, new) = WithItems(Without(v, E), p, new)
  <2>1. WithItems(Without(View(k), E \cup T), p, new) = WithItems(Without(View(k), E), p, new)
    BY <1>9, <1>10, SameOutside
  <2> QED
    BY <2>1 DEF v, S
<1>13. View(d) = Without(v, S) /\ FlattenSeq(F) = new
  BY <1>3 DEF new
<1> QED
  BY <1>7, <1>8, <1>11, <1>12, <1>13, Zenon DEF v

(* Positions that go forward are in their order.                           *)
LEMMA RangeAscends ==
  ASSUME NEW n \in Nat, NEW start \in 0..n, NEW stop \in 0..n, NEW step \in {2, 3}
  PROVE  Ascending(RangeSeq(start, stop, step), n)
<1> DEFINE span == stop - start
           count == IF span > 0 THEN (span + step - 1) \div step ELSE 0
           s == RangeSeq(start, stop, step)
<1>1. s = [j \in 1..count |-> start + (j - 1) * step]
  BY DEF RangeSeq
<1>2. count \in Nat
  <2>1. CASE step = 2
    BY <2>1
  <2>2. CASE step = 3
    BY <2>2
  <2> QED
    BY <2>1, <2>2
<1>3. \A j \in DOMAIN s : s[j] \in 0..(n - 1)
  BY RangeWithin
<1> HIDE DEF count, s
<1>4. DOMAIN s = 1..count /\ \A j \in 1..count : s[j] \in Nat /\ s[j] < n
  BY <1>1, <1>3
<1>5. s \in Seq(Nat) /\ Len(s) = count
  <2>1. s \in [1..count -> Nat]
    BY <1>1, <1>4
  <2> QED
    BY <1>2, <2>1
<1>6. ASSUME NEW g \in 1..count, NEW h \in 1..count, g < h PROVE s[g] < s[h]
  <2>1. s[g] = start + (g - 1) * step /\ s[h] = start + (h - 1) * step
    BY <1>1
  <2>2. CASE step = 2
    BY <1>2, <1>6, <2>1, <2>2
  <2>3. CASE step = 3
    BY <1>2, <1>6, <2>1, <2>3
  <2> QED
    BY <2>2, <2>3
<1>7. Ascending(s, n)
  BY <1>4, <1>5, <1>6 DEF Ascending
<1> QED
  BY <1>7 DEF s

LEMMA AssignmentsAgree ==
  ASSUME kids \in Sound
  PROVE  ExtendedSliceAgreesWithList
<1> SUFFICES ASSUME NEW p \in Parent, NEW start \in Sizes(p), NEW stop \in Sizes(p),
                    NEW step \in {2, 3}, NEW els \in NewElements,
                    Len(els) = Len(RangeSeq(start, stop, step)), Distinct(els)
             PROVE  AssignmentAgrees(p, RangeSeq(start, stop, step), els)
  BY DEF ExtendedSliceAgreesWithList
<1> DEFINE slots == RangeSeq(start, stop, step)
           l == Len(Row(kids[p]))
<1>1. els \in Seq(Elem)
  BY ChildListAssumption DEF NewElements
<1>2. l = Len(ContentChildren(kids[p])) /\ l \in Nat
  BY SoundPlain, RowIs
<1>3. start \in 0..l /\ stop \in 0..l
  BY <1>2 DEF Sizes
<1> HIDE DEF l
<1>4. Ascending(slots, l)
  BY <1>2, <1>3, RangeAscends
<1>5. Ascending(slots, Len(Row(kids[p]))) /\ Len(slots) = Len(els)
  BY <1>4 DEF l
<1> HIDE DEF slots
<1>6. View(AssignSlots(kids, p, slots, els)) = ListAssign(View(kids), p, slots, els)
  BY <1>1, <1>5, AssignAgrees
<1> QED
  BY <1>6 DEF AssignmentAgrees, slots

LEMMA SoundSlices == kids \in Sound => SlicesAgreeWithList
BY SplicesAgree, AssignmentsAgree DEF SlicesAgreeWithList

(* In every state that edits can reach, el[start:stop] = els with a stop   *)
(* that is not before start, and el[start:stop:step] = els with a step of  *)
(* 2 or 3, do to the children and their .tails what the same assignment    *)
(* does to a Python list of (element, tail) pairs, the reused children     *)
(* moved: whatever the sizes of the list, of the selection and of the runs *)
(* of text nodes, for a right-hand side of distinct elements, also when it *)
(* reuses children inside or outside the slice.                            *)
THEOREM SlicesAgree == Spec => []SlicesAgreeWithList
<1>1. TypeOK => SlicesAgreeWithList
  BY TypeOKIsSound, SoundSlices
<1> QED
  BY <1>1, NodesHaveOnePlace, PTL

-----------------------------------------------------------------------------
(* ChildIter: for chains, loops and edits of any length, a walk whose      *)
(* cursor is left in its place hands out the children it began with in     *)
(* their order, and all of them.                                           *)

-----------------------------------------------------------------------------
(* One call of __next__, along the rest of the chain.                      *)

(* The rest holds nothing to hand out, and the walk ends.                  *)
Exhausts(rest) ==
  /\ \A h \in DOMAIN rest : rest[h] \in Text
  /\ Found(rest) = <<>>
  /\ NextCursor(rest) = NoNode

(* The node at place m is the first one to hand out.                       *)
HandsOut(rest, m) ==
  /\ m \in DOMAIN rest /\ rest[m] \notin Text
  /\ \A h \in DOMAIN rest : h < m => rest[h] \in Text
  /\ Found(rest) = <<rest[m]>>
  /\ NextCursor(rest) = IF m = Len(rest) THEN NoNode ELSE rest[m + 1]

LEMMA FirstOrIs ==
  ASSUME NEW X, NEW s \in Seq(X), NEW i \in 0..Len(s)
  PROVE  FirstOr(From(s, i), NoNode) = IF i = Len(s) THEN NoNode ELSE s[i + 1]
<1> DEFINE f == SubSeq(s, i + 1, Len(s))
<1>1. /\ f \in Seq(X) /\ Len(f) = (IF i + 1 <= Len(s) THEN Len(s) - (i + 1) + 1 ELSE 0)
      /\ \A h \in DOMAIN f : f[h] = s[i + 1 + h - 1]
  BY Sliced
<1>2. From(s, i) = f
  BY DEF From
<1> HIDE DEF f
<1>3. CASE i = Len(s)
  <2>1. f = <<>>
    BY <1>1, <1>3
  <2> QED
    BY <1>2, <1>3, <2>1 DEF FirstOr
<1>4. CASE i # Len(s)
  <2>1. f # <<>> /\ 1 \in DOMAIN f /\ Head(f) = f[1]
    BY <1>1, <1>4
  <2>2. f[1] = s[i + 1]
    BY <1>1, <2>1
  <2> QED
    BY <1>2, <1>4, <2>1, <2>2 DEF FirstOr
<1> QED
  BY <1>3, <1>4

LEMMA NothingKept ==
  ASSUME NEW X, NEW s \in Seq(X), NEW S, ToSet(s) \subseteq S
  PROVE  NotIn(s, S) = <<>>
<1>1. NotIn(s, S) \in Seq(X) /\ ToSet(NotIn(s, S)) = {}
  BY NotInRange
<1> DEFINE t == NotIn(s, S)
<1> HIDE DEF t
<1>2. t \in Seq(X) /\ \A j \in DOMAIN t : FALSE
  BY <1>1, Ranged DEF t
<1>3. Len(t) \in Nat /\ DOMAIN t = 1..Len(t)
  BY <1>2
<1>4. Len(t) = 0
  <2>1. ~(1 \in 1..Len(t))
    BY <1>2, <1>3
  <2> QED
    BY <1>3, <2>1
<1>5. t = <<>>
  BY <1>2, <1>4
<1> QED
  BY <1>5 DEF t

LEMMA LastKept ==
  ASSUME NEW X, NEW s \in Seq(X), NEW S, NEW m \in DOMAIN s, m = Len(s), s[m] \notin S,
         \A h \in DOMAIN s : h < m => s[h] \in S
  PROVE  NotIn(s, S) = <<s[m]>>
<1> DEFINE t == NotIn(s, S)
<1>1. t \in Seq(X) /\ ToSet(t) = ToSet(s) \ S
  BY NotInRange
<1>2. \E g : Spares(s, S, t, g)
  BY NotInIs
<1> HIDE DEF t
<1>3. PICK g : /\ g \in [DOMAIN t -> DOMAIN s] /\ DOMAIN g = DOMAIN t
               /\ \A j \in DOMAIN t : t[j] = s[g[j]]
               /\ \A i, j \in DOMAIN t : i < j => g[i] < g[j]
               /\ \A i \in DOMAIN s : s[i] \notin S <=> \E j \in DOMAIN g : g[j] = i
  BY <1>2 DEF Spares, Thinned
<1>4. DOMAIN s = 1..Len(s) /\ Len(s) \in Nat /\ DOMAIN t = 1..Len(t) /\ Len(t) \in Nat
  BY <1>1
<1>5. \A j \in DOMAIN t : g[j] = m
  <2> SUFFICES ASSUME NEW j \in DOMAIN t PROVE g[j] = m
    OBVIOUS
  <2>1. g[j] \in DOMAIN s /\ s[g[j]] \notin S
    BY <1>3
  <2>2. ~(g[j] < m)
    BY <2>1
  <2> QED
    BY <1>4, <2>1, <2>2
<1>6. \E j \in DOMAIN t : g[j] = m
  BY <1>3
<1>7. 1 \in DOMAIN t /\ ~(2 \in DOMAIN t)
  <2>1. 2 \in DOMAIN t => 1 \in DOMAIN t
    BY <1>4
  <2>2. ~(m < m)
    BY <1>4
  <2>3. ~(2 \in DOMAIN t)
    BY <1>3, <1>5, <2>1, <2>2
  <2> QED
    BY <1>4, <1>6, <2>3
<1>8. Len(t) = 1
  BY <1>4, <1>7
<1>9. t[1] = s[m]
  BY <1>3, <1>5, <1>7
<1>10. t = <<s[m]>>
  BY <1>1, <1>8, <1>9
<1> QED
  BY <1>10 DEF t

LEMMA StepIs ==
  ASSUME NEW rest \in Seq(Node)
  PROVE  Exhausts(rest) \/ \E m : HandsOut(rest, m)
<1> DEFINE hits == {i \in DOMAIN rest : rest[i] \notin Text}
<1>1. DOMAIN rest = 1..Len(rest) /\ Len(rest) \in Nat
  OBVIOUS
<1>2. CASE hits = {}
  <2>1. Hops(rest) = Len(rest)
    BY <1>2 DEF Hops
  <2>2. \A h \in DOMAIN rest : rest[h] \in Text
    BY <1>2
  <2>3. SubSeq(rest, 1, Len(rest)) = rest
    BY <1>1
  <2>4. ToSet(rest) \subseteq Text
    BY <2>2 DEF ToSet
  <2>5. Found(rest) = <<>>
    BY <2>1, <2>3, <2>4, NothingKept DEF Found
  <2>6. Len(rest) \in 0..Len(rest)
    BY <1>1
  <2>7. NextCursor(rest) = NoNode
    BY <2>1, <2>6, FirstOrIs DEF NextCursor
  <2> QED
    BY <2>2, <2>5, <2>7 DEF Exhausts
<1>3. CASE hits # {}
  <2> DEFINE m == Min(hits)
  <2>1. hits \in SUBSET Nat
    BY <1>1
  <2>2. m \in hits /\ \A h \in hits : m <= h
    <3> HIDE DEF hits
    <3> QED
      BY <1>3, <2>1, SmallestIs
  <2>3. Hops(rest) = m
    BY <1>3 DEF Hops
  <2> HIDE DEF m
  <2>4. m \in DOMAIN rest /\ rest[m] \notin Text
    BY <2>2
  <2>5. ASSUME NEW h \in DOMAIN rest, h < m PROVE rest[h] \in Text
    <3>1. ~(m <= h)
      BY <1>1, <2>4, <2>5
    <3> QED
      BY <2>2, <3>1
  <2> DEFINE u == SubSeq(rest, 1, m)
  <2>6. /\ u \in Seq(Node) /\ Len(u) = m /\ DOMAIN u = 1..m
        /\ \A h \in 1..m : u[h] = rest[h]
    BY <1>1, <2>4
  <2> HIDE DEF u
  <2>7. m \in 1..m /\ \A h \in 1..m : h \in DOMAIN rest
    BY <1>1, <2>4
  <2>8. m \in DOMAIN u /\ u[m] \notin Text /\ \A h \in DOMAIN u : h < m => u[h] \in Text
    BY <2>4, <2>5, <2>6, <2>7
  <2>9. NotIn(u, Text) = <<rest[m]>>
    BY <2>6, <2>7, <2>8, LastKept
  <2>10. Found(rest) = <<rest[m]>>
    BY <2>3, <2>9 DEF Found, u
  <2>11. m \in 0..Len(rest)
    BY <1>1, <2>4
  <2>12. NextCursor(rest) = IF m = Len(rest) THEN NoNode ELSE rest[m + 1]
    BY <2>3, <2>11, FirstOrIs DEF NextCursor
  <2>13. HandsOut(rest, m)
    BY <2>4, <2>5, <2>10, <2>12 DEF HandsOut
  <2> QED
    BY <2>13
<1> QED
  BY <1>2, <1>3

(* The rest of the chain, when the cursor stands in it.                    *)
LEMMA RestIs ==
  ASSUME kids \in Sound, cursor \in ToSet(kids[Source])
  PROVE  \E a \in DOMAIN kids[Source] :
           /\ kids[Source][a] = cursor
           /\ ChainFrom(kids, cursor) = SubSeq(kids[Source], a, Len(kids[Source]))
<1> DEFINE s == kids[Source]
           p == CHOOSE p \in Homes(kids, cursor) : TRUE
           a == Pos(s, cursor)
<1>1. Source \in Parent /\ s \in Seq(Node) /\ DOMAIN s = 1..Len(s)
  BY SoundChain, ChildIterAssumption
<1>2. cursor # NoNode
  BY <1>1, Ranged, ChildListAssumption DEF Node
<1>3. Source \in Homes(kids, cursor)
  BY <1>1 DEF Homes
<1>4. p = Source
  <2>1. p \in Parent /\ cursor \in ToSet(kids[p])
    BY <1>3 DEF Homes
  <2> HIDE DEF p
  <2>2. PICK i \in DOMAIN kids[p] : kids[p][i] = cursor
    BY <2>1 DEF ToSet
  <2>3. PICK j \in DOMAIN kids[Source] : kids[Source][j] = cursor
    BY DEF ToSet
  <2> QED
    BY <1>1, <2>1, <2>2, <2>3, OnePlace
<1>5. a \in DOMAIN s /\ s[a] = cursor
  BY PosIs
<1>6. ChainFrom(kids, cursor) = From(s, a - 1)
  BY <1>2, <1>3, <1>4 DEF ChainFrom
<1> HIDE DEF a, s
<1>7. a - 1 + 1 = a
  BY <1>1, <1>5
<1>8. ChainFrom(kids, cursor) = SubSeq(s, a, Len(s))
  BY <1>6, <1>7 DEF From
<1> QED
  BY <1>5, <1>8 DEF s

-----------------------------------------------------------------------------
(* The inductive invariant.                                                *)

(* The original children that the walk still owes.                         *)
Owed == ToSet(first) \ ToSet(handed)

(* x is the remembered node, or comes later in its chain.                  *)
Ahead(x) == x \in ToSet(kids[Source]) /\ (x = cursor \/ Before(kids[Source], cursor, x))

WalkInv ==
  /\ kids \in Sound
  /\ first \in Seq(Elem) /\ handed \in Seq(Elem)
  /\ cursor = NoNode \/ cursor \in ToSet(kids[Source])
  /\ \A x \in Owed : ~ended /\ cursor # NoNode /\ Ahead(x)
  /\ \A j, k \in DOMAIN first :
       j < k /\ first[j] \in Owed /\ first[k] \in Owed =>
         Before(kids[Source], first[j], first[k])
  /\ WalkKeepsOrder

LEMMA ElemOrText ==
  /\ Elem \subseteq Node /\ Node \ Text = Elem
  /\ \A x \in Elem : x \notin Text /\ x # NoNode
  /\ Source \in Parent /\ Dest \in Parent
BY ChildListAssumption, ChildIterAssumption DEF Node

LEMMA BeginInv ==
  ASSUME Begin
  PROVE  WalkInv
<1> DEFINE s == kids[Source]
<1>1. PICK c \in Chains : kids = [p \in Parent |-> IF p = Source THEN c ELSE <<>>]
  BY DEF Begin
<1>2. PICK n \in 0..MaxLen : c \in [1..n -> Elem \cup Text]
  BY DEF Chains
<1>3. n \in Nat
  BY ChildIterAssumption
<1>4. c \in Chain /\ Distinct(c)
  BY <1>2, <1>3 DEF Chains, Chain
<1>5. kids \in [Parent -> Chain] /\ s = c /\ \A p \in Parent : p # Source => kids[p] = <<>>
  BY <1>1, <1>4, ElemOrText DEF Chain
<1>6. kids \in Sound
  <2> SUFFICES ASSUME NEW p \in Parent, NEW q \in Parent,
                      NEW i \in DOMAIN kids[p], NEW j \in DOMAIN kids[q],
                      kids[p][i] = kids[q][j]
               PROVE  p = q /\ i = j
    BY <1>5 DEF Sound
  <2>1. p = Source /\ q = Source
    BY <1>5
  <2> QED
    BY <1>4, <1>5, <2>1 DEF Distinct
<1>7. s \in Seq(Node) /\ DOMAIN s = 1..Len(s) /\ Len(s) \in Nat
  BY <1>6, SoundChain, ElemOrText
<1>8. handed = <<>> /\ ended = FALSE /\ first = NotIn(s, Text) /\ cursor = FirstOr(s, NoNode)
  BY DEF Begin, ContentChildren
<1> HIDE DEF s
<1>9. first \in Seq(Node) /\ ToSet(first) = ToSet(s) \ Text
  BY <1>7, <1>8, NotInRange
<1>10. first \in Seq(Elem)
  <2>1. \A j \in DOMAIN first : first[j] \in Elem
    BY <1>9, Ranged, ElemOrText
  <2> QED
    BY <1>9, <2>1
<1>11. handed \in Seq(Elem) /\ ToSet(handed) = {}
  BY <1>8 DEF ToSet
<1>12. ASSUME NEW j \in DOMAIN first, NEW k \in DOMAIN first, j < k
       PROVE  Before(s, first[j], first[k])
  <2>1. \E g : Spares(s, Text, first, g)
    BY <1>7, <1>8, NotInIs
  <2>2. PICK g : Thinned(s, first, g)
    BY <2>1 DEF Spares
  <2> QED
    BY <1>12, <2>2 DEF Thinned, Before
<1>13. cursor = NoNode \/ cursor \in ToSet(s)
  <2>1. CASE s = <<>>
    BY <1>8, <2>1 DEF FirstOr
  <2>2. CASE s # <<>>
    <3>1. cursor = s[1] /\ 1 \in DOMAIN s
      BY <1>7, <1>8, <2>2 DEF FirstOr
    <3> QED
      BY <3>1 DEF ToSet
  <2> QED
    BY <2>1, <2>2
<1>14. ASSUME NEW x \in ToSet(s) \ Text
       PROVE  cursor # NoNode /\ x \in ToSet(s) /\ (x = cursor \/ Before(s, cursor, x))
  <2>1. PICK i \in DOMAIN s : s[i] = x
    BY DEF ToSet
  <2>2. cursor = s[1] /\ 1 \in DOMAIN s
    BY <1>7, <1>8, <2>1 DEF FirstOr
  <2>3. cursor # NoNode
    BY <1>7, <2>2, ChildListAssumption DEF Node
  <2>4. CASE i = 1
    BY <2>1, <2>2, <2>3, <2>4
  <2>5. CASE i # 1
    <3>1. 1 < i
      BY <1>7, <2>1, <2>5
    <3> QED
      BY <2>1, <2>2, <2>3, <3>1 DEF Before
  <2> QED
    BY <2>4, <2>5
<1>15. WalkKeepsOrder
  <2>1. DOMAIN handed = {}
    BY <1>8
  <2> QED
    BY <2>1 DEF WalkKeepsOrder
<1> QED
  BY <1>6, <1>8, <1>9, <1>10, <1>11, <1>12, <1>13, <1>14, <1>15 DEF WalkInv, Owed, Ahead, s

(* An edit that leaves the cursor and the owed children in their places.   *)
LEMMA EditKeeps ==
  ASSUME WalkInv, NEW M, kids' \in Unmoved(kids, M), cursor \notin M,
         \A x \in Owed : x \notin M,
         UNCHANGED <<cursor, ended, handed, first>>
  PROVE  WalkInv'
<1>1. Source \in Parent /\ Owed' = Owed
  BY ElemOrText DEF Owed
<1>2. kids' \in Sound
  BY UnmovedSound
<1>3. /\ \A x : x \notin M => (x \in ToSet(kids'[Source]) <=> x \in ToSet(kids[Source]))
      /\ \A x, y : x \notin M /\ y \notin M /\ Before(kids[Source], x, y)
                     => Before(kids'[Source], x, y)
  BY <1>1 DEF Unmoved
<1>4. (cursor = NoNode \/ cursor \in ToSet(kids[Source]))'
  BY <1>3 DEF WalkInv
<1>5. ASSUME NEW x \in Owed
      PROVE  /\ ~ended /\ cursor # NoNode /\ x \in ToSet(kids'[Source])
             /\ x = cursor \/ Before(kids'[Source], cursor, x)
  BY <1>3 DEF WalkInv, Ahead
<1>6. ASSUME NEW j \in DOMAIN first, NEW k \in DOMAIN first,
             j < k, first[j] \in Owed, first[k] \in Owed
      PROVE  Before(kids'[Source], first[j], first[k])
  BY <1>3, <1>6 DEF WalkInv
<1>7. WalkKeepsOrder'
  BY DEF WalkInv, WalkKeepsOrder
<1>8. (first \in Seq(Elem) /\ handed \in Seq(Elem))'
  BY DEF WalkInv
<1>9. \A x \in Owed' : (~ended /\ cursor # NoNode /\ Ahead(x))'
  BY <1>1, <1>5 DEF Ahead
<1>10. (\A j, k \in DOMAIN first :
         j < k /\ first[j] \in Owed /\ first[k] \in Owed =>
           Before(kids[Source], first[j], first[k]))'
  BY <1>1, <1>6
<1> QED
  BY <1>2, <1>4, <1>7, <1>8, <1>9, <1>10 DEF WalkInv

LEMMA BodyKeeps ==
  ASSUME WalkInv, Body, ~CarriesCursor
  PROVE  WalkInv'
<1>1. kids \in Sound /\ \A x \in Owed : x \in ToSet(kids[Source]) /\ x \in Elem
  BY Ranged DEF WalkInv, Ahead, Owed
<1>2. ASSUME NEW e \in Known \cup New, Edit(e), kids' \in Unmoved(kids, Moving(kids, e))
      PROVE  WalkInv'
  <2>1. cursor \notin Moving(kids, e)
    BY <1>2 DEF Edit, CursorGoesWith, Moving
  <2>2. ASSUME NEW x \in Owed PROVE x \notin Moving(kids, e)
    <3>1. x \notin ToSet(TailRun(kids, e))
      BY <1>1, TailRunIs, ElemOrText
    <3>2. x # e
      <4>1. CASE e \in Known
        BY <4>1 DEF Known, Owed
      <4>2. CASE e \in New
        <5>1. Homes(kids, x) # {}
          BY <1>1, ElemOrText DEF Homes
        <5> QED
          BY <4>2, <5>1 DEF New
      <4> QED
        BY <4>1, <4>2
    <3> QED
      BY <3>1, <3>2 DEF Moving
  <2> QED
    BY <1>2, <2>1, <2>2, EditKeeps DEF Edit
<1>3. \A e \in Known \cup New : e \in Elem
  BY Ranged DEF WalkInv, Known, New
<1>4. ASSUME NEW e \in Known \cup New, Edit(e), NEW p \in {Source, Dest}, Append_(p, e)
      PROVE  WalkInv'
  BY <1>1, <1>2, <1>3, <1>4, ElemOrText, AppendToMoves DEF Append_
<1>5. ASSUME NEW e \in Known \cup New, Edit(e), NEW i, Insert(Source, i, e)
      PROVE  WalkInv'
  BY <1>1, <1>2, <1>3, <1>5, ElemOrText, InsertInMoves DEF Insert
<1>6. ASSUME NEW e \in Known, Edit(e), Remove_(Source, e)
      PROVE  WalkInv'
  BY <1>1, <1>2, <1>6, ExtractMoves DEF Remove_
<1>7. ASSUME NEW e \in Known \cup New, Edit(e), NEW self \in Known, AddNext(Source, self, e)
      PROVE  WalkInv'
  BY <1>1, <1>2, <1>3, <1>7, ElemOrText, PutsMove DEF AddNext
<1>8. ASSUME NEW e \in Known, Edit(e), DeleteTail(e)
      PROVE  WalkInv'
  <2>1. kids' \in Unmoved(kids, ToSet(TailRun(kids, e)))
    BY <1>1, <1>8, DropTailMoves DEF DeleteTail
  <2>2. ToSet(TailRun(kids, e)) \subseteq Moving(kids, e)
    BY DEF Moving
  <2>3. kids' \in Unmoved(kids, Moving(kids, e))
    BY <2>1, <2>2, UnmovedFewer
  <2> QED
    BY <1>2, <1>8, <2>3
<1> QED
  BY <1>4, <1>5, <1>6, <1>7, <1>8 DEF Body

(* A call of __next__ that ends the walk: nothing was owed any more.       *)
LEMMA StepEnds ==
  ASSUME WalkInv, Step, Exhausts(ChainFrom(kids, cursor))
  PROVE  WalkInv'
<1> DEFINE rest == ChainFrom(kids, cursor)
           s == kids[Source]
<1>1. /\ handed' = handed /\ cursor' = NoNode
      /\ UNCHANGED <<kids, first>>
  <2>1. handed \in Seq(Elem)
    BY DEF WalkInv
  <2> QED
    BY <2>1 DEF Step, Exhausts
<1>2. Owed = {}
  <2> SUFFICES ASSUME NEW x \in Owed PROVE FALSE
    OBVIOUS
  <2>1. cursor # NoNode /\ cursor \in ToSet(s) /\ Ahead(x) /\ kids \in Sound
    BY DEF WalkInv
  <2>2. PICK a \in DOMAIN s : s[a] = cursor /\ rest = SubSeq(s, a, Len(s))
    BY <2>1, RestIs
  <2>3. /\ s \in Seq(Node) /\ Len(s) \in Nat /\ DOMAIN s = 1..Len(s)
        /\ \A i, j \in DOMAIN s : s[i] = s[j] => i = j
    BY <2>1, SoundChain, ElemOrText
  <2>4. PICK b \in DOMAIN s : s[b] = x /\ a <= b
    <3>1. CASE x = cursor
      BY <2>2, <2>3, <3>1
    <3>2. CASE Before(s, cursor, x)
      <4>1. PICK i \in DOMAIN s, j \in DOMAIN s : i < j /\ s[i] = cursor /\ s[j] = x
        BY <3>2 DEF Before
      <4>2. i = a
        BY <2>2, <2>3, <4>1
      <4> QED
        BY <2>3, <4>1, <4>2
    <3> QED
      BY <2>1, <3>1, <3>2 DEF Ahead
  <2> HIDE DEF s, rest
  <2>5. PICK h : h = b - a + 1
    OBVIOUS
  <2>6. h \in DOMAIN rest /\ rest[h] = x
    BY <2>2, <2>3, <2>4, <2>5
  <2>7. rest[h] \in Text
    BY <2>6 DEF Exhausts, rest
  <2>8. x \in Elem
    BY Ranged DEF WalkInv, Owed
  <2> QED
    BY <2>6, <2>7, <2>8, ElemOrText
<1>3. WalkKeepsOrder'
  BY <1>1 DEF WalkInv, WalkKeepsOrder
<1>4. Owed' = {}
  BY <1>1, <1>2 DEF Owed
<1>5. (kids \in Sound /\ first \in Seq(Elem) /\ handed \in Seq(Elem))'
  BY <1>1 DEF WalkInv
<1>6. (\A x \in Owed : ~ended /\ cursor # NoNode /\ Ahead(x))'
  BY <1>4
<1>7. (\A j, k \in DOMAIN first :
         j < k /\ first[j] \in Owed /\ first[k] \in Owed =>
           Before(kids[Source], first[j], first[k]))'
  BY <1>4
<1> QED
  BY <1>1, <1>3, <1>5, <1>6, <1>7 DEF WalkInv

(* A call of __next__ that hands out a child.                              *)
LEMMA StepHands ==
  ASSUME WalkInv, Step, NEW m, HandsOut(ChainFrom(kids, cursor), m)
  PROVE  WalkInv'
<1> DEFINE rest == ChainFrom(kids, cursor)
           s == kids[Source]
           c == rest[m]
<1>1. kids \in Sound /\ first \in Seq(Elem) /\ handed \in Seq(Elem)
  BY DEF WalkInv
<1>2. /\ s \in Seq(Node) /\ Len(s) \in Nat /\ DOMAIN s = 1..Len(s)
      /\ \A i, j \in DOMAIN s : s[i] = s[j] => i = j
      /\ \A i \in DOMAIN s : s[i] \in Node
  BY <1>1, SoundChain, ElemOrText
<1>3. cursor \in ToSet(s)
  <2>1. CASE cursor = NoNode
    <3>1. rest = <<>>
      BY <2>1 DEF ChainFrom
    <3> QED
      BY <3>1 DEF HandsOut
  <2> QED
    BY <2>1 DEF WalkInv
<1>4. PICK a \in DOMAIN s : s[a] = cursor /\ rest = SubSeq(s, a, Len(s))
  BY <1>1, <1>3, RestIs
<1>5. \A x \in ToSet(first) : x \in Elem /\ x \notin Text
  BY <1>1, Ranged, ElemOrText
<1>6. /\ m \in DOMAIN rest /\ c \notin Text
      /\ \A h \in DOMAIN rest : h < m => rest[h] \in Text
      /\ Found(rest) = <<c>>
      /\ NextCursor(rest) = IF m = Len(rest) THEN NoNode ELSE rest[m + 1]
  BY DEF HandsOut
<1>7. /\ handed' = Append(handed, c)
      /\ cursor' = IF m = Len(rest) THEN NoNode ELSE rest[m + 1]
      /\ ended' = FALSE
      /\ UNCHANGED <<kids, first>>
  <2>1. handed \o <<c>> = Append(handed, c) /\ <<c>> # <<>>
    BY <1>1
  <2> QED
    BY <1>6, <2>1 DEF Step
<1>8. ASSUME NEW x \in Owed PROVE Ahead(x)
  BY DEF WalkInv
<1> HIDE DEF s
<1>9. /\ rest \in Seq(Node) /\ Len(rest) = Len(s) - a + 1 /\ DOMAIN rest = 1..(Len(s) - a + 1)
      /\ \A h \in DOMAIN rest : rest[h] = s[a + h - 1]
  BY <1>2, <1>4
<1> HIDE DEF rest
<1>10. m \in Nat /\ m >= 1 /\ a \in Nat /\ a + m - 1 \in DOMAIN s /\ c = s[a + m - 1]
  BY <1>2, <1>6, <1>9
<1>11. c \in Elem
  BY <1>2, <1>6, <1>10, ElemOrText
\* An owed child stands at or after the one handed out.
<1>12. ASSUME NEW x \in Owed
       PROVE  \E b \in DOMAIN s : s[b] = x /\ a + m - 1 <= b
  <2>1. PICK b \in DOMAIN s : s[b] = x /\ a <= b
    <3>1. CASE x = cursor
      BY <1>4, <1>10, <3>1
    <3>2. CASE Before(s, cursor, x)
      <4>1. PICK i \in DOMAIN s, j \in DOMAIN s : i < j /\ s[i] = cursor /\ s[j] = x
        BY <3>2 DEF Before
      <4>2. i = a
        BY <1>2, <1>4, <4>1
      <4> QED
        BY <1>2, <4>1, <4>2
    <3> QED
      BY <1>8, <3>1, <3>2 DEF Ahead, s
  <2>2. PICK h : h = b - a + 1
    OBVIOUS
  <2>3. h \in DOMAIN rest /\ h \in Int /\ rest[h] = x /\ b = a + h - 1
    BY <1>2, <1>9, <1>10, <2>1, <2>2
  <2>4. x \notin Text
    BY <1>5 DEF Owed
  <2>5. ~(h < m)
    BY <1>6, <2>3, <2>4
  <2> QED
    BY <1>10, <2>1, <2>3, <2>5
<1> HIDE DEF c
\* ... and at or after the new cursor, unless it is the one handed out.
<1>13. ASSUME NEW x \in Owed, x # c
       PROVE  cursor' # NoNode /\ x \in ToSet(s) /\ (x = cursor' \/ Before(s, cursor', x))
  <2>1. PICK b \in DOMAIN s : s[b] = x /\ a + m - 1 <= b
    BY <1>12
  <2>2. b # a + m - 1
    BY <1>10, <1>13, <2>1
  <2>3. a + m <= b /\ b \in Int /\ b <= Len(s)
    BY <1>2, <1>10, <2>1, <2>2
  <2>4. m + 1 \in DOMAIN rest /\ m # Len(rest) /\ a + (m + 1) - 1 = a + m /\ a + m \in DOMAIN s
    BY <1>2, <1>9, <1>10, <2>3
  <2>5. cursor' = s[a + m]
    <3>1. rest[m + 1] = s[a + (m + 1) - 1]
      BY <1>9, <2>4
    <3> QED
      BY <1>7, <2>4, <3>1
  <2>6. cursor' \in Node
    BY <1>2, <2>4, <2>5
  <2>7. cursor' # NoNode
    BY <2>6, ChildListAssumption DEF Node
  <2>8. CASE b = a + m
    BY <2>1, <2>5, <2>7, <2>8 DEF ToSet
  <2>9. CASE b # a + m
    <3>1. a + m < b
      BY <1>10, <2>3, <2>9
    <3>2. Before(s, cursor', x)
      BY <2>1, <2>4, <2>5, <3>1 DEF Before
    <3> QED
      BY <2>1, <2>7, <3>2 DEF ToSet
  <2> QED
    BY <2>8, <2>9
<1>14. /\ handed' \in Seq(Elem) /\ DOMAIN handed = 1..Len(handed) /\ Len(handed) \in Nat
       /\ DOMAIN handed' = 1..(Len(handed) + 1)
       /\ \A i \in 1..Len(handed) : handed'[i] = handed[i]
       /\ handed'[Len(handed) + 1] = c
  BY <1>1, <1>7, <1>11, Pushed
<1>15. ToSet(handed') = ToSet(handed) \cup {c}
  <2>1. \A x : (\E i \in DOMAIN handed' : handed'[i] = x)
                 <=> (x = c \/ \E i \in DOMAIN handed : handed[i] = x)
    BY <1>14
  <2> QED
    BY <2>1 DEF ToSet
<1>16. Owed' = Owed \ {c}
  BY <1>7, <1>15 DEF Owed
\* The child handed out now was owed first, or had been handed out before.
<1>17. ASSUME NEW j \in DOMAIN first, NEW k \in DOMAIN first, j < k, c = first[k]
       PROVE  \E h \in 1..Len(handed) : handed[h] = first[j]
  <2> SUFFICES ASSUME first[j] \in Owed PROVE FALSE
    <3>1. first[j] \in ToSet(first)
      BY DEF ToSet
    <3>2. first[j] \in ToSet(handed) => \E h \in DOMAIN handed : handed[h] = first[j]
      BY DEF ToSet
    <3> QED
      BY <1>14, <3>1, <3>2 DEF Owed
  <2>1. CASE c \in ToSet(handed)
    <3>1. PICK i \in DOMAIN handed : handed[i] = c
      BY <2>1 DEF ToSet
    <3>2. PICK h \in 1..(i - 1) : handed[h] = first[j]
      BY <1>17, <3>1 DEF WalkInv, WalkKeepsOrder
    <3>3. h \in DOMAIN handed
      BY <1>14, <3>1, <3>2
    <3> QED
      BY <3>2, <3>3 DEF Owed, ToSet
  <2>2. CASE c \notin ToSet(handed)
    <3>1. first[k] \in Owed
      BY <1>17, <2>2 DEF Owed, ToSet
    <3>2. Before(s, first[j], c)
      BY <1>17, <3>1 DEF WalkInv, s
    <3>3. PICK u \in DOMAIN s, v \in DOMAIN s : u < v /\ s[u] = first[j] /\ s[v] = c
      BY <3>2 DEF Before
    <3>4. v = a + m - 1
      BY <1>2, <1>10, <3>3
    <3>5. PICK b \in DOMAIN s : s[b] = first[j] /\ a + m - 1 <= b
      BY <1>12
    <3>6. b = u
      BY <1>2, <3>3, <3>5
    <3> QED
      BY <1>2, <3>3, <3>4, <3>5, <3>6
  <2> QED
    BY <2>1, <2>2
<1>18. WalkKeepsOrder'
  <2> SUFFICES ASSUME NEW i \in DOMAIN handed', NEW j \in DOMAIN first, NEW k \in DOMAIN first,
                      j < k, handed'[i] = first[k]
               PROVE  \E h \in 1..(i - 1) : handed'[h] = first[j]
    BY <1>7 DEF WalkKeepsOrder
  <2>1. CASE i = Len(handed) + 1
    <3>1. PICK h \in 1..Len(handed) : handed[h] = first[j]
      BY <1>14, <1>17, <2>1
    <3> QED
      BY <1>14, <2>1, <3>1
  <2>2. CASE i # Len(handed) + 1
    <3>1. i \in DOMAIN handed /\ handed[i] = first[k] /\ i \in 1..Len(handed)
      BY <1>14, <2>2
    <3>2. PICK h \in 1..(i - 1) : handed[h] = first[j]
      BY <3>1 DEF WalkInv, WalkKeepsOrder
    <3>3. h \in 1..Len(handed)
      BY <1>14, <3>1, <3>2
    <3> QED
      BY <1>14, <3>2, <3>3
  <2> QED
    BY <2>1, <2>2
<1>19. (cursor = NoNode \/ cursor \in ToSet(kids[Source]))'
  <2>1. CASE m = Len(rest)
    BY <1>7, <2>1
  <2>2. CASE m # Len(rest)
    <3>1. m + 1 \in DOMAIN rest
      BY <1>2, <1>6, <1>9, <1>10, <2>2
    <3>2. PICK u : u = a + (m + 1) - 1
      OBVIOUS
    <3>3. u \in DOMAIN s
      BY <1>2, <1>9, <1>10, <3>1, <3>2
    <3>4. rest[m + 1] = s[u]
      BY <1>9, <3>1, <3>2
    <3> QED
      BY <1>7, <2>2, <3>3, <3>4 DEF ToSet, s
  <2> QED
    BY <2>1, <2>2
<1>20. \A x \in Owed' : (~ended /\ cursor # NoNode /\ Ahead(x))'
  BY <1>7, <1>13, <1>16 DEF Ahead, s
<1>21. (\A j, k \in DOMAIN first :
         j < k /\ first[j] \in Owed /\ first[k] \in Owed =>
           Before(kids[Source], first[j], first[k]))'
  <2> SUFFICES ASSUME NEW j \in DOMAIN first, NEW k \in DOMAIN first,
                      j < k, first[j] \in Owed, first[k] \in Owed
               PROVE  Before(kids[Source], first[j], first[k])
    BY <1>7, <1>16
  <2> QED
    BY DEF WalkInv
<1>22. (kids \in Sound /\ first \in Seq(Elem) /\ handed \in Seq(Elem))'
  BY <1>1, <1>7, <1>14
<1> QED
  BY <1>18, <1>19, <1>20, <1>21, <1>22 DEF WalkInv

LEMMA StepKeeps ==
  ASSUME WalkInv, Step
  PROVE  WalkInv'
<1>1. ChainFrom(kids, cursor) \in Seq(Node)
  <2>1. CASE cursor = NoNode
    <3>1. ChainFrom(kids, cursor) = <<>>
      BY <2>1 DEF ChainFrom
    <3> QED
      BY <3>1
  <2>2. CASE cursor # NoNode
    <3> DEFINE s == kids[Source]
    <3>1. kids \in Sound /\ cursor \in ToSet(s)
      BY <2>2 DEF WalkInv
    <3>2. s \in Seq(Node) /\ DOMAIN s = 1..Len(s) /\ Len(s) \in Nat
      BY <3>1, SoundChain, ElemOrText
    <3>3. PICK a \in DOMAIN s : ChainFrom(kids, cursor) = SubSeq(s, a, Len(s))
      BY <3>1, RestIs
    <3> HIDE DEF s
    <3>4. a \in Nat \ {0} /\ Len(s) <= Len(s)
      BY <3>2
    <3>5. SubSeq(s, a, Len(s)) \in Seq(Node)
      BY <3>2, <3>4, Sliced
    <3> QED
      BY <3>3, <3>5
  <2> QED
    BY <2>1, <2>2
<1> QED
  BY <1>1, StepIs, StepEnds, StepHands

-----------------------------------------------------------------------------
LEMMA WalkInvariance ==
  ASSUME ~CarriesCursor
  PROVE  WalkSpec => []WalkInv
<1>1. Begin => WalkInv
  BY BeginInv
<1>2. WalkInv /\ [Step \/ Body]_vars => WalkInv'
  <2> SUFFICES ASSUME WalkInv, [Step \/ Body]_vars PROVE WalkInv'
    OBVIOUS
  <2>1. CASE Step
    BY <2>1, StepKeeps
  <2>2. CASE Body
    BY <2>2, BodyKeeps
  <2>3. CASE UNCHANGED vars
    BY <2>3 DEF vars, WalkInv, Owed, Ahead, WalkKeepsOrder
  <2> QED
    BY <2>1, <2>2, <2>3
<1> QED
  BY <1>1, <1>2, PTL DEF WalkSpec

(* `for child in element` meets the children it began with in their order, *)
(* whatever the loop body does with those it was handed, as long as it     *)
(* leaves the remembered node where it is.                                 *)
THEOREM WalksInOrder ==
  ASSUME ~CarriesCursor
  PROVE  WalkSpec => []WalkKeepsOrder
<1>1. WalkInv => WalkKeepsOrder
  BY DEF WalkInv
<1> QED
  BY <1>1, WalkInvariance, PTL

(* ... and when StopIteration is raised it has met them all.               *)
THEOREM WalksWhole ==
  ASSUME ~CarriesCursor
  PROVE  WalkSpec => []WalkMissesNothing
<1>1. WalkInv => WalkMissesNothing
  BY DEF WalkInv, WalkMissesNothing, Owed
<1> QED
  BY <1>1, WalkInvariance, PTL
=============================================================================
