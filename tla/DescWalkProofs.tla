--------------------------- MODULE DescWalkProofs ---------------------------
(***************************************************************************)
(* Proofs about DescWalk.                                                  *)
(***************************************************************************)
EXTENDS DescWalk, LoopLemmas, FiniteSetTheorems

-----------------------------------------------------------------------------
(* Recursion: a function whose value at d depends on its values below d.   *)

(* Going down from below[d] to below[d] ends.                              *)
Descends(D, below) ==
  /\ below \in [D -> SUBSET D]
  /\ \A S \in SUBSET D : S # {} => \E d \in S : below[d] \cap S = {}

Local(D, X, below, step) ==
  /\ step \in [[D -> X] -> [D -> X]]
  /\ \A f, g \in [D -> X], d \in D :
       (\A e \in below[d] : f[e] = g[e]) => step[f][d] = step[g][d]

(* h is right on E, which what is right there depends on does not leave.   *)
RightOn(E, h, D, X, below, step) ==
  /\ E \in SUBSET D /\ \A d \in E : below[d] \subseteq E
  /\ h \in [D -> X] /\ \A d \in E : h[d] = step[h][d]

LEMMA RightOnes ==
  ASSUME NEW D, NEW X, NEW below, Descends(D, below), NEW step, Local(D, X, below, step),
         NEW E, NEW h, RightOn(E, h, D, X, below, step),
         NEW F, NEW k, RightOn(F, k, D, X, below, step)
  PROVE  \A d \in E \cap F : h[d] = k[d]
<1> DEFINE S == {d \in E \cap F : h[d] # k[d]}
<1>1. SUFFICES ASSUME S # {} PROVE FALSE
  OBVIOUS
<1>2. S \in SUBSET D
  BY DEF RightOn
<1>3. PICK d \in S : below[d] \cap S = {}
  BY <1>1, <1>2 DEF Descends
<1>4. below[d] \subseteq E \cap F
  BY <1>3 DEF RightOn
<1>5. \A e \in below[d] : h[e] = k[e]
  BY <1>3, <1>4
<1>6. step[h][d] = step[k][d]
  BY <1>2, <1>3, <1>5 DEF Local, RightOn
<1> QED
  BY <1>3, <1>6 DEF RightOn

LEMMA RecursionRuns ==
  ASSUME NEW D, NEW X, NEW x0 \in X, NEW below, Descends(D, below),
         NEW step, Local(D, X, below, step)
  PROVE  \E f \in [D -> X] : f = step[f]
<1> DEFINE Right(E, h) == RightOn(E, h, D, X, below, step)
           G == {d \in D : \E E, h : Right(E, h) /\ d \in E}
           Value(d, v) == \E E, h : Right(E, h) /\ d \in E /\ v = h[d]
           H == [d \in D |-> IF d \in G THEN CHOOSE v : Value(d, v) ELSE x0]
<1>1. ASSUME NEW E, NEW h, Right(E, h), NEW d \in E PROVE d \in G /\ H[d] = h[d]
  <2>1. d \in D /\ d \in G
    BY <1>1 DEF RightOn
  <2>2. Value(d, h[d])
    BY <1>1
  <2>3. ASSUME NEW v, Value(d, v) PROVE v = h[d]
    <3>1. PICK F, k : Right(F, k) /\ d \in F /\ v = k[d]
      BY <2>3
    <3> QED
      BY <1>1, <3>1, RightOnes
  <2>4. (CHOOSE v : Value(d, v)) = h[d]
    BY <2>2, <2>3
  <2> QED
    BY <2>1, <2>4
<1>2. H \in [D -> X]
  <2> SUFFICES ASSUME NEW d \in D PROVE H[d] \in X
    OBVIOUS
  <2>1. CASE d \in G
    <3>1. PICK E, h : Right(E, h) /\ d \in E
      BY <2>1
    <3> HIDE DEF H, G, Right
    <3>2. H[d] = h[d]
      BY <1>1, <3>1, Zenon
    <3> QED
      BY <3>1, <3>2 DEF Right, RightOn
  <2>2. CASE d \notin G
    BY <2>2
  <2> QED
    BY <2>1, <2>2
<1> HIDE DEF H
<1>3. Right(G, H)
  <2>1. ASSUME NEW d \in G PROVE below[d] \subseteq G /\ H[d] = step[H][d]
    <3>1. PICK E, h : Right(E, h) /\ d \in E
      BY <2>1
    <3>2. below[d] \subseteq E /\ h[d] = step[h][d] /\ h \in [D -> X] /\ d \in D
      BY <3>1 DEF RightOn
    <3>3. \A e \in E : e \in G /\ H[e] = h[e]
      BY <1>1, <3>1
    <3>4. step[H][d] = step[h][d]
      BY <1>2, <3>2, <3>3 DEF Local
    <3> QED
      BY <3>1, <3>2, <3>3, <3>4
  <2> QED
    BY <1>2, <2>1 DEF RightOn
<1>4. G = D
  <2> DEFINE S == D \ G
  <2>1. SUFFICES ASSUME S # {} PROVE FALSE
    OBVIOUS
  <2>2. PICK d \in S : below[d] \cap S = {}
    BY <2>1 DEF Descends
  <2>3. below[d] \subseteq G
    BY <2>2 DEF Descends
  <2> DEFINE v == step[H][d]
             k == [H EXCEPT ![d] = v]
             E == G \cup {d}
  <2>4. v \in X
    BY <1>2 DEF Local
  <2>5. k \in [D -> X] /\ k[d] = v /\ \A e \in G : k[e] = H[e]
    BY <1>2, <2>4
  <2> HIDE DEF k, v
  <2>6. ASSUME NEW e \in E PROVE below[e] \subseteq G /\ k[e] = step[k][e]
    <3>1. below[e] \subseteq G
      BY <1>3, <2>3 DEF RightOn
    <3>2. step[k][e] = step[H][e]
      BY <1>2, <2>5, <3>1 DEF Local
    <3>3. k[e] = step[H][e]
      <4>1. CASE e = d
        BY <2>5, <4>1 DEF v
      <4>2. CASE e \in G
        BY <1>3, <2>5, <4>2 DEF RightOn
      <4> QED
        BY <4>1, <4>2
    <3> QED
      BY <3>1, <3>2, <3>3
  <2>7. Right(E, k)
    BY <2>5, <2>6 DEF RightOn
  <2>8. d \in G
    BY <2>7
  <2> QED
    BY <2>8
<1>5. H = step[H]
  <2>1. step[H] \in [D -> X]
    BY <1>2 DEF Local
  <2>2. \A d \in D : H[d] = step[H][d]
    <3> HIDE DEF G
    <3> QED
      BY <1>3, <1>4 DEF RightOn
  <2> QED
    BY <1>2, <2>1, <2>2
<1> QED
  BY <1>2, <1>5

-----------------------------------------------------------------------------
(* The tree in document order.                                             *)

(* f is a function from N to X; the provers need not look into it.         *)
Maps(f, N, X) == f \in [N -> X]

(* The values of f along s.                                                *)
Each(f, s) == [i \in 1 .. Len(s) |-> f[s[i]]]

LEMMA EachIs ==
  ASSUME NEW N, NEW X, NEW f, Maps(f, N, X), NEW s \in Seq(N)
  PROVE  /\ Each(f, s) \in Seq(X) /\ Len(Each(f, s)) = Len(s)
         /\ \A i \in 1 .. Len(s) : Each(f, s)[i] = f[s[i]]
<1>1. Len(s) \in Nat /\ \A i \in 1 .. Len(s) : s[i] \in N
  OBVIOUS
<1>2. Each(f, s) \in [1 .. Len(s) -> X]
  BY <1>1 DEF Each, Maps
<1>3. Each(f, s) \in Seq(X) /\ Len(Each(f, s)) = Len(s)
  BY <1>1, <1>2
<1> QED
  BY <1>1, <1>3 DEF Each

LEMMA EachEmpty ==
  ASSUME NEW f
  PROVE  Each(f, <<>>) = <<>>
BY DEF Each

LEMMA EachOne ==
  ASSUME NEW N, NEW X, NEW f, Maps(f, N, X), NEW x \in N
  PROVE  Each(f, <<x>>) = <<f[x]>>
<1> DEFINE s == <<x>>
           u == <<f[x]>>
<1>1. s \in Seq(N) /\ Len(s) = 1 /\ s[1] = x
  OBVIOUS
<1>2. u \in Seq(X) /\ Len(u) = 1 /\ u[1] = f[x]
  BY DEF Maps
<1> HIDE DEF s, u
<1>3. Each(f, s) \in Seq(X) /\ Len(Each(f, s)) = 1 /\ Each(f, s)[1] = f[x]
  BY <1>1, EachIs
<1>4. Each(f, s) = u
  BY <1>2, <1>3, SameSeq
<1> QED
  BY <1>4 DEF s, u

LEMMA EachJoin ==
  ASSUME NEW N, NEW X, NEW f, Maps(f, N, X), NEW a \in Seq(N), NEW b \in Seq(N)
  PROVE  Each(f, a \o b) = Each(f, a) \o Each(f, b)
<1> DEFINE c == a \o b
           u == Each(f, a)
           v == Each(f, b)
           w == Each(f, c)
           z == u \o v
<1>1. /\ c \in Seq(N) /\ Len(c) = Len(a) + Len(b) /\ Len(a) \in Nat /\ Len(b) \in Nat
      /\ \A i \in 1 .. Len(a) : c[i] = a[i]
      /\ \A i \in 1 .. Len(b) : c[Len(a) + i] = b[i]
  BY JoinIs
<1> HIDE DEF c
<1>2. u \in Seq(X) /\ Len(u) = Len(a) /\ \A i \in 1 .. Len(a) : u[i] = f[a[i]]
  BY EachIs
<1>3. v \in Seq(X) /\ Len(v) = Len(b) /\ \A i \in 1 .. Len(b) : v[i] = f[b[i]]
  BY EachIs
<1>4. w \in Seq(X) /\ Len(w) = Len(c) /\ \A i \in 1 .. Len(c) : w[i] = f[c[i]]
  <2>1. c \in Seq(N)
    BY <1>1
  <2> QED
    BY <2>1, EachIs
<1> HIDE DEF u, v, w
<1>5. /\ z \in Seq(X) /\ Len(z) = Len(a) + Len(b)
      /\ \A i \in 1 .. Len(a) : z[i] = u[i]
      /\ \A i \in 1 .. Len(b) : z[Len(a) + i] = v[i]
  <2>1. u \in Seq(X) /\ v \in Seq(X)
    BY <1>2, <1>3
  <2>2. /\ z \in Seq(X) /\ Len(z) = Len(u) + Len(v)
        /\ \A i \in 1 .. Len(u) : z[i] = u[i]
        /\ \A i \in 1 .. Len(v) : z[Len(u) + i] = v[i]
    BY <2>1, JoinIs
  <2> HIDE DEF z
  <2> QED
    BY <1>2, <1>3, <2>2
<1> HIDE DEF z
<1>6. ASSUME NEW i \in 1 .. Len(c) PROVE w[i] = z[i]
  <2>1. CASE i <= Len(a)
    BY <1>1, <1>2, <1>4, <1>5, <2>1
  <2>2. CASE i > Len(a)
    <3>1. i - Len(a) \in 1 .. Len(b) /\ Len(a) + (i - Len(a)) = i
      BY <1>1, <2>2
    <3>2. c[i] = b[i - Len(a)] /\ z[i] = v[i - Len(a)]
      BY <1>1, <1>5, <3>1
    <3> QED
      BY <1>3, <1>4, <3>1, <3>2
  <2> QED
    BY <1>1, <2>1, <2>2
<1>7. w = z
  BY <1>1, <1>4, <1>5, <1>6, SameSeq
<1> QED
  BY <1>7 DEF w, z, c, u, v

(* The lists of f along s, one after the other.                            *)
Along(f, s) == FlattenSeq(Each(f, s))

LEMMA AlongIs ==
  ASSUME NEW N, NEW X, NEW f, Maps(f, N, Seq(X)), NEW s \in Seq(N)
  PROVE  Along(f, s) \in Seq(X)
<1>1. Each(f, s) \in Seq(Seq(X))
  BY EachIs
<1>2. <<>> \in Seq(Seq(X))
  BY EmptyIs
<1> HIDE DEF Each
<1> QED
  BY <1>1, <1>2, FlattenJoin DEF Along

LEMMA AlongJoin ==
  ASSUME NEW N, NEW X, NEW f, Maps(f, N, Seq(X)), NEW a \in Seq(N), NEW b \in Seq(N)
  PROVE  Along(f, a \o b) = Along(f, a) \o Along(f, b)
<1> DEFINE u == Each(f, a)
           v == Each(f, b)
<1>1. u \in Seq(Seq(X)) /\ v \in Seq(Seq(X))
  BY EachIs
<1>2. Each(f, a \o b) = u \o v
  BY EachJoin
<1> HIDE DEF u, v
<1>3. FlattenSeq(u \o v) = FlattenSeq(u) \o FlattenSeq(v)
  BY <1>1, FlattenJoin
<1> QED
  BY <1>2, <1>3, Zenon DEF Along, u, v

LEMMA AlongOne ==
  ASSUME NEW N, NEW X, NEW f, Maps(f, N, Seq(X)), NEW x \in N
  PROVE  Along(f, <<x>>) = f[x]
<1>1. Each(f, <<x>>) = <<f[x]>>
  BY EachOne
<1>2. f[x] \in Seq(X)
  BY DEF Maps
<1>3. FlattenSeq(<<f[x]>>) = f[x]
  BY <1>2, FlattenOne
<1> QED
  BY <1>1, <1>3, Zenon DEF Along

LEMMA AlongEmpty ==
  ASSUME NEW f
  PROVE  Along(f, <<>>) = <<>>
BY EachEmpty, FlattenEmpty DEF Along

(* Along depends on the values along the list only.                        *)
LEMMA AlongSame ==
  ASSUME NEW N, NEW s \in Seq(N), NEW f, NEW g, \A x \in ToSet(s) : f[x] = g[x]
  PROVE  Along(f, s) = Along(g, s)
<1>1. \A i \in 1 .. Len(s) : s[i] \in ToSet(s)
  BY DEF ToSet
<1>2. Each(f, s) = Each(g, s)
  BY <1>1 DEF Each
<1> QED
  BY <1>2 DEF Along

Below(t) == [n \in Nodes(t) |-> ToSet(t.kids[n])]

(* All nodes in document order, for each node.                             *)
Pre(t) == [n \in Nodes(t) |-> PreOrder(t, n)]

Listing(t, s) == Along(Pre(t), s)

LEMMA TreeIs ==
  ASSUME NEW t, IsTree(t)
  PROVE  /\ Descends(Nodes(t), Below(t))
         /\ \A n \in Nodes(t) : t.kids[n] \in Seq(Nodes(t)) /\ ToSet(t.kids[n]) \subseteq Nodes(t)
<1>1. \A n \in Nodes(t) : t.kids[n] \in Seq(Nodes(t))
  BY DEF IsTree
<1>2. \A n \in Nodes(t) : ToSet(t.kids[n]) \subseteq Nodes(t)
  BY <1>1, Ranged
<1>3. Below(t) \in [Nodes(t) -> SUBSET Nodes(t)]
  BY <1>2 DEF Below
<1>4. \A S \in SUBSET Nodes(t) : S # {} => \E n \in S : ToSet(t.kids[n]) \cap S = {}
  BY Zenon DEF IsTree
<1>5. \A S \in SUBSET Nodes(t) : S # {} => \E n \in S : Below(t)[n] \cap S = {}
  BY <1>4 DEF Below
<1> QED
  BY <1>1, <1>2, <1>3, <1>5 DEF Descends

(* What holds of a node if it holds of its children holds of all nodes.    *)
LEMMA TreeInduction ==
  ASSUME NEW t, IsTree(t), NEW G,
         \A n \in Nodes(t) : ToSet(t.kids[n]) \subseteq G => n \in G
  PROVE  Nodes(t) \subseteq G
<1> DEFINE S == Nodes(t) \ G
<1>1. SUFFICES ASSUME S # {} PROVE FALSE
  OBVIOUS
<1>2. PICK n \in S : Below(t)[n] \cap S = {}
  BY <1>1, TreeIs DEF Descends
<1>3. ToSet(t.kids[n]) \subseteq G
  BY <1>2, TreeIs DEF Below
<1> QED
  BY <1>2, <1>3

(* The equation that defines PreOrder.                                     *)
PreStep(t, f) == [m \in Nodes(t) |-> <<m>> \o Along(f, t.kids[m])]

LEMMA PreStepIs ==
  ASSUME NEW t, IsTree(t), NEW f, Maps(f, Nodes(t), Seq(Nodes(t)))
  PROVE  Maps(PreStep(t, f), Nodes(t), Seq(Nodes(t)))
<1> DEFINE N == Nodes(t)
<1>1. ASSUME NEW m \in N PROVE <<m>> \o Along(f, t.kids[m]) \in Seq(N)
  <2> DEFINE a == Along(f, t.kids[m])
             o == <<m>>
  <2>1. t.kids[m] \in Seq(N)
    BY TreeIs
  <2>2. a \in Seq(N)
    BY <2>1, AlongIs
  <2>3. o \in Seq(N)
    OBVIOUS
  <2> HIDE DEF a, o
  <2>4. o \o a \in Seq(N)
    BY <2>2, <2>3, JoinIs
  <2> QED
    BY <2>4 DEF o, a
<1> QED
  BY <1>1 DEF PreStep, Maps

LEMMA PreRuns ==
  ASSUME NEW t, IsTree(t)
  PROVE  \E f : Maps(f, Nodes(t), Seq(Nodes(t))) /\ f = PreStep(t, f)
<1> DEFINE N == Nodes(t)
           X == Seq(N)
           step == [f \in [N -> X] |-> PreStep(t, f)]
<1>1. step \in [[N -> X] -> [N -> X]]
  <2> SUFFICES ASSUME NEW f \in [N -> X] PROVE PreStep(t, f) \in [N -> X]
    OBVIOUS
  <2>1. Maps(f, N, X)
    BY DEF Maps
  <2> QED
    BY <2>1, PreStepIs DEF Maps
<1>2. ASSUME NEW f \in [N -> X], NEW g \in [N -> X], NEW d \in N,
             \A e \in Below(t)[d] : f[e] = g[e]
      PROVE  step[f][d] = step[g][d]
  <2>1. \A e \in ToSet(t.kids[d]) : f[e] = g[e]
    BY <1>2 DEF Below
  <2>2. t.kids[d] \in Seq(N)
    BY TreeIs
  <2>3. Along(f, t.kids[d]) = Along(g, t.kids[d])
    BY <2>1, <2>2, AlongSame
  <2>4. PreStep(t, f)[d] = PreStep(t, g)[d]
    BY <2>3 DEF PreStep
  <2> QED
    BY <2>4
<1>3. Local(N, X, Below(t), step)
  BY <1>1, <1>2, Zenon DEF Local
<1>4. <<>> \in X
  BY EmptyIs
<1>5. \A f \in [N -> X] : step[f] = PreStep(t, f)
  OBVIOUS
<1> HIDE DEF step, N, X
<1>6. Descends(N, Below(t))
  BY TreeIs DEF N
<1>7. \E f \in [N -> X] : f = step[f]
  BY <1>3, <1>4, <1>6, RecursionRuns
<1>8. PICK f \in [N -> X] : f = PreStep(t, f)
  BY <1>5, <1>7
<1> QED
  BY <1>8 DEF Maps, N, X

(* PreOrder lists a node and then what its children list.                  *)
LEMMA PreOrderIs ==
  ASSUME NEW t, IsTree(t)
  PROVE  /\ Maps(Pre(t), Nodes(t), Seq(Nodes(t)))
         /\ \A n \in Nodes(t) : PreOrder(t, n) = <<n>> \o Listing(t, t.kids[n])
<1> DEFINE N == Nodes(t)
           f == CHOOSE g : g = [m \in Nodes(t) |->
                  <<m>> \o FlattenSeq(Map(LAMBDA c : g[c], t.kids[m]))]
<1>1. \A n : PreOrder(t, n) = f[n]
  BY Zenon DEF PreOrder
<1>2. ASSUME NEW g PROVE PreStep(t, g) = [m \in Nodes(t) |->
                            <<m>> \o FlattenSeq(Map(LAMBDA c : g[c], t.kids[m]))]
  BY DEF PreStep, Along, Each, Map
<1>3. \E g : g = [m \in Nodes(t) |->
                    <<m>> \o FlattenSeq(Map(LAMBDA c : g[c], t.kids[m]))]
  <2>1. PICK g : g = PreStep(t, g)
    BY PreRuns
  <2>2. PreStep(t, g) = [m \in Nodes(t) |->
                           <<m>> \o FlattenSeq(Map(LAMBDA c : g[c], t.kids[m]))]
    BY <1>2, Zenon
  <2>3. g = [m \in Nodes(t) |-> <<m>> \o FlattenSeq(Map(LAMBDA c : g[c], t.kids[m]))]
    BY <2>1, <2>2, Zenon
  <2> QED
    BY <2>3, Zenon
<1>4. f = [m \in Nodes(t) |-> <<m>> \o FlattenSeq(Map(LAMBDA c : f[c], t.kids[m]))]
  BY <1>3, Zenon
<1> HIDE DEF f
<1>5. f = PreStep(t, f)
  BY <1>2, <1>4
<1>6. DOMAIN f = N /\ \A n \in N : f[n] = <<n>> \o Along(f, t.kids[n])
  BY <1>5 DEF PreStep
<1>7. Pre(t) = f
  <2>1. [n \in N |-> f[n]] = f
    BY <1>5 DEF PreStep
  <2>2. Pre(t) = [n \in N |-> f[n]]
    BY <1>1 DEF Pre
  <2> QED
    BY <2>1, <2>2
<1>8. \A n \in N : f[n] \in Seq(N)
  <2> DEFINE G == {n \in N : f[n] \in Seq(N)}
             h == [n \in N |-> IF n \in G THEN f[n] ELSE <<>>]
  <2>1. Maps(h, N, Seq(N))
    <3>1. <<>> \in Seq(N)
      BY EmptyIs
    <3> QED
      BY <3>1 DEF Maps
  <2>2. ASSUME NEW n \in N, ToSet(t.kids[n]) \subseteq G PROVE n \in G
    <3>1. t.kids[n] \in Seq(N) /\ ToSet(t.kids[n]) \subseteq N
      BY TreeIs
    <3>2. \A c \in ToSet(t.kids[n]) : f[c] = h[c]
      BY <2>2, <3>1
    <3> HIDE DEF h, G
    <3>3. Along(f, t.kids[n]) = Along(h, t.kids[n])
      BY <3>1, <3>2, AlongSame
    <3>4. PreStep(t, h)[n] \in Seq(N)
      BY <2>1, PreStepIs DEF Maps
    <3>5. f[n] \in Seq(N)
      BY <1>6, <3>3, <3>4 DEF PreStep
    <3> QED
      BY <3>5 DEF G
  <2> HIDE DEF G
  <2>3. N \subseteq G
    BY <2>2, TreeInduction
  <2> QED
    BY <2>3 DEF G
<1>9. Maps(f, N, Seq(N))
  <2>1. f = [n \in N |-> f[n]]
    BY <1>5 DEF PreStep
  <2> QED
    BY <1>8, <2>1 DEF Maps
<1> QED
  BY <1>1, <1>6, <1>7, <1>9 DEF Listing

LEMMA PreOrderSeq ==
  ASSUME NEW t, IsTree(t), NEW n \in Nodes(t)
  PROVE  PreOrder(t, n) \in Seq(Nodes(t)) /\ Pre(t)[n] = PreOrder(t, n)
<1>1. Pre(t)[n] \in Seq(Nodes(t))
  BY PreOrderIs DEF Maps
<1> QED
  BY <1>1 DEF Pre

LEMMA ListingIs ==
  ASSUME NEW t, IsTree(t), NEW s \in Seq(Nodes(t))
  PROVE  Listing(t, s) \in Seq(Nodes(t))
<1>1. Maps(Pre(t), Nodes(t), Seq(Nodes(t)))
  BY PreOrderIs
<1> QED
  BY <1>1, AlongIs DEF Listing

LEMMA ListingJoin ==
  ASSUME NEW t, IsTree(t), NEW a \in Seq(Nodes(t)), NEW b \in Seq(Nodes(t))
  PROVE  Listing(t, a \o b) = Listing(t, a) \o Listing(t, b)
<1>1. Maps(Pre(t), Nodes(t), Seq(Nodes(t)))
  BY PreOrderIs
<1>2. Along(Pre(t), a \o b) = Along(Pre(t), a) \o Along(Pre(t), b)
  BY <1>1, AlongJoin
<1> QED
  BY <1>2, Zenon DEF Listing

LEMMA ListingOne ==
  ASSUME NEW t, IsTree(t), NEW n \in Nodes(t)
  PROVE  Listing(t, <<n>>) = PreOrder(t, n)
<1>1. Maps(Pre(t), Nodes(t), Seq(Nodes(t)))
  BY PreOrderIs
<1>2. Along(Pre(t), <<n>>) = Pre(t)[n]
  BY <1>1, AlongOne
<1> QED
  BY <1>2, PreOrderSeq DEF Listing

LEMMA ListingEmpty ==
  ASSUME NEW t
  PROVE  Listing(t, <<>>) = <<>>
BY AlongEmpty DEF Listing

LEMMA ListingRange ==
  ASSUME NEW t, IsTree(t), NEW s \in Seq(Nodes(t))
  PROVE  ToSet(Listing(t, s)) = UNION {ToSet(PreOrder(t, x)) : x \in ToSet(s)}
<1> DEFINE N == Nodes(t)
           Below1(u) == UNION {ToSet(PreOrder(t, x)) : x \in ToSet(u)}
           G == {u \in Seq(N) : ToSet(Listing(t, u)) = Below1(u)}
           none == <<>>
<1>1. none \in G
  <2>1. none \in Seq(N) /\ ToSet(none) = {}
    BY EmptyIs
  <2>2. Listing(t, none) = none
    BY ListingEmpty
  <2> HIDE DEF none
  <2> QED
    BY <2>1, <2>2
<1>2. ASSUME NEW u \in Seq(N), NEW x \in N, u \in G PROVE u \o <<x>> \in G
  <2> DEFINE o == <<x>>
             w == u \o o
             a == Listing(t, u)
             b == PreOrder(t, x)
  <2>1. o \in Seq(N)
    OBVIOUS
  <2>2. w \in Seq(N) /\ ToSet(w) = ToSet(u) \cup {x}
    BY Longer
  <2>3. Listing(t, w) = a \o b
    <3>1. Listing(t, o) = b
      BY ListingOne
    <3> HIDE DEF o, b
    <3> QED
      BY <2>1, <3>1, ListingJoin
  <2>4. a \in Seq(N) /\ b \in Seq(N)
    BY ListingIs, PreOrderSeq
  <2> HIDE DEF a, b, w
  <2>5. ToSet(Listing(t, w)) = ToSet(a) \cup ToSet(b)
    BY <2>3, <2>4, JoinRange
  <2>6. ToSet(a) = Below1(u)
    BY <1>2 DEF a
  <2>7. Below1(w) = Below1(u) \cup ToSet(b)
    BY <2>2 DEF b
  <2> QED
    BY <2>2, <2>5, <2>6, <2>7 DEF w
<1> HIDE DEF G, none
<1>3. Seq(N) \subseteq G
  BY <1>1, <1>2, AppendInduction DEF none
<1> QED
  BY <1>3 DEF G

(* C holds the children of its nodes.                                      *)
Closed(t, C) == \A n \in Nodes(t) : n \in C => ToSet(t.kids[n]) \subseteq C

LEMMA PreOrderRange ==
  ASSUME NEW t, IsTree(t), NEW n \in Nodes(t)
  PROVE  ToSet(PreOrder(t, n)) =
           {n} \cup UNION {ToSet(PreOrder(t, x)) : x \in ToSet(t.kids[n])}
<1> DEFINE a == Listing(t, t.kids[n])
           o == <<n>>
<1>1. PreOrder(t, n) = o \o a
  BY PreOrderIs
<1>2. t.kids[n] \in Seq(Nodes(t))
  BY TreeIs
<1>3. a \in Seq(Nodes(t)) /\ o \in Seq(Nodes(t))
  BY <1>2, ListingIs
<1>4. ToSet(o) = {n}
  BY OneRange
<1>5. ToSet(a) = UNION {ToSet(PreOrder(t, x)) : x \in ToSet(t.kids[n])}
  BY <1>2, ListingRange
<1> HIDE DEF a, o
<1>6. ToSet(o \o a) = ToSet(o) \cup ToSet(a)
  BY <1>3, JoinRange
<1> QED
  BY <1>1, <1>4, <1>5, <1>6

LEMMA ClosedKeeps ==
  ASSUME NEW t, IsTree(t), NEW C, Closed(t, C)
  PROVE  /\ \A n \in Nodes(t) : n \in C => ToSet(PreOrder(t, n)) \subseteq C
         /\ \A s \in Seq(Nodes(t)) : ToSet(s) \subseteq C => ToSet(Listing(t, s)) \subseteq C
<1> DEFINE G == {n \in Nodes(t) : n \in C => ToSet(PreOrder(t, n)) \subseteq C}
<1>1. ASSUME NEW n \in Nodes(t), ToSet(t.kids[n]) \subseteq G PROVE n \in G
  <2> SUFFICES ASSUME n \in C PROVE ToSet(PreOrder(t, n)) \subseteq C
    OBVIOUS
  <2>1. ToSet(t.kids[n]) \subseteq C
    BY DEF Closed
  <2> QED
    BY <1>1, <2>1, PreOrderRange
<1> HIDE DEF G
<1>2. Nodes(t) \subseteq G
  BY <1>1, TreeInduction
<1>3. \A n \in Nodes(t) : n \in C => ToSet(PreOrder(t, n)) \subseteq C
  BY <1>2 DEF G
<1>4. ASSUME NEW s \in Seq(Nodes(t)), ToSet(s) \subseteq C PROVE ToSet(Listing(t, s)) \subseteq C
  <2>1. ToSet(s) \subseteq Nodes(t)
    BY Ranged
  <2> QED
    BY <1>3, <1>4, <2>1, ListingRange
<1> QED
  BY <1>3, <1>4

(* A subtree is a node, its children and theirs.                           *)
LEMMA SubtreeIs ==
  ASSUME NEW t, IsTree(t), NEW n \in Nodes(t)
  PROVE  /\ n \in Subtree(t, n) /\ Subtree(t, n) \subseteq Nodes(t)
         /\ Closed(t, Subtree(t, n))
<1>1. ASSUME NEW m \in Nodes(t) PROVE m \in Subtree(t, m) /\ Subtree(t, m) \subseteq Nodes(t)
  BY PreOrderRange, PreOrderSeq, Ranged DEF Subtree
<1> DEFINE G == {m \in Nodes(t) : Closed(t, Subtree(t, m))}
<1>2. ASSUME NEW m \in Nodes(t), ToSet(t.kids[m]) \subseteq G PROVE m \in G
  <2> SUFFICES ASSUME NEW x \in Nodes(t), x \in Subtree(t, m)
               PROVE  ToSet(t.kids[x]) \subseteq Subtree(t, m)
    BY DEF Closed
  <2>1. Subtree(t, m) = {m} \cup UNION {Subtree(t, c) : c \in ToSet(t.kids[m])}
    BY PreOrderRange DEF Subtree
  <2>2. ToSet(t.kids[m]) \subseteq Nodes(t)
    BY TreeIs
  <2>3. CASE x = m
    BY <1>1, <2>1, <2>2, <2>3
  <2>4. CASE x # m
    <3>1. PICK c \in ToSet(t.kids[m]) : x \in Subtree(t, c)
      BY <2>1, <2>4
    <3>2. ToSet(t.kids[x]) \subseteq Subtree(t, c)
      BY <1>2, <3>1 DEF Closed
    <3> QED
      BY <2>1, <3>2
  <2> QED
    BY <2>3, <2>4
<1> HIDE DEF G
<1>3. Nodes(t) \subseteq G
  BY <1>2, TreeInduction
<1> QED
  BY <1>1, <1>3 DEF G

-----------------------------------------------------------------------------
(* What of a listing does not change when the tree does.                   *)

(* Nodes of a closed set do not show in what is sifted from outside it.    *)
LEMMA SiftListing ==
  ASSUME NEW t, IsTree(t), NEW C, Closed(t, C), NEW K, K \cap C = {},
         NEW s \in Seq(Nodes(t))
  PROVE  Sift(Listing(t, s), K) = Sift(Listing(t, Sift(s, Nodes(t) \ C)), K)
<1> DEFINE N == Nodes(t)
           L == N \ C
           G == {u \in Seq(N) : Sift(Listing(t, u), K) = Sift(Listing(t, Sift(u, L)), K)}
           none == <<>>
<1>1. none \in G
  <2>1. none \in Seq(N)
    BY EmptyIs
  <2>2. Sift(none, L) = none
    BY SiftEmpty
  <2> HIDE DEF none
  <2> QED
    BY <2>1, <2>2
<1>2. ASSUME NEW u \in Seq(N), NEW x \in N, u \in G PROVE u \o <<x>> \in G
  <2> DEFINE o == <<x>>
             w == u \o o
             a == Listing(t, u)
             b == PreOrder(t, x)
             v == Sift(u, L)
             c == Listing(t, v)
  <2>1. w \in Seq(N) /\ o \in Seq(N) /\ Listing(t, o) = b
    BY Longer, ListingOne
  <2>2. Sift(w, L) = IF x \in L THEN v \o o ELSE v
    BY SiftAppend
  <2>3. v \in Seq(N)
    BY SiftIs
  <2>4. a \in Seq(N) /\ b \in Seq(N) /\ c \in Seq(N)
    BY <2>3, ListingIs, PreOrderSeq
  <2>5. Sift(a, K) = Sift(c, K)
    BY <1>2
  <2> HIDE DEF o, v
  <2>6. Listing(t, w) = a \o b
    BY <2>1, ListingJoin
  <2>7. Listing(t, v \o o) = c \o b
    BY <2>1, <2>3, ListingJoin
  <2> HIDE DEF a, b, c, w
  <2>8. Sift(a \o b, K) = Sift(a, K) \o Sift(b, K)
    <3>1. Two(N, a, b)
      BY <2>4 DEF Two
    <3> QED
      BY <3>1, SiftTwo
  <2>9. Sift(c \o b, K) = Sift(c, K) \o Sift(b, K)
    <3>1. Two(N, c, b)
      BY <2>4 DEF Two
    <3> QED
      BY <3>1, SiftTwo
  <2>10. Sift(Listing(t, w), K) = Sift(Listing(t, Sift(w, L)), K)
    <3>1. CASE x \in L
      BY <2>2, <2>5, <2>6, <2>7, <2>8, <2>9, <3>1
    <3>2. CASE x \notin L
      <4>1. ToSet(b) \cap K = {}
        BY <3>2, ClosedKeeps DEF b
      <4> DEFINE e == Sift(b, K)
                 d == Sift(a, K)
                 none1 == <<>>
      <4>2. e = none1 /\ d \in Seq(N)
        BY <2>4, <4>1, SiftNone, SiftIs
      <4> HIDE DEF d, e
      <4>3. d \o none1 = d
        BY <4>2, JoinEmpty
      <4> HIDE DEF none1
      <4>4. d \o e = d
        BY <4>2, <4>3
      <4>5. Sift(a \o b, K) = Sift(a, K)
        BY <2>8, <4>4 DEF d, e
      <4> QED
        BY <2>2, <2>5, <2>6, <3>2, <4>5 DEF c
    <3> QED
      BY <3>1, <3>2
  <2> QED
    BY <2>1, <2>10 DEF w, o
<1> HIDE DEF G, none
<1>3. Seq(N) \subseteq G
  BY <1>1, <1>2, AppendInduction DEF none
<1> QED
  BY <1>3 DEF G

Alike(t, r, s, K) ==
  \A x \in ToSet(s) : Sift(PreOrder(t, x), K) = Sift(PreOrder(r, x), K)

(* Listings agree where those of the members do.                           *)
LEMMA SiftAlike ==
  ASSUME NEW t, IsTree(t), NEW r, IsTree(r), Nodes(r) = Nodes(t), NEW K,
         NEW s \in Seq(Nodes(t)), Alike(t, r, s, K)
  PROVE  Sift(Listing(t, s), K) = Sift(Listing(r, s), K)
<1> DEFINE N == Nodes(t)
           Good(u) == Alike(t, r, u, K)
           G == {u \in Seq(N) : Good(u) => Sift(Listing(t, u), K) = Sift(Listing(r, u), K)}
           none == <<>>
<1>1. none \in G
  <2>1. none \in Seq(N)
    BY EmptyIs
  <2>2. Listing(t, none) = none /\ Listing(r, none) = none
    BY ListingEmpty
  <2> HIDE DEF none
  <2> QED
    BY <2>1, <2>2
<1>2. ASSUME NEW u \in Seq(N), NEW x \in N, u \in G PROVE u \o <<x>> \in G
  <2> DEFINE o == <<x>>
             w == u \o o
             a == Listing(t, u)
             b == PreOrder(t, x)
             c == Listing(r, u)
             d == PreOrder(r, x)
  <2>1. w \in Seq(N) /\ o \in Seq(N) /\ Listing(t, o) = b /\ Listing(r, o) = d
    BY Longer, ListingOne
  <2>2. ToSet(w) = ToSet(u) \cup {x}
    BY Longer
  <2> HIDE DEF o
  <2>3. Listing(t, w) = a \o b
    BY <2>1, ListingJoin
  <2>4. Listing(r, w) = c \o d
    BY <2>1, ListingJoin
  <2>5. a \in Seq(N) /\ b \in Seq(N) /\ c \in Seq(N) /\ d \in Seq(N)
    BY ListingIs, PreOrderSeq
  <2>6. ASSUME Good(w) PROVE Sift(Listing(t, w), K) = Sift(Listing(r, w), K)
    <3>1. Sift(a, K) = Sift(c, K) /\ Sift(b, K) = Sift(d, K)
      BY <1>2, <2>2, <2>6 DEF Alike
    <3> HIDE DEF a, b, c, d, w
    <3>2. Sift(a \o b, K) = Sift(a, K) \o Sift(b, K)
      <4>1. Two(N, a, b)
        BY <2>5 DEF Two
      <4> QED
        BY <4>1, SiftTwo
    <3>3. Sift(c \o d, K) = Sift(c, K) \o Sift(d, K)
      <4>1. Two(N, c, d)
        BY <2>5 DEF Two
      <4> QED
        BY <4>1, SiftTwo
    <3> QED
      BY <2>3, <2>4, <3>1, <3>2, <3>3
  <2> QED
    BY <2>1, <2>6 DEF o
<1> HIDE DEF none
<1>3. Seq(N) \subseteq G
  <2> HIDE DEF G
  <2> QED
    BY <1>1, <1>2, AppendInduction DEF none
<1> QED
  BY <1>3

(* Two trees that differ in nodes of C only, and below them.               *)
Differ(t, r, C) ==
  /\ Nodes(r) = Nodes(t) /\ Closed(t, C) /\ Closed(r, C)
  /\ \A x \in Nodes(t) \ C :
       Sift(t.kids[x], Nodes(t) \ C) = Sift(r.kids[x], Nodes(t) \ C)

LEMMA SameListing ==
  ASSUME NEW t, IsTree(t), NEW r, IsTree(r), NEW C, Differ(t, r, C), NEW K, K \cap C = {}
  PROVE  \A s \in Seq(Nodes(t)) : Sift(Listing(t, s), K) = Sift(Listing(r, s), K)
<1> DEFINE N == Nodes(t)
           L == N \ C
           G == {x \in N : Sift(PreOrder(t, x), K) = Sift(PreOrder(r, x), K)}
<1>0. Nodes(r) = N /\ Closed(t, C) /\ Closed(r, C)
  BY DEF Differ
<1>1. ASSUME NEW x \in N, ToSet(t.kids[x]) \subseteq G PROVE x \in G
  <2> DEFINE o == <<x>>
             k == t.kids[x]
             l == r.kids[x]
             a == Listing(t, k)
             b == Listing(r, l)
             u == Sift(k, L)
  <2>1. k \in Seq(N) /\ l \in Seq(N)
    BY <1>0, TreeIs
  <2>2. PreOrder(t, x) = o \o a /\ PreOrder(r, x) = o \o b
    BY <1>0, PreOrderIs
  <2>3. o \in Seq(N) /\ a \in Seq(N) /\ b \in Seq(N)
    BY <1>0, <2>1, ListingIs
  <2>4. CASE x \in C
    <3>1. ToSet(PreOrder(t, x)) \subseteq C /\ ToSet(PreOrder(r, x)) \subseteq C
      BY <1>0, <2>4, ClosedKeeps
    <3>2. PreOrder(t, x) \in Seq(N) /\ PreOrder(r, x) \in Seq(N)
      BY <1>0, PreOrderSeq
    <3>3. ToSet(PreOrder(t, x)) \cap K = {} /\ ToSet(PreOrder(r, x)) \cap K = {}
      BY <3>1
    <3>4. Sift(PreOrder(t, x), K) = <<>> /\ Sift(PreOrder(r, x), K) = <<>>
      BY <3>2, <3>3, SiftNone
    <3> QED
      BY <3>4
  <2>5. CASE x \notin C
    <3>1. u = Sift(l, L) /\ u \in Seq(N) /\ ToSet(u) = ToSet(k) \cap L
      BY <2>1, <2>5, SiftIs, SiftRange DEF Differ
    <3>2. Sift(a, K) = Sift(Listing(t, u), K)
      BY <1>0, <2>1, SiftListing
    <3>3. Sift(b, K) = Sift(Listing(r, u), K)
      <4>1. l \in Seq(Nodes(r)) /\ u = Sift(l, Nodes(r) \ C)
        BY <1>0, <2>1, <3>1
      <4> HIDE DEF u, l
      <4> QED
        BY <1>0, <4>1, SiftListing DEF b
    <3>4. Sift(Listing(t, u), K) = Sift(Listing(r, u), K)
      <4>1. Alike(t, r, u, K)
        BY <1>1, <3>1 DEF Alike
      <4> HIDE DEF u
      <4> QED
        BY <1>0, <3>1, <4>1, SiftAlike
    <3>5. Sift(a, K) = Sift(b, K)
      BY <3>2, <3>3, <3>4
    <3> HIDE DEF o, a, b
    <3>6. Sift(o \o a, K) = Sift(o, K) \o Sift(a, K)
      <4>1. Two(N, o, a)
        BY <2>3 DEF Two
      <4> QED
        BY <4>1, SiftTwo
    <3>7. Sift(o \o b, K) = Sift(o, K) \o Sift(b, K)
      <4>1. Two(N, o, b)
        BY <2>3 DEF Two
      <4> QED
        BY <4>1, SiftTwo
    <3> QED
      BY <2>2, <3>5, <3>6, <3>7
  <2> QED
    BY <2>4, <2>5
<1> HIDE DEF G
<1>2. N \subseteq G
  BY <1>1, TreeInduction
<1>3. ASSUME NEW s \in Seq(N) PROVE Sift(Listing(t, s), K) = Sift(Listing(r, s), K)
  <2>1. Alike(t, r, s, K)
    BY <1>2, Ranged DEF G, Alike
  <2> QED
    BY <1>0, <2>1, SiftAlike
<1> QED
  BY <1>3

-----------------------------------------------------------------------------
(* The stack of a walk, whose top is its end.                              *)

LEMMA ReverseIs ==
  ASSUME NEW X, NEW s \in Seq(X)
  PROVE  /\ Reverse(s) \in Seq(X) /\ Len(Reverse(s)) = Len(s)
         /\ \A i \in 1..Len(s) : Reverse(s)[i] = s[Len(s) - i + 1]
<1>1. \A i \in 1..Len(s) : s[Len(s) - i + 1] \in X
  OBVIOUS
<1> QED
  BY <1>1 DEF Reverse

LEMMA ReverseEmpty == Reverse(<<>>) = <<>>
  BY DEF Reverse

LEMMA ReverseJoin ==
  ASSUME NEW X, NEW a \in Seq(X), NEW b \in Seq(X)
  PROVE  Reverse(a \o b) = Reverse(b) \o Reverse(a)
<1> DEFINE c == a \o b
           ra == Reverse(a)
           rb == Reverse(b)
           rc == Reverse(c)
           d == rb \o ra
           m == Len(a)
           n == Len(b)
<1>1. /\ c \in Seq(X) /\ m \in Nat /\ n \in Nat /\ Len(c) = m + n
      /\ \A i \in 1..m : c[i] = a[i]
      /\ \A i \in 1..n : c[m + i] = b[i]
  BY JoinIs
<1>2. /\ ra \in Seq(X) /\ Len(ra) = m /\ \A i \in 1..m : ra[i] = a[m - i + 1]
      /\ rb \in Seq(X) /\ Len(rb) = n /\ \A i \in 1..n : rb[i] = b[n - i + 1]
  BY ReverseIs
<1>3. rc \in Seq(X) /\ Len(rc) = Len(c) /\ \A i \in 1..Len(c) : rc[i] = c[Len(c) - i + 1]
  <2> HIDE DEF c
  <2> QED
    BY <1>1, ReverseIs
<1> HIDE DEF ra, rb, rc, c
<1>4. /\ d \in Seq(X) /\ Len(d) = n + m
      /\ \A i \in 1..n : d[i] = rb[i]
      /\ \A i \in 1..m : d[n + i] = ra[i]
  <2>1. rb \in Seq(X) /\ ra \in Seq(X)
    BY <1>2
  <2>2. /\ rb \o ra \in Seq(X) /\ Len(rb \o ra) = Len(rb) + Len(ra)
        /\ \A i \in 1..Len(rb) : (rb \o ra)[i] = rb[i]
        /\ \A i \in 1..Len(ra) : (rb \o ra)[Len(rb) + i] = ra[i]
    BY <2>1, JoinIs
  <2> HIDE DEF m, n
  <2> QED
    BY <1>2, <2>2
<1> HIDE DEF d, m, n
<1>5. ASSUME NEW i \in 1..(m + n) PROVE rc[i] = d[i]
  <2>1. rc[i] = c[m + n - i + 1]
    BY <1>1, <1>3
  <2>2. CASE i <= n
    <3> DEFINE j == n - i + 1
    <3>1. j \in 1..n /\ i \in 1..n /\ m + n - i + 1 = m + j
      BY <1>1, <2>2
    <3>2. d[i] = rb[i] /\ rb[i] = b[j]
      BY <1>2, <1>4, <3>1
    <3> HIDE DEF j
    <3>3. c[m + j] = b[j]
      BY <1>1, <3>1
    <3> QED
      BY <2>1, <3>1, <3>2, <3>3
  <2>3. CASE i > n
    <3> DEFINE j == i - n
    <3>1. j \in 1..m /\ i = n + j /\ m + n - i + 1 = m - j + 1 /\ m - j + 1 \in 1..m
      BY <1>1, <2>3
    <3> HIDE DEF j
    <3>2. d[i] = ra[j] /\ ra[j] = a[m - j + 1]
      BY <1>2, <1>4, <3>1
    <3>3. c[m - j + 1] = a[m - j + 1]
      BY <1>1, <3>1
    <3> QED
      BY <2>1, <3>1, <3>2, <3>3
  <2> QED
    BY <1>1, <2>2, <2>3
<1>6. Len(rc) = Len(d) /\ Len(rc) = m + n
  BY <1>1, <1>3, <1>4
<1>7. rc = d
  BY <1>3, <1>4, <1>5, <1>6, SameSeq
<1> QED
  BY <1>7 DEF c, d, ra, rb, rc

LEMMA ReverseOne ==
  ASSUME NEW x
  PROVE  Reverse(<<x>>) = <<x>>
  BY DEF Reverse

LEMMA ReverseTwice ==
  ASSUME NEW X, NEW s \in Seq(X)
  PROVE  Reverse(Reverse(s)) = s
<1> DEFINE r == Reverse(s)
<1>1. r \in Seq(X) /\ Len(r) = Len(s) /\ \A i \in 1..Len(s) : r[i] = s[Len(s) - i + 1]
  BY ReverseIs
<1> HIDE DEF r
<1>2. Reverse(r) \in Seq(X) /\ Len(Reverse(r)) = Len(r)
      /\ \A i \in 1..Len(r) : Reverse(r)[i] = r[Len(r) - i + 1]
  BY <1>1, ReverseIs
<1>3. ASSUME NEW i \in 1..Len(s) PROVE Reverse(r)[i] = s[i]
  <2>1. Len(s) \in Nat
    OBVIOUS
  <2>2. Len(s) - i + 1 \in 1..Len(s) /\ Len(s) - (Len(s) - i + 1) + 1 = i
    BY <2>1
  <2> QED
    BY <1>1, <1>2, <2>2
<1>4. Reverse(r) = s
  BY <1>1, <1>2, <1>3, SameSeq
<1> QED
  BY <1>4 DEF r

LEMMA ReverseRange ==
  ASSUME NEW X, NEW s \in Seq(X)
  PROVE  ToSet(Reverse(s)) = ToSet(s)
<1> DEFINE r == Reverse(s)
<1>1. r \in Seq(X) /\ Len(r) = Len(s) /\ \A i \in 1..Len(s) : r[i] = s[Len(s) - i + 1]
  BY ReverseIs
<1> HIDE DEF r
<1>2. DOMAIN r = 1..Len(s) /\ DOMAIN s = 1..Len(s) /\ Len(s) \in Nat
  BY <1>1
<1>3. \A i \in 1..Len(s) : Len(s) - i + 1 \in 1..Len(s)
  BY <1>2
<1>4. ToSet(r) \subseteq ToSet(s)
  BY <1>1, <1>2, <1>3 DEF ToSet
<1>5. ASSUME NEW x \in ToSet(s) PROVE x \in ToSet(r)
  <2>1. PICK i \in 1..Len(s) : x = s[i]
    BY <1>2 DEF ToSet
  <2>2. Len(s) - (Len(s) - i + 1) + 1 = i
    BY <1>2
  <2>3. r[Len(s) - i + 1] = s[i]
    BY <1>1, <1>3, <2>2
  <2> QED
    BY <1>2, <1>3, <2>1, <2>3 DEF ToSet
<1> QED
  BY <1>4, <1>5 DEF r

(* Popping a stack.                                                        *)
LEMMA TopIs ==
  ASSUME NEW X, NEW s \in Seq(X), s # <<>>
  PROVE  /\ Last(s) \in X /\ Front(s) \in Seq(X)
         /\ Len(s) \in Nat \ {0} /\ Len(Front(s)) = Len(s) - 1
         /\ s = Front(s) \o <<Last(s)>>
<1> DEFINE f == Front(s)
           o == <<Last(s)>>
           n == Len(s)
<1>1. n \in Nat /\ n # 0
  OBVIOUS
<1>2. Last(s) \in X /\ Last(s) = s[n]
  BY <1>1 DEF Last
<1>3. f \in Seq(X) /\ Len(f) = n - 1 /\ DOMAIN f = 1..(n - 1) /\ \A i \in 1..(n - 1) : f[i] = s[i]
  <2>1. n - 1 \in Nat /\ n - 1 <= n
    BY <1>1
  <2>2. f = SubSeq(s, 1, n - 1)
    BY DEF Front
  <2> DEFINE m == n - 1
  <2>3. m \in Nat /\ m <= Len(s) /\ 1 \in Nat \ {0}
    BY <2>1
  <2>4. f = SubSeq(s, 1, m)
    BY <2>2
  <2>5. m = n - 1
    OBVIOUS
  <2> HIDE DEF f, m
  <2>6. /\ f \in Seq(X) /\ Len(f) = IF 1 <= m THEN m - 1 + 1 ELSE 0
        /\ DOMAIN f = 1..Len(f) /\ \A h \in DOMAIN f : f[h] = s[1 + h - 1]
    BY <2>3, <2>4, Sliced
  <2>7. Len(f) = m /\ \A h \in 1..m : 1 + h - 1 = h
    BY <2>3, <2>6
  <2>8. DOMAIN f = 1..m /\ \A h \in 1..m : f[h] = s[h]
    BY <2>6, <2>7
  <2> QED
    BY <2>5, <2>6, <2>7, <2>8
<1>4. o \in Seq(X) /\ Len(o) = 1 /\ o[1] = s[n]
  BY <1>2, OneIs
<1> HIDE DEF f, o
<1>5. /\ f \o o \in Seq(X) /\ Len(f \o o) = n
      /\ \A i \in 1..(n - 1) : (f \o o)[i] = f[i]
      /\ (f \o o)[n] = o[1]
  <2>0. f \in Seq(X) /\ o \in Seq(X)
    BY <1>3, <1>4
  <2>1. /\ f \o o \in Seq(X) /\ Len(f \o o) = Len(f) + Len(o)
        /\ \A i \in 1..Len(f) : (f \o o)[i] = f[i]
        /\ \A i \in 1..Len(o) : (f \o o)[Len(f) + i] = o[i]
    BY <2>0, JoinIs
  <2> HIDE DEF n
  <2>2. 1 \in 1..Len(o) /\ Len(f) + 1 = n
    BY <1>1, <1>3, <1>4
  <2> QED
    BY <1>1, <1>3, <1>4, <2>1, <2>2
<1>6. \A i \in 1..n : (f \o o)[i] = s[i]
  BY <1>1, <1>3, <1>4, <1>5
<1>7. f \o o = s
  BY <1>5, <1>6, SameSeq
<1> QED
  BY <1>1, <1>2, <1>3, <1>7 DEF f, o

(* What a stack has still to list, in document order.                      *)
Flat(t, s) == Listing(t, Reverse(s))

(* A stack after its top was visited: the children come next.              *)
Deeper(t, s) == Front(s) \o Reverse(t.kids[Last(s)])

LEMMA FlatIs ==
  ASSUME NEW t, IsTree(t), NEW s \in Seq(Nodes(t))
  PROVE  Flat(t, s) \in Seq(Nodes(t))
<1>1. Reverse(s) \in Seq(Nodes(t))
  BY ReverseIs
<1> QED
  BY <1>1, ListingIs DEF Flat

LEMMA FlatEmpty ==
  ASSUME NEW t
  PROVE  Flat(t, <<>>) = <<>>
  BY ReverseEmpty, ListingEmpty DEF Flat

LEMMA FlatOne ==
  ASSUME NEW t, IsTree(t), NEW n \in Nodes(t)
  PROVE  Flat(t, <<n>>) = PreOrder(t, n)
<1>1. Reverse(<<n>>) = <<n>>
  BY ReverseOne
<1> QED
  BY <1>1, ListingOne DEF Flat

LEMMA FlatPop ==
  ASSUME NEW t, IsTree(t), NEW s \in Seq(Nodes(t)), s # <<>>
  PROVE  /\ Last(s) \in Nodes(t) /\ Deeper(t, s) \in Seq(Nodes(t))
         /\ Flat(t, s) = <<Last(s)>> \o Flat(t, Deeper(t, s))
<1> DEFINE N == Nodes(t)
           x == Last(s)
           f == Front(s)
           k == t.kids[x]
           o == <<x>>
           rf == Reverse(f)
           rk == Reverse(k)
           d == f \o rk
<1>1. x \in N /\ f \in Seq(N) /\ s = f \o o
  BY TopIs
<1>2. k \in Seq(N)
  BY <1>1, TreeIs
<1>3. o \in Seq(N) /\ Reverse(o) = o /\ Listing(t, o) = PreOrder(t, x)
  BY <1>1, OneIs, ReverseOne, ListingOne
<1>4. PreOrder(t, x) = o \o Listing(t, k)
  BY <1>1, PreOrderIs
<1> HIDE DEF o, k, f, x
<1>5. Reverse(s) = o \o rf
  BY <1>1, <1>3, ReverseJoin
<1>6. rf \in Seq(N) /\ rk \in Seq(N) /\ Reverse(rk) = k
  BY <1>1, <1>2, ReverseIs, ReverseTwice
<1> HIDE DEF rf
<1>7. Listing(t, Reverse(s)) = PreOrder(t, x) \o Listing(t, rf)
  BY <1>3, <1>5, <1>6, ListingJoin
<1> HIDE DEF rk
<1>8. d \in Seq(N) /\ Reverse(d) = k \o rf
  <2>1. d \in Seq(N)
    BY <1>1, <1>6, JoinIs
  <2>2. Reverse(d) = Reverse(rk) \o Reverse(f)
    BY <1>1, <1>6, ReverseJoin
  <2> QED
    BY <1>6, <2>1, <2>2 DEF rf
<1> HIDE DEF d
<1>9. Listing(t, Reverse(d)) = Listing(t, k) \o Listing(t, rf)
  BY <1>2, <1>6, <1>8, ListingJoin
<1> DEFINE a == Listing(t, k)
           b == Listing(t, rf)
<1>10. a \in Seq(N) /\ b \in Seq(N)
  BY <1>2, <1>6, ListingIs
<1> HIDE DEF a, b
<1>11. (o \o a) \o b = o \o (a \o b)
  <2>1. All3(N, o, a, b)
    BY <1>3, <1>10 DEF All3
  <2> QED
    BY <2>1, Assoc
<1>12. Flat(t, s) = (o \o a) \o b
  BY <1>4, <1>7 DEF Flat, a, b
<1>13. Flat(t, d) = a \o b
  BY <1>9 DEF Flat, a, b
<1>14. Deeper(t, s) = d
  BY DEF Deeper, d, f, rk, k, x
<1>15. Flat(t, s) = o \o Flat(t, d)
  BY <1>11, <1>12, <1>13
<1> QED
  BY <1>1, <1>8, <1>14, <1>15 DEF o, x

-----------------------------------------------------------------------------
(* One step of a walk.                                                     *)

(* Going down in a measure ends.                                           *)
Lower(D, m) == [d \in D |-> {e \in D : m[e] < m[d]}]

LEMMA MeasureDescends ==
  ASSUME NEW D, NEW m \in [D -> Nat]
  PROVE  Descends(D, Lower(D, m))
<1>1. Lower(D, m) \in [D -> SUBSET D]
  BY DEF Lower
<1>2. ASSUME NEW S \in SUBSET D, S # {} PROVE \E d \in S : Lower(D, m)[d] \cap S = {}
  <2> DEFINE T == {m[d] : d \in S}
  <2>1. T \in SUBSET Nat /\ T # {}
    BY <1>2
  <2>2. PICK x \in T : \A y \in T : x <= y
    <3> HIDE DEF T
    <3> QED
      BY <2>1, LeastNumber
  <2>3. PICK d \in S : x = m[d]
    BY <2>2
  <2>4. \A e \in S : m[d] <= m[e] /\ m[d] \in Nat /\ m[e] \in Nat
    BY <2>2, <2>3
  <2>5. \A e \in S : ~(m[e] < m[d])
    BY <2>4
  <2> QED
    BY <2>5 DEF Lower
<1> QED
  BY <1>1, <1>2, Zenon DEF Descends

(* How much a stack has still to list.                                     *)
Size(t) == [s \in Seq(Nodes(t)) |-> Len(Flat(t, s))]

Shorter(t) == Lower(Seq(Nodes(t)), Size(t))

LEMMA StacksDescend ==
  ASSUME NEW t, IsTree(t)
  PROVE  Descends(Seq(Nodes(t)), Shorter(t))
<1>1. Size(t) \in [Seq(Nodes(t)) -> Nat]
  <2> SUFFICES ASSUME NEW s \in Seq(Nodes(t)) PROVE Len(Flat(t, s)) \in Nat
    BY DEF Size
  <2>1. Flat(t, s) \in Seq(Nodes(t))
    BY FlatIs
  <2> QED
    BY <2>1
<1> QED
  BY <1>1, MeasureDescends DEF Shorter

LEMMA DeeperIsShorter ==
  ASSUME NEW t, IsTree(t), NEW s \in Seq(Nodes(t)), s # <<>>
  PROVE  Deeper(t, s) \in Shorter(t)[s]
<1> DEFINE o == <<Last(s)>>
           d == Deeper(t, s)
           a == Flat(t, d)
<1>1. d \in Seq(Nodes(t)) /\ Flat(t, s) = o \o a /\ o \in Seq(Nodes(t)) /\ Len(o) = 1
  BY FlatPop, OneIs
<1>2. a \in Seq(Nodes(t))
  BY <1>1, FlatIs
<1> HIDE DEF o, a
<1>3. Len(o \o a) = 1 + Len(a) /\ Len(a) \in Nat
  <2>1. Len(o \o a) = Len(o) + Len(a) /\ Len(a) \in Nat
    BY <1>1, <1>2, JoinIs
  <2> QED
    BY <1>1, <2>1
<1>4. Len(a) < Len(Flat(t, s))
  BY <1>1, <1>3
<1> QED
  BY <1>1, <1>4 DEF Shorter, Lower, Size, a

(* What holds of a stack if it holds of the next one holds of all stacks.  *)
LEMMA StackInduction ==
  ASSUME NEW t, IsTree(t), NEW G,
         \A s \in Seq(Nodes(t)) : (s # <<>> => Deeper(t, s) \in G) => s \in G
  PROVE  Seq(Nodes(t)) \subseteq G
<1> DEFINE D == Seq(Nodes(t))
           S == D \ G
<1>1. SUFFICES ASSUME S # {} PROVE FALSE
  OBVIOUS
<1>2. PICK s \in S : Shorter(t)[s] \cap S = {}
  BY <1>1, StacksDescend, Zenon DEF Descends
<1>3. s # <<>> => Deeper(t, s) \in D /\ Deeper(t, s) \in Shorter(t)[s]
  BY FlatPop, DeeperIsShorter
<1> QED
  BY <1>2, <1>3

(* Where a step can end.                                                   *)
Steps(t) == [id : Nodes(t) \cup {NoNode}, stack : Seq(Nodes(t))]

NoMore == [id |-> NoNode, stack |-> <<>>]

(* The equation that defines AdvanceWalk.                                  *)
WalkStep(t, filter, f) ==
  [s \in Seq(Nodes(t)) |->
     IF s = <<>> THEN NoMore
     ELSE IF Matches(t, Last(s), filter) THEN [id |-> Last(s), stack |-> Deeper(t, s)]
     ELSE f[Deeper(t, s)]]

LEMMA WalkRuns ==
  ASSUME NEW t, IsTree(t), NEW filter
  PROVE  \E f : Maps(f, Seq(Nodes(t)), Steps(t)) /\ f = WalkStep(t, filter, f)
<1> DEFINE D == Seq(Nodes(t))
           X == Steps(t)
           step == [f \in [D -> X] |-> WalkStep(t, filter, f)]
<1>0. NoMore \in X
  <2>1. <<>> \in D
    BY EmptyIs
  <2> QED
    BY <2>1 DEF NoMore, Steps
<1>1. step \in [[D -> X] -> [D -> X]]
  <2> SUFFICES ASSUME NEW f \in [D -> X], NEW s \in D PROVE WalkStep(t, filter, f)[s] \in X
    BY DEF WalkStep
  <2>1. CASE s = <<>>
    BY <1>0, <2>1 DEF WalkStep
  <2>2. CASE s # <<>>
    <3>1. Last(s) \in Nodes(t) /\ Deeper(t, s) \in D
      BY <2>2, FlatPop
    <3>2. [id |-> Last(s), stack |-> Deeper(t, s)] \in X
      BY <3>1 DEF Steps
    <3>3. f[Deeper(t, s)] \in X
      BY <3>1
    <3> HIDE DEF X
    <3> QED
      BY <2>2, <3>2, <3>3 DEF WalkStep
  <2> QED
    BY <2>1, <2>2
<1>2. ASSUME NEW f \in [D -> X], NEW g \in [D -> X], NEW s \in D,
             \A e \in Shorter(t)[s] : f[e] = g[e]
      PROVE  step[f][s] = step[g][s]
  <2>1. s # <<>> => f[Deeper(t, s)] = g[Deeper(t, s)]
    BY <1>2, DeeperIsShorter
  <2>2. WalkStep(t, filter, f)[s] = WalkStep(t, filter, g)[s]
    BY <2>1 DEF WalkStep
  <2> QED
    BY <2>2
<1>3. Local(D, X, Shorter(t), step)
  BY <1>1, <1>2, Zenon DEF Local
<1>4. \A f \in [D -> X] : step[f] = WalkStep(t, filter, f)
  OBVIOUS
<1> HIDE DEF step, D, X
<1>5. Descends(D, Shorter(t))
  BY StacksDescend DEF D
<1>6. \E f \in [D -> X] : f = step[f]
  BY <1>0, <1>3, <1>5, RecursionRuns
<1>7. PICK f \in [D -> X] : f = WalkStep(t, filter, f)
  BY <1>4, <1>6
<1> QED
  BY <1>7 DEF Maps, D, X

LEMMA AdvanceUnfolds ==
  ASSUME NEW t, IsTree(t), NEW filter, NEW s \in Seq(Nodes(t))
  PROVE  AdvanceWalk(t, s, filter) =
           IF s = <<>> THEN NoMore
           ELSE IF Matches(t, Last(s), filter) THEN [id |-> Last(s), stack |-> Deeper(t, s)]
           ELSE AdvanceWalk(t, Deeper(t, s), filter)
<1> DEFINE D == Seq(Nodes(t))
           step(g) == [u \in Seq(Nodes(t)) |->
             LET id     == Last(u)
                 deeper == Front(u) \o Reverse(t.kids[id])
             IN  IF u = <<>> THEN [id |-> NoNode, stack |-> <<>>]
                 ELSE IF Matches(t, id, filter) THEN [id |-> id, stack |-> deeper]
                 ELSE g[deeper]]
           f == CHOOSE g : g = step(g)
<1>1. \A u : AdvanceWalk(t, u, filter) = f[u]
  BY Zenon DEF AdvanceWalk
<1>2. ASSUME NEW g PROVE WalkStep(t, filter, g) = step(g)
  BY Zenon DEF WalkStep, Deeper, NoMore
<1> HIDE DEF step
<1>3. \E g : g = step(g)
  <2>1. PICK g : g = WalkStep(t, filter, g)
    BY WalkRuns
  <2>2. WalkStep(t, filter, g) = step(g)
    BY <1>2, Zenon
  <2> QED
    BY <2>1, <2>2, Zenon
<1>4. f = step(f)
  BY <1>3, Zenon
<1> HIDE DEF f
<1>5. f = WalkStep(t, filter, f)
  BY <1>2, <1>4
<1>6. s \in D /\ (s # <<>> => Deeper(t, s) \in D)
  BY FlatPop
<1>7. f[s] = IF s = <<>> THEN NoMore
             ELSE IF Matches(t, Last(s), filter) THEN [id |-> Last(s), stack |-> Deeper(t, s)]
             ELSE f[Deeper(t, s)]
  BY <1>5, <1>6, Zenon DEF WalkStep
<1> QED
  BY <1>1, <1>7

(* The nodes a filter lets through.                                        *)
Found(t, filter) == {n \in Nodes(t) : Matches(t, n, filter)}

(* r is where a step from s ends: at the next match, if there is one.      *)
Finds(t, s, M, r) ==
  /\ r \in Steps(t)
  /\ r.id = NoNode => r.stack = <<>> /\ Sift(Flat(t, s), M) = <<>>
  /\ r.id # NoNode =>
       r.id \in M /\ Sift(Flat(t, s), M) = <<r.id>> \o Sift(Flat(t, r.stack), M)

LEMMA AdvanceFinds ==
  ASSUME NEW t, IsTree(t), NEW filter, NEW s \in Seq(Nodes(t))
  PROVE  Finds(t, s, Found(t, filter), AdvanceWalk(t, s, filter))
<1> DEFINE N == Nodes(t)
           M == Found(t, filter)
           G == {u \in Seq(N) : Finds(t, u, M, AdvanceWalk(t, u, filter))}
<1>1. ASSUME NEW u \in Seq(N), u # <<>> => Deeper(t, u) \in G PROVE u \in G
  <2> DEFINE r == AdvanceWalk(t, u, filter)
             x == Last(u)
             o == <<x>>
             d == Deeper(t, u)
             a == Flat(t, d)
  <2>1. CASE u = <<>>
    <3>1. r = NoMore
      BY <2>1, AdvanceUnfolds
    <3>2. Flat(t, u) = <<>> /\ Sift(<<>>, M) = <<>>
      BY <2>1, FlatEmpty, SiftEmpty
    <3>3. <<>> \in Seq(N)
      BY EmptyIs
    <3>4. r \in Steps(t) /\ r.id = NoNode /\ r.stack = <<>>
      <4> HIDE DEF r
      <4> QED
        BY <3>1, <3>3 DEF Steps, NoMore
    <3>5. Sift(Flat(t, u), M) = <<>>
      BY <3>2
    <3> HIDE DEF r, M
    <3>6. Finds(t, u, M, r)
      BY <3>4, <3>5 DEF Finds
    <3> QED
      BY <3>6 DEF r
  <2>2. CASE u # <<>>
    <3>1. x \in N /\ d \in Seq(N) /\ Flat(t, u) = o \o a /\ o \in Seq(N)
      BY <2>2, FlatPop, OneIs
    <3>2. a \in Seq(N)
      BY <3>1, FlatIs
    <3>3. Sift(Flat(t, u), M) = Sift(o, M) \o Sift(a, M)
      <4> HIDE DEF o, a
      <4>1. Two(N, o, a)
        BY <3>1, <3>2 DEF Two
      <4> QED
        BY <3>1, <4>1, SiftTwo
    <3>4. Sift(o, M) = IF x \in M THEN o ELSE <<>>
      BY SiftOne
    <3>5. CASE x \in M
      <4>1. r = [id |-> x, stack |-> d]
        BY <2>2, <3>5, AdvanceUnfolds DEF Found
      <4>2. x # NoNode
        BY <3>1 DEF IsTree
      <4> HIDE DEF x, d, M, r, a
      <4>3. r \in Steps(t) /\ r.id = x /\ r.stack = d
        BY <3>1, <4>1 DEF Steps
      <4>4. Sift(Flat(t, u), M) = <<x>> \o Sift(Flat(t, d), M)
        BY <3>3, <3>4, <3>5 DEF a
      <4>5. Finds(t, u, M, r)
        BY <3>5, <4>2, <4>3, <4>4 DEF Finds
      <4> QED
        BY <4>5 DEF r
    <3>6. CASE x \notin M
      <4>1. r = AdvanceWalk(t, d, filter)
        BY <2>2, <3>1, <3>6, AdvanceUnfolds DEF Found
      <4>2. Sift(a, M) \in Seq(N)
        BY <3>2, SiftIs
      <4>3. Sift(Flat(t, u), M) = Sift(a, M)
        <5> DEFINE b == Sift(a, M)
        <5> HIDE DEF b
        <5>1. <<>> \o b = b
          BY <4>2, JoinEmpty DEF b
        <5> QED
          BY <3>3, <3>4, <3>6, <5>1 DEF b
      <4>4. Finds(t, d, M, AdvanceWalk(t, d, filter))
        BY <1>1, <2>2
      <4> HIDE DEF d, M
      <4> QED
        BY <4>1, <4>3, <4>4 DEF Finds, a
    <3> QED
      BY <3>5, <3>6
  <2> QED
    BY <2>1, <2>2
<1>2. Seq(N) \subseteq G
  <2> HIDE DEF G
  <2> QED
    BY <1>1, StackInduction
<1> QED
  BY <1>2

-----------------------------------------------------------------------------
(* A refill, and an undisturbed walk.                                      *)

(* r holds the first matches of a walk from s, at most max of them.        *)
Takes(t, s, M, max, r) ==
  /\ r \in [ids : Seq(Nodes(t)), stack : Seq(Nodes(t))]
  /\ ToSet(r.ids) \subseteq M /\ Len(r.ids) <= max
  /\ Sift(Flat(t, s), M) = r.ids \o Sift(Flat(t, r.stack), M)
  /\ r.ids = <<>> /\ max # 0 => r.stack = <<>>

TakeOne(t, filter, r) ==
  LET step == AdvanceWalk(t, r.stack, filter)
  IN  IF step.id = NoNode THEN [r EXCEPT !.stack = step.stack]
      ELSE [ids |-> Append(r.ids, step.id), stack |-> step.stack]

LEMMA TakesNone ==
  ASSUME NEW t, IsTree(t), NEW M, NEW s \in Seq(Nodes(t))
  PROVE  Takes(t, s, M, 0, [ids |-> <<>>, stack |-> s])
<1> DEFINE N == Nodes(t)
           b == Sift(Flat(t, s), M)
           r == [ids |-> <<>>, stack |-> s]
<1>1. <<>> \in Seq(N) /\ Len(<<>>) = 0 /\ ToSet(<<>>) = {}
  BY EmptyIs
<1>2. b \in Seq(N)
  BY FlatIs, SiftIs
<1>3. <<>> \o b = b
  <2> HIDE DEF b
  <2> QED
    BY <1>2, JoinEmpty
<1>4. r \in [ids : Seq(N), stack : Seq(N)] /\ r.ids = <<>> /\ r.stack = s
  BY <1>1
<1> HIDE DEF r
<1>5. Takes(t, s, M, 0, r)
  BY <1>1, <1>3, <1>4 DEF Takes
<1> QED
  BY <1>5 DEF r

LEMMA TakesOneMore ==
  ASSUME NEW t, IsTree(t), NEW filter, NEW s \in Seq(Nodes(t)), NEW i \in Nat \ {0},
         NEW r, Takes(t, s, Found(t, filter), i - 1, r)
  PROVE  Takes(t, s, Found(t, filter), i, TakeOne(t, filter, r))
<1> DEFINE N == Nodes(t)
           M == Found(t, filter)
           step == AdvanceWalk(t, r.stack, filter)
           next == TakeOne(t, filter, r)
           a == r.ids
           o == <<step.id>>
           b == Sift(Flat(t, step.stack), M)
<1>1. /\ r = [ids |-> r.ids, stack |-> r.stack]
      /\ r.stack \in Seq(N) /\ a \in Seq(N) /\ ToSet(a) \subseteq M
      /\ Len(a) <= i - 1 /\ Len(a) \in Nat
  BY DEF Takes
<1>2. Sift(Flat(t, s), M) = a \o Sift(Flat(t, r.stack), M)
  BY DEF Takes
<1>3. Finds(t, r.stack, M, step)
  BY <1>1, AdvanceFinds
<1>4. step.id \in N \cup {NoNode} /\ step.stack \in Seq(N)
  BY <1>3 DEF Finds, Steps
<1>5. CASE step.id = NoNode
  <2>1. next = [ids |-> a, stack |-> step.stack]
    BY <1>1, <1>5 DEF TakeOne
  <2>2. next \in [ids : Seq(N), stack : Seq(N)] /\ next.ids = a /\ next.stack = step.stack
    <3> HIDE DEF next, step, a
    <3> QED
      BY <1>1, <1>4, <2>1
  <2>3. step.stack = <<>> /\ Sift(Flat(t, r.stack), M) = <<>>
    BY <1>3, <1>5 DEF Finds
  <2>4. Flat(t, <<>>) = <<>> /\ Sift(<<>>, M) = <<>>
    BY FlatEmpty, SiftEmpty
  <2>5. Len(a) <= i
    <3> HIDE DEF a
    <3> QED
      BY <1>1
  <2> HIDE DEF next, step, a, M
  <2>6. Sift(Flat(t, s), M) = next.ids \o Sift(Flat(t, next.stack), M)
    BY <1>2, <2>2, <2>3, <2>4
  <2>7. Takes(t, s, M, i, next)
    BY <1>1, <2>2, <2>3, <2>5, <2>6 DEF Takes
  <2> QED
    BY <2>7 DEF next, M
<1>6. CASE step.id # NoNode
  <2> DEFINE ao == a \o o
  <2>1. step.id \in M /\ step.id \in N /\ Sift(Flat(t, r.stack), M) = o \o b
    BY <1>3, <1>4, <1>6 DEF Finds
  <2>2. o \in Seq(N) /\ b \in Seq(N) /\ Len(o) = 1
    <3>1. Flat(t, step.stack) \in Seq(N)
      BY <1>4, FlatIs
    <3>2. b \in Seq(N)
      BY <3>1, SiftIs
    <3>3. o \in Seq(N) /\ Len(o) = 1
      BY <2>1, OneIs
    <3> QED
      BY <3>2, <3>3
  <2>3. next = [ids |-> Append(a, step.id), stack |-> step.stack]
    BY <1>6 DEF TakeOne
  <2> HIDE DEF next
  <2>4. Append(a, step.id) = ao
    <3> HIDE DEF step, a
    <3> QED
      BY <1>1, <2>1
  <2>5. ao \in Seq(N) /\ ToSet(ao) = ToSet(a) \cup {step.id}
    <3> HIDE DEF step, a
    <3>1. a \in Seq(N) /\ step.id \in N
      BY <1>1, <2>1
    <3> QED
      BY <3>1, Longer
  <2>6. Len(ao) = Len(a) + 1
    <3> HIDE DEF step, a, o
    <3>1. a \in Seq(N) /\ o \in Seq(N)
      BY <1>1, <2>2
    <3>2. Len(a \o o) = Len(a) + Len(o)
      BY <3>1, JoinIs
    <3> QED
      BY <2>2, <3>2
  <2>7. Sift(Flat(t, s), M) = ao \o b
    <3> HIDE DEF a, o, b, M
    <3>1. All3(N, a, o, b)
      BY <1>1, <2>2 DEF All3
    <3>2. (a \o o) \o b = a \o (o \o b)
      BY <3>1, Assoc
    <3> QED
      BY <1>2, <2>1, <3>2
  <2> HIDE DEF ao, b, step, M
  <2>8. next \in [ids : Seq(N), stack : Seq(N)] /\ next.ids = ao /\ next.stack = step.stack
    BY <1>4, <2>3, <2>4, <2>5
  <2>9. ToSet(ao) \subseteq M /\ Len(ao) <= i /\ ao # <<>>
    <3>1. Len(ao) <= i /\ Len(ao) # 0
      BY <1>1, <2>6
    <3>2. ao # <<>>
      BY <3>1, EmptyIs
    <3> QED
      BY <1>1, <2>1, <2>5, <3>1, <3>2
  <2>10. Takes(t, s, M, i, next)
    BY <2>7, <2>8, <2>9 DEF Takes, b
  <2> QED
    BY <2>10 DEF next, M
<1> QED
  BY <1>5, <1>6

LEMMA TakeMatchesTakes ==
  ASSUME NEW t, IsTree(t), NEW filter, NEW s \in Seq(Nodes(t)), NEW max \in Nat
  PROVE  Takes(t, s, Found(t, filter), max, TakeMatches(t, s, filter, max))
<1> DEFINE M == Found(t, filter)
           X == [ids : Seq(Nodes(t)), stack : Seq(Nodes(t))]
           base == [ids |-> <<>>, stack |-> s]
           take == [i \in 1..max |-> [r \in X |-> TakeOne(t, filter, r)]]
           step(g) == [i \in 0..max |->
             LET sofar == g[i - 1]
                 next  == AdvanceWalk(t, sofar.stack, filter)
             IN  IF i = 0 THEN [ids |-> <<>>, stack |-> s]
                 ELSE IF next.id = NoNode THEN [sofar EXCEPT !.stack = next.stack]
                 ELSE [ids |-> Append(sofar.ids, next.id), stack |-> next.stack]]
           f == CHOOSE g : g = step(g)
<1>1. TakeMatches(t, s, filter, max) = f[max]
  BY Zenon DEF TakeMatches
<1>2. base \in X
  BY EmptyIs
<1>3. ASSUME NEW r \in X PROVE TakeOne(t, filter, r) \in X
  <2> DEFINE next == AdvanceWalk(t, r.stack, filter)
  <2>1. r.stack \in Seq(Nodes(t)) /\ r.ids \in Seq(Nodes(t)) /\ r = [ids |-> r.ids, stack |-> r.stack]
    OBVIOUS
  <2>2. next.id \in Nodes(t) \cup {NoNode} /\ next.stack \in Seq(Nodes(t))
    BY <2>1, AdvanceFinds DEF Finds, Steps
  <2> HIDE DEF next
  <2>3. next.id # NoNode => Append(r.ids, next.id) \in Seq(Nodes(t))
    BY <2>1, <2>2
  <2> QED
    BY <2>1, <2>2, <2>3 DEF TakeOne, next
<1> HIDE DEF X
<1>4. take \in [1..max -> [X -> X]]
  BY <1>3
<1> HIDE DEF take, base
<1>5. PICK g : Loop(g, X, max, base, take)
  BY <1>2, <1>4, LoopRuns
<1>6. ASSUME NEW h PROVE step(h) = [i \in 0..max |-> IF i = 0 THEN base ELSE TakeOne(t, filter, h[i - 1])]
  BY Zenon DEF TakeOne, base
<1> HIDE DEF step
<1>7. g = step(g)
  <2>1. g \in [0..max -> X] /\ g[0] = base
    BY <1>5 DEF Loop
  <2>2. ASSUME NEW i \in 1..max PROVE g[i] = TakeOne(t, filter, g[i - 1])
    <3>1. g[i] = take[i][g[i - 1]]
      BY <1>5 DEF Loop
    <3>2. i - 1 \in 0..max
      OBVIOUS
    <3>3. g[i - 1] \in X
      BY <2>1, <3>2
    <3> QED
      BY <3>1, <3>3 DEF take
  <2>3. \A i \in 0..max : g[i] = IF i = 0 THEN base ELSE TakeOne(t, filter, g[i - 1])
    <3> SUFFICES ASSUME NEW i \in 0..max
                 PROVE  g[i] = IF i = 0 THEN base ELSE TakeOne(t, filter, g[i - 1])
      OBVIOUS
    <3>1. i = 0 \/ i \in 1..max
      OBVIOUS
    <3> QED
      BY <2>1, <2>2, <3>1
  <2> DEFINE w == [i \in 0..max |-> IF i = 0 THEN base ELSE TakeOne(t, filter, g[i - 1])]
  <2>4. g = [i \in 0..max |-> g[i]]
    BY <2>1
  <2>5. w = [i \in 0..max |-> g[i]]
    BY <2>3, Zenon
  <2> QED
    BY <1>6, <2>4, <2>5, Zenon
<1>8. f = step(f)
  BY <1>7, Zenon
<1> HIDE DEF f
<1>9. f = [i \in 0..max |-> IF i = 0 THEN base ELSE TakeOne(t, filter, f[i - 1])]
  BY <1>6, <1>8, Zenon
<1> DEFINE G == {i \in 0..max : Takes(t, s, M, i, f[i])}
<1>10. 0 \in G
  <2>1. f[0] = base
    BY <1>9
  <2>2. Takes(t, s, M, 0, base)
    BY TakesNone DEF base
  <2> QED
    BY <2>1, <2>2
<1>11. ASSUME NEW i \in 1..max, i - 1 \in G PROVE i \in G
  <2>1. f[i] = TakeOne(t, filter, f[i - 1])
    BY <1>9
  <2>2. Takes(t, s, M, i - 1, f[i - 1]) /\ i \in Nat \ {0} /\ i \in 0..max
    BY <1>11
  <2>3. Takes(t, s, M, i, TakeOne(t, filter, f[i - 1]))
    BY <2>2, TakesOneMore
  <2> QED
    BY <2>1, <2>2, <2>3
<1> HIDE DEF G
<1>12. 0..max \subseteq G
  BY <1>10, <1>11, Induction
<1>13. max \in 0..max
  OBVIOUS
<1> QED
  BY <1>1, <1>12, <1>13 DEF G

(* How many matches a stack has still to list.                             *)
Matching(t, filter) == [s \in Seq(Nodes(t)) |-> Len(Sift(Flat(t, s), Found(t, filter)))]

Fewer(t, filter) == Lower(Seq(Nodes(t)), Matching(t, filter))

LEMMA StacksDescendByMatches ==
  ASSUME NEW t, IsTree(t), NEW filter
  PROVE  Descends(Seq(Nodes(t)), Fewer(t, filter))
<1>1. Matching(t, filter) \in [Seq(Nodes(t)) -> Nat]
  <2> SUFFICES ASSUME NEW s \in Seq(Nodes(t))
               PROVE  Len(Sift(Flat(t, s), Found(t, filter))) \in Nat
    BY DEF Matching
  <2>1. Flat(t, s) \in Seq(Nodes(t))
    BY FlatIs
  <2>2. Sift(Flat(t, s), Found(t, filter)) \in Seq(Nodes(t))
    BY <2>1, SiftIs
  <2> QED
    BY <2>2
<1> QED
  BY <1>1, MeasureDescends DEF Fewer

LEMMA NextIsFewer ==
  ASSUME NEW t, IsTree(t), NEW filter, NEW s \in Seq(Nodes(t)),
         NEW r, r = AdvanceWalk(t, s, filter), r.id # NoNode
  PROVE  /\ r.stack \in Fewer(t, filter)[s] /\ r.id \in Nodes(t) /\ r.stack \in Seq(Nodes(t))
         /\ Sift(Flat(t, s), Found(t, filter)) =
              <<r.id>> \o Sift(Flat(t, r.stack), Found(t, filter))
<1> DEFINE N == Nodes(t)
           M == Found(t, filter)
           o == <<r.id>>
           b == Sift(Flat(t, r.stack), M)
<1>1. Finds(t, s, M, r)
  BY AdvanceFinds
<1>2. r.stack \in Seq(N) /\ r.id \in N /\ Sift(Flat(t, s), M) = o \o b
  BY <1>1 DEF Finds, Steps
<1>3. o \in Seq(N) /\ Len(o) = 1
  BY <1>2, OneIs
<1>4. b \in Seq(N)
  BY <1>2, FlatIs, SiftIs
<1> HIDE DEF o, b
<1>5. Len(o \o b) = 1 + Len(b) /\ Len(b) \in Nat
  <2>1. Len(o \o b) = Len(o) + Len(b) /\ Len(b) \in Nat
    BY <1>3, <1>4, JoinIs
  <2> QED
    BY <1>3, <2>1
<1>6. Len(b) < Len(Sift(Flat(t, s), M))
  BY <1>2, <1>5
<1>7. r.stack \in Fewer(t, filter)[s]
  BY <1>2, <1>6 DEF Fewer, Lower, Matching, b
<1> QED
  BY <1>2, <1>7 DEF o, b

(* The equation that defines Scan.                                         *)
ScanStep(t, filter, f) ==
  [s \in Seq(Nodes(t)) |->
     LET step == AdvanceWalk(t, s, filter)
     IN  IF step.id = NoNode THEN <<>> ELSE <<step.id>> \o f[step.stack]]

LEMMA ScanStepIs ==
  ASSUME NEW t, IsTree(t), NEW filter, NEW s \in Seq(Nodes(t)),
         NEW f, Maps(f, Seq(Nodes(t)), Seq(Nodes(t)))
  PROVE  ScanStep(t, filter, f)[s] \in Seq(Nodes(t))
<1> DEFINE N == Nodes(t)
           r == AdvanceWalk(t, s, filter)
           o == <<r.id>>
           b == f[r.stack]
<1>1. CASE r.id = NoNode
  <2>1. ScanStep(t, filter, f)[s] = <<>>
    BY <1>1 DEF ScanStep
  <2> QED
    BY <2>1, EmptyIs
<1>2. CASE r.id # NoNode
  <2>1. r.id \in N /\ r.stack \in Seq(N)
    BY <1>2, NextIsFewer
  <2>2. o \in Seq(N) /\ b \in Seq(N)
    BY <2>1, OneIs DEF Maps
  <2>3. ScanStep(t, filter, f)[s] = o \o b
    BY <1>2 DEF ScanStep
  <2> HIDE DEF o, b
  <2>4. o \o b \in Seq(N)
    BY <2>2, JoinIs
  <2> QED
    BY <2>3, <2>4
<1> QED
  BY <1>1, <1>2

LEMMA ScanRuns ==
  ASSUME NEW t, IsTree(t), NEW filter
  PROVE  \E f : Maps(f, Seq(Nodes(t)), Seq(Nodes(t))) /\ f = ScanStep(t, filter, f)
<1> DEFINE D == Seq(Nodes(t))
           step == [f \in [D -> D] |-> ScanStep(t, filter, f)]
           below == Fewer(t, filter)
<1>1. step \in [[D -> D] -> [D -> D]]
  <2> SUFFICES ASSUME NEW f \in [D -> D], NEW s \in D PROVE ScanStep(t, filter, f)[s] \in D
    BY DEF ScanStep
  <2>1. Maps(f, D, D)
    BY DEF Maps
  <2> QED
    BY <2>1, ScanStepIs
<1>2. ASSUME NEW f \in [D -> D], NEW g \in [D -> D], NEW s \in D,
             \A e \in below[s] : f[e] = g[e]
      PROVE  step[f][s] = step[g][s]
  <2> DEFINE r == AdvanceWalk(t, s, filter)
  <2>1. r.id # NoNode => f[r.stack] = g[r.stack]
    BY <1>2, NextIsFewer
  <2>2. ScanStep(t, filter, f)[s] = ScanStep(t, filter, g)[s]
    BY <2>1 DEF ScanStep
  <2> QED
    BY <2>2
<1> HIDE DEF below
<1>3. Local(D, D, below, step)
  BY <1>1, <1>2, Zenon DEF Local
<1>4. \A f \in [D -> D] : step[f] = ScanStep(t, filter, f)
  OBVIOUS
<1>5. Descends(D, below)
  BY StacksDescendByMatches DEF below
<1>6. <<>> \in D
  BY EmptyIs
<1> HIDE DEF step, D
<1>7. \E f \in [D -> D] : f = step[f]
  BY <1>3, <1>5, <1>6, RecursionRuns
<1>8. PICK f \in [D -> D] : f = ScanStep(t, filter, f)
  BY <1>4, <1>7
<1> QED
  BY <1>8 DEF Maps, D

(* An undisturbed walk lists the matches in document order.                *)
LEMMA ScanIs ==
  ASSUME NEW t, IsTree(t), NEW filter, NEW n \in Nodes(t)
  PROVE  Scan(t, n, filter) = Sift(PreOrder(t, n), Found(t, filter))
<1> DEFINE D == Seq(Nodes(t))
           M == Found(t, filter)
           step(g) == [s \in Seq(Nodes(t)) |->
             LET next == AdvanceWalk(t, s, filter)
             IN  IF next.id = NoNode THEN <<>> ELSE <<next.id>> \o g[next.stack]]
           f == CHOOSE g : g = step(g)
           below == Fewer(t, filter)
<1>1. Scan(t, n, filter) = f[<<n>>]
  BY Zenon DEF Scan
<1>2. ASSUME NEW g PROVE ScanStep(t, filter, g) = step(g)
  BY Zenon DEF ScanStep
<1> HIDE DEF step
<1>3. \E g : g = step(g)
  <2>1. PICK g : g = ScanStep(t, filter, g)
    BY ScanRuns
  <2>2. ScanStep(t, filter, g) = step(g)
    BY <1>2, Zenon
  <2> QED
    BY <2>1, <2>2, Zenon
<1>4. f = step(f)
  BY <1>3, Zenon
<1> HIDE DEF f
<1>5. f = ScanStep(t, filter, f)
  BY <1>2, <1>4
<1> DEFINE S == {s \in D : f[s] # Sift(Flat(t, s), M)}
<1>6. S = {}
  <2> SUFFICES ASSUME S # {} PROVE FALSE
    OBVIOUS
  <2>1. S \in SUBSET D
    OBVIOUS
  <2> HIDE DEF S
  <2>2. PICK s \in S : below[s] \cap S = {}
    BY <2>1, StacksDescendByMatches, Zenon DEF Descends
  <2> DEFINE r == AdvanceWalk(t, s, filter)
  <2>3. s \in D
    BY <2>1
  <2>4. f[s] = IF r.id = NoNode THEN <<>> ELSE <<r.id>> \o f[r.stack]
    BY <1>5, <2>3, Zenon DEF ScanStep
  <2>5. CASE r.id = NoNode
    <3>1. Sift(Flat(t, s), M) = <<>>
      BY <2>3, <2>5, AdvanceFinds DEF Finds
    <3> QED
      BY <2>2, <2>4, <2>5, <3>1 DEF S
  <2>6. CASE r.id # NoNode
    <3>1. /\ r.stack \in below[s] /\ r.stack \in D
          /\ Sift(Flat(t, s), M) = <<r.id>> \o Sift(Flat(t, r.stack), M)
      BY <2>3, <2>6, NextIsFewer
    <3>2. f[r.stack] = Sift(Flat(t, r.stack), M)
      BY <2>2, <3>1 DEF S
    <3> HIDE DEF r
    <3> QED
      BY <2>2, <2>4, <2>6, <3>1, <3>2 DEF S
  <2> QED
    BY <2>5, <2>6
<1>7. <<n>> \in D /\ Flat(t, <<n>>) = PreOrder(t, n)
  BY OneIs, FlatOne
<1> QED
  BY <1>1, <1>6, <1>7

-----------------------------------------------------------------------------
(* How often a list names an entry.                                        *)

HowOften(s, x) == Len(Sift(s, {x}))

Once(s) == \A x : HowOften(s, x) <= 1

LEMMA HowOftenIs ==
  ASSUME NEW X, NEW s \in Seq(X), NEW x
  PROVE  HowOften(s, x) \in Nat /\ (x \in ToSet(s) <=> HowOften(s, x) # 0)
<1> DEFINE u == Sift(s, {x})
<1>1. u \in Seq(X) /\ ToSet(u) = ToSet(s) \cap {x}
  BY SiftIs, SiftRange
<1>2. HowOften(s, x) = Len(u)
  BY DEF HowOften
<1> HIDE DEF u
<1>3. Len(u) \in Nat /\ (Len(u) = 0 <=> u = <<>>)
  BY <1>1
<1>4. u = <<>> <=> ToSet(u) = {}
  <2>1. u = <<>> => ToSet(u) = {}
    BY EmptyIs
  <2>2. u # <<>> => u[1] \in ToSet(u)
    BY <1>1, <1>3 DEF ToSet
  <2> QED
    BY <2>1, <2>2
<1> QED
  BY <1>1, <1>2, <1>3, <1>4

LEMMA HowOftenJoin ==
  ASSUME NEW X, NEW a, NEW b, Two(X, a, b), NEW x
  PROVE  HowOften(a \o b, x) = HowOften(a, x) + HowOften(b, x)
<1> DEFINE u == Sift(a, {x})
           v == Sift(b, {x})
<1>1. Sift(a \o b, {x}) = u \o v
  BY SiftTwo
<1>2. u \in Seq(X) /\ v \in Seq(X)
  BY SiftIs DEF Two
<1> HIDE DEF u, v
<1>3. Len(u \o v) = Len(u) + Len(v)
  BY <1>2, JoinIs
<1> QED
  BY <1>1, <1>3 DEF HowOften, u, v

LEMMA HowOftenOne ==
  ASSUME NEW y, NEW x
  PROVE  HowOften(<<y>>, x) = IF y = x THEN 1 ELSE 0
<1>1. Sift(<<y>>, {x}) = IF y \in {x} THEN <<y>> ELSE <<>>
  BY SiftOne
<1>2. Len(<<y>>) = 1 /\ Len(<<>>) = 0
  BY OneIs, EmptyIs
<1> QED
  BY <1>1, <1>2 DEF HowOften

LEMMA HowOftenEmpty ==
  ASSUME NEW x
  PROVE  HowOften(<<>>, x) = 0
<1>1. Sift(<<>>, {x}) = <<>> /\ Len(<<>>) = 0
  BY SiftEmpty, EmptyIs
<1> QED
  BY <1>1 DEF HowOften

-----------------------------------------------------------------------------
(* A walk meets every node once.                                           *)

(* A node of a subtree, other than its root, has its parent in it.         *)
LEMMA ParentInSubtree ==
  ASSUME NEW t, IsTree(t), NEW a \in Nodes(t), NEW x \in Subtree(t, a), x # a
  PROVE  \E y \in Subtree(t, a) : x \in ToSet(t.kids[y])
<1> DEFINE C == {a} \cup {z \in Nodes(t) : \E y \in Subtree(t, a) : z \in ToSet(t.kids[y])}
<1>1. a \in Subtree(t, a) /\ Subtree(t, a) \subseteq Nodes(t) /\ Closed(t, Subtree(t, a))
  BY SubtreeIs
<1>2. C \subseteq Subtree(t, a)
  BY <1>1 DEF Closed
<1>3. Closed(t, C)
  <2> SUFFICES ASSUME NEW n \in Nodes(t), n \in C, NEW z \in ToSet(t.kids[n]) PROVE z \in C
    BY DEF Closed
  <2>1. z \in Nodes(t)
    BY TreeIs
  <2> QED
    BY <1>2, <2>1
<1>4. a \in C
  OBVIOUS
<1> HIDE DEF C
<1>5. Subtree(t, a) \subseteq C
  BY <1>3, <1>4, ClosedKeeps DEF Subtree
<1> QED
  BY <1>5 DEF C

(* No node is below its own child.                                         *)
LEMMA NoCycle ==
  ASSUME NEW t, IsTree(t), NEW m \in Nodes(t), NEW b \in ToSet(t.kids[m])
  PROVE  b \in Nodes(t) /\ m \notin Subtree(t, b)
<1>1. b \in Nodes(t)
  BY TreeIs
<1> DEFINE S == {y \in Nodes(t) : m \in Subtree(t, y)}
<1>2. SUFFICES ASSUME m \in Subtree(t, b) PROVE FALSE
  BY <1>1
<1>3. m \in S
  BY SubtreeIs
<1>4. ASSUME NEW y \in S PROVE ToSet(t.kids[y]) \cap S # {}
  <2>1. CASE y = m
    BY <1>1, <1>2, <2>1
  <2>2. CASE y # m
    <3>1. ToSet(PreOrder(t, y)) = {y} \cup UNION {ToSet(PreOrder(t, z)) : z \in ToSet(t.kids[y])}
      BY PreOrderRange
    <3>2. PICK z \in ToSet(t.kids[y]) : m \in Subtree(t, z)
      BY <2>2, <3>1 DEF Subtree
    <3>3. z \in Nodes(t)
      BY TreeIs
    <3> QED
      BY <3>2, <3>3
  <2> QED
    BY <2>1, <2>2
<1>5. S \in SUBSET Nodes(t)
  OBVIOUS
<1> HIDE DEF S
<1>6. PICK y \in S : Below(t)[y] \cap S = {}
  BY <1>3, <1>5, TreeIs, Zenon DEF Descends
<1> QED
  BY <1>4, <1>5, <1>6 DEF Below

(* Two children of a node have no node in common.                          *)
Apart(t, s) ==
  \A i, j \in DOMAIN s : i # j => Subtree(t, s[i]) \cap Subtree(t, s[j]) = {}

LEMMA SiblingsApart ==
  ASSUME NEW t, IsTree(t), NEW m \in Nodes(t)
  PROVE  Apart(t, t.kids[m])
<1> DEFINE k == t.kids[m]
<1>1. k \in Seq(Nodes(t)) /\ ToSet(k) \subseteq Nodes(t)
  BY TreeIs
<1>2. ASSUME NEW i \in DOMAIN k, NEW j \in DOMAIN k, i # j
      PROVE  k[i] \notin Subtree(t, k[j])
  <2>1. k[i] \in ToSet(k) /\ k[j] \in ToSet(k) /\ k[i] \in Nodes(t) /\ k[j] \in Nodes(t)
    BY <1>1 DEF ToSet
  <2>2. SUFFICES ASSUME k[i] \in Subtree(t, k[j]) PROVE FALSE
    OBVIOUS
  <2>3. k[i] # k[j]
    BY <1>2 DEF IsTree
  <2>4. PICK y \in Subtree(t, k[j]) : k[i] \in ToSet(t.kids[y])
    BY <2>1, <2>2, <2>3, ParentInSubtree
  <2>5. y \in Nodes(t)
    BY <2>1, SubtreeIs
  <2>6. PICK h \in DOMAIN t.kids[y] : t.kids[y][h] = k[i]
    BY <2>4 DEF ToSet
  <2>7. y = m
    BY <2>5, <2>6 DEF IsTree
  <2> QED
    BY <2>1, <2>4, <2>7, NoCycle
<1>3. ASSUME NEW i \in DOMAIN k, NEW j \in DOMAIN k, i # j
      PROVE  Subtree(t, k[i]) \cap Subtree(t, k[j]) = {}
  <2> DEFINE a == k[i]
             b == k[j]
             C == Subtree(t, a) \ Subtree(t, b)
  <2>1. a \in Nodes(t) /\ b \in Nodes(t) /\ a \notin Subtree(t, b) /\ b \notin Subtree(t, a)
    BY <1>1, <1>2, <1>3 DEF ToSet
  <2> HIDE DEF a, b
  <2>2. a \in Subtree(t, a) /\ Subtree(t, a) \subseteq Nodes(t) /\ Closed(t, Subtree(t, a))
    BY <2>1, SubtreeIs
  <2>3. Closed(t, C)
    <3> SUFFICES ASSUME NEW n \in Nodes(t), n \in C, NEW z \in ToSet(t.kids[n]), z \in Subtree(t, b)
                 PROVE  FALSE
      BY <2>2 DEF Closed
    <3>1. z \in Subtree(t, a)
      BY <2>2 DEF Closed
    <3>2. z # b
      BY <2>1, <3>1
    <3>3. PICK y \in Subtree(t, b) : z \in ToSet(t.kids[y])
      BY <2>1, <3>2, ParentInSubtree
    <3>4. y \in Nodes(t)
      BY <2>1, SubtreeIs
    <3>5. PICK h \in DOMAIN t.kids[y] : t.kids[y][h] = z
      BY <3>3 DEF ToSet
    <3>6. PICK g \in DOMAIN t.kids[n] : t.kids[n][g] = z
      BY DEF ToSet
    <3>7. y = n
      BY <3>4, <3>5, <3>6 DEF IsTree
    <3> QED
      BY <3>3, <3>7
  <2>4. a \in C
    BY <2>1, <2>2
  <2> HIDE DEF C
  <2>5. Subtree(t, a) \subseteq C
    BY <2>1, <2>3, <2>4, ClosedKeeps DEF Subtree
  <2> QED
    BY <2>5 DEF C, a, b
<1> QED
  BY <1>3 DEF Apart

LEMMA ListingOnce ==
  ASSUME NEW t, IsTree(t), NEW s \in Seq(Nodes(t)), Apart(t, s),
         \A x \in ToSet(s) : Once(PreOrder(t, x))
  PROVE  Once(Listing(t, s))
<1> DEFINE N == Nodes(t)
           Good(u) == Apart(t, u) /\ \A x \in ToSet(u) : Once(PreOrder(t, x))
           G == {u \in Seq(N) : Good(u) => Once(Listing(t, u))}
           none == <<>>
<1>1. none \in G
  <2>1. none \in Seq(N) /\ Listing(t, none) = <<>>
    BY EmptyIs, ListingEmpty
  <2>2. Once(<<>>)
    BY HowOftenEmpty DEF Once
  <2> HIDE DEF none
  <2> QED
    BY <2>1, <2>2
<1>2. ASSUME NEW u \in Seq(N), NEW x \in N, u \in G PROVE u \o <<x>> \in G
  <2> DEFINE o == <<x>>
             w == u \o o
             a == Listing(t, u)
             b == PreOrder(t, x)
  <2>1. /\ w \in Seq(N) /\ o \in Seq(N) /\ Listing(t, o) = b /\ Len(o) = 1 /\ o[1] = x
        /\ ToSet(w) = ToSet(u) \cup {x}
    BY Longer, ListingOne, OneIs
  <2> HIDE DEF o
  <2>2. /\ DOMAIN w = 1..(Len(u) + 1) /\ DOMAIN u = 1..Len(u) /\ Len(u) \in Nat
        /\ \A i \in 1..Len(u) : w[i] = u[i]
        /\ w[Len(u) + 1] = x
    <3>1. /\ DOMAIN w = 1..(Len(u) + Len(o)) /\ DOMAIN u = 1..Len(u) /\ Len(u) \in Nat
          /\ \A i \in 1..Len(u) : w[i] = u[i]
          /\ \A i \in 1..Len(o) : w[Len(u) + i] = o[i]
      <4>1. u \in Seq(N) /\ o \in Seq(N)
        BY <2>1
      <4> QED
        BY <4>1, JoinIs
    <3> HIDE DEF w
    <3> QED
      BY <2>1, <3>1
  <2>3. Listing(t, w) = a \o b
    BY <2>1, ListingJoin
  <2>4. a \in Seq(N) /\ b \in Seq(N)
    BY ListingIs, PreOrderSeq
  <2> HIDE DEF w
  <2>5. ASSUME Good(w) PROVE Once(Listing(t, w))
    <3>1. Good(u)
      <4>1. Apart(t, u)
        <5> SUFFICES ASSUME NEW i \in 1..Len(u), NEW j \in 1..Len(u), i # j
                     PROVE  Subtree(t, u[i]) \cap Subtree(t, u[j]) = {}
          BY <2>2 DEF Apart
        <5>1. i \in DOMAIN w /\ j \in DOMAIN w /\ w[i] = u[i] /\ w[j] = u[j]
          BY <2>2
        <5> QED
          BY <2>5, <5>1 DEF Apart
      <4> QED
        BY <2>1, <2>5, <4>1
    <3>2. Once(a) /\ Once(b)
      BY <1>2, <2>1, <2>5, <3>1
    <3>3. ASSUME NEW z \in ToSet(u) PROVE Subtree(t, z) \cap Subtree(t, x) = {}
      <4>1. PICK i \in 1..Len(u) : u[i] = z
        BY <2>2 DEF ToSet
      <4>2. i \in DOMAIN w /\ Len(u) + 1 \in DOMAIN w /\ w[i] = z /\ i # Len(u) + 1
        BY <2>2, <4>1
      <4> QED
        BY <2>2, <2>5, <4>2 DEF Apart
    <3>4. ASSUME NEW y PROVE HowOften(a \o b, y) <= 1
      <4>1. HowOften(a \o b, y) = HowOften(a, y) + HowOften(b, y)
        <5>1. Two(N, a, b)
          BY <2>4 DEF Two
        <5> HIDE DEF a, b
        <5> QED
          BY <5>1, HowOftenJoin
      <4>2. /\ HowOften(a, y) \in Nat /\ HowOften(b, y) \in Nat
            /\ y \in ToSet(a) <=> HowOften(a, y) # 0
            /\ y \in ToSet(b) <=> HowOften(b, y) # 0
        BY <2>4, HowOftenIs
      <4>3. HowOften(a, y) <= 1 /\ HowOften(b, y) <= 1
        BY <3>2 DEF Once
      <4>4. y \notin ToSet(a) \/ y \notin ToSet(b)
        <5>1. ToSet(a) = UNION {Subtree(t, z) : z \in ToSet(u)} /\ ToSet(b) = Subtree(t, x)
          BY ListingRange DEF Subtree
        <5> HIDE DEF a, b
        <5> QED
          BY <3>3, <5>1
      <4> HIDE DEF a, b
      <4> QED
        BY <4>1, <4>2, <4>3, <4>4
    <3> QED
      BY <2>3, <3>4 DEF Once
  <2> QED
    BY <2>1, <2>5 DEF w, o
<1>3. Seq(N) \subseteq G
  <2> HIDE DEF G
  <2> QED
    BY <1>1, <1>2, AppendInduction
<1> QED
  BY <1>3

LEMMA PreOrderOnce ==
  ASSUME NEW t, IsTree(t)
  PROVE  \A n \in Nodes(t) : Once(PreOrder(t, n))
<1> DEFINE N == Nodes(t)
           G == {n \in N : Once(PreOrder(t, n))}
<1>1. ASSUME NEW n \in N, ToSet(t.kids[n]) \subseteq G PROVE n \in G
  <2> DEFINE k == t.kids[n]
             a == Listing(t, k)
             o == <<n>>
  <2>1. k \in Seq(N) /\ ToSet(k) \subseteq N /\ Apart(t, k)
    BY TreeIs, SiblingsApart
  <2>2. Once(a)
    BY <1>1, <2>1, ListingOnce
  <2>3. a \in Seq(N) /\ o \in Seq(N) /\ PreOrder(t, n) = o \o a
    BY <2>1, ListingIs, OneIs, PreOrderIs
  <2>4. n \notin ToSet(a)
    <3>1. ToSet(a) = UNION {ToSet(PreOrder(t, z)) : z \in ToSet(k)}
      BY <2>1, ListingRange
    <3>2. \A z \in ToSet(k) : n \notin Subtree(t, z)
      BY NoCycle
    <3> QED
      BY <3>1, <3>2 DEF Subtree
  <2>5. ASSUME NEW y PROVE HowOften(o \o a, y) <= 1
    <3>1. Two(N, o, a)
      BY <2>3 DEF Two
    <3>2. HowOften(o, y) = IF n = y THEN 1 ELSE 0
      BY HowOftenOne
    <3>3. HowOften(a, y) \in Nat /\ (y \in ToSet(a) <=> HowOften(a, y) # 0)
      BY <2>3, HowOftenIs
    <3>4. HowOften(a, y) <= 1
      BY <2>2 DEF Once
    <3> HIDE DEF o, a
    <3>5. HowOften(o \o a, y) = HowOften(o, y) + HowOften(a, y)
      BY <3>1, HowOftenJoin
    <3> QED
      BY <2>4, <3>2, <3>3, <3>4, <3>5
  <2> QED
    BY <2>3, <2>5 DEF Once
<1> HIDE DEF G
<1>2. N \subseteq G
  BY <1>1, TreeInduction
<1> QED
  BY <1>2 DEF G

-----------------------------------------------------------------------------
(* Edits that only unlink nodes.                                           *)

LEMMA OnePlace ==
  ASSUME NEW t, IsTree(t), NEW p \in Nodes(t), NEW q \in Nodes(t),
         NEW i \in DOMAIN t.kids[p], NEW j \in DOMAIN t.kids[q], t.kids[p][i] = t.kids[q][j]
  PROVE  p = q /\ i = j
  BY DEF IsTree

Fits(r, N) ==
  /\ r = [kids |-> r.kids, kind |-> r.kind, name |-> r.name, attr |-> r.attr, text |-> r.text]
  /\ r.kids \in [N -> Seq(N)]
  /\ r.kind \in [N -> {"element", "text", "cdata", "comment", "pi"}]
  /\ r.attr \in [N -> (MinInt .. MaxInt) \cup {NoValue, NotANumber}]
  /\ r.text \in [N -> Seq(Nat)]

(* r is t with fewer links; its elements may have other payloads.          *)
Thins(t, r) ==
  /\ Fits(r, Nodes(t))
  /\ \A x \in Nodes(t) :
       /\ t.kind[x] = "element" => r.kind[x] = "element"
       /\ \E S : r.kids[x] = NotIn(t.kids[x], S)

LEMMA ThinsKeeps ==
  ASSUME NEW t, IsTree(t), NEW r, Thins(t, r)
  PROVE  /\ IsTree(r) /\ Nodes(r) = Nodes(t)
         /\ \A x \in Nodes(t) : ToSet(r.kids[x]) \subseteq ToSet(t.kids[x])
<1> DEFINE N == Nodes(t)
<1>1. Fits(r, N) /\ Nodes(r) = N
  BY DEF Thins, Fits, Nodes
<1>2. \A x \in N : t.kids[x] \in Seq(N)
  BY TreeIs
<1>3. ASSUME NEW x \in N
      PROVE  /\ ToSet(r.kids[x]) \subseteq ToSet(t.kids[x])
             /\ \E g : Thinned(t.kids[x], r.kids[x], g)
  <2>1. PICK S : r.kids[x] = NotIn(t.kids[x], S)
    BY DEF Thins
  <2>2. t.kids[x] \in Seq(N)
    BY <1>2
  <2>3. ToSet(NotIn(t.kids[x], S)) = ToSet(t.kids[x]) \ S
    BY <2>2, NotInRange
  <2>4. PICK g : Spares(t.kids[x], S, NotIn(t.kids[x], S), g)
    BY <2>2, NotInIs
  <2> QED
    BY <2>1, <2>3, <2>4 DEF Spares
<1>4. NoNode \notin N /\ IsFiniteSet(N)
  BY DEF IsTree
<1>5. ASSUME NEW x \in N, r.kids[x] # <<>> PROVE r.kind[x] = "element"
  <2>1. r.kids[x] \in Seq(N)
    BY <1>1 DEF Fits
  <2>2. r.kids[x][1] \in ToSet(r.kids[x])
    BY <1>5, <2>1 DEF ToSet
  <2>3. t.kids[x] # <<>>
    BY <1>3, <2>2, EmptyIs
  <2>4. t.kind[x] = "element"
    BY <2>3 DEF IsTree
  <2> QED
    BY <2>4 DEF Thins
<1>6. ASSUME NEW p \in N, NEW q \in N, NEW i \in DOMAIN r.kids[p], NEW j \in DOMAIN r.kids[q],
             r.kids[p][i] = r.kids[q][j]
      PROVE  p = q /\ i = j
  <2>1. PICK g : Thinned(t.kids[p], r.kids[p], g)
    BY <1>3
  <2>2. PICK h : Thinned(t.kids[q], r.kids[q], h)
    BY <1>3
  <2>3. g[i] \in DOMAIN t.kids[p] /\ h[j] \in DOMAIN t.kids[q] /\ t.kids[p][g[i]] = t.kids[q][h[j]]
    BY <1>6, <2>1, <2>2 DEF Thinned
  <2>4. p = q /\ g[i] = h[j]
    BY <2>3, OnePlace
  <2>5. PICK S : r.kids[p] = NotIn(t.kids[p], S)
    BY DEF Thins
  <2>6. PICK f : Thinned(t.kids[p], r.kids[p], f)
    BY <1>3
  <2>7. f[i] \in DOMAIN t.kids[p] /\ f[j] \in DOMAIN t.kids[p] /\ t.kids[p][f[i]] = t.kids[p][f[j]]
    BY <1>6, <2>4, <2>6 DEF Thinned
  <2>8. f[i] = f[j]
    BY <2>7, OnePlace
  <2>9. r.kids[p] \in Seq(N) /\ t.kids[p] \in Seq(N)
    BY <1>1, <1>2 DEF Fits
  <2>10. i \in Int /\ j \in Int /\ f[i] \in Int
    BY <2>4, <2>7, <2>9
  <2>11. ~(i < j) /\ ~(j < i)
    BY <2>4, <2>6, <2>8, <2>10 DEF Thinned
  <2> QED
    BY <2>4, <2>10, <2>11
<1>7. \A S \in SUBSET N : S # {} => \E n \in S : ToSet(r.kids[n]) \cap S = {}
  <2> SUFFICES ASSUME NEW S \in SUBSET N, S # {} PROVE \E n \in S : ToSet(r.kids[n]) \cap S = {}
    OBVIOUS
  <2>1. PICK n \in S : Below(t)[n] \cap S = {}
    BY TreeIs, Zenon DEF Descends
  <2>2. ToSet(r.kids[n]) \subseteq Below(t)[n]
    BY <1>3 DEF Below
  <2> QED
    BY <2>1, <2>2
<1>8. IsTree(r)
  BY <1>1, <1>4, <1>5, <1>6, <1>7, Zenon DEF IsTree, Fits
<1> QED
  BY <1>1, <1>3, <1>8

(* A list of fewer nodes, each with fewer descendants, lists fewer.        *)
LEMMA ListingFewer ==
  ASSUME NEW t, IsTree(t), NEW r, IsTree(r), Nodes(r) = Nodes(t), NEW S, NEW y,
         NEW s \in Seq(Nodes(t)),
         \A x \in ToSet(s) : HowOften(PreOrder(r, x), y) <= HowOften(PreOrder(t, x), y)
  PROVE  HowOften(Listing(r, NotIn(s, S)), y) <= HowOften(Listing(t, s), y)
<1> DEFINE N == Nodes(t)
           Less(x) == HowOften(PreOrder(r, x), y) <= HowOften(PreOrder(t, x), y)
           Good(u) == \A x \in ToSet(u) : Less(x)
           G == {u \in Seq(N) : Good(u) =>
                   HowOften(Listing(r, NotIn(u, S)), y) <= HowOften(Listing(t, u), y)}
           none == <<>>
<1>1. none \in G
  <2>1. none \in Seq(N) /\ ToSet(none) = {}
    BY EmptyIs
  <2>2. NotIn(none, S) = none
    BY <2>1, NotInSome
  <2>3. Listing(t, none) = none /\ Listing(r, none) = none
    BY ListingEmpty
  <2>4. HowOften(none, y) = 0
    BY HowOftenEmpty
  <2> HIDE DEF none
  <2> QED
    BY <2>1, <2>2, <2>3, <2>4
<1>2. ASSUME NEW u \in Seq(N), NEW x \in N, u \in G PROVE u \o <<x>> \in G
  <2> DEFINE o == <<x>>
             w == u \o o
             v == NotIn(u, S)
             l == NotIn(o, S)
             a == Listing(t, u)
             b == PreOrder(t, x)
             c == Listing(r, v)
             d == Listing(r, l)
  <2>1. /\ w \in Seq(N) /\ o \in Seq(N) /\ Listing(t, o) = b /\ Listing(r, o) = PreOrder(r, x)
        /\ ToSet(w) = ToSet(u) \cup {x} /\ ToSet(o) = {x}
    BY Longer, ListingOne, OneIs, OneRange
  <2> HIDE DEF o
  <2>2. /\ v \in Seq(N) /\ l \in Seq(N) /\ NotIn(w, S) = v \o l
        /\ l = IF x \in S THEN <<>> ELSE o
    <3>0. u \in Seq(N) /\ o \in Seq(N)
      BY <2>1
    <3>1. NotIn(w, S) = v \o l /\ v \in Seq(N)
      <4>1. NotIn(u \o o, S) = NotIn(u, S) \o NotIn(o, S)
        BY <3>0, NotInJoin
      <4>2. NotIn(u, S) \in Seq(N)
        BY <3>0, NotInSome
      <4> QED
        BY <4>1, <4>2
    <3>2. /\ l \in Seq(N) /\ ({x} \cap S = {} => l = o)
          /\ ({x} \subseteq S => l = <<>>)
      BY <2>1, NotInSome
    <3> HIDE DEF v, l
    <3>3. l = IF x \in S THEN <<>> ELSE o
      BY <3>2
    <3> QED
      BY <3>1, <3>2, <3>3
  <2> HIDE DEF v, l
  <2>3. Listing(t, w) = a \o b /\ Listing(r, NotIn(w, S)) = c \o d
    <3>1. Listing(t, w) = a \o b
      BY <2>1, ListingJoin
    <3>2. v \in Seq(Nodes(r)) /\ l \in Seq(Nodes(r))
      BY <2>2
    <3>3. Listing(r, v \o l) = c \o d
      BY <3>2, ListingJoin
    <3> QED
      BY <2>2, <3>1, <3>3
  <2>4. /\ a \in Seq(N) /\ b \in Seq(N) /\ c \in Seq(N) /\ d \in Seq(N)
        /\ PreOrder(r, x) \in Seq(N)
    BY <2>2, ListingIs, PreOrderSeq
  <2> HIDE DEF w
  <2>5. ASSUME Good(w) PROVE HowOften(c \o d, y) <= HowOften(a \o b, y)
    <3>1. HowOften(c, y) <= HowOften(a, y) /\ Less(x)
      BY <1>2, <2>1, <2>5 DEF v
    <3>2. d = <<>> \/ d = PreOrder(r, x)
      BY <2>1, <2>2, ListingEmpty
    <3>3. HowOften(d, y) <= HowOften(b, y)
      <4>1. HowOften(b, y) \in Nat
        BY <2>4, HowOftenIs
      <4>2. HowOften(<<>>, y) = 0
        BY HowOftenEmpty
      <4> HIDE DEF d
      <4> QED
        BY <3>1, <3>2, <4>1, <4>2
    <3> HIDE DEF a, b, c, d
    <3>4. HowOften(a \o b, y) = HowOften(a, y) + HowOften(b, y)
      <4>1. Two(N, a, b)
        BY <2>4 DEF Two
      <4> QED
        BY <4>1, HowOftenJoin
    <3>5. HowOften(c \o d, y) = HowOften(c, y) + HowOften(d, y)
      <4>1. Two(N, c, d)
        BY <2>4 DEF Two
      <4> QED
        BY <4>1, HowOftenJoin
    <3>6. HowOften(a, y) \in Nat /\ HowOften(b, y) \in Nat
          /\ HowOften(c, y) \in Nat /\ HowOften(d, y) \in Nat
      BY <2>4, HowOftenIs
    <3> QED
      BY <3>1, <3>3, <3>4, <3>5, <3>6
  <2>6. w \in Seq(N) /\ (Good(w) =>
          HowOften(Listing(r, NotIn(w, S)), y) <= HowOften(Listing(t, w), y))
    <3> HIDE DEF a, b, c, d
    <3> QED
      BY <2>1, <2>3, <2>5
  <2> HIDE DEF Good
  <2> QED
    BY <2>6 DEF w, o
<1> HIDE DEF G
<1>3. Seq(N) \subseteq G
  BY <1>1, <1>2, AppendInduction
<1> QED
  BY <1>3 DEF G

(* Unlinking makes no node be listed more often.                           *)
LEMMA ThinsFewer ==
  ASSUME NEW t, IsTree(t), NEW r, Thins(t, r), NEW y
  PROVE  \A s \in Seq(Nodes(t)) : HowOften(Listing(r, s), y) <= HowOften(Listing(t, s), y)
<1> DEFINE N == Nodes(t)
           G == {x \in N : HowOften(PreOrder(r, x), y) <= HowOften(PreOrder(t, x), y)}
<1>0. IsTree(r) /\ Nodes(r) = N
  BY ThinsKeeps
<1>1. ASSUME NEW x \in N, ToSet(t.kids[x]) \subseteq G PROVE x \in G
  <2> DEFINE o == <<x>>
             k == t.kids[x]
             l == r.kids[x]
             a == Listing(t, k)
             b == Listing(r, l)
  <2>1. k \in Seq(N) /\ l \in Seq(N)
    BY <1>0, TreeIs
  <2>2. PreOrder(t, x) = o \o a /\ PreOrder(r, x) = o \o b
    BY <1>0, PreOrderIs
  <2>3. o \in Seq(N) /\ a \in Seq(N) /\ b \in Seq(N)
    BY <1>0, <2>1, ListingIs
  <2>4. PICK S : l = NotIn(k, S)
    BY DEF Thins
  <2>5. HowOften(b, y) <= HowOften(a, y)
    <3>1. \A z \in ToSet(k) : HowOften(PreOrder(r, z), y) <= HowOften(PreOrder(t, z), y)
      BY <1>1
    <3> HIDE DEF k, l
    <3> QED
      BY <1>0, <2>1, <2>4, <3>1, ListingFewer
  <2> HIDE DEF o, a, b
  <2>6. HowOften(o \o a, y) = HowOften(o, y) + HowOften(a, y)
    <3>1. Two(N, o, a)
      BY <2>3 DEF Two
    <3> QED
      BY <3>1, HowOftenJoin
  <2>7. HowOften(o \o b, y) = HowOften(o, y) + HowOften(b, y)
    <3>1. Two(N, o, b)
      BY <2>3 DEF Two
    <3> QED
      BY <3>1, HowOftenJoin
  <2>8. HowOften(a, y) \in Nat /\ HowOften(b, y) \in Nat /\ HowOften(o, y) \in Nat
    BY <2>3, HowOftenIs
  <2>9. HowOften(PreOrder(r, x), y) <= HowOften(PreOrder(t, x), y)
    BY <2>2, <2>5, <2>6, <2>7, <2>8
  <2> QED
    BY <2>9
<1> HIDE DEF G
<1>2. N \subseteq G
  BY <1>1, TreeInduction
<1>3. ASSUME NEW s \in Seq(N) PROVE HowOften(Listing(r, s), y) <= HowOften(Listing(t, s), y)
  <2>1. NotIn(s, {}) = s
    BY NotInSome
  <2>2. \A x \in ToSet(s) : HowOften(PreOrder(r, x), y) <= HowOften(PreOrder(t, x), y)
    BY <1>2, Ranged DEF G
  <2>3. HowOften(Listing(r, NotIn(s, {})), y) <= HowOften(Listing(t, s), y)
    BY <1>0, <2>2, ListingFewer
  <2> QED
    BY <2>1, <2>3
<1> QED
  BY <1>3

-----------------------------------------------------------------------------
(* The text after a node.                                                  *)

Distinct(s) == \A i, j \in DOMAIN s : s[i] = s[j] => i = j

LEMMA TextRunHas ==
  ASSUME NEW t, IsTree(t), NEW s \in Seq(Nodes(t))
  PROVE  /\ TextRun(t, s) \in Seq(Nodes(t))
         /\ \A x \in ToSet(TextRun(t, s)) : IsText(t, x)
         /\ Distinct(s) => Distinct(TextRun(t, s))
<1> DEFINE N == Nodes(t)
           I == {i \in 1..Len(s) : ~IsText(t, s[i])}
           run == TextRun(t, s)
           m == IF I = {} THEN Len(s) ELSE Min(I) - 1
<1>1. run = IF (IF I # {} THEN Min(I) ELSE 0) = 0 THEN s
            ELSE SubSeq(s, 1, (IF I # {} THEN Min(I) ELSE 0) - 1)
  BY Zenon DEF TextRun, SelectInSeq
<1>2. s \in Seq(N) /\ Len(s) \in Nat /\ DOMAIN s = 1..Len(s)
  OBVIOUS
<1>3. /\ run \in Seq(N) /\ m \in 0..Len(s) /\ DOMAIN run = 1..m
      /\ \A i \in 1..m : run[i] = s[i] /\ IsText(t, s[i])
  <2>1. CASE I = {}
    <3>1. run = s
      BY <1>1, <2>1
    <3>2. \A i \in 1..Len(s) : IsText(t, s[i])
      BY <2>1
    <3>3. m = Len(s)
      BY <2>1
    <3> HIDE DEF run, I, m
    <3> QED
      BY <1>2, <3>1, <3>2, <3>3
  <2>2. CASE I # {}
    <3> DEFINE e == Min(I)
               h == e - 1
    <3>1. I \in SUBSET Nat /\ I \subseteq 1..Len(s)
      BY <1>2
    <3>2. e \in I /\ \A i \in I : e <= i
      <4> HIDE DEF I
      <4> QED
        BY <2>2, <3>1, SmallestIs
    <3> HIDE DEF e
    <3>3. e \in 1..Len(s) /\ h \in 0..Len(s) /\ h \in Nat /\ h <= Len(s) /\ e # 0
      BY <1>2, <3>1, <3>2
    <3>4. \A i \in 1..h : i \in 1..Len(s) /\ IsText(t, s[i])
      <4> SUFFICES ASSUME NEW i \in 1..h PROVE i \in 1..Len(s) /\ i \notin I
        OBVIOUS
      <4>1. i \in 1..Len(s) /\ ~(e <= i)
        BY <1>2, <3>3
      <4> HIDE DEF I
      <4> QED
        BY <3>2, <4>1
    <3>5. run = SubSeq(s, 1, h) /\ m = h
      BY <1>1, <2>2, <3>3 DEF e
    <3> HIDE DEF run, I, m, h
    <3>6. /\ run \in Seq(N) /\ Len(run) = IF 1 <= h THEN h - 1 + 1 ELSE 0
          /\ DOMAIN run = 1..Len(run) /\ \A i \in DOMAIN run : run[i] = s[1 + i - 1]
      <4>1. 1 \in Nat \ {0}
        OBVIOUS
      <4> QED
        BY <3>3, <3>5, <4>1, Sliced
    <3>7. Len(run) = h /\ \A i \in 1..h : 1 + i - 1 = i
      BY <3>3, <3>6
    <3>8. DOMAIN run = 1..h /\ \A i \in 1..h : run[i] = s[i]
      BY <3>6, <3>7
    <3> QED
      BY <3>3, <3>4, <3>5, <3>6, <3>8
  <2> QED
    BY <2>1, <2>2
<1> HIDE DEF run, m, I
<1>4. \A x \in ToSet(run) : IsText(t, x)
  BY <1>3 DEF ToSet
<1>5. ASSUME Distinct(s) PROVE Distinct(run)
  <2>1. 1..m \subseteq 1..Len(s)
    BY <1>2, <1>3
  <2> QED
    BY <1>2, <1>3, <1>5, <2>1 DEF Distinct
<1> QED
  BY <1>3, <1>4, <1>5 DEF run

LEMMA FollowingIs ==
  ASSUME NEW t, IsTree(t), NEW n \in Nodes(t)
  PROVE  Following(t, n) \in Seq(Nodes(t)) /\ Distinct(Following(t, n))
<1> DEFINE N == Nodes(t)
           p == ParentOf(t, n)
           s == t.kids[p]
           i == PlaceOf(s, n)
           f == Following(t, n)
<1>1. CASE p = NoNode
  <2>1. f = <<>>
    BY <1>1 DEF Following
  <2> QED
    BY <2>1, EmptyIs DEF Distinct
<1>2. CASE p # NoNode
  <2>1. p \in N /\ Contains(s, n)
    BY <1>2 DEF ParentOf
  <2>2. s \in Seq(N) /\ Distinct(s)
    <3>1. s \in Seq(N)
      BY <2>1, TreeIs
    <3>2. Distinct(s)
      BY <2>1, OnePlace DEF Distinct
    <3> QED
      BY <3>1, <3>2
  <2>3. \E j \in DOMAIN s : s[j] = n
    <3> HIDE DEF p, s
    <3> QED
      BY <2>1, <2>2 DEF Contains
  <2>4. i \in DOMAIN s
    BY <2>3 DEF PlaceOf
  <2>5. f = SubSeq(s, i + 1, Len(s))
    BY <1>2 DEF Following
  <2> HIDE DEF p, s, i, f
  <2>6. i + 1 \in Nat \ {0} /\ Len(s) \in Nat /\ Len(s) <= Len(s) /\ i \in Nat
    BY <2>2, <2>4
  <2> DEFINE j == i + 1
             L == Len(s)
  <2>7. j \in Nat \ {0} /\ L \in Nat /\ L <= Len(s) /\ f = SubSeq(s, j, L)
    BY <2>5, <2>6
  <2> HIDE DEF j, L
  <2>8. /\ f \in Seq(N) /\ Len(f) = (IF j <= L THEN L - j + 1 ELSE 0)
        /\ DOMAIN f = 1..Len(f) /\ \A h \in DOMAIN f : f[h] = s[j + h - 1]
    BY <2>2, <2>7, Sliced
  <2>9. \A h \in DOMAIN f : j + h - 1 \in DOMAIN s
    BY <2>2, <2>7, <2>8 DEF L
  <2>10. ASSUME NEW h \in DOMAIN f, NEW k \in DOMAIN f, f[h] = f[k] PROVE h = k
    <3>1. j + h - 1 = j + k - 1
      BY <2>2, <2>8, <2>9, <2>10 DEF Distinct
    <3>2. h \in Int /\ k \in Int /\ j \in Int
      BY <2>7, <2>8
    <3> QED
      BY <3>1, <3>2
  <2> QED
    BY <2>8, <2>10 DEF Distinct, f
<1> QED
  BY <1>1, <1>2

LEMMA TailIs ==
  ASSUME NEW t, IsTree(t), NEW n \in Nodes(t)
  PROVE  /\ TailTextRun(t, n) \in Seq(Nodes(t)) /\ Distinct(TailTextRun(t, n))
         /\ \A x \in ToSet(TailTextRun(t, n)) : x \in Nodes(t) /\ IsText(t, x) /\ t.kids[x] = <<>>
<1> DEFINE N == Nodes(t)
           s == Following(t, n)
           tail == TextRun(t, s)
<1>1. s \in Seq(N) /\ Distinct(s)
  BY FollowingIs
<1> HIDE DEF s
<1>2. tail \in Seq(N) /\ Distinct(tail) /\ \A x \in ToSet(tail) : IsText(t, x)
  BY <1>1, TextRunHas
<1>3. ASSUME NEW x \in ToSet(tail) PROVE x \in N /\ IsText(t, x) /\ t.kids[x] = <<>>
  <2>1. x \in N /\ IsText(t, x)
    BY <1>2, <1>3, Ranged
  <2>2. t.kind[x] # "element"
    BY <2>1 DEF IsText
  <2> QED
    BY <2>1, <2>2 DEF IsTree
<1> QED
  BY <1>2, <1>3 DEF TailTextRun, tail, s

-----------------------------------------------------------------------------
(* What the edits do to a tree.                                            *)

(* r is t without the links to the nodes of gone.                          *)
Unlinks(t, r, gone) ==
  /\ Fits(r, Nodes(t)) /\ r.kind = t.kind /\ r.name = t.name
  /\ \A x \in Nodes(t) : r.kids[x] = NotIn(t.kids[x], gone)

LEMMA UnlinkThins ==
  ASSUME NEW t, IsTree(t), NEW r, NEW gone, Unlinks(t, r, gone)
  PROVE  Thins(t, r)
<1>1. Fits(r, Nodes(t)) /\ r.kind = t.kind
  BY DEF Unlinks
<1>2. \A x \in Nodes(t) : \E S : r.kids[x] = NotIn(t.kids[x], S)
  BY DEF Unlinks
<1> QED
  BY <1>1, <1>2 DEF Thins

LEMMA UnlinkDiffers ==
  ASSUME NEW t, IsTree(t), NEW r, NEW gone, Unlinks(t, r, gone), NEW T, gone \subseteq T,
         Closed(t, T)
  PROVE  Differ(t, r, T)
<1> DEFINE N == Nodes(t)
           L == N \ T
<1>1. /\ Nodes(r) = N
      /\ \A x \in N : ToSet(r.kids[x]) \subseteq ToSet(t.kids[x])
  BY UnlinkThins, ThinsKeeps
<1>2. Closed(r, T)
  BY <1>1 DEF Closed
<1>3. ASSUME NEW x \in N PROVE Sift(t.kids[x], L) = Sift(r.kids[x], L)
  <2> DEFINE k == t.kids[x]
             K == N \ gone
             l == NotIn(k, gone)
  <2>1. k \in Seq(N) /\ ToSet(k) \subseteq N
    BY TreeIs
  <2>2. r.kids[x] = l
    BY DEF Unlinks
  <2>3. \A z \in ToSet(k) : z \in K <=> z \notin gone
    BY <2>1
  <2>4. \A z \in ToSet(k) : z \in L <=> z \in K /\ z \in L
    BY <2>1
  <2> HIDE DEF k, K, L
  <2>5. l = Sift(k, K)
    BY <2>1, <2>3, NotInSifts
  <2>6. Sift(Sift(k, K), L) = Sift(k, L)
    BY <2>1, <2>4, SiftTwice
  <2> HIDE DEF l
  <2> QED
    BY <2>2, <2>5, <2>6 DEF k
<1> QED
  BY <1>1, <1>2, <1>3 DEF Differ

LEMMA ExtractUnlinks ==
  ASSUME NEW t, IsTree(t), NEW n \in Nodes(t)
  PROVE  Unlinks(t, Extract(t, n), {n} \cup ToSet(TailTextRun(t, n)))
<1> DEFINE N == Nodes(t)
           gone == {n} \cup ToSet(TailTextRun(t, n))
           k == [p \in N |-> NotIn(t.kids[p], gone)]
           r == [t EXCEPT !.kids = k]
<1>1. Extract(t, n) = r
  BY DEF Extract
<1>2. \A x \in N : NotIn(t.kids[x], gone) \in Seq(N)
  BY TreeIs, NotInSome
<1>3. k \in [N -> Seq(N)]
  BY <1>2
<1>4. \A x \in N : k[x] = NotIn(t.kids[x], gone)
  OBVIOUS
<1> HIDE DEF k, gone
<1>5. t = [kids |-> t.kids, kind |-> t.kind, name |-> t.name, attr |-> t.attr, text |-> t.text]
  BY DEF IsTree
<1>6. r = [kids |-> k, kind |-> t.kind, name |-> t.name, attr |-> t.attr, text |-> t.text]
  BY <1>5
<1>7. r.kids = k /\ r.kind = t.kind /\ r.name = t.name /\ r.attr = t.attr /\ r.text = t.text
  BY <1>6
<1> HIDE DEF r
<1>8. Fits(r, N)
  BY <1>3, <1>6, <1>7 DEF Fits, IsTree
<1>9. Unlinks(t, r, gone)
  BY <1>4, <1>7, <1>8 DEF Unlinks
<1> QED
  BY <1>1, <1>9 DEF gone

Cleared(t, n, gone) ==
  [t EXCEPT !.kids = [p \in Nodes(t) |-> NotIn(t.kids[p], gone)],
            !.attr[n] = NoValue,
            !.text[n] = <<>>]

LEMMA ClearUnlinks ==
  ASSUME NEW t, IsTree(t), NEW n \in Nodes(t), NEW gone
  PROVE  Unlinks(t, Cleared(t, n, gone), gone)
<1> DEFINE N == Nodes(t)
           k == [p \in N |-> NotIn(t.kids[p], gone)]
           a == [t.attr EXCEPT ![n] = NoValue]
           u == [t.text EXCEPT ![n] = <<>>]
           r == Cleared(t, n, gone)
<1>1. t = [kids |-> t.kids, kind |-> t.kind, name |-> t.name, attr |-> t.attr, text |-> t.text]
  BY DEF IsTree
<1>2. \A x \in N : NotIn(t.kids[x], gone) \in Seq(N)
  BY TreeIs, NotInSome
<1>3. k \in [N -> Seq(N)]
  BY <1>2
<1>4. \A x \in N : k[x] = NotIn(t.kids[x], gone)
  OBVIOUS
<1>5. a \in [N -> (MinInt .. MaxInt) \cup {NoValue, NotANumber}]
  BY DEF IsTree
<1>6. u \in [N -> Seq(Nat)]
  <2>1. <<>> \in Seq(Nat)
    BY EmptyIs
  <2> QED
    BY <2>1 DEF IsTree
<1>7. r = [kids |-> k, kind |-> t.kind, name |-> t.name, attr |-> a, text |-> u]
  <2>1. r = [t EXCEPT !.kids = k, !.attr = a, !.text = u]
    BY <1>1 DEF Cleared
  <2> HIDE DEF k, a, u, r
  <2> QED
    BY <1>1, <2>1
<1> HIDE DEF k, a, u, r
<1>8. r.kids = k /\ r.kind = t.kind /\ r.name = t.name /\ r.attr = a /\ r.text = u
  BY <1>7
<1>9. t.kind \in [N -> {"element", "text", "cdata", "comment", "pi"}]
  BY DEF IsTree
<1>10. Fits(r, N)
  BY <1>3, <1>5, <1>6, <1>7, <1>8, <1>9 DEF Fits
<1>11. Unlinks(t, r, gone)
  BY <1>4, <1>8, <1>10 DEF Unlinks
<1> QED
  BY <1>11 DEF r

(* n goes to the end of p's children, and the text after it with it.       *)
Appended(t, p, n) ==
  LET tail == TailTextRun(t, n)
  IN  [Extract(t, n) EXCEPT !.kids[p] = (@ \o <<n>>) \o tail]

Along2(t, n) == {n} \cup ToSet(TailTextRun(t, n))

LEMMA AppendedIs ==
  ASSUME NEW t, IsTree(t), NEW p \in Nodes(t), NEW n \in Nodes(t)
  PROVE  LET r    == Appended(t, p, n)
             tail == TailTextRun(t, n)
         IN  /\ Fits(r, Nodes(t)) /\ r.kind = t.kind /\ r.name = t.name
             /\ \A x \in Nodes(t) : x # p => r.kids[x] = NotIn(t.kids[x], Along2(t, n))
             /\ r.kids[p] = NotIn(t.kids[p], Along2(t, n)) \o (<<n>> \o tail)
<1> DEFINE N == Nodes(t)
           e == Extract(t, n)
           tail == TailTextRun(t, n)
           o == <<n>>
           new == (e.kids[p] \o o) \o tail
           k == [e.kids EXCEPT ![p] = new]
           r == Appended(t, p, n)
<1>1. Unlinks(t, e, Along2(t, n))
  BY ExtractUnlinks DEF Along2
<1>2. Fits(e, N) /\ e.kind = t.kind /\ e.name = t.name
  BY <1>1 DEF Unlinks
<1>3. \A x \in N : e.kids[x] = NotIn(t.kids[x], Along2(t, n))
  BY <1>1 DEF Unlinks
<1>4. tail \in Seq(N) /\ o \in Seq(N) /\ e.kids[p] \in Seq(N)
  BY <1>2, TailIs, OneIs DEF Fits
<1>5. r = [e EXCEPT !.kids = k]
  BY DEF Appended
<1> HIDE DEF e, tail, o
<1>6. new = e.kids[p] \o (o \o tail) /\ new \in Seq(N)
  <2> DEFINE a == e.kids[p]
  <2>1. All3(N, a, o, tail)
    BY <1>4 DEF All3
  <2> HIDE DEF a
  <2>2. (a \o o) \o tail = a \o (o \o tail) /\ a \o (o \o tail) \in Seq(N)
    BY <2>1, Assoc
  <2> QED
    BY <2>2 DEF a
<1> HIDE DEF new
<1>7. k \in [N -> Seq(N)] /\ k[p] = new /\ \A x \in N : x # p => k[x] = e.kids[x]
  BY <1>2, <1>6 DEF Fits
<1> HIDE DEF k, r
<1>8. e = [kids |-> e.kids, kind |-> e.kind, name |-> e.name, attr |-> e.attr, text |-> e.text]
  BY <1>2 DEF Fits
<1>9. r = [kids |-> k, kind |-> e.kind, name |-> e.name, attr |-> e.attr, text |-> e.text]
  BY <1>5, <1>8
<1>10. r.kids = k /\ r.kind = e.kind /\ r.name = e.name /\ r.attr = e.attr /\ r.text = e.text
  BY <1>9
<1>11. Fits(r, N)
  BY <1>2, <1>7, <1>9, <1>10 DEF Fits
<1>12. \A x \in N : x # p => r.kids[x] = NotIn(t.kids[x], Along2(t, n))
  BY <1>3, <1>7, <1>10
<1>13. r.kids[p] = NotIn(t.kids[p], Along2(t, n)) \o (o \o tail)
  BY <1>3, <1>6, <1>7, <1>10
<1> QED
  BY <1>2, <1>10, <1>11, <1>12, <1>13 DEF r, o, tail

(* What may be appended where: not text, to an element, not to itself.     *)
MayAppend(t, p, n) ==
  IsContent(t, n) /\ t.kind[p] = "element" /\ p \notin Subtree(t, n)

(* The nodes appended are no two the same, and none are left elsewhere.    *)
LEMMA AppendedOnce ==
  ASSUME NEW t, IsTree(t), NEW p \in Nodes(t), NEW n \in Nodes(t), MayAppend(t, p, n),
         NEW r, r = Appended(t, p, n)
  PROVE  \A x, y \in Nodes(t) : \A i \in DOMAIN r.kids[x], j \in DOMAIN r.kids[y] :
           r.kids[x][i] = r.kids[y][j] => x = y /\ i = j
<1> DEFINE N == Nodes(t)
           e == Extract(t, n)
           tail == TailTextRun(t, n)
           o == <<n>>
           m == o \o tail
           a == e.kids[p]
<1>1. Unlinks(t, e, Along2(t, n))
  BY ExtractUnlinks DEF Along2
<1>2. IsTree(e) /\ Nodes(e) = N
  BY <1>1, UnlinkThins, ThinsKeeps
<1>3. \A x \in N : e.kids[x] = NotIn(t.kids[x], Along2(t, n))
  BY <1>1 DEF Unlinks
<1>4. \A x \in N : e.kids[x] \in Seq(N) /\ ToSet(e.kids[x]) \cap Along2(t, n) = {}
  <2> SUFFICES ASSUME NEW x \in N
               PROVE  e.kids[x] \in Seq(N) /\ ToSet(e.kids[x]) \cap Along2(t, n) = {}
    OBVIOUS
  <2>1. t.kids[x] \in Seq(N)
    BY TreeIs
  <2>2. ToSet(NotIn(t.kids[x], Along2(t, n))) = ToSet(t.kids[x]) \ Along2(t, n)
    BY <2>1, NotInRange
  <2>3. NotIn(t.kids[x], Along2(t, n)) \in Seq(N)
    BY <2>1, NotInRange
  <2> QED
    BY <1>3, <2>2, <2>3
<1>5. (\A x \in N : x # p => r.kids[x] = e.kids[x]) /\ r.kids[p] = a \o m
  BY <1>3, AppendedIs
<1>6. /\ tail \in Seq(N) /\ Distinct(tail)
      /\ \A x \in ToSet(tail) : x \in N /\ IsText(t, x)
  BY TailIs
<1>7. n \notin ToSet(tail)
  BY <1>6 DEF MayAppend, IsContent, IsText
<1>8. o \in Seq(N) /\ Len(o) = 1 /\ o[1] = n
  BY OneIs
<1> HIDE DEF tail, o, e, a
<1>9. m \in Seq(N) /\ ToSet(m) = Along2(t, n) /\ Distinct(m)
  <2>1. /\ m \in Seq(N) /\ DOMAIN m = 1..(Len(o) + Len(tail)) /\ Len(tail) \in Nat
        /\ \A i \in 1..Len(o) : m[i] = o[i]
        /\ \A i \in 1..Len(tail) : m[Len(o) + i] = tail[i]
        /\ DOMAIN tail = 1..Len(tail)
    <3>1. o \in Seq(N) /\ tail \in Seq(N)
      BY <1>6, <1>8
    <3> QED
      BY <3>1, JoinIs
  <2>2. ToSet(m) = ToSet(o) \cup ToSet(tail)
    BY <1>6, <1>8, JoinRange
  <2>3. ToSet(o) = {n}
    BY OneRange DEF o
  <2> HIDE DEF m
  <2>4. DOMAIN m = 1..(1 + Len(tail)) /\ m[1] = n /\ \A i \in 1..Len(tail) : m[1 + i] = tail[i]
    BY <1>8, <2>1
  <2>5. ASSUME NEW i \in DOMAIN m, NEW j \in DOMAIN m, m[i] = m[j] PROVE i = j
    <3>1. i \in 1..(1 + Len(tail)) /\ j \in 1..(1 + Len(tail))
      BY <2>4
    <3> DEFINE h == i - 1
               k == j - 1
    <3>2. /\ i = 1 \/ (h \in 1..Len(tail) /\ i = 1 + h)
          /\ j = 1 \/ (k \in 1..Len(tail) /\ j = 1 + k)
      <4>1. Len(tail) \in Nat
        BY <2>1
      <4> QED
        BY <3>1, <4>1
    <3> HIDE DEF h, k
    <3>3. ASSUME h \in 1..Len(tail), i = 1 + h PROVE m[i] = tail[h] /\ m[i] # n
      <4>1. m[i] = tail[h]
        BY <2>4, <3>3
      <4>2. tail[h] \in ToSet(tail)
        BY <2>1, <3>3 DEF ToSet
      <4> QED
        BY <1>7, <4>1, <4>2
    <3>4. ASSUME k \in 1..Len(tail), j = 1 + k PROVE m[j] = tail[k] /\ m[j] # n
      <4>1. m[j] = tail[k]
        BY <2>4, <3>4
      <4>2. tail[k] \in ToSet(tail)
        BY <2>1, <3>4 DEF ToSet
      <4> QED
        BY <1>7, <4>1, <4>2
    <3>5. CASE i = 1
      BY <2>4, <2>5, <3>2, <3>4, <3>5
    <3>6. CASE j = 1
      BY <2>4, <2>5, <3>2, <3>3, <3>6
    <3>7. CASE i # 1 /\ j # 1
      <4>1. tail[h] = tail[k] /\ h \in DOMAIN tail /\ k \in DOMAIN tail /\ i = 1 + h /\ j = 1 + k
        BY <2>1, <2>5, <3>2, <3>3, <3>4, <3>7
      <4>2. h = k
        BY <1>6, <4>1 DEF Distinct
      <4> QED
        BY <4>1, <4>2
    <3> QED
      BY <3>5, <3>6, <3>7
  <2> QED
    BY <2>1, <2>2, <2>3, <2>5 DEF Along2, tail, Distinct
<1> HIDE DEF m
<1>10. a \in Seq(N) /\ ToSet(a) \cap Along2(t, n) = {}
  BY <1>4 DEF a
<1> DEFINE c == a \o m
<1>11. /\ c \in Seq(N) /\ DOMAIN c = 1..(Len(a) + Len(m))
       /\ Len(a) \in Nat /\ Len(m) \in Nat /\ DOMAIN a = 1..Len(a) /\ DOMAIN m = 1..Len(m)
       /\ \A i \in 1..Len(a) : c[i] = a[i]
       /\ \A i \in 1..Len(m) : c[Len(a) + i] = m[i]
  <2>1. a \in Seq(N) /\ m \in Seq(N)
    BY <1>9, <1>10
  <2> QED
    BY <2>1, JoinIs
<1>17. r.kids[p] = c
  BY <1>5
<1> HIDE DEF c
<1>12. \A i \in DOMAIN r.kids[p] :
         \/ i \in DOMAIN a /\ r.kids[p][i] = a[i]
         \/ \E h \in DOMAIN m : i = Len(a) + h /\ r.kids[p][i] = m[h] /\ m[h] \in Along2(t, n)
  <2> SUFFICES ASSUME NEW i \in 1..(Len(a) + Len(m))
               PROVE  \/ i \in 1..Len(a) /\ c[i] = a[i]
                      \/ \E h \in 1..Len(m) : i = Len(a) + h /\ c[i] = m[h]
                                              /\ m[h] \in Along2(t, n)
    <3>1. DOMAIN c = 1..(Len(a) + Len(m)) /\ DOMAIN a = 1..Len(a) /\ DOMAIN m = 1..Len(m)
      BY <1>11
    <3> QED
      BY <1>17, <3>1
  <2>1. CASE i <= Len(a)
    BY <1>11, <2>1
  <2>2. CASE ~(i <= Len(a))
    <3> DEFINE h == i - Len(a)
    <3>1. h \in 1..Len(m) /\ i = Len(a) + h
      BY <1>11, <2>2
    <3> HIDE DEF h
    <3>2. c[i] = m[h] /\ m[h] \in ToSet(m)
      BY <1>11, <3>1 DEF ToSet
    <3> QED
      BY <1>9, <3>1, <3>2
  <2> QED
    BY <2>1, <2>2
<1>13. \A x \in N : x # p => \A i \in DOMAIN r.kids[x] :
         r.kids[x][i] = e.kids[x][i] /\ i \in DOMAIN e.kids[x] /\ e.kids[x][i] \notin Along2(t, n)
  BY <1>4, <1>5 DEF ToSet
<1>14. \A i \in DOMAIN a : a[i] \notin Along2(t, n)
  BY <1>10 DEF ToSet
<1>15. a = e.kids[p]
  BY DEF a
<1>16. ASSUME NEW x \in N, NEW y \in N, NEW i \in DOMAIN r.kids[x], NEW j \in DOMAIN r.kids[y],
              r.kids[x][i] = r.kids[y][j]
       PROVE  x = y /\ i = j
  <2>1. CASE r.kids[x][i] \in Along2(t, n)
    <3>1. x = p /\ y = p
      BY <1>13, <1>16, <2>1
    <3>2. PICK h \in DOMAIN m : i = Len(a) + h /\ r.kids[p][i] = m[h]
      BY <1>12, <1>14, <2>1, <3>1
    <3>3. PICK k \in DOMAIN m : j = Len(a) + k /\ r.kids[p][j] = m[k]
      BY <1>12, <1>14, <1>16, <2>1, <3>1
    <3>4. h = k
      BY <1>9, <1>16, <3>1, <3>2, <3>3 DEF Distinct
    <3> QED
      BY <3>1, <3>2, <3>3, <3>4
  <2>2. CASE r.kids[x][i] \notin Along2(t, n)
    <3>1. i \in DOMAIN e.kids[x] /\ r.kids[x][i] = e.kids[x][i]
      BY <1>12, <1>13, <1>15, <2>2
    <3>2. j \in DOMAIN e.kids[y] /\ r.kids[y][j] = e.kids[y][j]
      BY <1>12, <1>13, <1>15, <1>16, <2>2
    <3>3. e.kids[x][i] = e.kids[y][j]
      BY <1>16, <3>1, <3>2
    <3> QED
      BY <1>2, <3>1, <3>2, <3>3, OnePlace
  <2> QED
    BY <2>1, <2>2
<1> QED
  BY <1>16

TouchedBy(t, n) == Subtree(t, n) \cup ToSet(TailTextRun(t, n))

LEMMA TouchedIs ==
  ASSUME NEW t, IsTree(t), NEW n \in Nodes(t)
  PROVE  /\ Closed(t, TouchedBy(t, n)) /\ Along2(t, n) \subseteq TouchedBy(t, n)
         /\ TouchedBy(t, n) \subseteq Nodes(t)
<1>1. n \in Subtree(t, n) /\ Subtree(t, n) \subseteq Nodes(t) /\ Closed(t, Subtree(t, n))
  BY SubtreeIs
<1>2. \A x \in ToSet(TailTextRun(t, n)) : x \in Nodes(t) /\ t.kids[x] = <<>>
  BY TailIs
<1>3. ToSet(<<>>) = {}
  BY EmptyIs
<1>4. Closed(t, TouchedBy(t, n))
  BY <1>1, <1>2, <1>3 DEF Closed, TouchedBy
<1> QED
  BY <1>1, <1>2, <1>4 DEF Along2, TouchedBy

LEMMA AppendedTree ==
  ASSUME NEW t, IsTree(t), NEW p \in Nodes(t), NEW n \in Nodes(t), MayAppend(t, p, n),
         NEW r, r = Appended(t, p, n)
  PROVE  /\ IsTree(r) /\ Nodes(r) = Nodes(t) /\ r.kind = t.kind /\ r.name = t.name
         /\ Differ(t, r, TouchedBy(t, n))
<1> DEFINE N == Nodes(t)
           e == Extract(t, n)
           tail == TailTextRun(t, n)
           o == <<n>>
           m == o \o tail
           T == TouchedBy(t, n)
           Sub == Subtree(t, n)
           gone == Along2(t, n)
<1>1. Unlinks(t, e, gone)
  BY ExtractUnlinks DEF Along2
<1>2. /\ IsTree(e) /\ Nodes(e) = N
      /\ \A x \in N : ToSet(e.kids[x]) \subseteq ToSet(t.kids[x])
  BY <1>1, UnlinkThins, ThinsKeeps
<1>3. \A x \in N : e.kids[x] = NotIn(t.kids[x], gone)
  BY <1>1 DEF Unlinks
<1>4. /\ Fits(r, N) /\ r.kind = t.kind /\ r.name = t.name
      /\ \A x \in N : x # p => r.kids[x] = e.kids[x]
      /\ r.kids[p] = e.kids[p] \o m
  BY <1>3, AppendedIs
<1>5. Nodes(r) = N
  BY <1>4 DEF Fits, Nodes
<1>6. n \in Sub /\ Sub \subseteq N /\ Closed(t, Sub)
  BY SubtreeIs
<1>7. Closed(t, T) /\ gone \subseteq T /\ T \subseteq N
  BY TouchedIs
<1>8. \A x \in ToSet(tail) : x \in N /\ IsText(t, x) /\ t.kids[x] = <<>>
  BY TailIs
<1>9. p \notin T /\ p # n /\ t.kind[p] = "element"
  BY <1>6, <1>8 DEF MayAppend, TouchedBy, IsText
<1>10. m \in Seq(N) /\ ToSet(m) = gone
  <2>1. tail \in Seq(N) /\ o \in Seq(N)
    BY TailIs, OneIs
  <2>2. ToSet(o) = {n}
    BY OneRange
  <2> HIDE DEF o, tail
  <2>3. m \in Seq(N) /\ ToSet(m) = ToSet(o) \cup ToSet(tail)
    BY <2>1, JoinIs, JoinRange
  <2> QED
    BY <2>2, <2>3 DEF Along2, tail
<1> HIDE DEF m
<1>11. ToSet(r.kids[p]) = ToSet(e.kids[p]) \cup gone
  <2>1. e.kids[p] \in Seq(N)
    BY <1>2, TreeIs
  <2> DEFINE a == e.kids[p]
  <2> HIDE DEF a
  <2>2. ToSet(a \o m) = ToSet(a) \cup ToSet(m)
    BY <1>10, <2>1, JoinRange DEF a
  <2> QED
    BY <1>4, <1>10, <2>2 DEF a
<1> HIDE DEF e
<1>12. \A x \in N : r.kids[x] # <<>> => r.kind[x] = "element"
  <2>1. \A x \in N : e.kids[x] # <<>> => t.kids[x] # <<>>
    <3> SUFFICES ASSUME NEW x \in N, e.kids[x] # <<>> PROVE t.kids[x] # <<>>
      OBVIOUS
    <3>1. e.kids[x] \in Seq(N)
      BY <1>2, TreeIs
    <3>2. e.kids[x][1] \in ToSet(e.kids[x])
      BY <3>1 DEF ToSet
    <3> QED
      BY <1>2, <3>2, EmptyIs
  <2>2. \A x \in N : t.kids[x] # <<>> => t.kind[x] = "element"
    BY DEF IsTree
  <2> QED
    BY <1>4, <1>9, <2>1, <2>2
<1>13. ASSUME NEW S \in SUBSET N, S # {} PROVE \E x \in S : ToSet(r.kids[x]) \cap S = {}
  <2>1. CASE S \cap Sub # {}
    <3> DEFINE U == S \cap Sub
    <3>1. U \in SUBSET N /\ U # {}
      BY <2>1
    <3> HIDE DEF U
    <3>2. PICK x \in U : Below(e)[x] \cap U = {}
      BY <1>2, <3>1, TreeIs, Zenon DEF Descends
    <3>3. x \in N /\ x # p /\ x \in Sub
      BY <1>6, <1>9, <3>2 DEF U, MayAppend
    <3>4. ToSet(r.kids[x]) = ToSet(e.kids[x]) /\ ToSet(e.kids[x]) \subseteq Sub
      BY <1>2, <1>4, <1>6, <3>3 DEF Closed
    <3>5. ToSet(e.kids[x]) \cap U = {}
      BY <1>2, <3>2, <3>3 DEF Below
    <3> QED
      BY <3>2, <3>4, <3>5 DEF U
  <2>2. CASE S \cap ToSet(tail) # {}
    <3>1. PICK x \in S : x \in ToSet(tail)
      BY <2>2
    <3>2. x # p /\ t.kids[x] = <<>> /\ x \in N
      BY <1>8, <1>9, <3>1 DEF IsText
    <3>3. ToSet(e.kids[x]) = {}
      BY <1>2, <3>2, EmptyIs
    <3> QED
      BY <1>4, <3>1, <3>2, <3>3
  <2>3. CASE S \cap Sub = {} /\ S \cap ToSet(tail) = {}
    <3>1. PICK x \in S : Below(e)[x] \cap S = {}
      BY <1>2, <1>13, TreeIs, Zenon DEF Descends
    <3>2. ToSet(e.kids[x]) \cap S = {}
      BY <1>2, <3>1 DEF Below
    <3>3. gone \cap S = {}
      BY <1>6, <2>3 DEF Along2
    <3>4. ToSet(r.kids[x]) \subseteq ToSet(e.kids[x]) \cup gone
      BY <1>4, <1>11
    <3> QED
      BY <3>2, <3>3, <3>4
  <2> QED
    BY <2>1, <2>2, <2>3
<1>14. \A x, y \in N : \A i \in DOMAIN r.kids[x], j \in DOMAIN r.kids[y] :
         r.kids[x][i] = r.kids[y][j] => x = y /\ i = j
  BY AppendedOnce
<1>15. NoNode \notin N /\ IsFiniteSet(N)
  BY DEF IsTree
<1>16. IsTree(r)
  <2>1. \A S \in SUBSET N : S # {} => \E x \in S : ToSet(r.kids[x]) \cap S = {}
    BY <1>13
  <2> HIDE DEF gone
  <2>2. Fits(r, N)
    BY <1>4
  <2>3. /\ \A S \in SUBSET Nodes(r) : S # {} => \E x \in S : ToSet(r.kids[x]) \cap S = {}
        /\ NoNode \notin Nodes(r) /\ IsFiniteSet(Nodes(r))
        /\ \A x \in Nodes(r) : r.kids[x] # <<>> => r.kind[x] = "element"
        /\ Fits(r, Nodes(r))
    BY <1>5, <1>12, <1>15, <2>1, <2>2, Zenon
  <2>4. \A x, y \in Nodes(r) : \A i \in DOMAIN r.kids[x], j \in DOMAIN r.kids[y] :
          r.kids[x][i] = r.kids[y][j] => x = y /\ i = j
    <3> SUFFICES ASSUME NEW x \in Nodes(r), NEW y \in Nodes(r),
                        NEW i \in DOMAIN r.kids[x], NEW j \in DOMAIN r.kids[y],
                        r.kids[x][i] = r.kids[y][j]
                 PROVE  x = y /\ i = j
      BY Zenon
    <3>1. x \in N /\ y \in N
      BY <1>5
    <3> QED
      BY <1>14, <3>1
  <2> QED
    BY <2>3, <2>4, Zenon DEF IsTree, Fits
<1>17. Closed(r, T)
  <2> SUFFICES ASSUME NEW x \in N, x \in T PROVE ToSet(r.kids[x]) \subseteq T
    BY <1>5 DEF Closed
  <2>1. ToSet(r.kids[x]) = ToSet(e.kids[x])
    BY <1>4, <1>9
  <2> QED
    BY <1>2, <1>7, <2>1 DEF Closed
<1>18. ASSUME NEW x \in N PROVE Sift(t.kids[x], N \ T) = Sift(r.kids[x], N \ T)
  <2> DEFINE L == N \ T
             a == e.kids[x]
  <2>1. Sift(t.kids[x], L) = Sift(a, L)
    <3>1. Differ(t, e, T)
      BY <1>1, <1>7, UnlinkDiffers
    <3>2. CASE x \in T
      <4>1. ToSet(t.kids[x]) \cap L = {} /\ ToSet(a) \cap L = {}
        BY <1>2, <1>7, <3>2 DEF Closed
      <4>2. t.kids[x] \in Seq(N) /\ a \in Seq(N)
        BY <1>2, TreeIs
      <4> HIDE DEF L, a
      <4>3. Sift(t.kids[x], L) = <<>> /\ Sift(a, L) = <<>>
        BY <4>1, <4>2, SiftNone
      <4> QED
        BY <4>3
    <3>3. CASE x \notin T
      BY <3>1, <3>3 DEF Differ
    <3> QED
      BY <3>2, <3>3
  <2>2. CASE x # p
    BY <1>4, <2>1, <2>2
  <2>3. CASE x = p
    <3>1. a \in Seq(N)
      BY <1>2, TreeIs
    <3>2. ToSet(m) \cap L = {}
      BY <1>7, <1>10
    <3>3. Two(N, a, m)
      BY <1>10, <3>1 DEF Two
    <3>4. r.kids[x] = a \o m
      BY <1>4, <2>3
    <3> HIDE DEF a, L
    <3>5. Sift(a \o m, L) = Sift(a, L) \o Sift(m, L)
      BY <3>3, SiftTwo
    <3>6. Sift(m, L) = <<>>
      BY <1>10, <3>2, SiftNone
    <3>7. Sift(a, L) \in Seq(N)
      BY <3>1, SiftIs
    <3>8. Sift(a, L) \o <<>> = Sift(a, L)
      <4> DEFINE s == Sift(a, L)
      <4> HIDE DEF s
      <4>1. s \o <<>> = s
        BY <3>7, JoinEmpty DEF s
      <4> QED
        BY <4>1 DEF s
    <3> QED
      BY <2>1, <3>4, <3>5, <3>6, <3>8, Zenon DEF L
  <2> QED
    BY <2>2, <2>3
<1>19. Differ(t, r, T)
  BY <1>5, <1>7, <1>17, <1>18 DEF Differ
<1> QED
  BY <1>4, <1>5, <1>16, <1>19

(* Changes one after the other.                                            *)
LEMMA DifferTrans ==
  ASSUME NEW t, IsTree(t), NEW r, IsTree(r), NEW q, IsTree(q), NEW C, NEW E,
         Differ(t, r, C), Differ(r, q, E)
  PROVE  Differ(t, q, C \cup E)
<1> DEFINE N == Nodes(t)
           L == N \ C
           M == N \ E
           K == N \ (C \cup E)
<1>1. /\ Nodes(r) = N /\ Nodes(q) = N /\ Closed(t, C) /\ Closed(r, C) /\ Closed(r, E)
      /\ Closed(q, E)
  BY DEF Differ
<1>2. /\ \A x \in N \ C : Sift(t.kids[x], L) = Sift(r.kids[x], L)
      /\ \A x \in N \ E : Sift(r.kids[x], M) = Sift(q.kids[x], M)
  BY <1>1 DEF Differ
<1>3. ASSUME NEW x \in N
      PROVE  /\ t.kids[x] \in Seq(N) /\ ToSet(t.kids[x]) \subseteq N
             /\ r.kids[x] \in Seq(N) /\ ToSet(r.kids[x]) \subseteq N
             /\ q.kids[x] \in Seq(N) /\ ToSet(q.kids[x]) \subseteq N
  BY <1>1, TreeIs
<1>4. ASSUME NEW x \in N, x \notin C PROVE ToSet(t.kids[x]) \cap L = ToSet(r.kids[x]) \cap L
  <2>1. Sift(t.kids[x], L) = Sift(r.kids[x], L)
    BY <1>2, <1>4
  <2> HIDE DEF L
  <2> QED
    BY <1>3, <2>1, SiftRange
<1>5. ASSUME NEW x \in N, x \notin E PROVE ToSet(r.kids[x]) \cap M = ToSet(q.kids[x]) \cap M
  <2>1. Sift(r.kids[x], M) = Sift(q.kids[x], M)
    BY <1>2, <1>5
  <2> HIDE DEF M
  <2> QED
    BY <1>3, <2>1, SiftRange
<1>6. Closed(t, C \cup E)
  <2> SUFFICES ASSUME NEW x \in N, x \in C \cup E PROVE ToSet(t.kids[x]) \subseteq C \cup E
    BY DEF Closed
  <2>1. CASE x \in C
    BY <1>1, <2>1 DEF Closed
  <2>2. CASE x \notin C
    <3>1. ToSet(r.kids[x]) \subseteq E
      BY <1>1, <2>2 DEF Closed
    <3> QED
      BY <1>3, <1>4, <2>2, <3>1
  <2> QED
    BY <2>1, <2>2
<1>7. Closed(q, C \cup E)
  <2> SUFFICES ASSUME NEW x \in N, x \in C \cup E PROVE ToSet(q.kids[x]) \subseteq C \cup E
    BY <1>1 DEF Closed
  <2>1. CASE x \in E
    BY <1>1, <2>1 DEF Closed
  <2>2. CASE x \notin E
    <3>1. ToSet(r.kids[x]) \subseteq C
      BY <1>1, <2>2 DEF Closed
    <3> QED
      BY <1>3, <1>5, <2>2, <3>1
  <2> QED
    BY <2>1, <2>2
<1>8. ASSUME NEW x \in N \ (C \cup E) PROVE Sift(t.kids[x], K) = Sift(q.kids[x], K)
  <2> DEFINE a == t.kids[x]
             b == r.kids[x]
             c == q.kids[x]
  <2>1. a \in Seq(N) /\ b \in Seq(N) /\ c \in Seq(N)
    BY <1>3
  <2>2. Sift(a, L) = Sift(b, L) /\ Sift(b, M) = Sift(c, M)
    BY <1>2
  <2>3. \A z : z \in K <=> z \in L /\ z \in K
    OBVIOUS
  <2>4. \A z : z \in K <=> z \in M /\ z \in K
    OBVIOUS
  <2> HIDE DEF a, b, c, K, L, M
  <2>5. Sift(Sift(a, L), K) = Sift(a, K) /\ Sift(Sift(b, L), K) = Sift(b, K)
    BY <2>1, <2>3, SiftTwice
  <2>6. Sift(Sift(b, M), K) = Sift(b, K) /\ Sift(Sift(c, M), K) = Sift(c, K)
    BY <2>1, <2>4, SiftTwice
  <2> QED
    BY <2>2, <2>5, <2>6 DEF a, c
<1> QED
  BY <1>1, <1>6, <1>7, <1>8 DEF Differ

LEMMA DifferNone ==
  ASSUME NEW t, IsTree(t)
  PROVE  Differ(t, t, {})
<1>1. Closed(t, {})
  BY DEF Closed
<1> QED
  BY <1>1 DEF Differ

-----------------------------------------------------------------------------
(* The parser options leave a tree.                                        *)

(* The trees on the nodes of t.                                            *)
TreesOn(t) ==
  {u \in [kids : [Nodes(t) -> Seq(Nodes(t))],
          kind : [Nodes(t) -> {"element", "text", "cdata", "comment", "pi"}],
          name : {t.name},
          attr : [Nodes(t) -> (MinInt .. MaxInt) \cup {NoValue, NotANumber}],
          text : [Nodes(t) -> Seq(Nat)]] : IsTree(u)}

LEMMA TreesOnIs ==
  ASSUME NEW t, IsTree(t), NEW u
  PROVE  u \in TreesOn(t) <=> IsTree(u) /\ Nodes(u) = Nodes(t) /\ u.name = t.name
<1>1. ASSUME u \in TreesOn(t) PROVE IsTree(u) /\ Nodes(u) = Nodes(t) /\ u.name = t.name
  BY <1>1 DEF TreesOn, Nodes
<1>2. ASSUME IsTree(u), Nodes(u) = Nodes(t), u.name = t.name PROVE u \in TreesOn(t)
  <2>1. Fits(u, Nodes(t))
    BY <1>2 DEF IsTree, Fits
  <2> QED
    BY <1>2, <2>1 DEF Fits, TreesOn
<1> QED
  BY <1>1, <1>2

LEMMA ThinsOn ==
  ASSUME NEW t, IsTree(t), NEW u \in TreesOn(t), NEW r, Thins(u, r), r.name = u.name
  PROVE  r \in TreesOn(t)
<1>1. IsTree(u) /\ Nodes(u) = Nodes(t) /\ u.name = t.name
  BY TreesOnIs
<1>2. IsTree(r) /\ Nodes(r) = Nodes(t)
  BY <1>1, ThinsKeeps
<1> QED
  BY <1>1, <1>2, TreesOnIs

(* A change of kinds that keeps elements, one link less, other texts.      *)
LEMMA OneLess ==
  ASSUME NEW t, IsTree(t), NEW u \in TreesOn(t), NEW p \in Nodes(t), NEW S,
         NEW kind \in [Nodes(t) -> {"element", "text", "cdata", "comment", "pi"}],
         \A x \in Nodes(t) : u.kind[x] = "element" => kind[x] = "element",
         NEW text \in [Nodes(t) -> Seq(Nat)],
         NEW r, r = [kids |-> [u.kids EXCEPT ![p] = NotIn(@, S)], kind |-> kind,
                     name |-> u.name, attr |-> u.attr, text |-> text]
  PROVE  r \in TreesOn(t)
<1> DEFINE N == Nodes(t)
           k == [u.kids EXCEPT ![p] = NotIn(@, S)]
<1>1. IsTree(u) /\ Nodes(u) = N
  BY TreesOnIs
<1>2. u.kids \in [N -> Seq(N)] /\ u.attr \in [N -> (MinInt .. MaxInt) \cup {NoValue, NotANumber}]
  BY <1>1 DEF IsTree
<1>3. \A x \in N : \A s \in Seq(N) : NotIn(s, S) \in Seq(N) /\ NotIn(s, {}) = s
  <2> SUFFICES ASSUME NEW s \in Seq(N) PROVE NotIn(s, S) \in Seq(N) /\ NotIn(s, {}) = s
    OBVIOUS
  <2>1. ToSet(s) \cap {} = {}
    OBVIOUS
  <2> QED
    BY <2>1, NotInSome
<1>4. k \in [N -> Seq(N)] /\ \A x \in N : k[x] = IF x = p THEN NotIn(u.kids[x], S) ELSE u.kids[x]
  BY <1>2, <1>3
<1>5. \A x \in N : \E Z : k[x] = NotIn(u.kids[x], Z)
  BY <1>2, <1>3, <1>4
<1> HIDE DEF k
<1>6. r.kids = k /\ r.kind = kind /\ r.name = u.name /\ r.attr = u.attr /\ r.text = text
  BY DEF k
<1>7. r = [kids |-> r.kids, kind |-> r.kind, name |-> r.name, attr |-> r.attr, text |-> r.text]
  OBVIOUS
<1>8. Fits(r, N)
  BY <1>2, <1>4, <1>6, <1>7 DEF Fits
<1>9. Thins(u, r)
  BY <1>1, <1>5, <1>6, <1>8 DEF Thins
<1> QED
  BY <1>6, <1>9, ThinsOn


IsRecord(u) ==
  u = [kids |-> u.kids, kind |-> u.kind, name |-> u.name, attr |-> u.attr, text |-> u.text]

(* Changes of a tree, field by field.                                      *)
SetKind(u, n, z) == [u EXCEPT !.kind[n] = z]

SetText(u, n, z) == [u EXCEPT !.text[n] = z]

LEMMA SetKindIs ==
  ASSUME NEW u, IsRecord(u), NEW n, NEW z
  PROVE  SetKind(u, n, z) =
              [kids |-> u.kids, kind |-> [u.kind EXCEPT ![n] = z], name |-> u.name,
                attr |-> u.attr, text |-> u.text]
<1> DEFINE a == u.kids
           b == u.kind
           c == u.name
           d == u.attr
           e == u.text
<1>1. u = [kids |-> a, kind |-> b, name |-> c, attr |-> d, text |-> e]
  BY DEF IsRecord
<1> DEFINE f == [b EXCEPT ![n] = z]
<1>2. SetKind(u, n, z) = [u EXCEPT !.kind = f]
  BY DEF SetKind
<1> HIDE DEF a, b, c, d, e, f
<1>3. [u EXCEPT !.kind = f] = [kids |-> a, kind |-> f, name |-> c, attr |-> d, text |-> e]
  BY <1>1
<1> QED
  BY <1>2, <1>3 DEF a, b, c, d, e, f

LEMMA SetTextIs ==
  ASSUME NEW u, IsRecord(u), NEW n, NEW z
  PROVE  SetText(u, n, z) =
              [kids |-> u.kids, kind |-> u.kind, name |-> u.name,
                attr |-> u.attr, text |-> [u.text EXCEPT ![n] = z]]
<1> DEFINE a == u.kids
           b == u.kind
           c == u.name
           d == u.attr
           e == u.text
<1>1. u = [kids |-> a, kind |-> b, name |-> c, attr |-> d, text |-> e]
  BY DEF IsRecord
<1> DEFINE f == [e EXCEPT ![n] = z]
<1>2. SetText(u, n, z) = [u EXCEPT !.text = f]
  BY DEF SetText
<1> HIDE DEF a, b, c, d, e, f
<1>3. [u EXCEPT !.text = f] = [kids |-> a, kind |-> b, name |-> c, attr |-> d, text |-> f]
  BY <1>1
<1> QED
  BY <1>2, <1>3 DEF a, b, c, d, e, f

LEMMA DropIs ==
  ASSUME NEW u, IsRecord(u), NEW p, NEW n
  PROVE  Drop(u, p, n) =
              [kids |-> [u.kids EXCEPT ![p] = NotIn(@, {n})], kind |-> u.kind, name |-> u.name,
                attr |-> u.attr, text |-> [u.text EXCEPT ![n] = <<>>]]
<1> DEFINE a == u.kids
           b == u.kind
           c == u.name
           d == u.attr
           e == u.text
<1>1. u = [kids |-> a, kind |-> b, name |-> c, attr |-> d, text |-> e]
  BY DEF IsRecord
<1> DEFINE f == [a EXCEPT ![p] = NotIn(@, {n})]
           g == [e EXCEPT ![n] = <<>>]
           v == [kids |-> f, kind |-> b, name |-> c, attr |-> d, text |-> e]
<1>2. Drop(u, p, n) = [[u EXCEPT !.kids = f] EXCEPT !.text = g]
  BY DEF Drop
<1> HIDE DEF a, b, c, d, e, f, g
<1>3. [u EXCEPT !.kids = f] = v
  BY <1>1
<1>4. [v EXCEPT !.text = g] = [kids |-> f, kind |-> b, name |-> c, attr |-> d, text |-> g]
  OBVIOUS
<1> QED
  BY <1>2, <1>3, <1>4 DEF a, b, c, d, e, f, g

LEMMA DropOn ==
  ASSUME NEW t, IsTree(t), NEW u \in TreesOn(t), NEW p \in Nodes(t), NEW n \in Nodes(t)
  PROVE  Drop(u, p, n) \in TreesOn(t)
<1> DEFINE N == Nodes(t)
           text == [u.text EXCEPT ![n] = <<>>]
           r == [kids |-> [u.kids EXCEPT ![p] = NotIn(@, {n})], kind |-> u.kind,
                 name |-> u.name, attr |-> u.attr, text |-> text]
<1>1. IsTree(u) /\ Nodes(u) = N
  BY TreesOnIs
<1>2. /\ u = [kids |-> u.kids, kind |-> u.kind, name |-> u.name, attr |-> u.attr, text |-> u.text]
      /\ u.kind \in [N -> {"element", "text", "cdata", "comment", "pi"}]
      /\ u.text \in [N -> Seq(Nat)]
  BY <1>1 DEF IsTree
<1>3. text \in [N -> Seq(Nat)]
  BY <1>2
<1>4. Drop(u, p, n) = r
  <2>1. IsRecord(u)
    BY <1>2 DEF IsRecord
  <2> QED
    BY <2>1, DropIs
<1> HIDE DEF text
<1>5. r \in TreesOn(t)
  BY <1>2, <1>3, OneLess
<1> QED
  BY <1>4, <1>5

LEMMA KindOn ==
  ASSUME NEW t, IsTree(t), NEW u \in TreesOn(t), NEW n \in Nodes(t), u.kind[n] = "cdata"
  PROVE  SetKind(u, n, "text") \in TreesOn(t)
<1> DEFINE N == Nodes(t)
           kind == [u.kind EXCEPT ![n] = "text"]
           k == [u.kids EXCEPT ![n] = NotIn(@, {})]
           r == [kids |-> k, kind |-> kind,
                 name |-> u.name, attr |-> u.attr, text |-> u.text]
<1>1. IsTree(u) /\ Nodes(u) = N
  BY TreesOnIs
<1>2. /\ u = [kids |-> u.kids, kind |-> u.kind, name |-> u.name, attr |-> u.attr, text |-> u.text]
      /\ u.kind \in [N -> {"element", "text", "cdata", "comment", "pi"}]
      /\ u.text \in [N -> Seq(Nat)]
      /\ u.kids \in [N -> Seq(N)]
  BY <1>1 DEF IsTree
<1>3. /\ kind \in [N -> {"element", "text", "cdata", "comment", "pi"}]
      /\ \A x \in N : u.kind[x] = "element" => kind[x] = "element"
  BY <1>2
<1>4. k = u.kids
  <2>1. u.kids[n] \in Seq(N) /\ ToSet(u.kids[n]) \cap {} = {}
    BY <1>2
  <2>2. NotIn(u.kids[n], {}) = u.kids[n]
    BY <2>1, NotInSome
  <2> QED
    BY <1>2, <2>2
<1>5. SetKind(u, n, "text") = r
  <2>1. SetKind(u, n, "text") =
          [kids |-> u.kids, kind |-> kind, name |-> u.name, attr |-> u.attr, text |-> u.text]
    <3>1. IsRecord(u)
      BY <1>2 DEF IsRecord
    <3> QED
      BY <3>1, SetKindIs
  <2> QED
    BY <1>4, <2>1, Zenon
<1> HIDE DEF kind
<1>6. r \in TreesOn(t)
  BY <1>2, <1>3, OneLess
<1> QED
  BY <1>5, <1>6

LEMMA FilterChildOn ==
  ASSUME NEW t, IsTree(t), NEW u \in TreesOn(t), NEW p \in Nodes(t), NEW n \in Nodes(t), NEW opts
  PROVE  FilterChild(u, p, n, opts) \in TreesOn(t)
<1>1. Drop(u, p, n) \in TreesOn(t)
  BY DropOn
<1>2. u.kind[n] = "cdata" => SetKind(u, n, "text") \in TreesOn(t)
  BY KindOn
<1> QED
  BY <1>1, <1>2, Zenon DEF FilterChild, SetKind

(* The state of a pass over the children.                                  *)
Passes(t) == [t : TreesOn(t), head : Nodes(t) \cup {NoNode}]

LEMMA JoinOn ==
  ASSUME NEW t, IsTree(t), NEW s \in Passes(t), NEW p \in Nodes(t), NEW n \in Nodes(t)
  PROVE  Join(s, p, n) \in Passes(t)
<1> DEFINE N == Nodes(t)
           u == s.t
           text == [u.text EXCEPT ![s.head] = u.text[s.head] \o u.text[n]]
           v == SetText(u, s.head, u.text[s.head] \o u.text[n])
<1>1. s = [t |-> u, head |-> s.head] /\ u \in TreesOn(t) /\ s.head \in N \cup {NoNode}
  BY DEF Passes
<1>2. IsTree(u) /\ Nodes(u) = N
  BY <1>1, TreesOnIs
<1>3. CASE u.kind[n] # "text"
  BY <1>1, <1>3 DEF Join, Passes
<1>4. CASE u.kind[n] = "text" /\ s.head = NoNode
  BY <1>1, <1>4 DEF Join, Passes
<1>5. CASE u.kind[n] = "text" /\ s.head # NoNode
  <2>1. s.head \in N
    BY <1>1, <1>5
  <2>2. /\ u = [kids |-> u.kids, kind |-> u.kind, name |-> u.name, attr |-> u.attr, text |-> u.text]
        /\ u.kind \in [N -> {"element", "text", "cdata", "comment", "pi"}]
        /\ u.text \in [N -> Seq(Nat)]
        /\ u.kids \in [N -> Seq(N)]
    BY <1>2 DEF IsTree
  <2>3. text \in [N -> Seq(Nat)]
    <3>1. u.text[s.head] \in Seq(Nat) /\ u.text[n] \in Seq(Nat)
      BY <2>1, <2>2
    <3>2. u.text[s.head] \o u.text[n] \in Seq(Nat)
      BY <3>1, JoinIs
    <3> QED
      BY <2>2, <3>2
  <2> DEFINE k == [u.kids EXCEPT ![n] = NotIn(@, {})]
  <2>4. k = u.kids
    <3>1. u.kids[n] \in Seq(N) /\ ToSet(u.kids[n]) \cap {} = {}
      BY <2>2
    <3>2. NotIn(u.kids[n], {}) = u.kids[n]
      BY <3>1, NotInSome
    <3> QED
      BY <2>2, <3>2
  <2> DEFINE r == [kids |-> k, kind |-> u.kind, name |-> u.name, attr |-> u.attr, text |-> text]
  <2>5. v = r
    <3>1. v = [kids |-> u.kids, kind |-> u.kind, name |-> u.name, attr |-> u.attr, text |-> text]
      <4>1. IsRecord(u)
        BY <2>2 DEF IsRecord
      <4> QED
        BY <4>1, SetTextIs
    <3> QED
      BY <2>4, <3>1
  <2> HIDE DEF text, u, v
  <2>6. r \in TreesOn(t)
    BY <1>1, <2>2, <2>3, OneLess
  <2> HIDE DEF r
  <2>7. Drop(v, p, n) \in TreesOn(t)
    BY <2>5, <2>6, DropOn
  <2>8. Join(s, p, n) = [s EXCEPT !.t = Drop(v, p, n)]
    BY <1>5 DEF Join, u, v, SetText
  <2> DEFINE d == Drop(v, p, n)
  <2> HIDE DEF d
  <2>9. [s EXCEPT !.t = d] = [t |-> d, head |-> s.head]
    BY <1>1
  <2> QED
    BY <1>1, <2>7, <2>8, <2>9 DEF Passes, d
<1> QED
  BY <1>3, <1>4, <1>5


LEMMA FilterChildrenOn ==
  ASSUME NEW t, IsTree(t), NEW u \in TreesOn(t), NEW p \in Nodes(t), NEW s \in Seq(Nodes(t)),
         NEW opts
  PROVE  FilterChildren(u, p, s, opts) \in TreesOn(t)
<1> DEFINE n == Len(s)
           X == TreesOn(t)
           step == [i \in 1..n |-> [a \in X |-> FilterChild(a, p, s[i], opts)]]
           Is(it) == it = [T \in SUBSET DOMAIN s |->
                             IF T = {} THEN u
                             ELSE FilterChild(it[T \ {Max(T)}], p, s[Max(T)], opts)]
           iter == CHOOSE it : Is(it)
<1>1. n \in Nat /\ DOMAIN s = 1..n /\ \A i \in 1..n : s[i] \in Nodes(t)
  OBVIOUS
<1>2. FilterChildren(u, p, s, opts) = iter[DOMAIN s]
  BY DEF FilterChildren, FoldLeft, MapThenFoldSet
<1>3. u \in X
  OBVIOUS
<1>4. ASSUME NEW a \in X, NEW i \in 1..n PROVE FilterChild(a, p, s[i], opts) \in X
  BY <1>1, FilterChildOn
<1> HIDE DEF n, X
<1>5. /\ step \in [1..n -> [X -> X]]
      /\ \A i \in 1..n, a \in X : step[i][a] = FilterChild(a, p, s[i], opts)
  BY <1>4
<1> HIDE DEF step
<1>6. PICK F : Folding(F, X, n, u, step)
  BY <1>1, <1>3, <1>5, FoldExists
<1>7. Is(F)
  <2>1. /\ F \in [SUBSET (1..n) -> X] /\ F[{}] = u
        /\ \A T \in SUBSET (1..n) : T # {} => F[T] = step[Max(T)][F[T \ {Max(T)}]]
    BY <1>6 DEF Folding
  <2>2. \A T \in SUBSET (1..n) : T # {} => F[T] = FilterChild(F[T \ {Max(T)}], p, s[Max(T)], opts)
    BY <1>1, <1>5, <2>1, LastPlace
  <2> QED
    BY <1>1, <2>1, <2>2
<1>8. Is(iter)
  BY <1>7
<1> HIDE DEF iter
<1>9. /\ iter[{}] = u
      /\ \A T \in SUBSET (1..n) : T # {} => iter[T] = FilterChild(iter[T \ {Max(T)}], p, s[Max(T)], opts)
  BY <1>1, <1>8
<1>10. Unfolds(iter, X, n, u, step)
  BY <1>1, <1>5, <1>9, LastPlace DEF Unfolds
<1>11. iter[1..n] \in X
  BY <1>1, <1>3, <1>5, <1>10, FoldIsLoop
<1> QED
  BY <1>1, <1>2, <1>11 DEF X

LEMMA JoinChildrenOn ==
  ASSUME NEW t, IsTree(t), NEW u \in TreesOn(t), NEW p \in Nodes(t), NEW s \in Seq(Nodes(t))
  PROVE  JoinChildren(u, p, s) \in TreesOn(t)
<1> DEFINE n == Len(s)
           X == Passes(t)
           step == [i \in 1..n |-> [a \in X |-> Join(a, p, s[i])]]
           Is(it) == it = [T \in SUBSET DOMAIN s |->
                             IF T = {} THEN [t |-> u, head |-> NoNode]
                             ELSE Join(it[T \ {Max(T)}], p, s[Max(T)])]
           iter == CHOOSE it : Is(it)
<1>1. n \in Nat /\ DOMAIN s = 1..n /\ \A i \in 1..n : s[i] \in Nodes(t)
  OBVIOUS
<1>2. JoinChildren(u, p, s) = iter[DOMAIN s].t
  BY DEF JoinChildren, FoldLeft, MapThenFoldSet
<1>3. [t |-> u, head |-> NoNode] \in X
  BY DEF Passes
<1>4. ASSUME NEW a \in X, NEW i \in 1..n PROVE Join(a, p, s[i]) \in X
  BY <1>1, JoinOn
<1> HIDE DEF n, X
<1>5. /\ step \in [1..n -> [X -> X]]
      /\ \A i \in 1..n, a \in X : step[i][a] = Join(a, p, s[i])
  BY <1>4
<1> HIDE DEF step
<1>6. PICK F : Folding(F, X, n, [t |-> u, head |-> NoNode], step)
  BY <1>1, <1>3, <1>5, FoldExists
<1>7. Is(F)
  <2>1. /\ F \in [SUBSET (1..n) -> X] /\ F[{}] = [t |-> u, head |-> NoNode]
        /\ \A T \in SUBSET (1..n) : T # {} => F[T] = step[Max(T)][F[T \ {Max(T)}]]
    BY <1>6 DEF Folding
  <2>2. \A T \in SUBSET (1..n) : T # {} => F[T] = Join(F[T \ {Max(T)}], p, s[Max(T)])
    BY <1>1, <1>5, <2>1, LastPlace
  <2> QED
    BY <1>1, <2>1, <2>2
<1>8. Is(iter)
  BY <1>7
<1> HIDE DEF iter
<1>9. /\ iter[{}] = [t |-> u, head |-> NoNode]
      /\ \A T \in SUBSET (1..n) : T # {} => iter[T] = Join(iter[T \ {Max(T)}], p, s[Max(T)])
  BY <1>1, <1>8
<1>10. Unfolds(iter, X, n, [t |-> u, head |-> NoNode], step)
  BY <1>1, <1>5, <1>9, LastPlace DEF Unfolds
<1>11. iter[1..n] \in X
  BY <1>1, <1>3, <1>5, <1>10, FoldIsLoop
<1> QED
  BY <1>1, <1>2, <1>11 DEF X, Passes


(* The state of a pass over the elements.                                  *)
Sweeps(t) == [tree : TreesOn(t), stack : Seq(Nodes(t))]

LEMMA TreeOn ==
  ASSUME NEW t, IsTree(t), NEW n \in Nodes(t)
  PROVE  [tree |-> t, stack |-> <<n>>] \in Sweeps(t)
<1>1. t \in TreesOn(t)
  BY TreesOnIs
<1>2. <<n>> \in Seq(Nodes(t))
  BY OneIs
<1> QED
  BY <1>1, <1>2 DEF Sweeps

FilterSweep(now, opts) ==
  LET parent   == Last(now.stack)
      children == now.tree.kids[parent]
  IN  IF now.stack = <<>> THEN now
      ELSE [tree  |-> FilterChildren(now.tree, parent, children, opts),
            stack |-> Front(now.stack) \o ElementsAmong(now.tree, children)]

LEMMA FilterSweepOn ==
  ASSUME NEW t, IsTree(t), NEW r \in Sweeps(t), NEW opts
  PROVE  FilterSweep(r, opts) \in Sweeps(t)
<1> DEFINE N == Nodes(t)
           p == Last(r.stack)
           s == r.tree.kids[p]
<1>1. r.tree \in TreesOn(t) /\ r.stack \in Seq(N)
  BY DEF Sweeps
<1>2. CASE r.stack = <<>>
  BY <1>2 DEF FilterSweep
<1>3. CASE r.stack # <<>>
  <2>1. p \in N /\ Front(r.stack) \in Seq(N)
    BY <1>1, <1>3, TopIs
  <2>2. s \in Seq(N)
    <3>1. IsTree(r.tree) /\ Nodes(r.tree) = N
      BY <1>1, TreesOnIs
    <3>2. r.tree.kids \in [N -> Seq(N)]
      BY <3>1 DEF IsTree
    <3> QED
      BY <2>1, <3>2
  <2> HIDE DEF p, s
  <2>3. FilterChildren(r.tree, p, s, opts) \in TreesOn(t)
    BY <1>1, <2>1, <2>2, FilterChildrenOn
  <2> DEFINE a == Front(r.stack)
             b == ElementsAmong(r.tree, s)
  <2>4. b \in Seq(N)
    <3> DEFINE S == ToSet(s) \ {c \in Nodes(r.tree) : r.tree.kind[c] = "element"}
    <3>1. b = NotIn(s, S)
      BY DEF ElementsAmong, Among
    <3> HIDE DEF S
    <3>2. NotIn(s, S) \in Seq(N)
      BY <2>2, NotInSome
    <3> QED
      BY <3>1, <3>2
  <2>5. a \in Seq(N)
    BY <2>1
  <2>6. FilterSweep(r, opts) = [tree |-> FilterChildren(r.tree, p, s, opts), stack |-> a \o b]
    BY <1>3 DEF FilterSweep, p, s
  <2> HIDE DEF a, b
  <2>7. a \o b \in Seq(N)
    BY <2>4, <2>5, JoinIs
  <2> QED
    BY <2>3, <2>6, <2>7 DEF Sweeps
<1> QED
  BY <1>2, <1>3

LEMMA FilterTreeOn ==
  ASSUME NEW u, IsTree(u), NEW root \in Nodes(u), NEW opts
  PROVE  FilterTree(u, root, opts) \in TreesOn(u)
<1> DEFINE max == Cardinality(Nodes(u))
           X == Sweeps(u)
           base == [tree |-> u, stack |-> <<root>>]
           take == [i \in 1..max |-> [r \in X |-> FilterSweep(r, opts)]]
           step(visit) == [i \in 0..max |->
             LET now      == visit[i - 1]
                 parent   == Last(now.stack)
                 children == now.tree.kids[parent]
             IN  IF i = 0 THEN [tree |-> u, stack |-> <<root>>]
                 ELSE IF now.stack = <<>> THEN now
                 ELSE [tree  |-> FilterChildren(now.tree, parent, children, opts),
                       stack |-> Front(now.stack) \o ElementsAmong(now.tree, children)]]
           f == CHOOSE g : g = step(g)
<1>1. FilterTree(u, root, opts) = f[max].tree
  BY Zenon DEF FilterTree
<1>2. base \in X
  BY TreeOn
<1>3. ASSUME NEW r \in X PROVE FilterSweep(r, opts) \in X
  BY FilterSweepOn
<1>0. max \in Nat
  BY FS_CardinalityType DEF IsTree
<1> HIDE DEF X, max
<1>4. take \in [1..max -> [X -> X]]
  BY <1>3
<1> HIDE DEF take, base
<1>5. PICK g : Loop(g, X, max, base, take)
  BY <1>0, <1>2, <1>4, LoopRuns
<1>6. ASSUME NEW h PROVE step(h) = [i \in 0..max |-> IF i = 0 THEN base ELSE FilterSweep(h[i - 1], opts)]
  BY Zenon DEF FilterSweep, base
<1> HIDE DEF step
<1>7. g = step(g)
  <2>1. g \in [0..max -> X] /\ g[0] = base
    BY <1>5 DEF Loop
  <2>2. ASSUME NEW i \in 1..max PROVE g[i] = FilterSweep(g[i - 1], opts)
    <3>1. g[i] = take[i][g[i - 1]]
      BY <1>5 DEF Loop
    <3>2. i - 1 \in 0..max
      BY <1>0
    <3>3. g[i - 1] \in X
      BY <2>1, <3>2
    <3> QED
      BY <3>1, <3>3 DEF take
  <2>3. \A i \in 0..max : g[i] = IF i = 0 THEN base ELSE FilterSweep(g[i - 1], opts)
    <3> SUFFICES ASSUME NEW i \in 0..max
                 PROVE  g[i] = IF i = 0 THEN base ELSE FilterSweep(g[i - 1], opts)
      OBVIOUS
    <3>1. i = 0 \/ i \in 1..max
      BY <1>0
    <3> QED
      BY <2>1, <2>2, <3>1
  <2> DEFINE w == [i \in 0..max |-> IF i = 0 THEN base ELSE FilterSweep(g[i - 1], opts)]
  <2>4. g = [i \in 0..max |-> g[i]]
    BY <2>1
  <2>5. w = [i \in 0..max |-> g[i]]
    BY <2>3, Zenon
  <2> QED
    BY <1>6, <2>4, <2>5, Zenon
<1>8. f = step(f)
  BY <1>7, Zenon
<1> HIDE DEF f
<1>9. f = [i \in 0..max |-> IF i = 0 THEN base ELSE FilterSweep(f[i - 1], opts)]
  BY <1>6, <1>8, Zenon
<1> DEFINE G == {i \in 0..max : f[i] \in X}
<1>10. 0 \in G
  <2>1. 0 \in 0..max
    BY <1>0
  <2> QED
    BY <1>2, <1>9, <2>1
<1>11. ASSUME NEW i \in 1..max, i - 1 \in G PROVE i \in G
  <2>1. i \in 0..max /\ i # 0
    BY <1>0
  <2>2. f[i] = FilterSweep(f[i - 1], opts)
    BY <1>9, <2>1
  <2>3. f[i - 1] \in X
    BY <1>11
  <2> QED
    BY <1>3, <2>1, <2>2, <2>3
<1> HIDE DEF G
<1>12. 0..max \subseteq G
  BY <1>0, <1>10, <1>11, Induction
<1>13. f[max] \in X
  BY <1>0, <1>12 DEF G
<1> QED
  BY <1>1, <1>13 DEF X, Sweeps

JoinSweep(now) ==
  LET parent   == Last(now.stack)
      children == now.tree.kids[parent]
  IN  IF now.stack = <<>> THEN now
      ELSE [tree  |-> JoinChildren(now.tree, parent, children),
            stack |-> Front(now.stack) \o ElementsAmong(now.tree, children)]

LEMMA JoinSweepOn ==
  ASSUME NEW t, IsTree(t), NEW r \in Sweeps(t)
  PROVE  JoinSweep(r) \in Sweeps(t)
<1> DEFINE N == Nodes(t)
           p == Last(r.stack)
           s == r.tree.kids[p]
<1>1. r.tree \in TreesOn(t) /\ r.stack \in Seq(N)
  BY DEF Sweeps
<1>2. CASE r.stack = <<>>
  BY <1>2 DEF JoinSweep
<1>3. CASE r.stack # <<>>
  <2>1. p \in N /\ Front(r.stack) \in Seq(N)
    BY <1>1, <1>3, TopIs
  <2>2. s \in Seq(N)
    <3>1. IsTree(r.tree) /\ Nodes(r.tree) = N
      BY <1>1, TreesOnIs
    <3>2. r.tree.kids \in [N -> Seq(N)]
      BY <3>1 DEF IsTree
    <3> QED
      BY <2>1, <3>2
  <2> HIDE DEF p, s
  <2>3. JoinChildren(r.tree, p, s) \in TreesOn(t)
    BY <1>1, <2>1, <2>2, JoinChildrenOn
  <2> DEFINE a == Front(r.stack)
             b == ElementsAmong(r.tree, s)
  <2>4. b \in Seq(N)
    <3> DEFINE S == ToSet(s) \ {c \in Nodes(r.tree) : r.tree.kind[c] = "element"}
    <3>1. b = NotIn(s, S)
      BY DEF ElementsAmong, Among
    <3> HIDE DEF S
    <3>2. NotIn(s, S) \in Seq(N)
      BY <2>2, NotInSome
    <3> QED
      BY <3>1, <3>2
  <2>5. a \in Seq(N)
    BY <2>1
  <2>6. JoinSweep(r) = [tree |-> JoinChildren(r.tree, p, s), stack |-> a \o b]
    BY <1>3 DEF JoinSweep, p, s
  <2> HIDE DEF a, b
  <2>7. a \o b \in Seq(N)
    BY <2>4, <2>5, JoinIs
  <2> QED
    BY <2>3, <2>6, <2>7 DEF Sweeps
<1> QED
  BY <1>2, <1>3

LEMMA CoalesceTreeOn ==
  ASSUME NEW u, IsTree(u), NEW root \in Nodes(u)
  PROVE  CoalesceTree(u, root) \in TreesOn(u)
<1> DEFINE max == Cardinality(Nodes(u))
           X == Sweeps(u)
           base == [tree |-> u, stack |-> <<root>>]
           take == [i \in 1..max |-> [r \in X |-> JoinSweep(r)]]
           step(visit) == [i \in 0..max |->
             LET now      == visit[i - 1]
                 parent   == Last(now.stack)
                 children == now.tree.kids[parent]
             IN  IF i = 0 THEN [tree |-> u, stack |-> <<root>>]
                 ELSE IF now.stack = <<>> THEN now
                 ELSE [tree  |-> JoinChildren(now.tree, parent, children),
                       stack |-> Front(now.stack) \o ElementsAmong(now.tree, children)]]
           f == CHOOSE g : g = step(g)
<1>1. CoalesceTree(u, root) = f[max].tree
  BY Zenon DEF CoalesceTree
<1>2. base \in X
  BY TreeOn
<1>3. ASSUME NEW r \in X PROVE JoinSweep(r) \in X
  BY JoinSweepOn
<1>0. max \in Nat
  BY FS_CardinalityType DEF IsTree
<1> HIDE DEF X, max
<1>4. take \in [1..max -> [X -> X]]
  BY <1>3
<1> HIDE DEF take, base
<1>5. PICK g : Loop(g, X, max, base, take)
  BY <1>0, <1>2, <1>4, LoopRuns
<1>6. ASSUME NEW h PROVE step(h) = [i \in 0..max |-> IF i = 0 THEN base ELSE JoinSweep(h[i - 1])]
  BY Zenon DEF JoinSweep, base
<1> HIDE DEF step
<1>7. g = step(g)
  <2>1. g \in [0..max -> X] /\ g[0] = base
    BY <1>5 DEF Loop
  <2>2. ASSUME NEW i \in 1..max PROVE g[i] = JoinSweep(g[i - 1])
    <3>1. g[i] = take[i][g[i - 1]]
      BY <1>5 DEF Loop
    <3>2. i - 1 \in 0..max
      BY <1>0
    <3>3. g[i - 1] \in X
      BY <2>1, <3>2
    <3> QED
      BY <3>1, <3>3 DEF take
  <2>3. \A i \in 0..max : g[i] = IF i = 0 THEN base ELSE JoinSweep(g[i - 1])
    <3> SUFFICES ASSUME NEW i \in 0..max
                 PROVE  g[i] = IF i = 0 THEN base ELSE JoinSweep(g[i - 1])
      OBVIOUS
    <3>1. i = 0 \/ i \in 1..max
      BY <1>0
    <3> QED
      BY <2>1, <2>2, <3>1
  <2> DEFINE w == [i \in 0..max |-> IF i = 0 THEN base ELSE JoinSweep(g[i - 1])]
  <2>4. g = [i \in 0..max |-> g[i]]
    BY <2>1
  <2>5. w = [i \in 0..max |-> g[i]]
    BY <2>3, Zenon
  <2> QED
    BY <1>6, <2>4, <2>5, Zenon
<1>8. f = step(f)
  BY <1>7, Zenon
<1> HIDE DEF f
<1>9. f = [i \in 0..max |-> IF i = 0 THEN base ELSE JoinSweep(f[i - 1])]
  BY <1>6, <1>8, Zenon
<1> DEFINE G == {i \in 0..max : f[i] \in X}
<1>10. 0 \in G
  <2>1. 0 \in 0..max
    BY <1>0
  <2> QED
    BY <1>2, <1>9, <2>1
<1>11. ASSUME NEW i \in 1..max, i - 1 \in G PROVE i \in G
  <2>1. i \in 0..max /\ i # 0
    BY <1>0
  <2>2. f[i] = JoinSweep(f[i - 1])
    BY <1>9, <2>1
  <2>3. f[i - 1] \in X
    BY <1>11
  <2> QED
    BY <1>3, <2>1, <2>2, <2>3
<1> HIDE DEF G
<1>12. 0..max \subseteq G
  BY <1>0, <1>10, <1>11, Induction
<1>13. f[max] \in X
  BY <1>0, <1>12 DEF G
<1> QED
  BY <1>1, <1>13 DEF X, Sweeps

(* The options leave a tree on the nodes it had, elements named as they were.*)
LEMMA PostprocessKeeps ==
  ASSUME NEW t, IsTree(t), NEW root \in Nodes(t), NEW opts
  PROVE  LET u == Postprocess(t, root, opts)
         IN  IsTree(u) /\ Nodes(u) = Nodes(t) /\ u.name = t.name
<1> DEFINE f == FilterTree(t, root, opts)
           c == CoalesceTree(f, root)
<1>1. f \in TreesOn(t)
  BY FilterTreeOn
<1>2. IsTree(f) /\ Nodes(f) = Nodes(t) /\ f.name = t.name
  BY <1>1, TreesOnIs
<1> HIDE DEF f
<1>3. c \in TreesOn(f)
  BY <1>2, CoalesceTreeOn
<1>4. IsTree(c) /\ Nodes(c) = Nodes(t) /\ c.name = t.name
  BY <1>2, <1>3, TreesOnIs
<1> QED
  BY <1>4 DEF Postprocess, f


-----------------------------------------------------------------------------
(* What a walk has still to hand out.                                      *)

LEMMA RestIs ==
  ASSUME NEW X, NEW s \in Seq(X), NEW i \in Nat
  PROVE  /\ Rest(s, i) \in Seq(X)
         /\ i <= Len(s) => Len(Rest(s, i)) = Len(s) - i
         /\ Len(s) <= i => Rest(s, i) = <<>>
         /\ ToSet(Rest(s, i)) \subseteq ToSet(s)
<1> DEFINE f == SubSeq(s, i + 1, Len(s))
<1>1. Len(s) \in Nat /\ i + 1 \in Nat \ {0}
  OBVIOUS
<1>2. /\ f \in Seq(X)
      /\ Len(f) = (IF i + 1 <= Len(s) THEN Len(s) - (i + 1) + 1 ELSE 0)
      /\ DOMAIN f = 1..Len(f)
      /\ \A h \in DOMAIN f : f[h] = s[(i + 1) + h - 1]
  BY <1>1, Sliced
<1>3. Rest(s, i) = f
  BY DEF Rest
<1> HIDE DEF f
<1>4. i <= Len(s) => Len(f) = Len(s) - i
  BY <1>1, <1>2
<1>5. Len(s) <= i => f = <<>>
  BY <1>1, <1>2
<1>6. ASSUME NEW x \in ToSet(f) PROVE x \in ToSet(s)
  <2>1. PICK h \in DOMAIN f : f[h] = x
    BY <1>2, Ranged
  <2>2. (i + 1) + h - 1 \in DOMAIN s /\ s[(i + 1) + h - 1] = x
    BY <1>1, <1>2, <2>1
  <2> QED
    BY <2>2, Ranged
<1> QED
  BY <1>2, <1>3, <1>4, <1>5, <1>6

LEMMA RestPop ==
  ASSUME NEW X, NEW s \in Seq(X), NEW i \in Nat, i < Len(s)
  PROVE  s[i + 1] \in X /\ Rest(s, i) = <<s[i + 1]>> \o Rest(s, i + 1)
<1> DEFINE f == SubSeq(s, i + 1, Len(s))
           h == SubSeq(s, i + 2, Len(s))
           y == s[i + 1]
           u == <<y>> \o h
           n == Len(s) - i
<1>1. Len(s) \in Nat /\ i + 1 \in Nat \ {0} /\ i + 2 \in Nat \ {0} /\ n \in Nat \ {0}
  OBVIOUS
<1>2. f \in Seq(X) /\ Len(f) = n /\ \A k \in 1..n : f[k] = s[i + k]
  <2>1. /\ f \in Seq(X)
        /\ Len(f) = (IF i + 1 <= Len(s) THEN Len(s) - (i + 1) + 1 ELSE 0)
        /\ DOMAIN f = 1..Len(f)
        /\ \A k \in DOMAIN f : f[k] = s[(i + 1) + k - 1]
    BY <1>1, Sliced
  <2> QED
    BY <1>1, <2>1
<1>3. h \in Seq(X) /\ Len(h) = n - 1 /\ \A k \in 1..(n - 1) : h[k] = s[i + 1 + k]
  <2>1. /\ h \in Seq(X)
        /\ Len(h) = (IF i + 2 <= Len(s) THEN Len(s) - (i + 2) + 1 ELSE 0)
        /\ DOMAIN h = 1..Len(h)
        /\ \A k \in DOMAIN h : h[k] = s[(i + 2) + k - 1]
    BY <1>1, Sliced
  <2> QED
    BY <1>1, <2>1
<1>4. y \in X
  BY <1>1
<1>5. Rest(s, i) = f /\ Rest(s, i + 1) = h
  BY <1>1 DEF Rest
<1> HIDE DEF f, h, y, n
<1>6. /\ <<y>> \in Seq(X) /\ Len(<<y>>) = 1 /\ <<y>>[1] = y
  BY <1>4, OneIs
<1>7. /\ u \in Seq(X) /\ Len(u) = 1 + Len(h)
      /\ \A k \in 1..1 : u[k] = <<y>>[k]
      /\ \A k \in 1..Len(h) : u[1 + k] = h[k]
  <2> DEFINE o == <<y>>
  <2>1. o \in Seq(X) /\ h \in Seq(X) /\ Len(o) = 1
    BY <1>3, <1>6
  <2> HIDE DEF o
  <2>2. /\ o \o h \in Seq(X) /\ Len(o \o h) = Len(o) + Len(h)
        /\ \A k \in 1..Len(o) : (o \o h)[k] = o[k]
        /\ \A k \in 1..Len(h) : (o \o h)[Len(o) + k] = h[k]
    <3>1. Two(X, o, h)
      BY <2>1 DEF Two
    <3> QED
      BY <3>1, JoinTwo
  <2> QED
    BY <2>1, <2>2 DEF o
<1> HIDE DEF u
<1>8. \A k \in 1..n : f[k] = u[k]
  <2> SUFFICES ASSUME NEW k \in 1..n PROVE f[k] = u[k]
    OBVIOUS
  <2>1. CASE k = 1
    BY <1>1, <1>2, <1>6, <1>7, <2>1 DEF y
  <2>2. CASE k # 1
    <3> DEFINE j == k - 1
    <3>1. j \in 1..(n - 1) /\ k = 1 + j
      BY <1>1, <2>2
    <3> HIDE DEF j
    <3>2. u[1 + j] = h[j] /\ h[j] = s[i + 1 + j]
      BY <1>3, <1>7, <3>1
    <3>3. f[k] = s[i + k] /\ i + k = i + 1 + j
      BY <1>2, <3>1
    <3> QED
      BY <3>1, <3>2, <3>3
  <2> QED
    BY <2>1, <2>2
<1>9. f = u
  <2>1. Len(f) = Len(u)
    BY <1>1, <1>2, <1>3, <1>7
  <2> QED
    BY <1>2, <1>7, <1>8, <2>1, SameSeq
<1> QED
  BY <1>4, <1>5, <1>9 DEF u, y

(* The rest of the buffer, and then the matches that the stack still holds.*)
Later(t, w) == Rest(w.buffer, w.index) \o Sift(Flat(t, w.stack), Found(t, w.filter))

(* An iterator over t, within its buffer and within its batch.             *)
Typed(t, w) ==
  /\ w = [stack |-> w.stack, filter |-> w.filter, batch |-> w.batch,
          buffer |-> w.buffer, index |-> w.index]
  /\ w.stack \in Seq(Nodes(t)) /\ w.buffer \in Seq(Nodes(t))
  /\ ToSet(w.buffer) \subseteq Found(t, w.filter)
  /\ w.batch \in Nat \ {0} /\ Len(w.buffer) <= w.batch
  /\ w.index \in Nat
  /\ (w.buffer = <<>> /\ w.index <= 1) \/ w.index \in 1..Len(w.buffer)

LEMMA LaterIs ==
  ASSUME NEW t, IsTree(t), NEW w, Typed(t, w)
  PROVE  /\ Later(t, w) \in Seq(Nodes(t))
         /\ ToSet(Later(t, w)) \subseteq Found(t, w.filter)
         /\ Rest(w.buffer, w.index) \in Seq(Nodes(t))
         /\ Sift(Flat(t, w.stack), Found(t, w.filter)) \in Seq(Nodes(t))
<1> DEFINE N == Nodes(t)
           M == Found(t, w.filter)
           a == Rest(w.buffer, w.index)
           b == Sift(Flat(t, w.stack), M)
<1>1. a \in Seq(N) /\ ToSet(a) \subseteq M
  <2>1. w.buffer \in Seq(N) /\ w.index \in Nat /\ ToSet(w.buffer) \subseteq M
    BY DEF Typed
  <2> HIDE DEF M
  <2> QED
    BY <2>1, RestIs
<1>2. Flat(t, w.stack) \in Seq(N)
  BY FlatIs DEF Typed
<1> HIDE DEF M
<1>3. b \in Seq(N) /\ ToSet(b) \subseteq M
  BY <1>2, SiftIs, SiftRange
<1> HIDE DEF a, b
<1>4. a \o b \in Seq(N) /\ ToSet(a \o b) = ToSet(a) \cup ToSet(b)
  BY <1>1, <1>3, JoinIs, JoinRange
<1>5. Later(t, w) = a \o b
  BY DEF Later, a, b, M
<1> QED
  BY <1>1, <1>3, <1>4, <1>5 DEF M, a, b


(* One step of the iterator: within the buffer, or to the next one.        *)
Advanced(t, w) ==
  IF w.index < Len(w.buffer) THEN [w EXCEPT !.index = @ + 1] ELSE Refill(t, w)

(* v is w after it handed out y, or found that there is nothing left.      *)
Serves(t, w, v) ==
  /\ Typed(t, v) /\ v.filter = w.filter /\ v.batch = w.batch
  /\ v.buffer # <<>> =>
       /\ v.buffer[v.index] \in Found(t, w.filter)
       /\ Later(t, w) = <<v.buffer[v.index]>> \o Later(t, v)
  /\ v.buffer = <<>> =>
       v.stack = <<>> /\ Later(t, w) = <<>> /\ Later(t, v) = <<>>

LEMMA ServesFromBuffer ==
  ASSUME NEW t, IsTree(t), NEW w, Typed(t, w), w.index < Len(w.buffer)
  PROVE  Serves(t, w, Advanced(t, w))
<1> DEFINE N == Nodes(t)
           M == Found(t, w.filter)
           v == Advanced(t, w)
           i == w.index
           s == w.buffer
           y == s[i + 1]
           b == Sift(Flat(t, w.stack), M)
           a == Rest(s, i)
           c == Rest(s, i + 1)
<1>1. /\ w = [stack |-> w.stack, filter |-> w.filter, batch |-> w.batch,
              buffer |-> s, index |-> i]
      /\ w.stack \in Seq(N) /\ s \in Seq(N) /\ ToSet(s) \subseteq M
      /\ w.batch \in Nat \ {0} /\ Len(s) <= w.batch /\ i \in Nat
  BY DEF Typed
<1>2. v = [stack |-> w.stack, filter |-> w.filter, batch |-> w.batch,
           buffer |-> s, index |-> i + 1]
  <2>1. v = [w EXCEPT !.index = @ + 1]
    BY DEF Advanced
  <2> HIDE DEF v, s, i
  <2> QED
    BY <1>1, <2>1
<1>3. i + 1 \in 1..Len(s) /\ i + 1 \in Nat /\ s # <<>> /\ i + 1 \in DOMAIN s
  BY <1>1
<1> HIDE DEF M, v
<1>4. Typed(t, v)
  BY <1>1, <1>2, <1>3 DEF Typed, M
<1>5. y \in M /\ y \in N
  <2>1. y \in ToSet(s)
    BY <1>1, <1>3, Ranged
  <2> QED
    BY <1>1, <1>3, <2>1
<1>6. a = <<y>> \o c
  <2>1. s \in Seq(N) /\ i \in Nat /\ i < Len(s)
    BY <1>1
  <2> HIDE DEF s, i
  <2> QED
    BY <2>1, RestPop DEF s, i
<1>7. c \in Seq(N) /\ b \in Seq(N) /\ <<y>> \in Seq(N)
  <2>1. c \in Seq(N)
    BY <1>1, <1>3, RestIs
  <2>2. b \in Seq(N)
    BY LaterIs DEF M
  <2> QED
    BY <1>5, <2>1, <2>2, OneIs
<1>8. Later(t, w) = a \o b /\ Later(t, v) = c \o b
  BY <1>2 DEF Later, M
<1> HIDE DEF a, b, c, y, s, i
<1>9. (<<y>> \o c) \o b = <<y>> \o (c \o b)
  <2> DEFINE o == <<y>>
  <2>1. All3(N, o, c, b)
    BY <1>7 DEF All3
  <2> HIDE DEF o
  <2>2. (o \o c) \o b = o \o (c \o b)
    BY <2>1, Assoc
  <2> QED
    BY <2>2 DEF o
<1>10. v.buffer[v.index] = y /\ v.buffer # <<>> /\ v.filter = w.filter /\ v.batch = w.batch
  BY <1>2, <1>3 DEF y, s, i
<1> QED
  BY <1>4, <1>5, <1>6, <1>8, <1>9, <1>10 DEF Serves, M, v

LEMMA ServesFromStack ==
  ASSUME NEW t, IsTree(t), NEW w, Typed(t, w), ~(w.index < Len(w.buffer))
  PROVE  Serves(t, w, Advanced(t, w))
<1> DEFINE N == Nodes(t)
           M == Found(t, w.filter)
           v == Advanced(t, w)
           f == TakeMatches(t, w.stack, w.filter, w.batch)
           ids == f.ids
           before == Sift(Flat(t, w.stack), M)
           after == Sift(Flat(t, f.stack), M)
           none == <<>>
<1>1. /\ w = [stack |-> w.stack, filter |-> w.filter, batch |-> w.batch,
              buffer |-> w.buffer, index |-> w.index]
      /\ w.stack \in Seq(N) /\ w.buffer \in Seq(N) /\ ToSet(w.buffer) \subseteq M
      /\ w.batch \in Nat \ {0} /\ w.index \in Nat
      /\ w.batch \in Nat /\ w.batch # 0
  BY DEF Typed
<1>2. Takes(t, w.stack, M, w.batch, f)
  BY <1>1, TakeMatchesTakes
<1>3. /\ ids \in Seq(N) /\ f.stack \in Seq(N) /\ ToSet(ids) \subseteq M
      /\ Len(ids) <= w.batch /\ before = ids \o after
      /\ ids = none => f.stack = none
  BY <1>1, <1>2 DEF Takes
<1>4. v = [stack |-> f.stack, filter |-> w.filter, batch |-> w.batch,
           buffer |-> ids, index |-> 1]
  <2>1. v = [w EXCEPT !.stack = f.stack, !.buffer = ids, !.index = 1]
    BY DEF Advanced, Refill
  <2> HIDE DEF v, f
  <2> QED
    BY <1>1, <2>1
<1> HIDE DEF M, v, f
<1>5. ids # none => 1 \in 1..Len(ids) /\ 1 \in DOMAIN ids /\ 0 < Len(ids)
  BY <1>3
<1>6. Typed(t, v)
  BY <1>1, <1>3, <1>4, <1>5 DEF Typed, M
<1>7. Later(t, w) = before
  <2>1. Rest(w.buffer, w.index) = none
    BY <1>1, RestIs
  <2>2. before \in Seq(N)
    BY LaterIs DEF M
  <2>3. Later(t, w) = none \o before
    BY <2>1 DEF Later, M
  <2> HIDE DEF before, none
  <2>4. none \o before = before
    BY <2>2, JoinEmpty DEF none
  <2> QED
    BY <2>3, <2>4
<1>8. Later(t, v) = Rest(ids, 1) \o after
  BY <1>4 DEF Later, M
<1>9. after \in Seq(N)
  BY <1>4, <1>6, LaterIs DEF M
<1>10. v.filter = w.filter /\ v.batch = w.batch /\ v.buffer = ids /\ v.index = 1 /\ v.stack = f.stack
  BY <1>4
<1>11. CASE ids = none
  <2>1. f.stack = none
    BY <1>3, <1>11
  <2>2. Flat(t, f.stack) = none
    BY <2>1, FlatEmpty
  <2>3. after = none
    BY <2>2, SiftEmpty
  <2>4. none \o none = none
    BY EmptyIs, JoinEmpty
  <2>5. Rest(ids, 1) = none
    BY <1>3, <1>11, RestIs
  <2>6. Later(t, w) = none /\ Later(t, v) = none
    BY <1>3, <1>7, <1>8, <1>11, <2>3, <2>4, <2>5, Zenon
  <2> HIDE DEF ids
  <2> QED
    BY <1>6, <1>10, <1>11, <2>1, <2>6 DEF Serves, v
<1>12. CASE ids # none
  <2> DEFINE y == ids[1]
             c == Rest(ids, 1)
  <2>1. y \in M /\ y \in N
    <3>1. y \in ToSet(ids)
      BY <1>3, <1>5, <1>12, Ranged
    <3> QED
      BY <1>3, <1>5, <1>12, <3>1
  <2>2. Rest(ids, 0) = <<y>> \o c /\ Rest(ids, 0) = ids
    <3>1. Rest(ids, 0) = <<ids[0 + 1]>> \o Rest(ids, 0 + 1)
      BY <1>3, <1>5, <1>12, RestPop
    <3>2. Rest(ids, 0) = ids
      BY <1>3 DEF Rest
    <3> QED
      BY <3>1, <3>2
  <2>3. c \in Seq(N) /\ <<y>> \in Seq(N)
    BY <1>3, <2>1, RestIs, OneIs
  <2> HIDE DEF y, c, ids, before, after, none
  <2>4. (<<y>> \o c) \o after = <<y>> \o (c \o after)
    <3> DEFINE o == <<y>>
    <3>1. All3(N, o, c, after)
      BY <1>9, <2>3 DEF All3
    <3> HIDE DEF o
    <3>2. (o \o c) \o after = o \o (c \o after)
      BY <3>1, Assoc
    <3> QED
      BY <3>2 DEF o
  <2>5. Later(t, w) = <<y>> \o Later(t, v)
    BY <1>3, <1>7, <1>8, <2>2, <2>4, Zenon DEF c
  <2>6. v.buffer[v.index] = y /\ v.buffer # <<>>
    BY <1>10, <1>12 DEF y, none
  <2> QED
    BY <1>6, <1>10, <2>1, <2>5, <2>6 DEF Serves, M, v
<1> QED
  BY <1>11, <1>12 DEF v

LEMMA AdvancedServes ==
  ASSUME NEW t, IsTree(t), NEW w, Typed(t, w)
  PROVE  Serves(t, w, Advanced(t, w))
BY ServesFromBuffer, ServesFromStack


-----------------------------------------------------------------------------
(* The walk under edits.                                                   *)

(* What was handed out, and what will be if there are no more edits.       *)
Trace(t, w, g) == g \o Later(t, w)

(* What the edits did to the tree the walk began with.                     *)
Edited(t, s) ==
  /\ s = [first |-> s.first, moved |-> s.moved, disturbed |-> s.disturbed, out |-> s.out]
  /\ IsTree(s.first) /\ Nodes(s.first) = Nodes(t)
  /\ s.first.kind = t.kind /\ s.first.name = t.name
  /\ s.moved \subseteq s.disturbed
  /\ Differ(s.first, t, s.disturbed)

(* Undisturbed matches come in document order,                             *)
InOrder(t, w, g, s) ==
  LET K == Found(t, w.filter) \ s.disturbed
  IN  Sift(Trace(t, w, g), K) = Sift(PreOrder(s.first, Root), K)

(* what was not moved comes once,                                          *)
Counted(t, w, g, s) == \A x : x \notin s.moved => HowOften(Trace(t, w, g), x) <= 1

(* and what was removed ahead of the walk does not come.                   *)
StaysOut(t, w, s) == \A x \in s.out : HowOften(Later(t, w), x) = 0

Walking(t, w, g, s) ==
  /\ IsTree(t) /\ Root \in Nodes(t)
  /\ Typed(t, w)
  /\ g \in Seq(Nodes(t)) /\ ToSet(g) \subseteq Found(t, w.filter)
  /\ Edited(t, s)
  /\ InOrder(t, w, g, s) /\ Counted(t, w, g, s) /\ StaysOut(t, w, s)

LEMMA FoundSame ==
  ASSUME NEW t, NEW r, Nodes(r) = Nodes(t), r.kind = t.kind, r.name = t.name, NEW filter
  PROVE  Found(r, filter) = Found(t, filter)
BY DEF Found, Matches, IsContent

LEMMA TraceIs ==
  ASSUME NEW t, IsTree(t), NEW w, Typed(t, w), NEW g \in Seq(Nodes(t)),
         ToSet(g) \subseteq Found(t, w.filter)
  PROVE  /\ Two(Nodes(t), g, Later(t, w)) /\ Trace(t, w, g) \in Seq(Nodes(t))
         /\ ToSet(Trace(t, w, g)) \subseteq Found(t, w.filter)
         /\ \A x : /\ HowOften(Trace(t, w, g), x) = HowOften(g, x) + HowOften(Later(t, w), x)
                   /\ HowOften(g, x) \in Nat /\ HowOften(Later(t, w), x) \in Nat
<1> DEFINE N == Nodes(t)
           M == Found(t, w.filter)
           l == Later(t, w)
<1>1. l \in Seq(N) /\ ToSet(l) \subseteq M
  BY LaterIs
<1> HIDE DEF M, l
<1>2. Two(N, g, l)
  BY <1>1 DEF Two
<1>3. g \o l \in Seq(N) /\ ToSet(g \o l) = ToSet(g) \cup ToSet(l)
  BY <1>2, JoinTwo
<1>4. \A x : HowOften(g \o l, x) = HowOften(g, x) + HowOften(l, x)
  BY <1>2, HowOftenJoin
<1>5. \A x : HowOften(g, x) \in Nat /\ HowOften(l, x) \in Nat
  BY <1>1, HowOftenIs
<1>6. Trace(t, w, g) = g \o l
  BY DEF Trace, l
<1>7. ToSet(g) \subseteq M
  BY DEF M
<1> QED
  BY <1>1, <1>2, <1>3, <1>4, <1>5, <1>6, <1>7 DEF l, M

(* A node handed out goes from what is to come to what was handed out.     *)
LEMMA StepWalking ==
  ASSUME NEW t, NEW w, NEW g, NEW s, Walking(t, w, g, s), NEW v, Serves(t, w, v), v.buffer # <<>>
  PROVE  /\ Walking(t, v, g \o <<v.buffer[v.index]>>, s)
         /\ v.buffer[v.index] \notin s.out
<1> DEFINE N == Nodes(t)
           M == Found(t, w.filter)
           y == v.buffer[v.index]
           one == <<y>>
           l == Later(t, v)
           h == g \o one
<1>1. /\ IsTree(t) /\ Root \in N /\ Typed(t, w) /\ g \in Seq(N) /\ ToSet(g) \subseteq M
      /\ Edited(t, s) /\ InOrder(t, w, g, s) /\ Counted(t, w, g, s) /\ StaysOut(t, w, s)
  BY DEF Walking
<1>2. /\ Typed(t, v) /\ v.filter = w.filter
      /\ y \in M /\ Later(t, w) = one \o l
  BY DEF Serves
<1>3. l \in Seq(N) /\ y \in N /\ one \in Seq(N)
  <2>1. l \in Seq(N)
    BY <1>1, <1>2, LaterIs
  <2>2. y \in N
    BY <1>2 DEF Found
  <2> HIDE DEF l, y
  <2> QED
    BY <2>1, <2>2, OneIs
<1> HIDE DEF l, one, y, M
<1>4. Trace(t, v, h) = Trace(t, w, g) /\ h \in Seq(N)
  <2>1. All3(N, g, one, l)
    BY <1>1, <1>3 DEF All3
  <2>2. (g \o one) \o l = g \o (one \o l) /\ g \o one \in Seq(N)
    BY <2>1, Assoc
  <2> QED
    BY <1>2, <2>2, Zenon DEF Trace, l
<1>5. ToSet(h) \subseteq M
  <2>1. Two(N, g, one)
    BY <1>1, <1>3 DEF Two
  <2>2. ToSet(g \o one) = ToSet(g) \cup ToSet(one)
    BY <2>1, JoinTwo
  <2>3. ToSet(one) = {y}
    BY OneRange DEF one
  <2> QED
    BY <1>1, <1>2, <2>2, <2>3
<1>6. \A x : /\ HowOften(Later(t, w), x) = HowOften(one, x) + HowOften(l, x)
             /\ HowOften(one, x) \in Nat /\ HowOften(l, x) \in Nat
  <2>1. Two(N, one, l)
    BY <1>3 DEF Two
  <2>2. \A x : HowOften(one \o l, x) = HowOften(one, x) + HowOften(l, x)
    BY <2>1, HowOftenJoin
  <2>3. \A x : HowOften(one, x) \in Nat /\ HowOften(l, x) \in Nat
    BY <1>3, HowOftenIs
  <2> QED
    BY <1>2, <2>2, <2>3
<1>7. HowOften(one, y) = 1
  BY HowOftenOne DEF one
<1>8. StaysOut(t, v, s)
  <2>1. \A x \in s.out : HowOften(Later(t, w), x) = 0
    BY <1>1 DEF StaysOut
  <2>2. \A x \in s.out : HowOften(l, x) = 0
    BY <1>6, <2>1
  <2> QED
    BY <2>2 DEF StaysOut, l
<1>9. y \notin s.out
  <2>1. HowOften(Later(t, w), y) # 0
    BY <1>6, <1>7
  <2> QED
    BY <1>1, <2>1 DEF StaysOut
<1> HIDE DEF h
<1>10. InOrder(t, v, h, s) /\ Counted(t, v, h, s)
  BY <1>1, <1>2, <1>4 DEF InOrder, Counted
<1>11. Walking(t, v, h, s)
  BY <1>1, <1>2, <1>4, <1>5, <1>8, <1>10 DEF Walking, M
<1> QED
  BY <1>9, <1>11 DEF h, one, y

(* At the end nothing is to come.                                          *)
LEMMA EndWalking ==
  ASSUME NEW t, NEW w, NEW g, NEW s, Walking(t, w, g, s), NEW v, Serves(t, w, v), v.buffer = <<>>
  PROVE  Walking(t, v, g, s) /\ Later(t, v) = <<>>
<1>1. /\ IsTree(t) /\ Root \in Nodes(t) /\ Typed(t, w)
      /\ g \in Seq(Nodes(t)) /\ ToSet(g) \subseteq Found(t, w.filter)
      /\ Edited(t, s) /\ InOrder(t, w, g, s) /\ Counted(t, w, g, s) /\ StaysOut(t, w, s)
  BY DEF Walking
<1>2. /\ Typed(t, v) /\ v.filter = w.filter
      /\ Later(t, w) = Later(t, v) /\ Later(t, v) = <<>>
  BY DEF Serves
<1>3. InOrder(t, v, g, s) /\ Counted(t, v, g, s) /\ StaysOut(t, v, s)
  BY <1>1, <1>2 DEF InOrder, Counted, StaysOut, Trace
<1> QED
  BY <1>1, <1>2, <1>3 DEF Walking


(* A walk that begins has everything before it.                            *)
LEMMA BeginWalking ==
  ASSUME NEW t, IsTree(t), Root \in Nodes(t), NEW filter, NEW batch \in Nat \ {0},
         NEW w, w = [stack |-> <<Root>>, filter |-> filter, batch |-> batch,
                     buffer |-> <<>>, index |-> 0],
         NEW s, s = [first |-> t, moved |-> {}, disturbed |-> {}, out |-> {}]
  PROVE  Walking(t, w, <<>>, s)
<1> DEFINE N == Nodes(t)
           M == Found(t, filter)
           none == <<>>
           one == <<Root>>
           p == PreOrder(t, Root)
           l == Sift(p, M)
<1>1. /\ w.stack = one /\ w.filter = filter /\ w.batch = batch /\ w.buffer = none /\ w.index = 0
      /\ s.first = t /\ s.moved = {} /\ s.disturbed = {} /\ s.out = {}
  OBVIOUS
<1>2. one \in Seq(N) /\ none \in Seq(N) /\ Len(none) = 0 /\ ToSet(none) = {}
  BY OneIs, EmptyIs
<1>3. Typed(t, w)
  <2>1. w = [stack |-> w.stack, filter |-> w.filter, batch |-> w.batch,
             buffer |-> w.buffer, index |-> w.index]
    OBVIOUS
  <2> HIDE DEF one, none
  <2>2. none = <<>>
    BY DEF none
  <2>3. ToSet(w.buffer) \subseteq Found(t, w.filter) /\ Len(w.buffer) <= w.batch
    BY <1>1, <1>2
  <2> QED
    BY <1>1, <1>2, <2>1, <2>2, <2>3 DEF Typed
<1>4. p \in Seq(N)
  BY PreOrderSeq
<1>5. Rest(none, 0) = none
  <2> HIDE DEF none
  <2>1. none \in Seq(N) /\ 0 \in Nat /\ Len(none) <= 0
    BY <1>2
  <2>2. Rest(none, 0) = <<>>
    BY <2>1, RestIs
  <2> QED
    BY <2>2 DEF none
<1>6. Flat(t, one) = p
  BY FlatOne
<1> HIDE DEF p, M, one
<1>7. l \in Seq(N)
  BY <1>4, SiftIs
<1>8. Trace(t, w, none) = l /\ Later(t, w) = l
  <2>1. Later(t, w) = none \o l
    BY <1>1, <1>5, <1>6, Zenon DEF Later, M
  <2> HIDE DEF l
  <2>2. none \o l = l
    BY <1>7, JoinEmpty
  <2> QED
    BY <2>1, <2>2 DEF Trace
<1>9. InOrder(t, w, none, s)
  <2>1. \A x \in ToSet(p) : x \in M <=> x \in M /\ x \in M
    OBVIOUS
  <2>2. Sift(l, M) = l
    BY <1>4, <2>1, SiftTwice
  <2>3. M \ {} = M
    OBVIOUS
  <2> HIDE DEF l
  <2> QED
    BY <1>1, <1>8, <2>2, <2>3 DEF InOrder, M, p, l
<1>10. Counted(t, w, none, s)
  <2> SUFFICES ASSUME NEW x PROVE HowOften(l, x) <= 1
    BY <1>8 DEF Counted
  <2>1. HowOften(p, x) <= 1
    BY PreOrderOnce DEF Once, p
  <2>2. HowOften(l, x) = IF x \in M THEN HowOften(p, x) ELSE 0
    <3>1. CASE x \in M
      <4>1. \A z \in ToSet(p) : z \in {x} <=> z \in M /\ z \in {x}
        BY <3>1
      <4>2. Sift(l, {x}) = Sift(p, {x})
        BY <1>4, <4>1, SiftTwice
      <4> QED
        BY <3>1, <4>2 DEF HowOften
    <3>2. CASE x \notin M
      <4>1. ToSet(l) \subseteq M
        BY <1>4, SiftRange
      <4>2. ToSet(l) \cap {x} = {}
        BY <3>2, <4>1
      <4> HIDE DEF l
      <4>3. Sift(l, {x}) = <<>>
        BY <1>7, <4>2, SiftNone
      <4> QED
        BY <3>2, <4>3 DEF HowOften
    <3> QED
      BY <3>1, <3>2
  <2> QED
    BY <2>1, <2>2
<1>11. StaysOut(t, w, s)
  BY <1>1 DEF StaysOut
<1>12. Edited(t, s)
  <2>1. Differ(t, t, {})
    BY DifferNone
  <2> QED
    BY <1>1, <2>1 DEF Edited
<1>13. ToSet(none) \subseteq Found(t, w.filter)
  BY <1>2
<1> HIDE DEF none
<1>14. Walking(t, w, none, s)
  BY <1>2, <1>3, <1>9, <1>10, <1>11, <1>12, <1>13 DEF Walking
<1> QED
  BY <1>14 DEF none

(* Matches in a part of a walk.                                            *)
LEMMA LaterOften ==
  ASSUME NEW t, IsTree(t), NEW w, Typed(t, w), NEW x
  PROVE  /\ HowOften(Later(t, w), x) =
              HowOften(Rest(w.buffer, w.index), x) +
              (IF x \in Found(t, w.filter) THEN HowOften(Flat(t, w.stack), x) ELSE 0)
         /\ HowOften(Rest(w.buffer, w.index), x) \in Nat
         /\ HowOften(Flat(t, w.stack), x) \in Nat
<1> DEFINE N == Nodes(t)
           M == Found(t, w.filter)
           a == Rest(w.buffer, w.index)
           p == Flat(t, w.stack)
           b == Sift(p, M)
<1>1. p \in Seq(N)
  BY FlatIs DEF Typed
<1>2. a \in Seq(N) /\ b \in Seq(N)
  BY LaterIs
<1>3. Later(t, w) = a \o b
  BY DEF Later
<1> HIDE DEF M, a, p
<1>4. HowOften(b, x) = IF x \in M THEN HowOften(p, x) ELSE 0
  <2>1. CASE x \in M
    <3>1. \A z \in ToSet(p) : z \in {x} <=> z \in M /\ z \in {x}
      BY <2>1
    <3>2. Sift(b, {x}) = Sift(p, {x})
      BY <1>1, <3>1, SiftTwice
    <3> QED
      BY <2>1, <3>2 DEF HowOften
  <2>2. CASE x \notin M
    <3>1. ToSet(b) \subseteq M
      BY <1>1, SiftRange
    <3>2. ToSet(b) \cap {x} = {}
      BY <2>2, <3>1
    <3> HIDE DEF b
    <3>3. Sift(b, {x}) = <<>>
      BY <1>2, <3>2, SiftNone
    <3> QED
      BY <2>2, <3>3 DEF HowOften
  <2> QED
    BY <2>1, <2>2
<1> HIDE DEF b
<1>5. Two(N, a, b)
  BY <1>2 DEF Two
<1>6. HowOften(a \o b, x) = HowOften(a, x) + HowOften(b, x)
  BY <1>5, HowOftenJoin
<1>7. HowOften(a, x) \in Nat /\ HowOften(p, x) \in Nat
  BY <1>1, <1>2, HowOftenIs
<1> QED
  BY <1>3, <1>4, <1>6, <1>7 DEF M, a, p


LEMMA TypedSame ==
  ASSUME NEW t, NEW r, Nodes(r) = Nodes(t), r.kind = t.kind, r.name = t.name,
         NEW w, Typed(t, w)
  PROVE  Typed(r, w) /\ Found(r, w.filter) = Found(t, w.filter)
<1>1. Found(r, w.filter) = Found(t, w.filter)
  BY FoundSame
<1> QED
  BY <1>1 DEF Typed

(* Edits of the nodes of C only do not show in the order of the others.    *)
LEMMA OrderKept ==
  ASSUME NEW t, NEW w, NEW g, NEW s, Walking(t, w, g, s),
         NEW r, IsTree(r), Nodes(r) = Nodes(t), r.kind = t.kind, r.name = t.name,
         NEW C, Differ(t, r, C), NEW z, z.first = s.first, z.disturbed = s.disturbed \cup C
  PROVE  InOrder(r, w, g, z)
<1> DEFINE N == Nodes(t)
           M == Found(t, w.filter)
           K == M \ s.disturbed
           L == M \ z.disturbed
           a == Rest(w.buffer, w.index)
           p == Flat(t, w.stack)
           q == Flat(r, w.stack)
           o == PreOrder(s.first, Root)
           u == Trace(t, w, g)
           v == Trace(r, w, g)
           e == Reverse(w.stack)
<1>1. /\ IsTree(t) /\ Root \in N /\ Typed(t, w) /\ g \in Seq(N) /\ ToSet(g) \subseteq M
      /\ Edited(t, s) /\ InOrder(t, w, g, s)
  BY DEF Walking
<1>2. Typed(r, w) /\ Found(r, w.filter) = M
  BY <1>1, TypedSame
<1>3. e \in Seq(N) /\ w.stack \in Seq(N)
  BY <1>1, ReverseIs DEF Typed
<1>4. Sift(p, L) = Sift(q, L)
  <2>1. L \cap C = {}
    OBVIOUS
  <2> HIDE DEF L, e
  <2>2. Sift(Listing(t, e), L) = Sift(Listing(r, e), L)
    BY <1>1, <1>3, <2>1, SameListing
  <2> QED
    BY <2>2 DEF Flat, e
<1>5. p \in Seq(N) /\ q \in Seq(N)
  BY <1>1, <1>3, FlatIs
<1>6. a \in Seq(N) /\ Sift(p, M) \in Seq(N) /\ Sift(q, M) \in Seq(N)
  BY <1>1, <1>2, LaterIs
<1>7. Later(t, w) = a \o Sift(p, M) /\ Later(r, w) = a \o Sift(q, M)
  BY <1>2 DEF Later
<1>8. u \in Seq(N) /\ o \in Seq(N)
  <2>1. u \in Seq(N)
    BY <1>1, TraceIs
  <2>2. o \in Seq(N)
    BY <1>1, PreOrderSeq DEF Edited
  <2> QED
    BY <2>1, <2>2
<1>9. Sift(u, K) = Sift(o, K)
  BY <1>1 DEF InOrder
<1>10. L \subseteq K /\ L \subseteq M
  OBVIOUS
<1> HIDE DEF M, K, L, a, p, q, o, u, e, N
<1>11. Sift(u, L) = Sift(o, L)
  <2>1. \A x : x \in L <=> x \in K /\ x \in L
    BY <1>10
  <2>2. Sift(Sift(u, K), L) = Sift(u, L)
    BY <1>8, <2>1, SiftTwice
  <2>3. Sift(Sift(o, K), L) = Sift(o, L)
    BY <1>8, <2>1, SiftTwice
  <2> QED
    BY <1>9, <2>2, <2>3
<1>12. Sift(Sift(p, M), L) = Sift(Sift(q, M), L)
  <2>1. \A x : x \in L <=> x \in M /\ x \in L
    BY <1>10
  <2>2. Sift(Sift(p, M), L) = Sift(p, L)
    BY <1>5, <2>1, SiftTwice
  <2>3. Sift(Sift(q, M), L) = Sift(q, L)
    BY <1>5, <2>1, SiftTwice
  <2> QED
    BY <1>4, <2>2, <2>3
<1>13. Sift(u, L) = Sift(v, L)
  <2> DEFINE b == Sift(p, M)
             c == Sift(q, M)
  <2>1. u = g \o (a \o b) /\ v = g \o (a \o c)
    BY <1>7 DEF Trace, u
  <2>2. Two(N, a, b) /\ Two(N, a, c) /\ g \in Seq(N)
    BY <1>1, <1>6 DEF Two, N
  <2>3. Sift(b, L) = Sift(c, L)
    BY <1>12
  <2> HIDE DEF b, c, v
  <2>4. Sift(a \o b, L) = Sift(a, L) \o Sift(b, L) /\ Sift(a \o c, L) = Sift(a, L) \o Sift(c, L)
    BY <2>2, SiftTwo
  <2>5. a \o b \in Seq(N) /\ a \o c \in Seq(N)
    BY <2>2, JoinTwo
  <2> DEFINE x == a \o b
             y == a \o c
  <2>6. Two(N, g, x) /\ Two(N, g, y)
    BY <2>2, <2>5 DEF Two
  <2>7. Sift(x, L) = Sift(y, L)
    BY <2>3, <2>4
  <2>8. u = g \o x /\ v = g \o y
    BY <2>1
  <2> HIDE DEF x, y
  <2>9. Sift(g \o x, L) = Sift(g, L) \o Sift(x, L) /\ Sift(g \o y, L) = Sift(g, L) \o Sift(y, L)
    BY <2>6, SiftTwo
  <2> QED
    BY <2>7, <2>8, <2>9
<1>14. Sift(v, L) = Sift(o, L)
  BY <1>11, <1>13
<1> QED
  BY <1>2, <1>14 DEF InOrder, L, M, o

(* An edit keeps the walk in order, if it lists nothing more often but     *)
(* what it moves.                                                          *)
LEMMA EditWalking ==
  ASSUME NEW t, NEW w, NEW g, NEW s, Walking(t, w, g, s),
         NEW r, IsTree(r), Nodes(r) = Nodes(t), r.kind = t.kind, r.name = t.name,
         NEW C, Differ(t, r, C),
         NEW z, z = [first |-> s.first, moved |-> z.moved, disturbed |-> s.disturbed \cup C,
                     out |-> z.out],
         s.moved \subseteq z.moved, z.moved \subseteq z.disturbed,
         \A x : x \notin z.moved => HowOften(Flat(r, w.stack), x) <= HowOften(Flat(t, w.stack), x),
         StaysOut(r, w, z)
  PROVE  Walking(r, w, g, z)
<1> DEFINE N == Nodes(t)
           M == Found(t, w.filter)
<1>1. /\ IsTree(t) /\ Root \in N /\ Typed(t, w) /\ g \in Seq(N) /\ ToSet(g) \subseteq M
      /\ Edited(t, s) /\ Counted(t, w, g, s)
  BY DEF Walking
<1>2. Typed(r, w) /\ Found(r, w.filter) = M
  BY <1>1, TypedSame
<1>3. z.first = s.first /\ z.disturbed = s.disturbed \cup C
  OBVIOUS
<1>4. InOrder(r, w, g, z)
  BY <1>3, OrderKept
<1>5. Counted(r, w, g, z)
  <2> SUFFICES ASSUME NEW x, x \notin z.moved PROVE HowOften(Trace(r, w, g), x) <= 1
    BY DEF Counted
  <2> HIDE DEF M
  <2>1. HowOften(Trace(t, w, g), x) <= 1
    BY <1>1 DEF Counted
  <2>2. /\ HowOften(Trace(t, w, g), x) = HowOften(g, x) + HowOften(Later(t, w), x)
        /\ HowOften(g, x) \in Nat /\ HowOften(Later(t, w), x) \in Nat
    BY <1>1, TraceIs DEF M
  <2>3. /\ HowOften(Trace(r, w, g), x) = HowOften(g, x) + HowOften(Later(r, w), x)
        /\ HowOften(Later(r, w), x) \in Nat
    BY <1>1, <1>2, TraceIs
  <2>4. /\ HowOften(Later(t, w), x) =
              HowOften(Rest(w.buffer, w.index), x) +
              (IF x \in M THEN HowOften(Flat(t, w.stack), x) ELSE 0)
        /\ HowOften(Rest(w.buffer, w.index), x) \in Nat
        /\ HowOften(Flat(t, w.stack), x) \in Nat
    BY <1>1, LaterOften DEF M
  <2>5. /\ HowOften(Later(r, w), x) =
              HowOften(Rest(w.buffer, w.index), x) +
              (IF x \in M THEN HowOften(Flat(r, w.stack), x) ELSE 0)
        /\ HowOften(Flat(r, w.stack), x) \in Nat
    BY <1>2, LaterOften
  <2>6. HowOften(Flat(r, w.stack), x) <= HowOften(Flat(t, w.stack), x)
    OBVIOUS
  <2> QED
    BY <2>1, <2>2, <2>3, <2>4, <2>5, <2>6
<1>6. Edited(r, z)
  <2>1. Differ(s.first, r, s.disturbed \cup C)
    BY <1>1, DifferTrans DEF Edited
  <2>2. z = [first |-> z.first, moved |-> z.moved, disturbed |-> z.disturbed, out |-> z.out]
    BY <1>3
  <2> QED
    BY <1>1, <1>3, <2>1, <2>2 DEF Edited
<1> QED
  BY <1>1, <1>2, <1>4, <1>5, <1>6 DEF Walking


-----------------------------------------------------------------------------
(* What a walk has not yet fetched.                                        *)

LEMMA SiftShorter ==
  ASSUME NEW X, NEW s \in Seq(X), NEW K
  PROVE  Len(Sift(s, K)) \in Nat /\ Len(Sift(s, K)) <= Len(s)
<1> DEFINE G == {q \in Seq(X) : Len(Sift(q, K)) <= Len(q)}
<1>1. <<>> \in G
  <2>1. Sift(<<>>, K) = <<>>
    BY SiftEmpty
  <2> QED
    BY <2>1, EmptyIs
<1>2. ASSUME NEW q \in Seq(X), NEW x \in X, q \in G PROVE q \o <<x>> \in G
  <2> DEFINE p == Sift(q, K)
             one == <<x>>
  <2>1. Sift(q \o one, K) = IF x \in K THEN p \o one ELSE p
    BY SiftAppend
  <2>2. p \in Seq(X) /\ one \in Seq(X) /\ Len(one) = 1
    BY SiftIs, OneIs
  <2>3. Len(p) <= Len(q)
    BY <1>2
  <2> HIDE DEF p, one
  <2>4. Two(X, p, one) /\ Two(X, q, one)
    BY <2>2 DEF Two
  <2>5. /\ Len(p \o one) = Len(p) + 1 /\ Len(q \o one) = Len(q) + 1 /\ q \o one \in Seq(X)
        /\ Len(p) \in Nat /\ Len(q) \in Nat
    <3>1. Len(p \o one) = Len(p) + Len(one) /\ Len(p) \in Nat
      BY <2>4, JoinTwo
    <3>2. Len(q \o one) = Len(q) + Len(one) /\ Len(q) \in Nat /\ q \o one \in Seq(X)
      BY <2>4, JoinTwo
    <3> QED
      BY <2>2, <3>1, <3>2
  <2> DEFINE l == q \o one
  <2>6. Len(Sift(l, K)) <= Len(l) /\ l \in Seq(X)
    BY <2>1, <2>3, <2>5
  <2> HIDE DEF l
  <2>7. l \in G
    BY <2>6
  <2> QED
    BY <2>7 DEF l, one
<1> HIDE DEF G
<1>3. Seq(X) \subseteq G
  BY <1>1, <1>2, AppendInduction
<1>4. Sift(s, K) \in Seq(X)
  BY SiftIs
<1> QED
  BY <1>3, <1>4 DEF G

LEMMA AmongSifts ==
  ASSUME NEW X, NEW s \in Seq(X), NEW S
  PROVE  Among(s, S) = Sift(s, S)
<1> DEFINE T == ToSet(s) \ S
<1>1. \A x \in ToSet(s) : x \in S <=> x \notin T
  OBVIOUS
<1> HIDE DEF T
<1>2. NotIn(s, T) = Sift(s, S)
  BY <1>1, NotInSifts
<1> QED
  BY <1>2 DEF Among, T

AheadOf(w, g, s) ==
  Among(PreOrder(s.first, Root),
        {n \in Nodes(s.first) : /\ Matches(s.first, n, w.filter)
                                /\ n \notin s.disturbed \cup ToSet(g)})

(* Undisturbed matches that were not handed out are those of what comes.   *)
LEMMA AheadIs ==
  ASSUME NEW t, NEW w, NEW g, NEW s, Walking(t, w, g, s),
         NEW L, L = Found(t, w.filter) \ (s.disturbed \cup ToSet(g))
  PROVE  AheadOf(w, g, s) = Sift(Later(t, w), L)
<1> DEFINE N == Nodes(t)
           M == Found(t, w.filter)
           K == M \ s.disturbed
           o == PreOrder(s.first, Root)
           u == Trace(t, w, g)
           l == Later(t, w)
           S == {n \in Nodes(s.first) : /\ Matches(s.first, n, w.filter)
                                        /\ n \notin s.disturbed \cup ToSet(g)}
<1>1. /\ IsTree(t) /\ Root \in N /\ Typed(t, w) /\ g \in Seq(N) /\ ToSet(g) \subseteq M
      /\ Edited(t, s) /\ InOrder(t, w, g, s)
  BY DEF Walking
<1>2. S = L
  <2>1. Found(s.first, w.filter) = M
    BY <1>1, FoundSame DEF Edited
  <2>2. S = Found(s.first, w.filter) \ (s.disturbed \cup ToSet(g))
    BY DEF Found
  <2> QED
    BY <2>1, <2>2
<1>3. o \in Seq(N)
  BY <1>1, PreOrderSeq DEF Edited
<1>4. u \in Seq(N) /\ Two(N, g, l) /\ l \in Seq(N)
  BY <1>1, TraceIs, LaterIs
<1>5. AheadOf(w, g, s) = Sift(o, L)
  <2>1. AheadOf(w, g, s) = Among(o, S)
    BY DEF AheadOf
  <2> HIDE DEF S, o
  <2> QED
    BY <1>2, <1>3, <2>1, AmongSifts
<1>6. Sift(u, K) = Sift(o, K)
  BY <1>1 DEF InOrder
<1>7. L \subseteq K /\ ToSet(g) \cap L = {}
  OBVIOUS
<1> HIDE DEF M, K, o, u, l, S
<1>8. Sift(u, L) = Sift(o, L)
  <2>1. \A x : x \in L <=> x \in K /\ x \in L
    BY <1>7
  <2>2. Sift(Sift(u, K), L) = Sift(u, L)
    BY <1>4, <2>1, SiftTwice
  <2>3. Sift(Sift(o, K), L) = Sift(o, L)
    BY <1>3, <2>1, SiftTwice
  <2> QED
    BY <1>6, <2>2, <2>3
<1>9. Sift(u, L) = Sift(l, L)
  <2> DEFINE none == <<>>
             q == Sift(l, L)
  <2>1. u = g \o l
    BY DEF Trace, u, l
  <2>2. Sift(g \o l, L) = Sift(g, L) \o q
    BY <1>4, SiftTwo
  <2>3. Sift(g, L) = none
    BY <1>1, <1>7, SiftNone
  <2>4. q \in Seq(N)
    BY <1>4, SiftIs
  <2> HIDE DEF q
  <2>5. none \o q = q
    BY <2>4, JoinEmpty
  <2> HIDE DEF none
  <2> QED
    BY <2>1, <2>2, <2>3, <2>5 DEF q
<1> QED
  BY <1>5, <1>8, <1>9 DEF l

(* A node at least a batch ahead is not in the buffer.                     *)
LEMMA FarAhead ==
  ASSUME NEW t, NEW w, NEW g, NEW s, Walking(t, w, g, s), NEW p,
         Contains(AheadOf(w, g, s), p), PlaceOf(AheadOf(w, g, s), p) >= w.batch
  PROVE  p \in ToSet(Flat(t, w.stack)) /\ p \in Nodes(t)
<1> DEFINE N == Nodes(t)
           M == Found(t, w.filter)
           L == M \ (s.disturbed \cup ToSet(g))
           A == AheadOf(w, g, s)
           a == Rest(w.buffer, w.index)
           f == Flat(t, w.stack)
           b == Sift(f, M)
           c == Sift(a, L)
           d == Sift(b, L)
           i == PlaceOf(A, p)
<1>1. IsTree(t) /\ Typed(t, w)
  BY DEF Walking
<1>2. A = Sift(Later(t, w), L)
  BY AheadIs
<1>3. a \in Seq(N) /\ b \in Seq(N) /\ f \in Seq(N)
  BY <1>1, LaterIs, FlatIs DEF Typed
<1>4. Later(t, w) = a \o b
  BY DEF Later
<1>5. Len(a) <= w.batch - 1 /\ w.batch \in Nat
  <2>1. /\ w.buffer \in Seq(N) /\ w.index \in Nat /\ w.batch \in Nat \ {0}
        /\ Len(w.buffer) \in Nat /\ Len(w.buffer) <= w.batch
        /\ w.buffer = <<>> \/ w.index \in 1..Len(w.buffer)
    BY <1>1 DEF Typed
  <2>2. CASE w.buffer = <<>>
    <3>1. Len(w.buffer) = 0
      BY <2>2
    <3>2. Rest(w.buffer, w.index) = <<>>
      <4>1. w.buffer \in Seq(N) /\ w.index \in Nat /\ Len(w.buffer) <= w.index
        BY <2>1, <3>1
      <4> HIDE DEF N
      <4> QED
        BY <4>1, RestIs
    <3> QED
      BY <2>1, <3>2
  <2>3. CASE w.index \in 1..Len(w.buffer)
    <3>1. Len(Rest(w.buffer, w.index)) = Len(w.buffer) - w.index
      <4>1. w.buffer \in Seq(N) /\ w.index \in Nat /\ w.index <= Len(w.buffer)
        BY <2>1, <2>3
      <4> HIDE DEF N
      <4> QED
        BY <4>1, RestIs
    <3> QED
      BY <2>1, <2>3, <3>1
  <2> QED
    BY <2>1, <2>2, <2>3
<1> HIDE DEF M, L, A, a, f
<1>6. A = c \o d
  <2>1. Two(N, a, b)
    BY <1>3 DEF Two
  <2> HIDE DEF b
  <2>2. Sift(a \o b, L) = Sift(a, L) \o Sift(b, L)
    BY <2>1, SiftTwo
  <2> QED
    BY <1>2, <1>4, <2>2
<1>7. c \in Seq(N) /\ d \in Seq(N) /\ Len(c) <= Len(a) /\ Len(a) \in Nat
  BY <1>3, SiftIs, SiftShorter
<1>8. ToSet(d) \subseteq ToSet(f) /\ ToSet(d) \subseteq N
  <2>1. ToSet(d) = ToSet(b) \cap L
    BY <1>3, SiftRange
  <2>2. ToSet(b) = ToSet(f) \cap M
    BY <1>3, SiftRange
  <2>3. ToSet(f) \subseteq N
    BY <1>3, Ranged
  <2> QED
    BY <2>1, <2>2, <2>3
<1>9. i \in DOMAIN A /\ A[i] = p
  <2>1. \E j \in DOMAIN A : A[j] = p
    BY DEF Contains, A
  <2> QED
    BY <2>1 DEF PlaceOf
<1>10. i >= w.batch
  BY DEF A
<1> HIDE DEF b, c, d, i
<1>11. Two(N, c, d)
  BY <1>7 DEF Two
<1>12. /\ c \o d \in Seq(N) /\ Len(c) \in Nat /\ Len(d) \in Nat
       /\ Len(c \o d) = Len(c) + Len(d)
       /\ \A j \in 1..Len(d) : (c \o d)[Len(c) + j] = d[j]
  BY <1>11, JoinTwo
<1> DEFINE j == i - Len(c)
<1>13. i \in 1..(Len(c) + Len(d))
  <2>1. DOMAIN (c \o d) = 1..Len(c \o d)
    BY <1>12
  <2> QED
    BY <1>6, <1>9, <1>12, <2>1
<1>14. j \in 1..Len(d) /\ i = Len(c) + j
  BY <1>5, <1>7, <1>10, <1>12, <1>13
<1> HIDE DEF j
<1>15. d[j] = p
  BY <1>6, <1>9, <1>12, <1>14
<1>16. p \in ToSet(d)
  <2>1. j \in DOMAIN d
    BY <1>7, <1>14
  <2> QED
    BY <1>7, <1>15, <2>1, Ranged
<1> QED
  BY <1>8, <1>16 DEF f


(* A child that is unlinked takes its subtree out of what a stack lists,   *)
(* if the stack lists its parent, and the subtree nowhere else.            *)
LEMMA UnlinkedIsOut ==
  ASSUME NEW t, IsTree(t), NEW r, Thins(t, r), NEW q \in Seq(Nodes(t)),
         NEW p \in Nodes(t), p \in ToSet(Listing(t, q)), NEW c, c \in ToSet(t.kids[p]),
         \A m \in Nodes(t) : c \notin ToSet(r.kids[m]),
         NEW x, x \in Subtree(t, c), HowOften(Listing(t, q), x) <= 1
  PROVE  /\ HowOften(Listing(r, q), x) = 0 /\ HowOften(Listing(t, q), x) # 0
<1> DEFINE N == Nodes(t)
<1>1. /\ IsTree(r) /\ Nodes(r) = N
      /\ \A m \in N : ToSet(r.kids[m]) \subseteq ToSet(t.kids[m])
  BY ThinsKeeps
<1>2. c \in N /\ p \notin Subtree(t, c)
  BY NoCycle
<1>3. PICK y \in ToSet(q) : p \in ToSet(PreOrder(t, y))
  BY ListingRange
<1>4. y \in N
  BY <1>3, Ranged
<1>5. PICK a, b \in Seq(N) : Parts(q, a, y, b)
  BY <1>3, SplitAround
<1> DEFINE V == Subtree(t, y) \ Subtree(t, c)
           one == <<y>>
<1>6. one \in Seq(N) /\ q = a \o (one \o b)
  BY <1>4, <1>5, OneIs DEF Parts
<1>7. x \in Subtree(t, y)
  <2>1. p \in Subtree(t, y) /\ Closed(t, Subtree(t, y)) /\ c \in Subtree(t, y)
    <3>1. p \in Subtree(t, y)
      BY <1>3 DEF Subtree
    <3>2. Closed(t, Subtree(t, y))
      BY <1>4, SubtreeIs
    <3> QED
      BY <3>1, <3>2 DEF Closed
  <2>2. ToSet(PreOrder(t, c)) \subseteq Subtree(t, y)
    BY <1>2, <2>1, ClosedKeeps
  <2> QED
    BY <2>2 DEF Subtree
<1>8. x \notin Subtree(r, y)
  <2>1. y \in V
    <3>1. y \in Subtree(t, y)
      BY <1>4, SubtreeIs
    <3>2. ASSUME y \in Subtree(t, c) PROVE FALSE
      <4>1. Closed(t, Subtree(t, c))
        BY <1>2, SubtreeIs
      <4>2. ToSet(PreOrder(t, y)) \subseteq Subtree(t, c)
        BY <1>4, <3>2, <4>1, ClosedKeeps
      <4> QED
        BY <1>2, <1>3, <4>2
    <3> QED
      BY <3>1, <3>2
  <2>2. Closed(r, V)
    <3> SUFFICES ASSUME NEW m \in N, m \in V, NEW z \in ToSet(r.kids[m]) PROVE z \in V
      BY <1>1 DEF Closed
    <3>1. z \in ToSet(t.kids[m]) /\ z # c
      BY <1>1
    <3>2. z \in Subtree(t, y)
      <4>1. Closed(t, Subtree(t, y))
        BY <1>4, SubtreeIs
      <4> QED
        BY <3>1, <4>1 DEF Closed
    <3>3. ASSUME z \in Subtree(t, c) PROVE FALSE
      <4>1. PICK k \in Subtree(t, c) : z \in ToSet(t.kids[k])
        BY <1>2, <3>1, <3>3, ParentInSubtree
      <4>2. k \in N
        BY <1>2, SubtreeIs
      <4>3. t.kids[k] \in Seq(N) /\ t.kids[m] \in Seq(N)
        BY <4>2, TreeIs
      <4>4. PICK i \in DOMAIN t.kids[k] : t.kids[k][i] = z
        BY <4>1, <4>3, Ranged
      <4>5. PICK j \in DOMAIN t.kids[m] : t.kids[m][j] = z
        BY <3>1, <4>3, Ranged
      <4>6. k = m
        BY <4>2, <4>4, <4>5, OnePlace
      <4> QED
        BY <4>1, <4>6
    <3> QED
      BY <3>2, <3>3
  <2>3. ToSet(PreOrder(r, y)) \subseteq V
    BY <1>1, <1>4, <2>1, <2>2, ClosedKeeps
  <2> QED
    BY <2>3 DEF Subtree
<1>9. HowOften(PreOrder(t, y), x) \in Nat /\ HowOften(PreOrder(t, y), x) # 0
  <2>1. PreOrder(t, y) \in Seq(N)
    BY <1>4, PreOrderSeq
  <2> QED
    BY <1>7, <2>1, HowOftenIs DEF Subtree
<1>10. HowOften(PreOrder(r, y), x) = 0
  <2>1. PreOrder(r, y) \in Seq(N)
    BY <1>1, <1>4, PreOrderSeq
  <2> QED
    BY <1>8, <2>1, HowOftenIs DEF Subtree
<1> HIDE DEF one, V, N
<1>11. ASSUME NEW u, IsTree(u), Nodes(u) = N
       PROVE  /\ HowOften(Listing(u, q), x) =
                   HowOften(Listing(u, a), x) + (HowOften(PreOrder(u, y), x) + HowOften(Listing(u, b), x))
              /\ HowOften(Listing(u, a), x) \in Nat /\ HowOften(Listing(u, b), x) \in Nat
  <2> DEFINE la == Listing(u, a)
             lo == PreOrder(u, y)
             lb == Listing(u, b)
  <2>1. one \o b \in Seq(N)
    BY <1>5, <1>6, JoinIs DEF N
  <2>2. Listing(u, q) = la \o Listing(u, one \o b)
    BY <1>5, <1>6, <1>11, <2>1, ListingJoin DEF N
  <2>3. Listing(u, one \o b) = Listing(u, one) \o lb
    BY <1>5, <1>6, <1>11, ListingJoin DEF N
  <2>4. Listing(u, one) = lo
    BY <1>4, <1>11, ListingOne DEF N, one
  <2>5. la \in Seq(N) /\ lb \in Seq(N) /\ lo \in Seq(N)
    BY <1>4, <1>5, <1>11, ListingIs, PreOrderSeq DEF N
  <2> HIDE DEF la, lo, lb
  <2>6. Two(N, lo, lb)
    BY <2>5 DEF Two
  <2>7. HowOften(lo \o lb, x) = HowOften(lo, x) + HowOften(lb, x) /\ lo \o lb \in Seq(N)
    BY <2>6, HowOftenJoin, JoinTwo
  <2> DEFINE v == lo \o lb
  <2> HIDE DEF v
  <2>8. Two(N, la, v)
    BY <2>5, <2>7 DEF Two, v
  <2>9. HowOften(la \o v, x) = HowOften(la, x) + HowOften(v, x)
    BY <2>8, HowOftenJoin
  <2>10. Listing(u, q) = la \o v
    BY <2>2, <2>3, <2>4, Zenon DEF v
  <2>11. HowOften(la, x) \in Nat /\ HowOften(lb, x) \in Nat
    BY <2>5, HowOftenIs
  <2> QED
    BY <2>7, <2>9, <2>10, <2>11 DEF v, la, lo, lb
<1>12. /\ HowOften(Listing(t, q), x) =
            HowOften(Listing(t, a), x) + (HowOften(PreOrder(t, y), x) + HowOften(Listing(t, b), x))
       /\ HowOften(Listing(t, a), x) \in Nat /\ HowOften(Listing(t, b), x) \in Nat
  BY <1>11 DEF N
<1>13. /\ HowOften(Listing(r, q), x) =
            HowOften(Listing(r, a), x) + (HowOften(PreOrder(r, y), x) + HowOften(Listing(r, b), x))
       /\ HowOften(Listing(r, a), x) \in Nat /\ HowOften(Listing(r, b), x) \in Nat
  BY <1>1, <1>11
<1>14. /\ HowOften(Listing(r, a), x) <= HowOften(Listing(t, a), x)
       /\ HowOften(Listing(r, b), x) <= HowOften(Listing(t, b), x)
  BY <1>5, ThinsFewer DEF N
<1> QED
  BY <1>9, <1>10, <1>12, <1>13, <1>14


NotYet(t, w, g, s, n) ==
  LET p == ParentOf(t, n)
  IN  IF Contains(AheadOf(w, g, s), p) /\ PlaceOf(AheadOf(w, g, s), p) >= w.batch
        THEN Subtree(t, n) \ s.disturbed
        ELSE {}

LEMMA NotYetIsOut ==
  ASSUME NEW t, NEW w, NEW g, NEW s, Walking(t, w, g, s), NEW n \in Nodes(t),
         NEW r, Thins(t, r), r.kind = t.kind, r.name = t.name,
         \A m \in Nodes(t) : n \notin ToSet(r.kids[m]),
         NEW x, x \in NotYet(t, w, g, s, n)
  PROVE  HowOften(Later(r, w), x) = 0
<1> DEFINE N == Nodes(t)
           M == Found(t, w.filter)
           p == ParentOf(t, n)
           q == Reverse(w.stack)
           a == Rest(w.buffer, w.index)
<1>1. /\ IsTree(t) /\ Typed(t, w) /\ g \in Seq(N) /\ ToSet(g) \subseteq M
      /\ Edited(t, s) /\ Counted(t, w, g, s)
  BY DEF Walking
<1>2. IsTree(r) /\ Nodes(r) = N
  BY <1>1, ThinsKeeps
<1>3. Typed(r, w) /\ Found(r, w.filter) = M
  BY <1>1, <1>2, TypedSame
<1>4. /\ Contains(AheadOf(w, g, s), p) /\ PlaceOf(AheadOf(w, g, s), p) >= w.batch
      /\ x \in Subtree(t, n) /\ x \notin s.disturbed
  BY DEF NotYet
<1>5. p \in ToSet(Flat(t, w.stack)) /\ p \in N
  <2> HIDE DEF p
  <2> QED
    BY <1>4, FarAhead
<1>6. n \in ToSet(t.kids[p])
  <2>1. p # NoNode
    BY <1>1, <1>5 DEF IsTree
  <2>2. \E m \in Nodes(t) : Contains(t.kids[m], n)
    BY <2>1 DEF ParentOf
  <2>3. Contains(t.kids[p], n)
    BY <2>2 DEF ParentOf
  <2> HIDE DEF p
  <2>4. t.kids[p] \in Seq(N)
    BY <1>1, <1>5, TreeIs
  <2> QED
    BY <2>3, <2>4, Ranged DEF Contains
<1>7. HowOften(Trace(t, w, g), x) <= 1
  BY <1>1, <1>4 DEF Counted, Edited
<1> HIDE DEF M, p, N
<1>8. CASE x \notin M
  <2>1. Later(r, w) \in Seq(N) /\ x \notin ToSet(Later(r, w))
    BY <1>2, <1>3, <1>8, LaterIs
  <2> QED
    BY <2>1, HowOftenIs
<1>9. CASE x \in M
  <2>1. /\ HowOften(Trace(t, w, g), x) = HowOften(g, x) + HowOften(Later(t, w), x)
        /\ HowOften(g, x) \in Nat /\ HowOften(Later(t, w), x) \in Nat
    BY <1>1, TraceIs DEF M, N
  <2>2. /\ HowOften(Later(t, w), x) = HowOften(a, x) + HowOften(Flat(t, w.stack), x)
        /\ HowOften(a, x) \in Nat
        /\ HowOften(Flat(t, w.stack), x) \in Nat
    BY <1>1, <1>9, LaterOften DEF M
  <2>3. HowOften(Later(r, w), x) = HowOften(a, x) + HowOften(Flat(r, w.stack), x)
    BY <1>2, <1>3, <1>9, LaterOften
  <2>4. HowOften(Flat(t, w.stack), x) <= 1
    BY <1>7, <2>1, <2>2
  <2>5. HowOften(Flat(r, w.stack), x) = 0 /\ HowOften(Flat(t, w.stack), x) # 0
    <3>1. q \in Seq(Nodes(t))
      BY <1>1, ReverseIs DEF Typed, N
    <3>2. p \in Nodes(t) /\ p \in ToSet(Listing(t, q)) /\ HowOften(Listing(t, q), x) <= 1
      BY <1>5, <2>4 DEF Flat, N
    <3> HIDE DEF q
    <3>3. HowOften(Listing(r, q), x) = 0 /\ HowOften(Listing(t, q), x) # 0
      BY <1>1, <1>4, <1>6, <3>1, <3>2, UnlinkedIsOut
    <3> QED
      BY <3>3 DEF Flat, q
  <2> QED
    BY <1>7, <2>1, <2>2, <2>3, <2>5
<1> QED
  BY <1>8, <1>9

(* Unlinking nodes of C, and what is below them.                           *)
LEMMA UnlinkWalking ==
  ASSUME NEW t, NEW w, NEW g, NEW s, Walking(t, w, g, s),
         NEW r, NEW gone, gone \subseteq Nodes(t), Unlinks(t, r, gone),
         NEW C, gone \subseteq C, Closed(t, C),
         NEW z, z = [first |-> s.first, moved |-> s.moved, disturbed |-> s.disturbed \cup C,
                     out |-> z.out],
         z.out \subseteq s.out \cup UNION {NotYet(t, w, g, s, n) : n \in gone}
  PROVE  Walking(r, w, g, z)
<1>1. /\ IsTree(t) /\ Typed(t, w) /\ Edited(t, s) /\ StaysOut(t, w, s)
  BY DEF Walking
<1>2. Thins(t, r) /\ Differ(t, r, C) /\ r.kind = t.kind /\ r.name = t.name
  BY <1>1, UnlinkThins, UnlinkDiffers DEF Unlinks
<1>3. IsTree(r) /\ Nodes(r) = Nodes(t)
  BY <1>1, <1>2, ThinsKeeps
<1>4. \A x : HowOften(Flat(r, w.stack), x) <= HowOften(Flat(t, w.stack), x)
  <2>1. Reverse(w.stack) \in Seq(Nodes(t))
    BY <1>1, ReverseIs DEF Typed
  <2> QED
    BY <1>1, <1>2, <2>1, ThinsFewer DEF Flat
<1>5. \A n \in gone, m \in Nodes(t) : n \notin ToSet(r.kids[m])
  <2> SUFFICES ASSUME NEW n \in gone, NEW m \in Nodes(t) PROVE n \notin ToSet(r.kids[m])
    OBVIOUS
  <2>1. r.kids[m] = NotIn(t.kids[m], gone) /\ t.kids[m] \in Seq(Nodes(t))
    BY <1>1, TreeIs DEF Unlinks
  <2>2. ToSet(NotIn(t.kids[m], gone)) = ToSet(t.kids[m]) \ gone
    BY <2>1, NotInSome
  <2> QED
    BY <2>1, <2>2
<1>6. StaysOut(r, w, z)
  <2> SUFFICES ASSUME NEW x \in z.out PROVE HowOften(Later(r, w), x) = 0
    BY DEF StaysOut
  <2>1. CASE x \in s.out
    <3>1. HowOften(Later(t, w), x) = 0
      BY <1>1, <2>1 DEF StaysOut
    <3>2. Typed(r, w) /\ Found(r, w.filter) = Found(t, w.filter)
      BY <1>1, <1>2, <1>3, TypedSame
    <3>3. /\ HowOften(Later(t, w), x) =
                HowOften(Rest(w.buffer, w.index), x) +
                (IF x \in Found(t, w.filter) THEN HowOften(Flat(t, w.stack), x) ELSE 0)
          /\ HowOften(Rest(w.buffer, w.index), x) \in Nat
          /\ HowOften(Flat(t, w.stack), x) \in Nat
      BY <1>1, LaterOften
    <3>4. /\ HowOften(Later(r, w), x) =
                HowOften(Rest(w.buffer, w.index), x) +
                (IF x \in Found(r, w.filter) THEN HowOften(Flat(r, w.stack), x) ELSE 0)
          /\ HowOften(Flat(r, w.stack), x) \in Nat
      BY <1>3, <3>2, LaterOften
    <3> QED
      BY <1>4, <3>1, <3>2, <3>3, <3>4
  <2>2. CASE x \notin s.out
    <3>1. PICK n \in gone : x \in NotYet(t, w, g, s, n)
      BY <2>2
    <3>2. n \in Nodes(t) /\ \A m \in Nodes(t) : n \notin ToSet(r.kids[m])
      BY <1>5
    <3> QED
      BY <1>2, <3>1, <3>2, NotYetIsOut
  <2> QED
    BY <2>1, <2>2
<1>7. /\ z = [first |-> s.first, moved |-> z.moved, disturbed |-> s.disturbed \cup C,
              out |-> z.out]
      /\ s.moved \subseteq z.moved /\ z.moved \subseteq z.disturbed
  BY <1>1 DEF Edited
<1>8. \A x : x \notin z.moved => HowOften(Flat(r, w.stack), x) <= HowOften(Flat(t, w.stack), x)
  BY <1>4
<1> QED
  BY <1>2, <1>3, <1>6, <1>7, <1>8, EditWalking

(* Moving a node to the end of another one's children.                     *)
LEMMA AppendWalking ==
  ASSUME NEW t, NEW w, NEW g, NEW s, Walking(t, w, g, s), NEW p \in Nodes(t), NEW n \in Nodes(t),
         MayAppend(t, p, n), NEW C, C = TouchedBy(t, n),
         NEW z, z = [first |-> s.first, moved |-> s.moved \cup C, disturbed |-> s.disturbed \cup C,
                     out |-> s.out \ C]
  PROVE  Walking(Appended(t, p, n), w, g, z)
<1> DEFINE r == Appended(t, p, n)
           q == Reverse(w.stack)
<1>1. IsTree(t) /\ Typed(t, w) /\ Edited(t, s) /\ StaysOut(t, w, s)
  BY DEF Walking
<1>2. /\ IsTree(r) /\ Nodes(r) = Nodes(t) /\ r.kind = t.kind /\ r.name = t.name
      /\ Differ(t, r, C)
  BY <1>1, AppendedTree
<1> HIDE DEF r
<1>3. ASSUME NEW x, x \notin C
      PROVE  HowOften(Flat(r, w.stack), x) = HowOften(Flat(t, w.stack), x)
  <2>1. {x} \cap C = {}
    BY <1>3
  <2>2. q \in Seq(Nodes(t))
    BY <1>1, ReverseIs DEF Typed
  <2> HIDE DEF q
  <2>3. Sift(Listing(t, q), {x}) = Sift(Listing(r, q), {x})
    BY <1>1, <1>2, <2>1, <2>2, SameListing
  <2> QED
    BY <2>3 DEF HowOften, Flat, q
<1>4. StaysOut(r, w, z)
  <2> SUFFICES ASSUME NEW x \in z.out PROVE HowOften(Later(r, w), x) = 0
    BY DEF StaysOut
  <2>1. x \in s.out /\ x \notin C
    OBVIOUS
  <2>2. HowOften(Later(t, w), x) = 0
    BY <1>1, <2>1 DEF StaysOut
  <2>3. Typed(r, w) /\ Found(r, w.filter) = Found(t, w.filter)
    BY <1>1, <1>2, TypedSame
  <2>4. HowOften(Later(t, w), x) =
              HowOften(Rest(w.buffer, w.index), x) +
              (IF x \in Found(t, w.filter) THEN HowOften(Flat(t, w.stack), x) ELSE 0)
    BY <1>1, LaterOften
  <2>5. HowOften(Later(r, w), x) =
              HowOften(Rest(w.buffer, w.index), x) +
              (IF x \in Found(r, w.filter) THEN HowOften(Flat(r, w.stack), x) ELSE 0)
    BY <1>2, <2>3, LaterOften
  <2>6. HowOften(Flat(r, w.stack), x) = HowOften(Flat(t, w.stack), x)
    BY <1>3, <2>1
  <2> QED
    BY <2>2, <2>3, <2>4, <2>5, <2>6
<1>5. /\ z = [first |-> s.first, moved |-> z.moved, disturbed |-> s.disturbed \cup C,
              out |-> z.out]
      /\ s.moved \subseteq z.moved /\ z.moved \subseteq z.disturbed
  BY <1>1 DEF Edited
<1>6. \A x : x \notin z.moved => HowOften(Flat(r, w.stack), x) <= HowOften(Flat(t, w.stack), x)
  <2> SUFFICES ASSUME NEW x, x \notin z.moved
               PROVE  HowOften(Flat(r, w.stack), x) <= HowOften(Flat(t, w.stack), x)
    OBVIOUS
  <2>1. HowOften(Flat(r, w.stack), x) = HowOften(Flat(t, w.stack), x)
    BY <1>3
  <2>2. HowOften(Flat(t, w.stack), x) \in Nat
    BY <1>1, LaterOften
  <2> QED
    BY <2>1, <2>2
<1>7. Walking(r, w, g, z)
  BY <1>2, <1>4, <1>5, <1>6, EditWalking
<1> QED
  BY <1>7 DEF r


-----------------------------------------------------------------------------
(* The invariant of the loop.                                              *)

WalkInv ==
  /\ phase \in {"bytes", "refused", "parsed", "shown", "walking", "ended"}
  /\ phase \in {"bytes", "refused", "parsed", "shown"} => got = <<>>
  /\ phase \in {"parsed", "shown"} => IsTree(tree) /\ Root \in Nodes(tree)
  /\ phase \in {"walking", "ended"} => Walking(tree, walk, got, seen)
  /\ phase = "ended" => Later(tree, walk) = <<>>

(* Changes of the history, field by field.                                 *)
LEMMA SeenAfter ==
  ASSUME NEW t, NEW s, Edited(t, s), NEW C, NEW D, NEW E
  PROVE  /\ [s EXCEPT !.disturbed = C, !.out = D] =
              [first |-> s.first, moved |-> s.moved, disturbed |-> C, out |-> D]
         /\ [s EXCEPT !.disturbed = C, !.moved = E, !.out = D] =
              [first |-> s.first, moved |-> E, disturbed |-> C, out |-> D]
<1> DEFINE a == s.first
           b == s.moved
           c == s.disturbed
           d == s.out
           u == [first |-> a, moved |-> b, disturbed |-> C, out |-> d]
<1>1. s = [first |-> a, moved |-> b, disturbed |-> c, out |-> d]
  BY DEF Edited
<1> HIDE DEF a, b, c, d
<1>2. [s EXCEPT !.disturbed = C] = u
  BY <1>1
<1>3. [u EXCEPT !.out = D] = [first |-> a, moved |-> b, disturbed |-> C, out |-> D]
  OBVIOUS
<1>4. [[u EXCEPT !.moved = E] EXCEPT !.out = D] =
        [first |-> a, moved |-> E, disturbed |-> C, out |-> D]
  <2> DEFINE v == [first |-> a, moved |-> E, disturbed |-> C, out |-> d]
  <2>1. [u EXCEPT !.moved = E] = v
    OBVIOUS
  <2>2. [v EXCEPT !.out = D] = [first |-> a, moved |-> E, disturbed |-> C, out |-> D]
    OBVIOUS
  <2> QED
    BY <2>1, <2>2, Zenon
<1> QED
  BY <1>2, <1>3, <1>4, Zenon DEF a, b

LEMMA NotYetReachedIs ==
  ASSUME NEW n
  PROVE  NotYetReached(n) = NotYet(tree, walk, got, seen, n)
<1>1. Ahead = AheadOf(walk, got, seen)
  BY Zenon DEF Ahead, AheadOf
<1> QED
  BY <1>1, Zenon DEF NotYetReached, NotYet

LEMMA RemoveKeeps ==
  ASSUME Walking(tree, walk, got, seen), NEW n \in Nodes(tree), RemoveNode(n)
  PROVE  Walking(tree', walk', got', seen') /\ phase' = "walking" /\ UNCHANGED got
<1> DEFINE gone == {n} \cup ToSet(TailTextRun(tree, n))
           C == TouchedBy(tree, n)
           z == [first |-> seen.first, moved |-> seen.moved, disturbed |-> seen.disturbed \cup C,
                 out |-> seen.out \cup NotYetReached(n)]
           r == Extract(tree, n)
<1>1. IsTree(tree) /\ Edited(tree, seen)
  BY DEF Walking
<1>2. /\ walk' = walk /\ got' = got /\ phase' = "walking" /\ tree' = r
      /\ seen' = [seen EXCEPT !.disturbed = seen.disturbed \cup C,
                              !.out = seen.out \cup NotYetReached(n)]
  BY DEF RemoveNode, LoopBody, Touched, TouchedBy
<1>3. seen' = z
  BY <1>1, <1>2, SeenAfter
<1>4. gone \subseteq Nodes(tree) /\ gone \subseteq C /\ Closed(tree, C)
  BY <1>1, TouchedIs DEF Along2
<1>5. Unlinks(tree, r, gone)
  BY <1>1, ExtractUnlinks
<1>6. NotYetReached(n) = NotYet(tree, walk, got, seen, n)
  BY NotYetReachedIs
<1>7. z.out \subseteq seen.out \cup UNION {NotYet(tree, walk, got, seen, m) : m \in gone}
  BY <1>6
<1>8. z = [first |-> seen.first, moved |-> seen.moved, disturbed |-> seen.disturbed \cup C,
           out |-> z.out]
  OBVIOUS
<1> HIDE DEF z, C, gone, r
<1>9. Walking(r, walk, got, z)
  BY <1>4, <1>5, <1>7, <1>8, UnlinkWalking
<1> QED
  BY <1>2, <1>3, <1>9

LEMMA AppendKeeps ==
  ASSUME Walking(tree, walk, got, seen), NEW n \in Nodes(tree), NEW p \in Nodes(tree), AppendTo(p, n)
  PROVE  Walking(tree', walk', got', seen') /\ phase' = "walking" /\ UNCHANGED got
<1> DEFINE C == TouchedBy(tree, n)
           z == [first |-> seen.first, moved |-> seen.moved \cup C,
                 disturbed |-> seen.disturbed \cup C, out |-> seen.out \ C]
           r == Appended(tree, p, n)
<1>1. IsTree(tree) /\ Edited(tree, seen)
  BY DEF Walking
<1>2. /\ walk' = walk /\ got' = got /\ phase' = "walking"
      /\ seen' = [seen EXCEPT !.disturbed = seen.disturbed \cup C,
                              !.moved = seen.moved \cup C,
                              !.out = seen.out \ C]
  BY DEF AppendTo, LoopBody, Touched, TouchedBy
<1>3. tree' = r
  BY Zenon DEF AppendTo, Appended
<1>4. seen' = z
  BY <1>1, <1>2, SeenAfter
<1>5. MayAppend(tree, p, n)
  BY DEF AppendTo, MayAppend
<1> HIDE DEF r
<1>6. Walking(Appended(tree, p, n), walk, got, z)
  BY <1>5, AppendWalking
<1> QED
  BY <1>2, <1>3, <1>4, <1>6 DEF r

LEMMA ClearKeeps ==
  ASSUME Walking(tree, walk, got, seen), NEW n \in Nodes(tree), NEW keepTail, ClearNode(n, keepTail)
  PROVE  Walking(tree', walk', got', seen') /\ phase' = "walking" /\ UNCHANGED got
<1> DEFINE gone == ToSet(tree.kids[n]) \cup
                     (IF keepTail THEN {} ELSE ToSet(TailTextRun(tree, n)))
           C == UNION {Subtree(tree, c) : c \in gone}
           D == UNION {NotYetReached(c) : c \in gone}
           z == [first |-> seen.first, moved |-> seen.moved, disturbed |-> seen.disturbed \cup C,
                 out |-> seen.out \cup D]
           r == Cleared(tree, n, gone)
<1>1. IsTree(tree) /\ Edited(tree, seen)
  BY DEF Walking
<1>2. /\ walk' = walk /\ got' = got /\ phase' = "walking"
      /\ seen' = [seen EXCEPT !.disturbed = seen.disturbed \cup C, !.out = seen.out \cup D]
  BY DEF ClearNode, LoopBody
<1>3. tree' = r
  BY Zenon DEF ClearNode, Cleared
<1>4. gone \subseteq Nodes(tree)
  <2>1. ToSet(tree.kids[n]) \subseteq Nodes(tree)
    BY <1>1, TreeIs
  <2>2. ToSet(TailTextRun(tree, n)) \subseteq Nodes(tree)
    BY <1>1, TailIs
  <2> QED
    BY <2>1, <2>2
<1>5. Unlinks(tree, r, gone)
  <2> HIDE DEF gone
  <2> QED
    BY <1>1, ClearUnlinks
<1> HIDE DEF gone
<1>6. gone \subseteq C /\ Closed(tree, C)
  <2>1. \A c \in gone : c \in Subtree(tree, c) /\ Closed(tree, Subtree(tree, c))
    BY <1>1, <1>4, SubtreeIs
  <2> QED
    BY <2>1 DEF Closed
<1>7. D = UNION {NotYet(tree, walk, got, seen, m) : m \in gone}
  BY NotYetReachedIs, Zenon
<1> HIDE DEF C, D
<1>8. seen' = z
  BY <1>1, <1>2, SeenAfter
<1>9. z.out \subseteq seen.out \cup UNION {NotYet(tree, walk, got, seen, m) : m \in gone}
  BY <1>7
<1>10. z = [first |-> seen.first, moved |-> seen.moved, disturbed |-> seen.disturbed \cup C,
            out |-> z.out]
  OBVIOUS
<1> HIDE DEF z, r
<1>11. Walking(r, walk, got, z)
  BY <1>4, <1>5, <1>6, <1>9, <1>10, UnlinkWalking
<1> QED
  BY <1>2, <1>3, <1>8, <1>11


LEMMA InitWalkInv == Init => WalkInv
  BY DEF Init, WalkInv

LEMMA ParseKeeps ==
  ASSUME WalkInv, ParseBytes
  PROVE  WalkInv'
<1>1. phase' \in {"parsed", "refused"} /\ got' = got /\ got = <<>>
  BY DEF ParseBytes, WalkInv
<1>2. CASE phase' = "refused"
  BY <1>1, <1>2 DEF WalkInv
<1>3. CASE phase' = "parsed"
  <2>1. PICK text \in DOMAIN Parsed : tree' = Parsed[text]
    BY <1>3 DEF ParseBytes
  <2>2. IsTree(Parsed[text]) /\ Root \in Nodes(Parsed[text])
    BY <2>1, WalkAssumption
  <2>3. IsTree(tree') /\ Root \in Nodes(tree')
    BY <2>1, <2>2
  <2> QED
    BY <1>1, <1>3, <2>3 DEF WalkInv
<1> QED
  BY <1>1, <1>2, <1>3

LEMMA OptionsKeep ==
  ASSUME WalkInv, ApplyOptions
  PROVE  WalkInv'
<1>1. phase = "parsed" /\ phase' = "shown" /\ got' = got /\ tree' = Postprocess(tree, Root, options')
  BY DEF ApplyOptions
<1>2. IsTree(tree) /\ Root \in Nodes(tree) /\ got = <<>>
  BY <1>1 DEF WalkInv
<1>3. IsTree(tree') /\ Nodes(tree') = Nodes(tree)
  BY <1>1, <1>2, PostprocessKeeps
<1> QED
  BY <1>1, <1>2, <1>3 DEF WalkInv

LEMMA StartKeeps ==
  ASSUME WalkInv, NEW tag, NEW batch \in Batches, Start(tag, batch)
  PROVE  WalkInv' /\ got' = got
<1> DEFINE w == [stack |-> <<Root>>, filter |-> DescFilter(tag), batch |-> batch,
                 buffer |-> <<>>, index |-> 0]
           s == [first |-> tree, moved |-> {}, disturbed |-> {}, out |-> {}]
<1>1. /\ phase = "shown" /\ phase' = "walking" /\ got' = got /\ tree' = tree
      /\ walk' = w /\ seen' = s
  BY DEF Start
<1>2. IsTree(tree) /\ Root \in Nodes(tree) /\ got = <<>>
  BY <1>1 DEF WalkInv
<1>3. batch \in Nat \ {0}
  BY WalkAssumption
<1>4. Walking(tree, w, <<>>, s)
  BY <1>2, <1>3, BeginWalking
<1> HIDE DEF w, s
<1>5. Walking(tree', walk', got', seen')
  BY <1>1, <1>2, <1>4, Zenon
<1> QED
  BY <1>1, <1>5 DEF WalkInv

(* The match handed out, or the end.                                       *)
LEMMA MatchKeeps ==
  ASSUME WalkInv, NextMatch
  PROVE  /\ WalkInv'
         /\ got' # got => got' = Append(got, Last(got')) /\ Last(got') \notin seen.out
<1> DEFINE w == Advanced(tree, walk)
<1>1. phase = "walking" /\ Walking(tree, walk, got, seen)
  BY DEF NextMatch, WalkInv
<1>2. walk' = w /\ tree' = tree /\ seen' = seen
  BY DEF NextMatch, Advanced
<1>3. IF w.buffer = <<>> THEN phase' = "ended" /\ got' = got
      ELSE phase' = phase /\ got' = Append(got, w.buffer[w.index])
  BY DEF NextMatch, Advanced
<1>4. IsTree(tree) /\ Typed(tree, walk) /\ got \in Seq(Nodes(tree))
  BY <1>1 DEF Walking
<1>5. Serves(tree, walk, w)
  BY <1>4, AdvancedServes
<1> HIDE DEF w
<1>6. CASE w.buffer = <<>>
  <2>1. Walking(tree, w, got, seen) /\ Later(tree, w) = <<>>
    BY <1>1, <1>5, <1>6, EndWalking
  <2>2. Walking(tree', walk', got', seen') /\ Later(tree', walk') = <<>>
    BY <1>2, <1>3, <1>6, <2>1, Zenon
  <2> QED
    BY <1>3, <1>6, <2>2 DEF WalkInv
<1>7. CASE w.buffer # <<>>
  <2> DEFINE y == w.buffer[w.index]
  <2>1. Walking(tree, w, got \o <<y>>, seen) /\ y \notin seen.out
    BY <1>1, <1>5, <1>7, StepWalking
  <2>2. y \in Nodes(tree)
    BY <1>5, <1>7 DEF Serves, Found
  <2> HIDE DEF y
  <2>3. Append(got, y) = got \o <<y>> /\ Last(Append(got, y)) = y
    BY <1>4, <2>2 DEF Last
  <2>4. got' = Append(got, y) /\ phase' = phase
    BY <1>3, <1>7 DEF y
  <2>5. Walking(tree', walk', got', seen')
    BY <1>2, <2>1, <2>3, <2>4, Zenon
  <2> QED
    BY <1>1, <2>1, <2>3, <2>4, <2>5 DEF WalkInv
<1> QED
  BY <1>6, <1>7

LEMMA EditKeeps ==
  ASSUME WalkInv, phase = "walking", NEW n \in Nodes(tree),
         \/ RemoveNode(n)
         \/ \E p \in Nodes(tree) : AppendTo(p, n)
         \/ \E keepTail \in BOOLEAN : ClearNode(n, keepTail)
  PROVE  WalkInv' /\ got' = got
<1>1. Walking(tree, walk, got, seen)
  BY DEF WalkInv
<1>2. Walking(tree', walk', got', seen') /\ phase' = "walking" /\ got' = got
  BY <1>1, RemoveKeeps, AppendKeeps, ClearKeeps
<1> QED
  BY <1>2 DEF WalkInv

(* A step hands out a node that is not out, or none.                       *)
LEMMA NextKeeps ==
  ASSUME WalkInv, [Next]_vars
  PROVE  /\ WalkInv'
         /\ got' # got => got' = Append(got, Last(got')) /\ Last(got') \notin seen.out
<1>1. CASE ParseBytes
  BY <1>1, ParseKeeps DEF ParseBytes
<1>2. CASE ApplyOptions
  BY <1>2, OptionsKeep DEF ApplyOptions
<1>3. CASE \E tag \in Tags, batch \in Batches : Start(tag, batch)
  BY <1>3, StartKeeps
<1>4. CASE NextMatch
  BY <1>4, MatchKeeps
<1>5. CASE phase = "walking" /\ \E n \in Nodes(tree) :
             \/ RemoveNode(n)
             \/ \E p \in Nodes(tree) : AppendTo(p, n)
             \/ \E keepTail \in BOOLEAN : ClearNode(n, keepTail)
  BY <1>5, EditKeeps
<1>6. CASE UNCHANGED vars
  <2>1. /\ phase' = phase /\ tree' = tree /\ walk' = walk /\ got' = got /\ seen' = seen
    BY <1>6 DEF vars
  <2>2. WalkInv'
    BY <2>1, Zenon DEF WalkInv
  <2> QED
    BY <2>1, <2>2
<1> QED
  BY <1>1, <1>2, <1>3, <1>4, <1>5, <1>6 DEF Next

(* The invariant holds of every state.                                     *)
THEOREM WalkInvHolds == WalkSpec => []WalkInv
<1>1. Init => WalkInv
  BY InitWalkInv
<1>2. WalkInv /\ [Next]_vars => WalkInv'
  BY NextKeeps
<1> QED
  BY <1>1, <1>2, PTL DEF WalkSpec


-----------------------------------------------------------------------------
(* What the invariant says of the walk.                                    *)

(* Every state is of its types: in particular the iterator never runs past *)
(* its buffer nor its buffer past the batch, whatever the loop does to the *)
(* tree between two refills.                                               *)
THEOREM WalkTyped == WalkSpec => []WalkTypeOK
<1>1. WalkInv => WalkTypeOK
  <2> SUFFICES ASSUME WalkInv
               PROVE  WalkTypeOK
    OBVIOUS
  <2>1. phase \in {"bytes", "refused", "parsed", "shown", "walking", "ended"}
    BY DEF WalkInv
  <2>2. ASSUME phase \notin {"bytes", "refused"}
        PROVE  IsTree(tree)
    BY <2>1, <2>2 DEF WalkInv, Walking
  <2>3. ASSUME phase \in {"walking", "ended"}
        PROVE  Typed(tree, walk)
    BY <2>3 DEF WalkInv, Walking
  <2>4. phase \notin {"bytes", "refused"} => tree.kids \in [Nodes(tree) -> Seq(Nodes(tree))]
    BY <2>2 DEF IsTree
  <2>5. ASSUME Typed(tree, walk)
        PROVE  /\ walk.stack \in Seq(Nodes(tree))
               /\ Len(walk.buffer) <= walk.batch
               /\ walk.index \in 0 .. walk.batch
               /\ walk.buffer # <<>> => walk.index \in 1 .. Len(walk.buffer)
    <3>1. /\ walk.stack \in Seq(Nodes(tree)) /\ walk.batch \in Nat \ {0}
          /\ Len(walk.buffer) \in Nat /\ Len(walk.buffer) <= walk.batch /\ walk.index \in Nat
          /\ (walk.buffer = <<>> /\ walk.index <= 1) \/ walk.index \in 1..Len(walk.buffer)
      BY <2>5 DEF Typed
    <3>2. walk.index <= walk.batch
      BY <3>1
    <3> QED
      BY <3>1, <3>2
  <2> QED
    BY <2>1, <2>3, <2>4, <2>5 DEF WalkTypeOK
<1> QED
  BY <1>1, WalkInvHolds, PTL

(* No step hands out what is out: what was removed more than a batch ahead *)
(* of the loop, and not put back.                                          *)
THEOREM RemovedStaysOut == WalkSpec => RemovedAheadStaysOut
<1>1. WalkInv /\ [Next]_vars =>
        [phase = "walking" /\ Len(got') > Len(got) => Last(got') \notin seen.out]_vars
  <2> SUFFICES ASSUME WalkInv, [Next]_vars, phase = "walking", Len(got') > Len(got)
               PROVE  Last(got') \notin seen.out
    OBVIOUS
  <2>1. got \in Seq(Nodes(tree))
    BY DEF WalkInv, Walking
  <2>2. got' # got
    BY <2>1
  <2> QED
    BY <2>2, NextKeeps
<1> QED
  BY <1>1, WalkInvHolds, PTL DEF WalkSpec, RemovedAheadStaysOut

LEMMA TimesIs ==
  ASSUME NEW t, NEW w, NEW g, NEW s, Walking(t, w, g, s), NEW x
  PROVE  Len(Among(g, {x})) > 1 => x \in s.moved
<1>1. IsTree(t) /\ Typed(t, w) /\ g \in Seq(Nodes(t)) /\ ToSet(g) \subseteq Found(t, w.filter)
  BY DEF Walking
<1>2. Len(Among(g, {x})) = HowOften(g, x)
  BY <1>1, AmongSifts DEF HowOften
<1>3. /\ HowOften(Trace(t, w, g), x) = HowOften(g, x) + HowOften(Later(t, w), x)
      /\ HowOften(g, x) \in Nat /\ HowOften(Later(t, w), x) \in Nat
  BY <1>1, TraceIs
<1>4. x \notin s.moved => HowOften(Trace(t, w, g), x) <= 1
  BY DEF Walking, Counted
<1> QED
  BY <1>2, <1>3, <1>4

LeftAlone(w, s) ==
  {n \in Nodes(s.first) : /\ Matches(s.first, n, w.filter)
                          /\ n \notin s.disturbed}

(* At the end, what was handed out and left alone is what the walk began   *)
(* with and was left alone.                                                *)
LEMMA OrderAtEnd ==
  ASSUME NEW t, NEW w, NEW g, NEW s, Walking(t, w, g, s), Later(t, w) = <<>>
  PROVE  NotIn(g, s.disturbed) = Among(PreOrder(s.first, Root), LeftAlone(w, s))
<1> DEFINE N == Nodes(t)
           M == Found(t, w.filter)
           K == M \ s.disturbed
           o == PreOrder(s.first, Root)
           S == LeftAlone(w, s)
           none == <<>>
<1>1. /\ IsTree(t) /\ Root \in N /\ Typed(t, w) /\ g \in Seq(N) /\ ToSet(g) \subseteq M
      /\ Edited(t, s) /\ InOrder(t, w, g, s)
  BY DEF Walking
<1>2. S = K
  <2>1. Found(s.first, w.filter) = M
    BY <1>1, FoundSame DEF Edited
  <2>2. S = Found(s.first, w.filter) \ s.disturbed
    BY DEF Found, LeftAlone
  <2> QED
    BY <2>1, <2>2
<1>3. o \in Seq(N)
  BY <1>1, PreOrderSeq DEF Edited
<1>4. Sift(Trace(t, w, g), K) = Sift(o, K)
  BY <1>1 DEF InOrder
<1>5. Trace(t, w, g) = g \o none
  BY DEF Trace
<1>6. g \o none = g
  BY <1>1, JoinEmpty
<1>7. \A x \in ToSet(g) : x \in K <=> x \notin s.disturbed
  BY <1>1
<1> HIDE DEF M, K, o, S, none
<1>8. NotIn(g, s.disturbed) = Sift(g, K)
  BY <1>1, <1>7, NotInSifts
<1>9. Among(o, S) = Sift(o, K)
  BY <1>2, <1>3, AmongSifts
<1> QED
  BY <1>4, <1>5, <1>6, <1>8, <1>9 DEF o, S

(* A loop over iter() may edit the tree it walks: what it leaves where it  *)
(* was is handed out exactly once and in document order, and what comes    *)
(* twice was moved.                                                        *)
THEOREM WalkedOnce == WalkSpec => []WalkVisitsOnce
<1>1. WalkInv => WalkVisitsOnce
  <2> SUFFICES ASSUME WalkInv
               PROVE  WalkVisitsOnce
    OBVIOUS
  <2>1. UndisturbedNodesComeInOrder
    <3>1. phase = "ended" => Walking(tree, walk, got, seen) /\ Later(tree, walk) = <<>>
      BY DEF WalkInv
    <3>2. ASSUME phase = "ended"
          PROVE  NotIn(got, seen.disturbed) = Among(PreOrder(seen.first, Root), LeftAlone(walk, seen))
      <4>1. Walking(tree, walk, got, seen) /\ Later(tree, walk) = <<>>
        BY <3>1, <3>2
      <4> QED
        BY <4>1, OrderAtEnd
    <3> QED
      BY <3>2, Zenon DEF UndisturbedNodesComeInOrder, LeftAlone
  <2>2. NothingComesTwiceUnmoved
    <3>1. phase \in {"walking", "ended"} => Walking(tree, walk, got, seen)
      BY DEF WalkInv
    <3> QED
      BY <3>1, TimesIs DEF NothingComesTwiceUnmoved, Times
  <2> QED
    BY <2>1, <2>2 DEF WalkVisitsOnce
<1> QED
  BY <1>1, WalkInvHolds, PTL


-----------------------------------------------------------------------------
(* Sums.                                                                   *)

Added(s) == FoldLeft(LAMBDA a, b : a + b, 0, s)

(* Sums as they grow, from the left.                                       *)
Tallies(f, s) ==
  /\ f \in [0..Len(s) -> Int] /\ f[0] = 0
  /\ \A i \in 1..Len(s) : f[i] = f[i - 1] + s[i]

LEMMA AddedLoop ==
  ASSUME NEW s \in Seq(Int)
  PROVE  \E f : Tallies(f, s) /\ f[Len(s)] = Added(s)
<1> DEFINE n == Len(s)
           X == Int
           step == [i \in 1..n |-> [a \in X |-> a + s[i]]]
           Is(it) == it = [T \in SUBSET DOMAIN s |->
                             IF T = {} THEN 0
                             ELSE it[T \ {Max(T)}] + s[Max(T)]]
           iter == CHOOSE it : Is(it)
<1>1. n \in Nat /\ DOMAIN s = 1..n /\ \A i \in 1..n : s[i] \in Int
  OBVIOUS
<1>2. Added(s) = iter[DOMAIN s]
  BY DEF Added, FoldLeft, MapThenFoldSet
<1>3. 0 \in X
  BY DEF X
<1>4. ASSUME NEW a \in X, NEW i \in 1..n PROVE a + s[i] \in X
  BY <1>1 DEF X
<1> HIDE DEF n, X
<1>5. /\ step \in [1..n -> [X -> X]]
      /\ \A i \in 1..n, a \in X : step[i][a] = a + s[i]
  BY <1>4
<1> HIDE DEF step
<1>6. PICK F : Folding(F, X, n, 0, step)
  BY <1>1, <1>3, <1>5, FoldExists
<1>7. Is(F)
  <2>1. /\ F \in [SUBSET (1..n) -> X] /\ F[{}] = 0
        /\ \A T \in SUBSET (1..n) : T # {} => F[T] = step[Max(T)][F[T \ {Max(T)}]]
    BY <1>6 DEF Folding
  <2>2. \A T \in SUBSET (1..n) : T # {} => F[T] = F[T \ {Max(T)}] + s[Max(T)]
    BY <1>1, <1>5, <2>1, LastPlace
  <2> QED
    BY <1>1, <2>1, <2>2
<1>8. Is(iter)
  BY <1>7
<1> HIDE DEF iter
<1>9. /\ iter[{}] = 0
      /\ \A T \in SUBSET (1..n) : T # {} => iter[T] = iter[T \ {Max(T)}] + s[Max(T)]
  BY <1>1, <1>8
<1>10. Unfolds(iter, X, n, 0, step)
  BY <1>1, <1>5, <1>9, LastPlace DEF Unfolds
<1>11. Loop(ValuesOf(iter, n), X, n, 0, step)
  BY <1>1, <1>3, <1>5, <1>10, FoldIsLoop
<1>12. \A i \in 0..n : ValuesOf(iter, n)[i] = iter[1..i]
  BY <1>1 DEF ValuesOf
<1> DEFINE f == ValuesOf(iter, n)
<1> HIDE DEF f
<1>13. /\ f \in [0..n -> X] /\ f[0] = 0
       /\ \A i \in 1..n : f[i] = step[i][f[i - 1]]
  BY <1>11 DEF Loop, f
<1>14. \A i \in 1..n : i - 1 \in 0..n /\ f[i - 1] \in X
  BY <1>1, <1>13
<1>15. \A i \in 1..n : f[i] = f[i - 1] + s[i]
  BY <1>5, <1>13, <1>14
<1>16. f[n] = Added(s)
  BY <1>1, <1>2, <1>12 DEF f
<1> QED
  BY <1>13, <1>15, <1>16 DEF Tallies, n, X

AddChecks(f, s, X) ==
  /\ f \in [0..Len(s) -> X] /\ f[0] = 0
  /\ \A i \in 1..Len(s) : f[i] = AddChecked(f[i - 1], s[i])

Checked(s) == FoldLeft(AddChecked, 0, s)

Range64 == MinInt .. MaxInt

LEMMA CheckedLoop ==
  ASSUME NEW s \in Seq(Range64 \cup {NotANumber})
  PROVE  \E f : AddChecks(f, s, Range64 \cup {NotANumber, Overflow}) /\ f[Len(s)] = Checked(s)
<1> DEFINE n == Len(s)
           X == Range64 \cup {NotANumber, Overflow}
           step == [i \in 1..n |-> [a \in X |-> AddChecked(a, s[i])]]
           Is(it) == it = [T \in SUBSET DOMAIN s |->
                             IF T = {} THEN 0
                             ELSE AddChecked(it[T \ {Max(T)}], s[Max(T)])]
           iter == CHOOSE it : Is(it)
<1>1. n \in Nat /\ DOMAIN s = 1..n /\ \A i \in 1..n : s[i] \in Range64 \cup {NotANumber}
  OBVIOUS
<1>2. Checked(s) = iter[DOMAIN s]
  BY DEF Checked, FoldLeft, MapThenFoldSet
<1>3. 0 \in X
  BY TreeAssumption DEF Range64
<1>4. ASSUME NEW a \in X, NEW i \in 1..n PROVE AddChecked(a, s[i]) \in X
  BY <1>1, TreeAssumption DEF AddChecked, Range64
<1> HIDE DEF n, X
<1>5. /\ step \in [1..n -> [X -> X]]
      /\ \A i \in 1..n, a \in X : step[i][a] = AddChecked(a, s[i])
  BY <1>4
<1> HIDE DEF step
<1>6. PICK F : Folding(F, X, n, 0, step)
  BY <1>1, <1>3, <1>5, FoldExists
<1>7. Is(F)
  <2>1. /\ F \in [SUBSET (1..n) -> X] /\ F[{}] = 0
        /\ \A T \in SUBSET (1..n) : T # {} => F[T] = step[Max(T)][F[T \ {Max(T)}]]
    BY <1>6 DEF Folding
  <2>2. \A T \in SUBSET (1..n) : T # {} => F[T] = AddChecked(F[T \ {Max(T)}], s[Max(T)])
    BY <1>1, <1>5, <2>1, LastPlace
  <2> QED
    BY <1>1, <2>1, <2>2
<1>8. Is(iter)
  BY <1>7
<1> HIDE DEF iter
<1>9. /\ iter[{}] = 0
      /\ \A T \in SUBSET (1..n) : T # {} => iter[T] = AddChecked(iter[T \ {Max(T)}], s[Max(T)])
  BY <1>1, <1>8
<1>10. Unfolds(iter, X, n, 0, step)
  BY <1>1, <1>5, <1>9, LastPlace DEF Unfolds
<1>11. Loop(ValuesOf(iter, n), X, n, 0, step)
  BY <1>1, <1>3, <1>5, <1>10, FoldIsLoop
<1>12. \A i \in 0..n : ValuesOf(iter, n)[i] = iter[1..i]
  BY <1>1 DEF ValuesOf
<1> DEFINE f == ValuesOf(iter, n)
<1> HIDE DEF f
<1>13. /\ f \in [0..n -> X] /\ f[0] = 0
       /\ \A i \in 1..n : f[i] = step[i][f[i - 1]]
  BY <1>11 DEF Loop, f
<1>14. \A i \in 1..n : i - 1 \in 0..n /\ f[i - 1] \in X
  BY <1>1, <1>13
<1>15. \A i \in 1..n : f[i] = AddChecked(f[i - 1], s[i])
  BY <1>5, <1>13, <1>14
<1>16. f[n] = Checked(s)
  BY <1>1, <1>2, <1>12 DEF f
<1> QED
  BY <1>13, <1>15, <1>16 DEF AddChecks, n, X

LEMMA AddedAppend ==
  ASSUME NEW s \in Seq(Int), NEW x \in Int
  PROVE  Added(s) \in Int /\ Added(Append(s, x)) = Added(s) + x
<1> DEFINE t == Append(s, x)
           n == Len(s)
<1>1. /\ t \in Seq(Int) /\ Len(t) = n + 1 /\ n \in Nat
      /\ \A k \in 1..n : t[k] = s[k]
      /\ t[n + 1] = x
  BY Pushed
<1>2. PICK f : Tallies(f, s) /\ f[n] = Added(s)
  BY AddedLoop
<1> HIDE DEF t
<1>3. PICK g : Tallies(g, t) /\ g[Len(t)] = Added(t)
  BY <1>1, AddedLoop
<1> HIDE DEF n
<1>4. /\ f \in [0..n -> Int] /\ f[0] = 0 /\ \A i \in 1..n : f[i] = f[i - 1] + s[i]
      /\ f[n] = Added(s)
  BY <1>2 DEF Tallies, n
<1>5. /\ g[0] = 0 /\ \A i \in 1..(n + 1) : g[i] = g[i - 1] + t[i]
      /\ g[n + 1] = Added(t)
  BY <1>1, <1>3 DEF Tallies
<1> DEFINE G == {i \in 0..n : f[i] = g[i]}
<1>6. 0 \in G
  BY <1>1, <1>4, <1>5
<1>7. ASSUME NEW i \in 1..n, i - 1 \in G PROVE i \in G
  <2>1. i \in 1..(n + 1) /\ i \in 0..n
    BY <1>1
  <2>2. f[i] = f[i - 1] + s[i] /\ g[i] = g[i - 1] + t[i] /\ t[i] = s[i] /\ f[i - 1] = g[i - 1]
    BY <1>1, <1>4, <1>5, <1>7, <2>1
  <2> QED
    BY <2>1, <2>2
<1>8. n \in G
  <2> HIDE DEF G
  <2>1. 0..n \subseteq G
    BY <1>1, <1>6, <1>7, Induction
  <2> QED
    BY <1>1, <2>1
<1>9. g[n + 1] = g[n] + t[n + 1]
  BY <1>1, <1>5
<1> QED
  BY <1>1, <1>4, <1>5, <1>8, <1>9 DEF t

LEMMA AddedEmpty == Added(<<>>) = 0
<1>1. <<>> \in Seq(Int) /\ Len(<<>>) = 0
  OBVIOUS
<1>2. PICK f : Tallies(f, <<>>) /\ f[Len(<<>>)] = Added(<<>>)
  BY <1>1, AddedLoop
<1> QED
  BY <1>1, <1>2 DEF Tallies

(* The sum of the first i values; all of them are numbers.                 *)
UpTo(s, i) == Added(SubSeq(s, 1, i))

AllNumbers(s, i) == \A j \in 1..i : s[j] # NotANumber

Leaves(s, i) == \E k \in 1..i : AllNumbers(s, k) /\ UpTo(s, k) \notin Range64

LEMMA UpToNext ==
  ASSUME NEW s \in Seq(Range64 \cup {NotANumber}), NEW i \in 1..Len(s), AllNumbers(s, i)
  PROVE  /\ UpTo(s, i - 1) \in Int /\ s[i] \in Int /\ UpTo(s, i) = UpTo(s, i - 1) + s[i]
         /\ AllNumbers(s, i - 1)
<1> DEFINE a == SubSeq(s, 1, i - 1)
           b == SubSeq(s, 1, i)
<1>1. Range64 \subseteq Int
  BY TreeAssumption DEF Range64
<1>2. /\ Len(s) \in Nat /\ i \in Nat /\ i - 1 \in Nat /\ i <= Len(s) /\ 1 <= i
      /\ \A j \in 1..i : s[j] \in Int
  <2>1. Len(s) \in Nat /\ i \in Nat /\ i - 1 \in Nat /\ i <= Len(s) /\ 1 <= i
    OBVIOUS
  <2>2. ASSUME NEW j \in 1..i PROVE s[j] \in Int
    <3>1. j \in 1..Len(s)
      BY <2>1
    <3>2. s[j] \in Range64 \cup {NotANumber}
      BY <3>1
    <3>3. s[j] # NotANumber
      BY DEF AllNumbers
    <3> QED
      BY <1>1, <3>2, <3>3
  <2> QED
    BY <2>1, <2>2
<1>3. a \in Seq(Int) /\ Len(a) = i - 1 /\ \A j \in 1..(i - 1) : a[j] = s[j]
  BY <1>2
<1>4. b \in Seq(Int) /\ Len(b) = i /\ \A j \in 1..i : b[j] = s[j]
  BY <1>2
<1> HIDE DEF a, b
<1> DEFINE c == Append(a, s[i])
<1>5. c \in Seq(Int) /\ Len(c) = i /\ (\A j \in 1..(i - 1) : c[j] = s[j]) /\ c[i] = s[i]
  BY <1>2, <1>3
<1> HIDE DEF c
<1>6. \A j \in 1..Len(b) : b[j] = c[j]
  BY <1>2, <1>4, <1>5
<1>7. b = c
  BY <1>4, <1>5, <1>6, SameSeq
<1>8. s[i] \in Int
  BY <1>2
<1>9. Added(a) \in Int /\ Added(c) = Added(a) + s[i]
  BY <1>3, <1>8, AddedAppend DEF c
<1>10. AllNumbers(s, i - 1)
  BY <1>2 DEF AllNumbers
<1> QED
  BY <1>7, <1>8, <1>9, <1>10 DEF UpTo, a, b

LEMMA UpToNone ==
  ASSUME NEW s \in Seq(Range64 \cup {NotANumber})
  PROVE  UpTo(s, 0) = 0
<1>1. SubSeq(s, 1, 0) = <<>>
  OBVIOUS
<1> QED
  BY <1>1, AddedEmpty DEF UpTo

(* The checked sum of the first i values, in terms of the exact ones.      *)
Exactly(s, i) ==
  IF Leaves(s, i) THEN Overflow
  ELSE IF ~AllNumbers(s, i) THEN NotANumber
  ELSE UpTo(s, i)

LEMMA ExactlyNext ==
  ASSUME NEW s \in Seq(Range64 \cup {NotANumber}), NEW i \in 1..Len(s)
  PROVE  Exactly(s, i) = AddChecked(Exactly(s, i - 1), s[i])
<1>1. /\ i \in Nat /\ i - 1 \in Nat /\ i \in 1..i /\ 1..i = 1..(i - 1) \cup {i}
      /\ i - 1 \notin 1..(i - 1) => i = 1
      /\ s[i] \in Range64 \cup {NotANumber}
  OBVIOUS
<1>2. /\ Range64 \subseteq Int /\ Overflow \notin Range64 /\ NotANumber \notin Range64
      /\ NotANumber # Overflow /\ 0 \in Range64
  BY TreeAssumption DEF Range64
<1>3. Leaves(s, i) <=> Leaves(s, i - 1) \/ (AllNumbers(s, i) /\ UpTo(s, i) \notin Range64)
  BY <1>1 DEF Leaves
<1>4. AllNumbers(s, i) <=> AllNumbers(s, i - 1) /\ s[i] # NotANumber
  BY <1>1 DEF AllNumbers
<1>5. CASE Leaves(s, i - 1)
  BY <1>3, <1>5 DEF Exactly, AddChecked
<1>6. CASE ~Leaves(s, i - 1) /\ ~AllNumbers(s, i - 1)
  BY <1>3, <1>4, <1>6 DEF Exactly, AddChecked
<1>7. CASE ~Leaves(s, i - 1) /\ AllNumbers(s, i - 1)
  <2>1. UpTo(s, i - 1) \in Range64
    <3>1. CASE i = 1
      BY <1>2, <3>1, UpToNone
    <3>2. CASE i # 1
      BY <1>1, <1>7, <3>2 DEF Leaves
    <3> QED
      BY <3>1, <3>2
  <2>2. Exactly(s, i - 1) = UpTo(s, i - 1) /\ UpTo(s, i - 1) \notin {Overflow, NotANumber}
    BY <1>2, <1>7, <2>1 DEF Exactly
  <2>3. CASE s[i] = NotANumber
    BY <1>3, <1>4, <1>7, <2>2, <2>3 DEF Exactly, AddChecked
  <2>4. CASE s[i] # NotANumber
    <3>1. AllNumbers(s, i)
      BY <1>4, <1>7, <2>4
    <3>2. UpTo(s, i) = UpTo(s, i - 1) + s[i]
      BY <3>1, UpToNext
    <3> QED
      BY <1>3, <1>7, <2>2, <2>4, <3>1, <3>2 DEF Exactly, AddChecked, Range64
  <2> QED
    BY <2>3, <2>4
<1> QED
  BY <1>5, <1>6, <1>7

LEMMA CheckedIs ==
  ASSUME NEW s \in Seq(Range64 \cup {NotANumber})
  PROVE  Checked(s) = Exactly(s, Len(s))
<1> DEFINE n == Len(s)
<1>1. n \in Nat
  OBVIOUS
<1>2. PICK f : AddChecks(f, s, Range64 \cup {NotANumber, Overflow}) /\ f[n] = Checked(s)
  BY CheckedLoop
<1>3. f[0] = 0 /\ \A i \in 1..n : f[i] = AddChecked(f[i - 1], s[i])
  BY <1>2 DEF AddChecks
<1> DEFINE G == {i \in 0..n : f[i] = Exactly(s, i)}
<1>4. 0 \in G
  <2>1. Exactly(s, 0) = 0
    BY UpToNone DEF Exactly, Leaves, AllNumbers
  <2> QED
    BY <1>1, <1>3, <2>1
<1>5. ASSUME NEW i \in 1..n, i - 1 \in G PROVE i \in G
  <2>1. f[i] = AddChecked(f[i - 1], s[i]) /\ f[i - 1] = Exactly(s, i - 1)
    BY <1>3, <1>5
  <2>2. Exactly(s, i) = AddChecked(Exactly(s, i - 1), s[i])
    BY ExactlyNext
  <2> QED
    BY <1>1, <2>1, <2>2
<1> HIDE DEF n, G
<1>6. 0..n \subseteq G
  BY <1>1, <1>4, <1>5, Induction
<1>7. n \in G
  BY <1>1, <1>6
<1> QED
  BY <1>2, <1>7 DEF G, n

LEMMA AmongHas ==
  ASSUME NEW X, NEW s \in Seq(X), NEW S
  PROVE  Among(s, S) \in Seq(X) /\ ToSet(Among(s, S)) = ToSet(s) \cap S
<1> DEFINE D == ToSet(s) \ S
<1>1. NotIn(s, D) \in Seq(X) /\ ToSet(NotIn(s, D)) = ToSet(s) \ D
  BY NotInSome
<1> QED
  BY <1>1 DEF Among

LEMMA ScanTyped ==
  ASSUME NEW t, IsTree(t), NEW filter, NEW n \in Nodes(t)
  PROVE  Scan(t, n, filter) \in Seq(Nodes(t))
<1>1. PreOrder(t, n) \in Seq(Nodes(t))
  BY PreOrderSeq
<1> QED
  BY <1>1, ScanIs, SiftIs

(* The values a sum is made of.                                            *)
LEMMA AttrsTyped ==
  ASSUME NEW t, IsTree(t), NEW filter, NEW n \in Nodes(t)
  PROVE  FastCollectAttr(t, n, filter) \in Seq(Range64 \cup {NotANumber})
<1> DEFINE s == Scan(t, n, filter)
           S == {x \in Nodes(t) : HasAttr(t, x)}
           a == Among(s, S)
           X == Range64 \cup {NotANumber}
<1>1. s \in Seq(Nodes(t))
  BY ScanTyped
<1> HIDE DEF s
<1>2. a \in Seq(Nodes(t)) /\ ToSet(a) = ToSet(s) \cap S
  BY <1>1, AmongHas
<1>3. \A x \in S : x \in Nodes(t) /\ t.attr[x] \in X
  <2>1. t.attr \in [Nodes(t) -> X \cup {NoValue}]
    BY DEF IsTree, Range64
  <2> QED
    BY <2>1 DEF HasAttr
<1>4. FastCollectAttr(t, n, filter) = [i \in 1 .. Len(a) |-> t.attr[a[i]]]
  BY DEF FastCollectAttr, Map, s
<1> HIDE DEF a, S, X
<1>5. Len(a) \in Nat /\ \A i \in 1..Len(a) : a[i] \in S
  <2>1. Len(a) \in Nat /\ \A i \in 1..Len(a) : a[i] \in ToSet(a)
    BY <1>2, Ranged
  <2> QED
    BY <1>2, <2>1
<1>6. \A i \in 1..Len(a) : t.attr[a[i]] \in X
  BY <1>3, <1>5
<1> QED
  BY <1>4, <1>5, <1>6 DEF X

(* What SumIsExactOrRefused says of one list of values.                    *)
LEMMA SumIs ==
  ASSUME NEW v \in Seq(Range64 \cup {NotANumber})
  PROVE  LET upTo(i) == FoldLeft(LAMBDA a, b : a + b, 0, SubSeq(v, 1, i))
             bad == {i \in DOMAIN v : v[i] = NotANumber}
             sound == {i \in DOMAIN v : \A j \in bad : i < j}
             over == \E i \in sound : upTo(i) \notin MinInt .. MaxInt
         IN  Checked(v) = (IF over THEN Overflow ELSE IF bad # {} THEN NotANumber
                           ELSE upTo(Len(v)))
<1> DEFINE n == Len(v)
           bad == {i \in DOMAIN v : v[i] = NotANumber}
           sound == {i \in DOMAIN v : \A j \in bad : i < j}
           over == \E i \in sound : UpTo(v, i) \notin Range64
<1>1. n \in Nat /\ DOMAIN v = 1..n
  OBVIOUS
<1> HIDE DEF n
<1>2. ASSUME NEW i \in 1..n PROVE i \in sound <=> AllNumbers(v, i)
  BY <1>1 DEF AllNumbers
<1>3. sound \subseteq 1..n
  BY <1>1
<1>4. bad = {} <=> AllNumbers(v, n)
  BY <1>1 DEF AllNumbers
<1> HIDE DEF bad, sound
<1>5. over <=> Leaves(v, n)
  BY <1>2, <1>3 DEF Leaves
<1>6. Checked(v) = Exactly(v, n)
  BY CheckedIs DEF n
<1> HIDE DEF over
<1>7. Checked(v) = (IF over THEN Overflow ELSE IF bad # {} THEN NotANumber ELSE UpTo(v, n))
  BY <1>4, <1>5, <1>6 DEF Exactly
<1> QED
  BY <1>7 DEF over, sound, bad, n, UpTo, Added, Range64

LEMMA SettledTree ==
  ASSUME WalkInv, Settled
  PROVE  IsTree(tree) /\ Root \in Nodes(tree)
<1>1. phase = "shown" \/ phase = "ended"
  BY DEF Settled
<1>2. CASE phase = "shown"
  BY <1>2 DEF WalkInv
<1>3. CASE phase = "ended"
  BY <1>3 DEF WalkInv, Walking
<1> QED
  BY <1>1, <1>2, <1>3

(* fast_sum_int_attr: whatever the tree, the scan and the filter, the sum  *)
(* is the exact sum or an error, and an error only if a value does not     *)
(* parse or the running total leaves i64 before that.                      *)
THEOREM SumIsExact == WalkSpec => []SumIsExactOrRefused
<1>1. WalkInv => SumIsExactOrRefused
  <2> SUFFICES ASSUME WalkInv, Settled, NEW n \in Nodes(tree), NEW tag \in Tags
               PROVE  LET values == FastCollectAttr(tree, n, DescFilter(tag))
                          upTo(i) == FoldLeft(LAMBDA a, b : a + b, 0, SubSeq(values, 1, i))
                          sum == FastSumIntAttr(tree, n, DescFilter(tag))
                          bad == {i \in DOMAIN values : values[i] = NotANumber}
                          sound == {i \in DOMAIN values : \A j \in bad : i < j}
                          over == \E i \in sound : upTo(i) \notin MinInt .. MaxInt
                      IN  sum = (IF over THEN Overflow ELSE IF bad # {} THEN NotANumber
                                 ELSE upTo(Len(values)))
    BY DEF SumIsExactOrRefused
  <2> DEFINE values == FastCollectAttr(tree, n, DescFilter(tag))
  <2>1. values \in Seq(Range64 \cup {NotANumber})
    BY SettledTree, AttrsTyped
  <2>2. FastSumIntAttr(tree, n, DescFilter(tag)) = Checked(values)
    BY DEF FastSumIntAttr, Checked
  <2> HIDE DEF values
  <2> QED
    BY <2>1, <2>2, SumIs DEF values
<1> QED
  BY <1>1, WalkInvHolds, PTL

-----------------------------------------------------------------------------
(* The scans that do not list their matches.                               *)

LEMMA ScanIsAmong ==
  ASSUME NEW t, IsTree(t), NEW filter, NEW n \in Nodes(t)
  PROVE  /\ PreOrder(t, n) \in Seq(Nodes(t))
         /\ Scan(t, n, filter) =
              Among(PreOrder(t, n), {c \in Nodes(t) : Matches(t, c, filter)})
<1>1. PreOrder(t, n) \in Seq(Nodes(t))
  BY PreOrderSeq
<1>2. Scan(t, n, filter) = Sift(PreOrder(t, n), Found(t, filter))
  BY ScanIs
<1>3. Among(PreOrder(t, n), Found(t, filter)) = Sift(PreOrder(t, n), Found(t, filter))
  BY <1>1, AmongSifts
<1> QED
  BY <1>1, <1>2, <1>3 DEF Found

LEMMA HasIs ==
  ASSUME NEW t, IsTree(t), NEW filter, NEW n \in Nodes(t)
  PROVE  FastHas(t, n, filter) <=> Scan(t, n, filter) # <<>>
<1> DEFINE M == Found(t, filter)
           one == <<n>>
           r == AdvanceWalk(t, one, filter)
<1>1. one \in Seq(Nodes(t)) /\ Flat(t, one) = PreOrder(t, n)
  BY OneIs, FlatOne
<1>2. Scan(t, n, filter) = Sift(Flat(t, one), M)
  BY <1>1, ScanIs
<1>3. FastHas(t, n, filter) <=> r.id # NoNode
  BY DEF FastHas
<1> HIDE DEF one
<1>4. Finds(t, one, M, r)
  BY <1>1, AdvanceFinds
<1> HIDE DEF M, r
<1>5. CASE r.id = NoNode
  BY <1>2, <1>3, <1>4, <1>5 DEF Finds
<1>6. CASE r.id # NoNode
  <2>1. r.id \in Nodes(t) /\ r.stack \in Seq(Nodes(t))
        /\ Sift(Flat(t, one), M) = <<r.id>> \o Sift(Flat(t, r.stack), M)
    BY <1>4, <1>6 DEF Finds, Steps
  <2>2. Sift(Flat(t, r.stack), M) \in Seq(Nodes(t))
    BY <2>1, FlatIs, SiftIs
  <2>3. <<r.id>> \o Sift(Flat(t, r.stack), M) # <<>>
    BY <2>1, <2>2
  <2> QED
    BY <1>2, <1>3, <1>6, <2>1, <2>3
<1> QED
  BY <1>5, <1>6

LEMMA ScansAgree ==
  ASSUME WalkInv
  PROVE  ScansAgreeWithPreOrder
<1> SUFFICES ASSUME Settled, NEW n \in Nodes(tree), NEW tag \in Tags
             PROVE  LET filter == DescFilter(tag)
                        matches == Among(PreOrder(tree, n),
                                         {c \in Nodes(tree) : Matches(tree, c, filter)})
                    IN  /\ Scan(tree, n, filter) = matches
                        /\ FastCount(tree, n, filter) = Len(matches)
                        /\ FastHas(tree, n, filter) <=> matches # <<>>
                        /\ FastCollectText(tree, n, filter) =
                             Map(LAMBDA c : TextOf(tree, OwnTextNodes(tree, c)),
                                 Among(matches, {c \in Nodes(tree) : OwnTextNodes(tree, c) # <<>>}))
  BY DEF ScansAgreeWithPreOrder
<1> DEFINE filter == DescFilter(tag)
           matches == Among(PreOrder(tree, n), {c \in Nodes(tree) : Matches(tree, c, filter)})
           s == Scan(tree, n, filter)
<1>1. s = matches
  BY SettledTree, ScanIsAmong
<1>2. FastHas(tree, n, filter) <=> s # <<>>
  BY SettledTree, HasIs
<1>3. FastCount(tree, n, filter) = Len(s)
  BY DEF FastCount
<1>4. FastCollectText(tree, n, filter) =
        Map(LAMBDA c : TextOf(tree, OwnTextNodes(tree, c)),
            Among(s, {c \in Nodes(tree) : OwnTextNodes(tree, c) # <<>>}))
  BY Zenon DEF FastCollectText
<1> QED
  BY <1>1, <1>2, <1>3, <1>4, Zenon

-----------------------------------------------------------------------------
(* Text runs and siblings.                                                 *)

Single(X, o, x) == o \in Seq(X) /\ x \in X /\ Len(o) = 1 /\ o[1] = x

LEMMA SingleIs ==
  ASSUME NEW X, NEW x \in X
  PROVE  Single(X, <<x>>, x)
BY OneIs DEF Single

LEMMA JoinOne ==
  ASSUME NEW X, NEW o, NEW x, Single(X, o, x), NEW s \in Seq(X)
  PROVE  /\ o \o s \in Seq(X) /\ Len(s) \in Nat /\ Len(o \o s) = 1 + Len(s)
         /\ (o \o s)[1] = x /\ \A k \in 1..Len(s) : (o \o s)[1 + k] = s[k]
<1> DEFINE w == o \o s
<1>0. Two(X, o, s)
  BY DEF Two, Single
<1>1. w \in Seq(X) /\ Len(s) \in Nat /\ Len(w) = Len(o) + Len(s)
  BY <1>0, JoinTwo
<1>2. \A i \in 1..Len(o) : w[i] = o[i]
  BY <1>0, JoinTwo
<1>4. \A i \in 1..Len(s) : w[Len(o) + i] = s[i]
  BY <1>0, JoinTwo
<1> HIDE DEF w
<1>5. Len(o) = 1 /\ o[1] = x
  BY DEF Single
<1> QED
  BY <1>1, <1>2, <1>4, <1>5 DEF w

(* Induction over sequences, an entry more at the front.                   *)
Grows(X, G) == <<>> \in G /\ \A x \in X, s \in Seq(X) : s \in G => <<x>> \o s \in G

EndsWith(X, s, u, k) == \E a : Two(X, a, u) /\ s = a \o u /\ Len(u) = k

LEMMA PrependInduction ==
  ASSUME NEW X, NEW G, Grows(X, G)
  PROVE  Seq(X) \subseteq G
<1> SUFFICES ASSUME NEW s \in Seq(X) PROVE s \in G
  OBVIOUS
<1> DEFINE n == Len(s)
           H == {k \in 0..n : \A u : EndsWith(X, s, u, k) => u \in G}
<1>1. n \in Nat
  OBVIOUS
<1>2. 0 \in H
  <2>1. ASSUME NEW u, EndsWith(X, s, u, 0) PROVE u = <<>>
    <3>1. u \in Seq(X) /\ Len(u) = 0
      BY <2>1 DEF EndsWith, Two
    <3> QED
      BY <3>1
  <2>2. <<>> \in G
    BY DEF Grows
  <2> QED
    BY <1>1, <2>1, <2>2
<1>3. ASSUME NEW k \in 1..n, k - 1 \in H PROVE k \in H
  <2> SUFFICES ASSUME NEW u, EndsWith(X, s, u, k)
               PROVE  u \in G
    BY <1>1
  <2>0. PICK a : Two(X, a, u) /\ s = a \o u /\ Len(u) = k
    BY DEF EndsWith
  <2>u. u \in Seq(X) /\ a \in Seq(X) /\ Len(u) = k
    BY <2>0 DEF Two
  <2>1. 1 \in 1..Len(u)
    BY <1>1, <2>u
  <2>2. PICK b, v \in Seq(X) : Parts(u, b, u[1], v) /\ Len(b) + 1 = 1
    BY <2>1, <2>u, SplitAt
  <2> DEFINE x == u[1]
             o == <<x>>
  <2>3. x \in X /\ o \in Seq(X) /\ Single(X, o, x)
    BY <2>1, <2>u, SingleIs DEF Single
  <2>4. b = <<>>
    BY <2>2
  <2> HIDE DEF x
  <2>5. u = b \o (o \o v)
    BY <2>2 DEF Parts, x
  <2> HIDE DEF o
  <2>6. o \o v \in Seq(X) /\ Len(o \o v) = 1 + Len(v) /\ Len(v) \in Nat
    BY <2>3, JoinOne
  <2>7. u = o \o v
    BY <2>4, <2>5, <2>6, JoinEmpty
  <2>8. Len(v) = k - 1 /\ k - 1 \in Nat
    BY <1>1, <2>6, <2>7, <2>u
  <2>9. s = (a \o o) \o v /\ a \o o \in Seq(X)
    <3>1. All3(X, a, o, v)
      BY <2>3, <2>u DEF All3
    <3>2. (a \o o) \o v = a \o (o \o v) /\ a \o o \in Seq(X)
      BY <3>1, Assoc
    <3> QED
      BY <2>0, <2>7, <3>2
  <2>10. EndsWith(X, s, v, k - 1)
    BY <2>8, <2>9 DEF EndsWith, Two
  <2>11. v \in G
    BY <1>3, <2>10
  <2>12. <<x>> \o v \in G
    BY <2>3, <2>11 DEF Grows
  <2> QED
    BY <2>7, <2>12 DEF o
<1> HIDE DEF H
<1>4. n \in H
  <2> HIDE DEF n
  <2>1. 0..n \subseteq H
    BY <1>1, <1>2, <1>3, Induction
  <2> QED
    BY <1>1, <2>1
<1>5. EndsWith(X, s, s, n)
  <2>1. <<>> \in Seq(X) /\ s = <<>> \o s
    BY JoinEmpty
  <2> QED
    BY <2>1 DEF EndsWith, Two
<1> QED
  BY <1>4, <1>5 DEF H

(* a is the text at the head of a list that goes on with b.                *)
RunThen(t, a, b) ==
  /\ a \in Seq(Nodes(t)) /\ b \in Seq(Nodes(t))
  /\ \A k \in 1..Len(a) : IsText(t, a[k])
  /\ b # <<>> => ~IsText(t, b[1])

LEMMA HeadIs ==
  ASSUME NEW t, NEW a, NEW b, RunThen(t, a, b)
  PROVE  /\ TextRun(t, a \o b) = a
         /\ FirstContent(t, a \o b) = IF b = <<>> THEN NoNode ELSE b[1]
<1> DEFINE s == a \o b
           I == {i \in 1..Len(s) : ~IsText(t, s[i])}
           e == IF I # {} THEN Min(I) ELSE 0
           n == Len(a)
<1>1. /\ TextRun(t, s) = IF e = 0 THEN s ELSE SubSeq(s, 1, e - 1)
      /\ FirstContent(t, s) = IF e = 0 THEN NoNode ELSE s[e]
  BY Zenon DEF TextRun, FirstContent, SelectInSeq
<1>2. /\ s \in Seq(Nodes(t)) /\ n \in Nat /\ Len(b) \in Nat /\ Len(s) = n + Len(b)
      /\ \A i \in 1..n : s[i] = a[i]
      /\ \A i \in 1..Len(b) : s[n + i] = b[i]
  BY JoinIs DEF RunThen
<1>3. CASE b = <<>>
  <2>1. s = a
    BY <1>3, JoinEmpty DEF RunThen
  <2>2. I = {}
    BY <2>1 DEF RunThen
  <2> QED
    BY <1>1, <1>3, <2>1, <2>2
<1>4. CASE b # <<>>
  <2>1. 1 \in 1..Len(b) /\ ~IsText(t, b[1])
    BY <1>4 DEF RunThen
  <2>2. n + 1 \in I /\ \A i \in 1..n : i \notin I
    <3>1. s[n + 1] = b[1] /\ n + 1 \in 1..Len(s)
      BY <1>2, <2>1
    <3>2. \A i \in 1..n : IsText(t, s[i])
      BY <1>2 DEF RunThen
    <3> QED
      BY <2>1, <3>1, <3>2
  <2>3. e = n + 1
    <3>1. I \in SUBSET Nat /\ I # {} /\ \A i \in I : i >= 1
      BY <1>2, <2>2
    <3> HIDE DEF I
    <3>2. Min(I) \in I /\ \A i \in I : Min(I) <= i
      BY <3>1, SmallestIs
    <3>3. Min(I) \in Nat /\ Min(I) >= 1 /\ Min(I) <= n + 1 /\ Min(I) \notin 1..n
      BY <2>2, <3>1, <3>2
    <3> QED
      BY <1>2, <3>1, <3>3
  <2> HIDE DEF e, I
  <2>4. FirstContent(t, s) = b[1]
    BY <1>1, <1>2, <2>1, <2>3
  <2>5. TextRun(t, s) = SubSeq(s, 1, n)
    BY <1>1, <1>2, <2>3
  <2>6. SubSeq(s, 1, n) = a
    <3> HIDE DEF s
    <3> DEFINE p == SubSeq(s, 1, n)
    <3>1. p \in Seq(Nodes(t)) /\ Len(p) = n /\ \A i \in 1..n : p[i] = s[i]
      BY <1>2
    <3> HIDE DEF p
    <3>2. a \in Seq(Nodes(t)) /\ \A i \in 1..Len(p) : p[i] = a[i]
      BY <1>2, <3>1 DEF RunThen
    <3> QED
      BY <3>1, <3>2, SameSeq DEF p
  <2> QED
    BY <1>4, <2>4, <2>5, <2>6
<1> QED
  BY <1>3, <1>4

LEMMA HeadRuns ==
  ASSUME NEW t, NEW s \in Seq(Nodes(t))
  PROVE  \E a, b : RunThen(t, a, b) /\ s = a \o b
<1> DEFINE N == Nodes(t)
           none == <<>>
           G == {u \in Seq(N) : \E a, b : RunThen(t, a, b) /\ u = a \o b}
<1>1. none \in G
  <2>1. none \in Seq(N) /\ Len(none) = 0 /\ none \o none = none
    BY JoinEmpty
  <2>2. RunThen(t, none, none)
    BY <2>1 DEF RunThen
  <2> QED
    BY <2>1, <2>2
<1>2. ASSUME NEW x \in N, NEW u \in Seq(N), u \in G PROVE <<x>> \o u \in G
  <2>0. PICK a, b : RunThen(t, a, b) /\ u = a \o b
    BY <1>2
  <2> HIDE DEF G
  <2> DEFINE o == <<x>>
             w == o \o u
  <2>1. o \in Seq(N) /\ Single(N, o, x)
    BY SingleIs DEF Single
  <2> HIDE DEF o
  <2>2. w \in Seq(N) /\ Len(w) = 1 + Len(u) /\ w[1] = x /\ Len(u) \in Nat
    BY <2>1, JoinOne
  <2>3. CASE IsText(t, x)
    <3>1. RunThen(t, a, b) /\ u = a \o b
      BY <2>0
    <3> DEFINE c == o \o a
    <3>2. c \in Seq(N) /\ Len(a) \in Nat /\ Len(c) = 1 + Len(a) /\ c[1] = x
          /\ \A k \in 1..Len(a) : c[1 + k] = a[k]
      <4>1. a \in Seq(N)
        BY <3>1 DEF RunThen
      <4> QED
        BY <2>1, <4>1, JoinOne
    <3>3. w = c \o b
      <4>1. All3(N, o, a, b)
        BY <2>1, <3>1 DEF All3, RunThen
      <4>2. Assoc3(o, a, b)
        BY <4>1, AssocIs
      <4> QED
        BY <3>1, <4>2, Zenon DEF Assoc3
    <3> HIDE DEF c
    <3>4. \A k \in 1..Len(c) : IsText(t, c[k])
      <4> SUFFICES ASSUME NEW k \in 1..Len(c) PROVE IsText(t, c[k])
        OBVIOUS
      <4>1. CASE k = 1
        BY <2>3, <3>2, <4>1
      <4>2. CASE k # 1
        <5>1. k - 1 \in 1..Len(a) /\ k = 1 + (k - 1)
          BY <3>2, <4>2
        <5>2. c[k] = a[k - 1]
          BY <3>2, <5>1
        <5> QED
          BY <3>1, <5>1, <5>2 DEF RunThen
      <4> QED
        BY <4>1, <4>2
    <3>5. RunThen(t, c, b)
      BY <3>1, <3>2, <3>4 DEF RunThen
    <3> HIDE DEF w
    <3> QED
      BY <2>2, <3>3, <3>5 DEF w, o, G
  <2>4. CASE ~IsText(t, x)
    <3>1. none \in Seq(N) /\ Len(none) = 0
      OBVIOUS
    <3>2. none \o w = w
      BY <2>2, JoinEmpty
    <3> HIDE DEF w, none
    <3>3. RunThen(t, none, w)
      BY <2>2, <2>4, <3>1 DEF RunThen
    <3> QED
      BY <2>2, <3>2, <3>3 DEF w, o, G
  <2> QED
    BY <2>3, <2>4
<1> HIDE DEF G
<1>3. Seq(N) \subseteq G
  <2>1. Grows(N, G)
    BY <1>1, <1>2 DEF Grows
  <2> QED
    BY <2>1, PrependInduction
<1> QED
  BY <1>3 DEF G

(* A text node more at the head of a list lengthens its run; any other     *)
(* node ends it.                                                           *)
LEMMA RunNext ==
  ASSUME NEW t, NEW x \in Nodes(t), NEW s \in Seq(Nodes(t))
  PROVE  /\ IsText(t, x) => /\ TextRun(t, <<x>> \o s) = <<x>> \o TextRun(t, s)
                            /\ FirstContent(t, <<x>> \o s) = FirstContent(t, s)
         /\ ~IsText(t, x) => /\ TextRun(t, <<x>> \o s) = <<>>
                             /\ FirstContent(t, <<x>> \o s) = x
<1> DEFINE N == Nodes(t)
           o == <<x>>
           w == o \o s
           none == <<>>
<1>1. o \in Seq(N) /\ Single(N, o, x)
  BY SingleIs DEF Single
<1> HIDE DEF o
<1>2. w \in Seq(N) /\ Len(w) = 1 + Len(s) /\ w[1] = x /\ Len(s) \in Nat
  BY <1>1, JoinOne
<1>3. PICK a, b : RunThen(t, a, b) /\ s = a \o b
  BY HeadRuns
<1>4. CASE IsText(t, x)
  <2> DEFINE c == o \o a
  <2>1. a \in Seq(N) /\ b \in Seq(N) /\ \A k \in 1..Len(a) : IsText(t, a[k])
    BY <1>3 DEF RunThen
  <2>2. c \in Seq(N) /\ Len(a) \in Nat /\ Len(c) = 1 + Len(a) /\ c[1] = x
        /\ \A k \in 1..Len(a) : c[1 + k] = a[k]
    BY <1>1, <2>1, JoinOne
  <2>3. Assoc3(o, a, b)
    <3>1. All3(N, o, a, b)
      BY <1>1, <2>1 DEF All3
    <3> QED
      BY <3>1, AssocIs
  <2>4. w = c \o b
    BY <1>3, <2>3, Zenon DEF Assoc3
  <2> HIDE DEF c, w
  <2>5. \A k \in 1..Len(c) : IsText(t, c[k])
    <3> SUFFICES ASSUME NEW k \in 1..Len(c) PROVE IsText(t, c[k])
      OBVIOUS
    <3>1. CASE k = 1
      BY <1>4, <2>2, <3>1
    <3>2. CASE k # 1
      <4>1. k - 1 \in 1..Len(a) /\ k = 1 + (k - 1)
        BY <2>2, <3>2
      <4>2. c[k] = a[k - 1]
        BY <2>2, <4>1
      <4> QED
        BY <2>1, <4>1, <4>2
    <3> QED
      BY <3>1, <3>2
  <2>6. RunThen(t, c, b)
    BY <1>3, <2>2, <2>5 DEF RunThen
  <2>7. TextRun(t, w) = c /\ FirstContent(t, w) = IF b = <<>> THEN NoNode ELSE b[1]
    BY <2>4, <2>6, HeadIs
  <2>8. TextRun(t, s) = a /\ FirstContent(t, s) = IF b = <<>> THEN NoNode ELSE b[1]
    BY <1>3, HeadIs
  <2>9. TextRun(t, w) = o \o TextRun(t, s)
    BY <2>7, <2>8, Zenon DEF c
  <2>10. FirstContent(t, w) = FirstContent(t, s)
    BY <2>7, <2>8
  <2> QED
    BY <1>4, <2>9, <2>10, Zenon DEF w, o
<1>5. CASE ~IsText(t, x)
  <2>1. none \in Seq(N) /\ Len(none) = 0 /\ none \o w = w /\ w # none
    BY <1>2, JoinEmpty
  <2> HIDE DEF w, none
  <2>2. RunThen(t, none, w)
    BY <1>2, <1>5, <2>1 DEF RunThen
  <2>3. TextRun(t, w) = none /\ FirstContent(t, w) = w[1]
    <3>1. TextRun(t, none \o w) = none
          /\ FirstContent(t, none \o w) = IF w = <<>> THEN NoNode ELSE w[1]
      BY <2>2, HeadIs
    <3> QED
      BY <2>1, <3>1 DEF none
  <2> QED
    BY <1>2, <1>5, <2>3 DEF w, none, o
<1> QED
  BY <1>4, <1>5

LEMMA RunsEmpty ==
  ASSUME NEW t
  PROVE  TextRun(t, <<>>) = <<>> /\ FirstContent(t, <<>>) = NoNode
<1> DEFINE none == <<>>
<1>1. none \in Seq(Nodes(t)) /\ Len(none) = 0 /\ none \o none = none
  BY JoinEmpty
<1> HIDE DEF none
<1>2. RunThen(t, none, none) \/ none # <<>>
  BY <1>1 DEF RunThen
<1>3. none = <<>>
  BY DEF none
<1>4. TextRun(t, none \o none) = none
      /\ FirstContent(t, none \o none) = IF none = <<>> THEN NoNode ELSE none[1]
  BY <1>2, <1>3, HeadIs
<1> QED
  BY <1>1, <1>3, <1>4

Contents(t) == {c \in Nodes(t) : IsContent(t, c)}

Texts(t) == {c \in Nodes(t) : IsText(t, c)}

LEMMA TextOrContent ==
  ASSUME NEW t, IsTree(t), NEW x \in Nodes(t)
  PROVE  (x \in Texts(t) <=> IsText(t, x)) /\ (x \in Contents(t) <=> ~IsText(t, x))
<1>1. t.kind[x] \in {"element", "text", "cdata", "comment", "pi"}
  BY DEF IsTree
<1> QED
  BY <1>1 DEF Texts, Contents, IsText, IsContent

(* Sifting a list, an entry more at the front.                             *)
OneMore(X, o, x, s) == Single(X, o, x) /\ o = <<x>> /\ s \in Seq(X)

LEMMA OneMoreIs ==
  ASSUME NEW X, NEW x \in X, NEW s \in Seq(X)
  PROVE  OneMore(X, <<x>>, x, s)
BY SingleIs DEF OneMore

LEMMA SiftFirst ==
  ASSUME NEW X, NEW o, NEW x, NEW s, OneMore(X, o, x, s), NEW K
  PROVE  /\ Sift(s, K) \in Seq(X)
         /\ x \in K => Sift(o \o s, K) = o \o Sift(s, K)
         /\ x \notin K => Sift(o \o s, K) = Sift(s, K)
<1> DEFINE r == Sift(s, K)
<1>0. s \in Seq(X) /\ Two(X, o, s) /\ o = <<x>>
  BY DEF OneMore, Two, Single
<1>1. r \in Seq(X)
  BY <1>0, SiftIs
<1>2. Sift(o, K) = IF x \in K THEN o ELSE <<>>
  BY <1>0, SiftOne
<1>4. Sift(o \o s, K) = Sift(o, K) \o r
  BY <1>0, SiftTwo
<1> HIDE DEF r
<1>5. CASE x \in K
  BY <1>1, <1>2, <1>4, <1>5 DEF r
<1>6. CASE x \notin K
  <2>1. Sift(o \o s, K) = <<>> \o r
    BY <1>2, <1>4, <1>6
  <2>2. <<>> \o r = r
    BY <1>1, JoinEmpty
  <2> QED
    BY <1>1, <1>6, <2>1, <2>2 DEF r
<1> QED
  BY <1>5, <1>6

(* getnext: the first node of a list that is not text.                     *)
LEMMA FirstContentIs ==
  ASSUME NEW t, IsTree(t), NEW s \in Seq(Nodes(t))
  PROVE  FirstContent(t, s) =
           IF Sift(s, Contents(t)) = <<>> THEN NoNode ELSE Sift(s, Contents(t))[1]
<1> DEFINE N == Nodes(t)
           C == Contents(t)
           Is(u) == FirstContent(t, u) = IF Sift(u, C) = <<>> THEN NoNode ELSE Sift(u, C)[1]
           G == {u \in Seq(N) : Is(u)}
<1>1. <<>> \in G
  BY RunsEmpty, SiftEmpty, EmptyIs
<1>2. ASSUME NEW x \in N, NEW u \in Seq(N), u \in G PROVE <<x>> \o u \in G
  <2> DEFINE o == <<x>>
             w == o \o u
             r == Sift(u, C)
  <2>i. Is(u)
    BY <1>2
  <2>o. OneMore(N, o, x, u) /\ Single(N, o, x)
    BY OneMoreIs, SingleIs
  <2> HIDE DEF G, o
  <2>1. w \in Seq(N)
    BY <2>o, JoinOne
  <2>2. r \in Seq(N) /\ (x \in C => Sift(w, C) = o \o r) /\ (x \notin C => Sift(w, C) = r)
    <3> HIDE DEF C
    <3> QED
      BY <2>o, SiftFirst
  <2>3. CASE IsText(t, x)
    <3>1. x \notin C
      BY <2>3, TextOrContent
    <3>2. FirstContent(t, w) = FirstContent(t, u)
      BY <2>3, RunNext DEF o
    <3> HIDE DEF w
    <3>3. Is(w)
      BY <2>i, <2>2, <3>1, <3>2
    <3> QED
      BY <2>1, <3>3 DEF G, w, o
  <2>4. CASE ~IsText(t, x)
    <3>1. x \in C
      BY <2>4, TextOrContent
    <3>2. FirstContent(t, w) = x
      BY <2>4, RunNext DEF o
    <3> DEFINE v == o \o r
    <3>3. v \in Seq(N) /\ Len(v) = 1 + Len(r) /\ v[1] = x /\ Len(r) \in Nat
      BY <2>2, <2>o, JoinOne
    <3>4. Sift(w, C) = v
      BY <2>2, <3>1
    <3> HIDE DEF w, v
    <3>5. Is(w)
      BY <3>2, <3>3, <3>4
    <3> QED
      BY <2>1, <3>5 DEF G, w, o
  <2> QED
    BY <2>3, <2>4
<1> HIDE DEF G
<1>3. Seq(N) \subseteq G
  <2>1. Grows(N, G)
    BY <1>1, <1>2 DEF Grows
  <2> QED
    BY <2>1, PrependInduction
<1> QED
  BY <1>3 DEF G


(* The neighbours of a node, from where it stands among its siblings.      *)
LEMMA NeighboursAt ==
  ASSUME NEW t, IsTree(t), NEW p \in Nodes(t), NEW x \in Nodes(t),
         NEW a \in Seq(Nodes(t)), NEW b \in Seq(Nodes(t)), Parts(t.kids[p], a, x, b)
  PROVE  Following(t, x) = b /\ Preceding(t, x) = Reverse(a)
<1> DEFINE N == Nodes(t)
           k == t.kids[p]
           n == Len(a)
           e == n + 1
           f == n + 2
           L == Len(k)
<1>1. /\ k \in Seq(N) /\ n \in Nat /\ Len(b) \in Nat
      /\ L = n + 1 + Len(b)
      /\ DOMAIN k = 1..(n + 1 + Len(b))
      /\ \A i \in 1..n : k[i] = a[i]
      /\ k[n + 1] = x
      /\ \A i \in 1..Len(b) : k[n + 1 + i] = b[i]
  <2>1. Parts(k, a, x, b) /\ a \in Seq(N) /\ x \in N /\ b \in Seq(N)
    OBVIOUS
  <2> HIDE DEF k, N
  <2> QED
    BY <2>1, PartsAre
<1>2. \A q \in N : Contains(t.kids[q], x) => q = p /\ PlaceOf(t.kids[q], x) = e
  <2> SUFFICES ASSUME NEW q \in N, Contains(t.kids[q], x)
               PROVE  q = p /\ PlaceOf(t.kids[q], x) = e
    OBVIOUS
  <2>1. t.kids[q] \in Seq(N)
    BY TreeIs
  <2>2. \E j \in DOMAIN t.kids[q] : t.kids[q][j] = x
    BY <2>1 DEF Contains
  <2>3. e \in DOMAIN k /\ k[e] = x
    BY <1>1
  <2>4. \A j \in DOMAIN t.kids[q] : t.kids[q][j] = x => p = q /\ e = j
    BY <2>3, OnePlace DEF k
  <2>5. PlaceOf(t.kids[q], x) \in DOMAIN t.kids[q] /\ t.kids[q][PlaceOf(t.kids[q], x)] = x
    BY <2>2 DEF PlaceOf
  <2> QED
    BY <2>4, <2>5
<1>3. Contains(k, x)
  <2>1. e \in 1..L /\ k[e] = x
    BY <1>1
  <2> QED
    BY <2>1 DEF Contains
<1>4. ParentOf(t, x) = p /\ PlaceOf(k, x) = e
  BY <1>2, <1>3 DEF ParentOf
<1>5. p # NoNode
  BY DEF IsTree
<1>6. Following(t, x) = SubSeq(k, f, L)
  <2>1. Following(t, x) = SubSeq(k, e + 1, L)
    BY <1>4, <1>5 DEF Following
  <2>2. e + 1 = f
    BY <1>1
  <2> QED
    BY <2>1, <2>2
<1>7. Preceding(t, x) = Reverse(SubSeq(k, 1, n))
  <2>1. Preceding(t, x) = Reverse(SubSeq(k, 1, e - 1))
    BY <1>4, <1>5 DEF Preceding
  <2>2. e - 1 = n
    BY <1>1
  <2> QED
    BY <2>1, <2>2
<1> HIDE DEF k, N
<1>8. SubSeq(k, f, L) = b
  <2> DEFINE u == SubSeq(k, f, L)
  <2>1. f \in Nat \ {0} /\ L \in Nat /\ L <= Len(k)
    BY <1>1
  <2>2. /\ u \in Seq(N) /\ Len(u) = (IF f <= L THEN L - f + 1 ELSE 0)
        /\ DOMAIN u = 1..Len(u) /\ \A h \in DOMAIN u : u[h] = k[f + h - 1]
    <3> HIDE DEF f, L
    <3> QED
      BY <1>1, <2>1, Sliced
  <2> HIDE DEF u
  <2>3. Len(u) = Len(b)
    BY <1>1, <2>2
  <2>4. \A h \in 1..Len(u) : u[h] = b[h]
    <3> SUFFICES ASSUME NEW h \in 1..Len(u) PROVE u[h] = b[h]
      OBVIOUS
    <3>1. f + h - 1 = n + 1 + h /\ h \in 1..Len(b)
      BY <1>1, <2>3
    <3> QED
      BY <1>1, <2>2, <3>1
  <2>5. b \in Seq(N)
    BY DEF N
  <2> QED
    BY <2>2, <2>3, <2>4, <2>5, SameSeq DEF u
<1>9. SubSeq(k, 1, n) = a
  <2> DEFINE u == SubSeq(k, 1, n)
  <2>1. 1 \in Nat \ {0} /\ n \in Nat /\ n <= Len(k)
    BY <1>1
  <2>2. /\ u \in Seq(N) /\ Len(u) = (IF 1 <= n THEN n - 1 + 1 ELSE 0)
        /\ DOMAIN u = 1..Len(u) /\ \A h \in DOMAIN u : u[h] = k[1 + h - 1]
    <3> HIDE DEF n
    <3> QED
      BY <1>1, <2>1, Sliced
  <2> HIDE DEF u
  <2>3. Len(u) = n
    BY <1>1, <2>2
  <2>4. \A h \in 1..Len(u) : u[h] = a[h]
    <3> SUFFICES ASSUME NEW h \in 1..Len(u) PROVE u[h] = a[h]
      OBVIOUS
    <3>1. 1 + h - 1 = h /\ h \in 1..n
      BY <1>1, <2>3
    <3> QED
      BY <1>1, <2>2, <3>1
  <2>5. a \in Seq(N)
    BY DEF N
  <2> QED
    BY <2>2, <2>3, <2>4, <2>5, SameSeq DEF u
<1> QED
  BY <1>6, <1>7, <1>8, <1>9


(* The tail of each node.                                                  *)
Tails(t) == [c \in Nodes(t) |-> TailTextRun(t, c)]

LEMMA TailsAre ==
  ASSUME NEW t, IsTree(t)
  PROVE  Maps(Tails(t), Nodes(t), Seq(Nodes(t)))
<1>1. \A c \in Nodes(t) : TailTextRun(t, c) \in Seq(Nodes(t))
  BY TailIs
<1> QED
  BY <1>1 DEF Maps, Tails

(* The text of u is the run at its head and the tails of its other nodes.  *)
Covers(t, u) ==
  Sift(u, Texts(t)) = TextRun(t, u) \o Along(Tails(t), Sift(u, Contents(t)))

(* u is the rest of a child list.                                          *)
Ends(t, p, u) == \E a \in Seq(Nodes(t)) : t.kids[p] = a \o u

LEMMA CoversNext ==
  ASSUME NEW t, IsTree(t), NEW p \in Nodes(t), NEW x \in Nodes(t),
         NEW u \in Seq(Nodes(t)), Covers(t, u), TailTextRun(t, x) = TextRun(t, u)
  PROVE  Covers(t, <<x>> \o u)
<1> DEFINE N == Nodes(t)
           T == Texts(t)
           C == Contents(t)
           o == <<x>>
           w == o \o u
           R == TextRun(t, u)
           c == Sift(u, C)
           A == Along(Tails(t), c)
<1>1. OneMore(N, o, x, u) /\ Single(N, o, x)
  BY OneMoreIs, SingleIs
<1>2. (x \in T <=> IsText(t, x)) /\ (x \in C <=> ~IsText(t, x))
  BY TextOrContent
<1>3. R \in Seq(N) /\ c \in Seq(N) /\ A \in Seq(N)
  <2>1. R \in Seq(N) /\ c \in Seq(N)
    BY TextRunHas, SiftIs
  <2> HIDE DEF c
  <2>2. A \in Seq(N)
    BY <2>1, TailsAre, AlongIs
  <2> QED
    BY <2>1, <2>2
<1>4. Sift(u, T) = R \o A
  BY DEF Covers
<1>5. IsText(t, x) => TextRun(t, w) = o \o R
  BY RunNext
<1>6. ~IsText(t, x) => TextRun(t, w) = <<>>
  BY RunNext
<1>7. Tails(t)[x] = R
  BY DEF Tails
<1> HIDE DEF T, C, R, A, o
<1>8. (x \in T => Sift(w, T) = o \o (R \o A)) /\ (x \notin T => Sift(w, T) = R \o A)
  <2> DEFINE q == R \o A
  <2>1. Sift(u, T) = q
    BY <1>4
  <2> HIDE DEF q, w
  <2>2. (x \in T => Sift(o \o u, T) = o \o Sift(u, T))
        /\ (x \notin T => Sift(o \o u, T) = Sift(u, T))
    BY <1>1, SiftFirst
  <2> QED
    BY <2>1, <2>2, Zenon DEF q, w
<1>9. (x \in C => Sift(w, C) = o \o c) /\ (x \notin C => Sift(w, C) = c)
  BY <1>1, SiftFirst
<1>10. CASE IsText(t, x)
  <2>1. Assoc3(o, R, A)
    <3>1. All3(N, o, R, A)
      BY <1>1, <1>3 DEF All3, Single
    <3> QED
      BY <3>1, AssocIs
  <2>2. Sift(w, T) = o \o (R \o A) /\ Sift(w, C) = c
    BY <1>2, <1>8, <1>9, <1>10
  <2>3. Along(Tails(t), Sift(w, C)) = A
    BY <2>2 DEF A
  <2>4. Sift(w, T) = (o \o R) \o A
    BY <2>1, <2>2, Zenon DEF Assoc3
  <2>5. TextRun(t, w) = o \o R
    BY <1>5, <1>10
  <2>6. Sift(w, T) = TextRun(t, w) \o Along(Tails(t), Sift(w, C))
    BY <2>3, <2>4, <2>5, Zenon
  <2> QED
    BY <2>6, Zenon DEF Covers, w, o, T, C
<1>11. CASE ~IsText(t, x)
  <2> DEFINE z == R \o A
  <2>1. Sift(w, T) = z /\ Sift(w, C) = o \o c /\ TextRun(t, w) = <<>>
    BY <1>2, <1>6, <1>8, <1>9, <1>11
  <2>2. Along(Tails(t), o \o c) = z
    <3>1. Along(Tails(t), o \o c) = Along(Tails(t), o) \o Along(Tails(t), c)
      <4>1. o \in Seq(N)
        BY <1>1 DEF Single
      <4>2. Maps(Tails(t), N, Seq(N)) /\ c \in Seq(N)
        BY <1>3, TailsAre
      <4> HIDE DEF c, N
      <4> QED
        BY <4>1, <4>2, AlongJoin
    <3>2. Along(Tails(t), o) = R
      BY <1>7, TailsAre, AlongOne DEF o
    <3> QED
      BY <3>1, <3>2, Zenon DEF A, z
  <2>3. <<>> \o z = z
    <3>1. Two(N, R, A)
      BY <1>3 DEF Two
    <3>2. z \in Seq(N)
      BY <3>1, JoinTwo
    <3> HIDE DEF z
    <3> QED
      BY <3>2, JoinEmpty
  <2>4. Sift(w, T) = TextRun(t, w) \o Along(Tails(t), Sift(w, C))
    BY <2>1, <2>2, <2>3, Zenon
  <2> QED
    BY <2>4, Zenon DEF Covers, w, o, T, C
<1> QED
  BY <1>10, <1>11

LEMMA CoversAll ==
  ASSUME NEW t, IsTree(t), NEW p \in Nodes(t)
  PROVE  Covers(t, t.kids[p])
<1> DEFINE N == Nodes(t)
           G == {u \in Seq(N) : Ends(t, p, u) => Covers(t, u)}
<1>1. <<>> \in G
  <2>1. Sift(<<>>, Texts(t)) = <<>> /\ Sift(<<>>, Contents(t)) = <<>>
    BY SiftEmpty
  <2>2. TextRun(t, <<>>) = <<>> /\ Along(Tails(t), <<>>) = <<>> /\ <<>> \o <<>> = <<>>
    BY RunsEmpty, AlongEmpty, JoinEmpty
  <2>3. Covers(t, <<>>)
    BY <2>1, <2>2, Zenon DEF Covers
  <2> QED
    BY <2>3
<1>2. ASSUME NEW x \in N, NEW u \in Seq(N), u \in G PROVE <<x>> \o u \in G
  <2> DEFINE o == <<x>>
             w == o \o u
  <2>0. Ends(t, p, u) => Covers(t, u)
    BY <1>2
  <2>o. Single(N, o, x)
    BY SingleIs
  <2> HIDE DEF G, o
  <2>1. w \in Seq(N)
    BY <2>o, JoinOne
  <2>2. ASSUME Ends(t, p, w) PROVE Covers(t, w)
    <3>1. PICK a \in Seq(N) : t.kids[p] = a \o w
      BY <2>2 DEF Ends
    <3>2. Following(t, x) = u
      <4>1. Parts(t.kids[p], a, x, u)
        BY <3>1, Zenon DEF Parts, w, o
      <4> QED
        BY <4>1, NeighboursAt
    <3>3. Ends(t, p, u)
      <4>1. All3(N, a, o, u)
        BY <2>o DEF All3, Single
      <4>2. Assoc3(a, o, u)
        BY <4>1, AssocIs
      <4>3. a \o o \in Seq(N)
        BY <4>1, Assoc
      <4>4. t.kids[p] = (a \o o) \o u
        BY <3>1, <4>2, Zenon DEF Assoc3, w
      <4> QED
        BY <4>3, <4>4, Zenon DEF Ends, N
    <3>4. TailTextRun(t, x) = TextRun(t, u)
      BY <3>2, Zenon DEF TailTextRun
    <3>5. Covers(t, u)
      BY <2>0, <3>3
    <3> QED
      BY <3>4, <3>5, CoversNext DEF w, o
  <2> HIDE DEF w
  <2>3. w \in G
    BY <2>1, <2>2 DEF G
  <2> QED
    BY <2>3 DEF w, o
<1> HIDE DEF G
<1>3. Seq(N) \subseteq G
  <2>1. Grows(N, G)
    BY <1>1, <1>2 DEF Grows
  <2> QED
    BY <2>1, PrependInduction
<1>4. Ends(t, p, t.kids[p]) /\ t.kids[p] \in Seq(N)
  <2> DEFINE k == t.kids[p]
  <2>1. k \in Seq(N)
    BY TreeIs
  <2> HIDE DEF k
  <2>2. <<>> \in Seq(N) /\ k = <<>> \o k
    BY <2>1, JoinEmpty
  <2> QED
    BY <2>1, <2>2, Zenon DEF Ends, k
<1> QED
  BY <1>3, <1>4 DEF G


LEMMA TextCovered ==
  ASSUME NEW t, IsTree(t), NEW n \in Nodes(t)
  PROVE  Among(t.kids[n], {c \in Nodes(t) : IsText(t, c)}) =
           LeadingTextRun(t, n) \o
             FlattenSeq(Map(LAMBDA c : TailTextRun(t, c), ContentChildren(t, n)))
<1> DEFINE k == t.kids[n]
           s == ContentChildren(t, n)
           m == FlattenSeq(Map(LAMBDA c : TailTextRun(t, c), s))
<1>1. k \in Seq(Nodes(t))
  BY TreeIs
<1>2. Covers(t, k)
  BY CoversAll
<1> HIDE DEF k
<1>3. Among(k, Texts(t)) = Sift(k, Texts(t)) /\ Among(k, Contents(t)) = Sift(k, Contents(t))
  BY <1>1, AmongSifts
<1>4. s = Sift(k, Contents(t))
  BY <1>3 DEF ContentChildren, Contents, k
<1>5. s \in Seq(Nodes(t))
  BY <1>1, <1>4, SiftIs
<1> HIDE DEF s
<1>6. m = Along(Tails(t), s)
  <2>1. \A i \in 1..Len(s) : s[i] \in Nodes(t)
    BY <1>5
  <2>2. Each(Tails(t), s) = [i \in 1 .. Len(s) |-> TailTextRun(t, s[i])]
    BY <2>1 DEF Each, Tails
  <2>3. Map(LAMBDA c : TailTextRun(t, c), s) = [i \in 1 .. Len(s) |-> TailTextRun(t, s[i])]
    BY Zenon DEF Map
  <2> QED
    BY <2>2, <2>3, Zenon DEF Along
<1>7. LeadingTextRun(t, n) = TextRun(t, k)
  BY DEF LeadingTextRun, k
<1> HIDE DEF m
<1>8. Among(k, Texts(t)) = LeadingTextRun(t, n) \o m
  BY <1>2, <1>3, <1>4, <1>6, <1>7, Zenon DEF Covers
<1> QED
  BY <1>8, Zenon DEF k, m, s, Texts

-----------------------------------------------------------------------------
(* Siblings.                                                               *)

LEMMA SiftDistinct ==
  ASSUME NEW X, NEW s \in Seq(X), Distinct(s), NEW K
  PROVE  Distinct(Sift(s, K))
<1> DEFINE S == ToSet(s) \ K
           u == NotIn(s, S)
<1>1. u = Sift(s, K)
  <2>1. \A x \in ToSet(s) : x \in K <=> x \notin S
    OBVIOUS
  <2> HIDE DEF S
  <2> QED
    BY <2>1, NotInSifts
<1> HIDE DEF S
<1>2. PICK g : Spares(s, S, u, g)
  BY NotInIs
<1>3. u \in Seq(X)
  BY NotInIs
<1> HIDE DEF u
<1>4. DOMAIN u \subseteq Nat
  BY <1>3
<1>5. /\ g \in [DOMAIN u -> DOMAIN s]
      /\ \A j \in DOMAIN u : u[j] = s[g[j]]
      /\ \A i, j \in DOMAIN u : i < j => g[i] < g[j]
  BY <1>2 DEF Spares, Thinned
<1>6. DOMAIN s \subseteq Nat
  OBVIOUS
<1>7. ASSUME NEW i \in DOMAIN u, NEW j \in DOMAIN u, u[i] = u[j] PROVE i = j
  <2>1. g[i] \in DOMAIN s /\ g[j] \in DOMAIN s /\ s[g[i]] = s[g[j]]
    BY <1>5, <1>7
  <2>2. g[i] = g[j] /\ g[i] \in Nat /\ g[j] \in Nat
    BY <1>6, <2>1 DEF Distinct
  <2>3. ~(i < j) /\ ~(j < i)
    BY <1>5, <2>2
  <2> QED
    BY <1>4, <2>3
<1> QED
  BY <1>1, <1>7 DEF Distinct

LEMMA SiftReverse ==
  ASSUME NEW X, NEW s \in Seq(X), NEW K
  PROVE  Sift(Reverse(s), K) = Reverse(Sift(s, K))
<1> DEFINE Is(u) == Sift(Reverse(u), K) = Reverse(Sift(u, K))
           G == {u \in Seq(X) : Is(u)}
<1>1. <<>> \in G
  <2>1. Reverse(<<>>) = <<>> /\ Sift(<<>>, K) = <<>>
    BY ReverseEmpty, SiftEmpty
  <2>2. Is(<<>>)
    BY <2>1, Zenon
  <2> QED
    BY <2>2
<1>2. ASSUME NEW u \in Seq(X), NEW x \in X, u \in G PROVE u \o <<x>> \in G
  <2> DEFINE o == <<x>>
             w == u \o o
             r == Reverse(u)
             v == Sift(u, K)
  <2>0. Sift(r, K) = Reverse(v)
    BY <1>2
  <2> HIDE DEF G
  <2>1. o \in Seq(X) /\ Reverse(o) = o /\ Single(X, o, x)
    BY ReverseOne, SingleIs DEF Single
  <2>2. OneMore(X, o, x, r)
    <3>1. r \in Seq(X)
      BY ReverseIs
    <3> QED
      BY <2>1, <3>1 DEF OneMore
  <2>3. Sift(w, K) = IF x \in K THEN v \o o ELSE v
    BY SiftAppend
  <2> HIDE DEF o
  <2>4. Reverse(w) = o \o r /\ w \in Seq(X)
    <3>1. Two(X, u, o)
      BY <2>1 DEF Two
    <3>2. w \in Seq(X)
      BY <3>1, JoinTwo
    <3>3. Reverse(w) = Reverse(o) \o r
      BY <2>1, ReverseJoin
    <3> QED
      BY <2>1, <3>2, <3>3
  <2>5. (x \in K => Sift(o \o r, K) = o \o Sift(r, K)) /\ (x \notin K => Sift(o \o r, K) = Sift(r, K))
    <3> HIDE DEF r
    <3> QED
      BY <2>2, SiftFirst
  <2>6. Is(w)
    <3>1. v \in Seq(X)
      BY SiftIs
    <3> HIDE DEF v, w, r
    <3>2. CASE x \in K
      <4>1. Sift(w, K) = v \o o
        BY <2>3, <3>2
      <4>2. Reverse(v \o o) = o \o Reverse(v)
        <5>1. Reverse(v \o o) = Reverse(o) \o Reverse(v)
          BY <2>1, <3>1, ReverseJoin
        <5> QED
          BY <2>1, <5>1
      <4>3. Sift(o \o r, K) = o \o Sift(r, K)
        BY <2>5, <3>2
      <4> QED
        BY <2>0, <2>4, <4>1, <4>2, <4>3, Zenon
    <3>3. CASE x \notin K
      <4>1. Sift(w, K) = v
        BY <2>3, <3>3
      <4>2. Sift(o \o r, K) = Sift(r, K)
        BY <2>5, <3>3
      <4> QED
        BY <2>0, <2>4, <4>1, <4>2, Zenon
    <3> QED
      BY <3>2, <3>3
  <2> HIDE DEF Is, w
  <2>7. w \in G
    BY <2>4, <2>6 DEF G
  <2> QED
    BY <2>7 DEF w, o
<1> HIDE DEF G
<1>3. Seq(X) \subseteq G
  BY <1>1, <1>2, AppendInduction
<1> QED
  BY <1>3 DEF G


(* The entry at place i of s, with what comes before and after it.         *)
Around(X, s, i, a, x, b) ==
  /\ a \in Seq(X) /\ b \in Seq(X) /\ x \in X
  /\ i = Len(a) + 1 /\ Len(s) = i + Len(b)
  /\ \A j \in 1..Len(a) : s[j] = a[j]
  /\ \A j \in 1..Len(b) : s[i + j] = b[j]

(* A sifted list around one of its entries is the sifted parts of the list *)
(* around that entry.                                                      *)
LEMMA SiftAround ==
  ASSUME NEW X, NEW s \in Seq(X), Distinct(s), NEW K, NEW i \in DOMAIN Sift(s, K)
  PROVE  \E x \in X, a, b \in Seq(X) :
           /\ Parts(s, a, x, b) /\ x = Sift(s, K)[i]
           /\ Around(X, Sift(s, K), i, Sift(a, K), x, Sift(b, K))
<1> DEFINE u == Sift(s, K)
           x == u[i]
<1>1. u \in Seq(X) /\ ToSet(u) = ToSet(s) \cap K /\ Distinct(u)
  BY SiftIs, SiftRange, SiftDistinct
<1>2. i \in DOMAIN u
  OBVIOUS
<1>3. x \in X /\ x \in ToSet(s) /\ x \in K
  <2> HIDE DEF u
  <2>1. x \in X /\ x \in ToSet(u)
    BY <1>1, <1>2, Ranged
  <2> QED
    BY <1>1, <2>1
<1> HIDE DEF u, x
<1>4. PICK a \in Seq(X), b \in Seq(X) : Parts(s, a, x, b)
  BY <1>3, SplitAround
<1> DEFINE A == Sift(a, K)
           B == Sift(b, K)
           o == <<x>>
           c == o \o b
<1>5. A \in Seq(X) /\ B \in Seq(X)
  BY SiftIs
<1>6. OneMore(X, o, x, b) /\ Single(X, o, x)
  BY <1>3, OneMoreIs, SingleIs
<1>7. Sift(c, K) = o \o B
  <2> HIDE DEF o
  <2> QED
    BY <1>3, <1>6, SiftFirst
<1>8. Two(X, a, c)
  <2> HIDE DEF o
  <2>1. c \in Seq(X)
    BY <1>6, JoinOne
  <2> HIDE DEF c
  <2> QED
    BY <2>1 DEF Two
<1>9. u = A \o (o \o B)
  <2>1. s = a \o c
    BY <1>4 DEF Parts
  <2> HIDE DEF c, o
  <2>2. Sift(a \o c, K) = Sift(a, K) \o Sift(c, K)
    BY <1>8, SiftTwo
  <2> QED
    BY <1>7, <2>1, <2>2, Zenon DEF u, A
<1>10. Parts(u, A, x, B)
  BY <1>9, Zenon DEF Parts, o
<1> HIDE DEF A, B
<1>11. /\ Len(A) \in Nat /\ Len(B) \in Nat
       /\ Len(u) = Len(A) + 1 + Len(B)
       /\ DOMAIN u = 1..(Len(A) + 1 + Len(B))
       /\ \A j \in 1..Len(A) : u[j] = A[j]
       /\ u[Len(A) + 1] = x
       /\ \A j \in 1..Len(B) : u[Len(A) + 1 + j] = B[j]
  BY <1>3, <1>5, <1>10, PartsAre
<1>12. i = Len(A) + 1
  <2>1. Len(A) + 1 \in DOMAIN u /\ u[Len(A) + 1] = u[i]
    BY <1>11 DEF x
  <2> QED
    BY <1>1, <1>2, <2>1 DEF Distinct
<1>13. Around(X, u, i, A, x, B)
  BY <1>3, <1>5, <1>11, <1>12 DEF Around
<1> QED
  BY <1>3, <1>4, <1>13 DEF A, B, u, x

(* getnext and getprevious walk the children that are not text.            *)
LEMMA SiblingsAre ==
  ASSUME NEW t, IsTree(t), NEW n \in Nodes(t), NEW i \in DOMAIN ContentChildren(t, n)
  PROVE  LET children == ContentChildren(t, n) IN
           /\ SiblingProxy(t, children[i], TRUE) =
                (IF i = Len(children) THEN NoNode ELSE children[i + 1])
           /\ SiblingProxy(t, children[i], FALSE) =
                (IF i = 1 THEN NoNode ELSE children[i - 1])
<1> DEFINE N == Nodes(t)
           C == Contents(t)
           k == t.kids[n]
           s == ContentChildren(t, n)
<1>1. k \in Seq(N) /\ Distinct(k)
  BY TreeIs, OnePlace DEF Distinct
<1>2. s = Sift(k, C)
  <2> HIDE DEF k
  <2>1. Among(k, C) = Sift(k, C)
    BY <1>1, AmongSifts
  <2> QED
    BY <2>1 DEF ContentChildren, Contents, k
<1>3. i \in DOMAIN s
  OBVIOUS
<1> HIDE DEF s
<1>4. PICK x \in N, a \in Seq(N), b \in Seq(N) :
        Parts(k, a, x, b) /\ x = s[i] /\ Around(N, s, i, Sift(a, C), x, Sift(b, C))
  <2> HIDE DEF k, C, N
  <2> QED
    BY <1>1, <1>2, <1>3, SiftAround
<1> DEFINE A == Sift(a, C)
           B == Sift(b, C)
           R == Reverse(A)
<1>5. Following(t, x) = b /\ Preceding(t, x) = Reverse(a)
  BY <1>4, NeighboursAt DEF k
<1>6. FirstContent(t, b) = IF B = <<>> THEN NoNode ELSE B[1]
  BY FirstContentIs
<1>7. FirstContent(t, Reverse(a)) = IF R = <<>> THEN NoNode ELSE R[1]
  <2>1. Reverse(a) \in Seq(N)
    BY ReverseIs
  <2>2. Sift(Reverse(a), C) = R
    <3> HIDE DEF C, N
    <3> QED
      BY SiftReverse
  <2> HIDE DEF R
  <2> QED
    BY <2>1, <2>2, FirstContentIs
<1>8. A \in Seq(N) /\ B \in Seq(N)
  BY <1>4 DEF Around
<1>9. R \in Seq(N) /\ Len(R) = Len(A) /\ \A j \in 1..Len(A) : R[j] = A[Len(A) - j + 1]
  <2> HIDE DEF A
  <2> QED
    BY <1>8, ReverseIs
<1>10. SiblingProxy(t, x, TRUE) = FirstContent(t, b)
       /\ SiblingProxy(t, x, FALSE) = FirstContent(t, Reverse(a))
  BY <1>5 DEF SiblingProxy
<1>11. Around(N, s, i, A, x, B) /\ x = s[i]
  BY <1>4
<1> HIDE DEF A, B, R, N, C, k
<1>12. SiblingProxy(t, s[i], TRUE) = (IF i = Len(s) THEN NoNode ELSE s[i + 1])
  <2>1. CASE B = <<>>
    <3>1. i = Len(s)
      BY <1>8, <1>11, <2>1 DEF Around
    <3> QED
      BY <1>6, <1>10, <1>11, <2>1, <3>1
  <2>2. CASE B # <<>>
    <3>1. Len(B) \in Nat /\ Len(B) >= 1 /\ 1 \in 1..Len(B)
      BY <1>8, <2>2
    <3>2. i # Len(s) /\ s[i + 1] = B[1]
      BY <1>8, <1>11, <3>1 DEF Around
    <3> QED
      BY <1>6, <1>10, <1>11, <2>2, <3>2
  <2> QED
    BY <2>1, <2>2
<1>13. SiblingProxy(t, s[i], FALSE) = (IF i = 1 THEN NoNode ELSE s[i - 1])
  <2>0. Len(A) \in Nat /\ i = Len(A) + 1 /\ \A j \in 1..Len(A) : s[j] = A[j]
    BY <1>8, <1>11 DEF Around
  <2>1. CASE A = <<>>
    <3>1. i = 1 /\ Len(R) = 0
      BY <1>9, <2>0, <2>1
    <3>2. R = <<>>
      BY <1>9, <3>1
    <3> QED
      BY <1>7, <1>10, <1>11, <3>1, <3>2
  <2>2. CASE A # <<>>
    <3>1. Len(A) >= 1
      BY <1>8, <2>2
    <3>2. i # 1 /\ i - 1 = Len(A) /\ Len(A) \in 1..Len(A) /\ 1 \in 1..Len(A) /\ Len(A) - 1 + 1 = Len(A)
      BY <2>0, <3>1
    <3>3. R[1] = A[Len(A)] /\ s[i - 1] = A[Len(A)]
      BY <1>9, <2>0, <3>2
    <3>4. R # <<>>
      BY <1>9, <3>1
    <3> QED
      BY <1>7, <1>10, <1>11, <3>2, <3>3, <3>4
  <2> QED
    BY <2>1, <2>2
<1> QED
  BY <1>12, <1>13 DEF s

LEMMA RunsCover ==
  ASSUME WalkInv
  PROVE  RunsCoverTheText
<1> SUFFICES ASSUME Settled, NEW n \in Nodes(tree)
             PROVE  LET children == ContentChildren(tree, n) IN
                      /\ Among(tree.kids[n], {c \in Nodes(tree) : IsText(tree, c)}) =
                           LeadingTextRun(tree, n)
                             \o FlattenSeq(Map(LAMBDA c : TailTextRun(tree, c), children))
                      /\ \A i \in DOMAIN children :
                           /\ SiblingProxy(tree, children[i], TRUE) =
                                (IF i = Len(children) THEN NoNode ELSE children[i + 1])
                           /\ SiblingProxy(tree, children[i], FALSE) =
                                (IF i = 1 THEN NoNode ELSE children[i - 1])
  BY DEF RunsCoverTheText
<1>1. IsTree(tree)
  BY SettledTree
<1>2. Among(tree.kids[n], {c \in Nodes(tree) : IsText(tree, c)}) =
        LeadingTextRun(tree, n)
          \o FlattenSeq(Map(LAMBDA c : TailTextRun(tree, c), ContentChildren(tree, n)))
  BY <1>1, TextCovered
<1>3. \A i \in DOMAIN ContentChildren(tree, n) :
        /\ SiblingProxy(tree, ContentChildren(tree, n)[i], TRUE) =
             (IF i = Len(ContentChildren(tree, n)) THEN NoNode ELSE ContentChildren(tree, n)[i + 1])
        /\ SiblingProxy(tree, ContentChildren(tree, n)[i], FALSE) =
             (IF i = 1 THEN NoNode ELSE ContentChildren(tree, n)[i - 1])
  BY <1>1, SiblingsAre
<1> QED
  BY <1>2, <1>3


-----------------------------------------------------------------------------
(* Grouped scans.                                                          *)

Extends(N, u, x, w) == u \in Seq(N) /\ x \in N /\ w = u \o <<x>> /\ w \in Seq(N)

Appends(X, a, b, c) == a \in Seq(X) /\ b \in Seq(X) /\ c = a \o b

LEMMA ExtendsIs ==
  ASSUME NEW N, NEW u \in Seq(N), NEW x \in N
  PROVE  Extends(N, u, x, u \o <<x>>)
<1>1. Two(N, u, <<x>>)
  BY SingleIs DEF Single, Two
<1>2. u \o <<x>> \in Seq(N)
  <2> DEFINE o == <<x>>
  <2>1. Two(N, u, o)
    BY <1>1
  <2> HIDE DEF o
  <2>2. u \o o \in Seq(N)
    BY <2>1, JoinTwo
  <2> QED
    BY <2>2 DEF o
<1>3. u \in Seq(N) /\ x \in N
  OBVIOUS
<1> QED
  BY <1>2, <1>3, Zenon DEF Extends

LEMMA ExtendsLen ==
  ASSUME NEW N, NEW u, NEW x, NEW w, Extends(N, u, x, w)
  PROVE  Len(w) = Len(u) + 1 /\ Len(u) \in Nat
<1> DEFINE o == <<x>>
<1>1. Two(N, u, o)
  BY SingleIs DEF Single, Two, Extends
<1>2. Len(o) = 1
  BY OneIs
<1>3. w = u \o o
  BY DEF Extends
<1> HIDE DEF o
<1>4. Len(u \o o) = Len(u) + Len(o) /\ Len(u) \in Nat
  BY <1>1, JoinTwo
<1> QED
  BY <1>2, <1>3, <1>4

LEMMA AlongMore ==
  ASSUME NEW N, NEW X, NEW f, Maps(f, N, Seq(X)), NEW u, NEW x, NEW w, Extends(N, u, x, w)
  PROVE  Appends(X, Along(f, u), f[x], Along(f, w))
<1> DEFINE o == <<x>>
<1>0. u \in Seq(N) /\ x \in N
  BY DEF Extends
<1>1. Along(f, u) \in Seq(X)
  BY <1>0, AlongIs
<1>2. f[x] \in Seq(X)
  BY <1>0 DEF Maps
<1>3. o \in Seq(N)
  BY <1>0, SingleIs DEF Single
<1>4. Along(f, o) = f[x]
  BY <1>0, AlongOne
<1>5. w = u \o o
  BY DEF Extends
<1> HIDE DEF o
<1>6. Along(f, u \o o) = Along(f, u) \o Along(f, o)
  BY <1>0, <1>3, AlongJoin
<1>7. Along(f, w) = Along(f, u) \o f[x]
  BY <1>4, <1>5, <1>6, Zenon
<1> QED
  BY <1>1, <1>2, <1>7, Zenon DEF Appends

LEMMA EachMore ==
  ASSUME NEW N, NEW X, NEW f, Maps(f, N, X), NEW a, NEW b, NEW c, Appends(N, a, b, c)
  PROVE  Each(f, c) = Each(f, a) \o Each(f, b)
<1>1. a \in Seq(N) /\ b \in Seq(N) /\ c = a \o b
  BY DEF Appends
<1>2. Each(f, a \o b) = Each(f, a) \o Each(f, b)
  BY <1>1, EachJoin
<1> QED
  BY <1>1, <1>2, Zenon

ReadOff(N, f, h, k) == \A m \in N : k[m] = Each(h, f[m])

(* What is read off the entries of lists put together is what is read off  *)
(* the lists.                                                              *)
LEMMA EachAlong ==
  ASSUME NEW N, NEW Y, NEW X, NEW f, Maps(f, N, Seq(Y)), NEW h, Maps(h, Y, X),
         NEW k, Maps(k, N, Seq(X)), ReadOff(N, f, h, k), NEW s \in Seq(N)
  PROVE  Each(h, Along(f, s)) = Along(k, s)
<1> DEFINE G == {u \in Seq(N) : Each(h, Along(f, u)) = Along(k, u)}
<1>1. <<>> \in G
  <2>1. Along(f, <<>>) = <<>> /\ Along(k, <<>>) = <<>> /\ Each(h, <<>>) = <<>>
    BY AlongEmpty, EachEmpty
  <2>2. Each(h, Along(f, <<>>)) = Along(k, <<>>)
    BY <2>1, Zenon
  <2> QED
    BY <2>2
<1>2. ASSUME NEW u \in Seq(N), NEW x \in N, u \in G PROVE u \o <<x>> \in G
  <2> DEFINE w == u \o <<x>>
  <2>1. Each(h, Along(f, u)) = Along(k, u)
    BY <1>2
  <2>2. k[x] = Each(h, f[x])
    BY DEF ReadOff
  <2> HIDE DEF G
  <2>3. Extends(N, u, x, w)
    BY ExtendsIs
  <2> HIDE DEF w
  <2>4. Appends(Y, Along(f, u), f[x], Along(f, w))
    BY <2>3, AlongMore
  <2>5. Appends(X, Along(k, u), k[x], Along(k, w))
    BY <2>3, AlongMore
  <2>6. Each(h, Along(f, w)) = Each(h, Along(f, u)) \o Each(h, f[x])
    BY <2>4, EachMore
  <2>7. Each(h, Along(f, w)) = Along(k, w)
    BY <2>1, <2>2, <2>5, <2>6, Zenon DEF Appends
  <2>8. w \in G
    BY <2>3, <2>7 DEF G, Extends
  <2> QED
    BY <2>8 DEF w
<1> HIDE DEF G
<1>3. Seq(N) \subseteq G
  BY <1>1, <1>2, AppendInduction
<1> QED
  BY <1>3 DEF G

(* Lists that name x once or not at all name it, put together, as often as *)
(* there are lists that name it.                                           *)
LEMMA AlongOften ==
  ASSUME NEW N, NEW X, NEW k, Maps(k, N, Seq(X)), \A m \in N : Once(k[m]), NEW x,
         NEW A, \A m \in N : m \in A <=> x \in ToSet(k[m]), NEW s \in Seq(N)
  PROVE  HowOften(Along(k, s), x) = Len(Sift(s, A))
<1> DEFINE G == {u \in Seq(N) : HowOften(Along(k, u), x) = Len(Sift(u, A))}
<1>1. <<>> \in G
  <2>1. Along(k, <<>>) = <<>> /\ HowOften(<<>>, x) = 0 /\ Sift(<<>>, A) = <<>> /\ Len(<<>>) = 0
    BY AlongEmpty, HowOftenEmpty, SiftEmpty, EmptyIs
  <2>2. HowOften(Along(k, <<>>), x) = Len(Sift(<<>>, A))
    BY <2>1, Zenon
  <2> QED
    BY <2>2
<1>2. ASSUME NEW u \in Seq(N), NEW y \in N, u \in G PROVE u \o <<y>> \in G
  <2> DEFINE w == u \o <<y>>
             a == Along(k, u)
             b == k[y]
             v == Sift(u, A)
             l == v \o <<y>>
  <2>0. HowOften(a, x) = Len(v)
    BY <1>2
  <2> HIDE DEF G
  <2>1. Extends(N, u, y, w)
    BY ExtendsIs
  <2>2. v \in Seq(N)
    BY SiftIs
  <2>3. Sift(w, A) = IF y \in A THEN l ELSE v
    BY SiftAppend
  <2> HIDE DEF w
  <2>4. Appends(X, a, b, Along(k, w))
    BY <2>1, AlongMore
  <2>5. a \in Seq(X) /\ b \in Seq(X)
    BY <2>4 DEF Appends
  <2>7. Once(b) /\ (y \in A <=> x \in ToSet(b))
    OBVIOUS
  <2> HIDE DEF a, b, v
  <2>8. HowOften(Along(k, w), x) = HowOften(a, x) + HowOften(b, x)
    <3>1. Two(X, a, b)
      BY <2>5 DEF Two
    <3>2. HowOften(a \o b, x) = HowOften(a, x) + HowOften(b, x)
      BY <3>1, HowOftenJoin
    <3> QED
      BY <2>4, <3>2, Zenon DEF Appends
  <2>9. HowOften(b, x) = IF y \in A THEN 1 ELSE 0
    <3>1. HowOften(b, x) \in Nat /\ (x \in ToSet(b) <=> HowOften(b, x) # 0)
      BY <2>5, HowOftenIs
    <3>2. HowOften(b, x) <= 1
      BY <2>7 DEF Once
    <3> QED
      BY <2>7, <3>1, <3>2
  <2>10. Len(l) = Len(v) + 1 /\ Len(v) \in Nat
    <3>1. Extends(N, v, y, l)
      BY <2>2, ExtendsIs
    <3> HIDE DEF l
    <3> QED
      BY <3>1, ExtendsLen
  <2> HIDE DEF l
  <2>11. HowOften(Along(k, w), x) = Len(Sift(w, A))
    <3>1. HowOften(Along(k, w), x) = Len(v) + HowOften(b, x)
      BY <2>0, <2>8
    <3>2. CASE y \in A
      BY <2>3, <2>9, <2>10, <3>1, <3>2
    <3>3. CASE y \notin A
      BY <2>3, <2>9, <2>10, <3>1, <3>3
    <3> QED
      BY <3>2, <3>3
  <2>12. w \in G
    BY <2>1, <2>11 DEF G, Extends
  <2> QED
    BY <2>12 DEF w
<1> HIDE DEF G
<1>3. Seq(N) \subseteq G
  BY <1>1, <1>2, AppendInduction
<1> QED
  BY <1>3 DEF G


(* A list that names everything once at most has as many entries as there  *)
(* are things it names.                                                    *)
LEMMA OnceCounts ==
  ASSUME NEW X, NEW s \in Seq(X), Once(s)
  PROVE  IsFiniteSet(ToSet(s)) /\ Cardinality(ToSet(s)) = Len(s)
<1> DEFINE Is(u) == Once(u) => IsFiniteSet(ToSet(u)) /\ Cardinality(ToSet(u)) = Len(u)
           G == {u \in Seq(X) : Is(u)}
<1>1. <<>> \in G
  <2>1. ToSet(<<>>) = {} /\ Len(<<>>) = 0 /\ <<>> \in Seq(X)
    BY EmptyIs
  <2>2. IsFiniteSet({}) /\ Cardinality({}) = 0
    BY FS_EmptySet
  <2>3. Is(<<>>)
    BY <2>1, <2>2, Zenon
  <2> HIDE DEF Is
  <2> QED
    BY <2>1, <2>3
<1>2. ASSUME NEW u \in Seq(X), NEW x \in X, u \in G PROVE u \o <<x>> \in G
  <2> DEFINE o == <<x>>
             w == u \o o
             S == ToSet(u)
  <2>0. Is(u)
    BY <1>2
  <2> HIDE DEF G
  <2>1. Two(X, u, o) /\ Len(o) = 1
    BY SingleIs DEF Single, Two
  <2>2. ToSet(o) = {x} /\ \A y : HowOften(o, y) = IF x = y THEN 1 ELSE 0
    BY OneRange, HowOftenOne
  <2> HIDE DEF o
  <2>3. w \in Seq(X) /\ Len(w) = Len(u) + 1 /\ ToSet(w) = S \cup {x}
    <3>1. w \in Seq(X) /\ Len(w) = Len(u) + Len(o) /\ ToSet(w) = ToSet(u) \cup ToSet(o)
      BY <2>1, JoinTwo
    <3> QED
      BY <2>1, <2>2, <3>1
  <2>4. ASSUME NEW y PROVE HowOften(w, y) = HowOften(u, y) + HowOften(o, y)
    BY <2>1, HowOftenJoin
  <2>5. ASSUME NEW y PROVE HowOften(u, y) \in Nat /\ (y \in S <=> HowOften(u, y) # 0)
    BY HowOftenIs
  <2> HIDE DEF w, S
  <2>6. ASSUME Once(w) PROVE IsFiniteSet(ToSet(w)) /\ Cardinality(ToSet(w)) = Len(w)
    <3>1. ASSUME NEW y PROVE HowOften(u, y) <= 1
      <4>1. HowOften(w, y) <= 1
        BY <2>6 DEF Once
      <4>2. HowOften(o, y) = 0 \/ HowOften(o, y) = 1
        BY <2>2
      <4> QED
        BY <2>4, <2>5, <4>1, <4>2
    <3>2. x \notin S
      <4>1. HowOften(w, x) <= 1
        BY <2>6 DEF Once
      <4>2. HowOften(o, x) = 1
        BY <2>2
      <4>3. HowOften(u, x) = 0
        BY <2>4, <2>5, <4>1, <4>2
      <4> QED
        BY <2>5, <4>3
    <3>3. IsFiniteSet(S) /\ Cardinality(S) = Len(u)
      BY <2>0, <3>1 DEF Once, S
    <3>4. IsFiniteSet(S \cup {x}) /\ Cardinality(S \cup {x}) = Cardinality(S) + 1
      BY <3>2, <3>3, FS_AddElement
    <3> QED
      BY <2>3, <3>3, <3>4
  <2>7. Is(w)
    BY <2>6
  <2> HIDE DEF Is
  <2>8. w \in G
    BY <2>3, <2>7 DEF G
  <2> QED
    BY <2>8 DEF w, o
<1> HIDE DEF G
<1>3. Seq(X) \subseteq G
  BY <1>1, <1>2, AppendInduction
<1> QED
  BY <1>3 DEF G

LEMMA SiftOnce ==
  ASSUME NEW X, NEW s \in Seq(X), Once(s), NEW K
  PROVE  Once(Sift(s, K))
<1> SUFFICES ASSUME NEW x PROVE HowOften(Sift(s, K), x) <= 1
  BY DEF Once
<1> DEFINE M == {x} \cap K
           u == Sift(s, {x})
<1>1. Sift(Sift(s, K), {x}) = Sift(s, M)
  <2>1. \A y \in ToSet(s) : y \in M <=> y \in K /\ y \in {x}
    OBVIOUS
  <2> HIDE DEF M
  <2> QED
    BY <2>1, SiftTwice
<1>2. Sift(u, K) = Sift(s, M)
  <2>1. \A y \in ToSet(s) : y \in M <=> y \in {x} /\ y \in K
    OBVIOUS
  <2> HIDE DEF M
  <2> QED
    BY <2>1, SiftTwice
<1>3. u \in Seq(X) /\ Len(u) <= 1
  BY SiftIs DEF Once, HowOften
<1> HIDE DEF u, M
<1>4. Len(Sift(u, K)) \in Nat /\ Len(Sift(u, K)) <= Len(u) /\ Len(u) \in Nat
  BY <1>3, SiftShorter
<1> QED
  BY <1>1, <1>2, <1>3, <1>4 DEF HowOften

(* A scan lists the matches of a subtree, each once.                       *)
LEMMA ScanHas ==
  ASSUME NEW t, IsTree(t), NEW filter, NEW n \in Nodes(t)
  PROVE  /\ Scan(t, n, filter) \in Seq(Nodes(t)) /\ Once(Scan(t, n, filter))
         /\ ToSet(Scan(t, n, filter)) = Subtree(t, n) \cap Found(t, filter)
<1> DEFINE P == PreOrder(t, n)
<1>1. P \in Seq(Nodes(t)) /\ Once(P)
  BY PreOrderSeq, PreOrderOnce
<1>2. Scan(t, n, filter) = Sift(P, Found(t, filter)) /\ Subtree(t, n) = ToSet(P)
  BY ScanIs DEF Subtree
<1> HIDE DEF P
<1> QED
  BY <1>1, <1>2, SiftIs, SiftRange, SiftOnce


(* What a grouped scan reports of an item.                                 *)
Row(t, value, i) == <<i, t.attr[i], LeadingTexts(t, i, value)>>

Rows(t, value) == {Row(t, value, i) : i \in Nodes(t)}

ItemOf(t, value) == [y \in Rows(t, value) |-> y[1]]

(* The scans of all nodes, and what is reported of them.                   *)
ScansOf(t, item) == [m \in Nodes(t) |-> Scan(t, m, item)]

ReportOf(t, item, value, m) ==
  [j \in 1 .. Len(Scan(t, m, item)) |-> Row(t, value, Scan(t, m, item)[j])]

ReportsOf(t, item, value) == [m \in Nodes(t) |-> ReportOf(t, item, value, m)]

LEMMA RowIs ==
  ASSUME NEW t, NEW value, NEW i \in Nodes(t)
  PROVE  Row(t, value, i) \in Rows(t, value) /\ ItemOf(t, value)[Row(t, value, i)] = i
<1> DEFINE r == Row(t, value, i)
<1>1. r \in Rows(t, value)
  BY DEF Rows
<1>2. r[1] = i
  BY DEF Row
<1> HIDE DEF r
<1>3. ItemOf(t, value)[r] = r[1]
  BY <1>1 DEF ItemOf
<1> QED
  BY <1>1, <1>2, <1>3 DEF r

LEMMA RowsAre ==
  ASSUME NEW t, IsTree(t), NEW item, NEW value
  PROVE  /\ Maps(ReportsOf(t, item, value), Nodes(t), Seq(Rows(t, value)))
         /\ Maps(ItemOf(t, value), Rows(t, value), Nodes(t))
         /\ Maps(ScansOf(t, item), Nodes(t), Seq(Nodes(t)))
         /\ ReadOff(Nodes(t), ReportsOf(t, item, value), ItemOf(t, value), ScansOf(t, item))
<1> DEFINE N == Nodes(t)
           Y == Rows(t, value)
<1>1. ASSUME NEW m \in N
      PROVE  /\ Scan(t, m, item) \in Seq(N)
             /\ ReportOf(t, item, value, m) \in Seq(Y)
             /\ Scan(t, m, item) = Each(ItemOf(t, value), ReportOf(t, item, value, m))
  <2> DEFINE s == Scan(t, m, item)
             q == ReportOf(t, item, value, m)
  <2>1. s \in Seq(N)
    BY ScanHas
  <2>2. q = [j \in 1 .. Len(s) |-> Row(t, value, s[j])]
    BY DEF ReportOf
  <2> HIDE DEF s, q
  <2>3. Len(s) \in Nat /\ \A j \in 1..Len(s) : s[j] \in N
    BY <2>1
  <2>4. \A j \in 1..Len(s) : Row(t, value, s[j]) \in Y /\ ItemOf(t, value)[Row(t, value, s[j])] = s[j]
    BY <2>3, RowIs
  <2> HIDE DEF Y
  <2>5. q \in Seq(Y) /\ Len(q) = Len(s) /\ \A j \in 1..Len(s) : q[j] = Row(t, value, s[j])
    BY <2>2, <2>3, <2>4
  <2>6. Each(ItemOf(t, value), q) = [j \in 1 .. Len(s) |-> s[j]]
    BY <2>4, <2>5 DEF Each
  <2>7. s = [j \in 1 .. Len(s) |-> s[j]]
    BY <2>1
  <2> QED
    BY <2>1, <2>5, <2>6, <2>7 DEF s, q
<1>2. Maps(ReportsOf(t, item, value), N, Seq(Y))
  BY <1>1 DEF Maps, ReportsOf
<1>3. Maps(ScansOf(t, item), N, Seq(N))
  BY <1>1 DEF Maps, ScansOf
<1>4. Maps(ItemOf(t, value), Y, N)
  <2>1. ASSUME NEW y \in Y PROVE y[1] \in N
    <3>1. PICK i \in N : y = Row(t, value, i)
      BY DEF Rows
    <3> QED
      BY <3>1 DEF Row
  <2> QED
    BY <2>1 DEF Maps, ItemOf
<1>5. \A m \in N : ScansOf(t, item)[m] = Each(ItemOf(t, value), ReportsOf(t, item, value)[m])
  BY <1>1 DEF ScansOf, ReportsOf
<1> QED
  BY <1>2, <1>3, <1>4, <1>5 DEF ReadOff

(* The items of a grouped scan are those of the scans of its groups.       *)
LEMMA ItemsAre ==
  ASSUME NEW t, IsTree(t), NEW r \in Nodes(t), NEW group, NEW item, NEW value
  PROVE  Map(LAMBDA y : y[1], FastCollectGroupedText(t, r, group, item, value)) =
           Along(ScansOf(t, item), Scan(t, r, group))
<1> DEFINE N == Nodes(t)
           g == Scan(t, r, group)
           f == ReportsOf(t, item, value)
           h == ItemOf(t, value)
           k == ScansOf(t, item)
           Y == Rows(t, value)
           a == FastCollectGroupedText(t, r, group, item, value)
<1>1. g \in Seq(N)
  BY ScanHas
<1>2. a = FlattenSeq([i \in 1 .. Len(g) |-> ReportOf(t, item, value, g[i])])
  BY Zenon DEF FastCollectGroupedText, Map, ReportOf, Row
<1> HIDE DEF g
<1>3. [i \in 1 .. Len(g) |-> ReportOf(t, item, value, g[i])] = Each(f, g)
  <2>1. \A i \in 1..Len(g) : g[i] \in N
    BY <1>1
  <2> QED
    BY <2>1 DEF Each, ReportsOf
<1>4. a = Along(f, g)
  BY <1>2, <1>3, Zenon DEF Along
<1> HIDE DEF a
<1>5. Maps(f, N, Seq(Y)) /\ Maps(h, Y, N) /\ Maps(k, N, Seq(N)) /\ ReadOff(N, f, h, k)
  BY RowsAre
<1> HIDE DEF f, h, k, Y
<1>6. Each(h, Along(f, g)) = Along(k, g) /\ Along(f, g) \in Seq(Y)
  <2> HIDE DEF N
  <2>1. Each(h, Along(f, g)) = Along(k, g)
    BY <1>1, <1>5, EachAlong
  <2>2. Along(f, g) \in Seq(Y)
    BY <1>1, <1>5, AlongIs
  <2> QED
    BY <2>1, <2>2
<1>7. Map(LAMBDA y : y[1], a) = [i \in 1 .. Len(a) |-> a[i][1]]
  BY Zenon DEF Map
<1>8. Each(h, a) = [i \in 1 .. Len(a) |-> a[i][1]]
  <2>1. \A i \in 1..Len(a) : a[i] \in Y
    BY <1>4, <1>6
  <2>2. \A i \in 1..Len(a) : h[a[i]] = a[i][1]
    BY <2>1 DEF h, Y, ItemOf
  <2> QED
    BY <2>2 DEF Each
<1>9. Map(LAMBDA y : y[1], a) = Along(k, g)
  BY <1>4, <1>6, <1>7, <1>8, Zenon
<1> QED
  BY <1>9, Zenon DEF a, k, g

(* The groups around a node.                                               *)
GroupsAround(t, r, group, n) ==
  {a \in Subtree(t, r) : Matches(t, a, group) /\ n \in Subtree(t, a)}

LEMMA ItemsReported ==
  ASSUME NEW t, IsTree(t), NEW r \in Nodes(t), NEW group, NEW item, NEW value,
         NEW n \in Subtree(t, r), Matches(t, n, item)
  PROVE  Len(Among(Map(LAMBDA y : y[1], FastCollectGroupedText(t, r, group, item, value)), {n})) =
           Cardinality(GroupsAround(t, r, group, n))
<1> DEFINE N == Nodes(t)
           P == PreOrder(t, r)
           g == Scan(t, r, group)
           k == ScansOf(t, item)
           A == {m \in N : n \in Subtree(t, m)}
           M == Found(t, group) \cap A
           s == Along(k, g)
           u == Sift(P, M)
<1>1. n \in N /\ Subtree(t, r) \subseteq N
  BY SubtreeIs
<1>2. g \in Seq(N) /\ g = Sift(P, Found(t, group))
  BY ScanHas, ScanIs
<1>3. P \in Seq(N) /\ Once(P) /\ Subtree(t, r) = ToSet(P)
  BY PreOrderSeq, PreOrderOnce DEF Subtree
<1>4. Maps(k, N, Seq(N))
  BY RowsAre
<1>5. ASSUME NEW m \in N PROVE Once(k[m]) /\ (m \in A <=> n \in ToSet(k[m]))
  <2>1. k[m] = Scan(t, m, item)
    BY DEF ScansOf
  <2>2. Once(Scan(t, m, item)) /\ ToSet(Scan(t, m, item)) = Subtree(t, m) \cap Found(t, item)
    BY ScanHas
  <2>3. n \in Found(t, item)
    BY <1>1 DEF Found
  <2> QED
    BY <2>1, <2>2, <2>3
<1> HIDE DEF P, g, k, A
<1>6. HowOften(s, n) = Len(Sift(g, A))
  BY <1>2, <1>4, <1>5, AlongOften
<1>7. Sift(g, A) = u
  <2>1. \A x \in ToSet(P) : x \in M <=> x \in Found(t, group) /\ x \in A
    OBVIOUS
  <2> HIDE DEF M
  <2>2. Sift(Sift(P, Found(t, group)), A) = Sift(P, M)
    BY <1>3, <2>1, SiftTwice
  <2> QED
    BY <1>2, <2>2
<1>8. u \in Seq(N) /\ Once(u) /\ ToSet(u) = ToSet(P) \cap M
  <2> HIDE DEF M
  <2> QED
    BY <1>3, SiftIs, SiftOnce, SiftRange
<1>9. Cardinality(ToSet(u)) = Len(u)
  <2> HIDE DEF u
  <2> QED
    BY <1>8, OnceCounts
<1>10. ToSet(u) = GroupsAround(t, r, group, n)
  BY <1>1, <1>3, <1>8 DEF GroupsAround, A, Found
<1>11. s \in Seq(N)
  BY <1>2, <1>4, AlongIs
<1> HIDE DEF s, u
<1>12. Len(Among(s, {n})) = HowOften(s, n)
  <2>1. Among(s, {n}) = Sift(s, {n})
    BY <1>11, AmongSifts
  <2> QED
    BY <2>1, Zenon DEF HowOften
<1>13. Map(LAMBDA y : y[1], FastCollectGroupedText(t, r, group, item, value)) = s
  BY ItemsAre DEF s, k, g
<1>14. Len(Among(s, {n})) = Cardinality(GroupsAround(t, r, group, n))
  BY <1>6, <1>7, <1>9, <1>10, <1>12
<1> QED
  BY <1>13, <1>14, Zenon

LEMMA GroupsReport ==
  ASSUME WalkInv
  PROVE  GroupsReportTheirItems
<1> SUFFICES ASSUME Settled, NEW g, NEW i, NEW n \in Subtree(tree, Root),
                    Matches(tree, n, DescFilter(i))
             PROVE  Len(Among(Map(LAMBDA r : r[1],
                                  FastCollectGroupedText(tree, Root, DescFilter(g), DescFilter(i), AnyElement)),
                              {n})) =
                      Cardinality({a \in Subtree(tree, Root) :
                                     Matches(tree, a, DescFilter(g)) /\ n \in Subtree(tree, a)})
  BY DEF GroupsReportTheirItems
<1>1. IsTree(tree) /\ Root \in Nodes(tree)
  BY SettledTree
<1> QED
  BY <1>1, ItemsReported DEF GroupsAround

(* getnext, getprevious, .text, .tail and the bulk scans, each a walk of   *)
(* its own over the native tree, agree with the tree in document order: on *)
(* every tree that parsing, the options and the edits of a loop can make.  *)
THEOREM ReadersAlwaysAgree == WalkSpec => []ReadersAgree
<1>1. WalkInv => ReadersAgree
  BY RunsCover, ScansAgree, GroupsReport DEF ReadersAgree
<1> QED
  BY <1>1, WalkInvHolds, PTL
=============================================================================
