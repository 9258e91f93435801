----------------------------- MODULE LoopLemmas -----------------------------
(***************************************************************************)
(* Lemmas for the other proofs: induction over positions, loops as         *)
(* functions of the number of steps done, the library's FoldLeft as such a *)
(* loop; lists that are put together, cut, sifted and flattened.           *)
(***************************************************************************)
EXTENDS Lists, WellFoundedInduction, TLAPS

-----------------------------------------------------------------------------
(* Induction and recursion over positions.                                 *)

LEMMA LeastNumber ==
  ASSUME NEW S \in SUBSET Nat, S # {}
  PROVE  \E x \in S : \A y \in S : x <= y
<1> DEFINE R == OpToRel(<, Nat)
<1>1. IsWellFoundedOn(R, Nat)
  BY NatLessThanWellFounded, Zenon
<1>2. PICK x \in S : \A y \in S : <<y, x>> \notin R
  <2> HIDE DEF R
  <2> QED
    BY <1>1, WFMin
<1>3. \A y \in S : ~(y < x)
  BY <1>2 DEF OpToRel
<1> QED
  BY <1>3

LEMMA Induction ==
  ASSUME NEW n \in Nat, NEW G, 0 \in G, \A i \in 1..n : i - 1 \in G => i \in G
  PROVE  0..n \subseteq G
<1> DEFINE Bad == {i \in 0..n : i \notin G}
<1>1. SUFFICES ASSUME Bad # {} PROVE FALSE
  OBVIOUS
<1>2. PICK i \in Bad : \A j \in Bad : i <= j
  <2>1. Bad \in SUBSET Nat
    OBVIOUS
  <2> HIDE DEF Bad
  <2> QED
    BY <1>1, <2>1, LeastNumber
<1>3. i \in 1..n /\ i - 1 \in 0..n /\ ~(i <= i - 1)
  BY <1>2
<1>4. i - 1 \in G
  BY <1>2, <1>3
<1> QED
  BY <1>2, <1>3, <1>4

(* f runs n steps from base, and never leaves X.                           *)
Loop(f, X, n, base, step) ==
  f \in [0..n -> X] /\ f[0] = base /\ \A i \in 1..n : f[i] = step[i][f[i - 1]]

(* A loop over n positions that stays in X can be run.                     *)
LEMMA LoopRuns ==
  ASSUME NEW X, NEW n \in Nat, NEW base \in X, NEW step \in [1..n -> [X -> X]]
  PROVE  \E f : Loop(f, X, n, base, step)
<1> DEFINE Runs(m, f) == f[0] = base /\ \A i \in 1..m : f[i] = step[i][f[i - 1]]
           G == {m \in 0..n : \E f \in [0..m -> X] : Runs(m, f)}
<1>1. 0 \in G
  <2> DEFINE f == [i \in 0..0 |-> base]
  <2>1. f \in [0..0 -> X] /\ f[0] = base /\ 1..0 = {}
    OBVIOUS
  <2>2. Runs(0, f) /\ 0 \in 0..n
    BY <2>1
  <2> HIDE DEF f
  <2> QED
    BY <2>1, <2>2
<1>2. ASSUME NEW m \in 1..n, m - 1 \in G
      PROVE  m \in G
  <2>1. PICK f \in [0..(m - 1) -> X] : Runs(m - 1, f)
    BY <1>2
  <2> DEFINE g == [i \in 0..m |-> IF i = m THEN step[m][f[m - 1]] ELSE f[i]]
  <2>2. m - 1 \in 0..(m - 1) /\ m \in 1..n /\ 0 \in 0..(m - 1) /\ 0 # m
    OBVIOUS
  <2>3. step[m][f[m - 1]] \in X
    BY <2>1, <2>2
  <2>4. \A i \in 0..m : i # m => i \in 0..(m - 1)
    OBVIOUS
  <2>5. g \in [0..m -> X]
    BY <2>1, <2>3, <2>4
  <2>6. g[0] = base
    BY <2>1, <2>2
  <2>7. ASSUME NEW i \in 1..m
        PROVE  g[i] = step[i][g[i - 1]]
    <3>1. i - 1 \in 0..m /\ i - 1 # m /\ i \in 0..m /\ g[i - 1] = f[i - 1]
      OBVIOUS
    <3>2. CASE i = m
      BY <3>1, <3>2
    <3>3. CASE i # m
      <4>1. i \in 1..(m - 1)
        BY <3>3
      <4> QED
        BY <2>1, <3>1, <3>3, <4>1
    <3> QED
      BY <3>2, <3>3
  <2> HIDE DEF g
  <2> QED
    BY <2>5, <2>6, <2>7
<1>3. n \in G
  <2>1. 0..n \subseteq G
    <3> HIDE DEF G
    <3> QED
      BY <1>1, <1>2, Induction
  <2> QED
    BY <2>1
<1> QED
  BY <1>3 DEF Loop

-----------------------------------------------------------------------------
(* Sequences.                                                              *)

LEMMA Pushed ==
  ASSUME NEW X, NEW s \in Seq(X), NEW x \in X
  PROVE  LET a == Append(s, x)
         IN  /\ a \in Seq(X) /\ Len(a) = Len(s) + 1 /\ Len(s) \in Nat
             /\ DOMAIN s = 1..Len(s) /\ DOMAIN a = 1..(Len(s) + 1)
             /\ \A k \in 1..Len(s) : a[k] = s[k]
             /\ a[Len(s) + 1] = x
  OBVIOUS

LEMMA Ranged ==
  ASSUME NEW X, NEW s \in Seq(X)
  PROVE  ToSet(s) \subseteq X /\ \A x : x \in ToSet(s) <=> \E i \in DOMAIN s : s[i] = x
BY DEF ToSet

LEMMA SmallestIs ==
  ASSUME NEW S \in SUBSET Nat, S # {}
  PROVE  Min(S) \in S /\ \A x \in S : Min(S) <= x
<1>1. \E x \in S : \A y \in S : x <= y
  BY LeastNumber
<1> QED
  BY <1>1 DEF Min

LEMMA GreatestIs ==
  ASSUME NEW n \in Nat, NEW T \in SUBSET (1..n), T # {}
  PROVE  Max(T) \in T /\ \A x \in T : x <= Max(T)
<1> DEFINE S == {n - x : x \in T}
<1>1. S \in SUBSET Nat /\ S # {}
  <2>1. \A x \in T : x \in 1..n /\ n - x \in Nat
    OBVIOUS
  <2>2. \E x \in T : TRUE
    OBVIOUS
  <2> QED
    BY <2>1, <2>2
<1>2. PICK y \in S : \A z \in S : y <= z
  <2> HIDE DEF S
  <2> QED
    BY <1>1, LeastNumber
<1>3. PICK x \in T : y = n - x
  BY <1>2
<1>4. \A z \in T : x >= z
  <2> SUFFICES ASSUME NEW z \in T PROVE x >= z
    OBVIOUS
  <2>1. n - z \in S /\ n - x <= n - z /\ x \in Int /\ z \in Int
    BY <1>2, <1>3
  <2> QED
    BY <2>1
<1>5. Max(T) \in T /\ \A z \in T : Max(T) >= z
  BY <1>4 DEF Max
<1> QED
  BY <1>5

LEMMA LastPlace ==
  ASSUME NEW n \in Nat, NEW T \in SUBSET (1..n), T # {}
  PROVE  Max(T) \in 1..n /\ T \ {Max(T)} \in SUBSET (1..n)
<1>1. Max(T) \in T
  BY GreatestIs
<1> QED
  BY <1>1

-----------------------------------------------------------------------------
(* Folds.  FoldLeft recurs on the set of places that are left to do, of    *)
(* which only the initial ones 1..i are ever met.                          *)

(* What the function that FoldLeft recurs by satisfies.                    *)
Folding(F, X, n, base, step) ==
  /\ F \in [SUBSET (1..n) -> X]
  /\ F[{}] = base
  /\ \A T \in SUBSET (1..n) : T # {} => F[T] = step[Max(T)][F[T \ {Max(T)}]]

LEMMA FoldExists ==
  ASSUME NEW X, NEW n \in Nat, NEW base \in X, NEW step \in [1..n -> [X -> X]]
  PROVE  \E F : Folding(F, X, n, base, step)
<1> DEFINE Folds(m, F) == /\ F[{}] = base
                          /\ \A T \in SUBSET (1..m) :
                               T # {} => F[T] = step[Max(T)][F[T \ {Max(T)}]]
           G == {m \in 0..n : \E F \in [SUBSET (1..m) -> X] : Folds(m, F)}
<1>1. 0 \in G
  <2> DEFINE F == [T \in SUBSET (1..0) |-> base]
  <2>1. 1..0 = {} /\ 0 \in 0..n
    OBVIOUS
  <2>2. F \in [SUBSET (1..0) -> X] /\ Folds(0, F)
    BY <2>1
  <2> HIDE DEF F
  <2> QED
    BY <2>1, <2>2
<1>2. ASSUME NEW m \in 1..n, m - 1 \in G
      PROVE  m \in G
  <2>1. PICK F \in [SUBSET (1..(m - 1)) -> X] : Folds(m - 1, F)
    BY <1>2
  <2> DEFINE E == [T \in SUBSET (1..m) |->
                     IF m \in T THEN step[m][F[T \ {m}]] ELSE F[T]]
  <2>2. \A T \in SUBSET (1..m) : T \ {m} \in SUBSET (1..(m - 1))
    OBVIOUS
  <2>3. E \in [SUBSET (1..m) -> X]
    <3> SUFFICES ASSUME NEW T \in SUBSET (1..m)
                 PROVE  (IF m \in T THEN step[m][F[T \ {m}]] ELSE F[T]) \in X
      BY Zenon
    <3>1. F[T \ {m}] \in X
      BY <2>1, <2>2
    <3>2. m \notin T => T = T \ {m}
      BY Zenon
    <3> QED
      BY <3>1, <3>2
  <2>4. E[{}] = base
    BY <2>1
  <2>5. ASSUME NEW T \in SUBSET (1..m), T # {}
        PROVE  E[T] = step[Max(T)][E[T \ {Max(T)}]]
    <3>1. Max(T) \in T /\ \A x \in T : x <= Max(T)
      <4>1. m \in Nat
        OBVIOUS
      <4> HIDE DEF E
      <4> QED
        BY <2>5, <4>1, GreatestIs, Zenon
    <3>2. CASE m \in T
      <4>1. Max(T) = m
        <5>1. Max(T) \in 1..m /\ m <= Max(T)
          BY <3>1, <3>2
        <5> HIDE DEF E
        <5> QED
          BY <5>1
      <4>2. T \ {m} \in SUBSET (1..m) /\ m \notin T \ {m}
        BY <2>2
      <4>3. E[T \ {m}] = F[T \ {m}]
        BY <4>2
      <4> QED
        BY <3>2, <4>1, <4>3
    <3>3. CASE m \notin T
      <4>1. T \in SUBSET (1..(m - 1))
        BY <2>2, <3>3
      <4>2. F[T] = step[Max(T)][F[T \ {Max(T)}]]
        BY <2>1, <2>5, <4>1
      <4>3. T \ {Max(T)} \in SUBSET (1..m) /\ m \notin T \ {Max(T)}
        BY <3>3
      <4>4. E[T \ {Max(T)}] = F[T \ {Max(T)}] /\ E[T] = F[T]
        BY <3>3, <4>3
      <4> QED
        BY <4>2, <4>4
    <3> QED
      BY <3>2, <3>3
  <2> HIDE DEF E
  <2>6. \E D \in [SUBSET (1..m) -> X] : Folds(m, D)
    BY <2>3, <2>4, <2>5
  <2>7. m \in 0..n
    OBVIOUS
  <2> QED
    BY <2>6, <2>7
<1>3. n \in G
  <2>1. 0..n \subseteq G
    <3> HIDE DEF G
    <3> QED
      BY <1>1, <1>2, Induction
  <2>2. n \in 0..n
    OBVIOUS
  <2> HIDE DEF G
  <2> QED
    BY <2>1, <2>2
<1> QED
  BY <1>3 DEF Folding

(* The same of a function whose values are not known to stay in X.         *)
Unfolds(F, X, n, base, step) ==
  /\ F[{}] = base
  /\ \A T \in SUBSET (1..n) : T # {} /\ F[T \ {Max(T)}] \in X =>
       F[T] = step[Max(T)][F[T \ {Max(T)}]]

ValuesOf(F, n) == [i \in 0..n |-> F[1..i]]

(* On the initial places a fold is a loop.                                 *)
LEMMA FoldIsLoop ==
  ASSUME NEW X, NEW n \in Nat, NEW base \in X, NEW step \in [1..n -> [X -> X]],
         NEW F, Unfolds(F, X, n, base, step)
  PROVE  Loop(ValuesOf(F, n), X, n, base, step) /\ F[1..n] \in X
<1> DEFINE f == [i \in 0..n |-> F[1..i]]
<1>0. /\ F[{}] = base
      /\ \A T \in SUBSET (1..n) : T # {} /\ F[T \ {Max(T)}] \in X =>
           F[T] = step[Max(T)][F[T \ {Max(T)}]]
  BY DEF Unfolds
<1>1. f[0] = base
  <2>1. 1..0 = {} /\ 0 \in 0..n
    OBVIOUS
  <2> QED
    BY <1>0, <2>1
<1>2. ASSUME NEW i \in 1..n, f[i - 1] \in X
      PROVE  f[i] = step[i][f[i - 1]] /\ f[i] \in X
  <2>1. i \in 1..i /\ \A x \in 1..i : x <= i
    OBVIOUS
  <2>2. 1..i \in SUBSET (1..n) /\ 1..i # {}
    <3>1. \A x \in 1..i : x \in 1..n
      OBVIOUS
    <3> QED
      BY <2>1, <3>1
  <2>3. Max(1..i) \in 1..i /\ \A x \in 1..i : x <= Max(1..i)
    BY <2>2, GreatestIs
  <2>4. Max(1..i) = i
    BY <2>1, <2>3
  <2>5. (1..i) \ {i} = 1..(i - 1)
    OBVIOUS
  <2>6. f[i - 1] = F[1..(i - 1)] /\ f[i] = F[1..i]
    OBVIOUS
  <2>7. f[i] = step[i][f[i - 1]]
    BY <1>0, <1>2, <2>2, <2>4, <2>5, <2>6
  <2> HIDE DEF f
  <2> QED
    BY <1>2, <2>7
<1> DEFINE G == {i \in 0..n : f[i] \in X}
<1>3. 0..n \subseteq G
  <2>1. 0 \in G
    BY <1>1
  <2>2. \A i \in 1..n : i - 1 \in G => i \in G
    <3> HIDE DEF f
    <3> QED
      BY <1>2
  <2> HIDE DEF G
  <2> QED
    BY <2>1, <2>2, Induction
<1>4. \A i \in 0..n : f[i] \in X
  BY <1>3
<1>5. f \in [0..n -> X]
  BY <1>4
<1>6. \A i \in 1..n : f[i] = step[i][f[i - 1]]
  <2> SUFFICES ASSUME NEW i \in 1..n PROVE f[i] = step[i][f[i - 1]]
    OBVIOUS
  <2>1. i - 1 \in 0..n
    OBVIOUS
  <2> HIDE DEF f
  <2> QED
    BY <1>2, <1>4, <2>1
<1>7. F[1..n] = f[n] /\ n \in 0..n
  OBVIOUS
<1> HIDE DEF f
<1>8. Loop(f, X, n, base, step)
  BY <1>1, <1>5, <1>6 DEF Loop
<1>9. F[1..n] \in X
  BY <1>4, <1>7
<1> QED
  BY <1>8, <1>9 DEF f, ValuesOf

-----------------------------------------------------------------------------
(* Sequences.                                                              *)

(* t is s without some of its places, in the order of s.                   *)
Thinned(s, t, g) ==
  /\ g \in [DOMAIN t -> DOMAIN s]
  /\ \A j \in DOMAIN t : t[j] = s[g[j]]
  /\ \A i, j \in DOMAIN t : i < j => g[i] < g[j]

(* t is s without the places of the nodes of S.                            *)
Spares(s, S, t, g) ==
  /\ Thinned(s, t, g)
  /\ \A i \in DOMAIN s : s[i] \notin S <=> \E j \in DOMAIN g : g[j] = i

(* NotIn takes out the places of the nodes it names, and no others.        *)
LEMMA NotInIs ==
  ASSUME NEW X, NEW s \in Seq(X), NEW S
  PROVE  /\ NotIn(s, S) \in Seq(X)
         /\ \E g : Spares(s, S, NotIn(s, S), g)
<1> DEFINE n == Len(s)
           Kept(f) == f = [i \in 0..n |-> IF i = 0 THEN <<>>
                                          ELSE IF s[i] \in S THEN f[i - 1]
                                          ELSE Append(f[i - 1], s[i])]
           f == CHOOSE h : Kept(h)
<1>1. n \in Nat /\ DOMAIN s = 1..n /\ \A i \in 1..n : s[i] \in X
  OBVIOUS
<1>2. NotIn(s, S) = f[n]
  BY Zenon DEF NotIn
<1> HIDE DEF n
<1>3. \E h : Kept(h)
  <2> DEFINE step == [i \in 1..n |-> [u \in Seq(X) |->
                        IF s[i] \in S THEN u ELSE Append(u, s[i])]]
  <2>1. step \in [1..n -> [Seq(X) -> Seq(X)]]
    BY <1>1
  <2>2. PICK h \in [0..n -> Seq(X)] :
          h[0] = <<>> /\ \A i \in 1..n : h[i] = step[i][h[i - 1]]
    <3> HIDE DEF step
    <3>1. <<>> \in Seq(X)
      OBVIOUS
    <3>2. \E h : Loop(h, Seq(X), n, <<>>, step)
      BY <1>1, <2>1, <3>1, LoopRuns
    <3> QED
      BY <3>2 DEF Loop
  <2>3. \A i \in 1..n : h[i] = IF s[i] \in S THEN h[i - 1] ELSE Append(h[i - 1], s[i])
    <3>1. \A i \in 1..n : i - 1 \in 0..n /\ h[i - 1] \in Seq(X)
      BY <1>1
    <3> QED
      BY <2>2, <3>1
  <2>4. \A i \in 0..n : i # 0 => i \in 1..n
    BY <1>1
  <2>5. Kept(h)
    BY <2>2, <2>3, <2>4
  <2> QED
    BY <2>5
<1>4. Kept(f)
  BY <1>3
<1>5. /\ f[0] = <<>>
      /\ \A i \in 1..n : f[i] = IF s[i] \in S THEN f[i - 1] ELSE Append(f[i - 1], s[i])
  <2>1. 0 \in 0..n /\ \A i \in 1..n : i \in 0..n /\ i # 0
    BY <1>1
  <2> HIDE DEF f
  <2> QED
    BY <1>4, <2>1
<1> HIDE DEF f
<1> DEFINE Good(i, g) == /\ g \in [DOMAIN f[i] -> 1..i]
                         /\ \A j \in DOMAIN f[i] : f[i][j] = s[g[j]]
                         /\ \A j, k \in DOMAIN f[i] : j < k => g[j] < g[k]
                         /\ \A k \in 1..i : s[k] \notin S <=> \E j \in DOMAIN f[i] : g[j] = k
           G == {i \in 0..n : f[i] \in Seq(X) /\ \E g : Good(i, g)}
<1>6. 0 \in G
  <2>1. f[0] \in Seq(X) /\ DOMAIN f[0] = {} /\ 1..0 = {}
    BY <1>5
  <2>2. [j \in {} |-> 0] \in [DOMAIN f[0] -> 1..0]
    BY <2>1
  <2>3. Good(0, [j \in {} |-> 0])
    BY <2>1, <2>2
  <2> HIDE DEF Good
  <2>4. 0 \in 0..n
    BY <1>1
  <2> QED
    BY <2>1, <2>3, <2>4
<1>7. ASSUME NEW i \in 1..n, i - 1 \in G
      PROVE  i \in G
  <2>1. f[i - 1] \in Seq(X) /\ i \in 0..n /\ i \in Nat
    BY <1>1, <1>7
  <2>2. PICK g : Good(i - 1, g)
    BY <1>7
  <2>3. \A k \in 1..i : k = i \/ k \in 1..(i - 1)
    BY <2>1
  <2>4. \A k \in 1..(i - 1) : k \in 1..i /\ k < i
    BY <2>1
  <2>5. CASE s[i] \in S
    <3>1. f[i] = f[i - 1]
      BY <1>5, <2>5
    <3>2. \A j \in DOMAIN f[i] : g[j] \in 1..(i - 1) /\ g[j] # i
      BY <2>2, <2>4, <3>1
    <3>3. g \in [DOMAIN f[i] -> 1..i]
      BY <2>2, <2>4, <3>1
    <3>4. \A k \in 1..i : s[k] \notin S <=> \E j \in DOMAIN f[i] : g[j] = k
      BY <2>2, <2>3, <2>5, <3>1, <3>2
    <3>5. Good(i, g)
      BY <2>2, <3>1, <3>3, <3>4
    <3> HIDE DEF Good
    <3> QED
      BY <2>1, <3>1, <3>5
  <2>6. CASE s[i] \notin S
    <3> DEFINE u == f[i - 1]
               L == Len(u)
               h == [j \in 1..(L + 1) |-> IF j = L + 1 THEN i ELSE g[j]]
    <3>1. f[i] = Append(u, s[i]) /\ s[i] \in X
      BY <1>1, <1>5, <2>6
    <3>2. /\ f[i] \in Seq(X) /\ L \in Nat /\ DOMAIN u = 1..L /\ DOMAIN f[i] = 1..(L + 1)
          /\ \A k \in 1..L : f[i][k] = u[k]
          /\ f[i][L + 1] = s[i]
      <4> HIDE DEF u
      <4> QED
        BY <2>1, <3>1, Pushed DEF u
    <3>3. /\ g \in [1..L -> 1..(i - 1)]
          /\ \A j \in 1..L : u[j] = s[g[j]]
          /\ \A j, k \in 1..L : j < k => g[j] < g[k]
          /\ \A k \in 1..(i - 1) : s[k] \notin S <=> \E j \in 1..L : g[j] = k
      BY <2>2, <3>2
    <3> HIDE DEF L, u
    <3>4. \A j \in 1..(L + 1) : j = L + 1 \/ (j \in 1..L /\ j # L + 1)
      BY <3>2
    <3>5. h \in [1..(L + 1) -> 1..i] /\ h[L + 1] = i /\ \A j \in 1..L : h[j] = g[j]
      <4>1. L + 1 \in 1..(L + 1) /\ i \in 1..i /\ \A j \in 1..L : j \in 1..(L + 1) /\ j # L + 1
        BY <2>1, <3>2
      <4> QED
        BY <2>4, <3>3, <3>4, <4>1
    <3> HIDE DEF h
    <3>6. \A j \in 1..(L + 1) : f[i][j] = s[h[j]]
      BY <3>2, <3>3, <3>4, <3>5
    <3>7. \A j, k \in 1..(L + 1) : j < k => h[j] < h[k]
      <4> SUFFICES ASSUME NEW j \in 1..(L + 1), NEW k \in 1..(L + 1), j < k
                   PROVE  h[j] < h[k]
        OBVIOUS
      <4>1. j \in 1..L /\ h[j] = g[j] /\ g[j] \in 1..(i - 1)
        BY <3>2, <3>3, <3>5
      <4>2. CASE k = L + 1
        BY <2>1, <3>5, <4>1, <4>2
      <4>3. CASE k # L + 1
        BY <3>3, <3>4, <3>5, <4>1, <4>3
      <4> QED
        BY <4>2, <4>3
    <3>8. \A k \in 1..i : s[k] \notin S <=> \E j \in 1..(L + 1) : h[j] = k
      <4> SUFFICES ASSUME NEW k \in 1..i
                   PROVE  s[k] \notin S <=> \E j \in 1..(L + 1) : h[j] = k
        OBVIOUS
      <4>1. L + 1 \in 1..(L + 1) /\ \A j \in 1..L : j \in 1..(L + 1)
        BY <3>2
      <4>2. CASE k = i
        BY <2>6, <3>5, <4>1, <4>2
      <4>3. CASE k # i
        <5>1. k \in 1..(i - 1)
          BY <2>3, <4>3
        <5>2. (\E j \in 1..(L + 1) : h[j] = k) <=> \E j \in 1..L : g[j] = k
          BY <3>4, <3>5, <4>1, <4>3
        <5> QED
          BY <3>3, <5>1, <5>2
      <4> QED
        BY <4>2, <4>3
    <3>9. Good(i, h)
      BY <3>2, <3>5, <3>6, <3>7, <3>8
    <3> HIDE DEF Good
    <3> QED
      BY <2>1, <3>2, <3>9
  <2> QED
    BY <2>5, <2>6
<1>8. n \in G
  <2>1. 0..n \subseteq G
    <3> HIDE DEF G
    <3> QED
      BY <1>1, <1>6, <1>7, Induction
  <2>2. n \in 0..n
    BY <1>1
  <2> HIDE DEF G
  <2> QED
    BY <2>1, <2>2
<1>9. f[n] \in Seq(X) /\ \E g : Good(n, g)
  BY <1>8
<1> QED
  BY <1>1, <1>2, <1>9 DEF Thinned, Spares

(* A slice of a sequence.                                                  *)
LEMMA Sliced ==
  ASSUME NEW X, NEW s \in Seq(X), NEW i \in Nat \ {0}, NEW j \in Nat, j <= Len(s)
  PROVE  /\ SubSeq(s, i, j) \in Seq(X)
         /\ Len(SubSeq(s, i, j)) = IF i <= j THEN j - i + 1 ELSE 0
         /\ DOMAIN SubSeq(s, i, j) = 1..Len(SubSeq(s, i, j))
         /\ \A h \in DOMAIN SubSeq(s, i, j) : SubSeq(s, i, j)[h] = s[i + h - 1]
<1>1. \A h \in i..j : s[h] \in X
  OBVIOUS
<1> QED
  BY <1>1

LEMMA NotInRange ==
  ASSUME NEW X, NEW s \in Seq(X), NEW S
  PROVE  NotIn(s, S) \in Seq(X) /\ ToSet(NotIn(s, S)) = ToSet(s) \ S
<1> DEFINE t == NotIn(s, S)
<1> HIDE DEF t
<1>1. t \in Seq(X) /\ \E g : Spares(s, S, t, g)
  BY NotInIs DEF t
<1>2. PICK g : /\ Thinned(s, t, g)
               /\ \A i \in DOMAIN s : s[i] \notin S <=> \E j \in DOMAIN g : g[j] = i
  BY <1>1 DEF Spares
<1>3. g \in [DOMAIN t -> DOMAIN s] /\ DOMAIN g = DOMAIN t /\ \A j \in DOMAIN t : t[j] = s[g[j]]
  BY <1>2 DEF Thinned
<1>4. \A x : x \in ToSet(t) <=> \E j \in DOMAIN t : t[j] = x
  BY <1>1, Ranged
<1>5. \A x : x \in ToSet(s) <=> \E i \in DOMAIN s : s[i] = x
  BY Ranged
<1>6. ASSUME NEW x, x \in ToSet(t) PROVE x \in ToSet(s) \ S
  <2>1. PICK j \in DOMAIN t : t[j] = x
    BY <1>4, <1>6
  <2>2. g[j] \in DOMAIN s /\ s[g[j]] = x
    BY <1>3, <2>1
  <2> QED
    BY <1>2, <1>3, <1>5, <2>2
<1>7. ASSUME NEW x, x \in ToSet(s) \ S PROVE x \in ToSet(t)
  <2>1. PICK i \in DOMAIN s : s[i] = x
    BY <1>5, <1>7
  <2>2. PICK j \in DOMAIN t : g[j] = i
    BY <1>2, <1>3, <1>7, <2>1
  <2> QED
    BY <1>3, <1>4, <2>1, <2>2
<1> QED
  BY <1>1, <1>6, <1>7 DEF t

-----------------------------------------------------------------------------
(* Sequences put together from parts.                                      *)

LEMMA JoinIs ==
  ASSUME NEW X, NEW a \in Seq(X), NEW b \in Seq(X)
  PROVE  /\ a \o b \in Seq(X) /\ Len(a) \in Nat /\ Len(b) \in Nat
         /\ Len(a \o b) = Len(a) + Len(b)
         /\ DOMAIN a = 1..Len(a) /\ DOMAIN b = 1..Len(b)
         /\ DOMAIN (a \o b) = 1..(Len(a) + Len(b))
         /\ \A i \in 1..Len(a) : (a \o b)[i] = a[i]
         /\ \A i \in 1..Len(b) : (a \o b)[Len(a) + i] = b[i]
<1>1. \A i \in 1..Len(b) : (a \o b)[Len(a) + i] = b[i]
  <2> SUFFICES ASSUME NEW i \in 1..Len(b) PROVE (a \o b)[Len(a) + i] = b[i]
    OBVIOUS
  <2>1. Len(a) + i \in 1..(Len(a) + Len(b)) /\ ~(Len(a) + i <= Len(a)) /\ (Len(a) + i) - Len(a) = i
    OBVIOUS
  <2> QED
    BY <2>1
<1> QED
  BY <1>1

LEMMA SameSeq ==
  ASSUME NEW X, NEW s \in Seq(X), NEW t \in Seq(X), Len(s) = Len(t),
         \A i \in 1..Len(s) : s[i] = t[i]
  PROVE  s = t
OBVIOUS

LEMMA OneIs ==
  ASSUME NEW X, NEW x \in X
  PROVE  /\ <<x>> \in Seq(X) /\ Len(<<x>>) = 1 /\ DOMAIN <<x>> = 1..1 /\ <<x>>[1] = x
         /\ <<x>> # <<>>
OBVIOUS

LEMMA EmptyIs ==
  ASSUME NEW X
  PROVE  <<>> \in Seq(X) /\ Len(<<>>) = 0 /\ DOMAIN <<>> = {} /\ ToSet(<<>>) = {}
BY DEF ToSet

LEMMA JoinEmpty ==
  ASSUME NEW X, NEW a \in Seq(X)
  PROVE  a \o <<>> = a /\ <<>> \o a = a
<1>1. <<>> \in Seq(X) /\ Len(<<>>) = 0
  OBVIOUS
<1>2. a \o <<>> = a
  <2> DEFINE s == a \o <<>>
  <2>1. /\ s \in Seq(X) /\ Len(a) \in Nat /\ Len(s) = Len(a)
        /\ \A i \in 1..Len(a) : s[i] = a[i]
    OBVIOUS
  <2> HIDE DEF s
  <2> QED
    BY <2>1, SameSeq
<1>3. <<>> \o a = a
  <2> DEFINE s == <<>> \o a
  <2>1. /\ s \in Seq(X) /\ Len(a) \in Nat /\ Len(s) = Len(a)
        /\ \A i \in 1..Len(a) : s[i] = a[i]
    OBVIOUS
  <2> HIDE DEF s
  <2> QED
    BY <2>1, SameSeq
<1> QED
  BY <1>2, <1>3

LEMMA JoinAssoc ==
  ASSUME NEW X, NEW a \in Seq(X), NEW b \in Seq(X), NEW c \in Seq(X)
  PROVE  (a \o b) \o c = a \o (b \o c)
<1> DEFINE ab == a \o b
           bc == b \o c
           s == ab \o c
           t == a \o bc
           n == Len(a)
           m == Len(b)
           h == Len(c)
<1>0. n = Len(a) /\ m = Len(b) /\ h = Len(c)
  OBVIOUS
<1>1. /\ ab \in Seq(X) /\ n \in Nat /\ m \in Nat /\ h \in Nat /\ Len(ab) = n + m
      /\ \A i \in 1..n : ab[i] = a[i]
      /\ \A i \in 1..m : ab[n + i] = b[i]
  BY JoinIs
<1>2. /\ bc \in Seq(X) /\ Len(bc) = m + h
      /\ \A i \in 1..m : bc[i] = b[i]
      /\ \A i \in 1..h : bc[m + i] = c[i]
  BY JoinIs
<1> HIDE DEF ab, bc, n, m, h
<1>ab. ab \in Seq(X)
  BY <1>1
<1>s. /\ s \in Seq(X) /\ Len(s) = Len(ab) + Len(c)
      /\ \A i \in 1..Len(ab) : s[i] = ab[i]
      /\ \A i \in 1..Len(c) : s[Len(ab) + i] = c[i]
  BY <1>ab, JoinIs
<1>t. /\ t \in Seq(X) /\ Len(t) = Len(a) + Len(bc)
      /\ \A i \in 1..Len(a) : t[i] = a[i]
      /\ \A i \in 1..Len(bc) : t[Len(a) + i] = bc[i]
  BY <1>2, JoinIs
<1> HIDE DEF s, t
<1>3. /\ s \in Seq(X) /\ Len(s) = n + m + h
      /\ \A i \in 1..(n + m) : s[i] = ab[i]
      /\ \A i \in 1..h : s[(n + m) + i] = c[i]
  BY <1>0, <1>1, <1>s
<1>4. /\ t \in Seq(X) /\ Len(t) = n + (m + h)
      /\ \A i \in 1..n : t[i] = a[i]
      /\ \A i \in 1..(m + h) : t[n + i] = bc[i]
  BY <1>0, <1>1, <1>2, <1>t
<1>5. \A i \in 1..(n + m + h) : s[i] = t[i]
  <2> SUFFICES ASSUME NEW i \in 1..(n + m + h) PROVE s[i] = t[i]
    OBVIOUS
  <2>1. CASE i \in 1..n
    BY <1>1, <1>3, <1>4, <2>1
  <2>2. CASE i \notin 1..n /\ i \in 1..(n + m)
    <3>1. PICK j \in 1..m : i = n + j
      <4>1. i - n \in 1..m /\ i = n + (i - n)
        BY <1>1, <2>2
      <4> QED
        BY <4>1
    <3>2. j \in 1..(m + h)
      BY <1>1
    <3> QED
      BY <1>1, <1>2, <1>3, <1>4, <2>2, <3>1, <3>2
  <2>3. CASE i \notin 1..(n + m)
    <3>1. PICK j \in 1..h : i = (n + m) + j
      <4>1. i - (n + m) \in 1..h /\ i = (n + m) + (i - (n + m))
        BY <1>1, <2>3
      <4> QED
        BY <4>1
    <3>2. m + j \in 1..(m + h) /\ (n + m) + j = n + (m + j)
      BY <1>1
    <3>3. s[i] = c[j] /\ t[n + (m + j)] = c[j]
      BY <1>2, <1>3, <1>4, <3>1, <3>2
    <3> QED
      BY <3>1, <3>2, <3>3
  <2> QED
    BY <2>1, <2>2, <2>3
<1>6. Len(s) = Len(t) /\ n + m + h = Len(s)
  BY <1>1, <1>3, <1>4
<1>7. s = t
  BY <1>3, <1>4, <1>5, <1>6, SameSeq
<1> QED
  BY <1>7 DEF s, t, ab, bc

(* The provers join sequences without end when they may; these facts are   *)
(* therefore asked for by name, with the sequences they are about.         *)
All3(X, a, b, c) == a \in Seq(X) /\ b \in Seq(X) /\ c \in Seq(X)

LEMMA Assoc ==
  ASSUME NEW X, NEW a, NEW b, NEW c, All3(X, a, b, c)
  PROVE  /\ (a \o b) \o c = a \o (b \o c)
         /\ a \o b \in Seq(X) /\ b \o c \in Seq(X) /\ a \o (b \o c) \in Seq(X)
<1>1. a \in Seq(X) /\ b \in Seq(X) /\ c \in Seq(X)
  BY DEF All3
<1>2. (a \o b) \o c = a \o (b \o c)
  BY <1>1, JoinAssoc
<1>3. a \o b \in Seq(X) /\ b \o c \in Seq(X)
  BY <1>1, JoinIs
<1> DEFINE bc == b \o c
<1> HIDE DEF bc
<1>4. a \o bc \in Seq(X)
  <2>1. bc \in Seq(X)
    BY <1>3 DEF bc
  <2> QED
    BY <1>1, <2>1, JoinIs
<1> QED
  BY <1>2, <1>3, <1>4 DEF bc

Assoc3(a, b, c) == (a \o b) \o c = a \o (b \o c)

LEMMA AssocIs ==
  ASSUME NEW X, NEW a, NEW b, NEW c, All3(X, a, b, c)
  PROVE  Assoc3(a, b, c)
BY Assoc DEF Assoc3

LEMMA JoinRange ==
  ASSUME NEW X, NEW a \in Seq(X), NEW b \in Seq(X)
  PROVE  ToSet(a \o b) = ToSet(a) \cup ToSet(b)
<1> DEFINE s == a \o b
<1>1. /\ s \in Seq(X) /\ Len(a) \in Nat /\ Len(b) \in Nat
      /\ DOMAIN a = 1..Len(a) /\ DOMAIN b = 1..Len(b) /\ DOMAIN s = 1..(Len(a) + Len(b))
      /\ \A i \in 1..Len(a) : s[i] = a[i]
      /\ \A i \in 1..Len(b) : s[Len(a) + i] = b[i]
  BY JoinIs
<1> HIDE DEF s
<1>2. ASSUME NEW x PROVE x \in ToSet(s) <=> x \in ToSet(a) \cup ToSet(b)
  <2>1. /\ x \in ToSet(s) <=> \E i \in DOMAIN s : s[i] = x
        /\ x \in ToSet(a) <=> \E i \in DOMAIN a : a[i] = x
        /\ x \in ToSet(b) <=> \E i \in DOMAIN b : b[i] = x
    BY <1>1, Ranged
  <2>2. \A i \in 1..(Len(a) + Len(b)) : i \in 1..Len(a) \/ \E j \in 1..Len(b) : i = Len(a) + j
    <3> SUFFICES ASSUME NEW i \in 1..(Len(a) + Len(b)), i \notin 1..Len(a)
                 PROVE  \E j \in 1..Len(b) : i = Len(a) + j
      OBVIOUS
    <3>1. i - Len(a) \in 1..Len(b) /\ i = Len(a) + (i - Len(a))
      BY <1>1
    <3> QED
      BY <3>1
  <2>3. /\ \A i \in 1..Len(a) : i \in 1..(Len(a) + Len(b))
        /\ \A j \in 1..Len(b) : Len(a) + j \in 1..(Len(a) + Len(b))
    BY <1>1
  <2>4. (\E i \in DOMAIN s : s[i] = x) <=> (\E i \in DOMAIN a : a[i] = x) \/ (\E i \in DOMAIN b : b[i] = x)
    <3>1. ASSUME NEW i \in DOMAIN s, s[i] = x
          PROVE  (\E j \in DOMAIN a : a[j] = x) \/ (\E j \in DOMAIN b : b[j] = x)
      <4>1. CASE i \in 1..Len(a)
        BY <1>1, <3>1, <4>1
      <4>2. CASE \E j \in 1..Len(b) : i = Len(a) + j
        BY <1>1, <3>1, <4>2
      <4> QED
        BY <1>1, <2>2, <4>1, <4>2
    <3>2. ASSUME NEW j \in DOMAIN a, a[j] = x PROVE \E i \in DOMAIN s : s[i] = x
      BY <1>1, <2>3, <3>2
    <3>3. ASSUME NEW j \in DOMAIN b, b[j] = x PROVE \E i \in DOMAIN s : s[i] = x
      BY <1>1, <2>3, <3>3
    <3> QED
      BY <3>1, <3>2, <3>3
  <2> QED
    BY <2>1, <2>4
<1> QED
  BY <1>2 DEF s

LEMMA OneRange ==
  ASSUME NEW x
  PROVE  ToSet(<<x>>) = {x}
BY DEF ToSet

(* The provers join sequences without end when they may: see Assoc.        *)
Two(X, a, b) == a \in Seq(X) /\ b \in Seq(X)

LEMMA JoinTwo ==
  ASSUME NEW X, NEW a, NEW b, Two(X, a, b)
  PROVE  /\ a \o b \in Seq(X) /\ Len(a) \in Nat /\ Len(b) \in Nat
         /\ Len(a \o b) = Len(a) + Len(b)
         /\ \A i \in 1..Len(a) : (a \o b)[i] = a[i]
         /\ \A i \in 1..Len(b) : (a \o b)[Len(a) + i] = b[i]
         /\ ToSet(a \o b) = ToSet(a) \cup ToSet(b)
<1>1. a \in Seq(X) /\ b \in Seq(X)
  BY DEF Two
<1>2. /\ a \o b \in Seq(X) /\ Len(a) \in Nat /\ Len(b) \in Nat
      /\ Len(a \o b) = Len(a) + Len(b)
      /\ \A i \in 1..Len(a) : (a \o b)[i] = a[i]
      /\ \A i \in 1..Len(b) : (a \o b)[Len(a) + i] = b[i]
  BY <1>1, JoinIs
<1>3. ToSet(a \o b) = ToSet(a) \cup ToSet(b)
  BY <1>1, JoinRange
<1> QED
  BY <1>2, <1>3

(* A sequence can be cut at any place, and around any of its entries.      *)
LEMMA CutAt ==
  ASSUME NEW X, NEW s \in Seq(X), NEW i \in 0..Len(s)
  PROVE  \E a, b \in Seq(X) : s = a \o b /\ Len(a) = i
<1> DEFINE a == SubSeq(s, 1, i)
           b == SubSeq(s, i + 1, Len(s))
           t == a \o b
<1>1. Len(s) \in Nat /\ i \in Nat /\ i + 1 \in Nat \ {0} /\ 1 \in Nat \ {0}
  OBVIOUS
<1>2. /\ a \in Seq(X) /\ Len(a) = i /\ DOMAIN a = 1..i
      /\ \A j \in 1..i : a[j] = s[j]
  <2>1. /\ a \in Seq(X) /\ Len(a) = (IF 1 <= i THEN i - 1 + 1 ELSE 0) /\ DOMAIN a = 1..Len(a)
        /\ \A j \in DOMAIN a : a[j] = s[1 + j - 1]
    BY <1>1, Sliced
  <2> HIDE DEF a
  <2>2. Len(a) = i
    BY <1>1, <2>1
  <2>3. \A j \in 1..i : 1 + j - 1 = j
    BY <1>1
  <2> QED
    BY <2>1, <2>2, <2>3
<1>3. /\ b \in Seq(X) /\ Len(b) = Len(s) - i
      /\ \A j \in 1..(Len(s) - i) : b[j] = s[i + j]
  <2>1. /\ b \in Seq(X) /\ Len(b) = (IF i + 1 <= Len(s) THEN Len(s) - (i + 1) + 1 ELSE 0)
        /\ DOMAIN b = 1..Len(b)
        /\ \A j \in DOMAIN b : b[j] = s[(i + 1) + j - 1]
    BY <1>1, Sliced
  <2> HIDE DEF b
  <2>2. Len(b) = Len(s) - i
    BY <1>1, <2>1
  <2>3. \A j \in 1..(Len(s) - i) : (i + 1) + j - 1 = i + j
    BY <1>1
  <2> QED
    BY <2>1, <2>2, <2>3
<1>s. a \in Seq(X) /\ b \in Seq(X)
  BY <1>2, <1>3
<1> HIDE DEF a, b
<1>4. /\ t \in Seq(X) /\ Len(t) = Len(a) + Len(b)
      /\ \A j \in 1..Len(a) : t[j] = a[j]
      /\ \A j \in 1..Len(b) : t[Len(a) + j] = b[j]
  BY <1>s, JoinIs
<1> HIDE DEF t
<1>5. Len(t) = Len(s)
  BY <1>1, <1>2, <1>3, <1>4
<1>6. \A j \in 1..Len(s) : t[j] = s[j]
  <2> SUFFICES ASSUME NEW j \in 1..Len(s) PROVE t[j] = s[j]
    OBVIOUS
  <2>1. CASE j \in 1..i
    BY <1>2, <1>4, <2>1
  <2>2. CASE j \notin 1..i
    <3>1. PICK h \in 1..(Len(s) - i) : j = i + h
      <4>1. j - i \in 1..(Len(s) - i) /\ j = i + (j - i)
        BY <1>1, <2>2
      <4> QED
        BY <4>1
    <3> QED
      BY <1>2, <1>3, <1>4, <3>1
  <2> QED
    BY <2>1, <2>2
<1>7. t = s
  BY <1>4, <1>5, <1>6, SameSeq
<1> QED
  BY <1>2, <1>3, <1>7 DEF t

(* s is a, then x, then b.                                                 *)
Parts(s, a, x, b) == s = a \o (<<x>> \o b)

LEMMA SplitAt ==
  ASSUME NEW X, NEW s \in Seq(X), NEW i \in 1..Len(s)
  PROVE  \E a, b \in Seq(X) : Parts(s, a, s[i], b) /\ Len(a) + 1 = i
<1>1. i - 1 \in 0..Len(s) /\ Len(s) \in Nat
  OBVIOUS
<1>2. PICK a \in Seq(X), c \in Seq(X) : s = a \o c /\ Len(a) = i - 1
  BY <1>1, CutAt
<1>3. /\ Len(s) = Len(a) + Len(c) /\ Len(c) \in Nat
      /\ \A j \in 1..Len(c) : s[Len(a) + j] = c[j]
  <2>1. /\ Len(a \o c) = Len(a) + Len(c) /\ Len(c) \in Nat
        /\ \A j \in 1..Len(c) : (a \o c)[Len(a) + j] = c[j]
    BY JoinIs
  <2>2. s = a \o c
    BY <1>2
  <2> QED
    BY <2>1, <2>2, Zenon
<1>4. 1 \in 0..Len(c) /\ 1 \in 1..Len(c) /\ Len(a) + 1 = i
  BY <1>1, <1>2, <1>3
<1>5. c[1] = s[i]
  BY <1>3, <1>4
<1>6. PICK d \in Seq(X), b \in Seq(X) : c = d \o b /\ Len(d) = 1
  BY <1>4, CutAt
<1>7. d = <<s[i]>>
  <2>1. d[1] = c[1]
    BY <1>6, JoinIs
  <2>2. s[i] \in X
    OBVIOUS
  <2>3. <<s[i]>> \in Seq(X) /\ Len(<<s[i]>>) = 1 /\ \A j \in 1..1 : <<s[i]>>[j] = d[j]
    BY <1>5, <2>1, <2>2
  <2> QED
    BY <1>6, <2>3, SameSeq
<1>8. Parts(s, a, s[i], b)
  BY <1>2, <1>6, <1>7 DEF Parts
<1> QED
  BY <1>4, <1>8

LEMMA SplitAround ==
  ASSUME NEW X, NEW s \in Seq(X), NEW x, x \in ToSet(s)
  PROVE  \E a, b \in Seq(X) : Parts(s, a, x, b)
<1>1. PICK i \in 1..Len(s) : s[i] = x
  BY Ranged
<1> QED
  BY <1>1, SplitAt

(* Induction over sequences, an entry more at the end.                     *)
LEMMA AppendInduction ==
  ASSUME NEW X, NEW G, <<>> \in G,
         \A s \in Seq(X), x \in X : s \in G => s \o <<x>> \in G
  PROVE  Seq(X) \subseteq G
<1> SUFFICES ASSUME NEW w \in Seq(X) PROVE w \in G
  OBVIOUS
<1> DEFINE n == Len(w)
           H == {i \in 0..n : \A s \in Seq(X) : Len(s) = i => s \in G}
<1>0. n \in Nat
  OBVIOUS
<1>1. 0 \in H
  BY <1>0
<1>2. ASSUME NEW i \in 1..n, i - 1 \in H PROVE i \in H
  <2>1. i \in 0..n /\ i \in Nat
    BY <1>0
  <2>2. ASSUME NEW s \in Seq(X), Len(s) = i PROVE s \in G
    <3>1. i \in 1..Len(s)
      BY <1>0, <2>2
    <3>2. PICK a \in Seq(X), b \in Seq(X) : Parts(s, a, s[i], b) /\ Len(a) + 1 = i
      BY <3>1, SplitAt
    <3>3. s[i] \in X
      BY <3>1
    <3>4. <<s[i]>> \in Seq(X) /\ Len(<<s[i]>>) = 1
      BY <3>3, OneIs
    <3> DEFINE c == <<s[i]>> \o b
    <3>5. c \in Seq(X) /\ Len(c) = 1 + Len(b) /\ Len(b) \in Nat
      BY <3>4, JoinIs
    <3> HIDE DEF c
    <3>6. Len(s) = Len(a) + Len(c) /\ Len(a) \in Nat
      BY <3>2, <3>5, JoinIs DEF c, Parts
    <3>7. Len(b) = 0
      BY <2>2, <3>2, <3>5, <3>6
    <3>8. b = <<>>
      BY <3>7
    <3>9. s = a \o <<s[i]>>
      BY <3>2, <3>4, <3>8, JoinEmpty DEF Parts
    <3>10. Len(a) = i - 1
      BY <2>1, <3>2, <3>6
    <3>11. a \in G
      BY <1>2, <3>10
    <3> QED
      BY <3>3, <3>9, <3>11
  <2> QED
    BY <2>1, <2>2
<1>3. 0..n \subseteq H
  <2> HIDE DEF H, n
  <2> QED
    BY <1>0, <1>1, <1>2, Induction
<1>4. n \in H
  <2>1. n \in 0..n
    BY <1>0
  <2> HIDE DEF H
  <2> QED
    BY <1>3, <2>1
<1> QED
  BY <1>4

LEMMA PartsAre ==
  ASSUME NEW X, NEW a \in Seq(X), NEW x \in X, NEW b \in Seq(X), NEW s, Parts(s, a, x, b)
  PROVE  /\ s \in Seq(X) /\ Len(a) \in Nat /\ Len(b) \in Nat
         /\ Len(s) = Len(a) + 1 + Len(b)
         /\ DOMAIN a = 1..Len(a) /\ DOMAIN b = 1..Len(b)
         /\ DOMAIN s = 1..(Len(a) + 1 + Len(b))
         /\ \A i \in 1..Len(a) : s[i] = a[i]
         /\ s[Len(a) + 1] = x
         /\ \A i \in 1..Len(b) : s[Len(a) + 1 + i] = b[i]
         /\ ToSet(s) = ToSet(a) \cup {x} \cup ToSet(b)
<1> DEFINE o == <<x>>
           c == o \o b
           t == a \o c
<1>1. o \in Seq(X) /\ Len(o) = 1 /\ o[1] = x /\ ToSet(o) = {x}
  BY OneIs, OneRange
<1> HIDE DEF o
<1>2. /\ c \in Seq(X) /\ Len(b) \in Nat /\ Len(c) = Len(o) + Len(b) /\ DOMAIN b = 1..Len(b)
      /\ \A i \in 1..Len(o) : c[i] = o[i]
      /\ \A i \in 1..Len(b) : c[Len(o) + i] = b[i]
      /\ ToSet(c) = ToSet(o) \cup ToSet(b)
  BY <1>1, JoinIs, JoinRange
<1> HIDE DEF c
<1>3. Len(c) = 1 + Len(b) /\ c[1] = x /\ \A i \in 1..Len(b) : c[1 + i] = b[i]
  BY <1>1, <1>2
<1>c. c \in Seq(X)
  BY <1>2
<1>4. /\ t \in Seq(X) /\ Len(a) \in Nat /\ Len(t) = Len(a) + Len(c) /\ DOMAIN a = 1..Len(a)
      /\ DOMAIN t = 1..(Len(a) + Len(c))
      /\ \A i \in 1..Len(a) : t[i] = a[i]
      /\ \A i \in 1..Len(c) : t[Len(a) + i] = c[i]
      /\ ToSet(t) = ToSet(a) \cup ToSet(c)
  BY <1>c, JoinIs, JoinRange
<1>5. s = t
  BY DEF Parts, c, o
<1> HIDE DEF t
<1>6. Len(t) = Len(a) + 1 + Len(b) /\ Len(a) + Len(c) = Len(a) + 1 + Len(b)
  <2>1. Len(a) \in Nat /\ Len(b) \in Nat /\ Len(t) = Len(a) + Len(c) /\ Len(c) = 1 + Len(b)
    BY <1>2, <1>3, <1>4
  <2> QED
    BY <2>1
<1>7. t[Len(a) + 1] = x
  <2>1. 1 \in 1..Len(c)
    BY <1>2, <1>3
  <2> QED
    BY <1>3, <1>4, <2>1
<1>8. ASSUME NEW i \in 1..Len(b) PROVE t[Len(a) + 1 + i] = b[i]
  <2>1. 1 + i \in 1..Len(c) /\ Len(a) + (1 + i) = Len(a) + 1 + i
    BY <1>2, <1>3, <1>4
  <2>2. t[Len(a) + (1 + i)] = c[1 + i]
    BY <1>4, <2>1
  <2> QED
    BY <1>3, <2>1, <2>2
<1>9. ToSet(t) = ToSet(a) \cup {x} \cup ToSet(b)
  BY <1>1, <1>2, <1>4
<1> QED
  BY <1>2, <1>4, <1>5, <1>6, <1>7, <1>8, <1>9

(* Parts of parts.                                                         *)
LEMMA PartsJoin ==
  ASSUME NEW X, NEW a \in Seq(X), NEW x \in X, NEW b \in Seq(X), NEW c \in Seq(X)
  PROVE  /\ Parts(c \o (a \o (<<x>> \o b)), c \o a, x, b)
         /\ Parts((a \o (<<x>> \o b)) \o c, a, x, b \o c)
<1>1. <<x>> \in Seq(X)
  BY OneIs
<1>2. <<x>> \o b \in Seq(X) /\ b \o c \in Seq(X)
  BY <1>1, JoinIs
<1>3. (c \o a) \o (<<x>> \o b) = c \o (a \o (<<x>> \o b))
  <2>1. All3(X, c, a, <<x>> \o b)
    BY <1>2 DEF All3
  <2> QED
    BY <2>1, Assoc
<1>4. (a \o (<<x>> \o b)) \o c = a \o ((<<x>> \o b) \o c)
  <2>1. All3(X, a, <<x>> \o b, c)
    BY <1>2 DEF All3
  <2> QED
    BY <2>1, Assoc
<1>5. (<<x>> \o b) \o c = <<x>> \o (b \o c)
  <2>1. All3(X, <<x>>, b, c)
    BY <1>1 DEF All3
  <2> QED
    BY <2>1, Assoc
<1> QED
  BY <1>3, <1>4, <1>5 DEF Parts

-----------------------------------------------------------------------------
(* Leaving entries out.                                                    *)

Sifts(f, s, K) ==
  /\ f[0] = <<>>
  /\ \A i \in 1..Len(s) : f[i] = IF s[i] \in K THEN Append(f[i - 1], s[i]) ELSE f[i - 1]

(* s without the entries that are not in K.                                *)
Sift(s, K) == (CHOOSE f : Sifts(f, s, K))[Len(s)]

LEMMA SiftIs ==
  ASSUME NEW X, NEW s \in Seq(X), NEW K
  PROVE  /\ Sift(s, K) \in Seq(X)
         /\ \E f : Sifts(f, s, K)
         /\ \A f : Sifts(f, s, K) => f[Len(s)] = Sift(s, K)
<1> DEFINE n == Len(s)
           step == [i \in 1..n |-> [u \in Seq(X) |->
                      IF s[i] \in K THEN Append(u, s[i]) ELSE u]]
           g == CHOOSE f : Sifts(f, s, K)
<1>1. n \in Nat /\ n = Len(s) /\ \A i \in 1..n : s[i] \in X
  OBVIOUS
<1>2. step \in [1..n -> [Seq(X) -> Seq(X)]]
  BY <1>1
<1>3. PICK h \in [0..n -> Seq(X)] : h[0] = <<>> /\ \A i \in 1..n : h[i] = step[i][h[i - 1]]
  <2> HIDE DEF step, n
  <2>1. <<>> \in Seq(X)
    OBVIOUS
  <2>2. \E h : Loop(h, Seq(X), n, <<>>, step)
    BY <1>1, <1>2, <2>1, LoopRuns
  <2> QED
    BY <2>2 DEF Loop
<1>4. Sifts(h, s, K)
  <2>1. \A i \in 1..n : i - 1 \in 0..n /\ i \in 1..n
    BY <1>1
  <2>2. \A i \in 1..n : h[i - 1] \in Seq(X)
    <3> HIDE DEF n
    <3> QED
      BY <1>3, <2>1
  <2> QED
    BY <1>3, <2>1, <2>2 DEF Sifts
<1>5. ASSUME NEW f, Sifts(f, s, K) PROVE f[n] = h[n]
  <2> DEFINE G == {i \in 0..n : f[i] = h[i]}
  <2>1. 0 \in G
    BY <1>1, <1>4, <1>5 DEF Sifts
  <2>2. ASSUME NEW i \in 1..n, i - 1 \in G PROVE i \in G
    <3>1. i \in 0..n /\ f[i - 1] = h[i - 1]
      BY <1>1, <2>2
    <3>2. f[i] = h[i]
      BY <1>1, <1>4, <1>5, <3>1 DEF Sifts
    <3> QED
      BY <3>1, <3>2
  <2> HIDE DEF G, n
  <2>3. 0..n \subseteq G
    BY <1>1, <2>1, <2>2, Induction
  <2>4. n \in 0..n
    BY <1>1
  <2> QED
    BY <2>3, <2>4 DEF G
<1>6. Sifts(g, s, K)
  BY <1>4
<1>7. Sift(s, K) = g[n]
  BY DEF Sift
<1> HIDE DEF g, n
<1>8. g[n] = h[n] /\ h[n] \in Seq(X)
  BY <1>1, <1>5, <1>6
<1>9. \A f : Sifts(f, s, K) => f[n] = Sift(s, K)
  BY <1>5, <1>7, <1>8, Zenon
<1> QED
  BY <1>1, <1>4, <1>7, <1>8, <1>9

LEMMA Longer ==
  ASSUME NEW X, NEW s \in Seq(X), NEW x \in X
  PROVE  s \o <<x>> \in Seq(X) /\ ToSet(s \o <<x>>) = ToSet(s) \cup {x}
<1> DEFINE o == <<x>>
<1>1. o \in Seq(X) /\ ToSet(o) = {x}
  BY OneIs, OneRange
<1> HIDE DEF o
<1>2. s \o o \in Seq(X) /\ ToSet(s \o o) = ToSet(s) \cup ToSet(o)
  BY <1>1, JoinIs, JoinRange
<1> QED
  BY <1>1, <1>2 DEF o

LEMMA SiftEmpty ==
  ASSUME NEW K
  PROVE  Sift(<<>>, K) = <<>>
<1>1. <<>> \in Seq({}) /\ Len(<<>>) = 0
  OBVIOUS
<1>2. \E f : Sifts(f, <<>>, K) /\ f[0] = Sift(<<>>, K)
  BY <1>1, SiftIs
<1> QED
  BY <1>2 DEF Sifts

LEMMA SiftAppend ==
  ASSUME NEW X, NEW s \in Seq(X), NEW x \in X, NEW K
  PROVE  Sift(s \o <<x>>, K) = IF x \in K THEN Sift(s, K) \o <<x>> ELSE Sift(s, K)
<1> DEFINE t == s \o <<x>>
           n == Len(s)
<1>1. /\ t \in Seq(X) /\ n \in Nat /\ n = Len(s) /\ Len(t) = n + 1
      /\ \A i \in 1..n : t[i] = s[i]
      /\ t[n + 1] = x
  OBVIOUS
<1>2. PICK f : Sifts(f, t, K) /\ f[Len(t)] = Sift(t, K)
  BY <1>1, SiftIs, Zenon
<1> HIDE DEF t, n
<1>3. \A i \in 1..n : i \in 1..(n + 1)
  BY <1>1
<1>4. Sifts(f, s, K)
  BY <1>1, <1>2, <1>3 DEF Sifts
<1>5. f[n] = Sift(s, K) /\ Sift(s, K) \in Seq(X)
  BY <1>1, <1>4, SiftIs
<1>6. n + 1 \in 1..Len(t) /\ (n + 1) - 1 = n
  BY <1>1
<1>7. f[n + 1] = IF x \in K THEN Append(f[n], x) ELSE f[n]
  BY <1>1, <1>2, <1>6 DEF Sifts
<1>8. ASSUME NEW u \in Seq(X) PROVE Append(u, x) = u \o <<x>>
  OBVIOUS
<1>9. Sift(t, K) = IF x \in K THEN Sift(s, K) \o <<x>> ELSE Sift(s, K)
  BY <1>1, <1>2, <1>5, <1>7, <1>8
<1> QED
  BY <1>9 DEF t

LEMMA SiftOne ==
  ASSUME NEW x, NEW K
  PROVE  Sift(<<x>>, K) = IF x \in K THEN <<x>> ELSE <<>>
<1>1. <<>> \in Seq({x}) /\ <<x>> \in Seq({x}) /\ x \in {x}
  OBVIOUS
<1>2. <<>> \o <<x>> = <<x>>
  BY <1>1, JoinEmpty
<1>3. Sift(<<>> \o <<x>>, K) = IF x \in K THEN Sift(<<>>, K) \o <<x>> ELSE Sift(<<>>, K)
  BY <1>1, SiftAppend
<1> QED
  BY <1>2, <1>3, SiftEmpty

LEMMA SiftJoin ==
  ASSUME NEW X, NEW a \in Seq(X), NEW b \in Seq(X), NEW K
  PROVE  Sift(a \o b, K) = Sift(a, K) \o Sift(b, K)
<1> DEFINE G == {s \in Seq(X) : Sift(a \o s, K) = Sift(a, K) \o Sift(s, K)}
<1>1. \A s \in Seq(X) : Sift(s, K) \in Seq(X)
  BY SiftIs
<1>2. <<>> \in G
  <2>1. Sift(a, K) \in Seq(X)
    BY <1>1
  <2> QED
    BY <2>1, JoinEmpty, SiftEmpty, EmptyIs
<1>3. ASSUME NEW s \in Seq(X), NEW x \in X, s \in G
      PROVE  s \o <<x>> \in G
  <2>1. <<x>> \in Seq(X) /\ a \o s \in Seq(X) /\ s \o <<x>> \in Seq(X)
    BY OneIs, JoinIs
  <2>2. a \o (s \o <<x>>) = (a \o s) \o <<x>>
    <3>1. All3(X, a, s, <<x>>)
      BY <2>1 DEF All3
    <3> QED
      BY <3>1, Assoc
  <2>3. /\ Sift((a \o s) \o <<x>>, K) =
             IF x \in K THEN Sift(a \o s, K) \o <<x>> ELSE Sift(a \o s, K)
        /\ Sift(s \o <<x>>, K) = IF x \in K THEN Sift(s, K) \o <<x>> ELSE Sift(s, K)
    BY <2>1, SiftAppend
  <2>4. (Sift(a, K) \o Sift(s, K)) \o <<x>> = Sift(a, K) \o (Sift(s, K) \o <<x>>)
    <3> DEFINE sa == Sift(a, K)
               ss == Sift(s, K)
               o == <<x>>
    <3>1. sa \in Seq(X) /\ ss \in Seq(X) /\ o \in Seq(X)
      BY <1>1, <2>1
    <3> HIDE DEF sa, ss, o
    <3>2. All3(X, sa, ss, o)
      BY <3>1 DEF All3
    <3>3. (sa \o ss) \o o = sa \o (ss \o o)
      BY <3>2, Assoc
    <3> QED
      BY <3>3 DEF sa, ss, o
  <2>5. Sift(a \o s, K) = Sift(a, K) \o Sift(s, K)
    BY <1>3
  <2>6. Sift(a \o (s \o <<x>>), K) = Sift(a, K) \o Sift(s \o <<x>>, K)
    BY <2>2, <2>3, <2>4, <2>5, Zenon
  <2> QED
    BY <2>1, <2>6
<1> HIDE DEF G
<1>4. Seq(X) \subseteq G
  BY <1>2, <1>3, AppendInduction
<1> QED
  BY <1>4 DEF G

LEMMA SiftTwo ==
  ASSUME NEW X, NEW a, NEW b, Two(X, a, b), NEW K
  PROVE  Sift(a \o b, K) = Sift(a, K) \o Sift(b, K)
<1>1. a \in Seq(X) /\ b \in Seq(X)
  BY DEF Two
<1> QED
  BY <1>1, SiftJoin

LEMMA SiftAll ==
  ASSUME NEW X, NEW s \in Seq(X), NEW K, ToSet(s) \subseteq K
  PROVE  Sift(s, K) = s
<1> DEFINE G == {t \in Seq(X) : ToSet(t) \subseteq K => Sift(t, K) = t}
<1>1. <<>> \in G
  BY SiftEmpty, EmptyIs
<1>2. ASSUME NEW t \in Seq(X), NEW x \in X, t \in G
      PROVE  t \o <<x>> \in G
  <2>2. t \o <<x>> \in Seq(X) /\ ToSet(t \o <<x>>) = ToSet(t) \cup {x}
    BY Longer
  <2>3. ToSet(t \o <<x>>) \subseteq K => Sift(t \o <<x>>, K) = t \o <<x>>
    BY <1>2, <2>2, SiftAppend
  <2> QED
    BY <2>2, <2>3
<1> HIDE DEF G
<1>3. Seq(X) \subseteq G
  BY <1>1, <1>2, AppendInduction
<1> QED
  BY <1>3 DEF G

LEMMA SiftNone ==
  ASSUME NEW X, NEW s \in Seq(X), NEW K, ToSet(s) \cap K = {}
  PROVE  Sift(s, K) = <<>>
<1> DEFINE G == {t \in Seq(X) : ToSet(t) \cap K = {} => Sift(t, K) = <<>>}
<1>1. <<>> \in G
  BY SiftEmpty, EmptyIs
<1>2. ASSUME NEW t \in Seq(X), NEW x \in X, t \in G
      PROVE  t \o <<x>> \in G
  <2>2. t \o <<x>> \in Seq(X) /\ ToSet(t \o <<x>>) = ToSet(t) \cup {x}
    BY Longer
  <2>3. ToSet(t \o <<x>>) \cap K = {} => Sift(t \o <<x>>, K) = <<>>
    BY <1>2, <2>2, SiftAppend
  <2> QED
    BY <2>2, <2>3
<1> HIDE DEF G
<1>3. Seq(X) \subseteq G
  BY <1>1, <1>2, AppendInduction
<1> QED
  BY <1>3 DEF G

(* What is left depends on which entries are in K, and sifting twice on    *)
(* which are in both.                                                      *)
LEMMA SiftTwice ==
  ASSUME NEW X, NEW s \in Seq(X), NEW K, NEW L, NEW M,
         \A x \in ToSet(s) : x \in M <=> x \in K /\ x \in L
  PROVE  Sift(Sift(s, K), L) = Sift(s, M)
<1> DEFINE G == {t \in Seq(X) : (\A x \in ToSet(t) : x \in M <=> x \in K /\ x \in L)
                                  => Sift(Sift(t, K), L) = Sift(t, M)}
<1>1. <<>> \in G
  BY SiftEmpty, EmptyIs
<1>2. ASSUME NEW t \in Seq(X), NEW x \in X, t \in G
      PROVE  t \o <<x>> \in G
  <2>2. t \o <<x>> \in Seq(X) /\ ToSet(t \o <<x>>) = ToSet(t) \cup {x}
    BY Longer
  <2>3. ASSUME \A y \in ToSet(t \o <<x>>) : y \in M <=> y \in K /\ y \in L
        PROVE  Sift(Sift(t \o <<x>>, K), L) = Sift(t \o <<x>>, M)
    <3>1. Sift(Sift(t, K), L) = Sift(t, M) /\ (x \in M <=> x \in K /\ x \in L)
      BY <1>2, <2>2, <2>3
    <3>2. Sift(t, K) \in Seq(X)
      BY SiftIs
    <3>3. /\ Sift(t \o <<x>>, K) = IF x \in K THEN Sift(t, K) \o <<x>> ELSE Sift(t, K)
          /\ Sift(t \o <<x>>, M) = IF x \in M THEN Sift(t, M) \o <<x>> ELSE Sift(t, M)
      BY SiftAppend
    <3>4. Sift(Sift(t, K) \o <<x>>, L) =
            IF x \in L THEN Sift(Sift(t, K), L) \o <<x>> ELSE Sift(Sift(t, K), L)
      BY <3>2, SiftAppend
    <3> QED
      BY <3>1, <3>3, <3>4
  <2> QED
    BY <2>2, <2>3
<1> HIDE DEF G
<1>3. Seq(X) \subseteq G
  BY <1>1, <1>2, AppendInduction
<1> QED
  BY <1>3 DEF G

LEMMA NotInSifts ==
  ASSUME NEW X, NEW s \in Seq(X), NEW S, NEW K,
         \A x \in ToSet(s) : x \in K <=> x \notin S
  PROVE  NotIn(s, S) = Sift(s, K)
<1> DEFINE n == Len(s)
           Is(f) == f = [i \in 0..n |-> IF i = 0 THEN <<>>
                                        ELSE IF s[i] \in S THEN f[i - 1]
                                        ELSE Append(f[i - 1], s[i])]
           g == CHOOSE f : Is(f)
<1>1. n \in Nat /\ n = Len(s) /\ \A i \in 1..n : i \in 0..n /\ i # 0 /\ (s[i] \in K <=> s[i] \notin S)
  BY DEF ToSet
<1>2. NotIn(s, S) = g[n]
  BY Zenon DEF NotIn
<1> HIDE DEF n
<1>3. PICK h : Sifts(h, s, K)
  BY SiftIs
<1>4. Is([i \in 0..n |-> h[i]])
  <2> DEFINE f == [i \in 0..n |-> h[i]]
  <2>1. \A i \in 0..n : f[i] = h[i]
    OBVIOUS
  <2>2. \A i \in 0..n : i # 0 => i \in 1..n /\ i - 1 \in 0..n
    BY <1>1
  <2>3. \A i \in 1..n : f[i] = IF s[i] \in S THEN f[i - 1] ELSE Append(f[i - 1], s[i])
    BY <1>1, <1>3, <2>1, <2>2 DEF Sifts
  <2>4. 0 \in 0..n /\ f[0] = <<>>
    BY <1>1, <1>3 DEF Sifts
  <2>5. \A i \in 0..n : f[i] = IF i = 0 THEN <<>>
                               ELSE IF s[i] \in S THEN f[i - 1]
                               ELSE Append(f[i - 1], s[i])
    <3> HIDE DEF f
    <3> QED
      BY <2>2, <2>3, <2>4
  <2> QED
    BY <2>5
<1>5. Is(g)
  BY <1>4
<1> HIDE DEF g
<1>6. Sifts(g, s, K)
  <2>1. \A i \in 0..n : g[i] = IF i = 0 THEN <<>>
                               ELSE IF s[i] \in S THEN g[i - 1]
                               ELSE Append(g[i - 1], s[i])
    BY <1>5
  <2>2. 0 \in 0..n
    BY <1>1
  <2> QED
    BY <1>1, <2>1, <2>2 DEF Sifts
<1> QED
  BY <1>1, <1>2, <1>6, SiftIs

(* NotIn by parts, and what it leaves when all or none of them stays.      *)
LEMMA NotInJoin ==
  ASSUME NEW X, NEW a \in Seq(X), NEW b \in Seq(X), NEW S
  PROVE  NotIn(a \o b, S) = NotIn(a, S) \o NotIn(b, S)
<1> DEFINE K == X \ S
<1>1. ASSUME NEW s \in Seq(X) PROVE NotIn(s, S) = Sift(s, K)
  <2>1. \A x \in ToSet(s) : x \in K <=> x \notin S
    BY Ranged
  <2> HIDE DEF K
  <2> QED
    BY <2>1, NotInSifts
<1>2. a \o b \in Seq(X)
  BY JoinIs
<1> HIDE DEF K
<1>3. Sift(a \o b, K) = Sift(a, K) \o Sift(b, K)
  BY SiftJoin
<1> QED
  BY <1>1, <1>2, <1>3

LEMMA NotInTwo ==
  ASSUME NEW X, NEW a, NEW b, Two(X, a, b), NEW S
  PROVE  NotIn(a \o b, S) = NotIn(a, S) \o NotIn(b, S)
<1>1. a \in Seq(X) /\ b \in Seq(X)
  BY DEF Two
<1> QED
  BY <1>1, NotInJoin

LEMMA NotInSome ==
  ASSUME NEW X, NEW a \in Seq(X), NEW S
  PROVE  /\ NotIn(a, S) \in Seq(X)
         /\ ToSet(NotIn(a, S)) = ToSet(a) \ S
         /\ ToSet(a) \cap S = {} => NotIn(a, S) = a
         /\ ToSet(a) \subseteq S => NotIn(a, S) = <<>>
<1> DEFINE K == X \ S
<1>1. ASSUME NEW s \in Seq(X) PROVE NotIn(s, S) = Sift(s, K)
  <2>1. \A x \in ToSet(s) : x \in K <=> x \notin S
    BY Ranged
  <2> HIDE DEF K
  <2> QED
    BY <2>1, NotInSifts
<1>3. NotIn(a, S) \in Seq(X) /\ ToSet(NotIn(a, S)) = ToSet(a) \ S
  BY NotInRange
<1>4. ToSet(a) \cap S = {} => ToSet(a) \subseteq K
  BY Ranged
<1>5. ToSet(a) \subseteq S => ToSet(a) \cap K = {}
  OBVIOUS
<1> HIDE DEF K
<1>8. ToSet(a) \subseteq K => Sift(a, K) = a
  BY SiftAll
<1>9. ToSet(a) \cap K = {} => Sift(a, K) = <<>>
  BY SiftNone
<1> QED
  BY <1>1, <1>3, <1>4, <1>5, <1>8, <1>9

LEMMA SiftRange ==
  ASSUME NEW X, NEW s \in Seq(X), NEW K
  PROVE  ToSet(Sift(s, K)) = ToSet(s) \cap K
<1> DEFINE G == {t \in Seq(X) : ToSet(Sift(t, K)) = ToSet(t) \cap K}
<1>1. <<>> \in G
  BY SiftEmpty, EmptyIs
<1>2. ASSUME NEW t \in Seq(X), NEW x \in X, t \in G
      PROVE  t \o <<x>> \in G
  <2>1. t \o <<x>> \in Seq(X) /\ ToSet(t \o <<x>>) = ToSet(t) \cup {x}
    BY Longer
  <2>2. Sift(t, K) \in Seq(X)
    BY SiftIs
  <2>3. ToSet(Sift(t, K) \o <<x>>) = ToSet(Sift(t, K)) \cup {x}
    BY <2>2, Longer
  <2>4. ToSet(Sift(t \o <<x>>, K)) = ToSet(t \o <<x>>) \cap K
    <3>1. Sift(t \o <<x>>, K) = IF x \in K THEN Sift(t, K) \o <<x>> ELSE Sift(t, K)
      BY SiftAppend
    <3>2. ToSet(Sift(t, K)) = ToSet(t) \cap K
      BY <1>2
    <3>3. CASE x \in K
      BY <2>1, <2>3, <3>1, <3>2, <3>3, Zenon
    <3>4. CASE x \notin K
      BY <2>1, <3>1, <3>2, <3>4, Zenon
    <3> QED
      BY <3>3, <3>4
  <2> QED
    BY <2>1, <2>4
<1> HIDE DEF G
<1>3. Seq(X) \subseteq G
  BY <1>1, <1>2, AppendInduction
<1> QED
  BY <1>3 DEF G

-----------------------------------------------------------------------------
(* A sequence of sequences, flattened.                                     *)
Joins(f, ss, X) ==
  /\ f \in [0..Len(ss) -> Seq(X)] /\ f[0] = <<>>
  /\ \A i \in 1..Len(ss) : f[i] = f[i - 1] \o ss[i]

LEMMA FlattenLoop ==
  ASSUME NEW X, NEW ss \in Seq(Seq(X)), NEW f, Joins(f, ss, X)
  PROVE  FlattenSeq(ss) = f[Len(ss)]
<1> DEFINE n == Len(ss)
           Is(g) == g = [i \in 1..n |-> IF i = 1 THEN ss[i] ELSE g[i - 1] \o ss[i]]
           h == CHOOSE g : Is(g)
           g0 == [i \in 1..n |-> f[i]]
<1>1. n \in Nat /\ \A i \in 1..n : ss[i] \in Seq(X)
  OBVIOUS
<1>2. CASE n = 0
  <2>1. FlattenSeq(ss) = ss
    BY <1>2 DEF FlattenSeq
  <2>2. ss = <<>>
    BY <1>2
  <2> QED
    BY <1>2, <2>1, <2>2 DEF Joins
<1>3. CASE n # 0
  <2>1. FlattenSeq(ss) = h[n]
    BY <1>3, Zenon DEF FlattenSeq
  <2>2. /\ f[0] = <<>> /\ \A i \in 1..n : f[i] = f[i - 1] \o ss[i]
    BY DEF Joins
  <2> HIDE DEF n
  <2>3. 1 \in 1..n
    BY <1>1, <1>3
  <2>4. f[1] = ss[1]
    <3>1. f[1] = <<>> \o ss[1]
      <4>1. f[1] = f[1 - 1] \o ss[1]
        BY <2>2, <2>3, Zenon
      <4>2. 1 - 1 = 0
        OBVIOUS
      <4> QED
        BY <2>2, <4>1, <4>2, Zenon
    <3>2. ss[1] \in Seq(X)
      BY <1>1, <2>3
    <3> DEFINE u == ss[1]
    <3> HIDE DEF u
    <3>3. <<>> \o u = u
      BY <3>2, JoinEmpty DEF u
    <3> QED
      BY <3>1, <3>3 DEF u
  <2>5. \A i \in 1..n : i # 1 => i - 1 \in 1..n
    BY <1>1
  <2>6. \A i \in 1..n : f[i] = IF i = 1 THEN ss[i] ELSE f[i - 1] \o ss[i]
    BY <2>2, <2>4
  <2>7. \A i \in 1..n : f[i] = IF i = 1 THEN ss[i] ELSE g0[i - 1] \o ss[i]
    BY <2>5, <2>6
  <2>8. Is(g0)
    BY <2>7
  <2>9. Is(h)
    BY <2>8
  <2> HIDE DEF h, g0
  <2>10. \A i \in 1..n : h[i] = IF i = 1 THEN ss[i] ELSE h[i - 1] \o ss[i]
    BY <2>9
  <2> DEFINE G == {i \in 0..n : i # 0 => h[i] = f[i]}
  <2>11. 0 \in G
    BY <1>1
  <2>12. ASSUME NEW i \in 1..n, i - 1 \in G PROVE i \in G
    <3>1. i \in 0..n
      BY <1>1
    <3>2. CASE i = 1
      BY <2>3, <2>4, <2>10, <3>1, <3>2
    <3>3. CASE i # 1
      <4>1. h[i - 1] = f[i - 1]
        BY <2>5, <2>12, <3>3
      <4>2. h[i] = f[i]
        BY <2>6, <2>10, <3>3, <4>1
      <4> QED
        BY <3>1, <4>2
    <3> QED
      BY <3>2, <3>3
  <2>13. n \in G
    <3>1. 0..n \subseteq G
      <4> HIDE DEF G
      <4> QED
        BY <1>1, <2>11, <2>12, Induction
    <3>2. n \in 0..n
      BY <1>1
    <3> HIDE DEF G
    <3> QED
      BY <3>1, <3>2
  <2> QED
    BY <1>3, <2>1, <2>13 DEF n
<1> QED
  BY <1>2, <1>3

LEMMA JoinsRuns ==
  ASSUME NEW X, NEW ss \in Seq(Seq(X))
  PROVE  \E f : Joins(f, ss, X)
<1> DEFINE n == Len(ss)
           Y == Seq(X)
           step == [i \in 1..n |-> [a \in Y |-> a \o ss[i]]]
           base == <<>>
<1>1. n \in Nat /\ \A i \in 1..n : ss[i] \in Seq(X) /\ i - 1 \in 0..n
  OBVIOUS
<1>2. ASSUME NEW a \in Seq(X), NEW i \in 1..n PROVE a \o ss[i] \in Seq(X)
  BY <1>1, JoinIs
<1>3. base \in Y
  BY EmptyIs
<1> HIDE DEF Y, base
<1>4. step \in [1..n -> [Y -> Y]] /\ \A i \in 1..n, a \in Y : step[i][a] = a \o ss[i]
  BY <1>2 DEF Y
<1> HIDE DEF step
<1>5. PICK f : Loop(f, Y, n, base, step)
  BY <1>1, <1>3, <1>4, LoopRuns
<1>6. f \in [0..n -> Y] /\ f[0] = base /\ \A i \in 1..n : f[i] = step[i][f[i - 1]]
  BY <1>5 DEF Loop
<1>7. \A i \in 1..n : f[i] = f[i - 1] \o ss[i]
  BY <1>1, <1>4, <1>6
<1> QED
  BY <1>6, <1>7 DEF Joins, Y, base

LEMMA FlattenAppend ==
  ASSUME NEW X, NEW ss \in Seq(Seq(X)), NEW u \in Seq(X)
  PROVE  /\ FlattenSeq(ss) \in Seq(X)
         /\ FlattenSeq(ss \o <<u>>) = FlattenSeq(ss) \o u
<1> DEFINE Y == Seq(X)
           o == <<u>>
           n == Len(ss)
<1>1. o \in Seq(Y) /\ Len(o) = 1 /\ o[1] = u
  BY OneIs
<1>o. o \in Seq(Y)
  BY <1>1
<1> HIDE DEF o
<1>y. ss \in Seq(Y)
  OBVIOUS
<1> HIDE DEF Y
<1>2. /\ ss \o o \in Seq(Y) /\ Len(ss \o o) = Len(ss) + Len(o) /\ Len(ss) \in Nat
      /\ \A i \in 1..Len(ss) : (ss \o o)[i] = ss[i]
      /\ \A i \in 1..Len(o) : (ss \o o)[Len(ss) + i] = o[i]
  BY <1>o, <1>y, JoinIs
<1> DEFINE t == ss \o o
<1> HIDE DEF t
<1>3. /\ t \in Seq(Y) /\ Len(t) = n + 1 /\ n \in Nat
      /\ \A i \in 1..n : t[i] = ss[i]
      /\ t[n + 1] = u
  <2>1. 1 \in 1..Len(o)
    BY <1>1
  <2> QED
    BY <1>1, <1>2, <2>1 DEF t
<1> HIDE DEF n
<1>4. PICK f : Joins(f, t, X)
  BY <1>3, JoinsRuns DEF Y
<1>5. FlattenSeq(t) = f[n + 1]
  BY <1>3, <1>4, FlattenLoop DEF Y
<1>6. /\ f \in [0..(n + 1) -> Seq(X)] /\ f[0] = <<>>
      /\ \A i \in 1..(n + 1) : f[i] = f[i - 1] \o t[i]
  BY <1>3, <1>4 DEF Joins
<1> DEFINE g == [i \in 0..n |-> f[i]]
<1>7. Joins(g, ss, X)
  <2>1. \A i \in 0..n : i \in 0..(n + 1) /\ g[i] = f[i]
    BY <1>3
  <2>2. g \in [0..n -> Seq(X)]
    BY <1>6, <2>1
  <2>3. \A i \in 1..n : i \in 1..(n + 1) /\ i \in 0..n /\ i - 1 \in 0..n
    BY <1>3
  <2>4. 0 \in 0..n
    BY <1>3
  <2> HIDE DEF g
  <2>5. \A i \in 1..n : g[i] = g[i - 1] \o ss[i]
    BY <1>3, <1>6, <2>1, <2>3
  <2>6. g[0] = <<>>
    BY <1>6, <2>1, <2>4
  <2> QED
    BY <2>2, <2>5, <2>6 DEF Joins, n
<1>8. FlattenSeq(ss) = g[n]
  <2> HIDE DEF g
  <2> QED
    BY <1>7, FlattenLoop DEF n
<1>9. n \in 0..n /\ n + 1 \in 1..(n + 1) /\ (n + 1) - 1 = n /\ n \in 0..(n + 1)
  BY <1>3
<1>10. g[n] = f[n]
  BY <1>9
<1>11. f[n + 1] = f[n] \o t[n + 1] /\ f[n] \in Seq(X)
  BY <1>6, <1>9
<1> HIDE DEF g
<1> QED
  BY <1>3, <1>5, <1>8, <1>10, <1>11 DEF t, o

LEMMA FlattenEmpty == FlattenSeq(<<>>) = <<>>
BY DEF FlattenSeq

LEMMA FlattenOne ==
  ASSUME NEW X, NEW u \in Seq(X)
  PROVE  FlattenSeq(<<u>>) = u
<1> DEFINE o == <<u>>
           none == <<>>
           Y == Seq(X)
<1>1. o \in Seq(Y)
  BY OneIs
<1> HIDE DEF o
<1>2. none \o o = o
  BY <1>1, JoinEmpty
<1> HIDE DEF Y
<1>3. none \in Seq(Seq(X))
  BY EmptyIs
<1>4. FlattenSeq(none) = <<>>
  BY FlattenEmpty
<1> HIDE DEF none
<1>5. FlattenSeq(none \o <<u>>) = FlattenSeq(none) \o u
  BY <1>3, FlattenAppend
<1>6. <<>> \o u = u
  BY JoinEmpty
<1> QED
  BY <1>2, <1>4, <1>5, <1>6 DEF o

LEMMA FlattenJoin ==
  ASSUME NEW X, NEW s \in Seq(Seq(X)), NEW t \in Seq(Seq(X))
  PROVE  /\ FlattenSeq(s \o t) = FlattenSeq(s) \o FlattenSeq(t)
         /\ FlattenSeq(s) \in Seq(X) /\ FlattenSeq(t) \in Seq(X)
<1> DEFINE Y == Seq(X)
           G == {r \in Seq(Seq(X)) : FlattenSeq(s \o r) = FlattenSeq(s) \o FlattenSeq(r)}
<1>0. \A r \in Seq(Seq(X)) : FlattenSeq(r) \in Seq(X)
  <2> SUFFICES ASSUME NEW r \in Seq(Seq(X)) PROVE FlattenSeq(r) \in Seq(X)
    OBVIOUS
  <2> DEFINE none == <<>>
  <2>1. none \in Seq(X)
    BY EmptyIs
  <2> HIDE DEF none
  <2> QED
    BY <2>1, FlattenAppend
<1>1. <<>> \in G
  <2>1. s \o <<>> = s
    BY JoinEmpty
  <2>2. FlattenSeq(s) \in Seq(X)
    BY <1>0
  <2> DEFINE w == FlattenSeq(s)
  <2> HIDE DEF w
  <2>3. w \o <<>> = w
    <3>1. w \in Seq(X)
      BY <2>2 DEF w
    <3> QED
      BY <3>1, JoinEmpty
  <2>4. FlattenSeq(s \o <<>>) = FlattenSeq(s) \o FlattenSeq(<<>>)
    BY <2>1, <2>3, FlattenEmpty DEF w
  <2>5. <<>> \in Seq(Seq(X))
    BY EmptyIs
  <2> QED
    BY <2>4, <2>5
<1>2. ASSUME NEW r \in Seq(Y), NEW u \in Y, r \in G PROVE r \o <<u>> \in G
  <2> DEFINE o == <<u>>
             sr == s \o r
             a == FlattenSeq(s)
             b == FlattenSeq(r)
  <2>1. o \in Seq(Y)
    BY OneIs
  <2> HIDE DEF o
  <2>2. All3(Y, s, r, o)
    BY <2>1 DEF All3
  <2> HIDE DEF Y
  <2>3. sr \o o = s \o (r \o o) /\ sr \in Seq(Y) /\ r \o o \in Seq(Y)
    BY <2>2, Assoc
  <2>4. FlattenSeq(sr) = a \o b
    BY <1>2
  <2> HIDE DEF sr
  <2>5. FlattenSeq(sr \o <<u>>) = FlattenSeq(sr) \o u
    BY <2>3, FlattenAppend DEF Y
  <2>6. FlattenSeq(r \o <<u>>) = b \o u
    BY FlattenAppend DEF Y
  <2>7. All3(X, a, b, u)
    BY <1>0 DEF All3, Y
  <2> HIDE DEF a, b
  <2>8. (a \o b) \o u = a \o (b \o u)
    BY <2>7, Assoc
  <2>9. FlattenSeq(s \o (r \o o)) = a \o FlattenSeq(r \o o)
    BY <2>3, <2>4, <2>5, <2>6, <2>8 DEF o
  <2> QED
    BY <2>3, <2>9 DEF o, a, Y
<1> HIDE DEF G
<1>3. Seq(Y) \subseteq G
  BY <1>1, <1>2, AppendInduction
<1>4. t \in G
  BY <1>3
<1> QED
  BY <1>0, <1>4 DEF G

LEMMA NotInTwice ==
  ASSUME NEW X, NEW s \in Seq(X), NEW S, NEW T
  PROVE  NotIn(NotIn(s, S), T) = NotIn(s, S \cup T)
<1> DEFINE u == NotIn(s, S)
           K == X \ S
           L == X \ T
           M == X \ (S \cup T)
<1>1. \A x \in ToSet(s) : x \in X
  BY Ranged
<1>2. u \in Seq(X) /\ \A x \in ToSet(u) : x \in X
  BY <1>1, NotInSome
<1>3. \A x \in ToSet(s) : (x \in K <=> x \notin S) /\ (x \in M <=> x \notin S \cup T)
                          /\ (x \in M <=> x \in K /\ x \in L)
  BY <1>1
<1>4. \A x \in ToSet(u) : x \in L <=> x \notin T
  BY <1>2
<1> HIDE DEF u, K, L, M
<1>5. NotIn(s, S) = Sift(s, K) /\ NotIn(s, S \cup T) = Sift(s, M)
  BY <1>3, NotInSifts
<1>6. NotIn(u, T) = Sift(u, L)
  BY <1>2, <1>4, NotInSifts
<1>7. Sift(Sift(s, K), L) = Sift(s, M)
  BY <1>3, SiftTwice
<1> QED
  BY <1>5, <1>6, <1>7 DEF u

LEMMA NotInAgree ==
  ASSUME NEW X, NEW s \in Seq(X), NEW S, NEW T, \A x \in ToSet(s) : x \in S <=> x \in T
  PROVE  NotIn(s, S) = NotIn(s, T)
<1> DEFINE K == ToSet(s) \ S
<1>1. \A x \in ToSet(s) : (x \in K <=> x \notin S) /\ (x \in K <=> x \notin T)
  OBVIOUS
<1> HIDE DEF K
<1>2. NotIn(s, S) = Sift(s, K) /\ NotIn(s, T) = Sift(s, K)
  BY <1>1, NotInSifts
<1> QED
  BY <1>2
=============================================================================
