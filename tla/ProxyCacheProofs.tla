-------------------------- MODULE ProxyCacheProofs --------------------------
(***************************************************************************)
(* Theorems about ProxyCache, for every number of holders, calls, wrappers *)
(* and nodes and every sweep size.                                         *)
(***************************************************************************)
EXTENDS ProxyCache, LoopLemmas, FiniteSetTheorems

(***************************************************************************)
(* What each operator of SlotTable preserves.                              *)
(***************************************************************************)

\* The counter and the list are exact; the sweep size may be reached.  This is
\* the state of a table between an insertion and the sweep that follows it.
CountedOK(t) ==
  /\ CountIsExact(t)
  /\ TrackingIsExact(t)
  /\ NothingBeyondEnd(t)

\* Every set of node ids is finite and has a natural number of elements.
LEMMA NodeSetsFinite ==
  ASSUME NEW S \in SUBSET NodeId
  PROVE  IsFiniteSet(S) /\ Cardinality(S) \in Nat
<1>1. IsFiniteSet(NodeId)
  BY MaxIdAssumption, FS_Interval DEF NodeId
<1>2. IsFiniteSet(S)
  BY <1>1, FS_Subset
<1> QED
  BY <1>2, FS_CardinalityType

\* Popping the vectors always has a result: the while loop stops.
LEMMA PoppedLenExists ==
  ASSUME NEW len \in 0 .. MaxId,
         NEW slot \in [NodeId -> Cell], NEW bit \in [NodeId -> BOOLEAN]
  PROVE  LET l == PoppedLen(len, slot, bit)
         IN  /\ l \in 0 .. len
             /\ \A n \in l .. len - 1 : slot[n] = Empty /\ ~bit[n]
<1> DEFINE Free(l) == \A n \in l .. len - 1 : slot[n] = Empty /\ ~bit[n]
           S == {l \in 0 .. len : Free(l)}
<1>1. len \in S
  BY MaxIdAssumption
<1>2. PICK l \in S : \A y \in S : l <= y
  <2>1. S \subseteq 0 .. len /\ 0 .. len \subseteq Nat
    BY MaxIdAssumption
  <2> HIDE DEF S
  <2> QED
    BY <1>1, <2>1, LeastNumber
<1>3. l > 0 => slot[l-1] # Empty \/ bit[l-1]
  <2> SUFFICES ASSUME l > 0, slot[l-1] = Empty, ~bit[l-1]
               PROVE  FALSE
    OBVIOUS
  <2>1. l - 1 \in 0 .. len
    OBVIOUS
  <2>2. Free(l - 1)
    <3> SUFFICES ASSUME NEW n \in (l - 1) .. len - 1
                 PROVE  slot[n] = Empty /\ ~bit[n]
      OBVIOUS
    <3>1. n = l - 1 \/ n \in l .. len - 1
      BY MaxIdAssumption
    <3> QED
      BY <3>1
  <2>3. l <= l - 1
    BY <1>2, <2>1, <2>2
  <2> QED
    BY <2>3
<1>4. \E k \in 0 .. len : /\ k > 0 => slot[k-1] # Empty \/ bit[k-1]
                          /\ \A n \in k .. len - 1 : slot[n] = Empty /\ ~bit[n]
  BY <1>2, <1>3
<1> QED
  BY <1>4 DEF PoppedLen

\* A new table is well formed.
LEMMA NewTableOK == NewTable \in Table /\ TableOK(NewTable)
<1>1. NewTable \in Table
  BY MaxIdAssumption, SweepMinAssumption DEF NewTable, Table, Cell
<1>2. Filled(NewTable) = {}
  BY DEF NewTable, Filled
<1>3. CountIsExact(NewTable)
  BY <1>2, FS_EmptySet DEF CountIsExact, NewTable
<1>4. BelowSweepSize(NewTable)
  BY SweepMinAssumption DEF BelowSweepSize, NewTable
<1> QED
  BY <1>1, <1>3, <1>4 DEF TableOK, TrackingIsExact, NothingBeyondEnd, NewTable

\* A sweep counts each live slot once when the tracked list is exact.
LEMMA LiveCount ==
  ASSUME NEW t \in Table, TrackingIsExact(t)
  PROVE  /\ Kept(t) = Live(t)
         /\ Cardinality(Occurrences(t, Kept(t))) = Cardinality(Live(t))
<1>1. \A n \in Live(t) : t.track[n] = 1
  BY CellAssumption DEF TrackingIsExact, Live
<1>2. Kept(t) = Live(t)
  BY <1>1 DEF Kept, Listed, Live
<1>3. \A n \in Live(t) : 1 .. t.track[n] = {1}
  BY <1>1
<1>4. Occurrences(t, Live(t)) = Live(t) \X {1}
  BY <1>3 DEF Occurrences
<1>5. IsFiniteSet(Live(t)) /\ Cardinality(Live(t)) \in Nat
  BY NodeSetsFinite DEF Live
<1>6. IsFiniteSet({1}) /\ Cardinality({1}) = 1
  BY FS_Singleton
<1>7. Cardinality(Live(t) \X {1}) = Cardinality(Live(t)) * 1
  BY <1>5, <1>6, FS_Product
<1> QED
  BY <1>2, <1>4, <1>5, <1>7

(***************************************************************************)
(* sweep_dead drops every dead entry and nothing else, and leaves a table  *)
(* in which counter, list, bits and sweep size are exact.                  *)
(***************************************************************************)
LEMMA SweepOK ==
  ASSUME NEW t \in Table, TrackingIsExact(t), NothingBeyondEnd(t)
  PROVE  /\ SweepDead(t) \in Table
         /\ TableOK(SweepDead(t))
         /\ \A n \in NodeId : SweepDead(t).slot[n] =
                IF t.slot[n] = Tombstone THEN Empty ELSE t.slot[n]
<1> DEFINE r       == SweepDead(t)
           dropped == Listed(t) \ Kept(t)
           slot    == [n \in NodeId |-> IF n \in dropped THEN Empty ELSE t.slot[n]]
           bit     == [n \in NodeId |-> n \notin dropped /\ t.bit[n]]
           live    == Cardinality(Occurrences(t, Kept(t)))
           l       == PoppedLen(t.len, slot, bit)
<1>1. /\ t.len \in 0 .. MaxId
      /\ t.slot \in [NodeId -> Cell]
      /\ t.bit \in [NodeId -> BOOLEAN]
      /\ t.track \in [NodeId -> Nat]
  BY DEF Table
<1>2. \A n \in NodeId : n \in dropped <=> t.slot[n] \notin Wrapper /\ t.bit[n]
  BY <1>1 DEF Listed, Kept, Live, TrackingIsExact
<1>3. \A n \in NodeId :
         slot[n] = IF t.slot[n] = Tombstone THEN Empty ELSE t.slot[n]
  BY <1>1, <1>2, CellAssumption DEF Cell, TrackingIsExact
<1>4. /\ slot \in [NodeId -> Cell]
      /\ bit \in [NodeId -> BOOLEAN]
  BY <1>1 DEF Cell
<1>5. /\ r.slot = slot
      /\ r.bit = bit
      /\ r.len = l
      /\ r.entries = live
      /\ r.track = [n \in NodeId |-> IF n \in dropped THEN 0 ELSE t.track[n]]
      /\ r.sweepAt = IF 2 * live > SweepMin THEN 2 * live ELSE SweepMin
  BY DEF SweepDead
<1>6. /\ l \in 0 .. t.len
      /\ \A n \in l .. t.len - 1 : slot[n] = Empty /\ ~bit[n]
  <2> HIDE DEF slot, bit
  <2> QED
    BY <1>1, <1>4, PoppedLenExists
<1>7. live = Cardinality(Live(t)) /\ live \in Nat
  BY LiveCount, NodeSetsFinite DEF Live
<1>8. r \in Table
  <2>1. r.len \in 0 .. MaxId
    BY <1>1, <1>5, <1>6, MaxIdAssumption
  <2>2. r.track \in [NodeId -> Nat]
    BY <1>1, <1>5
  <2>3. r.sweepAt \in Nat
    BY <1>5, <1>7, SweepMinAssumption
  <2> QED
    BY <1>4, <1>5, <1>7, <2>1, <2>2, <2>3 DEF SweepDead, Table
<1>9. CountIsExact(r)
  <2>1. Filled(r) = Live(t)
    BY <1>1, <1>3, <1>5, CellAssumption DEF Filled, Live, Cell
  <2> QED
    BY <1>5, <1>7, <2>1 DEF CountIsExact
<1>10. TrackingIsExact(r)
  <2> SUFFICES ASSUME NEW n \in NodeId
               PROVE  /\ r.track[n] = IF r.bit[n] THEN 1 ELSE 0
                      /\ r.slot[n] # Empty => r.bit[n]
    BY DEF TrackingIsExact
  <2>1. /\ t.track[n] = IF t.bit[n] THEN 1 ELSE 0
        /\ t.slot[n] # Empty => t.bit[n]
    BY DEF TrackingIsExact
  <2>2. CASE n \in dropped
    <3>1. r.track[n] = 0 /\ r.bit[n] = FALSE /\ r.slot[n] = Empty
      BY <1>5, <2>2
    <3> QED
      BY <3>1
  <2>3. CASE n \notin dropped
    <3>1. r.track[n] = t.track[n] /\ r.slot[n] = t.slot[n]
      BY <1>5, <2>3
    <3>2. r.bit[n] = t.bit[n]
      BY <1>1, <1>5, <2>3
    <3> QED
      BY <2>1, <3>1, <3>2
  <2> QED
    BY <2>2, <2>3
<1>11. NothingBeyondEnd(r)
  <2> SUFFICES ASSUME NEW n \in NodeId, n >= l
               PROVE  slot[n] = Empty /\ ~bit[n]
    BY <1>5 DEF NothingBeyondEnd
  <2>1. CASE n >= t.len
    BY <2>1, <1>1 DEF NothingBeyondEnd
  <2>2. CASE n < t.len
    <3>1. n \in l .. t.len - 1
      BY <2>2, <1>1, <1>6, MaxIdAssumption DEF NodeId
    <3> QED
      BY <3>1, <1>6
  <2> QED
    BY <2>1, <2>2, <1>1, MaxIdAssumption DEF NodeId
<1>12. BelowSweepSize(r)
  BY <1>5, <1>7, SweepMinAssumption DEF BelowSweepSize
<1> QED
  BY <1>3, <1>5, <1>8, <1>9, <1>10, <1>11, <1>12 DEF TableOK

\* remove_proxy_slot empties one slot and counts it out.
LEMMA RemoveSlotOK ==
  ASSUME NEW t \in Table, TableOK(t), NEW n \in NodeId
  PROVE  /\ RemoveSlot(t, n) \in Table
         /\ TableOK(RemoveSlot(t, n))
         /\ RemoveSlot(t, n).slot = [t.slot EXCEPT ![n] = Empty]
<1> DEFINE r == RemoveSlot(t, n)
<1>1. /\ t.len \in 0 .. MaxId
      /\ t.slot \in [NodeId -> Cell]
      /\ t.entries \in Nat
      /\ CountIsExact(t)
  BY DEF Table, TableOK
<1>2. CASE n < t.len /\ t.slot[n] # Empty
  <2>1. Filled(r) = Filled(t) \ {n} /\ n \in Filled(t)
    BY <1>1, <1>2 DEF RemoveSlot, Filled, Table
  <2>2. IsFiniteSet(Filled(t)) /\ Cardinality(Filled(t)) \in Nat
    BY NodeSetsFinite DEF Filled
  <2>3. Cardinality(Filled(r)) = Cardinality(Filled(t)) - 1
    BY <2>1, <2>2, FS_RemoveElement
  <2>4. Cardinality(Filled(r)) \in Nat
    BY NodeSetsFinite DEF Filled
  <2>5. r.entries = t.entries - 1 /\ t.entries > 0
    BY <1>1, <1>2, <2>2, <2>3, <2>4 DEF RemoveSlot, Table, CountIsExact
  <2>6. r \in Table
    <3>1. r = [t EXCEPT !.slot = [t.slot EXCEPT ![n] = Empty],
                        !.entries = IF t.entries = 0 THEN 0 ELSE t.entries - 1]
      BY <1>2 DEF RemoveSlot, Table
    <3>2. [t.slot EXCEPT ![n] = Empty] \in [NodeId -> Cell]
      BY <1>1 DEF Cell
    <3>3. (IF t.entries = 0 THEN 0 ELSE t.entries - 1) \in Nat
      BY <1>1
    <3> QED
      BY <3>1, <3>2, <3>3 DEF Table
  <2>7. r.slot = [t.slot EXCEPT ![n] = Empty]
    BY <1>2 DEF RemoveSlot, Table
  <2>8. CountIsExact(r)
    BY <1>1, <2>3, <2>5 DEF CountIsExact
  <2>9. TrackingIsExact(r) /\ NothingBeyondEnd(r)
    BY <1>1, <1>2 DEF RemoveSlot, Table, TableOK, TrackingIsExact, NothingBeyondEnd
  <2>10. BelowSweepSize(r)
    BY <1>2, <2>5 DEF RemoveSlot, Table, TableOK, BelowSweepSize
  <2> QED
    BY <2>6, <2>7, <2>8, <2>9, <2>10 DEF TableOK
<1>3. CASE ~(n < t.len /\ t.slot[n] # Empty)
  <2>1. r = t
    BY <1>3 DEF RemoveSlot
  <2>2. t.slot[n] = Empty
    BY <1>1, <1>3, MaxIdAssumption DEF TableOK, NothingBeyondEnd, NodeId
  <2>3. t.slot = [t.slot EXCEPT ![n] = Empty]
    BY <1>1, <2>2
  <2> QED
    BY <2>1, <2>3
<1> QED
  BY <1>2, <1>3

\* insert_proxy_slot keeps counter and list exact, whatever the slot held.
LEMMA InsertSlotOK ==
  ASSUME NEW t \in Table, CountedOK(t), NEW n \in NodeId, NEW w \in Wrapper
  PROVE  /\ InsertSlot(t, n, w) \in Table
         /\ CountedOK(InsertSlot(t, n, w))
         /\ InsertSlot(t, n, w).slot = [t.slot EXCEPT ![n] = w]
<1> DEFINE r == InsertSlot(t, n, w)
<1>1. /\ t.len \in 0 .. MaxId
      /\ t.slot \in [NodeId -> Cell]
      /\ t.bit \in [NodeId -> BOOLEAN]
      /\ t.track \in [NodeId -> Nat]
      /\ t.entries \in Nat
      /\ t.sweepAt \in Nat
  BY DEF Table
<1>2. /\ r.slot = [t.slot EXCEPT ![n] = w]
      /\ r.bit = [t.bit EXCEPT ![n] = TRUE]
      /\ r.len = IF n >= t.len THEN n + 1 ELSE t.len
      /\ r.track = IF t.bit[n] THEN t.track ELSE [t.track EXCEPT ![n] = @ + 1]
      /\ r.entries = IF t.slot[n] = Empty THEN t.entries + 1 ELSE t.entries
      /\ r.sweepAt = t.sweepAt
  BY DEF InsertSlot
<1>3. r.len \in 0 .. MaxId
  BY <1>1, <1>2, MaxIdAssumption DEF NodeId
<1>4. r \in Table
  BY <1>1, <1>2, <1>3 DEF InsertSlot, Table, Cell
<1>5. Filled(r) = Filled(t) \cup {n}
  BY <1>1, <1>2, CellAssumption DEF Filled
<1>6. CountIsExact(r)
  <2>1. IsFiniteSet(Filled(t))
    BY NodeSetsFinite DEF Filled
  <2>2. n \in Filled(t) <=> t.slot[n] # Empty
    BY DEF Filled
  <2>3. Cardinality(Filled(t) \cup {n}) =
          IF n \in Filled(t) THEN Cardinality(Filled(t)) ELSE Cardinality(Filled(t)) + 1
    BY <2>1, FS_AddElement
  <2>4. t.entries = Cardinality(Filled(t))
    BY DEF CountedOK, CountIsExact
  <2> QED
    BY <1>2, <1>5, <2>2, <2>3, <2>4 DEF CountIsExact
<1>7. TrackingIsExact(r)
  BY <1>1, <1>2 DEF CountedOK, TrackingIsExact
<1>8. NothingBeyondEnd(r)
  BY <1>1, <1>2, MaxIdAssumption DEF CountedOK, NothingBeyondEnd, NodeId
<1> QED
  BY <1>2, <1>4, <1>6, <1>7, <1>8 DEF CountedOK

(***************************************************************************)
(* An insertion with its opportunistic sweep puts w in its slot, loses no  *)
(* other live entry and may only reclaim dead ones.                        *)
(***************************************************************************)
LEMMA InsertAndSweepOK ==
  ASSUME NEW t \in Table, TableOK(t), NEW n \in NodeId, NEW w \in Wrapper
  PROVE  LET r == InsertAndSweep(t, n, w)
         IN  /\ r \in Table
             /\ TableOK(r)
             /\ r.slot[n] = w
             /\ \A m \in NodeId \ {n} :
                  \/ r.slot[m] = t.slot[m]
                  \/ t.slot[m] = Tombstone /\ r.slot[m] = Empty
<1> DEFINE f == InsertSlot(t, n, w)
<1>1. CountedOK(t)
  BY DEF TableOK, CountedOK
<1>2. f \in Table /\ CountedOK(f) /\ f.slot = [t.slot EXCEPT ![n] = w]
  BY <1>1, InsertSlotOK
<1>3. t.slot \in [NodeId -> Cell] /\ t.sweepAt \in Nat
  BY DEF Table
<1>4. CASE f.entries >= f.sweepAt
  <2>1. InsertAndSweep(t, n, w) = SweepDead(f)
    BY <1>4 DEF InsertAndSweep
  <2>2. /\ SweepDead(f) \in Table
        /\ TableOK(SweepDead(f))
        /\ \A m \in NodeId : SweepDead(f).slot[m] =
              IF f.slot[m] = Tombstone THEN Empty ELSE f.slot[m]
    BY <1>2, SweepOK DEF CountedOK
  <2> QED
    BY <1>2, <1>3, <2>1, <2>2, CellAssumption
<1>5. CASE ~(f.entries >= f.sweepAt)
  <2>1. InsertAndSweep(t, n, w) = f
    BY <1>5 DEF InsertAndSweep
  <2>2. f.entries \in Nat /\ f.sweepAt = t.sweepAt
    BY <1>2 DEF Table, InsertSlot
  <2>3. BelowSweepSize(f)
    BY <1>3, <1>5, <2>2 DEF BelowSweepSize, TableOK
  <2> QED
    BY <1>2, <1>3, <2>1, <2>3 DEF CountedOK, TableOK
<1> QED
  BY <1>4, <1>5

\* The death of a wrapper turns its entries into tombstones and is not counted.
LEMMA ClearWeakrefsOK ==
  ASSUME NEW t \in Table, TableOK(t), NEW w \in Wrapper
  PROVE  /\ ClearWeakrefs(t, w) \in Table
         /\ TableOK(ClearWeakrefs(t, w))
         /\ \A n \in NodeId : ClearWeakrefs(t, w).slot[n] =
                IF t.slot[n] = w THEN Tombstone ELSE t.slot[n]
<1> DEFINE r == ClearWeakrefs(t, w)
<1>1. t.slot \in [NodeId -> Cell]
  BY DEF Table
<1>2. r.slot = [n \in NodeId |-> IF t.slot[n] = w THEN Tombstone ELSE t.slot[n]]
  BY DEF ClearWeakrefs, Table
<1>3. /\ r.len = t.len /\ r.bit = t.bit /\ r.track = t.track
      /\ r.entries = t.entries /\ r.sweepAt = t.sweepAt
  BY DEF ClearWeakrefs, Table
<1>4. r \in Table
  <2>1. r.slot \in [NodeId -> Cell]
    BY <1>1, <1>2 DEF Cell
  <2> QED
    BY <2>1 DEF ClearWeakrefs, Table
<1>5. Filled(r) = Filled(t)
  BY <1>1, <1>2, CellAssumption DEF Filled
<1>6. TableOK(r)
  BY <1>1, <1>2, <1>3, <1>5, CellAssumption
     DEF TableOK, CountIsExact, TrackingIsExact, NothingBeyondEnd, BelowSweepSize
<1> QED
  BY <1>2, <1>4, <1>6

-----------------------------------------------------------------------------
(***************************************************************************)
(* Subtrees, edits of child lists and the walk in lock step.               *)
(***************************************************************************)

\* The subtree of s holds s, is closed, and is in every closed set that holds s.
LEMMA BelowIs ==
  ASSUME NEW k \in Links, NEW s \in NodeId
  PROVE  /\ Below(k, s) \in SUBSET NodeId
         /\ s \in Below(k, s)
         /\ ClosedUnder(k, Below(k, s))
         /\ \A T \in SUBSET NodeId : s \in T /\ ClosedUnder(k, T) => Below(k, s) \subseteq T
<1>1. \A n \in NodeId : ToSet(k[n]) \subseteq NodeId
  <2> TAKE n \in NodeId
  <2>1. k[n] \in Seq(NodeId)
    BY DEF Links
  <2> QED
    BY <2>1, Ranged
<1>2. ClosedUnder(k, Below(k, s))
  <2> SUFFICES ASSUME NEW n \in Below(k, s), NEW m \in ToSet(k[n]) PROVE m \in Below(k, s)
    BY DEF ClosedUnder
  <2>1. n \in NodeId /\ m \in NodeId
    BY <1>1 DEF Below
  <2>2. ASSUME NEW T \in SUBSET NodeId, s \in T, ClosedUnder(k, T) PROVE m \in T
    <3>1. n \in T
      BY <2>2 DEF Below
    <3> QED
      BY <2>2, <3>1 DEF ClosedUnder
  <2> QED
    BY <2>1, <2>2 DEF Below
<1> QED
  BY <1>2 DEF Below

\* A node of a subtree is its root or in the subtree of a child of the root.
LEMMA BelowStep ==
  ASSUME NEW k \in Links, NEW s \in NodeId, NEW n \in Below(k, s), n # s
  PROVE  \E m \in ToSet(k[s]) : m \in NodeId /\ n \in Below(k, m)
<1> DEFINE C == {m \in NodeId : m \in ToSet(k[s])}
           T == {x \in NodeId : x = s \/ \E m \in C : x \in Below(k, m)}
<1>1. k[s] \in Seq(NodeId)
  BY DEF Links
<1>2. C = ToSet(k[s])
  BY <1>1, Ranged
<1>3. ClosedUnder(k, T)
  <2> SUFFICES ASSUME NEW x \in T, NEW y \in ToSet(k[x]) PROVE y \in T
    BY DEF ClosedUnder
  <2>1. CASE x = s
    <3>1. y \in C
      BY <1>2, <2>1
    <3>2. y \in Below(k, y)
      BY <3>1, BelowIs
    <3> QED
      BY <3>1, <3>2
  <2>2. CASE x # s
    <3>1. PICK m \in C : x \in Below(k, m)
      BY <2>2
    <3>2. y \in Below(k, m) /\ Below(k, m) \in SUBSET NodeId
      BY <3>1, BelowIs DEF ClosedUnder
    <3> QED
      BY <3>1, <3>2
  <2> QED
    BY <2>1, <2>2
<1>4. s \in T /\ T \in SUBSET NodeId
  OBVIOUS
<1> HIDE DEF T
<1>5. n \in T
  BY <1>3, <1>4, BelowIs
<1> QED
  BY <1>2, <1>5 DEF T

\* No node of a subtree has the root of the subtree for a child.
LEMMA NoWayBack ==
  ASSUME NEW size, NEW k, LinksOK(size, k), NEW s \in NodeId, NEW n \in Below(k, s)
  PROVE  s \notin ToSet(k[n])
<1> SUFFICES ASSUME s \in ToSet(k[n]) PROVE FALSE
  OBVIOUS
<1> DEFINE T == {m \in Below(k, s) : s \in Below(k, m)}
<1>1. k \in Links
  BY DEF LinksOK
<1>2. Below(k, s) \in SUBSET NodeId /\ ClosedUnder(k, Below(k, s)) /\ s \in Below(k, s)
  BY <1>1, BelowIs
<1>3. ASSUME NEW m \in T PROVE ToSet(k[m]) \cap T # {}
  <2>1. m \in NodeId /\ m \in Below(k, s) /\ s \in Below(k, m)
    BY <1>2
  <2>2. \E x \in ToSet(k[m]) : x \in NodeId /\ s \in Below(k, x)
    <3>1. CASE m # s
      BY <1>1, <2>1, <3>1, BelowStep
    <3>2. CASE m = s /\ n = s
      <4>1. s \in Below(k, s)
        BY <1>2
      <4> QED
        BY <3>2, <4>1
    <3>3. CASE m = s /\ n # s
      <4>1. PICK x \in ToSet(k[s]) : x \in NodeId /\ n \in Below(k, x)
        BY <1>1, <3>3, BelowStep
      <4>2. s \in Below(k, x)
        BY <1>1, <4>1, BelowIs DEF ClosedUnder
      <4> QED
        BY <3>3, <4>1, <4>2
    <3> QED
      BY <3>1, <3>2, <3>3
  <2>3. PICK x \in ToSet(k[m]) : x \in NodeId /\ s \in Below(k, x)
    BY <2>2
  <2>4. x \in Below(k, s)
    BY <1>2, <2>1, <2>3 DEF ClosedUnder
  <2> QED
    BY <2>3, <2>4
<1>4. s \in T
  BY <1>2
<1>5. T \in SUBSET NodeId
  BY <1>2
<1> HIDE DEF T
<1>6. \A U \in SUBSET NodeId : U # {} => \E m \in U : ToSet(k[m]) \cap U = {}
  BY DEF LinksOK
<1>7. T # {}
  BY <1>4
<1> QED
  BY <1>3, <1>5, <1>6, <1>7

\* A node is in one place at most.
OnePlace(k) ==
  \A p, q \in NodeId : \A i \in DOMAIN k[p], j \in DOMAIN k[q] :
    k[p][i] = k[q][j] => p = q /\ i = j

LEMMA SamePlace ==
  ASSUME NEW k, OnePlace(k), NEW p \in NodeId, NEW q \in NodeId, NEW i, NEW j,
         i \in DOMAIN k[p], j \in DOMAIN k[q], k[p][i] = k[q][j]
  PROVE  p = q /\ i = j
BY Zenon DEF OnePlace

\* Taking a node away from its parent leaves a forest, and the other lists.
LEMMA DetachedOK ==
  ASSUME NEW size, NEW k, LinksOK(size, k), NEW n
  PROVE  /\ LinksOK(size, Detached(k, n))
         /\ \A p \in NodeId : /\ ToSet(Detached(k, n)[p]) = ToSet(k[p]) \ {n}
                              /\ n \notin ToSet(k[p]) => Detached(k, n)[p] = k[p]
<1> DEFINE l == Detached(k, n)
<1>1. \A p \in NodeId : l[p] = NotIn(k[p], {n})
  BY DEF Detached
<1>2. \A p \in NodeId : k[p] \in Seq(NodeId)
  BY DEF LinksOK, Links
<1>3. \A p \in NodeId : l[p] \in Seq(NodeId) /\ ToSet(l[p]) = ToSet(k[p]) \ {n}
  BY <1>1, <1>2, NotInSome
<1>4. \A p \in NodeId : n \notin ToSet(k[p]) => l[p] = k[p]
  <2> TAKE p \in NodeId
  <2>1. ToSet(k[p]) \cap {n} = {} => NotIn(k[p], {n}) = k[p]
    BY <1>2, NotInSome
  <2> QED
    BY <1>1, <2>1
<1>5. ASSUME NEW p \in NodeId PROVE \E g : Thinned(k[p], l[p], g)
  <2>1. \E g : Spares(k[p], {n}, NotIn(k[p], {n}), g)
    BY <1>2, NotInIs
  <2> QED
    BY <1>1, <2>1 DEF Spares
<1>6. l \in Links
  BY <1>3 DEF Links, Detached
<1>f. OnePlace(k)
  BY DEF LinksOK, OnePlace
<1> HIDE DEF l
<1>7. \A p \in NodeId : \A i \in DOMAIN l[p] : p < size /\ l[p][i] < size
  <2> SUFFICES ASSUME NEW p \in NodeId, NEW i \in DOMAIN l[p]
               PROVE  p < size /\ l[p][i] < size
    OBVIOUS
  <2>1. PICK g : Thinned(k[p], l[p], g)
    BY <1>5
  <2>2. g[i] \in DOMAIN k[p] /\ l[p][i] = k[p][g[i]]
    BY <2>1 DEF Thinned
  <2> QED
    BY <2>2 DEF LinksOK
<1>8. \A p, q \in NodeId : \A i \in DOMAIN l[p], j \in DOMAIN l[q] :
        l[p][i] = l[q][j] => p = q /\ i = j
  <2> SUFFICES ASSUME NEW p \in NodeId, NEW q \in NodeId,
                      NEW i \in DOMAIN l[p], NEW j \in DOMAIN l[q], l[p][i] = l[q][j]
               PROVE  p = q /\ i = j
    OBVIOUS
  <2>1. PICK g : Thinned(k[p], l[p], g)
    BY <1>5
  <2>2. g[i] \in DOMAIN k[p] /\ l[p][i] = k[p][g[i]]
    BY <2>1 DEF Thinned
  <2>3. PICK e : Thinned(k[q], l[q], e)
    BY <1>5
  <2>4. e[j] \in DOMAIN k[q] /\ l[q][j] = k[q][e[j]]
    BY <2>3 DEF Thinned
  <2>a. k[p][g[i]] = k[q][e[j]]
    BY <2>2, <2>4
  <2>5. p = q
    BY <1>f, <2>2, <2>4, <2>a, SamePlace
  <2>6. g[j] \in DOMAIN k[p] /\ l[p][j] = k[p][g[j]]
    BY <2>1, <2>5 DEF Thinned
  <2>b. k[p][g[i]] = k[p][g[j]]
    BY <2>2, <2>5, <2>6
  <2>7. g[i] = g[j]
    BY <1>f, <2>2, <2>6, <2>b, SamePlace
  <2>8. l[p] \in Seq(NodeId) /\ i \in DOMAIN l[p] /\ j \in DOMAIN l[p]
    BY <1>3, <2>5
  <2>9. /\ i \in Nat /\ j \in Nat
        /\ i < j => g[i] < g[j]
        /\ j < i => g[j] < g[i]
    BY <2>1, <2>8 DEF Thinned
  <2>10. g[i] \in Nat
    BY <1>2, <2>2
  <2> QED
    BY <2>5, <2>7, <2>9, <2>10
<1>9. \A T \in SUBSET NodeId : T # {} => \E m \in T : ToSet(l[m]) \cap T = {}
  <2> SUFFICES ASSUME NEW T \in SUBSET NodeId, T # {} PROVE \E m \in T : ToSet(l[m]) \cap T = {}
    OBVIOUS
  <2>1. PICK m \in T : ToSet(k[m]) \cap T = {}
    BY DEF LinksOK
  <2>2. ToSet(l[m]) = ToSet(k[m]) \ {n}
    BY <1>3
  <2> QED
    BY <2>1, <2>2
<1> QED
  BY <1>3, <1>4, <1>6, <1>7, <1>8, <1>9 DEF LinksOK, l

\* Giving a node without a parent to one that is not in its subtree leaves a
\* forest, and the other lists.
LEMMA AttachedOK ==
  ASSUME NEW size, NEW k, LinksOK(size, k), NEW p \in NodeId, NEW n \in NodeId,
         p < size, n < size, ~HasParent(k, n), p \notin Below(k, n)
  PROVE  /\ LinksOK(size, Attached(k, p, n))
         /\ \A q \in NodeId : /\ q # p => Attached(k, p, n)[q] = k[q]
                              /\ ToSet(Attached(k, p, n)[q]) \subseteq ToSet(k[q]) \cup {n}
<1> DEFINE l == Attached(k, p, n)
<1>1. \A q \in NodeId : k[q] \in Seq(NodeId)
  BY DEF LinksOK, Links
<1>2. /\ l[p] = Append(k[p], n)
      /\ \A q \in NodeId : q # p => l[q] = k[q]
      /\ l \in Links
  BY <1>1 DEF Attached, LinksOK, Links
<1>3. \A q \in NodeId : ToSet(k[q]) = {k[q][i] : i \in DOMAIN k[q]}
  BY DEF ToSet
<1>4. \A q \in NodeId : n \notin ToSet(k[q])
  BY DEF HasParent
<1> HIDE DEF l
<1>5. /\ DOMAIN l[p] = DOMAIN k[p] \cup {Len(k[p]) + 1}
      /\ l[p][Len(k[p]) + 1] = n
      /\ \A i \in DOMAIN k[p] : l[p][i] = k[p][i] /\ i # Len(k[p]) + 1
  BY <1>1, <1>2
<1>6. ToSet(l[p]) = ToSet(k[p]) \cup {n}
  BY <1>5 DEF ToSet
<1>7. \A q \in NodeId : \A i \in DOMAIN l[q] : q < size /\ l[q][i] < size
  BY <1>2, <1>5 DEF LinksOK
<1>8. \A q, r \in NodeId : \A i \in DOMAIN l[q], j \in DOMAIN l[r] :
        l[q][i] = l[r][j] => q = r /\ i = j
  <2>1. \A q \in NodeId : \A i \in DOMAIN k[q] : k[q][i] # n
    BY <1>3, <1>4
  <2>2. \A q \in NodeId : \A i \in DOMAIN l[q] :
          (i \in DOMAIN k[q] /\ l[q][i] = k[q][i]) \/ (q = p /\ i = Len(k[p]) + 1 /\ l[q][i] = n)
    BY <1>2, <1>5
  <2> QED
    BY <2>1, <2>2 DEF LinksOK
<1>9. \A T \in SUBSET NodeId : T # {} => \E m \in T : ToSet(l[m]) \cap T = {}
  <2> SUFFICES ASSUME NEW T \in SUBSET NodeId, T # {} PROVE \E m \in T : ToSet(l[m]) \cap T = {}
    OBVIOUS
  <2>1. CASE n \notin T
    <3>1. PICK m \in T : ToSet(k[m]) \cap T = {}
      BY DEF LinksOK
    <3>2. ToSet(l[m]) \subseteq ToSet(k[m]) \cup {n}
      BY <1>2, <1>6
    <3> QED
      BY <2>1, <3>1, <3>2
  <2>2. CASE n \in T
    <3> DEFINE B == Below(k, n)
               U == T \cap B
    <3>1. n \in B /\ ClosedUnder(k, B) /\ B \in SUBSET NodeId
      BY BelowIs DEF LinksOK
    <3> HIDE DEF B
    <3>2. U # {} /\ U \in SUBSET NodeId
      BY <2>2, <3>1
    <3>3. PICK m \in U : ToSet(k[m]) \cap U = {}
      BY <3>2 DEF LinksOK
    <3>4. m # p
      BY <3>3 DEF B
    <3>5. ToSet(l[m]) = ToSet(k[m]) /\ ToSet(k[m]) \subseteq B
      BY <1>2, <3>1, <3>3, <3>4 DEF ClosedUnder
    <3> QED
      BY <3>3, <3>5
  <2> QED
    BY <2>1, <2>2
<1>10. \A q \in NodeId : ToSet(l[q]) \subseteq ToSet(k[q]) \cup {n}
  BY <1>2, <1>6
<1> QED
  BY <1>2, <1>7, <1>8, <1>9, <1>10 DEF LinksOK, l

\* The list of a copy: the copies of the members of the list.
CopyOf(t, f) == [i \in DOMAIN t |-> f[t[i]]]

LEMMA WithCopyIs ==
  ASSUME NEW k \in Links, NEW l \in Links, NEW S \in SUBSET NodeId,
         NEW f \in [S -> NodeId], \A r, s \in S : f[r] = f[s] => r = s,
         ClosedUnder(k, S)
  PROVE  /\ WithCopy(k, l, f) \in Links
         /\ \A s \in S : WithCopy(k, l, f)[f[s]] = CopyOf(k[s], f)
         /\ \A m \in NodeId : (\A s \in S : f[s] # m) => WithCopy(k, l, f)[m] = l[m]
<1> DEFINE w == WithCopy(k, l, f)
<1>1. \A s \in S : w[f[s]] = CopyOf(k[s], f)
  <2> TAKE s \in S
  <2>1. f[s] \in NodeId /\ DOMAIN f = S
    OBVIOUS
  <2>2. (CHOOSE r \in DOMAIN f : f[r] = f[s]) = s
    BY <2>1
  <2>3. w[f[s]] = LET r == CHOOSE r \in DOMAIN f : f[r] = f[s]
                  IN  [i \in DOMAIN k[r] |-> f[k[r][i]]]
    BY <2>1 DEF WithCopy
  <2> QED
    BY <2>2, <2>3 DEF CopyOf
<1>2. \A m \in NodeId : (\A s \in S : f[s] # m) => w[m] = l[m]
  BY DEF WithCopy
<1>3. DOMAIN w = NodeId /\ w = [m \in NodeId |-> w[m]]
  BY DEF WithCopy
<1> HIDE DEF w
<1>4. \A s \in S : CopyOf(k[s], f) \in Seq(NodeId)
  <2> TAKE s \in S
  <2>1. k[s] \in Seq(NodeId) /\ ToSet(k[s]) \subseteq S
    BY DEF ClosedUnder, Links
  <2>2. \A i \in DOMAIN k[s] : k[s][i] \in S
    BY <2>1, Ranged
  <2>3. \A i \in 1..Len(k[s]) : f[k[s][i]] \in NodeId
    BY <2>1, <2>2
  <2>4. CopyOf(k[s], f) \in [1..Len(k[s]) -> NodeId] /\ Len(k[s]) \in Nat
    BY <2>1, <2>3 DEF CopyOf
  <2> QED
    BY <2>4
<1>5. \A m \in NodeId : w[m] \in Seq(NodeId)
  <2> TAKE m \in NodeId
  <2>1. CASE \E s \in S : f[s] = m
    BY <1>1, <1>4, <2>1
  <2>2. CASE \A s \in S : f[s] # m
    BY <1>2, <2>2 DEF Links
  <2> QED
    BY <2>1, <2>2
<1>6. w \in Links
  BY <1>3, <1>5 DEF Links
<1> QED
  BY <1>1, <1>2, <1>6 DEF w

\* A copy put beyond the end of a forest leaves a forest.
LEMMA WithCopyOK ==
  ASSUME NEW size, NEW k, LinksOK(size, k),
         NEW old \in Nat, NEW new \in Nat, old <= new, NEW l, LinksOK(old, l),
         NEW S \in SUBSET NodeId, ClosedUnder(k, S),
         NEW f \in [S -> NodeId], \A r, s \in S : f[r] = f[s] => r = s,
         \A s \in S : old <= f[s] /\ f[s] < new
  PROVE  LinksOK(new, WithCopy(k, l, f))
<1> DEFINE w == WithCopy(k, l, f)
<1>1. /\ w \in Links
      /\ \A s \in S : w[f[s]] = CopyOf(k[s], f)
      /\ \A m \in NodeId : (\A s \in S : f[s] # m) => w[m] = l[m]
  BY WithCopyIs DEF LinksOK
<1>2. \A s \in S : \A i \in DOMAIN k[s] : k[s][i] \in S
  <2> TAKE s \in S
  <2>1. k[s] \in Seq(NodeId) /\ ToSet(k[s]) \subseteq S
    BY DEF ClosedUnder, LinksOK, Links
  <2> QED
    BY <2>1, Ranged
<1>f. OnePlace(l)
  BY DEF LinksOK, OnePlace
<1> HIDE DEF w
\* where a member of one of the new lists comes from
<1>3. ASSUME NEW p \in NodeId, NEW i \in DOMAIN w[p]
      PROVE  \/ \E s \in S : /\ p = f[s] /\ i \in DOMAIN k[s]
                             /\ k[s][i] \in S /\ w[p][i] = f[k[s][i]]
             \/ /\ \A s \in S : f[s] # p
                /\ i \in DOMAIN l[p] /\ w[p][i] = l[p][i] /\ l[p][i] < old /\ p < old
  <2>1. CASE \E s \in S : f[s] = p
    <3>1. PICK s \in S : f[s] = p
      BY <2>1
    <3>2. w[p] = CopyOf(k[s], f)
      BY <1>1, <3>1
    <3>3. i \in DOMAIN k[s] /\ w[p][i] = f[k[s][i]]
      BY <3>2 DEF CopyOf
    <3> QED
      BY <1>2, <3>1, <3>3
  <2>2. CASE \A s \in S : f[s] # p
    <3>1. w[p] = l[p]
      BY <1>1, <2>2
    <3> QED
      BY <2>2, <3>1 DEF LinksOK
  <2> QED
    BY <2>1, <2>2
<1>4. \A p \in NodeId : \A i \in DOMAIN w[p] : p < new /\ w[p][i] < new
  <2> SUFFICES ASSUME NEW p \in NodeId, NEW i \in DOMAIN w[p] PROVE p < new /\ w[p][i] < new
    OBVIOUS
  <2>1. CASE \E s \in S : /\ p = f[s] /\ i \in DOMAIN k[s]
                          /\ k[s][i] \in S /\ w[p][i] = f[k[s][i]]
    BY <2>1
  <2>2. CASE w[p][i] = l[p][i] /\ l[p][i] < old /\ p < old /\ i \in DOMAIN l[p]
    <3>1. l[p] \in Seq(NodeId)
      BY DEF LinksOK, Links
    <3>2. l[p][i] \in NodeId
      BY <2>2, <3>1
    <3> QED
      BY <2>2, <3>2, MaxIdAssumption DEF NodeId
  <2> QED
    BY <1>3, <2>1, <2>2
<1>5. \A p, q \in NodeId : \A i \in DOMAIN w[p], j \in DOMAIN w[q] :
        w[p][i] = w[q][j] => p = q /\ i = j
  <2> SUFFICES ASSUME NEW p \in NodeId, NEW q \in NodeId,
                      NEW i \in DOMAIN w[p], NEW j \in DOMAIN w[q], w[p][i] = w[q][j]
               PROVE  p = q /\ i = j
    OBVIOUS
  <2>1. ASSUME NEW s \in S, NEW x, x < old, x \in Int PROVE f[s] # x
    BY <2>1, MaxIdAssumption DEF NodeId
  <2>2. ASSUME NEW r \in NodeId, NEW x \in DOMAIN l[r] PROVE l[r][x] \in Int
    <3>1. l[r] \in Seq(NodeId)
      BY DEF LinksOK, Links
    <3>2. l[r][x] \in NodeId
      BY <2>2, <3>1
    <3> QED
      BY <3>2, MaxIdAssumption DEF NodeId
  <2>3. CASE \E s \in S : /\ p = f[s] /\ i \in DOMAIN k[s]
                          /\ k[s][i] \in S /\ w[p][i] = f[k[s][i]]
    <3>1. PICK s \in S : /\ p = f[s] /\ i \in DOMAIN k[s]
                         /\ k[s][i] \in S /\ w[p][i] = f[k[s][i]]
      BY <2>3
    <3>2. PICK r \in S : /\ q = f[r] /\ j \in DOMAIN k[r]
                         /\ k[r][j] \in S /\ w[q][j] = f[k[r][j]]
      BY <1>3, <2>1, <2>2, <3>1
    <3>3. k[s][i] = k[r][j]
      BY <3>1, <3>2
    <3>4. s \in NodeId /\ r \in NodeId
      OBVIOUS
    <3>5. s = r /\ i = j
      BY <3>1, <3>2, <3>3, <3>4 DEF LinksOK
    <3> QED
      BY <3>1, <3>2, <3>5
  <2>4. CASE i \in DOMAIN l[p] /\ w[p][i] = l[p][i] /\ l[p][i] < old
    <3>1. l[p][i] \in Int
      BY <2>2, <2>4
    <3>2. \A s \in S : f[s] # w[q][j]
      BY <2>1, <2>4, <3>1
    <3>3. j \in DOMAIN l[q] /\ w[q][j] = l[q][j]
      BY <1>3, <3>2
    <3>4. i \in DOMAIN l[p] /\ l[p][i] = l[q][j]
      BY <2>4, <3>3
    <3>5. j \in DOMAIN l[q]
      BY <3>3
    <3> QED
      BY <1>f, <3>4, <3>5, SamePlace
  <2> QED
    BY <1>3, <2>3, <2>4
<1>6. \A T \in SUBSET NodeId : T # {} => \E m \in T : ToSet(w[m]) \cap T = {}
  <2> SUFFICES ASSUME NEW T \in SUBSET NodeId, T # {} PROVE \E m \in T : ToSet(w[m]) \cap T = {}
    OBVIOUS
  <2>0. \A m \in T : \A x : x \in ToSet(w[m]) <=> \E i \in DOMAIN w[m] : w[m][i] = x
    BY DEF ToSet
  <2>1. CASE \E s \in S : f[s] \in T
    <3> DEFINE U == {s \in S : f[s] \in T}
    <3>1. U # {} /\ U \in SUBSET NodeId
      BY <2>1
    <3> HIDE DEF U
    <3>2. PICK s \in U : ToSet(k[s]) \cap U = {}
      BY <3>1 DEF LinksOK
    <3>3. s \in S /\ f[s] \in T /\ w[f[s]] = CopyOf(k[s], f)
      BY <1>1, <3>2 DEF U
    <3>4. ASSUME NEW x \in ToSet(w[f[s]]), x \in T PROVE FALSE
      <4>1. PICK i \in DOMAIN w[f[s]] : w[f[s]][i] = x
        BY <2>0, <3>3
      <4>2. i \in DOMAIN k[s] /\ x = f[k[s][i]]
        BY <3>3, <4>1 DEF CopyOf
      <4>3. k[s][i] \in S
        BY <1>2, <3>3, <4>2
      <4>4. k[s][i] \in U
        BY <3>4, <4>2, <4>3 DEF U
      <4>5. k[s][i] \in ToSet(k[s])
        BY <4>2 DEF ToSet
      <4> QED
        BY <3>2, <4>4, <4>5
    <3> QED
      BY <3>3, <3>4
  <2>2. CASE \A s \in S : f[s] \notin T
    <3>1. PICK m \in T : ToSet(l[m]) \cap T = {}
      BY DEF LinksOK
    <3>2. w[m] = l[m]
      BY <1>1, <2>2
    <3> QED
      BY <3>1, <3>2
  <2> QED
    BY <2>1, <2>2
<1> QED
  BY <1>1, <1>4, <1>5, <1>6 DEF LinksOK, w

\* The walk holds the pair it starts from and the child pairs of its pairs, and
\* is in every set that does.
LEMMA LockStepIs ==
  ASSUME NEW k \in Links, NEW l \in Links, NEW s \in NodeId, NEW d \in NodeId
  PROVE  /\ LockStep(k, l, s, d) \in SUBSET (NodeId \X NodeId)
         /\ <<s, d>> \in LockStep(k, l, s, d)
         /\ \A p \in LockStep(k, l, s, d) : ChildPairs(k, l, p) \subseteq LockStep(k, l, s, d)
         /\ \A V : <<s, d>> \in V /\ (\A p \in LockStep(k, l, s, d) \cap V :
                                        ChildPairs(k, l, p) \subseteq V)
                     => LockStep(k, l, s, d) \subseteq V
<1> DEFINE A == Below(k, s)
           B == Below(l, d)
           W == LockStep(k, l, s, d)
           Goes(V) == <<s, d>> \in V /\ \A p \in V : ChildPairs(k, l, p) \subseteq V
<1>1. /\ A \in SUBSET NodeId /\ s \in A /\ ClosedUnder(k, A)
      /\ B \in SUBSET NodeId /\ d \in B /\ ClosedUnder(l, B)
  BY BelowIs
<1>2. W = {p \in A \X B : \A V \in SUBSET (A \X B) : Goes(V) => p \in V}
  BY DEF LockStep
<1> HIDE DEF A, B, W
<1>3. \A p \in A \X B : ChildPairs(k, l, p) \subseteq A \X B
  <2> SUFFICES ASSUME NEW x \in A, NEW y \in B, NEW i \in DOMAIN k[x] \cap DOMAIN l[y]
               PROVE  k[x][i] \in A /\ l[y][i] \in B
    BY DEF ChildPairs
  <2>1. k[x][i] \in ToSet(k[x]) /\ l[y][i] \in ToSet(l[y])
    BY DEF ToSet
  <2> QED
    BY <1>1, <2>1 DEF ClosedUnder
<1>4. W \subseteq A \X B /\ <<s, d>> \in W
  BY <1>1, <1>2
<1>5. ASSUME NEW p \in W PROVE ChildPairs(k, l, p) \subseteq W
  <2> SUFFICES ASSUME NEW q \in ChildPairs(k, l, p) PROVE q \in W
    OBVIOUS
  <2>1. q \in A \X B
    BY <1>3, <1>4
  <2>2. ASSUME NEW V \in SUBSET (A \X B), Goes(V) PROVE q \in V
    <3>1. p \in V
      BY <1>2, <2>2
    <3> QED
      BY <2>2, <3>1
  <2> HIDE DEF Goes
  <2> QED
    BY <1>2, <2>1, <2>2
<1>6. ASSUME NEW V, <<s, d>> \in V, \A p \in W \cap V : ChildPairs(k, l, p) \subseteq V
      PROVE  W \subseteq V
  <2> DEFINE U == W \cap V
  <2>1. U \in SUBSET (A \X B)
    BY <1>4
  <2>2. Goes(U)
    BY <1>4, <1>5, <1>6
  <2> HIDE DEF U, Goes
  <2>3. W \subseteq U
    BY <1>2, <2>1, <2>2
  <2> QED
    BY <2>3 DEF U
<1> HIDE DEF Goes
<1>7. W \in SUBSET (NodeId \X NodeId)
  BY <1>1, <1>4
<1> QED
  BY <1>4, <1>5, <1>6, <1>7 DEF W

\* The copy f, in the trees l, of the subtree of top with the lists of k.
Copied(k, l, f, top) ==
  /\ \A r, s \in DOMAIN f : f[r] = f[s] => r = s
  /\ \A s \in DOMAIN f : ToSet(k[s]) \subseteq DOMAIN f
  /\ \A s \in DOMAIN f : l[f[s]] = CopyOf(k[s], f)
  /\ ~HasParent(l, f[top])
  /\ \A T \in SUBSET NodeId : top \in T /\ ClosedUnder(k, T) => DOMAIN f \subseteq T

\* Whatever became of the source, the walk leads to copies only.
LEMMA WalkLeadsToCopies ==
  ASSUME NEW shape \in Links, NEW k \in Links, NEW l \in Links,
         NEW S \in SUBSET NodeId, NEW f \in [S -> NodeId], NEW top \in S,
         Copied(shape, l, f, top), NEW p \in LockStep(k, l, top, f[top])
  PROVE  \E s \in S : p[2] = f[s]
<1> DEFINE W == LockStep(k, l, top, f[top])
           V == {q \in NodeId \X NodeId : \E s \in S : q[2] = f[s]}
<1>1. ASSUME NEW q \in W \cap V PROVE ChildPairs(k, l, q) \subseteq V
  <2> SUFFICES ASSUME NEW i \in DOMAIN k[q[1]] \cap DOMAIN l[q[2]]
               PROVE  <<k[q[1]][i], l[q[2]][i]>> \in V
    BY DEF ChildPairs
  <2>1. PICK s \in S : q[2] = f[s]
    BY <1>1
  <2>2. l[q[2]] = CopyOf(shape[s], f) /\ ToSet(shape[s]) \subseteq S
    BY <2>1 DEF Copied
  <2>3. i \in DOMAIN shape[s] /\ l[q[2]][i] = f[shape[s][i]]
    BY <2>2 DEF CopyOf
  <2>4. shape[s][i] \in S
    BY <2>2, <2>3 DEF ToSet
  <2>5. k[q[1]] \in Seq(NodeId)
    BY DEF Links
  <2>6. k[q[1]][i] \in NodeId
    BY <2>5
  <2> QED
    BY <2>3, <2>4, <2>6
<1>2. <<top, f[top]>> \in V
  OBVIOUS
<1> HIDE DEF V
<1>3. W \subseteq V
  BY <1>1, <1>2, LockStepIs
<1> QED
  BY <1>3 DEF V

\* The walk meets no node of the copy twice.
LEMMA WalkMeetsOnce ==
  ASSUME NEW k \in Links, NEW size, NEW l, LinksOK(size, l), NEW s \in NodeId, NEW d \in NodeId,
         ~HasParent(l, d),
         NEW p \in LockStep(k, l, s, d), NEW q \in LockStep(k, l, s, d), p[2] = q[2]
  PROVE  p = q
<1> DEFINE W == LockStep(k, l, s, d)
           V == {x \in W : \A y \in W : x[2] = y[2] => x = y}
<1>0. l \in Links /\ OnePlace(l)
  BY DEF LinksOK, OnePlace
<1>1. /\ W \in SUBSET (NodeId \X NodeId)
      /\ <<s, d>> \in W
      /\ \A x \in W : ChildPairs(k, l, x) \subseteq W
      /\ \A U : <<s, d>> \in U /\ (\A x \in W \cap U : ChildPairs(k, l, x) \subseteq U)
                  => W \subseteq U
  BY <1>0, LockStepIs
<1> HIDE DEF W
<1>2. \A x \in NodeId : d \notin ToSet(l[x])
  BY DEF HasParent
\* a pair of the walk is the first or comes from another
<1>3. ASSUME NEW y \in W, y # <<s, d>>
      PROVE  \E x \in W : y \in ChildPairs(k, l, x)
  <2> DEFINE U == W \ {y}
  <2> SUFFICES ASSUME \A x \in W : y \notin ChildPairs(k, l, x) PROVE FALSE
    OBVIOUS
  <2>1. <<s, d>> \in U /\ \A x \in W \cap U : ChildPairs(k, l, x) \subseteq U
    BY <1>1, <1>3
  <2> HIDE DEF U
  <2>2. W \subseteq U
    BY <1>1, <2>1
  <2> QED
    BY <2>2 DEF U
<1>4. <<s, d>> \in V
  <2> SUFFICES ASSUME NEW y \in W, y[2] = d, y # <<s, d>> PROVE FALSE
    BY <1>1
  <2>1. PICK x \in W : y \in ChildPairs(k, l, x)
    BY <1>3
  <2>2. PICK i \in DOMAIN k[x[1]] \cap DOMAIN l[x[2]] : y = <<k[x[1]][i], l[x[2]][i]>>
    BY <2>1 DEF ChildPairs
  <2>3. d \in ToSet(l[x[2]]) /\ x[2] \in NodeId
    BY <1>1, <2>2 DEF ToSet
  <2> QED
    BY <1>2, <2>3
<1>5. ASSUME NEW x \in W \cap V PROVE ChildPairs(k, l, x) \subseteq V
  <2> SUFFICES ASSUME NEW a \in ChildPairs(k, l, x) PROVE a \in V
    OBVIOUS
  <2>1. a \in W
    BY <1>1
  <2>2. PICK i \in DOMAIN k[x[1]] \cap DOMAIN l[x[2]] : a = <<k[x[1]][i], l[x[2]][i]>>
    BY DEF ChildPairs
  <2>3. ASSUME NEW b \in W, a[2] = b[2] PROVE a = b
    <3>1. b # <<s, d>>
      <4>1. l[x[2]][i] \in ToSet(l[x[2]]) /\ x[2] \in NodeId
        BY <1>1, <2>2 DEF ToSet
      <4> QED
        BY <1>2, <2>2, <2>3, <4>1
    <3>2. PICK y \in W : b \in ChildPairs(k, l, y)
      BY <1>3, <3>1
    <3>3. PICK j \in DOMAIN k[y[1]] \cap DOMAIN l[y[2]] : b = <<k[y[1]][j], l[y[2]][j]>>
      BY <3>2 DEF ChildPairs
    <3>4. /\ x[2] \in NodeId /\ y[2] \in NodeId
          /\ i \in DOMAIN l[x[2]] /\ j \in DOMAIN l[y[2]]
          /\ l[x[2]][i] = l[y[2]][j]
      BY <1>1, <2>2, <2>3, <3>3
    <3>5. x[2] = y[2] /\ i = j
      BY <1>0, <3>4, SamePlace
    <3>6. x = y
      BY <3>5
    <3> QED
      BY <2>2, <3>3, <3>5, <3>6
  <2> QED
    BY <2>1, <2>3
<1> HIDE DEF V
<1>6. W \subseteq V
  BY <1>1, <1>4, <1>5
<1> QED
  BY <1>6 DEF V, W

\* If the lists of the source are as they were copied, the walk pairs each node
\* with its copy and leaves none out.
LEMMA WalkPairsCopies ==
  ASSUME NEW shape \in Links, NEW k \in Links, NEW l \in Links,
         NEW S \in SUBSET NodeId, NEW f \in [S -> NodeId], NEW top \in S,
         Copied(shape, l, f, top), \A s \in S : k[s] = shape[s]
  PROVE  /\ \A p \in LockStep(k, l, top, f[top]) : p[1] \in S /\ p[2] = f[p[1]]
         /\ \A s \in S : <<s, f[s]>> \in LockStep(k, l, top, f[top])
<1> DEFINE W == LockStep(k, l, top, f[top])
           V == {q \in NodeId \X NodeId : q[1] \in S /\ q[2] = f[q[1]]}
           T == {s \in S : <<s, f[s]>> \in W}
<1>1. /\ W \in SUBSET (NodeId \X NodeId)
      /\ <<top, f[top]>> \in W
      /\ \A p \in W : ChildPairs(k, l, p) \subseteq W
      /\ \A U : <<top, f[top]>> \in U /\ (\A p \in W \cap U : ChildPairs(k, l, p) \subseteq U)
                  => W \subseteq U
  BY LockStepIs
<1> HIDE DEF W
<1>2. \A s \in S : l[f[s]] = CopyOf(k[s], f) /\ \A i \in DOMAIN k[s] : k[s][i] \in S
  BY DEF Copied, ToSet
<1>3. ASSUME NEW q \in W \cap V PROVE ChildPairs(k, l, q) \subseteq V
  <2> SUFFICES ASSUME NEW i \in DOMAIN k[q[1]] \cap DOMAIN l[q[2]]
               PROVE  <<k[q[1]][i], l[q[2]][i]>> \in V
    BY DEF ChildPairs
  <2>1. q[1] \in S /\ q[2] = f[q[1]]
    OBVIOUS
  <2>a. l[q[2]] = CopyOf(k[q[1]], f) /\ k[q[1]][i] \in S
    BY <1>2, <2>1
  <2>2. l[q[2]][i] = f[k[q[1]][i]] /\ k[q[1]][i] \in S
    BY <2>a DEF CopyOf
  <2> QED
    BY <2>2
<1>4. W \subseteq V
  <2>1. <<top, f[top]>> \in V
    OBVIOUS
  <2> HIDE DEF V
  <2> QED
    BY <1>1, <1>3, <2>1
<1>5. ClosedUnder(shape, T)
  <2> SUFFICES ASSUME NEW s \in T, NEW m \in ToSet(shape[s]) PROVE m \in T
    BY DEF ClosedUnder
  <2>1. s \in S /\ <<s, f[s]>> \in W
    OBVIOUS
  <2>2. PICK i \in DOMAIN k[s] : k[s][i] = m
    BY <2>1 DEF ToSet
  <2>3. m \in S /\ i \in DOMAIN l[f[s]] /\ l[f[s]][i] = f[m]
    <3>1. l[f[s]] = CopyOf(k[s], f) /\ k[s][i] \in S
      BY <1>2, <2>1
    <3> QED
      BY <2>2, <3>1 DEF CopyOf
  <2>4. <<m, f[m]>> \in ChildPairs(k, l, <<s, f[s]>>)
    BY <2>2, <2>3 DEF ChildPairs
  <2> QED
    BY <1>1, <2>1, <2>3, <2>4
<1>6. S \subseteq T
  <2>1. top \in T /\ T \in SUBSET NodeId /\ DOMAIN f = S
    BY <1>1
  <2> HIDE DEF T
  <2> QED
    BY <1>5, <2>1 DEF Copied
<1> QED
  BY <1>4, <1>6 DEF V, T, W

-----------------------------------------------------------------------------
(***************************************************************************)
(* The caches of several documents and the calls in progress.              *)
(***************************************************************************)

\* A move goes between two different holders, and has a copy of its top.
MovesWellFormed ==
  \A c \in Call : move[c].pc # "none" =>
    move[c].src # move[c].dst /\ move[c].top \in DOMAIN move[c].copy

\* Inductive for TypeOK, TablesOK and HitsAreAccurate together.
CacheInv ==
  /\ TypeOK
  /\ TablesOK
  /\ HitsAreAccurate
  /\ MovesWellFormed

LEMMA CacheInvInit == Init => CacheInv
<1> SUFFICES ASSUME Init PROVE CacheInv
  OBVIOUS
<1>1. NewTable \in Table /\ TableOK(NewTable)
  BY NewTableOK
<1>2. PICK d \in FirstDocs : /\ arena = [h \in Holder |-> d[h].size]
                             /\ kids  = [h \in Holder |-> d[h].kids]
  BY DEF Init
<1>3. \A h \in Holder : d[h].size \in 0 .. MaxId /\ LinksOK(d[h].size, d[h].kids)
  BY FirstDocsAssumption
<1>4. \A h \in Holder : d[h].kids \in Links
  BY <1>3 DEF LinksOK
<1>5. arena \in [Holder -> 0 .. MaxId] /\ kids \in [Holder -> Links]
  BY <1>2, <1>3, <1>4
<1>6. \A h \in Holder : LinksOK(arena[h], kids[h])
  BY <1>2, <1>3
<1>7. /\ table = [h \in Holder |-> NewTable] /\ view = [w \in Wrapper |-> None]
      /\ miss = [c \in Call |-> None] /\ move = [c \in Call |-> NoMove] /\ changes = 0
  BY DEF Init
<1>8. TypeOK
  BY <1>1, <1>5, <1>6, <1>7, MaxChangesAssumption DEF TypeOK
<1>9. TablesOK
  BY <1>1, <1>7 DEF TablesOK
<1>10. HitsAreAccurate
  BY <1>7, CellAssumption DEF HitsAreAccurate, NewTable
<1>11. MovesWellFormed
  BY <1>7 DEF MovesWellFormed, NoMove
<1> QED
  BY <1>8, <1>9, <1>10, <1>11 DEF CacheInv

\* The parts of a move under way.
LEMMA MoveTyped ==
  ASSUME CacheInv, NEW c \in Call, move[c].pc # "none"
  PROVE  /\ move[c] \in Move
         /\ move[c].pc \in {"imported", "repointing", "repointed"}
         /\ move[c].src \in Holder /\ move[c].dst \in Holder /\ move[c].src # move[c].dst
         /\ DOMAIN move[c].copy \in SUBSET NodeId
         /\ move[c].copy \in [DOMAIN move[c].copy -> NodeId]
         /\ move[c].top \in DOMAIN move[c].copy /\ move[c].top \in NodeId
         /\ move[c].copy[move[c].top] \in NodeId
         /\ move[c].shape \in Links
         /\ move[c].todo \in SUBSET (NodeId \X NodeId)
         /\ kids[move[c].src] \in Links /\ kids[move[c].dst] \in Links
<1>1. move[c] \in Move
  BY DEF CacheInv, TypeOK, NoMove
<1>2. move[c].copy \in UNION {[S -> NodeId] : S \in SUBSET NodeId}
  BY <1>1 DEF Move
<1>3. PICK S \in SUBSET NodeId : move[c].copy \in [S -> NodeId]
  BY <1>2
<1>4. DOMAIN move[c].copy = S
  BY <1>3
<1>5. move[c].src # move[c].dst /\ move[c].top \in DOMAIN move[c].copy
  BY DEF CacheInv, MovesWellFormed
<1>6. /\ move[c].pc \in {"imported", "repointing", "repointed"}
      /\ move[c].src \in Holder /\ move[c].dst \in Holder
      /\ move[c].top \in NodeId
      /\ move[c].shape \in Links
      /\ move[c].todo \in SUBSET (NodeId \X NodeId)
  BY <1>1 DEF Move
<1>7. kids \in [Holder -> Links]
  BY DEF CacheInv, TypeOK
<1> QED
  BY <1>1, <1>3, <1>4, <1>5, <1>6, <1>7

\* A wrapper that is not alive is in no slot.
LEMMA DeadWrappersNotCached ==
  ASSUME CacheInv, NEW w \in Wrapper, view[w] = None,
         NEW h \in Holder, NEW n \in NodeId
  PROVE  table[h].slot[n] # w
<1>1. table[h].slot[n] = w => view[w] = Ref(h, n)
  BY DEF CacheInv, HitsAreAccurate
<1>2. Ref(h, n) \in Node
  BY DEF Ref, Node
<1> QED
  BY <1>1, <1>2, NoneAssumption

\* What import_subtree does, in terms of the move it starts.
Imports(c, src, dst, s, f) ==
  LET S == Below(kids[src], s)
  IN  /\ S \in SUBSET NodeId /\ s \in S /\ ClosedUnder(kids[src], S)
      /\ f \in [S -> NodeId]
      /\ \A m, n \in S : f[m] = f[n] => m = n
      /\ \A r \in S : f[r] >= arena[dst] /\ f[r] < arena'[dst]
      /\ src # dst /\ s < arena[src] /\ s \notin FreshCopies(src)
      /\ arena[dst] \in Nat /\ arena'[dst] \in Nat /\ arena[dst] <= arena'[dst]
      /\ arena' \in [Holder -> 0 .. MaxId]
      /\ \A h \in Holder : h # dst => arena'[h] = arena[h]
      /\ kids' = [kids EXCEPT ![dst] = WithCopy(kids[src], kids[dst], f)]
      /\ move' = [move EXCEPT ![c] =
                    [ pc |-> "imported", src |-> src, dst |-> dst, top |-> s,
                      copy |-> f, shape |-> Within(kids[src], S), todo |-> {} ]]
      /\ move[c] = NoMove
      /\ GilFree
      /\ UNCHANGED <<table, view, miss>>

LEMMA ImportIs ==
  ASSUME CacheInv, NEW c \in Call, NEW src \in Holder, NEW dst \in Holder, NEW s \in NodeId,
         Import(c, src, dst, s)
  PROVE  \E f : Imports(c, src, dst, s, f)
<1> DEFINE k == kids[src]
           S == Below(k, s)
<1>1. k \in Links /\ arena \in [Holder -> 0 .. MaxId] /\ arena[dst] \in Nat
  BY MaxIdAssumption DEF CacheInv, TypeOK
<1>2. S \in SUBSET NodeId /\ s \in S /\ ClosedUnder(k, S)
  BY <1>1, BelowIs
<1>3. /\ arena[dst] + Cardinality(S) <= MaxId
      /\ arena' = [arena EXCEPT ![dst] = @ + Cardinality(S)]
      /\ s \in Reachable(src)
      /\ src # dst /\ GilFree /\ move[c] = NoMove
      /\ UNCHANGED <<table, view, miss>>
  BY DEF Import, Idle
<1>4. PICK f \in [S -> NewIds(dst, S)] :
           /\ \A m, n \in S : f[m] = f[n] => m = n
           /\ kids' = [kids EXCEPT ![dst] = WithCopy(k, @, f)]
           /\ move' = [move EXCEPT ![c] =
                         [ pc |-> "imported", src |-> src, dst |-> dst, top |-> s,
                           copy |-> f, shape |-> Within(k, S), todo |-> {} ]]
  BY DEF Import
<1> HIDE DEF S, k
<1>5. Cardinality(S) \in Nat
  BY <1>2, NodeSetsFinite
<1>6. /\ arena'[dst] = arena[dst] + Cardinality(S)
      /\ \A h \in Holder : h # dst => arena'[h] = arena[h]
      /\ arena' \in [Holder -> 0 .. MaxId]
  BY <1>1, <1>3, <1>5, MaxIdAssumption
<1>7. ASSUME NEW r \in S
      PROVE  f[r] \in NodeId /\ f[r] >= arena[dst] /\ f[r] < arena'[dst]
  <2>1. f[r] \in arena[dst] .. arena[dst] + Cardinality(S) - 1
    BY <1>4 DEF NewIds
  <2> QED
    BY <1>1, <1>3, <1>5, <1>6, <2>1, MaxIdAssumption DEF NodeId
<1>8. f \in [S -> NodeId]
  BY <1>4, <1>7
<1>9. s < arena[src] /\ s \notin FreshCopies(src)
  BY <1>3 DEF Reachable
<1>10. arena'[dst] \in Nat /\ arena[dst] <= arena'[dst]
  BY <1>1, <1>5, <1>6
<1>11. kids' = [kids EXCEPT ![dst] = WithCopy(k, kids[dst], f)]
  BY <1>4
<1> QED
  BY <1>1, <1>2, <1>3, <1>4, <1>6, <1>7, <1>8, <1>9, <1>10, <1>11 DEF Imports, S, k

\* An edit of the lists of one document alone.
LEMMA KidsEdited ==
  ASSUME CacheInv, NEW h \in Holder, NEW l, LinksOK(arena[h], l),
         kids' = [kids EXCEPT ![h] = l], UNCHANGED <<table, arena, view, miss, move>>,
         changes' \in 0 .. MaxChanges
  PROVE  CacheInv'
<1>1. l \in Links
  BY DEF LinksOK
<1>2. kids' \in [Holder -> Links] /\ \A g \in Holder : LinksOK(arena[g], kids'[g])
  BY <1>1 DEF CacheInv, TypeOK
<1>3. TypeOK'
  BY <1>2 DEF CacheInv, TypeOK
<1> QED
  BY <1>3 DEF CacheInv, TablesOK, HitsAreAccurate, MovesWellFormed

\* What repoint_subtree leaves of a move.
StaysMove(m, n) ==
  /\ n.pc # "none" /\ n.src = m.src /\ n.dst = m.dst /\ n.top = m.top
  /\ n.copy = m.copy /\ n.shape = m.shape

LEMMA MoveSteps ==
  ASSUME NEW m \in Move, NEW T \in SUBSET (NodeId \X NodeId), NEW p
  PROVE  LET a == [m EXCEPT !.pc = "repointed"]
             b == [m EXCEPT !.pc = "repointing", !.todo = T]
             d == [m EXCEPT !.pc = "repointed", !.todo = {}]
             e == [m EXCEPT !.todo = m.todo \ {p}]
         IN  /\ a \in Move /\ a.pc = "repointed" /\ a.todo = m.todo
             /\ b \in Move /\ b.pc = "repointing" /\ b.todo = T
             /\ d \in Move /\ d.pc = "repointed" /\ d.todo = {}
             /\ e \in Move /\ e.pc = m.pc /\ e.todo = m.todo \ {p}
             /\ StaysMove(m, a) /\ StaysMove(m, b) /\ StaysMove(m, d) /\ StaysMove(m, e)
<1>1. m.pc # "none"
  BY DEF Move
<1> QED
  BY <1>1 DEF Move, StaysMove

LEMMA MoveEdited ==
  ASSUME CacheInv, NEW c \in Call, move[c].pc # "none", NEW n \in Move, StaysMove(move[c], n),
         move' = [move EXCEPT ![c] = n], UNCHANGED <<arena, kids, miss, changes>>,
         table' \in [Holder -> Table], view' \in [Wrapper -> Node \cup {None}]
  PROVE  TypeOK' /\ MovesWellFormed'
<1>1. move \in [Call -> Move \cup {NoMove}]
  BY DEF CacheInv, TypeOK
<1>2. TypeOK'
  BY <1>1 DEF CacheInv, TypeOK
<1>3. MovesWellFormed'
  BY <1>1 DEF CacheInv, MovesWellFormed, StaysMove
<1> QED
  BY <1>2, <1>3

LEMMA PairsTyped ==
  ASSUME CacheInv, NEW c \in Call, move[c].pc # "none"
  PROVE  Pairs(c) \in SUBSET (NodeId \X NodeId)
<1>1. /\ kids[move[c].src] \in Links /\ kids[move[c].dst] \in Links
      /\ move[c].top \in NodeId /\ move[c].copy[move[c].top] \in NodeId
  BY MoveTyped
<1> QED
  BY <1>1, LockStepIs DEF Pairs

LEMMA CacheInvStep == CacheInv /\ [Next]_vars => CacheInv'
<1> SUFFICES ASSUME CacheInv, [Next]_vars
             PROVE  CacheInv'
  OBVIOUS
<1>t. /\ table \in [Holder -> Table]
      /\ arena \in [Holder -> 0 .. MaxId]
      /\ kids \in [Holder -> Links]
      /\ \A h \in Holder : LinksOK(arena[h], kids[h])
      /\ changes \in 0 .. MaxChanges
      /\ view \in [Wrapper -> Node \cup {None}]
      /\ miss \in [Call -> Node \cup {None}]
      /\ move \in [Call -> Move \cup {NoMove}]
  BY DEF CacheInv, TypeOK
<1>s. \A h \in Holder : table[h] \in Table /\ TableOK(table[h])
                        /\ table[h].slot \in [NodeId -> Cell]
  BY <1>t DEF CacheInv, TablesOK, Table
<1>1. ASSUME NEW c \in Call, NEW h \in Holder, NEW n \in NodeId, BeginMiss(c, h, n)
      PROVE  CacheInv'
  <2>1. Ref(h, n) \in Node
    BY DEF Ref, Node
  <2> QED
    BY <1>1, <1>t, <2>1 DEF BeginMiss, CacheInv, TypeOK, TablesOK, HitsAreAccurate,
                            MovesWellFormed
<1>2. ASSUME NEW c \in Call, NEW w \in Wrapper, FinishMiss(c, w)
      PROVE  CacheInv'
  <2> DEFINE h == miss[c].holder
             n == miss[c].id
             r == InsertAndSweep(table[h], n, w)
  <2>1. h \in Holder /\ n \in NodeId /\ miss[c] = Ref(h, n)
    BY <1>2, <1>t DEF FinishMiss, Node, Ref
  <2>2. /\ r \in Table
        /\ TableOK(r)
        /\ r.slot[n] = w
        /\ \A m \in NodeId \ {n} : \/ r.slot[m] = table[h].slot[m]
                                   \/ table[h].slot[m] = Tombstone /\ r.slot[m] = Empty
    BY <1>s, <2>1, InsertAndSweepOK
  <2>3. /\ table' = [table EXCEPT ![h] = r]
        /\ view' = [view EXCEPT ![w] = Ref(h, n)]
    BY <1>2, <2>1 DEF FinishMiss
  <2> HIDE DEF r, h, n
  <2>4. TypeOK'
    BY <1>2, <1>t, <2>1, <2>2, <2>3 DEF FinishMiss, TypeOK, Node, Ref
  <2>5. TablesOK'
    BY <1>s, <1>t, <2>2, <2>3 DEF TablesOK
  <2>6. HitsAreAccurate'
    <3> SUFFICES ASSUME NEW k \in Holder, NEW m \in NodeId,
                        table'[k].slot[m] \in Wrapper
                 PROVE  view'[table'[k].slot[m]] = Ref(k, m)
      BY DEF HitsAreAccurate
    <3>1. CASE k = h /\ m = n
      BY <1>t, <2>1, <2>2, <2>3, <3>1
    <3>2. CASE ~(k = h /\ m = n)
      <4>1. table'[k].slot[m] = table[k].slot[m]
        BY <1>t, <2>1, <2>2, <2>3, <3>2, CellAssumption
      <4>2. table[k].slot[m] # w
        BY <1>2, DeadWrappersNotCached DEF FinishMiss
      <4>3. view[table[k].slot[m]] = Ref(k, m)
        BY <4>1 DEF CacheInv, HitsAreAccurate
      <4> QED
        BY <1>t, <2>3, <4>1, <4>2, <4>3
    <3> QED
      BY <3>1, <3>2
  <2>7. MovesWellFormed'
    BY <1>2 DEF FinishMiss, CacheInv, MovesWellFormed
  <2> QED
    BY <2>4, <2>5, <2>6, <2>7 DEF CacheInv
<1>3. ASSUME NEW c \in Call, FailMiss(c)
      PROVE  CacheInv'
  BY <1>3, <1>t DEF FailMiss, CacheInv, TypeOK, TablesOK, HitsAreAccurate,
                    MovesWellFormed
<1>4. ASSUME NEW w \in Wrapper, Drop(w)
      PROVE  CacheInv'
  <2>1. \A h \in Holder :
          /\ table'[h] \in Table
          /\ TableOK(table'[h])
          /\ \A n \in NodeId : table'[h].slot[n] =
               IF table[h].slot[n] = w THEN Tombstone ELSE table[h].slot[n]
    <3> TAKE h \in Holder
    <3>1. table'[h] = ClearWeakrefs(table[h], w)
      BY <1>4 DEF Drop
    <3> QED
      BY <1>s, <3>1, ClearWeakrefsOK
  <2>2. TypeOK'
    BY <1>4, <1>t, <2>1 DEF Drop, TypeOK
  <2>3. TablesOK'
    BY <2>1 DEF TablesOK
  <2>4. HitsAreAccurate'
    BY <1>4, <1>t, <2>1, CellAssumption DEF Drop, CacheInv, HitsAreAccurate
  <2>5. MovesWellFormed'
    BY <1>4 DEF Drop, CacheInv, MovesWellFormed
  <2> QED
    BY <2>2, <2>3, <2>4, <2>5 DEF CacheInv
<1>5. ASSUME NEW h \in Holder, NEW n \in NodeId, Extract(h, n)
      PROVE  CacheInv'
  <2>1. kids' = [kids EXCEPT ![h] = Detached(kids[h], n)]
    BY <1>5 DEF Extract
  <2>2. UNCHANGED <<table, arena, view, miss, move>> /\ changes' \in 0 .. MaxChanges
    BY <1>t, <1>5, MaxChangesAssumption DEF Extract
  <2>3. LinksOK(arena[h], Detached(kids[h], n))
    BY <1>t, DetachedOK
  <2> QED
    BY <2>1, <2>2, <2>3, KidsEdited
<1>6. ASSUME NEW h \in Holder, NEW p \in NodeId, NEW n \in NodeId, Attach(h, p, n)
      PROVE  CacheInv'
  <2>1. /\ kids' = [kids EXCEPT ![h] = Attached(kids[h], p, n)]
        /\ p < arena[h] /\ n < arena[h] /\ ~HasParent(kids[h], n) /\ p \notin Below(kids[h], n)
    BY <1>6 DEF Attach, Reachable
  <2>2. UNCHANGED <<table, arena, view, miss, move>> /\ changes' \in 0 .. MaxChanges
    BY <1>t, <1>6, MaxChangesAssumption DEF Attach
  <2>3. LinksOK(arena[h], Attached(kids[h], p, n))
    BY <1>t, <2>1, AttachedOK
  <2> QED
    BY <2>1, <2>2, <2>3, KidsEdited
<1>7. ASSUME NEW c \in Call, NEW src \in Holder, NEW dst \in Holder,
             NEW s \in NodeId, Import(c, src, dst, s)
      PROVE  CacheInv'
  <2> DEFINE S == Below(kids[src], s)
  <2>0. PICK f : Imports(c, src, dst, s, f)
    BY <1>7, ImportIs
  <2>1. /\ S \in SUBSET NodeId /\ s \in S /\ ClosedUnder(kids[src], S)
        /\ f \in [S -> NodeId]
        /\ \A m, n \in S : f[m] = f[n] => m = n
        /\ \A r \in S : arena[dst] <= f[r] /\ f[r] < arena'[dst]
        /\ src # dst
    BY <2>0, MaxIdAssumption DEF Imports, NodeId
  <2>2. /\ arena[dst] \in Nat /\ arena'[dst] \in Nat /\ arena[dst] <= arena'[dst]
        /\ arena' \in [Holder -> 0 .. MaxId]
        /\ \A h \in Holder : h # dst => arena'[h] = arena[h]
        /\ kids' = [kids EXCEPT ![dst] = WithCopy(kids[src], kids[dst], f)]
        /\ UNCHANGED <<table, view, miss>>
    BY <2>0 DEF Imports
  <2>3. move' = [move EXCEPT ![c] =
                    [ pc |-> "imported", src |-> src, dst |-> dst, top |-> s,
                      copy |-> f, shape |-> Within(kids[src], S), todo |-> {} ]]
    BY <2>0 DEF Imports
  <2> HIDE DEF S
  <2>4. LinksOK(arena'[dst], WithCopy(kids[src], kids[dst], f))
    BY <1>t, <2>1, <2>2, WithCopyOK
  <2>5. kids' \in [Holder -> Links] /\ \A h \in Holder : LinksOK(arena'[h], kids'[h])
    <3>1. WithCopy(kids[src], kids[dst], f) \in Links
      BY <2>4 DEF LinksOK
    <3> QED
      BY <1>t, <2>2, <2>4, <3>1
  <2>6. [ pc |-> "imported", src |-> src, dst |-> dst, top |-> s,
          copy |-> f, shape |-> Within(kids[src], S), todo |-> {} ] \in Move
    <3>1. Within(kids[src], S) \in Links
      BY <1>t DEF Within, Links
    <3>2. f \in UNION {[T -> NodeId] : T \in SUBSET NodeId}
      BY <2>1
    <3>3. s \in NodeId /\ {} \in SUBSET (NodeId \X NodeId)
      OBVIOUS
    <3> QED
      BY <3>1, <3>2, <3>3 DEF Move
  <2>7. changes' \in 0 .. MaxChanges
    BY <1>t, <1>7, MaxChangesAssumption DEF Import
  <2>8. move' \in [Call -> Move \cup {NoMove}]
    BY <1>t, <2>3, <2>6
  <2>9. TypeOK'
    BY <1>t, <2>2, <2>5, <2>7, <2>8 DEF TypeOK
  <2>10. TablesOK' /\ HitsAreAccurate'
    BY <2>2 DEF CacheInv, TablesOK, HitsAreAccurate
  <2>11. MovesWellFormed'
    <3> SUFFICES ASSUME NEW d \in Call, move'[d].pc # "none"
                 PROVE  move'[d].src # move'[d].dst /\ move'[d].top \in DOMAIN move'[d].copy
      BY DEF MovesWellFormed
    <3>1. CASE d = c
      BY <1>t, <2>1, <2>3, <3>1
    <3>2. CASE d # c
      <4>1. move'[d] = move[d]
        BY <1>t, <2>3, <3>2
      <4> QED
        BY <4>1 DEF CacheInv, MovesWellFormed
    <3> QED
      BY <3>1, <3>2
  <2> QED
    BY <2>9, <2>10, <2>11 DEF CacheInv
<1>8. ASSUME NEW c \in Call, BeginRepoint(c)
      PROVE  CacheInv'
  <2> DEFINE src == move[c].src
             r == SweepDead(table[src])
             next == IF NothingCached(r)
                     THEN [move[c] EXCEPT !.pc = "repointed"]
                     ELSE [move[c] EXCEPT !.pc = "repointing", !.todo = Pairs(c)]
  <2>0. move[c].pc # "none"
    BY <1>8 DEF BeginRepoint
  <2>1. move[c] \in Move /\ src \in Holder
    BY <2>0, MoveTyped
  <2>2. /\ r \in Table
        /\ TableOK(r)
        /\ \A n \in NodeId : r.slot[n] = IF table[src].slot[n] = Tombstone
                                         THEN Empty ELSE table[src].slot[n]
    BY <1>s, <2>1, SweepOK DEF TableOK
  <2>3. /\ table' = [table EXCEPT ![src] = r]
        /\ move' = [move EXCEPT ![c] = next]
        /\ UNCHANGED <<arena, kids, view, miss, changes>>
    BY <1>8 DEF BeginRepoint
  <2>4. next \in Move /\ StaysMove(move[c], next)
    BY <2>0, <2>1, PairsTyped, MoveSteps
  <2> HIDE DEF r, src, next
  <2>5. table' \in [Holder -> Table] /\ view' \in [Wrapper -> Node \cup {None}]
    BY <1>t, <2>2, <2>3
  <2>6. TypeOK' /\ MovesWellFormed'
    BY <2>0, <2>3, <2>4, <2>5, MoveEdited
  <2>7. TablesOK'
    BY <1>s, <1>t, <2>2, <2>3 DEF TablesOK
  <2>8. HitsAreAccurate'
    BY <1>t, <2>1, <2>2, <2>3, CellAssumption DEF CacheInv, HitsAreAccurate
  <2> QED
    BY <2>6, <2>7, <2>8 DEF CacheInv
<1>9. ASSUME NEW c \in Call, NEW p \in NodeId \X NodeId, RepointPair(c, p)
      PROVE  CacheInv'
  <2> DEFINE s       == p[1]
             clone   == p[2]
             src     == move[c].src
             dst     == move[c].dst
             held    == IF s < table[src].len THEN table[src].slot[s] ELSE Empty
             emptied == RemoveSlot(table[src], s)
             filled  == InsertAndSweep(table[dst], clone, held)
  <2>0. move[c].pc # "none"
    BY <1>9 DEF RepointPair
  <2>1. /\ move[c] \in Move
        /\ src \in Holder /\ dst \in Holder /\ src # dst
        /\ s \in NodeId /\ clone \in NodeId
    BY <2>0, MoveTyped
  <2>2. /\ emptied \in Table
        /\ TableOK(emptied)
        /\ emptied.slot = [table[src].slot EXCEPT ![s] = Empty]
    BY <1>s, <2>1, RemoveSlotOK
  <2>3. held = table[src].slot[s]
    BY <1>s, <2>1, MaxIdAssumption DEF TableOK, NothingBeyondEnd, NodeId, Table
  <2> DEFINE stop == \/ move[c].todo = {p}
                     \/ held \in Wrapper /\ NothingCached(emptied)
             next == IF stop
                     THEN [move[c] EXCEPT !.pc = "repointed", !.todo = {}]
                     ELSE [move[c] EXCEPT !.todo = move[c].todo \ {p}]
  <2>4. move' = [move EXCEPT ![c] = next]
    BY <1>9 DEF RepointPair
  <2>5. next \in Move /\ StaysMove(move[c], next)
    BY <1>9, <2>0, <2>1, MoveSteps DEF RepointPair
  <2> HIDE DEF next, stop
  <2>7. UNCHANGED <<arena, kids, miss, changes>>
    BY <1>9 DEF RepointPair
  <2>8. CASE held \in Wrapper
    <3>1. /\ view' = [view EXCEPT ![held] = Ref(dst, clone)]
          /\ table' = [table EXCEPT ![src] = emptied, ![dst] = filled]
      BY <1>9, <1>t, <2>1, <2>8 DEF RepointPair
    <3>2. /\ filled \in Table
          /\ TableOK(filled)
          /\ filled.slot[clone] = held
          /\ \A m \in NodeId \ {clone} :
               \/ filled.slot[m] = table[dst].slot[m]
               \/ table[dst].slot[m] = Tombstone /\ filled.slot[m] = Empty
      <4> HIDE DEF src, dst, held, clone
      <4> QED
        BY <1>s, <2>1, <2>8, InsertAndSweepOK
    <3>3. Ref(dst, clone) \in Node
      BY <2>1 DEF Ref, Node
    <3>4. view[held] = Ref(src, s)
      BY <2>1, <2>3, <2>8 DEF CacheInv, HitsAreAccurate
    <3> HIDE DEF src, dst, held, emptied, clone, filled
    <3>5. TypeOK' /\ MovesWellFormed'
      <4>1. table' \in [Holder -> Table] /\ view' \in [Wrapper -> Node \cup {None}]
        BY <1>t, <2>1, <2>2, <2>8, <3>1, <3>2, <3>3
      <4> QED
        BY <2>0, <2>4, <2>5, <2>7, <4>1, MoveEdited
    <3>6. TablesOK'
      BY <1>s, <1>t, <2>1, <2>2, <3>1, <3>2 DEF TablesOK
    <3>7. HitsAreAccurate'
      <4> SUFFICES ASSUME NEW k \in Holder, NEW m \in NodeId,
                          table'[k].slot[m] \in Wrapper
                   PROVE  view'[table'[k].slot[m]] = Ref(k, m)
        BY DEF HitsAreAccurate
      <4>1. CASE k = dst /\ m = clone
        BY <1>t, <2>1, <2>8, <3>1, <3>2, <4>1
      <4>2. CASE ~(k = dst /\ m = clone)
        <5>1. /\ table'[k].slot[m] = table[k].slot[m]
              /\ ~(k = src /\ m = s)
          BY <1>s, <1>t, <2>1, <2>2, <3>1, <3>2, <4>2, CellAssumption
        <5>2. view[table[k].slot[m]] = Ref(k, m)
          BY <5>1 DEF CacheInv, HitsAreAccurate
        <5>3. table[k].slot[m] # held
          BY <3>4, <5>1, <5>2 DEF Ref
        <5> QED
          BY <1>t, <3>1, <5>1, <5>2, <5>3
      <4> QED
        BY <4>1, <4>2
    <3> QED
      BY <3>5, <3>6, <3>7 DEF CacheInv
  <2>9. CASE held \notin Wrapper
    <3>1. view' = view /\ table' = [table EXCEPT ![src] = emptied]
      BY <1>9, <2>9 DEF RepointPair
    <3> HIDE DEF src, dst, held, emptied, clone
    <3>2. TypeOK' /\ MovesWellFormed'
      <4>1. table' \in [Holder -> Table] /\ view' \in [Wrapper -> Node \cup {None}]
        BY <1>t, <2>1, <2>2, <3>1
      <4> QED
        BY <2>0, <2>4, <2>5, <2>7, <4>1, MoveEdited
    <3>3. TablesOK'
      BY <1>s, <1>t, <2>1, <2>2, <3>1 DEF TablesOK
    <3>4. HitsAreAccurate'
      BY <1>s, <1>t, <2>1, <2>2, <3>1, CellAssumption DEF CacheInv, HitsAreAccurate
    <3> QED
      BY <3>2, <3>3, <3>4 DEF CacheInv
  <2> QED
    BY <2>8, <2>9
<1>10. ASSUME NEW c \in Call, DetachSource(c)
      PROVE  CacheInv'
  <2> DEFINE h == move[c].src
             n == move[c].top
  <2>1. /\ kids' = [kids EXCEPT ![h] = Detached(kids[h], n)]
        /\ move' = [move EXCEPT ![c] = NoMove]
        /\ UNCHANGED <<table, arena, view, miss, changes>>
        /\ move[c].pc # "none"
    BY <1>10 DEF DetachSource
  <2>2. h \in Holder
    BY <2>1, MoveTyped
  <2>3. LinksOK(arena[h], Detached(kids[h], n))
    BY <1>t, <2>2, DetachedOK
  <2>4. Detached(kids[h], n) \in Links
    BY <2>3 DEF LinksOK
  <2>5. TypeOK'
    BY <1>t, <2>1, <2>2, <2>3, <2>4 DEF TypeOK
  <2>6. TablesOK' /\ HitsAreAccurate'
    BY <2>1 DEF CacheInv, TablesOK, HitsAreAccurate
  <2>7. MovesWellFormed'
    BY <1>t, <2>1 DEF CacheInv, MovesWellFormed, NoMove
  <2> QED
    BY <2>5, <2>6, <2>7 DEF CacheInv
<1>11. CASE UNCHANGED vars
  BY <1>11 DEF vars, CacheInv, TypeOK, TablesOK, HitsAreAccurate, MovesWellFormed
<1> QED
  BY <1>1, <1>2, <1>3, <1>4, <1>5, <1>6, <1>7, <1>8, <1>9, <1>10, <1>11 DEF Next

(***************************************************************************)
(* Types are kept.                                                         *)
(***************************************************************************)
THEOREM TypeCorrect == Spec => []TypeOK
<1>1. CacheInv => TypeOK
  BY DEF CacheInv
<1> QED
  BY <1>1, CacheInvInit, CacheInvStep, PTL DEF Spec

(***************************************************************************)
(* The entry counter, the tracked list and the sweep size of every slot    *)
(* table are exact in every state, even when calls run inside the misses   *)
(* of other calls.                                                         *)
(***************************************************************************)
THEOREM TablesExact == Spec => []TablesOK
<1>1. CacheInv => TablesOK
  BY DEF CacheInv
<1> QED
  BY <1>1, CacheInvInit, CacheInvStep, PTL DEF Spec

(***************************************************************************)
(* A cache hit always returns a wrapper that views the requested node.     *)
(***************************************************************************)
THEOREM HitsAccurate == Spec => []HitsAreAccurate
<1>1. CacheInv => HitsAreAccurate
  BY DEF CacheInv
<1> QED
  BY <1>1, CacheInvInit, CacheInvStep, PTL DEF Spec

-----------------------------------------------------------------------------
(***************************************************************************)
(* Copies.  From import_subtree to the end of repoint_subtree no call but  *)
(* the one that made it reaches a copy, so its lists stay as they were     *)
(* made, whatever becomes of the source meanwhile; and what the walk pairs *)
(* follows from that.                                                      *)
(***************************************************************************)

\* The copy that a call has made is in the arena and intact.
Waits(c) ==
  /\ Copied(move[c].shape, kids[move[c].dst], move[c].copy, move[c].top)
  /\ \A s \in DOMAIN move[c].copy : move[c].copy[s] < arena[move[c].dst]

CopiesWait == \A c \in Call : Pending(c) => Waits(c)

\* Two copies that wait in one document have no node in common.
CopiesApart ==
  \A c, d \in Call :
    c # d /\ Pending(c) /\ Pending(d) /\ move[c].dst = move[d].dst =>
      Copies(c) \cap Copies(d) = {}

\* What a call moves, and will detach in the end, is in the arena and is in no
\* copy that waits.
TopsApart ==
  \A c \in Call : move[c].pc # "none" =>
    /\ move[c].top < arena[move[c].src]
    /\ \A d \in Call : Pending(d) /\ move[d].dst = move[c].src => move[c].top \notin Copies(d)

\* The pairs to come lead to copies, no two of them to the same; and pair each
\* node with its own copy if the source is unchanged.
PairsKnown ==
  \A c \in Call :
    /\ move[c].pc # "repointing" => move[c].todo = {}
    /\ \A p \in move[c].todo : p[2] \in Copies(c)
    /\ \A p, q \in move[c].todo : p[2] = q[2] => p = q
    /\ SourceUnchanged(c) =>
         \A p \in move[c].todo : p[1] \in DOMAIN move[c].copy /\ p[2] = move[c].copy[p[1]]

\* Only one call is inside repoint_subtree.
OneMover ==
  \A c, d \in Call :
    move[c].pc = "repointing" /\ move[d].pc = "repointing" => c = d

CopiesInv ==
  /\ CopiesWait
  /\ CopiesApart
  /\ TopsApart
  /\ PairsKnown
  /\ OneMover

LEMMA CopiesInvInit == Init => CopiesInv
<1> SUFFICES ASSUME Init PROVE CopiesInv
  OBVIOUS
<1>1. \A c \in Call : move[c].pc = "none" /\ move[c].todo = {}
  BY DEF Init, NoMove
<1>2. \A c \in Call : ~Pending(c)
  BY <1>1 DEF Pending
<1> QED
  BY <1>1, <1>2 DEF CopiesInv, CopiesWait, CopiesApart, TopsApart, PairsKnown, OneMover

\* A copy whose lists stay and whose top gets no parent stays a copy.
LEMMA CopiedStays ==
  ASSUME NEW k, NEW l, NEW m, NEW f, NEW top, Copied(k, l, f, top),
         \A s \in DOMAIN f : m[f[s]] = l[f[s]], ~HasParent(m, f[top])
  PROVE  Copied(k, m, f, top)
BY DEF Copied

\* Detaching a node that is in no waiting copy leaves the copies intact.
LEMMA DetachedKeepsCopies ==
  ASSUME CacheInv, CopiesInv, NEW h \in Holder, NEW n,
         \A d \in Call : Pending(d) /\ move[d].dst = h => n \notin Copies(d),
         kids' = [kids EXCEPT ![h] = Detached(kids[h], n)],
         NEW c \in Call, Pending(c)
  PROVE  Copied(move[c].shape, kids'[move[c].dst], move[c].copy, move[c].top)
<1> DEFINE f == move[c].copy
           S == DOMAIN f
           g == move[c].dst
           l == kids[g]
<1>1. move[c].pc # "none"
  BY DEF Pending
<1>2. /\ f \in [S -> NodeId] /\ S \in SUBSET NodeId /\ g \in Holder
      /\ move[c].top \in S /\ l \in Links
  BY <1>1, MoveTyped
<1>3. Copied(move[c].shape, l, f, move[c].top)
  BY DEF CopiesInv, CopiesWait, Waits
<1>4. CASE g # h
  <2>1. kids'[g] = l
    BY <1>2, <1>4 DEF CacheInv, TypeOK
  <2> QED
    BY <1>3, <2>1
<1>5. CASE g = h
  <2>1. kids'[g] = Detached(l, n) /\ LinksOK(arena[h], l)
    BY <1>5 DEF CacheInv, TypeOK
  <2>2. \A p \in NodeId : /\ ToSet(Detached(l, n)[p]) = ToSet(l[p]) \ {n}
                          /\ n \notin ToSet(l[p]) => Detached(l, n)[p] = l[p]
    BY <2>1, DetachedOK
  <2>3. \A s \in S : n # f[s]
    BY <1>5 DEF Copies
  <2> HIDE DEF l, f, S
  <2>4. \A s \in DOMAIN f : Detached(l, n)[f[s]] = l[f[s]]
    <3> TAKE s \in DOMAIN f
    <3>1. ToSet(move[c].shape[s]) \subseteq S /\ l[f[s]] = CopyOf(move[c].shape[s], f)
      BY <1>3 DEF Copied, S
    <3>2. \A i \in DOMAIN move[c].shape[s] : move[c].shape[s][i] \in S
      BY <3>1 DEF ToSet
    <3>3. n \notin ToSet(l[f[s]])
      BY <2>3, <3>1, <3>2 DEF CopyOf, ToSet
    <3>4. f[s] \in NodeId
      BY <1>2 DEF S
    <3> QED
      BY <2>2, <3>3, <3>4
  <2>5. ~HasParent(Detached(l, n), f[move[c].top])
    BY <1>3, <2>2 DEF HasParent, Copied
  <2>6. Copied(move[c].shape, Detached(l, n), f, move[c].top)
    BY <1>3, <2>4, <2>5, CopiedStays
  <2> QED
    BY <2>1, <2>6 DEF f
<1> QED
  BY <1>4, <1>5

\* What is left to show when the lists change, for calls that hold the GIL in
\* no repoint_subtree.
LEMMA CopiesKept ==
  ASSUME CopiesInv, UNCHANGED <<arena, move>>,
         \A c \in Call : move[c].pc # "repointing",
         \A c \in Call : Pending(c) =>
           Copied(move[c].shape, kids'[move[c].dst], move[c].copy, move[c].top)
  PROVE  CopiesInv'
<1>1. \A c \in Call : (Pending(c)' <=> Pending(c)) /\ Copies(c)' = Copies(c)
  BY DEF Pending, Copies
<1>2. CopiesWait'
  BY <1>1 DEF CopiesInv, CopiesWait, Waits
<1>3. CopiesApart' /\ TopsApart'
  BY <1>1 DEF CopiesInv, CopiesApart, TopsApart
<1>4. PairsKnown'
  <2>1. \A c \in Call : move[c].todo = {}
    BY DEF CopiesInv, PairsKnown
  <2> QED
    BY <2>1 DEF PairsKnown
<1>5. OneMover'
  BY DEF CopiesInv, OneMover
<1> QED
  BY <1>2, <1>3, <1>4, <1>5 DEF CopiesInv

\* The subtree that import_subtree makes is a copy.
LEMMA CopyMade ==
  ASSUME NEW size, NEW k, LinksOK(size, k), NEW s \in NodeId,
         NEW old \in Nat, NEW l, LinksOK(old, l),
         NEW S, S = Below(k, s), NEW f \in [S -> NodeId],
         \A m, n \in S : f[m] = f[n] => m = n, \A r \in S : f[r] >= old
  PROVE  Copied(Within(k, S), WithCopy(k, l, f), f, s)
<1> DEFINE w == WithCopy(k, l, f)
           h == Within(k, S)
<1>1. k \in Links /\ l \in Links
  BY DEF LinksOK
<1>2. /\ S \in SUBSET NodeId /\ s \in S /\ ClosedUnder(k, S)
      /\ \A T \in SUBSET NodeId : s \in T /\ ClosedUnder(k, T) => S \subseteq T
  BY <1>1, BelowIs
<1>3. /\ \A r \in S : w[f[r]] = CopyOf(k[r], f)
      /\ \A m \in NodeId : (\A r \in S : f[r] # m) => w[m] = l[m]
  BY <1>1, <1>2, WithCopyIs
<1>4. \A r \in S : h[r] = k[r]
  BY <1>2 DEF Within
<1>5. DOMAIN f = S
  OBVIOUS
<1> HIDE DEF w, h
<1>6. ~HasParent(w, f[s])
  <2> SUFFICES ASSUME NEW q \in NodeId, f[s] \in ToSet(w[q]) PROVE FALSE
    BY DEF HasParent
  <2>1. PICK i \in DOMAIN w[q] : w[q][i] = f[s]
    BY DEF ToSet
  <2>2. CASE \E r \in S : f[r] = q
    <3>1. PICK r \in S : f[r] = q
      BY <2>2
    <3>2. w[q] = CopyOf(k[r], f)
      BY <1>3, <3>1
    <3>3. i \in DOMAIN k[r] /\ f[k[r][i]] = f[s]
      BY <2>1, <3>2 DEF CopyOf
    <3>4. k[r][i] \in ToSet(k[r])
      BY <3>3 DEF ToSet
    <3>5. k[r][i] = s
      BY <1>2, <3>3, <3>4 DEF ClosedUnder
    <3> QED
      BY <3>4, <3>5, NoWayBack
  <2>3. CASE \A r \in S : f[r] # q
    <3>1. w[q] = l[q]
      BY <1>3, <2>3
    <3>2. i \in DOMAIN l[q] /\ l[q][i] = f[s]
      BY <2>1, <3>1
    <3>3. f[s] < old
      BY <3>2 DEF LinksOK
    <3>4. f[s] \in NodeId /\ f[s] >= old
      BY <1>2
    <3> QED
      BY <3>3, <3>4, MaxIdAssumption DEF NodeId
  <2> QED
    BY <2>2, <2>3
<1>7. ASSUME NEW T \in SUBSET NodeId, s \in T, ClosedUnder(h, T) PROVE S \subseteq T
  <2> DEFINE U == T \cap S
  <2>1. ClosedUnder(k, U)
    BY <1>2, <1>4, <1>7 DEF ClosedUnder
  <2>2. s \in U /\ U \in SUBSET NodeId
    BY <1>2, <1>7
  <2> HIDE DEF U
  <2>3. S \subseteq U
    BY <1>2, <2>1, <2>2
  <2> QED
    BY <2>3 DEF U
<1>8. \A r \in S : ToSet(h[r]) \subseteq S /\ w[f[r]] = CopyOf(h[r], f)
  BY <1>2, <1>3, <1>4 DEF ClosedUnder
<1>9. Copied(h, w, f, s)
  BY <1>5, <1>6, <1>7, <1>8 DEF Copied
<1> QED
  BY <1>9 DEF h, w

\* Another copy put beyond the end of the arena leaves a copy intact.
LEMMA CopyAdded ==
  ASSUME NEW k \in Links, NEW l \in Links, NEW old \in Nat,
         NEW S \in SUBSET NodeId, ClosedUnder(k, S), NEW f \in [S -> NodeId],
         \A m, n \in S : f[m] = f[n] => m = n, \A r \in S : f[r] >= old,
         NEW shape, NEW G \in SUBSET NodeId, NEW g \in [G -> NodeId], NEW top \in G,
         Copied(shape, l, g, top), \A x \in G : g[x] < old
  PROVE  Copied(shape, WithCopy(k, l, f), g, top)
<1> DEFINE w == WithCopy(k, l, f)
<1>1. /\ \A r \in S : w[f[r]] = CopyOf(k[r], f)
      /\ \A m \in NodeId : (\A r \in S : f[r] # m) => w[m] = l[m]
  BY WithCopyIs
<1> HIDE DEF w
<1>2. \A x \in G, r \in S : f[r] # g[x]
  <2> SUFFICES ASSUME NEW x \in G, NEW r \in S PROVE f[r] # g[x]
    OBVIOUS
  <2>1. f[r] \in NodeId /\ g[x] \in NodeId /\ f[r] >= old /\ g[x] < old
    OBVIOUS
  <2> QED
    BY <2>1, MaxIdAssumption DEF NodeId
<1>3. \A x \in DOMAIN g : w[g[x]] = l[g[x]]
  BY <1>1, <1>2
<1>4. ~HasParent(w, g[top])
  <2> SUFFICES ASSUME NEW q \in NodeId, g[top] \in ToSet(w[q]) PROVE FALSE
    BY DEF HasParent
  <2>1. CASE \E r \in S : f[r] = q
    <3>1. PICK r \in S : f[r] = q
      BY <2>1
    <3>2. w[q] = CopyOf(k[r], f)
      BY <1>1, <3>1
    <3>3. PICK i \in DOMAIN k[r] : f[k[r][i]] = g[top]
      BY <3>2 DEF CopyOf, ToSet
    <3>4. k[r][i] \in S
      BY <3>3 DEF ClosedUnder, ToSet
    <3> QED
      BY <1>2, <3>3, <3>4
  <2>2. CASE \A r \in S : f[r] # q
    <3>1. w[q] = l[q]
      BY <1>1, <2>2
    <3> QED
      BY <3>1 DEF Copied, HasParent
  <2> QED
    BY <2>1, <2>2
<1>5. Copied(shape, w, g, top)
  BY <1>3, <1>4, CopiedStays
<1> QED
  BY <1>5 DEF w

\* Another move has begun.
LEMMA ImportKeepsCopies ==
  ASSUME CacheInv, CopiesInv, NEW c \in Call, NEW src \in Holder, NEW dst \in Holder,
         NEW s \in NodeId, NEW f, Imports(c, src, dst, s, f)
  PROVE  CopiesInv'
<1> DEFINE S == Below(kids[src], s)
<1>1. /\ S \in SUBSET NodeId /\ s \in S /\ ClosedUnder(kids[src], S)
      /\ f \in [S -> NodeId]
      /\ \A m, n \in S : f[m] = f[n] => m = n
      /\ \A r \in S : f[r] >= arena[dst] /\ f[r] < arena'[dst]
      /\ src # dst /\ s < arena[src] /\ s \notin FreshCopies(src)
  BY DEF Imports
<1>2. /\ arena[dst] \in Nat /\ arena'[dst] \in Nat /\ arena[dst] <= arena'[dst]
      /\ \A h \in Holder : h # dst => arena'[h] = arena[h]
      /\ kids' = [kids EXCEPT ![dst] = WithCopy(kids[src], kids[dst], f)]
      /\ \A d \in Call : move[d].pc # "repointing"
  BY DEF Imports, GilFree
<1>3. move' = [move EXCEPT ![c] =
                    [ pc |-> "imported", src |-> src, dst |-> dst, top |-> s,
                      copy |-> f, shape |-> Within(kids[src], S), todo |-> {} ]]
  BY DEF Imports
<1>t. /\ move \in [Call -> Move \cup {NoMove}] /\ kids \in [Holder -> Links]
      /\ \A h \in Holder : LinksOK(arena[h], kids[h])
      /\ \A h \in Holder : arena[h] \in 0 .. MaxId
  BY DEF CacheInv, TypeOK
<1> HIDE DEF S
<1>4. /\ move'[c].pc = "imported" /\ move'[c].src = src /\ move'[c].dst = dst
      /\ move'[c].top = s /\ move'[c].copy = f /\ move'[c].shape = Within(kids[src], S)
      /\ move'[c].todo = {}
      /\ \A d \in Call : d # c => move'[d] = move[d]
  BY <1>t, <1>3
<1>5. DOMAIN f = S
  BY <1>1
<1>6. \A d \in Call : d # c => (Pending(d)' <=> Pending(d)) /\ Copies(d)' = Copies(d)
  BY <1>4 DEF Pending, Copies
<1>7. Copies(c)' = {f[r] : r \in S}
  BY <1>4, <1>5 DEF Copies
<1>8. ASSUME NEW d \in Call, Pending(d), move[d].dst = dst, NEW x \in Copies(d)
      PROVE  x \in NodeId /\ x < arena[dst]
  <2>1. PICK r \in DOMAIN move[d].copy : x = move[d].copy[r]
    BY <1>8 DEF Copies
  <2>2. move[d].pc # "none"
    BY <1>8 DEF Pending
  <2>3. x \in NodeId
    BY <2>1, <2>2, MoveTyped
  <2> QED
    BY <1>8, <2>1, <2>3 DEF CopiesInv, CopiesWait, Waits
<1>9. ASSUME NEW x, x \in NodeId, x < arena[dst] PROVE x \notin Copies(c)'
  BY <1>1, <1>2, <1>7, <1>9, MaxIdAssumption DEF NodeId
<1>10. CopiesWait'
  <2> SUFFICES ASSUME NEW d \in Call, Pending(d)' PROVE Waits(d)'
    BY DEF CopiesWait
  <2>1. CASE d = c
    <3>1. kids'[dst] = WithCopy(kids[src], kids[dst], f)
      BY <1>t, <1>2
    <3>2. Copied(Within(kids[src], S), WithCopy(kids[src], kids[dst], f), f, s)
      BY <1>t, <1>1, <1>2, CopyMade DEF S
    <3> QED
      BY <1>1, <1>4, <1>5, <2>1, <3>1, <3>2 DEF Waits
  <2>2. CASE d # c
    <3> DEFINE g == move[d].copy
               G == DOMAIN g
               l == kids[move[d].dst]
    <3>1. move'[d] = move[d] /\ Pending(d)
      BY <1>4, <1>6, <2>2
    <3>2. move[d].pc # "none"
      BY <3>1 DEF Pending
    <3>3. /\ G \in SUBSET NodeId /\ g \in [G -> NodeId] /\ move[d].top \in G
          /\ move[d].dst \in Holder /\ l \in Links
      BY <3>2, MoveTyped
    <3>4. /\ Copied(move[d].shape, l, g, move[d].top)
          /\ \A x \in G : g[x] < arena[move[d].dst]
      BY <3>1 DEF CopiesInv, CopiesWait, Waits
    <3> HIDE DEF g, G, l
    <3>5. CASE move[d].dst = dst
      <4>1. Copied(move[d].shape, WithCopy(kids[src], l, f), g, move[d].top)
        <5>1. kids[src] \in Links
          BY <1>t
        <5> QED
          BY <1>1, <1>2, <3>3, <3>4, <3>5, <5>1, CopyAdded
      <4>2. \A x \in G : g[x] < arena'[dst]
        <5> TAKE x \in G
        <5>1. g[x] \in NodeId /\ g[x] < arena[dst]
          BY <3>3, <3>4, <3>5
        <5> QED
          BY <1>2, <5>1, MaxIdAssumption DEF NodeId
      <4>3. kids'[dst] = WithCopy(kids[src], l, f)
        BY <1>t, <1>2, <3>5 DEF l
      <4> QED
        BY <3>1, <3>5, <4>1, <4>2, <4>3 DEF Waits, g, G
    <3>6. CASE move[d].dst # dst
      <4>1. kids'[move[d].dst] = l /\ arena'[move[d].dst] = arena[move[d].dst]
        BY <1>t, <1>2, <3>3, <3>6 DEF l
      <4> QED
        BY <3>1, <3>4, <4>1 DEF Waits, g, G
    <3> QED
      BY <3>5, <3>6
  <2> QED
    BY <2>1, <2>2
<1>11. CopiesApart'
  <2>1. \A d \in Call : d # c /\ Pending(d) /\ move[d].dst = dst =>
          Copies(d) \cap Copies(c)' = {}
    BY <1>8, <1>9
  <2> QED
    BY <1>4, <1>6, <2>1 DEF CopiesInv, CopiesApart
<1>12. TopsApart'
  <2> SUFFICES ASSUME NEW d \in Call, move'[d].pc # "none"
               PROVE  /\ move'[d].top < arena'[move'[d].src]
                      /\ \A e \in Call : Pending(e)' /\ move'[e].dst = move'[d].src =>
                           move'[d].top \notin Copies(e)'
    BY DEF TopsApart
  <2>1. CASE d = c
    <3>1. arena'[src] = arena[src]
      BY <1>1, <1>2
    <3>2. \A e \in Call : e # c /\ Pending(e) /\ move[e].dst = src => s \notin Copies(e)
      BY <1>1 DEF FreshCopies
    <3> QED
      BY <1>1, <1>4, <1>6, <2>1, <3>1, <3>2
  <2>2. CASE d # c
    <3>1. move'[d] = move[d] /\ move[d].pc # "none"
      BY <1>4, <2>2
    <3>2. /\ move[d].top < arena[move[d].src] /\ move[d].top \in NodeId
          /\ move[d].src \in Holder
          /\ \A e \in Call : Pending(e) /\ move[e].dst = move[d].src => move[d].top \notin Copies(e)
      BY <3>1, MoveTyped DEF CopiesInv, TopsApart
    <3>3. move[d].top < arena'[move[d].src]
      BY <1>2, <3>2, MaxIdAssumption DEF NodeId
    <3>4. move[d].src = dst => move[d].top \notin Copies(c)'
      BY <1>9, <3>2
    <3> QED
      BY <1>4, <1>6, <3>1, <3>2, <3>3, <3>4
  <2> QED
    BY <2>1, <2>2
<1>13. PairsKnown'
  <2>1. \A d \in Call : move'[d].todo = {}
    BY <1>2, <1>4 DEF CopiesInv, PairsKnown
  <2> QED
    BY <2>1 DEF PairsKnown
<1>14. OneMover'
  BY <1>2, <1>4 DEF OneMover
<1> QED
  BY <1>10, <1>11, <1>12, <1>13, <1>14 DEF CopiesInv

\* Calls that leave the trees and the moves alone.
LEMMA CopiesUntouched ==
  ASSUME CopiesInv, UNCHANGED <<arena, kids, move>>
  PROVE  CopiesInv'
<1>1. \A c \in Call : /\ Pending(c)' <=> Pending(c)
                      /\ Copies(c)' = Copies(c)
                      /\ SourceUnchanged(c)' <=> SourceUnchanged(c)
                      /\ Waits(c)' <=> Waits(c)
  BY DEF Pending, Copies, SourceUnchanged, Waits
<1>2. CopiesWait' /\ CopiesApart' /\ TopsApart'
  BY <1>1 DEF CopiesInv, CopiesWait, CopiesApart, TopsApart
<1>3. PairsKnown' /\ OneMover'
  BY <1>1 DEF CopiesInv, PairsKnown, OneMover
<1> QED
  BY <1>2, <1>3 DEF CopiesInv

\* A step of repoint_subtree leaves the copies as they are.
LEMMA WalkKeepsCopies ==
  ASSUME CopiesInv, NEW c \in Call, Pending(c), NEW n, StaysMove(move[c], n),
         move'[c] = n, \A d \in Call : d # c => move'[d] = move[d],
         UNCHANGED <<arena, kids>>
  PROVE  /\ CopiesWait' /\ CopiesApart' /\ TopsApart'
         /\ Copies(c)' = Copies(c)
         /\ SourceUnchanged(c)' <=> SourceUnchanged(c)
         /\ \A d \in Call : d # c => /\ Copies(d)' = Copies(d)
                                     /\ SourceUnchanged(d)' <=> SourceUnchanged(d)
<1>1. \A d \in Call : /\ Pending(d)' => Pending(d)
                      /\ Copies(d)' = Copies(d)
                      /\ SourceUnchanged(d)' <=> SourceUnchanged(d)
                      /\ Waits(d)' <=> Waits(d)
                      /\ move'[d].dst = move[d].dst /\ move'[d].src = move[d].src
                      /\ move'[d].top = move[d].top
                      /\ move'[d].pc # "none" => move[d].pc # "none"
  <2> TAKE d \in Call
  <2>1. CASE d = c
    BY <2>1 DEF StaysMove, Pending, Copies, SourceUnchanged, Waits
  <2>2. CASE d # c
    BY <2>2 DEF Pending, Copies, SourceUnchanged, Waits
  <2> QED
    BY <2>1, <2>2
<1>2. CopiesWait'
  BY <1>1 DEF CopiesInv, CopiesWait
<1>3. CopiesApart'
  BY <1>1 DEF CopiesInv, CopiesApart
<1>4. TopsApart'
  BY <1>1 DEF CopiesInv, TopsApart
<1> QED
  BY <1>1, <1>2, <1>3, <1>4

\* What the walk that repoint_subtree starts will pair.
LEMMA WalkPairs ==
  ASSUME CacheInv, CopiesInv, NEW c \in Call, Pending(c)
  PROVE  /\ \A p \in Pairs(c) : p[2] \in Copies(c)
         /\ \A p, q \in Pairs(c) : p[2] = q[2] => p = q
         /\ SourceUnchanged(c) =>
              /\ \A p \in Pairs(c) : p[1] \in DOMAIN move[c].copy /\ p[2] = move[c].copy[p[1]]
              /\ \A s \in DOMAIN move[c].copy : <<s, move[c].copy[s]>> \in Pairs(c)
<1> DEFINE f == move[c].copy
           S == DOMAIN f
           top == move[c].top
           shape == move[c].shape
           k == kids[move[c].src]
           l == kids[move[c].dst]
           size == arena[move[c].dst]
<1>1. move[c].pc # "none"
  BY DEF Pending
<1>2. /\ S \in SUBSET NodeId /\ f \in [S -> NodeId] /\ top \in S
      /\ shape \in Links /\ k \in Links /\ l \in Links /\ LinksOK(size, l)
      /\ top \in NodeId /\ f[top] \in NodeId
  BY <1>1, MoveTyped DEF CacheInv, TypeOK
<1>3. Copied(shape, l, f, top)
  BY DEF CopiesInv, CopiesWait, Waits
<1>4. ~HasParent(l, f[top])
  BY <1>3 DEF Copied
<1>5. Pairs(c) = LockStep(k, l, top, f[top])
  BY DEF Pairs
<1>6. Copies(c) = {f[s] : s \in S}
  BY DEF Copies
<1>7. SourceUnchanged(c) <=> \A s \in S : k[s] = shape[s]
  BY DEF SourceUnchanged
<1> HIDE DEF f, S, top, shape, k, l, size
<1>8. \A p \in Pairs(c) : p[2] \in Copies(c)
  BY <1>2, <1>3, <1>5, <1>6, WalkLeadsToCopies
<1>9. \A p, q \in Pairs(c) : p[2] = q[2] => p = q
  BY <1>2, <1>4, <1>5, WalkMeetsOnce
<1>10. ASSUME SourceUnchanged(c)
       PROVE  /\ \A p \in Pairs(c) : p[1] \in S /\ p[2] = f[p[1]]
              /\ \A s \in S : <<s, f[s]>> \in Pairs(c)
  <2>1. \A s \in S : k[s] = shape[s]
    BY <1>7, <1>10
  <2>2. /\ \A p \in LockStep(k, l, top, f[top]) : p[1] \in S /\ p[2] = f[p[1]]
        /\ \A s \in S : <<s, f[s]>> \in LockStep(k, l, top, f[top])
    BY <1>2, <1>3, <2>1, WalkPairsCopies
  <2> QED
    BY <1>5, <2>2
<1> QED
  BY <1>8, <1>9, <1>10 DEF f, S

\* The move record when no pair is left to do, and after one of several.
LEMMA StepSkips ==
  ASSUME NEW m \in Move, NEW n, n = [m EXCEPT !.pc = "repointed"]
  PROVE  n \in Move /\ StaysMove(m, n) /\ n.pc = "repointed" /\ n.todo = m.todo
  BY DEF Move, StaysMove

LEMMA StepEnds ==
  ASSUME NEW m \in Move, NEW n, n = [m EXCEPT !.pc = "repointed", !.todo = {}]
  PROVE  n \in Move /\ StaysMove(m, n) /\ n.pc = "repointed" /\ n.todo = {}
  BY DEF Move, StaysMove

LEMMA StepGoesOn ==
  ASSUME NEW m \in Move, NEW p, NEW n, n = [m EXCEPT !.todo = m.todo \ {p}]
  PROVE  n \in Move /\ StaysMove(m, n) /\ n.pc = m.pc /\ n.todo = m.todo \ {p}
<1>1. m.pc # "none"
  BY DEF Move
<1> QED
  BY <1>1 DEF Move, StaysMove

LEMMA CopiesInvStep == CacheInv /\ CopiesInv /\ [Next]_vars => CopiesInv'
<1> SUFFICES ASSUME CacheInv, CopiesInv, [Next]_vars
             PROVE  CopiesInv'
  OBVIOUS
<1>t. /\ kids \in [Holder -> Links]
      /\ \A h \in Holder : LinksOK(arena[h], kids[h])
      /\ move \in [Call -> Move \cup {NoMove}]
  BY DEF CacheInv, TypeOK
<1>1. ASSUME NEW c \in Call, NEW h \in Holder, NEW n \in NodeId, BeginMiss(c, h, n)
      PROVE  CopiesInv'
  BY <1>1, CopiesUntouched DEF BeginMiss
<1>2. ASSUME NEW c \in Call, NEW w \in Wrapper, FinishMiss(c, w)
      PROVE  CopiesInv'
  BY <1>2, CopiesUntouched DEF FinishMiss
<1>3. ASSUME NEW c \in Call, FailMiss(c)
      PROVE  CopiesInv'
  BY <1>3, CopiesUntouched DEF FailMiss
<1>4. ASSUME NEW w \in Wrapper, Drop(w)
      PROVE  CopiesInv'
  BY <1>4, CopiesUntouched DEF Drop
<1>5. ASSUME NEW h \in Holder, NEW n \in NodeId, Extract(h, n)
      PROVE  CopiesInv'
  <2>1. /\ kids' = [kids EXCEPT ![h] = Detached(kids[h], n)]
        /\ UNCHANGED <<arena, move>>
        /\ \A c \in Call : move[c].pc # "repointing"
    BY <1>5 DEF Extract, GilFree
  <2>2. \A d \in Call : Pending(d) /\ move[d].dst = h => n \notin Copies(d)
    BY <1>5 DEF Extract, Reachable, FreshCopies
  <2>3. \A c \in Call : Pending(c) =>
          Copied(move[c].shape, kids'[move[c].dst], move[c].copy, move[c].top)
    BY <2>1, <2>2, DetachedKeepsCopies
  <2> QED
    BY <2>1, <2>3, CopiesKept
<1>6. ASSUME NEW h \in Holder, NEW p \in NodeId, NEW n \in NodeId, Attach(h, p, n)
      PROVE  CopiesInv'
  <2>1. /\ kids' = [kids EXCEPT ![h] = Attached(kids[h], p, n)]
        /\ UNCHANGED <<arena, move>>
        /\ \A c \in Call : move[c].pc # "repointing"
        /\ p < arena[h] /\ n < arena[h] /\ ~HasParent(kids[h], n) /\ p \notin Below(kids[h], n)
    BY <1>6 DEF Attach, GilFree, Reachable
  <2>2. \A d \in Call : Pending(d) /\ move[d].dst = h => p \notin Copies(d) /\ n \notin Copies(d)
    BY <1>6 DEF Attach, Reachable, FreshCopies
  <2>3. ASSUME NEW c \in Call, Pending(c)
        PROVE  Copied(move[c].shape, kids'[move[c].dst], move[c].copy, move[c].top)
    <3> DEFINE f == move[c].copy
               g == move[c].dst
    <3>1. move[c].pc # "none"
      BY <2>3 DEF Pending
    <3>2. /\ f \in [DOMAIN f -> NodeId] /\ g \in Holder /\ move[c].top \in DOMAIN f
      BY <3>1, MoveTyped
    <3>3. Copied(move[c].shape, kids[g], f, move[c].top)
      BY <2>3 DEF CopiesInv, CopiesWait, Waits
    <3>4. CASE g # h
      <4>1. kids'[g] = kids[g]
        BY <1>t, <2>1, <3>2, <3>4
      <4> QED
        BY <3>3, <4>1
    <3>5. CASE g = h
      <4>1. kids'[g] = Attached(kids[h], p, n)
        BY <1>t, <2>1, <3>2, <3>5
      <4>2. \A q \in NodeId : /\ q # p => Attached(kids[h], p, n)[q] = kids[h][q]
                              /\ ToSet(Attached(kids[h], p, n)[q]) \subseteq ToSet(kids[h][q]) \cup {n}
        BY <1>t, <2>1, AttachedOK
      <4>3. \A s \in DOMAIN f : f[s] # p /\ f[s] # n
        BY <2>2, <2>3, <3>5 DEF Copies
      <4> HIDE DEF f, g
      <4>4. \A s \in DOMAIN f : Attached(kids[h], p, n)[f[s]] = kids[h][f[s]]
        BY <3>2, <4>2, <4>3
      <4>5. ~HasParent(Attached(kids[h], p, n), f[move[c].top])
        BY <3>2, <3>3, <3>5, <4>2, <4>3 DEF HasParent, Copied
      <4>6. Copied(move[c].shape, Attached(kids[h], p, n), f, move[c].top)
        BY <3>3, <3>5, <4>4, <4>5, CopiedStays
      <4> QED
        BY <4>1, <4>6 DEF f, g
    <3> QED
      BY <3>4, <3>5
  <2> QED
    BY <2>1, <2>3, CopiesKept
<1>7. ASSUME NEW c \in Call, NEW src \in Holder, NEW dst \in Holder,
             NEW s \in NodeId, Import(c, src, dst, s)
      PROVE  CopiesInv'
  BY <1>7, ImportIs, ImportKeepsCopies
<1>8. ASSUME NEW c \in Call, BeginRepoint(c)
      PROVE  CopiesInv'
  <2> DEFINE fast == NothingCached(SweepDead(table[move[c].src]))
             next == IF fast
                     THEN [move[c] EXCEPT !.pc = "repointed"]
                     ELSE [move[c] EXCEPT !.pc = "repointing", !.todo = Pairs(c)]
  <2>0. move[c].pc = "imported" /\ Pending(c) /\ \A d \in Call : move[d].pc # "repointing"
    BY <1>8 DEF BeginRepoint, Pending, GilFree
  <2>1. move[c] \in Move
    BY <2>0, MoveTyped
  <2>2. move' = [move EXCEPT ![c] = next] /\ UNCHANGED <<arena, kids>>
    BY <1>8 DEF BeginRepoint
  <2>3. /\ next \in Move /\ StaysMove(move[c], next)
        /\ \/ next.pc = "repointed" /\ next.todo = move[c].todo
           \/ next.pc = "repointing" /\ next.todo = Pairs(c)
    <3>1. Pairs(c) \in SUBSET (NodeId \X NodeId)
      BY <2>0, PairsTyped
    <3> HIDE DEF fast
    <3>2. CASE fast
      BY <2>1, <3>2, StepSkips
    <3>3. CASE ~fast
      <4> DEFINE found == Pairs(c)
      <4> HIDE DEF found
      <4>1. next = [move[c] EXCEPT !.pc = "repointing", !.todo = found]
        BY <3>3 DEF found
      <4> HIDE DEF next
      <4>2. found \in SUBSET (NodeId \X NodeId)
        BY <3>1 DEF found
      <4>3. next \in Move /\ StaysMove(move[c], next) /\ next.pc = "repointing" /\ next.todo = found
        BY <2>1, <4>1, <4>2 DEF Move, StaysMove
      <4> QED
        BY <4>3 DEF found
    <3> QED
      BY <3>2, <3>3
  <2> HIDE DEF next, fast
  <2>4. move'[c] = next /\ \A d \in Call : d # c => move'[d] = move[d]
    BY <1>t, <2>2
  <2>5. /\ CopiesWait' /\ CopiesApart' /\ TopsApart'
        /\ Copies(c)' = Copies(c)
        /\ SourceUnchanged(c)' <=> SourceUnchanged(c)
    BY <2>0, <2>2, <2>3, <2>4, WalkKeepsCopies
  <2>6. move'[c].copy = move[c].copy
    BY <2>3, <2>4 DEF StaysMove
  <2>7. \A d \in Call : move[d].todo = {}
    BY <2>0 DEF CopiesInv, PairsKnown
  <2>8. PairsKnown'
    <3>1. ASSUME NEW d \in Call, d # c
          PROVE  move'[d].todo = {}
      BY <2>4, <2>7, <3>1
    <3>2. CASE next.pc = "repointed"
      <4>1. move'[c].todo = {}
        BY <2>3, <2>4, <2>7, <3>2
      <4> QED
        BY <3>1, <4>1 DEF PairsKnown
    <3>3. CASE next.pc = "repointing"
      <4>1. move'[c].pc = "repointing" /\ move'[c].todo = Pairs(c)
        BY <2>3, <2>4, <3>3
      <4>2. /\ \A p \in Pairs(c) : p[2] \in Copies(c)
            /\ \A p, q \in Pairs(c) : p[2] = q[2] => p = q
            /\ SourceUnchanged(c) => \A p \in Pairs(c) :
                  p[1] \in DOMAIN move[c].copy /\ p[2] = move[c].copy[p[1]]
        BY <2>0, WalkPairs
      <4> QED
        BY <2>5, <2>6, <3>1, <4>1, <4>2 DEF PairsKnown
    <3> QED
      BY <2>3, <3>2, <3>3
  <2>9. OneMover'
    BY <2>0, <2>4 DEF OneMover
  <2> QED
    BY <2>5, <2>8, <2>9 DEF CopiesInv
<1>9. ASSUME NEW c \in Call, NEW p \in NodeId \X NodeId, RepointPair(c, p)
      PROVE  CopiesInv'
  <2>0. move[c].pc = "repointing" /\ Pending(c)
    BY <1>9 DEF RepointPair, Pending
  <2>1. move[c] \in Move
    BY <2>0, MoveTyped
  <2>2. \/ move' = [move EXCEPT ![c] = [move[c] EXCEPT !.pc = "repointed", !.todo = {}]]
        \/ move' = [move EXCEPT ![c] = [move[c] EXCEPT !.todo = move[c].todo \ {p}]]
    BY <1>9 DEF RepointPair
  <2>3. PICK n \in Move : /\ move' = [move EXCEPT ![c] = n]
                          /\ StaysMove(move[c], n)
                          /\ \/ n.pc = "repointed" /\ n.todo = {}
                             \/ n.pc = "repointing" /\ n.todo \subseteq move[c].todo
    <3> DEFINE a == [move[c] EXCEPT !.pc = "repointed", !.todo = {}]
               b == [move[c] EXCEPT !.todo = move[c].todo \ {p}]
    <3>1. /\ a \in Move /\ a.pc = "repointed" /\ a.todo = {} /\ StaysMove(move[c], a)
          /\ b \in Move /\ b.pc = move[c].pc /\ b.todo = move[c].todo \ {p} /\ StaysMove(move[c], b)
      BY <2>1, StepEnds, StepGoesOn
    <3>2. move' = [move EXCEPT ![c] = a] \/ move' = [move EXCEPT ![c] = b]
      BY <2>2
    <3> HIDE DEF a, b
    <3> QED
      BY <2>0, <3>1, <3>2
  <2>4. move'[c] = n /\ \A d \in Call : d # c => move'[d] = move[d]
    BY <1>t, <2>3
  <2>5. UNCHANGED <<arena, kids>>
    BY <1>9 DEF RepointPair
  <2>6. /\ CopiesWait' /\ CopiesApart' /\ TopsApart'
        /\ Copies(c)' = Copies(c)
        /\ SourceUnchanged(c)' <=> SourceUnchanged(c)
        /\ \A d \in Call : d # c => /\ Copies(d)' = Copies(d)
                                    /\ SourceUnchanged(d)' <=> SourceUnchanged(d)
    BY <2>0, <2>3, <2>4, <2>5, WalkKeepsCopies
  <2>7. /\ move'[c].copy = move[c].copy
        /\ move'[c].pc # "repointing" => move'[c].todo = {}
        /\ move'[c].todo \subseteq move[c].todo
    BY <2>3, <2>4 DEF StaysMove
  <2>8. PairsKnown'
    <3>1. PairsKnown
      BY DEF CopiesInv
    <3> QED
      BY <2>4, <2>6, <2>7, <3>1 DEF PairsKnown
  <2>9. OneMover'
    BY <2>0, <2>4 DEF CopiesInv, OneMover
  <2> QED
    BY <2>6, <2>8, <2>9 DEF CopiesInv
<1>10. ASSUME NEW c \in Call, DetachSource(c)
       PROVE  CopiesInv'
  <2> DEFINE h == move[c].src
             n == move[c].top
  <2>1. /\ kids' = [kids EXCEPT ![h] = Detached(kids[h], n)]
        /\ move' = [move EXCEPT ![c] = NoMove]
        /\ UNCHANGED arena
        /\ move[c].pc # "none"
        /\ \A d \in Call : move[d].pc # "repointing"
    BY <1>10 DEF DetachSource, GilFree
  <2>2. h \in Holder
    BY <2>1, MoveTyped
  <2>3. \A d \in Call : Pending(d) /\ move[d].dst = h => n \notin Copies(d)
    BY <2>1 DEF CopiesInv, TopsApart
  <2>4. /\ move'[c] = NoMove /\ NoMove.pc = "none" /\ NoMove.todo = {}
        /\ \A d \in Call : d # c => move'[d] = move[d]
    BY <1>t, <2>1 DEF NoMove
  <2>5. \A d \in Call : /\ Pending(d)' => d # c /\ Pending(d)
                        /\ d # c => Copies(d)' = Copies(d)
    BY <2>4 DEF Pending, Copies
  <2>6. CopiesWait'
    <3> SUFFICES ASSUME NEW d \in Call, Pending(d)' PROVE Waits(d)'
      BY DEF CopiesWait
    <3>1. d # c /\ Pending(d) /\ move'[d] = move[d]
      BY <2>4, <2>5
    <3>2. Copied(move[d].shape, kids'[move[d].dst], move[d].copy, move[d].top)
      BY <2>1, <2>2, <2>3, <3>1, DetachedKeepsCopies
    <3>3. Waits(d)
      BY <3>1 DEF CopiesInv, CopiesWait
    <3> QED
      BY <2>1, <3>1, <3>2, <3>3 DEF Waits
  <2>7. CopiesApart'
    BY <2>4, <2>5 DEF CopiesInv, CopiesApart
  <2>8. TopsApart'
    BY <2>1, <2>4, <2>5 DEF CopiesInv, TopsApart
  <2>9. PairsKnown'
    <3>1. \A d \in Call : move'[d].todo = {}
      BY <2>1, <2>4 DEF CopiesInv, PairsKnown
    <3> QED
      BY <3>1 DEF PairsKnown
  <2>10. OneMover'
    BY <2>1, <2>4 DEF OneMover
  <2> QED
    BY <2>6, <2>7, <2>8, <2>9, <2>10 DEF CopiesInv
<1>11. CASE UNCHANGED vars
  BY <1>11, CopiesUntouched DEF vars
<1> QED
  BY <1>1, <1>2, <1>3, <1>4, <1>5, <1>6, <1>7, <1>8, <1>9, <1>10, <1>11 DEF Next

-----------------------------------------------------------------------------
(***************************************************************************)
(* However calls overlap, and whatever edits of the source come between    *)
(* the import and the walk, a live wrapper changes the node it views only  *)
(* to become the wrapper of one of the copies that the move has made; and  *)
(* if the source was left alone in between, of the copy of its own node.   *)
(* The pairs are those that the walk of repoint_subtree finds by position. *)
(***************************************************************************)
THEOREM WrappersFollow == Spec => WrappersFollowTheirNode
<1> DEFINE Follows(w, c) ==
             /\ move[c].pc = "repointing"
             /\ view[w].holder = move[c].src
             /\ view'[w].holder = move[c].dst
             /\ view'[w].id \in Copies(c)
             /\ SourceUnchanged(c) => /\ view[w].id \in DOMAIN move[c].copy
                                      /\ view'[w].id = move[c].copy[view[w].id]
           FollowAll == \A w \in Wrapper :
             view[w] # None /\ view'[w] # None /\ view'[w] # view[w] =>
               \E c \in Call : Follows(w, c)
           Inv == CacheInv /\ CopiesInv
<1>1. Inv /\ [Next]_vars => FollowAll
  <2> SUFFICES ASSUME Inv, [Next]_vars, NEW w \in Wrapper,
                      view[w] # None, view'[w] # None, view'[w] # view[w]
               PROVE  \E c \in Call : Follows(w, c)
    OBVIOUS
  <2>t. view \in [Wrapper -> Node \cup {None}]
    BY DEF CacheInv, TypeOK
  <2>1. ASSUME NEW c \in Call, NEW v \in Wrapper, FinishMiss(c, v)
        PROVE  FALSE
    BY <2>1, <2>t DEF FinishMiss
  <2>2. ASSUME NEW v \in Wrapper, Drop(v)
        PROVE  FALSE
    BY <2>2, <2>t DEF Drop
  <2>3. ASSUME NEW c \in Call, NEW p \in NodeId \X NodeId, RepointPair(c, p)
        PROVE  Follows(w, c)
    <3> DEFINE src  == move[c].src
               held == table[src].slot[p[1]]
    <3>1. move[c].pc = "repointing" /\ p \in move[c].todo
      BY <2>3 DEF RepointPair
    <3>2. src \in Holder /\ p[1] \in NodeId /\ p[2] \in NodeId
      BY <3>1, MoveTyped
    <3>3. held = IF p[1] < table[src].len THEN held ELSE Empty
      BY <3>2, MaxIdAssumption DEF CacheInv, TypeOK, TablesOK, TableOK,
                                   NothingBeyondEnd, NodeId, Table
    <3>4. /\ held \in Wrapper
          /\ view' = [view EXCEPT ![held] = Ref(move[c].dst, p[2])]
      BY <2>3, <3>3 DEF RepointPair
    <3>5. w = held
      BY <2>t, <3>4
    <3>6. view[w] = Ref(src, p[1])
      BY <3>2, <3>4, <3>5 DEF CacheInv, HitsAreAccurate
    <3>7. view'[w] = Ref(move[c].dst, p[2])
      BY <2>t, <3>4, <3>5
    <3>8. /\ view[w].holder = src /\ view[w].id = p[1]
          /\ view'[w].holder = move[c].dst /\ view'[w].id = p[2]
      BY <3>6, <3>7 DEF Ref
    <3>9. /\ p[2] \in Copies(c)
          /\ SourceUnchanged(c) => p[1] \in DOMAIN move[c].copy /\ p[2] = move[c].copy[p[1]]
      BY <3>1 DEF CopiesInv, PairsKnown
    <3> QED
      BY <3>1, <3>8, <3>9
  <2>4. view' # view
    OBVIOUS
  <2> QED
    BY <2>1, <2>2, <2>3, <2>4
       DEF Next, vars, BeginMiss, FailMiss, Extract, Attach, Import, BeginRepoint, DetachSource
<1>2. Init => Inv
  BY CacheInvInit, CopiesInvInit
<1>3. Inv /\ [Next]_vars => Inv'
  BY CacheInvStep, CopiesInvStep
<1>4. FollowAll => [FollowAll]_vars
  OBVIOUS
<1> QED
  BY <1>1, <1>2, <1>3, <1>4, PTL DEF Spec, WrappersFollowTheirNode

-----------------------------------------------------------------------------
(***************************************************************************)
(* Identity.  It rests on what the calls in progress may assume of the     *)
(* nodes they are about to cache a wrapper for.                            *)
(***************************************************************************)

\* Neither a copy before the walk nor one that a pair to come leads to is cached.
NotCached ==
  \A c \in Call :
    /\ move[c].pc = "imported" =>
         \A x \in Copies(c) : table[move[c].dst].slot[x] \notin Wrapper
    /\ \A p \in move[c].todo : table[move[c].dst].slot[p[2]] \notin Wrapper

\* In the walk of an unchanged source, a node whose pair is done is not cached.
PairsDone ==
  \A c \in Call : move[c].pc = "repointing" /\ SourceUnchanged(c) =>
    \A s \in DOMAIN move[c].copy :
      <<s, move[c].copy[s]>> \in move[c].todo \/ table[move[c].src].slot[s] \notin Wrapper

\* The node a call is making a wrapper for is in the arena, has no live wrapper
\* yet, is in no copy that waits and is not being wrapped by another call.
MissesAlone ==
  \A c \in Call : miss[c] # None =>
    /\ miss[c].id < arena[miss[c].holder]
    /\ table[miss[c].holder].slot[miss[c].id] \notin Wrapper
    /\ \A d \in Call :
         /\ Pending(d) /\ move[d].dst = miss[c].holder => miss[c].id \notin Copies(d)
         /\ d # c => miss[d] # miss[c]

\* No wrapper is cached for a node the arena does not hold yet.
CachedInArena ==
  \A h \in Holder, n \in NodeId : table[h].slot[n] \in Wrapper => n < arena[h]

IdentityInv ==
  /\ IdentityStable
  /\ NotCached
  /\ PairsDone
  /\ MissesAlone
  /\ CachedInArena

LEMMA IdentityInvInit == Init => IdentityInv
<1> SUFFICES ASSUME Init PROVE IdentityInv
  OBVIOUS
<1>1. \A h \in Holder, n \in NodeId : table[h].slot[n] = Empty
  BY DEF Init, NewTable
<1>2. \A c \in Call : move[c].pc = "none" /\ move[c].todo = {}
  BY DEF Init, NoMove
<1>3. \A c \in Call : miss[c] = None
  BY DEF Init
<1>4. \A w \in Wrapper : view[w] = None
  BY DEF Init
<1> QED
  BY <1>1, <1>2, <1>3, <1>4, CellAssumption
     DEF IdentityInv, IdentityStable, NotCached, PairsDone, MissesAlone, CachedInArena

\* While no walk is under way there is no pair to come.
LEMMA NoPairs ==
  ASSUME CopiesInv, \A c \in Call : move[c].pc # "repointing"
  PROVE  PairsDone /\ \A c \in Call : move[c].todo = {}
  BY DEF PairsDone, CopiesInv, PairsKnown

\* The places of a move's copies.
LEMMA CopiesTyped ==
  ASSUME CacheInv, CopiesInv, NEW c \in Call, Pending(c)
  PROVE  /\ move[c].src \in Holder /\ move[c].dst \in Holder /\ move[c].src # move[c].dst
         /\ \A x \in Copies(c) : x \in NodeId /\ x < arena[move[c].dst]
<1>1. move[c].pc # "none"
  BY DEF Pending
<1>2. /\ move[c].src \in Holder /\ move[c].dst \in Holder /\ move[c].src # move[c].dst
      /\ move[c].copy \in [DOMAIN move[c].copy -> NodeId]
  BY <1>1, MoveTyped
<1>3. \A s \in DOMAIN move[c].copy : move[c].copy[s] < arena[move[c].dst]
  BY DEF CopiesInv, CopiesWait, Waits
<1> QED
  BY <1>2, <1>3 DEF Copies

\* Calls that put no wrapper anywhere, and neither begin a move nor a walk.
LEMMA IdentityKept ==
  ASSUME CacheInv, CopiesInv, CopiesInv', IdentityInv,
         \A c \in Call : move[c].pc # "repointing",
         \A h \in Holder, n \in NodeId :
           table'[h].slot[n] \in Wrapper => table[h].slot[n] \in Wrapper,
         UNCHANGED arena, IdentityStable', \A c \in Call : miss'[c] \in {miss[c], None},
         \A c \in Call : move'[c] = move[c] \/ (~Pending(c)' /\ move'[c].pc # "repointing")
  PROVE  IdentityInv'
<1>1. PairsDone' /\ \A c \in Call : move'[c].todo = {}
  <2>1. \A c \in Call : move'[c].pc # "repointing"
    OBVIOUS
  <2> QED
    BY <2>1 DEF PairsDone, CopiesInv, PairsKnown
<1>2. \A c \in Call : Pending(c)' => Pending(c) /\ move'[c] = move[c] /\ Copies(c)' = Copies(c)
  BY DEF Pending, Copies
<1>3. NotCached'
  <2> SUFFICES ASSUME NEW c \in Call, move'[c].pc = "imported", NEW x \in Copies(c)'
               PROVE  table'[move'[c].dst].slot[x] \notin Wrapper
    BY <1>1 DEF NotCached
  <2>1. Pending(c)' /\ Pending(c) /\ move'[c] = move[c] /\ x \in Copies(c)
    BY <1>2 DEF Pending
  <2>2. move[c].dst \in Holder /\ x \in NodeId
    BY <2>1, CopiesTyped
  <2> QED
    BY <2>1, <2>2 DEF IdentityInv, NotCached
<1>4. MissesAlone'
  <2> SUFFICES ASSUME NEW c \in Call, miss'[c] # None
               PROVE  /\ miss'[c].id < arena'[miss'[c].holder]
                      /\ table'[miss'[c].holder].slot[miss'[c].id] \notin Wrapper
                      /\ \A d \in Call :
                           /\ Pending(d)' /\ move'[d].dst = miss'[c].holder =>
                                miss'[c].id \notin Copies(d)'
                           /\ d # c => miss'[d] # miss'[c]
    BY DEF MissesAlone
  <2>1. miss'[c] = miss[c] /\ miss[c] \in Node
    BY DEF CacheInv, TypeOK
  <2>2. miss[c].holder \in Holder /\ miss[c].id \in NodeId
    BY <2>1 DEF Node
  <2> QED
    BY <1>2, <2>1, <2>2 DEF IdentityInv, MissesAlone
<1>5. CachedInArena'
  BY DEF IdentityInv, CachedInArena
<1> QED
  BY <1>1, <1>3, <1>4, <1>5 DEF IdentityInv

LEMMA IdentityInvStep ==
  ASSUME SameNodeMiss = FALSE
  PROVE  CacheInv /\ CopiesInv /\ IdentityInv /\ [Next]_vars => IdentityInv'
<1> SUFFICES ASSUME CacheInv, CopiesInv, IdentityInv, [Next]_vars
             PROVE  IdentityInv'
  OBVIOUS
<1>t. /\ table \in [Holder -> Table]
      /\ arena \in [Holder -> 0 .. MaxId]
      /\ view \in [Wrapper -> Node \cup {None}]
      /\ miss \in [Call -> Node \cup {None}]
      /\ move \in [Call -> Move \cup {NoMove}]
  BY DEF CacheInv, TypeOK
<1>s. \A h \in Holder : table[h] \in Table /\ TableOK(table[h])
                        /\ table[h].slot \in [NodeId -> Cell]
  BY <1>t DEF CacheInv, TablesOK, Table
<1>p. CopiesInv'
  BY CopiesInvStep
<1>1. ASSUME NEW c \in Call, NEW h \in Holder, NEW n \in NodeId, BeginMiss(c, h, n)
      PROVE  IdentityInv'
  <2>1. /\ miss' = [miss EXCEPT ![c] = Ref(h, n)]
        /\ UNCHANGED <<table, arena, view, move, kids>>
        /\ \A d \in Call : move[d].pc # "repointing"
    BY <1>1 DEF BeginMiss, GilFree
  <2>2. /\ n < arena[h]
        /\ table[h].slot[n] \notin Wrapper
        /\ \A d \in Call : miss[d] # Ref(h, n)
    BY <1>1 DEF BeginMiss, Reachable, HasLiveWrapper, Live
  <2>3. \A d \in Call : Pending(d) /\ move[d].dst = h => n \notin Copies(d)
    BY <1>1 DEF BeginMiss, Reachable, FreshCopies
  <2>4. Ref(h, n).holder = h /\ Ref(h, n).id = n
    BY DEF Ref
  <2>5. \A d \in Call : (Pending(d)' <=> Pending(d)) /\ Copies(d)' = Copies(d)
    BY <2>1 DEF Pending, Copies
  <2>6. MissesAlone'
    BY <1>t, <2>1, <2>2, <2>3, <2>4, <2>5 DEF IdentityInv, MissesAlone
  <2>7. IdentityStable' /\ CachedInArena'
    BY <2>1 DEF IdentityInv, IdentityStable, CachedInArena
  <2>8. NotCached'
    BY <2>1, <2>5 DEF IdentityInv, NotCached
  <2>9. PairsDone'
    BY <2>1 DEF PairsDone
  <2> QED
    BY <2>6, <2>7, <2>8, <2>9 DEF IdentityInv
<1>2. ASSUME NEW c \in Call, NEW w \in Wrapper, FinishMiss(c, w)
      PROVE  IdentityInv'
  <2> DEFINE h == miss[c].holder
             n == miss[c].id
             r == InsertAndSweep(table[h], n, w)
  <2>1. h \in Holder /\ n \in NodeId /\ miss[c] = Ref(h, n) /\ miss[c] # None
    BY <1>2, <1>t DEF FinishMiss, Node, Ref
  <2>2. /\ r.slot[n] = w
        /\ \A m \in NodeId \ {n} : \/ r.slot[m] = table[h].slot[m]
                                   \/ table[h].slot[m] = Tombstone /\ r.slot[m] = Empty
    BY <1>s, <2>1, InsertAndSweepOK
  <2>3. /\ table' = [table EXCEPT ![h] = r]
        /\ view' = [view EXCEPT ![w] = Ref(h, n)]
        /\ miss' = [miss EXCEPT ![c] = None]
        /\ UNCHANGED <<arena, move>>
        /\ view[w] = None
        /\ \A d \in Call : move[d].pc # "repointing"
    BY <1>2, <2>1 DEF FinishMiss, GilFree
  <2>4. /\ n < arena[h]
        /\ table[h].slot[n] \notin Wrapper
        /\ \A d \in Call : Pending(d) /\ move[d].dst = h => n \notin Copies(d)
        /\ \A d \in Call : d # c => miss[d] # Ref(h, n)
    BY <2>1 DEF IdentityInv, MissesAlone
  <2> HIDE DEF r, h, n
  <2>5. \A k \in Holder, m \in NodeId : ~(k = h /\ m = n) =>
          \/ table'[k].slot[m] = table[k].slot[m]
          \/ table[k].slot[m] = Tombstone /\ table'[k].slot[m] = Empty
    BY <1>t, <2>1, <2>2, <2>3
  <2>6. table'[h].slot[n] = w
    BY <1>t, <2>1, <2>2, <2>3
  <2>7. IdentityStable'
    <3> SUFFICES ASSUME NEW v \in Wrapper, view'[v] # None
                 PROVE  table'[view'[v].holder].slot[view'[v].id] = v
      BY DEF IdentityStable
    <3>1. CASE v = w
      BY <1>t, <2>3, <2>6, <3>1 DEF Ref
    <3>2. CASE v # w
      <4>1. view'[v] = view[v] /\ view[v] \in Node
        BY <1>t, <2>3, <3>2
      <4>2. table[view[v].holder].slot[view[v].id] = v
        BY <4>1 DEF IdentityInv, IdentityStable
      <4>3. ~(view[v].holder = h /\ view[v].id = n)
        BY <2>4, <4>2
      <4>4. view[v].holder \in Holder /\ view[v].id \in NodeId
        BY <4>1 DEF Node
      <4> QED
        BY <2>5, <4>1, <4>2, <4>3, <4>4, CellAssumption
    <3> QED
      BY <3>1, <3>2
  <2>8. \A d \in Call : (Pending(d)' <=> Pending(d)) /\ Copies(d)' = Copies(d)
    BY <2>3 DEF Pending, Copies
  <2>9. PairsDone' /\ \A d \in Call : move'[d].todo = {}
    BY <2>3, NoPairs DEF PairsDone
  <2>10. NotCached'
    <3> SUFFICES ASSUME NEW d \in Call, move[d].pc = "imported", NEW x \in Copies(d)
                 PROVE  table'[move[d].dst].slot[x] \notin Wrapper
      BY <2>3, <2>8, <2>9 DEF NotCached
    <3>1. Pending(d)
      BY DEF Pending
    <3>2. move[d].dst \in Holder /\ x \in NodeId
      BY <3>1, CopiesTyped
    <3>3. ~(move[d].dst = h /\ x = n)
      BY <2>4, <3>1
    <3>4. table[move[d].dst].slot[x] \notin Wrapper
      BY DEF IdentityInv, NotCached
    <3> QED
      BY <2>5, <3>2, <3>3, <3>4, CellAssumption
  <2>11. MissesAlone'
    <3> SUFFICES ASSUME NEW d \in Call, d # c, miss[d] # None
                 PROVE  table'[miss[d].holder].slot[miss[d].id] \notin Wrapper
      BY <1>t, <2>3, <2>8 DEF IdentityInv, MissesAlone
    <3>1. miss[d] \in Node /\ miss[d].holder \in Holder /\ miss[d].id \in NodeId
      BY <1>t DEF Node
    <3>2. ~(miss[d].holder = h /\ miss[d].id = n)
      BY <2>4, <3>1 DEF Node, Ref
    <3>3. table[miss[d].holder].slot[miss[d].id] \notin Wrapper
      BY DEF IdentityInv, MissesAlone
    <3> QED
      BY <2>5, <3>1, <3>2, <3>3, CellAssumption
  <2>12. CachedInArena'
    BY <2>1, <2>3, <2>4, <2>5, CellAssumption DEF IdentityInv, CachedInArena
  <2> QED
    BY <2>7, <2>9, <2>10, <2>11, <2>12 DEF IdentityInv
<1>3. ASSUME NEW c \in Call, FailMiss(c)
      PROVE  IdentityInv'
  <2>1. /\ miss' = [miss EXCEPT ![c] = None]
        /\ UNCHANGED <<table, arena, view, move>>
        /\ \A d \in Call : move[d].pc # "repointing"
    BY <1>3 DEF FailMiss, GilFree
  <2>2. IdentityStable'
    BY <2>1 DEF IdentityInv, IdentityStable
  <2>3. \A d \in Call : miss'[d] \in {miss[d], None}
    BY <1>t, <2>1
  <2> QED
    BY <1>p, <2>1, <2>2, <2>3, IdentityKept
<1>4. ASSUME NEW w \in Wrapper, Drop(w)
      PROVE  IdentityInv'
  <2>1. \A h \in Holder, n \in NodeId : table'[h].slot[n] =
               IF table[h].slot[n] = w THEN Tombstone ELSE table[h].slot[n]
    <3> TAKE h \in Holder, n \in NodeId
    <3>1. table'[h] = ClearWeakrefs(table[h], w)
      BY <1>4 DEF Drop
    <3> QED
      BY <1>s, <3>1, ClearWeakrefsOK
  <2>2. /\ view' = [view EXCEPT ![w] = None]
        /\ UNCHANGED <<arena, miss, move>>
        /\ \A d \in Call : move[d].pc # "repointing"
    BY <1>4 DEF Drop, GilFree
  <2>3. IdentityStable'
    <3> SUFFICES ASSUME NEW v \in Wrapper, view'[v] # None
                 PROVE  table'[view'[v].holder].slot[view'[v].id] = v
      BY DEF IdentityStable
    <3>1. v # w /\ view'[v] = view[v] /\ view[v] \in Node
      BY <1>t, <2>2
    <3>2. table[view[v].holder].slot[view[v].id] = v
      BY <3>1 DEF IdentityInv, IdentityStable
    <3> QED
      BY <2>1, <3>1, <3>2 DEF Node
  <2>4. \A h \in Holder, n \in NodeId :
          table'[h].slot[n] \in Wrapper => table[h].slot[n] \in Wrapper
    BY <2>1, CellAssumption
  <2> QED
    BY <1>p, <2>2, <2>3, <2>4, IdentityKept
<1>5. ASSUME NEW h \in Holder, NEW n \in NodeId, Extract(h, n)
      PROVE  IdentityInv'
  <2>1. /\ UNCHANGED <<table, arena, view, miss, move>>
        /\ \A d \in Call : move[d].pc # "repointing"
    BY <1>5 DEF Extract, GilFree
  <2>2. IdentityStable'
    BY <2>1 DEF IdentityInv, IdentityStable
  <2> QED
    BY <1>p, <2>1, <2>2, IdentityKept
<1>6. ASSUME NEW h \in Holder, NEW p \in NodeId, NEW n \in NodeId, Attach(h, p, n)
      PROVE  IdentityInv'
  <2>1. /\ UNCHANGED <<table, arena, view, miss, move>>
        /\ \A d \in Call : move[d].pc # "repointing"
    BY <1>6 DEF Attach, GilFree
  <2>2. IdentityStable'
    BY <2>1 DEF IdentityInv, IdentityStable
  <2> QED
    BY <1>p, <2>1, <2>2, IdentityKept
<1>7. ASSUME NEW c \in Call, NEW src \in Holder, NEW dst \in Holder,
             NEW s \in NodeId, Import(c, src, dst, s)
      PROVE  IdentityInv'
  <2>0. PICK f : Imports(c, src, dst, s, f)
    BY <1>7, ImportIs
  <2> DEFINE S == Below(kids[src], s)
  <2>1. /\ f \in [S -> NodeId]
        /\ \A r \in S : f[r] >= arena[dst] /\ f[r] < arena'[dst]
        /\ arena[dst] \in Nat /\ arena'[dst] \in Nat /\ arena[dst] <= arena'[dst]
        /\ \A h \in Holder : h # dst => arena'[h] = arena[h]
        /\ move' = [move EXCEPT ![c] =
                      [ pc |-> "imported", src |-> src, dst |-> dst, top |-> s,
                        copy |-> f, shape |-> Within(kids[src], S), todo |-> {} ]]
        /\ \A d \in Call : move[d].pc # "repointing"
        /\ UNCHANGED <<table, view, miss>>
    BY <2>0 DEF Imports, GilFree
  <2> HIDE DEF S
  <2>2. /\ move'[c].pc = "imported" /\ move'[c].dst = dst
        /\ move'[c].copy = f /\ DOMAIN f = S
        /\ \A d \in Call : d # c => move'[d] = move[d]
    BY <1>t, <2>1
  <2>3. \A d \in Call : d # c => Copies(d)' = Copies(d) /\ (Pending(d)' <=> Pending(d))
    BY <2>2 DEF Copies, Pending
  <2>4. \A x \in Copies(c)' : x \in NodeId /\ x >= arena[dst]
    BY <2>1, <2>2 DEF Copies
  <2>5. ASSUME NEW h \in Holder, NEW n \in NodeId, n < arena[h]
        PROVE  n < arena'[h]
    BY <2>1, <2>5, MaxIdAssumption DEF NodeId
  <2>6. PairsDone' /\ \A d \in Call : move'[d].todo = {}
    <3>1. \A d \in Call : move'[d].pc # "repointing"
      BY <2>1, <2>2
    <3> QED
      BY <1>p, <3>1 DEF PairsDone, CopiesInv, PairsKnown
  <2>7. NotCached'
    <3> SUFFICES ASSUME NEW d \in Call, move'[d].pc = "imported", NEW x \in Copies(d)'
                 PROVE  table[move'[d].dst].slot[x] \notin Wrapper
      BY <2>1, <2>6 DEF NotCached
    <3>1. CASE d = c
      <4>1. x \in NodeId /\ x >= arena[dst]
        BY <2>4, <3>1
      <4>2. ~(x < arena[dst])
        BY <2>1, <4>1, MaxIdAssumption DEF NodeId
      <4> QED
        BY <2>2, <3>1, <4>1, <4>2 DEF IdentityInv, CachedInArena
    <3>2. CASE d # c
      BY <2>2, <2>3, <3>2 DEF IdentityInv, NotCached
    <3> QED
      BY <3>1, <3>2
  <2>8. MissesAlone'
    <3> SUFFICES ASSUME NEW d \in Call, miss[d] # None
                 PROVE  /\ miss[d].id < arena'[miss[d].holder]
                        /\ \A e \in Call : Pending(e)' /\ move'[e].dst = miss[d].holder =>
                             miss[d].id \notin Copies(e)'
      BY <2>1 DEF IdentityInv, MissesAlone
    <3>1. miss[d].holder \in Holder /\ miss[d].id \in NodeId
      BY <1>t DEF Node
    <3>2. miss[d].id < arena[miss[d].holder]
      BY DEF IdentityInv, MissesAlone
    <3>3. miss[d].id < arena'[miss[d].holder]
      BY <2>5, <3>1, <3>2
    <3>4. miss[d].holder = dst => miss[d].id \notin Copies(c)'
      BY <2>1, <2>4, <3>1, <3>2, MaxIdAssumption DEF NodeId
    <3>5. \A e \in Call : e # c /\ Pending(e) /\ move[e].dst = miss[d].holder =>
                             miss[d].id \notin Copies(e)
      BY DEF IdentityInv, MissesAlone
    <3> QED
      BY <2>2, <2>3, <3>3, <3>4, <3>5
  <2>9. CachedInArena'
    <3> SUFFICES ASSUME NEW h \in Holder, NEW n \in NodeId, table[h].slot[n] \in Wrapper
                 PROVE  n < arena'[h]
      BY <2>1 DEF CachedInArena
    <3>1. n < arena[h]
      BY DEF IdentityInv, CachedInArena
    <3> QED
      BY <2>5, <3>1
  <2>10. IdentityStable'
    BY <2>1 DEF IdentityInv, IdentityStable
  <2> QED
    BY <2>6, <2>7, <2>8, <2>9, <2>10 DEF IdentityInv
<1>8. ASSUME NEW c \in Call, BeginRepoint(c)
      PROVE  IdentityInv'
  <2> DEFINE src  == move[c].src
             r    == SweepDead(table[src])
             fast == NothingCached(r)
             next == IF fast
                     THEN [move[c] EXCEPT !.pc = "repointed"]
                     ELSE [move[c] EXCEPT !.pc = "repointing", !.todo = Pairs(c)]
  <2>0. /\ move[c].pc = "imported" /\ Pending(c)
        /\ \A d \in Call : move[d].pc # "repointing"
    BY <1>8 DEF BeginRepoint, Pending, GilFree
  <2>1. move[c] \in Move /\ src \in Holder
    BY <2>0, MoveTyped
  <2>2. \A n \in NodeId : r.slot[n] = IF table[src].slot[n] = Tombstone
                                      THEN Empty ELSE table[src].slot[n]
    BY <1>s, <2>1, SweepOK DEF TableOK
  <2>3. /\ table' = [table EXCEPT ![src] = r]
        /\ move' = [move EXCEPT ![c] = next]
        /\ UNCHANGED <<arena, kids, view, miss>>
    BY <1>8 DEF BeginRepoint
  <2> HIDE DEF r, fast, next
  <2>4. \A h \in Holder, n \in NodeId :
          \/ table'[h].slot[n] = table[h].slot[n]
          \/ table[h].slot[n] = Tombstone /\ table'[h].slot[n] = Empty
    BY <1>t, <2>1, <2>2, <2>3
  <2>5. \A h \in Holder, n \in NodeId :
          table'[h].slot[n] \in Wrapper => table[h].slot[n] \in Wrapper
    BY <2>4, CellAssumption
  <2>6. IdentityStable'
    <3> SUFFICES ASSUME NEW v \in Wrapper, view[v] # None
                 PROVE  table'[view[v].holder].slot[view[v].id] = v
      BY <2>3 DEF IdentityStable
    <3>1. table[view[v].holder].slot[view[v].id] = v
      BY DEF IdentityInv, IdentityStable
    <3>2. view[v].holder \in Holder /\ view[v].id \in NodeId
      BY <1>t DEF Node
    <3> QED
      BY <2>4, <3>1, <3>2, CellAssumption
  <2>7. move'[c] = next /\ \A d \in Call : d # c => move'[d] = move[d]
    BY <1>t, <2>3
  <2>8. CASE fast
    <3>1. next.pc = "repointed"
      BY <2>1, <2>8, StepSkips DEF next
    <3>2. \A d \in Call : move'[d] = move[d] \/ (~Pending(d)' /\ move'[d].pc # "repointing")
      <4> TAKE d \in Call
      <4>1. CASE d = c
        <5>1. move'[d].pc = "repointed"
          BY <2>7, <3>1, <4>1
        <5> QED
          BY <5>1 DEF Pending
      <4>2. CASE d # c
        <5>1. move'[d] = move[d]
          BY <2>7, <4>2
        <5> QED
          BY <5>1
      <4> QED
        BY <4>1, <4>2
    <3>3. \A d \in Call : miss'[d] \in {miss[d], None}
      BY <2>3
    <3> QED
      BY <1>p, <2>0, <2>3, <2>5, <2>6, <3>2, <3>3, IdentityKept
  <2>9. CASE ~fast
    <3>1. next = [move[c] EXCEPT !.pc = "repointing", !.todo = Pairs(c)]
      BY <2>9 DEF next
    <3>2. Pairs(c) \in SUBSET (NodeId \X NodeId)
      BY <2>0, PairsTyped
    <3>3. next.pc = "repointing" /\ next.todo = Pairs(c) /\ StaysMove(move[c], next)
      <4> DEFINE found == Pairs(c)
      <4> HIDE DEF found
      <4>1. next = [move[c] EXCEPT !.pc = "repointing", !.todo = found]
        BY <3>1 DEF found
      <4> HIDE DEF next
      <4>2. next.pc = "repointing" /\ next.todo = found /\ StaysMove(move[c], next)
        BY <2>1, <4>1 DEF Move, StaysMove
      <4> QED
        BY <4>2 DEF found
    <3>4. /\ \A p \in Pairs(c) : p[2] \in Copies(c)
          /\ SourceUnchanged(c) =>
               \A s \in DOMAIN move[c].copy : <<s, move[c].copy[s]>> \in Pairs(c)
      BY <2>0, WalkPairs
    <3>5. /\ move'[c].src = move[c].src /\ move'[c].dst = move[c].dst
          /\ move'[c].copy = move[c].copy /\ move'[c].shape = move[c].shape
          /\ move'[c].pc = "repointing" /\ move'[c].todo = Pairs(c)
      BY <2>7, <3>3 DEF StaysMove
    <3>6. \A d \in Call : /\ Pending(d)' => Pending(d)
                          /\ Copies(d)' = Copies(d)
                          /\ move'[d].dst = move[d].dst
      BY <2>0, <2>7, <3>5 DEF Pending, Copies
    <3>7. SourceUnchanged(c)' <=> SourceUnchanged(c)
      BY <2>3, <3>5 DEF SourceUnchanged
    <3>8. \A d \in Call : d # c => move'[d].todo = {} /\ move'[d].pc # "repointing"
      BY <2>0, <2>7, NoPairs
    <3>9. \A d \in Call : Pending(d) => /\ move[d].dst \in Holder
                                        /\ \A x \in Copies(d) : x \in NodeId
      BY CopiesTyped
    <3>10. NotCached'
      <4> SUFFICES ASSUME NEW d \in Call
                   PROVE  /\ move'[d].pc = "imported" =>
                               \A x \in Copies(d) : table'[move[d].dst].slot[x] \notin Wrapper
                          /\ \A p \in move'[d].todo : table'[move[d].dst].slot[p[2]] \notin Wrapper
        BY <3>6 DEF NotCached
      <4>1. move[d].pc = "imported" =>
              \A x \in Copies(d) : table'[move[d].dst].slot[x] \notin Wrapper
        <5> SUFFICES ASSUME move[d].pc = "imported", NEW x \in Copies(d)
                     PROVE  table'[move[d].dst].slot[x] \notin Wrapper
          OBVIOUS
        <5>1. Pending(d)
          BY DEF Pending
        <5>2. table[move[d].dst].slot[x] \notin Wrapper
          BY DEF IdentityInv, NotCached
        <5> QED
          BY <2>5, <3>9, <5>1, <5>2
      <4>2. CASE d = c
        BY <2>0, <3>4, <3>5, <4>1, <4>2
      <4>3. CASE d # c
        BY <2>7, <3>8, <4>1, <4>3
      <4> QED
        BY <4>2, <4>3
    <3>11. PairsDone'
      BY <3>4, <3>5, <3>7, <3>8 DEF PairsDone
    <3>12. MissesAlone'
      <4> SUFFICES ASSUME NEW d \in Call, miss[d] # None
                   PROVE  /\ table'[miss[d].holder].slot[miss[d].id] \notin Wrapper
                          /\ \A e \in Call : Pending(e)' /\ move'[e].dst = miss[d].holder =>
                               miss[d].id \notin Copies(e)'
        BY <2>3 DEF IdentityInv, MissesAlone
      <4>1. miss[d].holder \in Holder /\ miss[d].id \in NodeId
        BY <1>t DEF Node
      <4> QED
        BY <2>5, <3>6, <4>1 DEF IdentityInv, MissesAlone
    <3>13. CachedInArena'
      BY <2>3, <2>5 DEF IdentityInv, CachedInArena
    <3> QED
      BY <2>6, <3>10, <3>11, <3>12, <3>13 DEF IdentityInv
  <2> QED
    BY <2>8, <2>9
<1>9. ASSUME NEW c \in Call, NEW p \in NodeId \X NodeId, RepointPair(c, p)
      PROVE  IdentityInv'
  <2> DEFINE src     == move[c].src
             dst     == move[c].dst
             s       == p[1]
             clone   == p[2]
             held    == table[src].slot[s]
             emptied == RemoveSlot(table[src], s)
             filled  == InsertAndSweep(table[dst], clone, held)
  <2>0. move[c].pc = "repointing" /\ Pending(c) /\ p \in move[c].todo
    BY <1>9 DEF RepointPair, Pending
  <2>1. /\ move[c] \in Move /\ src \in Holder /\ dst \in Holder /\ src # dst
        /\ s \in NodeId /\ clone \in NodeId
    BY <2>0, MoveTyped
  <2>2. emptied.slot = [table[src].slot EXCEPT ![s] = Empty]
    BY <1>s, <2>1, RemoveSlotOK
  <2>3. held = IF s < table[src].len THEN table[src].slot[s] ELSE Empty
    BY <1>s, <2>1, MaxIdAssumption DEF TableOK, NothingBeyondEnd, NodeId, Table
  <2>4. IF held \in Wrapper
        THEN /\ view' = [view EXCEPT ![held] = Ref(dst, clone)]
             /\ table' = [table EXCEPT ![src] = emptied, ![dst] = filled]
        ELSE view' = view /\ table' = [table EXCEPT ![src] = emptied]
    BY <1>9, <2>1, <2>3 DEF RepointPair
  <2>5. UNCHANGED <<arena, kids, miss>>
    BY <1>9 DEF RepointPair
  <2>6. held \in Wrapper =>
          /\ filled.slot[clone] = held
          /\ \A m \in NodeId \ {clone} :
               \/ filled.slot[m] = table[dst].slot[m]
               \/ table[dst].slot[m] = Tombstone /\ filled.slot[m] = Empty
          /\ view[held] = Ref(src, s)
    <3>1. held \in Wrapper => view[held] = Ref(src, s)
      BY <2>1 DEF CacheInv, HitsAreAccurate
    <3> HIDE DEF src, dst, held, clone, s
    <3> QED
      BY <1>s, <2>1, <3>1, InsertAndSweepOK
  <2>m. PICK n \in Move : /\ move' = [move EXCEPT ![c] = n]
                          /\ StaysMove(move[c], n)
                          /\ \/ n.pc = "repointed" /\ n.todo = {}
                             \/ n.pc = "repointing" /\ n.todo = move[c].todo \ {p}
    <3> DEFINE a == [move[c] EXCEPT !.pc = "repointed", !.todo = {}]
               b == [move[c] EXCEPT !.todo = move[c].todo \ {p}]
    <3>1. /\ a \in Move /\ a.pc = "repointed" /\ a.todo = {} /\ StaysMove(move[c], a)
          /\ b \in Move /\ b.pc = move[c].pc /\ b.todo = move[c].todo \ {p} /\ StaysMove(move[c], b)
      <4>1. a = [move[c] EXCEPT !.pc = "repointed", !.todo = {}]
        OBVIOUS
      <4>2. b = [move[c] EXCEPT !.todo = move[c].todo \ {p}]
        OBVIOUS
      <4> HIDE DEF a, b
      <4>3. a \in Move /\ a.pc = "repointed" /\ a.todo = {} /\ StaysMove(move[c], a)
        BY <2>1, <4>1, StepEnds
      <4>4. b \in Move /\ b.pc = move[c].pc /\ b.todo = move[c].todo \ {p} /\ StaysMove(move[c], b)
        BY <2>1, <4>2, StepGoesOn
      <4> QED
        BY <4>3, <4>4
    <3>2. move' = [move EXCEPT ![c] = a] \/ move' = [move EXCEPT ![c] = b]
      BY <1>9 DEF RepointPair
    <3> HIDE DEF a, b
    <3> QED
      BY <2>0, <3>1, <3>2
  <2> HIDE DEF src, dst, held, emptied, clone, filled, s
  <2>7. \A h \in Holder, n1 \in NodeId :
          ~(h = src /\ n1 = s) /\ ~(h = dst /\ n1 = clone) =>
            \/ table'[h].slot[n1] = table[h].slot[n1]
            \/ table[h].slot[n1] = Tombstone /\ table'[h].slot[n1] = Empty
    BY <1>t, <1>s, <2>1, <2>2, <2>4, <2>6
  <2>8. table'[src].slot[s] = Empty
    BY <1>t, <1>s, <2>1, <2>2, <2>4, <2>6
  <2>9. held \in Wrapper => table'[dst].slot[clone] = held /\ view'[held] = Ref(dst, clone)
    BY <1>t, <2>1, <2>4, <2>6
  <2>10. \A h \in Holder, n1 \in NodeId :
          ~(h = dst /\ n1 = clone) /\ table'[h].slot[n1] \in Wrapper =>
             table[h].slot[n1] \in Wrapper
    BY <2>1, <2>7, <2>8, CellAssumption
  <2>11. /\ move'[c].pc \in {"repointing", "repointed"}
         /\ move'[c].src = move[c].src /\ move'[c].dst = move[c].dst
         /\ move'[c].copy = move[c].copy /\ move'[c].shape = move[c].shape
         /\ move'[c].pc = "repointing" => move'[c].todo = move[c].todo \ {p}
         /\ move'[c].todo \subseteq move[c].todo \ {p}
         /\ \A d \in Call : d # c => move'[d] = move[d]
    BY <1>t, <2>m DEF StaysMove
  <2>12. \A d \in Call : /\ Pending(d)' => Pending(d)
                         /\ Copies(d)' = Copies(d)
                         /\ move'[d].dst = move[d].dst
    BY <2>0, <2>11 DEF Pending, Copies
  <2>13. clone \in Copies(c) /\ clone < arena[dst] /\ table[dst].slot[clone] \notin Wrapper
    <3>1. p[2] \in Copies(c)
      BY <2>0 DEF CopiesInv, PairsKnown
    <3>2. p[2] < arena[move[c].dst]
      BY <2>0, <3>1, CopiesTyped
    <3>3. table[move[c].dst].slot[p[2]] \notin Wrapper
      BY <2>0 DEF IdentityInv, NotCached
    <3> QED
      BY <3>1, <3>2, <3>3 DEF clone, dst
  <2>14. IdentityStable'
    <3> SUFFICES ASSUME NEW v \in Wrapper, view'[v] # None
                 PROVE  table'[view'[v].holder].slot[view'[v].id] = v
      BY DEF IdentityStable
    <3>1. CASE v = held
      BY <2>9, <3>1 DEF Ref
    <3>2. CASE v # held
      <4>1. view'[v] = view[v] /\ view[v] \in Node
        BY <1>t, <2>4, <3>2
      <4>2. table[view[v].holder].slot[view[v].id] = v
        BY <4>1 DEF IdentityInv, IdentityStable
      <4>3. ~(view[v].holder = src /\ view[v].id = s)
        BY <3>2, <4>2 DEF held
      <4>4. ~(view[v].holder = dst /\ view[v].id = clone)
        BY <2>13, <4>2
      <4>5. view[v].holder \in Holder /\ view[v].id \in NodeId
        BY <4>1 DEF Node
      <4> QED
        BY <2>7, <4>1, <4>2, <4>3, <4>4, <4>5, CellAssumption
    <3> QED
      BY <3>1, <3>2
  <2>15. \A d \in Call : d # c => move[d].pc # "repointing" /\ move[d].todo = {}
    BY <2>0 DEF CopiesInv, OneMover, PairsKnown
  <2>16. NotCached'
    <3> SUFFICES ASSUME NEW d \in Call
                 PROVE  /\ move'[d].pc = "imported" =>
                             \A x \in Copies(d) : table'[move[d].dst].slot[x] \notin Wrapper
                        /\ \A q \in move'[d].todo : table'[move[d].dst].slot[q[2]] \notin Wrapper
      BY <2>12 DEF NotCached
    <3>1. CASE d = c
      <4> SUFFICES ASSUME NEW q \in move'[c].todo
                   PROVE  table'[dst].slot[q[2]] \notin Wrapper
        BY <2>11, <3>1 DEF dst
      <4>1. q \in move[c].todo /\ q # p
        BY <2>11
      <4>2. q[2] # clone
        BY <2>0, <4>1 DEF CopiesInv, PairsKnown, clone
      <4>3. table[dst].slot[q[2]] \notin Wrapper
        BY <4>1 DEF IdentityInv, NotCached, dst
      <4>4. q[2] \in NodeId
        BY <2>0, <4>1, MoveTyped
      <4> QED
        BY <2>1, <2>10, <4>2, <4>3, <4>4
    <3>2. CASE d # c
      <4>1. move'[d] = move[d] /\ move[d].todo = {}
        BY <2>11, <2>15, <3>2
      <4>2. ASSUME move[d].pc = "imported", NEW x \in Copies(d)
            PROVE  table'[move[d].dst].slot[x] \notin Wrapper
        <5>1. Pending(d)
          BY <4>2 DEF Pending
        <5>2. move[d].dst \in Holder /\ x \in NodeId
          BY <4>2, <5>1, CopiesTyped
        <5>3. ~(move[d].dst = dst /\ x = clone)
          BY <2>0, <2>13, <3>2, <4>2, <5>1 DEF CopiesInv, CopiesApart, dst
        <5>4. table[move[d].dst].slot[x] \notin Wrapper
          BY <4>2 DEF IdentityInv, NotCached
        <5> QED
          BY <2>10, <5>2, <5>3, <5>4
      <4> QED
        BY <4>1, <4>2
    <3> QED
      BY <3>1, <3>2
  <2>17. PairsDone'
    <3> SUFFICES ASSUME NEW d \in Call, move'[d].pc = "repointing", SourceUnchanged(d)',
                        NEW r \in DOMAIN move'[d].copy
                 PROVE  \/ <<r, move'[d].copy[r]>> \in move'[d].todo
                        \/ table'[move'[d].src].slot[r] \notin Wrapper
      BY DEF PairsDone
    <3>1. d = c
      BY <2>11, <2>15
    <3>2. SourceUnchanged(c)
      BY <2>5, <2>11, <3>1 DEF SourceUnchanged
    <3>3. r \in DOMAIN move[c].copy /\ r \in NodeId
      BY <2>0, <2>11, <3>1, MoveTyped
    <3>4. \/ <<r, move[c].copy[r]>> \in move[c].todo
          \/ table[move[c].src].slot[r] \notin Wrapper
      BY <2>0, <3>2, <3>3 DEF IdentityInv, PairsDone
    <3>5. CASE table[move[c].src].slot[r] \notin Wrapper
      <4>1. table'[src].slot[r] \notin Wrapper
        BY <2>1, <2>10, <3>3, <3>5 DEF src
      <4> QED
        BY <2>11, <3>1, <4>1 DEF src
    <3>6. CASE <<r, move[c].copy[r]>> = p
      <4>1. r = s
        BY <3>6 DEF s
      <4>2. table'[src].slot[r] \notin Wrapper
        BY <2>8, <4>1, CellAssumption
      <4> QED
        BY <2>11, <3>1, <4>2 DEF src
    <3>7. CASE <<r, move[c].copy[r]>> \in move[c].todo \ {p}
      BY <2>11, <3>1, <3>7
    <3> QED
      BY <3>4, <3>5, <3>6, <3>7
  <2>18. MissesAlone'
    <3> SUFFICES ASSUME NEW d \in Call, miss[d] # None
                 PROVE  /\ table'[miss[d].holder].slot[miss[d].id] \notin Wrapper
                        /\ \A e \in Call : Pending(e)' /\ move'[e].dst = miss[d].holder =>
                             miss[d].id \notin Copies(e)'
      BY <2>5 DEF IdentityInv, MissesAlone
    <3>1. miss[d].holder \in Holder /\ miss[d].id \in NodeId
      BY <1>t DEF Node
    <3>2. ~(miss[d].holder = dst /\ miss[d].id = clone)
      BY <2>0, <2>13 DEF IdentityInv, MissesAlone, dst
    <3>3. table'[miss[d].holder].slot[miss[d].id] \notin Wrapper
      BY <2>10, <3>1, <3>2 DEF IdentityInv, MissesAlone
    <3>4. \A e \in Call : Pending(e)' /\ move'[e].dst = miss[d].holder =>
             miss[d].id \notin Copies(e)'
      BY <2>12 DEF IdentityInv, MissesAlone
    <3> QED
      BY <3>3, <3>4
  <2>19. CachedInArena'
    <3> SUFFICES ASSUME NEW h \in Holder, NEW x \in NodeId, table'[h].slot[x] \in Wrapper
                 PROVE  x < arena[h]
      BY <2>5 DEF CachedInArena
    <3>1. CASE h = dst /\ x = clone
      BY <2>13, <3>1
    <3>2. CASE ~(h = dst /\ x = clone)
      BY <2>10, <3>2 DEF IdentityInv, CachedInArena
    <3> QED
      BY <3>1, <3>2
  <2> QED
    BY <2>14, <2>16, <2>17, <2>18, <2>19 DEF IdentityInv
<1>10. ASSUME NEW c \in Call, DetachSource(c)
       PROVE  IdentityInv'
  <2>1. /\ move' = [move EXCEPT ![c] = NoMove]
        /\ UNCHANGED <<table, arena, view, miss>>
        /\ \A d \in Call : move[d].pc # "repointing"
    BY <1>10 DEF DetachSource, GilFree
  <2>2. IdentityStable'
    BY <2>1 DEF IdentityInv, IdentityStable
  <2>3. \A d \in Call : move'[d] = move[d] \/ (~Pending(d)' /\ move'[d].pc # "repointing")
    BY <1>t, <2>1 DEF NoMove, Pending
  <2> QED
    BY <1>p, <2>1, <2>2, <2>3, IdentityKept
<1>11. CASE UNCHANGED vars
  <2>1. UNCHANGED <<table, arena, kids, view, miss, move>>
    BY <1>11 DEF vars
  <2>2. IdentityStable' /\ CachedInArena'
    BY <2>1 DEF IdentityInv, IdentityStable, CachedInArena
  <2>3. \A d \in Call : /\ Pending(d)' <=> Pending(d)
                        /\ Copies(d)' = Copies(d)
                        /\ SourceUnchanged(d)' <=> SourceUnchanged(d)
    BY <2>1 DEF Pending, Copies, SourceUnchanged
  <2>4. NotCached' /\ PairsDone'
    BY <2>1, <2>3 DEF IdentityInv, NotCached, PairsDone
  <2>5. MissesAlone'
    BY <2>1, <2>3 DEF IdentityInv, MissesAlone
  <2> QED
    BY <2>2, <2>4, <2>5 DEF IdentityInv
<1> QED
  BY <1>1, <1>2, <1>3, <1>4, <1>5, <1>6, <1>7, <1>8, <1>9, <1>10, <1>11 DEF Next

(***************************************************************************)
(* If no two calls are ever in the miss of one node together, every live   *)
(* wrapper is the cached one of its node: identity is stable, across moves *)
(* between documents and edits of the trees too.                           *)
(***************************************************************************)
THEOREM Identity ==
  ASSUME SameNodeMiss = FALSE
  PROVE  Spec => []IdentityStable
<1> DEFINE Inv == CacheInv /\ CopiesInv /\ IdentityInv
<1>1. Init => Inv
  BY CacheInvInit, CopiesInvInit, IdentityInvInit
<1>2. Inv /\ [Next]_vars => Inv'
  BY CacheInvStep, CopiesInvStep, IdentityInvStep
<1>3. Inv => IdentityStable
  BY DEF IdentityInv
<1> QED
  BY <1>1, <1>2, <1>3, PTL DEF Spec

-----------------------------------------------------------------------------
\* A table that caches nothing has no wrapper in any slot.
LEMMA NothingLeft ==
  ASSUME NEW t \in Table, TableOK(t), NothingCached(t), NEW n \in NodeId
  PROVE  t.slot[n] \notin Wrapper
<1>1. IsFiniteSet(Filled(t)) /\ Cardinality(Filled(t)) = 0
  BY NodeSetsFinite DEF Filled, NothingCached, TableOK, CountIsExact
<1>2. Filled(t) = {}
  BY <1>1, FS_EmptySet
<1>3. t.slot[n] = Empty
  BY <1>2 DEF Filled
<1> QED
  BY <1>3, CellAssumption

\* What the step that ends repoint_subtree leaves behind: no node of an
\* unchanged source has a cached wrapper.
LEMMA MoveEnds ==
  ASSUME CacheInv, CopiesInv, IdentityInv, [Next]_vars,
         NEW c \in Call, Pending(c), move'[c].pc = "repointed", SourceUnchanged(c),
         NEW s \in DOMAIN move[c].copy
  PROVE  table'[move[c].src].slot[s] \notin Wrapper
<1>t. /\ table \in [Holder -> Table]
      /\ move \in [Call -> Move \cup {NoMove}]
      /\ \A h \in Holder : table[h] \in Table /\ TableOK(table[h])
                          /\ table[h].slot \in [NodeId -> Cell]
  BY DEF CacheInv, TypeOK, TablesOK, Table
<1>m. /\ move[c].pc # "none" /\ move[c].pc # "repointed"
      /\ move[c].src \in Holder /\ move[c].dst \in Holder /\ move[c].src # move[c].dst
      /\ s \in NodeId
  <2>1. move[c].pc # "none" /\ move[c].pc # "repointed"
    BY DEF Pending
  <2> QED
    BY <2>1, MoveTyped
<1>1. move' # move
  BY <1>m
<1>2. ASSUME NEW d \in Call, NEW src \in Holder, NEW dst \in Holder,
             NEW q \in NodeId, Import(d, src, dst, q)
      PROVE  FALSE
  <2>1. PICK f : Imports(d, src, dst, q, f)
    BY <1>2, ImportIs
  <2>2. /\ move' = [move EXCEPT ![d] =
                      [ pc |-> "imported", src |-> src, dst |-> dst, top |-> q,
                        copy |-> f, shape |-> Within(kids[src], Below(kids[src], q)), todo |-> {} ]]
    BY <2>1 DEF Imports
  <2> QED
    BY <1>t, <1>m, <2>2
<1>3. ASSUME NEW d \in Call, DetachSource(d)
      PROVE  FALSE
  BY <1>3, <1>t, <1>m DEF DetachSource, NoMove
<1>4. ASSUME NEW d \in Call, BeginRepoint(d)
      PROVE  table'[move[c].src].slot[s] \notin Wrapper
  <2> DEFINE r == SweepDead(table[move[d].src])
             next == [move[d] EXCEPT !.pc = "repointing", !.todo = Pairs(d)]
  <2>1. /\ table' = [table EXCEPT ![move[d].src] = r]
        /\ move' = [move EXCEPT ![d] = IF NothingCached(r)
                                       THEN [move[d] EXCEPT !.pc = "repointed"]
                                       ELSE next]
        /\ move[d].pc = "imported"
    BY <1>4 DEF BeginRepoint
  <2>2. next.pc = "repointing"
    BY <2>1, MoveTyped DEF Move
  <2>3. move[d].src \in Holder
    BY <2>1, MoveTyped
  <2>4. r \in Table /\ TableOK(r)
    BY <1>t, <2>3, SweepOK DEF TableOK
  <2> HIDE DEF r, next
  <2>5. d = c
    BY <1>t, <1>m, <2>1
  <2>6. NothingCached(r)
    BY <1>t, <2>1, <2>2, <2>5
  <2>7. table'[move[c].src] = r
    BY <1>t, <1>m, <2>1, <2>5
  <2> QED
    BY <1>m, <2>4, <2>6, <2>7, NothingLeft
<1>5. ASSUME NEW d \in Call, NEW p \in NodeId \X NodeId, RepointPair(d, p)
      PROVE  table'[move[c].src].slot[s] \notin Wrapper
  <2> DEFINE src     == move[c].src
             held    == IF p[1] < table[src].len THEN table[src].slot[p[1]] ELSE Empty
             emptied == RemoveSlot(table[src], p[1])
             stop    == \/ move[c].todo = {p}
                        \/ held \in Wrapper /\ NothingCached(emptied)
             rest    == [move[c] EXCEPT !.todo = move[c].todo \ {p}]
  <2>1. d = c
    <3>1. PICK n : move' = [move EXCEPT ![d] = n]
      BY <1>5 DEF RepointPair
    <3> QED
      BY <1>t, <1>m, <3>1
  <2>2. move[c].pc = "repointing" /\ p \in move[c].todo
    BY <1>5, <2>1 DEF RepointPair
  <2>3. move' = [move EXCEPT ![c] = IF stop
                                    THEN [move[c] EXCEPT !.pc = "repointed", !.todo = {}]
                                    ELSE rest]
    BY <1>5, <2>1 DEF RepointPair
  <2>4. rest.pc = "repointing"
    BY <2>2, MoveTyped DEF Move
  <2>5. p[1] \in NodeId
    OBVIOUS
  <2>6. /\ emptied \in Table
        /\ TableOK(emptied)
        /\ emptied.slot = [table[src].slot EXCEPT ![p[1]] = Empty]
    BY <1>t, <1>m, <2>5, RemoveSlotOK
  <2>7. table'[src] = emptied
    BY <1>t, <1>m, <1>5, <2>1 DEF RepointPair
  <2>8. stop
    <3> HIDE DEF stop, rest
    <3> QED
      BY <1>t, <2>3, <2>4
  <2> HIDE DEF emptied, rest, held
  <2>9. CASE NothingCached(emptied)
    BY <1>m, <2>6, <2>7, <2>9, NothingLeft
  <2>10. CASE move[c].todo = {p}
    <3>1. <<s, move[c].copy[s]>> = p \/ table[src].slot[s] \notin Wrapper
      BY <2>2, <2>10 DEF IdentityInv, PairsDone
    <3>2. s = p[1] \/ table[src].slot[s] \notin Wrapper
      BY <3>1
    <3> HIDE DEF src
    <3>3. emptied.slot[s] \notin Wrapper
      BY <1>t, <1>m, <2>6, <3>2, CellAssumption DEF src
    <3> QED
      BY <2>7, <3>3 DEF src
  <2> QED
    BY <2>8, <2>9, <2>10
<1> QED
  BY <1>1, <1>2, <1>3, <1>4, <1>5
     DEF Next, vars, BeginMiss, FinishMiss, FailMiss, Drop, Extract, Attach

(***************************************************************************)
(* Under the same assumption, repoint_subtree leaves no live wrapper of a  *)
(* node that was copied behind, unless the source was edited between the   *)
(* import and the walk: neither by the early break nor by the fast path.   *)
(***************************************************************************)
THEOREM MovesComplete ==
  ASSUME SameNodeMiss = FALSE
  PROVE  Spec => MoveTakesAllWrappers
<1> DEFINE Taken == \A c \in Call :
                      Pending(c) /\ move'[c].pc = "repointed" /\ SourceUnchanged(c) =>
                        \A s \in DOMAIN move[c].copy, w \in Wrapper :
                          view'[w] # Ref(move[c].src, s)
           Inv == CacheInv /\ CopiesInv /\ IdentityInv
<1>1. Init => Inv
  BY CacheInvInit, CopiesInvInit, IdentityInvInit
<1>2. Inv /\ [Next]_vars => Inv'
  BY CacheInvStep, CopiesInvStep, IdentityInvStep
<1>3. Inv /\ [Next]_vars => Taken
  <2> SUFFICES ASSUME Inv, [Next]_vars, NEW c \in Call,
                      Pending(c), move'[c].pc = "repointed", SourceUnchanged(c),
                      NEW s \in DOMAIN move[c].copy, NEW w \in Wrapper,
                      view'[w] = Ref(move[c].src, s)
               PROVE  FALSE
    OBVIOUS
  <2>1. IdentityStable'
    BY IdentityInvStep DEF IdentityInv
  <2>2. move[c].src \in Holder /\ s \in NodeId
    <3>1. move[c].pc # "none"
      BY DEF Pending
    <3> QED
      BY <3>1, MoveTyped
  <2>3. Ref(move[c].src, s) # None
    <3>1. Ref(move[c].src, s) \in Node
      BY <2>2 DEF Ref, Node
    <3> QED
      BY <3>1, NoneAssumption
  <2>4. table'[move[c].src].slot[s] = w
    BY <2>1, <2>3 DEF IdentityStable, Ref
  <2> QED
    BY <2>4, MoveEnds
<1>4. Taken => [Taken]_vars
  OBVIOUS
<1> QED
  BY <1>1, <1>2, <1>3, <1>4, PTL DEF Spec, MoveTakesAllWrappers

=============================================================================
