--------------------------- MODULE DocLocksProofs ---------------------------
(***************************************************************************)
(* Proofs about DocLocks, for any number of threads, documents, nested     *)
(* calls and names: every handler keeps the lock order, nobody reads half a*)
(* change, and the tag getter's steps are those of TagIntern.              *)
(***************************************************************************)
EXTENDS DocLocks, TLAPS, SequenceTheorems, FiniteSetTheorems, WellFoundedInduction

-----------------------------------------------------------------------------
(* TagIntern by itself: any number of overlapping calls and names.         *)

(* No two names share an entry, no allocated string is in the table or     *)
(* held by a second call, and what has been returned is the entry.         *)
Unshared ==
  /\ \A m, n \in Name : Interned(m) /\ table[m] = table[n] => m = n
  /\ \A n \in Name, c \in Call : made[c] # NoObject => made[c] # table[n]
  /\ \A c, d \in Call : made[c] # NoObject /\ made[c] = made[d] => c = d

ReturnedIsEntry == \A n \in Name : got[n] # {} => Interned(n) /\ got[n] = {table[n]}

IInv == TypeOK /\ Unshared /\ ReturnedIsEntry

USE TagInternAssumption

LEMMA InitIInv == Init => IInv
  BY DEF Init, IInv, TypeOK, Unshared, ReturnedIsEntry, Interned, Steps

(* Handing out an entry changes no entry and lets go of one string.        *)
LEMMA HitPreserves ==
  ASSUME IInv, NEW c \in Call, NEW n \in Name, Interned(n),
         Returned(c, n, table[n]), table' = table, read' \in [Call -> Name],
         made[c] = NoObject
  PROVE  IInv'
  <1>1. TypeOK'
    BY DEF IInv, TypeOK, Returned, Moved, Interned, Steps
  <1>2. Unshared'
    BY DEF IInv, TypeOK, Unshared, Returned, Interned
  <1>3. ReturnedIsEntry'
    BY DEF IInv, TypeOK, ReturnedIsEntry, Returned, Interned
  <1> QED BY <1>1, <1>2, <1>3 DEF IInv

LEMMA AllocatePreserves ==
  ASSUME IInv, NEW c \in Call, Allocate(c)
  PROVE  IInv'
  <1>1. PICK object \in Object \ InUse : made' = [made EXCEPT ![c] = object]
    BY DEF Allocate
  <1>2. TypeOK'
    BY <1>1 DEF IInv, TypeOK, Allocate, Moved, Steps
  <1>3. Unshared'
    BY <1>1 DEF IInv, TypeOK, Unshared, Allocate, Interned, InUse
  <1>4. ReturnedIsEntry'
    BY DEF IInv, ReturnedIsEntry, Allocate, Interned
  <1> QED BY <1>2, <1>3, <1>4 DEF IInv

LEMMA InternPreserves ==
  ASSUME IInv, NEW c \in Call, Intern(c)
  PROVE  IInv'
  <1> DEFINE n == read[c]
  <1>0. n \in Name /\ pc[c] = "allocated" /\ made[c] \in Object /\ made[c] # NoObject
    BY DEF Intern, IInv, TypeOK
  <1>1. CASE Interned(n)
    <2>1. table' = table
      BY <1>0, <1>1 DEF Intern, Settled, IInv, TypeOK
    <2>2. TypeOK'
      BY <1>0, <1>1, <2>1 DEF IInv, TypeOK, Intern, Settled, Returned, Moved, Interned, Steps
    <2>3. Unshared'
      BY <1>0, <2>1 DEF IInv, TypeOK, Unshared, Intern, Returned, Interned
    <2>4. ReturnedIsEntry'
      BY <1>0, <1>1, <2>1 DEF IInv, TypeOK, ReturnedIsEntry, Intern, Settled, Returned, Interned
    <2> QED BY <2>2, <2>3, <2>4 DEF IInv
  <1>2. CASE ~Interned(n)
    <2>1. table' = [table EXCEPT ![n] = made[c]] /\ got' = [got EXCEPT ![n] = @ \cup {made[c]}]
      BY <1>0, <1>2 DEF Intern, Settled, Returned
    <2>2. TypeOK'
      BY <1>0, <2>1 DEF IInv, TypeOK, Intern, Returned, Moved, Steps
    <2>3. Unshared'
      BY <1>0, <1>2, <2>1 DEF IInv, TypeOK, Unshared, Intern, Returned, Interned
    <2>4. ReturnedIsEntry'
      BY <1>0, <1>2, <2>1 DEF IInv, TypeOK, ReturnedIsEntry, Interned
    <2> QED BY <2>2, <2>3, <2>4 DEF IInv
  <1> QED BY <1>1, <1>2

(* The strengthened invariant holds of every behaviour.                    *)
THEOREM Invariance == Spec => []IInv
  <1>1. Init => IInv
    BY InitIInv
  <1>2. IInv /\ [Next]_vars => IInv'
    <2> SUFFICES ASSUME IInv, [Next]_vars PROVE IInv'
      OBVIOUS
    <2>1. ASSUME NEW c \in Call, NEW n \in Name, ReadHit(c, n) PROVE IInv'
      <3>1. read' \in [Call -> Name] /\ made[c] = NoObject
        BY <2>1 DEF ReadHit, IInv, TypeOK
      <3> QED BY <2>1, <3>1, HitPreserves DEF ReadHit
    <2>2. ASSUME NEW c \in Call, NEW n \in Name, ReadMiss(c, n) PROVE IInv'
      BY <2>2 DEF ReadMiss, Moved, IInv, TypeOK, Unshared, ReturnedIsEntry, Interned, Steps
    <2>3. ASSUME NEW c \in Call, LookUpHit(c) PROVE IInv'
      <3>1. read[c] \in Name /\ made[c] = NoObject /\ read' \in [Call -> Name]
        BY <2>3 DEF LookUpHit, IInv, TypeOK
      <3> QED BY <2>3, <3>1, HitPreserves DEF LookUpHit
    <2>4. ASSUME NEW c \in Call, LookUpMiss(c) PROVE IInv'
      BY <2>4 DEF LookUpMiss, Moved, IInv, TypeOK, Unshared, ReturnedIsEntry, Interned, Steps
    <2>5. CASE UNCHANGED vars
      BY <2>5 DEF vars, IInv, TypeOK, Unshared, ReturnedIsEntry, Interned, Steps
    <2> QED BY <2>1, <2>2, <2>3, <2>4, <2>5, AllocatePreserves, InternPreserves DEF Next, LookUp
  <1> QED BY <1>1, <1>2, PTL DEF Spec

(* Type correctness of the tag table and its callers.                      *)
THEOREM TypeCorrect == Spec => []TypeOK
  <1>1. IInv => TypeOK
    BY DEF IInv
  <1> QED BY <1>1, Invariance, PTL

(* One string per qualified name, for any number of overlapping calls: the *)
(* second look in intern_tag suffices.                                     *)
THEOREM OneObject == Spec => []OneObjectPerTag
  <1>1. IInv => OneObjectPerTag
    BY DEF IInv, TypeOK, Unshared, ReturnedIsEntry, OneObjectPerTag, Interned
  <1> QED BY <1>1, Invariance, PTL

-----------------------------------------------------------------------------
(* Programs of locks and other steps.                                     *)

Op == {"lock", "unlock", "use", "edit", "detach", "attach", "compute", "python",
       "readtag", "lookuptag", "allocatetag", "interntag"}

Instruction == [op : Op, m : Int]

(* The mutexes a call holds before its step i: those it has yet to drop.   *)
Owed(p, i) ==
  {m \in Mutex : \E j \in i .. Len(p) :
                   p[j] = Unlock(m) /\ \A k \in i .. j - 1 : p[k] # Lock(m)}

(* Step i is inside a detached closure: its end is yet to come.            *)
Away(p, i) ==
  \E j \in i .. Len(p) : p[j] = Attach /\ \A k \in i .. j - 1 : p[k] # Detach

(* Step i of p is in the order: what is held, and the GIL, allow it.       *)
InOrder(p, i) ==
  /\ p[i].op = "lock" => /\ p[i].m \in Owed(p, i + 1)
                         /\ \A n \in Owed(p, i) : n < p[i].m
  /\ p[i].op = "unlock" => p[i].m \in Mutex /\ p[i].m \notin Owed(p, i + 1)
  /\ p[i].op \in {"use", "edit"} => p[i].m \in Doc /\ p[i].m \in Owed(p, i)
  /\ p[i].op = "attach" => p[i].m = 0 /\ Owed(p, i) = {} /\ ~Away(p, i + 1)
  /\ p[i].op = "detach" => p[i].m = 0 /\ Away(p, i + 1)
  /\ p[i].op = "python" => Owed(p, i) = {} /\ ~Away(p, i)
  /\ p[i].op = "readtag" => Owed(p, i) = {TagDoc} /\ ~Away(p, i)
  /\ p[i].op = "lookuptag" => Owed(p, i) = {} /\ ~Away(p, i)

Disciplined(p) ==
  /\ p \in Seq(Instruction)
  /\ \A i \in 1 .. Len(p) : InOrder(p, i)

(* p is disciplined and starts holding S, detached or not.                 *)
Fits(p, S, away) ==
  /\ Disciplined(p)
  /\ Owed(p, 1) = S
  /\ Away(p, 1) <=> away

USE DocLocksAssumption

LEMMA MutexInt == Mutex \subseteq Int /\ Doc \subseteq Mutex /\ TagDoc \in Mutex
  BY DEF Mutex, StateOf

-----------------------------------------------------------------------------
(* One step of a call: what it holds before, from what it holds after.     *)

LEMMA OwedStep ==
  ASSUME NEW p \in Seq(Instruction), NEW i \in 1 .. Len(p)
  PROVE  /\ p[i].op = "lock" => Owed(p, i) = Owed(p, i + 1) \ {p[i].m}
         /\ p[i].op = "unlock" /\ p[i].m \in Mutex =>
              Owed(p, i) = Owed(p, i + 1) \cup {p[i].m}
         /\ p[i].op \notin {"lock", "unlock"} => Owed(p, i) = Owed(p, i + 1)
  <1>1. p[i] \in Instruction
    OBVIOUS
  <1>2. \A m : p[i] = Lock(m) <=> p[i].op = "lock" /\ p[i].m = m
    BY <1>1 DEF Instruction, Lock, On
  <1>3. \A m : p[i] = Unlock(m) <=> p[i].op = "unlock" /\ p[i].m = m
    BY <1>1 DEF Instruction, Unlock, On
  <1>4. \A m \in Mutex : m \in Owed(p, i) <=>
          p[i] = Unlock(m) \/ (p[i] # Lock(m) /\ m \in Owed(p, i + 1))
    <2> TAKE m \in Mutex
    <2>1. ASSUME m \in Owed(p, i), p[i] # Unlock(m)
          PROVE  p[i] # Lock(m) /\ m \in Owed(p, i + 1)
      <3>1. PICK j \in i .. Len(p) : p[j] = Unlock(m) /\ \A k \in i .. j - 1 : p[k] # Lock(m)
        BY <2>1 DEF Owed
      <3>2. j \in i + 1 .. Len(p) /\ i \in i .. j - 1
        BY <3>1, <2>1
      <3>3. \A k \in i + 1 .. j - 1 : p[k] # Lock(m)
        BY <3>1
      <3> QED BY <3>1, <3>2, <3>3 DEF Owed
    <2>2. ASSUME p[i] # Lock(m), m \in Owed(p, i + 1)
          PROVE  m \in Owed(p, i)
      <3>1. PICK j \in i + 1 .. Len(p) :
              p[j] = Unlock(m) /\ \A k \in i + 1 .. j - 1 : p[k] # Lock(m)
        BY <2>2 DEF Owed
      <3>2. j \in i .. Len(p) /\ \A k \in i .. j - 1 : p[k] # Lock(m)
        BY <3>1, <2>2
      <3> QED BY <3>1, <3>2 DEF Owed
    <2>3. ASSUME p[i] = Unlock(m) PROVE m \in Owed(p, i)
      BY <2>3 DEF Owed
    <2> QED BY <2>1, <2>2, <2>3
  <1>5. Owed(p, i) \subseteq Mutex /\ Owed(p, i + 1) \subseteq Mutex
    BY DEF Owed
  <1> QED BY <1>2, <1>3, <1>4, <1>5

LEMMA AwayStep ==
  ASSUME NEW p \in Seq(Instruction), NEW i \in 1 .. Len(p)
  PROVE  /\ p[i].op = "attach" /\ p[i].m = 0 => Away(p, i)
         /\ p[i].op = "detach" /\ p[i].m = 0 => ~Away(p, i)
         /\ p[i].op \notin {"attach", "detach"} => (Away(p, i) <=> Away(p, i + 1))
  <1>1. p[i] \in Instruction
    OBVIOUS
  <1>2. p[i] = Attach <=> p[i].op = "attach" /\ p[i].m = 0
    BY <1>1 DEF Instruction, Attach, Do
  <1>3. p[i] = Detach <=> p[i].op = "detach" /\ p[i].m = 0
    BY <1>1 DEF Instruction, Detach, Do
  <1>4. Away(p, i) <=> p[i] = Attach \/ (p[i] # Detach /\ Away(p, i + 1))
    <2>1. ASSUME Away(p, i), p[i] # Attach PROVE p[i] # Detach /\ Away(p, i + 1)
      <3>1. PICK j \in i .. Len(p) : p[j] = Attach /\ \A k \in i .. j - 1 : p[k] # Detach
        BY <2>1 DEF Away
      <3>2. j \in i + 1 .. Len(p) /\ i \in i .. j - 1
        BY <3>1, <2>1
      <3>3. \A k \in i + 1 .. j - 1 : p[k] # Detach
        BY <3>1
      <3> QED BY <3>1, <3>2, <3>3 DEF Away
    <2>2. ASSUME p[i] # Detach, Away(p, i + 1) PROVE Away(p, i)
      <3>1. PICK j \in i + 1 .. Len(p) :
              p[j] = Attach /\ \A k \in i + 1 .. j - 1 : p[k] # Detach
        BY <2>2 DEF Away
      <3>2. j \in i .. Len(p) /\ \A k \in i .. j - 1 : p[k] # Detach
        BY <3>1, <2>2
      <3> QED BY <3>1, <3>2 DEF Away
    <2>3. ASSUME p[i] = Attach PROVE Away(p, i)
      BY <2>3 DEF Away
    <2> QED BY <2>1, <2>2, <2>3
  <1>5. Attach # Detach
    BY DEF Attach, Detach, Do
  <1> QED BY <1>2, <1>3, <1>4, <1>5

(* What is said of step i + 1 of a call is said of step i of its tail.     *)
LEMMA TailShift ==
  ASSUME NEW q \in Seq(Instruction), q # <<>>, NEW i \in 1 .. Len(q)
  PROVE  Owed(Tail(q), i) = Owed(q, i + 1) /\ (Away(Tail(q), i) <=> Away(q, i + 1))
  <1> DEFINE p == Tail(q)
  <1>1. p \in Seq(Instruction) /\ Len(p) = Len(q) - 1 /\ \A j \in 1 .. Len(p) : p[j] = q[j + 1]
    OBVIOUS
  <1> HIDE DEF p
  <1>2. \A m \in Mutex : m \in Owed(p, i) => m \in Owed(q, i + 1)
    <2> SUFFICES ASSUME NEW m \in Mutex, m \in Owed(p, i) PROVE m \in Owed(q, i + 1)
      OBVIOUS
    <2>1. PICK j \in i .. Len(p) : p[j] = Unlock(m) /\ \A k \in i .. j - 1 : p[k] # Lock(m)
      BY DEF Owed
    <2>2. j + 1 \in i + 1 .. Len(q) /\ q[j + 1] = Unlock(m)
      BY <1>1, <2>1
    <2>3. ASSUME NEW k \in i + 1 .. j + 1 - 1 PROVE q[k] # Lock(m)
      <3>1. k - 1 \in i .. j - 1 /\ k - 1 \in 1 .. Len(p) /\ q[(k - 1) + 1] = p[k - 1]
        BY <1>1, <2>1
      <3>2. (k - 1) + 1 = k
        OBVIOUS
      <3> QED BY <2>1, <3>1, <3>2
    <2> QED BY <2>2, <2>3 DEF Owed
  <1>3. \A m \in Mutex : m \in Owed(q, i + 1) => m \in Owed(p, i)
    <2> SUFFICES ASSUME NEW m \in Mutex, m \in Owed(q, i + 1) PROVE m \in Owed(p, i)
      OBVIOUS
    <2>1. PICK j \in i + 1 .. Len(q) :
            q[j] = Unlock(m) /\ \A k \in i + 1 .. j - 1 : q[k] # Lock(m)
      BY DEF Owed
    <2>2. j - 1 \in i .. Len(p) /\ p[j - 1] = q[(j - 1) + 1] /\ (j - 1) + 1 = j
      BY <1>1, <2>1
    <2>3. ASSUME NEW k \in i .. (j - 1) - 1 PROVE p[k] # Lock(m)
      <3>1. k + 1 \in i + 1 .. j - 1 /\ k \in 1 .. Len(p)
        BY <1>1, <2>1
      <3> QED BY <1>1, <2>1, <3>1
    <2> QED BY <2>1, <2>2, <2>3 DEF Owed
  <1>4. Owed(p, i) = Owed(q, i + 1)
    BY <1>2, <1>3 DEF Owed
  <1>5. Away(p, i) => Away(q, i + 1)
    <2> SUFFICES ASSUME Away(p, i) PROVE Away(q, i + 1)
      OBVIOUS
    <2>1. PICK j \in i .. Len(p) : p[j] = Attach /\ \A k \in i .. j - 1 : p[k] # Detach
      BY DEF Away
    <2>2. j + 1 \in i + 1 .. Len(q) /\ q[j + 1] = Attach
      BY <1>1, <2>1
    <2>3. ASSUME NEW k \in i + 1 .. j + 1 - 1 PROVE q[k] # Detach
      <3>1. k - 1 \in i .. j - 1 /\ k - 1 \in 1 .. Len(p) /\ q[(k - 1) + 1] = p[k - 1]
        BY <1>1, <2>1
      <3>2. (k - 1) + 1 = k
        OBVIOUS
      <3> QED BY <2>1, <3>1, <3>2
    <2> QED BY <2>2, <2>3 DEF Away
  <1>6. Away(q, i + 1) => Away(p, i)
    <2> SUFFICES ASSUME Away(q, i + 1) PROVE Away(p, i)
      OBVIOUS
    <2>1. PICK j \in i + 1 .. Len(q) :
            q[j] = Attach /\ \A k \in i + 1 .. j - 1 : q[k] # Detach
      BY DEF Away
    <2>2. j - 1 \in i .. Len(p) /\ p[j - 1] = q[(j - 1) + 1] /\ (j - 1) + 1 = j
      BY <1>1, <2>1
    <2>3. ASSUME NEW k \in i .. (j - 1) - 1 PROVE p[k] # Detach
      <3>1. k + 1 \in i + 1 .. j - 1 /\ k \in 1 .. Len(p)
        BY <1>1, <2>1
      <3> QED BY <1>1, <2>1, <3>1
    <2> QED BY <2>1, <2>2, <2>3 DEF Away
  <1> QED BY <1>4, <1>5, <1>6 DEF p

(* A call is disciplined if its first step and what follows it are.        *)
LEMMA TailDisciplined ==
  ASSUME NEW q \in Seq(Instruction), q # <<>>
  PROVE  Disciplined(q) <=> Disciplined(Tail(q)) /\ InOrder(q, 1)
  <1>1. Tail(q) \in Seq(Instruction) /\ Len(Tail(q)) = Len(q) - 1
    OBVIOUS
  <1>2. ASSUME NEW i \in 1 .. Len(Tail(q)) PROVE InOrder(Tail(q), i) <=> InOrder(q, i + 1)
    <2>1. Tail(q)[i] = q[i + 1] /\ i \in 1 .. Len(q) /\ i + 1 \in 1 .. Len(q)
      BY <1>1
    <2>2. Owed(Tail(q), i) = Owed(q, i + 1) /\ (Away(Tail(q), i) <=> Away(q, i + 1))
      BY <2>1, TailShift
    <2>3. Owed(Tail(q), i + 1) = Owed(q, (i + 1) + 1)
          /\ (Away(Tail(q), i + 1) <=> Away(q, (i + 1) + 1))
      BY <2>1, TailShift
    <2> QED BY <2>1, <2>2, <2>3 DEF InOrder
  <1>3. Disciplined(q) => Disciplined(Tail(q)) /\ InOrder(q, 1)
    <2> SUFFICES ASSUME Disciplined(q) PROVE Disciplined(Tail(q)) /\ InOrder(q, 1)
      OBVIOUS
    <2>1. \A i \in 1 .. Len(Tail(q)) : i + 1 \in 1 .. Len(q)
      BY <1>1
    <2> QED BY <1>1, <1>2, <2>1 DEF Disciplined
  <1>4. Disciplined(Tail(q)) /\ InOrder(q, 1) => Disciplined(q)
    <2> SUFFICES ASSUME Disciplined(Tail(q)), InOrder(q, 1), NEW i \in 1 .. Len(q)
                 PROVE  InOrder(q, i)
      BY DEF Disciplined
    <2>1. CASE i = 1
      BY <2>1
    <2>2. CASE i # 1
      <3>1. i - 1 \in 1 .. Len(Tail(q)) /\ (i - 1) + 1 = i
        BY <1>1, <2>2
      <3>2. InOrder(Tail(q), i - 1)
        BY <3>1 DEF Disciplined
      <3>3. InOrder(q, (i - 1) + 1)
        BY <1>2, <3>1, <3>2
      <3> QED BY <3>1, <3>3
    <2> QED BY <2>1, <2>2
  <1> QED BY <1>3, <1>4

-----------------------------------------------------------------------------
(* Handlers are put together from their last step back to the first.       *)

LEMMA Nothing == Fits(<<>>, {}, FALSE)
  <1>1. <<>> \in Seq(Instruction) /\ Len(<<>>) = 0
    OBVIOUS
  <1>2. Owed(<<>>, 1) = {} /\ ~Away(<<>>, 1)
    BY <1>1 DEF Owed, Away
  <1> QED BY <1>1, <1>2 DEF Fits, Disciplined

LEMMA Prefixed ==
  ASSUME NEW p, NEW S, NEW a \in BOOLEAN, Fits(p, S, a), NEW x \in Instruction
  PROVE  LET q == <<x>> \o p
         IN  /\ q \in Seq(Instruction) /\ q # <<>> /\ q[1] = x /\ 1 \in 1 .. Len(q)
             /\ Owed(q, 2) = S
             /\ Away(q, 2) <=> a
             /\ InOrder(q, 1) => Disciplined(q)
  <1> DEFINE q == <<x>> \o p
  <1>1. p \in Seq(Instruction)
    BY DEF Fits, Disciplined
  <1>2. q \in Seq(Instruction) /\ q # <<>> /\ Tail(q) = p /\ q[1] = x /\ 1 \in 1 .. Len(q)
    BY <1>1
  <1> HIDE DEF q
  <1>3. Owed(p, 1) = Owed(q, 1 + 1) /\ (Away(p, 1) <=> Away(q, 1 + 1))
    BY <1>2, TailShift
  <1>4. Owed(q, 2) = S /\ (Away(q, 2) <=> a)
    BY <1>3 DEF Fits
  <1>5. InOrder(q, 1) => Disciplined(q)
    BY <1>2, TailDisciplined DEF Fits
  <1> QED BY <1>2, <1>4, <1>5 DEF q

LEMMA LockFirst ==
  ASSUME NEW p, NEW S, NEW a \in BOOLEAN, Fits(p, S, a),
         NEW m \in S, \A n \in S : n # m => n < m
  PROVE  Fits(<<Lock(m)>> \o p, S \ {m}, a)
  <1> DEFINE q == <<Lock(m)>> \o p
  <1>1. m \in Mutex /\ Lock(m) \in Instruction /\ Lock(m).op = "lock" /\ Lock(m).m = m
    BY MutexInt DEF Fits, Owed, Lock, On, Instruction, Op
  <1>2. /\ q \in Seq(Instruction) /\ q[1] = Lock(m) /\ 1 \in 1 .. Len(q)
        /\ Owed(q, 2) = S /\ (Away(q, 2) <=> a) /\ (InOrder(q, 1) => Disciplined(q))
    BY <1>1, Prefixed
  <1> HIDE DEF q
  <1>3. Owed(q, 1) = S \ {m} /\ (Away(q, 1) <=> a)
    BY <1>1, <1>2, OwedStep, AwayStep
  <1>4. InOrder(q, 1)
    BY <1>1, <1>2, <1>3 DEF InOrder
  <1> QED BY <1>2, <1>3, <1>4 DEF Fits, q

LEMMA UnlockFirst ==
  ASSUME NEW p, NEW S, NEW a \in BOOLEAN, Fits(p, S, a), NEW m \in Mutex \ S
  PROVE  Fits(<<Unlock(m)>> \o p, S \cup {m}, a)
  <1> DEFINE q == <<Unlock(m)>> \o p
  <1>1. Unlock(m) \in Instruction /\ Unlock(m).op = "unlock" /\ Unlock(m).m = m
    BY MutexInt DEF Unlock, On, Instruction, Op
  <1>2. /\ q \in Seq(Instruction) /\ q[1] = Unlock(m) /\ 1 \in 1 .. Len(q)
        /\ Owed(q, 2) = S /\ (Away(q, 2) <=> a) /\ (InOrder(q, 1) => Disciplined(q))
    BY <1>1, Prefixed
  <1> HIDE DEF q
  <1>3. Owed(q, 1) = S \cup {m} /\ (Away(q, 1) <=> a)
    BY <1>1, <1>2, OwedStep, AwayStep
  <1>4. InOrder(q, 1)
    BY <1>1, <1>2, <1>3 DEF InOrder
  <1> QED BY <1>2, <1>3, <1>4 DEF Fits, q

LEMMA WorkFirst ==
  ASSUME NEW p, NEW S, NEW a \in BOOLEAN, Fits(p, S, a), NEW d \in Doc, d \in S
  PROVE  Fits(<<Use(d)>> \o p, S, a) /\ Fits(<<Edit(d)>> \o p, S, a)
  <1>1. ASSUME NEW x \in {Use(d), Edit(d)} PROVE Fits(<<x>> \o p, S, a)
    <2> DEFINE q == <<x>> \o p
    <2>1. x \in Instruction /\ x.op \in {"use", "edit"} /\ x.m = d
      BY MutexInt DEF Use, Edit, On, Instruction, Op
    <2>2. /\ q \in Seq(Instruction) /\ q[1] = x /\ 1 \in 1 .. Len(q)
          /\ Owed(q, 2) = S /\ (Away(q, 2) <=> a) /\ (InOrder(q, 1) => Disciplined(q))
      BY <2>1, Prefixed
    <2> HIDE DEF q
    <2>3. Owed(q, 1) = S /\ (Away(q, 1) <=> a)
      BY <2>1, <2>2, OwedStep, AwayStep
    <2>4. InOrder(q, 1)
      BY <2>1, <2>2, <2>3 DEF InOrder
    <2> QED BY <2>2, <2>3, <2>4 DEF Fits, q
  <1> QED BY <1>1

LEMMA AttachFirst ==
  ASSUME NEW p, Fits(p, {}, FALSE)
  PROVE  Fits(<<Attach>> \o p, {}, TRUE)
  <1> DEFINE q == <<Attach>> \o p
  <1>1. Attach \in Instruction /\ Attach.op = "attach" /\ Attach.m = 0
    BY DEF Attach, Do, Instruction, Op
  <1>2. /\ q \in Seq(Instruction) /\ q[1] = Attach /\ 1 \in 1 .. Len(q)
        /\ Owed(q, 2) = {} /\ (Away(q, 2) <=> FALSE) /\ (InOrder(q, 1) => Disciplined(q))
    BY <1>1, Prefixed
  <1> HIDE DEF q
  <1>3. Owed(q, 1) = {} /\ Away(q, 1)
    BY <1>1, <1>2, OwedStep, AwayStep
  <1>4. InOrder(q, 1)
    BY <1>1, <1>2, <1>3 DEF InOrder
  <1> QED BY <1>2, <1>3, <1>4 DEF Fits, q

LEMMA DetachFirst ==
  ASSUME NEW p, NEW S, Fits(p, S, TRUE)
  PROVE  Fits(<<Detach>> \o p, S, FALSE)
  <1> DEFINE q == <<Detach>> \o p
  <1>1. Detach \in Instruction /\ Detach.op = "detach" /\ Detach.m = 0
    BY DEF Detach, Do, Instruction, Op
  <1>2. /\ q \in Seq(Instruction) /\ q[1] = Detach /\ 1 \in 1 .. Len(q)
        /\ Owed(q, 2) = S /\ (Away(q, 2) <=> TRUE) /\ (InOrder(q, 1) => Disciplined(q))
    BY <1>1, Prefixed
  <1> HIDE DEF q
  <1>3. Owed(q, 1) = S /\ ~Away(q, 1)
    BY <1>1, <1>2, OwedStep, AwayStep
  <1>4. InOrder(q, 1)
    BY <1>1, <1>2, <1>3 DEF InOrder
  <1> QED BY <1>2, <1>3, <1>4 DEF Fits, q

(* Steps that need the GIL and no mutex, but for reading the tag.          *)
LEMMA AttachedFirst ==
  ASSUME NEW p, NEW S, Fits(p, S, FALSE),
         NEW x \in {Python, LookUpTag, AllocateTag, InternTag, ReadTag},
         S = IF x = ReadTag THEN {TagDoc} ELSE {}
  PROVE  Fits(<<x>> \o p, S, FALSE)
  <1> DEFINE q == <<x>> \o p
  <1>1. /\ x \in Instruction
        /\ x.op \in {"python", "lookuptag", "allocatetag", "interntag", "readtag"}
        /\ x.op = "readtag" <=> x = ReadTag
    BY DEF Python, LookUpTag, AllocateTag, InternTag, ReadTag, Do, Instruction, Op
  <1>2. /\ q \in Seq(Instruction) /\ q[1] = x /\ 1 \in 1 .. Len(q)
        /\ Owed(q, 2) = S /\ (Away(q, 2) <=> FALSE) /\ (InOrder(q, 1) => Disciplined(q))
    BY <1>1, Prefixed
  <1> HIDE DEF q
  <1>3. Owed(q, 1) = S /\ ~Away(q, 1)
    BY <1>1, <1>2, OwedStep, AwayStep
  <1>4. InOrder(q, 1)
    BY <1>1, <1>2, <1>3 DEF InOrder
  <1> QED BY <1>2, <1>3, <1>4 DEF Fits, q

LEMMA ComputeFirst ==
  ASSUME NEW p, NEW S, NEW a \in BOOLEAN, Fits(p, S, a)
  PROVE  Fits(<<Compute>> \o p, S, a)
  <1> DEFINE q == <<Compute>> \o p
  <1>1. Compute \in Instruction /\ Compute.op = "compute"
    BY DEF Compute, Do, Instruction, Op
  <1>2. /\ q \in Seq(Instruction) /\ q[1] = Compute /\ 1 \in 1 .. Len(q)
        /\ Owed(q, 2) = S /\ (Away(q, 2) <=> a) /\ (InOrder(q, 1) => Disciplined(q))
    BY <1>1, Prefixed
  <1> HIDE DEF q
  <1>3. Owed(q, 1) = S /\ (Away(q, 1) <=> a)
    BY <1>1, <1>2, OwedStep, AwayStep
  <1>4. InOrder(q, 1)
    BY <1>1, <1>2, <1>3 DEF InOrder
  <1> QED BY <1>2, <1>3, <1>4 DEF Fits, q

(* Lists of equal length and elements are equal; so one element more in    *)
(* front of a list is written out as follows.                              *)
LEMMA Cons0 ==
  ASSUME NEW x
  PROVE  <<x>> \o <<>> = <<x>>
  <1> DEFINE S == {x}
             p == <<x>> \o <<>>
             q == <<x>>
  <1>1. p \in Seq(S) /\ q \in Seq(S) /\ Len(p) = 1 /\ Len(q) = 1
    OBVIOUS
  <1>2. /\ p[1] = q[1]
    OBVIOUS
  <1> HIDE DEF S, p, q
  <1>3. \A k \in 1 .. 1 : p[k] = q[k]
    BY <1>2
  <1>4. p = q
    BY <1>1, <1>3, SeqEqual
  <1> QED BY <1>4 DEF p, q

LEMMA Cons1 ==
  ASSUME NEW x, NEW a
  PROVE  <<x>> \o <<a>> = <<x, a>>
  <1> DEFINE S == {x, a}
             p == <<x>> \o <<a>>
             q == <<x, a>>
  <1>1. p \in Seq(S) /\ q \in Seq(S) /\ Len(p) = 2 /\ Len(q) = 2
    OBVIOUS
  <1>2. /\ p[1] = q[1] /\ p[2] = q[2]
    OBVIOUS
  <1> HIDE DEF S, p, q
  <1>3. \A k \in 1 .. 2 : p[k] = q[k]
    BY <1>2
  <1>4. p = q
    BY <1>1, <1>3, SeqEqual
  <1> QED BY <1>4 DEF p, q

LEMMA Cons2 ==
  ASSUME NEW x, NEW a, NEW b
  PROVE  <<x>> \o <<a, b>> = <<x, a, b>>
  <1> DEFINE S == {x, a, b}
             p == <<x>> \o <<a, b>>
             q == <<x, a, b>>
  <1>1. p \in Seq(S) /\ q \in Seq(S) /\ Len(p) = 3 /\ Len(q) = 3
    OBVIOUS
  <1>2. /\ p[1] = q[1] /\ p[2] = q[2] /\ p[3] = q[3]
    OBVIOUS
  <1> HIDE DEF S, p, q
  <1>3. \A k \in 1 .. 3 : p[k] = q[k]
    BY <1>2
  <1>4. p = q
    BY <1>1, <1>3, SeqEqual
  <1> QED BY <1>4 DEF p, q

LEMMA Cons3 ==
  ASSUME NEW x, NEW a, NEW b, NEW c
  PROVE  <<x>> \o <<a, b, c>> = <<x, a, b, c>>
  <1> DEFINE S == {x, a, b, c}
             p == <<x>> \o <<a, b, c>>
             q == <<x, a, b, c>>
  <1>1. p \in Seq(S) /\ q \in Seq(S) /\ Len(p) = 4 /\ Len(q) = 4
    OBVIOUS
  <1>2. /\ p[1] = q[1] /\ p[2] = q[2] /\ p[3] = q[3] /\ p[4] = q[4]
    OBVIOUS
  <1> HIDE DEF S, p, q
  <1>3. \A k \in 1 .. 4 : p[k] = q[k]
    BY <1>2
  <1>4. p = q
    BY <1>1, <1>3, SeqEqual
  <1> QED BY <1>4 DEF p, q

LEMMA Cons4 ==
  ASSUME NEW x, NEW a, NEW b, NEW c, NEW d
  PROVE  <<x>> \o <<a, b, c, d>> = <<x, a, b, c, d>>
  <1> DEFINE S == {x, a, b, c, d}
             p == <<x>> \o <<a, b, c, d>>
             q == <<x, a, b, c, d>>
  <1>1. p \in Seq(S) /\ q \in Seq(S) /\ Len(p) = 5 /\ Len(q) = 5
    OBVIOUS
  <1>2. /\ p[1] = q[1] /\ p[2] = q[2] /\ p[3] = q[3] /\ p[4] = q[4]
         /\ p[5] = q[5]
    OBVIOUS
  <1> HIDE DEF S, p, q
  <1>3. \A k \in 1 .. 5 : p[k] = q[k]
    BY <1>2
  <1>4. p = q
    BY <1>1, <1>3, SeqEqual
  <1> QED BY <1>4 DEF p, q

LEMMA Cons5 ==
  ASSUME NEW x, NEW a, NEW b, NEW c, NEW d, NEW e
  PROVE  <<x>> \o <<a, b, c, d, e>> = <<x, a, b, c, d, e>>
  <1> DEFINE S == {x, a, b, c, d, e}
             p == <<x>> \o <<a, b, c, d, e>>
             q == <<x, a, b, c, d, e>>
  <1>1. p \in Seq(S) /\ q \in Seq(S) /\ Len(p) = 6 /\ Len(q) = 6
    OBVIOUS
  <1>2. /\ p[1] = q[1] /\ p[2] = q[2] /\ p[3] = q[3] /\ p[4] = q[4]
         /\ p[5] = q[5] /\ p[6] = q[6]
    OBVIOUS
  <1> HIDE DEF S, p, q
  <1>3. \A k \in 1 .. 6 : p[k] = q[k]
    BY <1>2
  <1>4. p = q
    BY <1>1, <1>3, SeqEqual
  <1> QED BY <1>4 DEF p, q

LEMMA Cons6 ==
  ASSUME NEW x, NEW a, NEW b, NEW c, NEW d, NEW e, NEW f
  PROVE  <<x>> \o <<a, b, c, d, e, f>> = <<x, a, b, c, d, e, f>>
  <1> DEFINE S == {x, a, b, c, d, e, f}
             p == <<x>> \o <<a, b, c, d, e, f>>
             q == <<x, a, b, c, d, e, f>>
  <1>1. p \in Seq(S) /\ q \in Seq(S) /\ Len(p) = 7 /\ Len(q) = 7
    OBVIOUS
  <1>2. /\ p[1] = q[1] /\ p[2] = q[2] /\ p[3] = q[3] /\ p[4] = q[4]
         /\ p[5] = q[5] /\ p[6] = q[6] /\ p[7] = q[7]
    OBVIOUS
  <1> HIDE DEF S, p, q
  <1>3. \A k \in 1 .. 7 : p[k] = q[k]
    BY <1>2
  <1>4. p = q
    BY <1>1, <1>3, SeqEqual
  <1> QED BY <1>4 DEF p, q

LEMMA Cons7 ==
  ASSUME NEW x, NEW a, NEW b, NEW c, NEW d, NEW e, NEW f, NEW g
  PROVE  <<x>> \o <<a, b, c, d, e, f, g>> = <<x, a, b, c, d, e, f, g>>
  <1> DEFINE S == {x, a, b, c, d, e, f, g}
             p == <<x>> \o <<a, b, c, d, e, f, g>>
             q == <<x, a, b, c, d, e, f, g>>
  <1>1. p \in Seq(S) /\ q \in Seq(S) /\ Len(p) = 8 /\ Len(q) = 8
    OBVIOUS
  <1>2. /\ p[1] = q[1] /\ p[2] = q[2] /\ p[3] = q[3] /\ p[4] = q[4]
         /\ p[5] = q[5] /\ p[6] = q[6] /\ p[7] = q[7] /\ p[8] = q[8]
    OBVIOUS
  <1> HIDE DEF S, p, q
  <1>3. \A k \in 1 .. 8 : p[k] = q[k]
    BY <1>2
  <1>4. p = q
    BY <1>1, <1>3, SeqEqual
  <1> QED BY <1>4 DEF p, q

LEMMA Cons8 ==
  ASSUME NEW x, NEW a, NEW b, NEW c, NEW d, NEW e, NEW f, NEW g, NEW h
  PROVE  <<x>> \o <<a, b, c, d, e, f, g, h>> = <<x, a, b, c, d, e, f, g, h>>
  <1> DEFINE S == {x, a, b, c, d, e, f, g, h}
             p == <<x>> \o <<a, b, c, d, e, f, g, h>>
             q == <<x, a, b, c, d, e, f, g, h>>
  <1>1. p \in Seq(S) /\ q \in Seq(S) /\ Len(p) = 9 /\ Len(q) = 9
    OBVIOUS
  <1>2. /\ p[1] = q[1] /\ p[2] = q[2] /\ p[3] = q[3] /\ p[4] = q[4]
         /\ p[5] = q[5] /\ p[6] = q[6] /\ p[7] = q[7] /\ p[8] = q[8]
         /\ p[9] = q[9]
    OBVIOUS
  <1> HIDE DEF S, p, q
  <1>3. \A k \in 1 .. 9 : p[k] = q[k]
    BY <1>2
  <1>4. p = q
    BY <1>1, <1>3, SeqEqual
  <1> QED BY <1>4 DEF p, q

LEMMA Cons9 ==
  ASSUME NEW x, NEW a, NEW b, NEW c, NEW d, NEW e, NEW f, NEW g, NEW h, NEW i
  PROVE  <<x>> \o <<a, b, c, d, e, f, g, h, i>> = <<x, a, b, c, d, e, f, g, h, i>>
  <1> DEFINE S == {x, a, b, c, d, e, f, g, h, i}
             p == <<x>> \o <<a, b, c, d, e, f, g, h, i>>
             q == <<x, a, b, c, d, e, f, g, h, i>>
  <1>1. p \in Seq(S) /\ q \in Seq(S) /\ Len(p) = 10 /\ Len(q) = 10
    OBVIOUS
  <1>2. /\ p[1] = q[1] /\ p[2] = q[2] /\ p[3] = q[3] /\ p[4] = q[4]
         /\ p[5] = q[5] /\ p[6] = q[6] /\ p[7] = q[7] /\ p[8] = q[8]
         /\ p[9] = q[9] /\ p[10] = q[10]
    OBVIOUS
  <1> HIDE DEF S, p, q
  <1>3. \A k \in 1 .. 10 : p[k] = q[k]
    BY <1>2
  <1>4. p = q
    BY <1>1, <1>3, SeqEqual
  <1> QED BY <1>4 DEF p, q

LEMMA Cons10 ==
  ASSUME NEW x, NEW a, NEW b, NEW c, NEW d, NEW e, NEW f, NEW g, NEW h, NEW i, NEW j
  PROVE  <<x>> \o <<a, b, c, d, e, f, g, h, i, j>> = <<x, a, b, c, d, e, f, g, h, i, j>>
  <1> DEFINE S == {x, a, b, c, d, e, f, g, h, i, j}
             p == <<x>> \o <<a, b, c, d, e, f, g, h, i, j>>
             q == <<x, a, b, c, d, e, f, g, h, i, j>>
  <1>1. p \in Seq(S) /\ q \in Seq(S) /\ Len(p) = 11 /\ Len(q) = 11
    OBVIOUS
  <1>2. /\ p[1] = q[1] /\ p[2] = q[2] /\ p[3] = q[3] /\ p[4] = q[4]
         /\ p[5] = q[5] /\ p[6] = q[6] /\ p[7] = q[7] /\ p[8] = q[8]
         /\ p[9] = q[9] /\ p[10] = q[10] /\ p[11] = q[11]
    OBVIOUS
  <1> HIDE DEF S, p, q
  <1>3. \A k \in 1 .. 11 : p[k] = q[k]
    BY <1>2
  <1>4. p = q
    BY <1>1, <1>3, SeqEqual
  <1> QED BY <1>4 DEF p, q

(* The first mutex taken, and the last one dropped.                        *)
LEMMA OneLock ==
  ASSUME NEW p, NEW a \in BOOLEAN, NEW m \in Mutex
  PROVE  /\ Fits(p, {}, a) => Fits(<<Unlock(m)>> \o p, {m}, a)
         /\ Fits(p, {m}, a) => Fits(<<Lock(m)>> \o p, {}, a)
  <1>1. ASSUME Fits(p, {}, a) PROVE Fits(<<Unlock(m)>> \o p, {m}, a)
    <2>1. Fits(<<Unlock(m)>> \o p, {} \cup {m}, a)
      BY <1>1, UnlockFirst
    <2>2. {} \cup {m} = {m}
      OBVIOUS
    <2> QED BY <2>1, <2>2
  <1>2. ASSUME Fits(p, {m}, a) PROVE Fits(<<Lock(m)>> \o p, {}, a)
    <2>1. Fits(<<Lock(m)>> \o p, {m} \ {m}, a)
      BY <1>2, LockFirst
    <2>2. {m} \ {m} = {}
      OBVIOUS
    <2> QED BY <2>1, <2>2
  <1> QED BY <1>1, <1>2

(* The second mutex, later in the order than the first.                    *)
LEMMA TwoLocks ==
  ASSUME NEW p, NEW a \in BOOLEAN, NEW m \in Mutex, NEW n \in Mutex, n < m
  PROVE  /\ Fits(p, {m}, a) => Fits(<<Unlock(n)>> \o p, {m, n}, a)
         /\ Fits(p, {n}, a) => Fits(<<Unlock(m)>> \o p, {m, n}, a)
         /\ Fits(p, {m, n}, a) => Fits(<<Lock(m)>> \o p, {n}, a)
  <1>0. m # n /\ m \in Int /\ n \in Int
    BY MutexInt
  <1>1. ASSUME Fits(p, {m}, a) PROVE Fits(<<Unlock(n)>> \o p, {m, n}, a)
    <2>1. Fits(<<Unlock(n)>> \o p, {m} \cup {n}, a)
      BY <1>0, <1>1, UnlockFirst
    <2>2. {m} \cup {n} = {m, n}
      OBVIOUS
    <2> QED BY <2>1, <2>2
  <1>2. ASSUME Fits(p, {n}, a) PROVE Fits(<<Unlock(m)>> \o p, {m, n}, a)
    <2>1. Fits(<<Unlock(m)>> \o p, {n} \cup {m}, a)
      BY <1>0, <1>2, UnlockFirst
    <2>2. {n} \cup {m} = {m, n}
      OBVIOUS
    <2> QED BY <2>1, <2>2
  <1>3. ASSUME Fits(p, {m, n}, a) PROVE Fits(<<Lock(m)>> \o p, {n}, a)
    <2>1. \A k \in {m, n} : k # m => k < m
      OBVIOUS
    <2>2. Fits(<<Lock(m)>> \o p, {m, n} \ {m}, a)
      BY <1>3, <2>1, LockFirst
    <2>3. {m, n} \ {m} = {n}
      BY <1>0
    <2> QED BY <2>2, <2>3
  <1> QED BY <1>1, <1>2, <1>3

LEMMA TagSteps ==
  /\ Python # ReadTag /\ LookUpTag # ReadTag
  /\ AllocateTag # ReadTag /\ InternTag # ReadTag
  BY DEF Python, LookUpTag, AllocateTag, InternTag, ReadTag, Do

(* Every handler, whatever documents it is about, keeps the order.         *)

LEMMA ReadAttachedFits ==
  ASSUME NEW d \in Doc PROVE Fits(ReadAttached(d), {}, FALSE)
  <1> DEFINE p0 == <<>>
             p1 == <<Python>>
             p2 == <<Unlock(d), Python>>
             p3 == <<Use(d), Unlock(d), Python>>
             p4 == <<Lock(d), Use(d), Unlock(d), Python>>
  <1>1. /\ p1 = <<Python>> \o p0
        /\ p2 = <<Unlock(d)>> \o p1
        /\ p3 = <<Use(d)>> \o p2
        /\ p4 = <<Lock(d)>> \o p3
    <2>1. p1 = <<Python>> \o p0
      BY Cons0, Zenon
    <2>2. p2 = <<Unlock(d)>> \o p1
      BY Cons1, Zenon
    <2>3. p3 = <<Use(d)>> \o p2
      BY Cons2, Zenon
    <2>4. p4 = <<Lock(d)>> \o p3
      BY Cons3, Zenon
    <2> QED BY <2>1, <2>2, <2>3, <2>4
  <1>2. Fits(p0, {}, FALSE)
    BY Nothing
  <1> HIDE DEF p0, p1, p2, p3, p4
  <1>3. Fits(p1, {}, FALSE)
    BY <1>1, <1>2, AttachedFirst, TagSteps
  <1>4. Fits(p2, {d}, FALSE)
    BY <1>1, <1>3, OneLock, MutexInt
  <1>5. Fits(p3, {d}, FALSE)
    BY <1>1, <1>4, WorkFirst
  <1>6. Fits(p4, {}, FALSE)
    BY <1>1, <1>5, OneLock, MutexInt
  <1> QED BY <1>6 DEF ReadAttached, p4

LEMMA EditAttachedFits ==
  ASSUME NEW d \in Doc PROVE Fits(EditAttached(d), {}, FALSE)
  <1> DEFINE p0 == <<>>
             p1 == <<Unlock(d)>>
             p2 == <<Edit(d), Unlock(d)>>
             p3 == <<Lock(d), Edit(d), Unlock(d)>>
  <1>1. /\ p1 = <<Unlock(d)>> \o p0
        /\ p2 = <<Edit(d)>> \o p1
        /\ p3 = <<Lock(d)>> \o p2
    <2>1. p1 = <<Unlock(d)>> \o p0
      BY Cons0, Zenon
    <2>2. p2 = <<Edit(d)>> \o p1
      BY Cons1, Zenon
    <2>3. p3 = <<Lock(d)>> \o p2
      BY Cons2, Zenon
    <2> QED BY <2>1, <2>2, <2>3
  <1>2. Fits(p0, {}, FALSE)
    BY Nothing
  <1> HIDE DEF p0, p1, p2, p3
  <1>3. Fits(p1, {d}, FALSE)
    BY <1>1, <1>2, OneLock, MutexInt
  <1>4. Fits(p2, {d}, FALSE)
    BY <1>1, <1>3, WorkFirst
  <1>5. Fits(p3, {}, FALSE)
    BY <1>1, <1>4, OneLock, MutexInt
  <1> QED BY <1>5 DEF EditAttached, p3

LEMMA ReadDetachedFits ==
  ASSUME NEW d \in Doc PROVE Fits(ReadDetached(d), {}, FALSE)
  <1> DEFINE p0 == <<>>
             p1 == <<Python>>
             p2 == <<Attach, Python>>
             p3 == <<Unlock(d), Attach, Python>>
             p4 == <<Use(d), Unlock(d), Attach, Python>>
             p5 == <<Lock(d), Use(d), Unlock(d), Attach, Python>>
             p6 == <<Detach, Lock(d), Use(d), Unlock(d), Attach, Python>>
  <1>1. /\ p1 = <<Python>> \o p0
        /\ p2 = <<Attach>> \o p1
        /\ p3 = <<Unlock(d)>> \o p2
        /\ p4 = <<Use(d)>> \o p3
        /\ p5 = <<Lock(d)>> \o p4
        /\ p6 = <<Detach>> \o p5
    <2>1. p1 = <<Python>> \o p0
      BY Cons0, Zenon
    <2>2. p2 = <<Attach>> \o p1
      BY Cons1, Zenon
    <2>3. p3 = <<Unlock(d)>> \o p2
      BY Cons2, Zenon
    <2>4. p4 = <<Use(d)>> \o p3
      BY Cons3, Zenon
    <2>5. p5 = <<Lock(d)>> \o p4
      BY Cons4, Zenon
    <2>6. p6 = <<Detach>> \o p5
      BY Cons5
    <2> QED BY <2>1, <2>2, <2>3, <2>4, <2>5, <2>6
  <1>2. Fits(p0, {}, FALSE)
    BY Nothing
  <1> HIDE DEF p0, p1, p2, p3, p4, p5, p6
  <1>3. Fits(p1, {}, FALSE)
    BY <1>1, <1>2, AttachedFirst, TagSteps
  <1>4. Fits(p2, {}, TRUE)
    BY <1>1, <1>3, AttachFirst
  <1>5. Fits(p3, {d}, TRUE)
    BY <1>1, <1>4, OneLock, MutexInt
  <1>6. Fits(p4, {d}, TRUE)
    BY <1>1, <1>5, WorkFirst
  <1>7. Fits(p5, {}, TRUE)
    BY <1>1, <1>6, OneLock, MutexInt
  <1>8. Fits(p6, {}, FALSE)
    BY <1>1, <1>7, DetachFirst
  <1> QED BY <1>8 DEF ReadDetached, p6

LEMMA PostProcessFits ==
  ASSUME NEW d \in Doc PROVE Fits(PostProcess(d), {}, FALSE)
  <1> DEFINE p0 == <<>>
             p1 == <<Attach>>
             p2 == <<Unlock(d), Attach>>
             p3 == <<Edit(d), Unlock(d), Attach>>
             p4 == <<Lock(d), Edit(d), Unlock(d), Attach>>
             p5 == <<Detach, Lock(d), Edit(d), Unlock(d), Attach>>
  <1>1. /\ p1 = <<Attach>> \o p0
        /\ p2 = <<Unlock(d)>> \o p1
        /\ p3 = <<Edit(d)>> \o p2
        /\ p4 = <<Lock(d)>> \o p3
        /\ p5 = <<Detach>> \o p4
    <2>1. p1 = <<Attach>> \o p0
      BY Cons0, Zenon
    <2>2. p2 = <<Unlock(d)>> \o p1
      BY Cons1, Zenon
    <2>3. p3 = <<Edit(d)>> \o p2
      BY Cons2, Zenon
    <2>4. p4 = <<Lock(d)>> \o p3
      BY Cons3, Zenon
    <2>5. p5 = <<Detach>> \o p4
      BY Cons4, Zenon
    <2> QED BY <2>1, <2>2, <2>3, <2>4, <2>5
  <1>2. Fits(p0, {}, FALSE)
    BY Nothing
  <1> HIDE DEF p0, p1, p2, p3, p4, p5
  <1>3. Fits(p1, {}, TRUE)
    BY <1>1, <1>2, AttachFirst
  <1>4. Fits(p2, {d}, TRUE)
    BY <1>1, <1>3, OneLock, MutexInt
  <1>5. Fits(p3, {d}, TRUE)
    BY <1>1, <1>4, WorkFirst
  <1>6. Fits(p4, {}, TRUE)
    BY <1>1, <1>5, OneLock, MutexInt
  <1>7. Fits(p5, {}, FALSE)
    BY <1>1, <1>6, DetachFirst
  <1> QED BY <1>7 DEF PostProcess, p5

LEMMA ReplaceXmlFits ==
  ASSUME NEW d \in Doc PROVE Fits(ReplaceXml(d), {}, FALSE)
  <1> DEFINE p0 == <<>>
             p1 == <<Unlock(d)>>
             p2 == <<Edit(d), Unlock(d)>>
             p3 == <<Use(d), Edit(d), Unlock(d)>>
             p4 == <<Lock(d), Use(d), Edit(d), Unlock(d)>>
             p5 == <<Attach, Lock(d), Use(d), Edit(d), Unlock(d)>>
             p6 == <<Compute, Attach, Lock(d), Use(d), Edit(d), Unlock(d)>>
             p7 == <<Detach, Compute, Attach, Lock(d), Use(d), Edit(d),
                     Unlock(d)>>
  <1>1. /\ p1 = <<Unlock(d)>> \o p0
        /\ p2 = <<Edit(d)>> \o p1
        /\ p3 = <<Use(d)>> \o p2
        /\ p4 = <<Lock(d)>> \o p3
        /\ p5 = <<Attach>> \o p4
        /\ p6 = <<Compute>> \o p5
        /\ p7 = <<Detach>> \o p6
    <2>1. p1 = <<Unlock(d)>> \o p0
      BY Cons0, Zenon
    <2>2. p2 = <<Edit(d)>> \o p1
      BY Cons1, Zenon
    <2>3. p3 = <<Use(d)>> \o p2
      BY Cons2, Zenon
    <2>4. p4 = <<Lock(d)>> \o p3
      BY Cons3, Zenon
    <2>5. p5 = <<Attach>> \o p4
      BY Cons4, Zenon
    <2>6. p6 = <<Compute>> \o p5
      BY Cons5
    <2>7. p7 = <<Detach>> \o p6
      BY Cons6
    <2> QED BY <2>1, <2>2, <2>3, <2>4, <2>5, <2>6, <2>7
  <1>2. Fits(p0, {}, FALSE)
    BY Nothing
  <1> HIDE DEF p0, p1, p2, p3, p4, p5, p6, p7
  <1>3. Fits(p1, {d}, FALSE)
    BY <1>1, <1>2, OneLock, MutexInt
  <1>4. Fits(p2, {d}, FALSE)
    BY <1>1, <1>3, WorkFirst
  <1>5. Fits(p3, {d}, FALSE)
    BY <1>1, <1>4, WorkFirst
  <1>6. Fits(p4, {}, FALSE)
    BY <1>1, <1>5, OneLock, MutexInt
  <1>7. Fits(p5, {}, TRUE)
    BY <1>1, <1>6, AttachFirst
  <1>8. Fits(p6, {}, TRUE)
    BY <1>1, <1>7, ComputeFirst
  <1>9. Fits(p7, {}, FALSE)
    BY <1>1, <1>8, DetachFirst
  <1> QED BY <1>9 DEF ReplaceXml, p7

LEMMA GetTagFits == Fits(GetTag, {}, FALSE)
  <1> DEFINE p0 == <<>>
             p1 == <<InternTag>>
             p2 == <<AllocateTag, InternTag>>
             p3 == <<Python, AllocateTag, InternTag>>
             p4 == <<LookUpTag, Python, AllocateTag, InternTag>>
             p5 == <<Unlock(TagDoc), LookUpTag, Python, AllocateTag,
                     InternTag>>
             p6 == <<ReadTag, Unlock(TagDoc), LookUpTag, Python, AllocateTag,
                     InternTag>>
             p7 == <<Lock(TagDoc), ReadTag, Unlock(TagDoc), LookUpTag,
                     Python, AllocateTag, InternTag>>
  <1>1. /\ p1 = <<InternTag>> \o p0
        /\ p2 = <<AllocateTag>> \o p1
        /\ p3 = <<Python>> \o p2
        /\ p4 = <<LookUpTag>> \o p3
        /\ p5 = <<Unlock(TagDoc)>> \o p4
        /\ p6 = <<ReadTag>> \o p5
        /\ p7 = <<Lock(TagDoc)>> \o p6
    <2>1. p1 = <<InternTag>> \o p0
      BY Cons0, Zenon
    <2>2. p2 = <<AllocateTag>> \o p1
      BY Cons1, Zenon
    <2>3. p3 = <<Python>> \o p2
      BY Cons2, Zenon
    <2>4. p4 = <<LookUpTag>> \o p3
      BY Cons3, Zenon
    <2>5. p5 = <<Unlock(TagDoc)>> \o p4
      BY Cons4, Zenon
    <2>6. p6 = <<ReadTag>> \o p5
      BY Cons5
    <2>7. p7 = <<Lock(TagDoc)>> \o p6
      BY Cons6
    <2> QED BY <2>1, <2>2, <2>3, <2>4, <2>5, <2>6, <2>7
  <1>2. Fits(p0, {}, FALSE)
    BY Nothing
  <1> HIDE DEF p0, p1, p2, p3, p4, p5, p6, p7
  <1>3. Fits(p1, {}, FALSE)
    BY <1>1, <1>2, AttachedFirst, TagSteps
  <1>4. Fits(p2, {}, FALSE)
    BY <1>1, <1>3, AttachedFirst, TagSteps
  <1>5. Fits(p3, {}, FALSE)
    BY <1>1, <1>4, AttachedFirst, TagSteps
  <1>6. Fits(p4, {}, FALSE)
    BY <1>1, <1>5, AttachedFirst, TagSteps
  <1>7. Fits(p5, {TagDoc}, FALSE)
    BY <1>1, <1>6, OneLock, MutexInt
  <1>8. Fits(p6, {TagDoc}, FALSE)
    BY <1>1, <1>7, AttachedFirst, TagSteps
  <1>9. Fits(p7, {}, FALSE)
    BY <1>1, <1>8, OneLock, MutexInt
  <1> QED BY <1>9 DEF GetTag, p7

LEMMA IterRootFits ==
  ASSUME NEW d \in IterDoc PROVE Fits(IterRoot(d), {}, FALSE)
  <1> StateOf(d) \in Mutex /\ d \in Mutex /\ d \in Doc /\ StateOf(d) < d
    BY DEF Mutex, StateOf
  <1> DEFINE p0 == <<>>
             p1 == <<Python>>
             p2 == <<Unlock(StateOf(d)), Python>>
             p3 == <<Lock(StateOf(d)), Unlock(StateOf(d)), Python>>
  <1>1. /\ p1 = <<Python>> \o p0
        /\ p2 = <<Unlock(StateOf(d))>> \o p1
        /\ p3 = <<Lock(StateOf(d))>> \o p2
    <2>1. p1 = <<Python>> \o p0
      BY Cons0, Zenon
    <2>2. p2 = <<Unlock(StateOf(d))>> \o p1
      BY Cons1, Zenon
    <2>3. p3 = <<Lock(StateOf(d))>> \o p2
      BY Cons2, Zenon
    <2> QED BY <2>1, <2>2, <2>3
  <1>2. Fits(p0, {}, FALSE)
    BY Nothing
  <1> HIDE DEF p0, p1, p2, p3
  <1>3. Fits(p1, {}, FALSE)
    BY <1>1, <1>2, AttachedFirst, TagSteps
  <1>4. Fits(p2, {StateOf(d)}, FALSE)
    BY <1>1, <1>3, OneLock, MutexInt
  <1>5. Fits(p3, {}, FALSE)
    BY <1>1, <1>4, OneLock, MutexInt
  <1> QED BY <1>5 DEF IterRoot, p3

LEMMA IterNextFits ==
  ASSUME NEW d \in IterDoc PROVE Fits(IterNext(d), {}, FALSE)
  <1> StateOf(d) \in Mutex /\ d \in Mutex /\ d \in Doc /\ StateOf(d) < d
    BY DEF Mutex, StateOf
  <1> DEFINE p0 == <<>>
             p1 == <<Python>>
             p2 == <<Attach, Python>>
             p3 == <<Unlock(StateOf(d)), Attach, Python>>
             p4 == <<Unlock(d), Unlock(StateOf(d)), Attach, Python>>
             p5 == <<Edit(d), Unlock(d), Unlock(StateOf(d)), Attach, Python>>
             p6 == <<Lock(d), Edit(d), Unlock(d), Unlock(StateOf(d)), Attach,
                     Python>>
             p7 == <<Unlock(d), Lock(d), Edit(d), Unlock(d),
                     Unlock(StateOf(d)), Attach, Python>>
             p8 == <<Edit(d), Unlock(d), Lock(d), Edit(d), Unlock(d),
                     Unlock(StateOf(d)), Attach, Python>>
             p9 == <<Lock(d), Edit(d), Unlock(d), Lock(d), Edit(d),
                     Unlock(d), Unlock(StateOf(d)), Attach, Python>>
             p10 == <<Lock(StateOf(d)), Lock(d), Edit(d), Unlock(d), Lock(d),
                      Edit(d), Unlock(d), Unlock(StateOf(d)), Attach, Python>>
             p11 == <<Detach, Lock(StateOf(d)), Lock(d), Edit(d), Unlock(d),
                      Lock(d), Edit(d), Unlock(d), Unlock(StateOf(d)),
                      Attach, Python>>
  <1>1. /\ p1 = <<Python>> \o p0
        /\ p2 = <<Attach>> \o p1
        /\ p3 = <<Unlock(StateOf(d))>> \o p2
        /\ p4 = <<Unlock(d)>> \o p3
        /\ p5 = <<Edit(d)>> \o p4
        /\ p6 = <<Lock(d)>> \o p5
        /\ p7 = <<Unlock(d)>> \o p6
        /\ p8 = <<Edit(d)>> \o p7
        /\ p9 = <<Lock(d)>> \o p8
        /\ p10 = <<Lock(StateOf(d))>> \o p9
        /\ p11 = <<Detach>> \o p10
    <2>1. p1 = <<Python>> \o p0
      BY Cons0, Zenon
    <2>2. p2 = <<Attach>> \o p1
      BY Cons1, Zenon
    <2>3. p3 = <<Unlock(StateOf(d))>> \o p2
      BY Cons2, Zenon
    <2>4. p4 = <<Unlock(d)>> \o p3
      BY Cons3, Zenon
    <2>5. p5 = <<Edit(d)>> \o p4
      BY Cons4, Zenon
    <2>6. p6 = <<Lock(d)>> \o p5
      BY Cons5
    <2>7. p7 = <<Unlock(d)>> \o p6
      BY Cons6
    <2>8. p8 = <<Edit(d)>> \o p7
      BY Cons7
    <2>9. p9 = <<Lock(d)>> \o p8
      BY Cons8
    <2>10. p10 = <<Lock(StateOf(d))>> \o p9
      BY Cons9
    <2>11. p11 = <<Detach>> \o p10
      BY Cons10
    <2> QED BY <2>1, <2>2, <2>3, <2>4, <2>5, <2>6, <2>7, <2>8, <2>9, <2>10, <2>11
  <1>2. Fits(p0, {}, FALSE)
    BY Nothing
  <1> HIDE DEF p0, p1, p2, p3, p4, p5, p6, p7, p8, p9, p10, p11
  <1>3. Fits(p1, {}, FALSE)
    BY <1>1, <1>2, AttachedFirst, TagSteps
  <1>4. Fits(p2, {}, TRUE)
    BY <1>1, <1>3, AttachFirst
  <1>5. Fits(p3, {StateOf(d)}, TRUE)
    BY <1>1, <1>4, OneLock, MutexInt
  <1>6. Fits(p4, {d, StateOf(d)}, TRUE)
    BY <1>1, <1>5, TwoLocks, MutexInt
  <1>7. Fits(p5, {d, StateOf(d)}, TRUE)
    BY <1>1, <1>6, WorkFirst
  <1>8. Fits(p6, {StateOf(d)}, TRUE)
    BY <1>1, <1>7, TwoLocks, MutexInt
  <1>9. Fits(p7, {d, StateOf(d)}, TRUE)
    BY <1>1, <1>8, TwoLocks, MutexInt
  <1>10. Fits(p8, {d, StateOf(d)}, TRUE)
    BY <1>1, <1>9, WorkFirst
  <1>11. Fits(p9, {StateOf(d)}, TRUE)
    BY <1>1, <1>10, TwoLocks, MutexInt
  <1>12. Fits(p10, {}, TRUE)
    BY <1>1, <1>11, OneLock, MutexInt
  <1>13. Fits(p11, {}, FALSE)
    BY <1>1, <1>12, DetachFirst
  <1> QED BY <1>13 DEF IterNext, p11

LEMMA TwoInFront ==
  ASSUME NEW p \in Seq(Instruction), NEW x \in Instruction, NEW y \in Instruction
  PROVE  <<x, y>> \o p = <<x>> \o (<<y>> \o p)
  <1> DEFINE l == <<x, y>> \o p
             r == <<x>> \o (<<y>> \o p)
  <1>1. /\ l \in Seq(Instruction) /\ Len(l) = Len(p) + 2
        /\ l[1] = x /\ l[2] = y /\ \A k \in 1 .. Len(p) : l[k + 2] = p[k]
    OBVIOUS
  <1>2. /\ <<y>> \o p \in Seq(Instruction) /\ Len(<<y>> \o p) = Len(p) + 1
        /\ (<<y>> \o p)[1] = y /\ \A k \in 1 .. Len(p) : (<<y>> \o p)[k + 1] = p[k]
    OBVIOUS
  <1>3. /\ r \in Seq(Instruction) /\ Len(r) = Len(p) + 2
        /\ r[1] = x /\ \A k \in 1 .. Len(p) + 1 : r[k + 1] = (<<y>> \o p)[k]
    BY <1>2
  <1> HIDE DEF l, r
  <1>4. ASSUME NEW k \in 1 .. Len(l) PROVE l[k] = r[k]
    <2>1. CASE k = 1
      BY <2>1, <1>1, <1>3
    <2>2. CASE k = 2
      <3>1. r[1 + 1] = (<<y>> \o p)[1]
        BY <1>3
      <3> QED BY <2>2, <3>1, <1>1, <1>2
    <2>3. CASE k > 2
      <3> DEFINE j == k - 2
      <3>0. Len(p) \in Nat /\ k \in 3 .. Len(p) + 2
        BY <2>3, <1>1
      <3>1. j \in 1 .. Len(p) /\ j + 2 = k /\ (j + 1) + 1 = k /\ j + 1 \in 1 .. Len(p) + 1
        BY <3>0
      <3> HIDE DEF j
      <3>2. r[(j + 1) + 1] = (<<y>> \o p)[j + 1]
        BY <1>3, <3>1
      <3> QED BY <3>1, <3>2, <1>1, <1>2
    <2> QED BY <2>1, <2>2, <2>3, <1>1
  <1>5. l = r
    BY <1>1, <1>3, <1>4, SeqEqual
  <1> QED BY <1>5 DEF l, r

(* Both mutexes, in the order of their addresses.                          *)
LEMMA BothFirst ==
  ASSUME NEW p, NEW a \in Doc, NEW b \in Doc, a # b, Fits(p, {a, b}, FALSE)
  PROVE  Fits(Both(a, b) \o p, {}, FALSE)
  <1>1. p \in Seq(Instruction) /\ Lock(a) \in Instruction /\ Lock(b) \in Instruction
    BY MutexInt DEF Fits, Disciplined, Lock, On, Instruction, Op
  <1>2. a \in Mutex /\ b \in Mutex /\ a \in Int /\ b \in Int
    BY MutexInt
  <1>3. CASE a < b
    <2>1. Fits(<<Lock(b)>> \o p, {a}, FALSE)
      <3>1. {a, b} = {b, a}
        OBVIOUS
      <3> QED BY <1>2, <1>3, <3>1, TwoLocks
    <2>2. Fits(<<Lock(a)>> \o (<<Lock(b)>> \o p), {}, FALSE)
      BY <1>2, <2>1, OneLock
    <2> QED BY <1>1, <1>3, <2>2, TwoInFront DEF Both
  <1>4. CASE ~(a < b)
    <2>1. Fits(<<Lock(a)>> \o p, {b}, FALSE)
      <3>1. b < a
        BY <1>2, <1>4
      <3> QED BY <1>2, <3>1, TwoLocks
    <2>2. Fits(<<Lock(b)>> \o (<<Lock(a)>> \o p), {}, FALSE)
      BY <1>2, <2>1, OneLock
    <2> QED BY <1>1, <1>4, <2>2, TwoInFront DEF Both
  <1> QED BY <1>3, <1>4

(* Dropping both, in either order.                                         *)
LEMMA TwoUnlocks ==
  ASSUME NEW p, NEW a \in BOOLEAN, NEW m \in Mutex, NEW n \in Mutex, n # m,
         Fits(p, {m}, a)
  PROVE  Fits(<<Unlock(n)>> \o p, {m, n}, a)
  <1>1. Fits(<<Unlock(n)>> \o p, {m} \cup {n}, a)
    BY UnlockFirst
  <1>2. {m} \cup {n} = {m, n}
    OBVIOUS
  <1> QED BY <1>1, <1>2

LEMMA ImportSubtreeFits ==
  ASSUME NEW src \in Doc, NEW dst \in Doc, src # dst
  PROVE  Fits(ImportSubtree(src, dst), {}, FALSE)
  <1> DEFINE p0 == <<>>
             p1 == <<Unlock(src)>>
             p2 == <<Unlock(dst), Unlock(src)>>
             p3 == <<Edit(dst), Unlock(dst), Unlock(src)>>
             p4 == <<Use(src), Edit(dst), Unlock(dst), Unlock(src)>>
  <1>1. /\ p1 = <<Unlock(src)>> \o p0 /\ p2 = <<Unlock(dst)>> \o p1
        /\ p3 = <<Edit(dst)>> \o p2 /\ p4 = <<Use(src)>> \o p3
    <2>1. p1 = <<Unlock(src)>> \o p0
      BY Cons0, Zenon
    <2>2. p2 = <<Unlock(dst)>> \o p1
      BY Cons1, Zenon
    <2>3. p3 = <<Edit(dst)>> \o p2
      BY Cons2, Zenon
    <2>4. p4 = <<Use(src)>> \o p3
      BY Cons3, Zenon
    <2> QED BY <2>1, <2>2, <2>3, <2>4
  <1>2. Fits(p0, {}, FALSE)
    BY Nothing
  <1> HIDE DEF p0, p1, p2, p3, p4
  <1>3. Fits(p1, {src}, FALSE)
    BY <1>1, <1>2, OneLock, MutexInt
  <1>4. Fits(p2, {src, dst}, FALSE)
    BY <1>1, <1>3, TwoUnlocks, MutexInt
  <1>5. Fits(p4, {src, dst}, FALSE)
    BY <1>1, <1>4, WorkFirst
  <1>6. {src, dst} = {dst, src}
    OBVIOUS
  <1>7. Fits(Both(dst, src) \o p4, {}, FALSE)
    BY <1>5, <1>6, BothFirst
  <1> QED BY <1>7 DEF ImportSubtree, p4

LEMMA RepointSubtreeFits ==
  ASSUME NEW src \in Doc, NEW dst \in Doc
  PROVE  Fits(RepointSubtree(src, dst), {}, FALSE)
  <1>1. CASE src = dst
    BY <1>1, ReadAttachedFits DEF RepointSubtree, ReadAttached
  <1>2. CASE src # dst
    <2> DEFINE p0 == <<>>
               p1 == <<Python>>
               p2 == <<Unlock(src), Python>>
               p3 == <<Unlock(dst), Unlock(src), Python>>
               p4 == <<Use(dst), Unlock(dst), Unlock(src), Python>>
               p5 == <<Use(src), Use(dst), Unlock(dst), Unlock(src), Python>>
    <2>1. /\ p1 = <<Python>> \o p0 /\ p2 = <<Unlock(src)>> \o p1
          /\ p3 = <<Unlock(dst)>> \o p2 /\ p4 = <<Use(dst)>> \o p3
          /\ p5 = <<Use(src)>> \o p4
      <3>1. p1 = <<Python>> \o p0
        BY Cons0, Zenon
      <3>2. p2 = <<Unlock(src)>> \o p1
        BY Cons1, Zenon
      <3>3. p3 = <<Unlock(dst)>> \o p2
        BY Cons2, Zenon
      <3>4. p4 = <<Use(dst)>> \o p3
        BY Cons3, Zenon
      <3>5. p5 = <<Use(src)>> \o p4
        BY Cons4, Zenon
      <3> QED BY <3>1, <3>2, <3>3, <3>4, <3>5
    <2>2. Fits(p0, {}, FALSE)
      BY Nothing
    <2> HIDE DEF p0, p1, p2, p3, p4, p5
    <2>3. Fits(p1, {}, FALSE)
      BY <2>1, <2>2, AttachedFirst, TagSteps
    <2>4. Fits(p2, {src}, FALSE)
      BY <2>1, <2>3, OneLock, MutexInt
    <2>5. Fits(p3, {src, dst}, FALSE)
      BY <1>2, <2>1, <2>4, TwoUnlocks, MutexInt
    <2>6. Fits(p5, {src, dst}, FALSE)
      BY <2>1, <2>5, WorkFirst
    <2>7. {src, dst} = {dst, src}
      OBVIOUS
    <2>8. Fits(Both(dst, src) \o p5, {}, FALSE)
      BY <1>2, <2>6, <2>7, BothFirst
    <2> QED BY <1>2, <2>8 DEF RepointSubtree, p5
  <1> QED BY <1>1, <1>2

LEMMA HandlersFit ==
  ASSUME NEW p \in Handlers
  PROVE  Fits(p, {}, FALSE)
  <1>1. \/ \E d \in Doc : p \in {ReadAttached(d), EditAttached(d), ReadDetached(d),
                                PostProcess(d), ReplaceXml(d)}
        \/ \E d \in IterDoc : p \in {IterNext(d), IterRoot(d)}
        \/ \E src \in Doc, dst \in Doc : p = RepointSubtree(src, dst)
        \/ \E q \in {r \in Doc \X Doc : r[1] # r[2]} : p = ImportSubtree(q[1], q[2])
        \/ p = GetTag
    <2> DEFINE One == UNION {{ReadAttached(d), EditAttached(d), ReadDetached(d),
                              PostProcess(d), ReplaceXml(d)} : d \in Doc}
               Iter == UNION {{IterNext(d), IterRoot(d)} : d \in IterDoc}
               Pair == {RepointSubtree(q[1], q[2]) : q \in Doc \X Doc}
               Import == {ImportSubtree(q[1], q[2]) : q \in {r \in Doc \X Doc : r[1] # r[2]}}
    <2>1. p \in One \/ p \in Iter \/ p \in Pair \/ p \in Import \/ p = GetTag
      BY Zenon DEF Handlers
    <2>2. p \in One => \E d \in Doc :
            p \in {ReadAttached(d), EditAttached(d), ReadDetached(d), PostProcess(d), ReplaceXml(d)}
      OBVIOUS
    <2>3. p \in Iter => \E d \in IterDoc : p \in {IterNext(d), IterRoot(d)}
      OBVIOUS
    <2>4. p \in Pair => \E src \in Doc, dst \in Doc : p = RepointSubtree(src, dst)
      OBVIOUS
    <2>5. p \in Import =>
            \E q \in {r \in Doc \X Doc : r[1] # r[2]} : p = ImportSubtree(q[1], q[2])
      OBVIOUS
    <2> HIDE DEF One, Iter, Pair, Import
    <2> QED BY <2>1, <2>2, <2>3, <2>4, <2>5
  <1>2. ASSUME NEW q \in {r \in Doc \X Doc : r[1] # r[2]}
        PROVE  Fits(ImportSubtree(q[1], q[2]), {}, FALSE)
    <2>1. q[1] \in Doc /\ q[2] \in Doc /\ q[1] # q[2]
      OBVIOUS
    <2> QED BY <2>1, ImportSubtreeFits
  <1> QED BY <1>1, <1>2, ReadAttachedFits, EditAttachedFits, ReadDetachedFits,
             PostProcessFits, ReplaceXmlFits, IterNextFits, IterRootFits,
             RepointSubtreeFits, GetTagFits

-----------------------------------------------------------------------------
(* What a call's next step says of the call and of what follows.           *)

LEMMA Advanced ==
  ASSUME NEW p, Disciplined(p), p # <<>>
  PROVE  LET x == Head(p)
         IN  /\ Disciplined(Tail(p)) /\ x \in Instruction /\ p[1] = x
             /\ x.op = "lock" => /\ x.m \in Mutex /\ Owed(Tail(p), 1) = Owed(p, 1) \cup {x.m}
                                 /\ \A n \in Owed(p, 1) : n < x.m
             /\ x.op = "unlock" => /\ x.m \in Mutex /\ x.m \in Owed(p, 1)
                                   /\ Owed(Tail(p), 1) = Owed(p, 1) \ {x.m}
             /\ x.op \notin {"lock", "unlock"} => Owed(Tail(p), 1) = Owed(p, 1)
             /\ x.op = "attach" => Away(p, 1) /\ ~Away(Tail(p), 1) /\ Owed(p, 1) = {}
             /\ x.op = "detach" => ~Away(p, 1) /\ Away(Tail(p), 1)
             /\ x.op \notin {"attach", "detach"} => (Away(Tail(p), 1) <=> Away(p, 1))
             /\ x.op \in {"use", "edit"} => x.m \in Doc /\ x.m \in Owed(p, 1)
             /\ x.op = "python" => Owed(p, 1) = {} /\ ~Away(p, 1)
             /\ x.op = "readtag" => Owed(p, 1) = {TagDoc} /\ ~Away(p, 1)
             /\ x.op = "lookuptag" => Owed(p, 1) = {} /\ ~Away(p, 1)
  <1> DEFINE x == Head(p)
             q == Tail(p)
  <1>1. p \in Seq(Instruction) /\ x = p[1] /\ x \in Instruction /\ 1 \in 1 .. Len(p)
    BY DEF Disciplined
  <1>2. Disciplined(q) /\ InOrder(p, 1)
    BY <1>1, TailDisciplined
  <1>3. Owed(q, 1) = Owed(p, 1 + 1) /\ (Away(q, 1) <=> Away(p, 1 + 1))
    BY <1>1, TailShift
  <1>4. /\ x.op = "lock" => Owed(p, 1) = Owed(p, 2) \ {x.m}
        /\ x.op = "unlock" /\ x.m \in Mutex => Owed(p, 1) = Owed(p, 2) \cup {x.m}
        /\ x.op \notin {"lock", "unlock"} => Owed(p, 1) = Owed(p, 2)
    BY <1>1, OwedStep
  <1>5. /\ x.op = "attach" /\ x.m = 0 => Away(p, 1)
        /\ x.op = "detach" /\ x.m = 0 => ~Away(p, 1)
        /\ x.op \notin {"attach", "detach"} => (Away(p, 1) <=> Away(p, 2))
    BY <1>1, AwayStep
  <1>6. Owed(p, 2) \subseteq Mutex
    BY DEF Owed
  <1> HIDE DEF x, q
  <1>7. /\ x.op = "lock" => x.m \in Owed(p, 2) /\ \A n \in Owed(p, 1) : n < x.m
        /\ x.op = "unlock" => x.m \in Mutex /\ x.m \notin Owed(p, 2)
        /\ x.op \in {"use", "edit"} => x.m \in Doc /\ x.m \in Owed(p, 1)
        /\ x.op = "attach" => x.m = 0 /\ Owed(p, 1) = {} /\ ~Away(p, 2)
        /\ x.op = "detach" => x.m = 0 /\ Away(p, 2)
        /\ x.op = "python" => Owed(p, 1) = {} /\ ~Away(p, 1)
        /\ x.op = "readtag" => Owed(p, 1) = {TagDoc} /\ ~Away(p, 1)
        /\ x.op = "lookuptag" => Owed(p, 1) = {} /\ ~Away(p, 1)
    BY <1>1, <1>2 DEF InOrder
  <1>8. x.op = "lock" => Owed(q, 1) = Owed(p, 1) \cup {x.m}
    BY <1>3, <1>4, <1>7
  <1>9. x.op = "unlock" => x.m \in Owed(p, 1) /\ Owed(q, 1) = Owed(p, 1) \ {x.m}
    BY <1>3, <1>4, <1>7
  <1>10. x.op \notin {"lock", "unlock"} => Owed(q, 1) = Owed(p, 1)
    BY <1>3, <1>4
  <1>11. /\ x.op = "attach" => Away(p, 1) /\ ~Away(q, 1)
         /\ x.op = "detach" => ~Away(p, 1) /\ Away(q, 1)
         /\ x.op \notin {"attach", "detach"} => (Away(q, 1) <=> Away(p, 1))
    BY <1>3, <1>5, <1>7
  <1> QED BY <1>1, <1>2, <1>6, <1>7, <1>8, <1>9, <1>10, <1>11 DEF x, q

LEMMA DetachedIsAway ==
  ASSUME NEW p \in Seq(Instruction) PROVE Detached(p) <=> Away(p, 1)
  BY DEF Detached, Away

(* What is left of a call that bails out.                                  *)
LEMMA Exits ==
  /\ Fits(<<>>, {}, FALSE)
  /\ Fits(<<Attach>>, {}, TRUE)
  /\ <<Attach>>[1].op = "attach"
  /\ Fits(<<Unlock(TagDoc)>>, {TagDoc}, FALSE)
  /\ <<Unlock(TagDoc)>>[1].op = "unlock"
  <1>1. Fits(<<Attach>> \o <<>>, {}, TRUE)
    BY Nothing, AttachFirst
  <1>2. Fits(<<Unlock(TagDoc)>> \o <<>>, {TagDoc}, FALSE)
    BY Nothing, OneLock, MutexInt
  <1>3. <<Attach>> \o <<>> = <<Attach>> /\ <<Unlock(TagDoc)>> \o <<>> = <<Unlock(TagDoc)>>
    BY Cons0, Zenon
  <1>4. <<Attach>>[1].op = "attach" /\ <<Unlock(TagDoc)>>[1].op = "unlock"
    BY DEF Attach, Do, Unlock, On
  <1> QED BY <1>1, <1>2, <1>3, <1>4, Nothing

-----------------------------------------------------------------------------
(* The inductive invariant: a call's remaining steps are disciplined and   *)
(* tell which mutexes it holds and whether its thread has the GIL; a change*)
(* by half is being made by the mutex's holder, or its maker has panicked. *)

Typed ==
  /\ gil \in Thread \cup {NoOne}
  /\ owner \in [Mutex -> Call \cup {NoOne}]
  /\ rest \in [Call -> Seq(Instruction)]
  /\ half \subseteq Doc
  /\ poisoned \subseteq Mutex

HoldsWhatItOwes ==
  \A c \in Call : /\ Disciplined(rest[c])
                  /\ \A m \in Mutex : owner[m] = c <=> m \in Owed(rest[c], 1)

NestedInPython ==
  \A c, e \in Call : e[1] = c[1] /\ e[2] > c[2] /\ Active(e) => At(c, "python")

GilFollows ==
  \A c \in Call : Active(c) /\ Innermost(c) /\ ~At(c, "python") =>
    (gil = c[1] <=> ~Away(rest[c], 1))

Base == Typed /\ HoldsWhatItOwes /\ NestedInPython /\ GilFollows

HalfIsHeld ==
  /\ \A d \in half : \/ d \in poisoned
                    \/ \E c \in Call : owner[d] = c /\ Active(c) /\ Head(rest[c]) = Edit(d)
  /\ \A m \in poisoned : owner[m] = NoOne

LInv == Base /\ HalfIsHeld

(* One call moves on to q: everything else stands.                         *)
LEMMA Moves ==
  ASSUME Base, NEW c \in Call, NEW q, Innermost(c),
         \A e \in Call : e[1] = c[1] /\ e[2] < c[2] => At(e, "python"),
         rest' = [rest EXCEPT ![c] = q], Disciplined(q),
         owner' \in [Mutex -> Call \cup {NoOne}],
         \A m \in Mutex : owner'[m] = c <=> m \in Owed(q, 1),
         \A m \in Mutex, e \in Call : e # c => (owner'[m] = e <=> owner[m] = e),
         gil' \in Thread \cup {NoOne},
         \A t \in Thread : t # c[1] => (gil' = t <=> gil = t),
         q # <<>> /\ q[1].op # "python" => (gil' = c[1] <=> ~Away(q, 1)),
         half' \subseteq Doc, poisoned' \subseteq Mutex
  PROVE  Base'
  <1>1. /\ rest'[c] = q /\ q \in Seq(Instruction)
        /\ \A e \in Call : e # c => rest'[e] = rest[e]
    BY DEF Base, Typed, Disciplined
  <1>2. Typed'
    BY <1>1 DEF Base, Typed
  <1>3. HoldsWhatItOwes'
    BY <1>1 DEF Base, HoldsWhatItOwes
  <1>4. \A e \in Call : e # c => /\ Active(e)' = Active(e)
                                /\ At(e, "python")' = At(e, "python")
    BY <1>1 DEF Active, At
  <1>5. \A e \in Call : e[1] = c[1] /\ e # c => e[2] < c[2] \/ e[2] > c[2]
    OBVIOUS
  <1>6. NestedInPython'
    <2> SUFFICES ASSUME NEW x \in Call, NEW y \in Call, y[1] = x[1], y[2] > x[2], Active(y)'
                 PROVE  At(x, "python")'
      BY DEF NestedInPython
    <2>1. x # y /\ x[2] < y[2]
      OBVIOUS
    <2>2. CASE y = c
      BY <1>4, <2>1, <2>2
    <2>3. CASE y # c
      <3>1. Active(y)
        BY <1>4, <2>3
      <3>2. x # c
        BY <3>1 DEF Innermost
      <3> QED BY <1>4, <3>1, <3>2 DEF Base, NestedInPython
    <2> QED BY <2>2, <2>3
  <1>7. GilFollows'
    <2> SUFFICES ASSUME NEW x \in Call, Active(x)', Innermost(x)', ~At(x, "python")'
                 PROVE  (gil' = x[1] <=> ~Away(rest'[x], 1))
      BY DEF GilFollows
    <2>1. CASE x = c
      <3>1. q # <<>> /\ Head(q).op # "python" /\ Head(q) = q[1]
        BY <1>1, <2>1 DEF Active, At
      <3> QED BY <1>1, <2>1, <3>1
    <2>2. CASE x # c /\ x[1] = c[1]
      <3>1. Active(x) /\ ~At(x, "python")
        BY <1>4, <2>2
      <3> QED BY <1>5, <2>2, <3>1 DEF Innermost
    <2>3. CASE x[1] # c[1]
      <3>1. Active(x) /\ ~At(x, "python") /\ rest'[x] = rest[x]
        BY <1>1, <1>4, <2>3
      <3>2. Innermost(x)
        BY <1>4, <2>3 DEF Innermost
      <3>3. x[1] \in Thread
        OBVIOUS
      <3> QED BY <2>3, <3>1, <3>2, <3>3 DEF Base, GilFollows
    <2> QED BY <2>1, <2>2, <2>3
  <1> QED BY <1>2, <1>3, <1>6, <1>7 DEF Base

LEMMA RunningCall ==
  ASSUME Base, NEW c \in Call, Running(c)
  PROVE  /\ Disciplined(rest[c]) /\ rest[c] # <<>> /\ Innermost(c)
         /\ rest[c] \in Seq(Instruction)
         /\ \A e \in Call : e[1] = c[1] /\ e[2] < c[2] => At(e, "python")
         /\ gil = c[1] <=> ~Away(rest[c], 1)
         /\ \A m \in Mutex : owner[m] = c <=> m \in Owed(rest[c], 1)
         /\ c # NoOne /\ c[1] \in Thread /\ c[1] # NoOne
  <1>1. /\ Disciplined(rest[c]) /\ rest[c] # <<>> /\ Innermost(c)
        /\ \A m \in Mutex : owner[m] = c <=> m \in Owed(rest[c], 1)
    BY DEF Running, Active, Base, HoldsWhatItOwes
  <1>2. \A e \in Call : e[1] = c[1] /\ e[2] < c[2] => At(e, "python")
    <2> SUFFICES ASSUME NEW e \in Call, e[1] = c[1], e[2] < c[2] PROVE At(e, "python")
      OBVIOUS
    <2>1. c[2] > e[2] /\ Active(c)
      BY DEF Running
    <2> QED BY <2>1 DEF Base, NestedInPython
  <1>3. gil = c[1] <=> ~Away(rest[c], 1)
    <2>1. rest[c] \in Seq(Instruction)
      BY <1>1 DEF Disciplined
    <2>2. At(c, "python") => ~Away(rest[c], 1)
      BY <1>1, Advanced DEF At
    <2> QED BY <2>1, <2>2, DetachedIsAway DEF Running, Base, GilFollows
  <1> QED BY <1>1, <1>2, <1>3 DEF Disciplined

(* A step that concerns neither a mutex nor the GIL.                       *)
LEMMA PlainAdvance ==
  ASSUME Base, NEW c \in Call, Running(c), Advance(c), UNCHANGED <<gil, owner>>,
         Head(rest[c]).op \notin {"lock", "unlock", "attach", "detach"},
         half' \subseteq Doc, poisoned' = poisoned
  PROVE  Base'
  <1> DEFINE q == Tail(rest[c])
  <1>1. /\ Disciplined(q) /\ Owed(q, 1) = Owed(rest[c], 1)
        /\ Away(q, 1) <=> Away(rest[c], 1)
    BY RunningCall, Advanced
  <1>2. rest' = [rest EXCEPT ![c] = q]
    BY DEF Advance
  <1> HIDE DEF q
  <1>3. /\ owner' \in [Mutex -> Call \cup {NoOne}] /\ gil' \in Thread \cup {NoOne}
        /\ poisoned' \subseteq Mutex
    BY DEF Base, Typed
  <1>4. /\ gil' = c[1] <=> ~Away(q, 1)
        /\ \A m \in Mutex : owner'[m] = c <=> m \in Owed(q, 1)
    BY <1>1, RunningCall
  <1>5. /\ \A m \in Mutex, e \in Call : e # c => (owner'[m] = e <=> owner[m] = e)
        /\ \A t \in Thread : t # c[1] => (gil' = t <=> gil = t)
    OBVIOUS
  <1>6. /\ Innermost(c)
        /\ \A e \in Call : e[1] = c[1] /\ e[2] < c[2] => At(e, "python")
    BY RunningCall
  <1> QED BY <1>1, <1>2, <1>3, <1>4, <1>5, <1>6, Moves

LEMMA BailsOut ==
  ASSUME Base, NEW c \in Call, Running(c), Bail(c), UNCHANGED <<gil, half>>,
         poisoned' \subseteq Mutex
  PROVE  Base'
  <1>1. PICK q : /\ rest' = [rest EXCEPT ![c] = q]
                 /\ q = IF Detached(rest[c]) THEN <<Attach>> ELSE <<>>
    BY DEF Bail
  <1>2. /\ Disciplined(q) /\ Owed(q, 1) = {}
        /\ q # <<>> => q[1].op = "attach" /\ Away(q, 1) /\ Away(rest[c], 1)
    BY <1>1, Exits, RunningCall, DetachedIsAway DEF Fits
  <1>3. /\ owner' \in [Mutex -> Call \cup {NoOne}]
        /\ \A m \in Mutex : owner'[m] # c
        /\ \A m \in Mutex, e \in Call : e # c => (owner'[m] = e <=> owner[m] = e)
    BY RunningCall DEF Bail, Base, Typed
  <1>4. gil' \in Thread \cup {NoOne} /\ half' \subseteq Doc
    BY DEF Base, Typed
  <1>5. q # <<>> => (gil' = c[1] <=> ~Away(q, 1))
    BY <1>2, RunningCall
  <1> QED BY <1>1, <1>2, <1>3, <1>4, <1>5, RunningCall, Moves

(* Changes by half stay with their makers while c, not at an edit, moves.  *)
LEMMA HalfKept ==
  ASSUME LInv, NEW c \in Call, NEW q, rest' = [rest EXCEPT ![c] = q],
         ~At(c, "edit"), UNCHANGED <<half, poisoned>>,
         \A m \in Mutex : /\ owner[m] \notin {c, NoOne} => owner'[m] = owner[m]
                          /\ m \in poisoned => owner'[m] = NoOne
  PROVE  HalfIsHeld'
  <1>1. \A e \in Call : e # c => rest'[e] = rest[e]
    BY DEF LInv, Base, Typed
  <1>2. ASSUME NEW d \in half, d \notin poisoned
        PROVE  \E e \in Call : owner'[d] = e /\ rest'[e] # <<>> /\ Head(rest'[e]) = Edit(d)
    <2>1. PICK e \in Call : owner[d] = e /\ Active(e) /\ Head(rest[e]) = Edit(d)
      BY <1>2 DEF LInv, HalfIsHeld
    <2>2. e # c
      BY <2>1 DEF At, Edit, On
    <2>3. d \in Mutex /\ e # NoOne
      BY MutexInt DEF LInv, Base, Typed
    <2> QED BY <1>1, <2>1, <2>2, <2>3 DEF Active
  <1>3. \A m \in poisoned' : owner'[m] = NoOne
    BY DEF LInv, Base, Typed
  <1> QED BY <1>2, <1>3 DEF HalfIsHeld, Active

LEMMA LockInitLInv == LockInit => LInv
  <1> SUFFICES ASSUME LockInit PROVE LInv
    OBVIOUS
  <1>1. Disciplined(<<>>) /\ Owed(<<>>, 1) = {} /\ <<>> \in Seq(Instruction)
    BY Nothing DEF Fits
  <1>2. Typed
    BY <1>1 DEF LockInit, Typed
  <1>3. HoldsWhatItOwes
    BY <1>1 DEF LockInit, HoldsWhatItOwes
  <1>4. NestedInPython /\ GilFollows
    BY DEF LockInit, NestedInPython, GilFollows, Active
  <1>5. HalfIsHeld
    BY DEF LockInit, HalfIsHeld
  <1> QED BY <1>2, <1>3, <1>4, <1>5 DEF LInv, Base

LEMMA BeginLInv ==
  ASSUME LInv, NEW c \in Call, Begin(c) PROVE LInv'
  <1>1. PICK p \in Handlers : rest' = [rest EXCEPT ![c] = p]
    BY DEF Begin
  <1>2. Disciplined(p) /\ Owed(p, 1) = {} /\ ~Away(p, 1)
    BY HandlersFit DEF Fits
  <1>3. /\ Innermost(c) /\ ~Active(c)
        /\ \A e \in Call : e[1] = c[1] /\ e[2] < c[2] => At(e, "python")
    <2>1. \A e \in Call : e[2] \in Nat
      OBVIOUS
    <2> QED BY <2>1 DEF Begin, Innermost
  <1>4. \A m \in Mutex : owner[m] # c
    <2>1. rest[c] = <<>> /\ Owed(<<>>, 1) = {}
      BY <1>3, Nothing DEF Active, Fits
    <2> QED BY <2>1 DEF LInv, Base, HoldsWhatItOwes
  <1>5. /\ owner' \in [Mutex -> Call \cup {NoOne}] /\ gil' \in Thread \cup {NoOne}
        /\ half' \subseteq Doc /\ poisoned' \subseteq Mutex
        /\ UNCHANGED <<owner, gil, half, poisoned>> /\ gil = c[1]
    BY DEF Begin, LInv, Base, Typed
  <1>6. Base'
    BY <1>1, <1>2, <1>3, <1>4, <1>5, Moves DEF LInv
  <1>7. HalfIsHeld'
    <2>1. \A m \in Mutex : m \in poisoned => owner'[m] = NoOne
      BY <1>5 DEF LInv, HalfIsHeld
    <2> QED BY <1>1, <1>3, <1>5, <2>1, HalfKept DEF At
  <1> QED BY <1>6, <1>7 DEF LInv

LEMMA SwitchLInv ==
  ASSUME LInv, NEW t \in Thread, SwitchOut(t) \/ SwitchIn(t) PROVE LInv'
  <1>1. UNCHANGED <<owner, rest, half, poisoned>> /\ InPython(t) /\ gil' \in Thread \cup {NoOne}
    BY DEF SwitchOut, SwitchIn
  <1>2. \A u \in Thread : u # t => (gil' = u <=> gil = u)
    BY DEF SwitchOut, SwitchIn
  <1>3. Typed' /\ HoldsWhatItOwes' /\ NestedInPython' /\ HalfIsHeld'
    BY <1>1 DEF LInv, Base, Typed, HoldsWhatItOwes, NestedInPython, HalfIsHeld, Active, At
  <1>4. GilFollows'
    <2> SUFFICES ASSUME NEW x \in Call, Active(x), Innermost(x), ~At(x, "python")
                 PROVE  gil' = x[1] <=> ~Away(rest[x], 1)
      BY <1>1 DEF GilFollows, Active, Innermost, At
    <2>1. x[1] \in Thread /\ x[1] # t
      BY <1>1 DEF InPython
    <2> QED BY <1>2, <2>1 DEF LInv, Base, GilFollows
  <1> QED BY <1>3, <1>4 DEF LInv, Base

LEMMA DetachLInv ==
  ASSUME LInv, NEW c \in Call, BeginDetach(c) \/ EndDetach(c) PROVE LInv'
  <1> DEFINE q == Tail(rest[c])
  <1>1. Running(c) /\ rest' = [rest EXCEPT ![c] = q] /\ UNCHANGED <<owner, half, poisoned>>
    BY DEF BeginDetach, EndDetach, Advance
  <1>2. /\ Disciplined(q) /\ Owed(q, 1) = Owed(rest[c], 1)
        /\ BeginDetach(c) => Away(q, 1) /\ ~Away(rest[c], 1)
        /\ ~BeginDetach(c) => ~Away(q, 1)
    BY <1>1, RunningCall, Advanced DEF BeginDetach, EndDetach, At, LInv
  <1> HIDE DEF q
  <1>3. /\ gil' \in Thread \cup {NoOne}
        /\ gil' = c[1] <=> ~Away(q, 1)
        /\ \A t \in Thread : t # c[1] => (gil' = t <=> gil = t)
    BY <1>1, <1>2, RunningCall DEF BeginDetach, EndDetach, LInv
  <1>4. /\ Innermost(c)
        /\ \A e \in Call : e[1] = c[1] /\ e[2] < c[2] => At(e, "python")
        /\ \A m \in Mutex : owner'[m] = c <=> m \in Owed(q, 1)
    BY <1>1, <1>2, RunningCall DEF LInv
  <1>5. owner' \in [Mutex -> Call \cup {NoOne}] /\ half' \subseteq Doc /\ poisoned' \subseteq Mutex
    BY <1>1 DEF LInv, Base, Typed
  <1>6. \A m \in Mutex, e \in Call : e # c => (owner'[m] = e <=> owner[m] = e)
    BY <1>1
  <1>7. Base'
    BY <1>1, <1>2, <1>3, <1>4, <1>5, <1>6, Moves DEF LInv
  <1>8. ~At(c, "edit")
    BY DEF BeginDetach, EndDetach, At
  <1>9. HalfIsHeld'
    <2>1. \A m \in Mutex : m \in poisoned => owner'[m] = NoOne
      BY <1>1 DEF LInv, HalfIsHeld
    <2> QED BY <1>1, <1>8, <2>1, HalfKept
  <1> QED BY <1>7, <1>9 DEF LInv

LEMMA TakeLockLInv ==
  ASSUME LInv, NEW c \in Call, TakeLock(c) PROVE LInv'
  <1> DEFINE q == Tail(rest[c])
             m == Head(rest[c]).m
  <1>1. /\ Running(c) /\ rest' = [rest EXCEPT ![c] = q] /\ UNCHANGED <<gil, half, poisoned>>
        /\ At(c, "lock") /\ owner[m] = NoOne /\ m \notin poisoned
        /\ owner' = [owner EXCEPT ![m] = c]
    BY DEF TakeLock, Free, Advance
  <1>2. /\ Disciplined(q) /\ m \in Mutex /\ Owed(q, 1) = Owed(rest[c], 1) \cup {m}
        /\ Away(q, 1) <=> Away(rest[c], 1)
    BY <1>1, RunningCall, Advanced DEF At, LInv
  <1> HIDE DEF q, m
  <1>3. /\ owner' \in [Mutex -> Call \cup {NoOne}] /\ gil' \in Thread \cup {NoOne}
        /\ half' \subseteq Doc /\ poisoned' \subseteq Mutex
    BY <1>1, <1>2 DEF LInv, Base, Typed
  <1>4. /\ \A n \in Mutex : owner'[n] = c <=> n \in Owed(q, 1)
        /\ \A n \in Mutex, e \in Call : e # c => (owner'[n] = e <=> owner[n] = e)
    BY <1>1, <1>2, <1>3, RunningCall DEF LInv, Base, Typed
  <1>5. /\ Innermost(c)
        /\ \A e \in Call : e[1] = c[1] /\ e[2] < c[2] => At(e, "python")
        /\ gil' = c[1] <=> ~Away(q, 1)
    BY <1>1, <1>2, RunningCall DEF LInv
  <1>6. \A t \in Thread : t # c[1] => (gil' = t <=> gil = t)
    BY <1>1
  <1>7. Base'
    BY <1>1, <1>2, <1>3, <1>4, <1>5, <1>6, Moves DEF LInv
  <1>8. HalfIsHeld'
    <2>1. \A n \in Mutex : /\ owner[n] \notin {c, NoOne} => owner'[n] = owner[n]
                           /\ n \in poisoned => owner'[n] = NoOne
      BY <1>1, <1>2 DEF LInv, HalfIsHeld, Base, Typed
    <2>2. ~At(c, "edit")
      BY <1>1 DEF At
    <2> QED BY <1>1, <2>1, <2>2, HalfKept
  <1> QED BY <1>7, <1>8 DEF LInv

LEMMA DropLockLInv ==
  ASSUME LInv, NEW c \in Call, DropLock(c) PROVE LInv'
  <1> DEFINE q == Tail(rest[c])
             m == Head(rest[c]).m
  <1>1. /\ Running(c) /\ rest' = [rest EXCEPT ![c] = q] /\ UNCHANGED <<gil, half, poisoned>>
        /\ At(c, "unlock") /\ owner' = [owner EXCEPT ![m] = NoOne]
    BY DEF DropLock, Advance
  <1>2. /\ Disciplined(q) /\ m \in Mutex /\ m \in Owed(rest[c], 1)
        /\ Owed(q, 1) = Owed(rest[c], 1) \ {m} /\ (Away(q, 1) <=> Away(rest[c], 1))
    BY <1>1, RunningCall, Advanced DEF At, LInv
  <1> HIDE DEF q, m
  <1>3. /\ owner' \in [Mutex -> Call \cup {NoOne}] /\ gil' \in Thread \cup {NoOne}
        /\ half' \subseteq Doc /\ poisoned' \subseteq Mutex /\ owner[m] = c
    BY <1>1, <1>2, RunningCall DEF LInv, Base, Typed
  <1>4. /\ \A n \in Mutex : owner'[n] = c <=> n \in Owed(q, 1)
        /\ \A n \in Mutex, e \in Call : e # c => (owner'[n] = e <=> owner[n] = e)
    BY <1>1, <1>2, <1>3, RunningCall DEF LInv, Base, Typed
  <1>5. /\ Innermost(c)
        /\ \A e \in Call : e[1] = c[1] /\ e[2] < c[2] => At(e, "python")
        /\ gil' = c[1] <=> ~Away(q, 1)
    BY <1>1, <1>2, RunningCall DEF LInv
  <1>6. \A t \in Thread : t # c[1] => (gil' = t <=> gil = t)
    BY <1>1
  <1>7. Base'
    BY <1>1, <1>2, <1>3, <1>4, <1>5, <1>6, Moves DEF LInv
  <1>8. HalfIsHeld'
    <2>1. \A n \in Mutex : /\ owner[n] \notin {c, NoOne} => owner'[n] = owner[n]
                           /\ n \in poisoned => owner'[n] = NoOne
      BY <1>1, <1>2, <1>3 DEF LInv, HalfIsHeld, Base, Typed
    <2>2. ~At(c, "edit")
      BY <1>1 DEF At
    <2> QED BY <1>1, <2>1, <2>2, HalfKept
  <1> QED BY <1>7, <1>8 DEF LInv

LEMMA BailLInv ==
  ASSUME LInv, NEW c \in Call, RefusePoisoned(c) \/ Fail(c) PROVE LInv'
  <1>1. Running(c) /\ Bail(c) /\ UNCHANGED <<gil, half, poisoned>> /\ ~At(c, "edit")
    BY DEF RefusePoisoned, Free, Fail, At
  <1>2. Base'
    BY <1>1, BailsOut DEF LInv, Base, Typed
  <1>3. PICK q : rest' = [rest EXCEPT ![c] = q]
    BY <1>1 DEF Bail
  <1>4. \A n \in Mutex : /\ owner[n] \notin {c, NoOne} => owner'[n] = owner[n]
                         /\ n \in poisoned => owner'[n] = NoOne
    BY <1>1 DEF LInv, HalfIsHeld, Bail
  <1>5. HalfIsHeld'
    BY <1>1, <1>3, <1>4, HalfKept
  <1> QED BY <1>2, <1>5 DEF LInv

LEMMA PlainLInv ==
  ASSUME LInv, NEW c \in Call, Running(c), Advance(c),
         UNCHANGED <<gil, owner, half, poisoned>>,
         Head(rest[c]).op \notin {"lock", "unlock", "attach", "detach", "edit"}
  PROVE  LInv'
  <1>1. Base'
    BY PlainAdvance DEF LInv, Base, Typed
  <1>2. HalfIsHeld'
    <2>1. \A m \in Mutex : m \in poisoned => owner'[m] = NoOne
      BY DEF LInv, HalfIsHeld
    <2> QED BY <2>1, HalfKept DEF At, Advance
  <1> QED BY <1>1, <1>2 DEF LInv

LEMMA BeginEditLInv ==
  ASSUME LInv, NEW c \in Call, BeginEdit(c) PROVE LInv'
  <1> DEFINE d == Head(rest[c]).m
  <1>1. /\ Running(c) /\ At(c, "edit") /\ half' = half \cup {d}
        /\ UNCHANGED <<gil, owner, rest, poisoned>>
    BY DEF BeginEdit
  <1>2. d \in Doc /\ owner[d] = c /\ Head(rest[c]) = Edit(d) /\ Active(c)
    <2>1. d \in Doc /\ d \in Owed(rest[c], 1) /\ Head(rest[c]) \in Instruction
      BY <1>1, RunningCall, Advanced DEF At, LInv
    <2>2. owner[d] = c
      BY <1>1, <2>1, RunningCall, MutexInt DEF LInv
    <2>3. Head(rest[c]) = Edit(d)
      BY <1>1, <2>1 DEF At, Instruction, Edit, On
    <2> QED BY <1>1, <2>1, <2>2, <2>3 DEF At
  <1> HIDE DEF d
  <1>3. Base'
    BY <1>1, <1>2 DEF LInv, Base, Typed, HoldsWhatItOwes, NestedInPython, GilFollows,
                      Active, At, Innermost
  <1>4. HalfIsHeld'
    BY <1>1, <1>2 DEF LInv, HalfIsHeld, Active
  <1> QED BY <1>3, <1>4 DEF LInv

LEMMA EndEditLInv ==
  ASSUME LInv, NEW c \in Call, EndEdit(c) PROVE LInv'
  <1> DEFINE d == Head(rest[c]).m
  <1>1. /\ Running(c) /\ At(c, "edit") /\ half' = half \ {d} /\ Advance(c)
        /\ UNCHANGED <<gil, owner, poisoned>>
    BY DEF EndEdit
  <1>2. Base'
    BY <1>1, PlainAdvance DEF LInv, Base, Typed, At
  <1>3. Head(rest[c]).m = d
    OBVIOUS
  <1> HIDE DEF d
  <1>4. \A e \in Call : e # c => rest'[e] = rest[e]
    BY <1>1 DEF Advance, LInv, Base, Typed
  <1>5. ASSUME NEW x \in half', x \notin poisoned
        PROVE  \E e \in Call : owner'[x] = e /\ rest'[e] # <<>> /\ Head(rest'[e]) = Edit(x)
    <2>1. PICK e \in Call : owner[x] = e /\ Active(e) /\ Head(rest[e]) = Edit(x)
      BY <1>1, <1>5 DEF LInv, HalfIsHeld
    <2>2. e # c
      BY <1>1, <1>3, <2>1 DEF Edit, On
    <2> QED BY <1>1, <1>4, <2>1, <2>2 DEF Active
  <1>6. HalfIsHeld'
    BY <1>1, <1>5 DEF LInv, HalfIsHeld, Active
  <1> QED BY <1>2, <1>6 DEF LInv

LEMMA PanicLInv ==
  ASSUME LInv, NEW c \in Call, Panic(c) PROVE LInv'
  <1>1. /\ Running(c) /\ Bail(c) /\ UNCHANGED <<gil, half>>
        /\ poisoned' = poisoned \cup Held(c)
    BY DEF Panic
  <1>2. poisoned' \subseteq Mutex
    BY <1>1 DEF Held, LInv, Base, Typed
  <1>3. Base'
    BY <1>1, <1>2, BailsOut DEF LInv
  <1>4. \A m \in Mutex : owner'[m] = IF owner[m] = c THEN NoOne ELSE owner[m]
    BY <1>1 DEF Bail
  <1>5. \A e \in Call : e # c => rest'[e] = rest[e]
    BY <1>1 DEF Bail, LInv, Base, Typed
  <1>6. ASSUME NEW x \in half, x \notin poisoned'
        PROVE  \E e \in Call : owner'[x] = e /\ rest'[e] # <<>> /\ Head(rest'[e]) = Edit(x)
    <2>1. PICK e \in Call : owner[x] = e /\ Active(e) /\ Head(rest[e]) = Edit(x)
      BY <1>1, <1>6 DEF LInv, HalfIsHeld
    <2>2. x \in Mutex
      BY MutexInt DEF LInv, Base, Typed
    <2>3. e # c
      BY <1>1, <1>6, <2>1, <2>2 DEF Held
    <2> QED BY <1>4, <1>5, <2>1, <2>2, <2>3 DEF Active
  <1>7. ASSUME NEW m \in poisoned' PROVE owner'[m] = NoOne
    BY <1>1, <1>2, <1>4 DEF Held, LInv, HalfIsHeld
  <1>8. HalfIsHeld'
    BY <1>1, <1>6, <1>7 DEF HalfIsHeld, Active
  <1> QED BY <1>3, <1>8 DEF LInv

(* The hit: what is left is to drop the guard.                             *)
LEMMA ReadTagLInv ==
  ASSUME LInv, NEW c \in Call, ReadTagOf(c) PROVE LInv'
  <1>1. Running(c) /\ At(c, "readtag") /\ UNCHANGED <<gil, owner, half, poisoned>>
    BY DEF ReadTagOf
  <1>2. CASE Advance(c)
    BY <1>1, <1>2, PlainLInv DEF At
  <1>3. CASE rest' = [rest EXCEPT ![c] = <<Unlock(TagDoc)>>]
    <2> DEFINE q == <<Unlock(TagDoc)>>
    <2>1. Disciplined(q) /\ Owed(q, 1) = {TagDoc} /\ ~Away(q, 1)
      BY Exits DEF Fits
    <2> HIDE DEF q
    <2>2. Owed(rest[c], 1) = {TagDoc} /\ ~Away(rest[c], 1)
      BY <1>1, RunningCall, Advanced DEF At, LInv
    <2>3. /\ Innermost(c)
          /\ \A e \in Call : e[1] = c[1] /\ e[2] < c[2] => At(e, "python")
          /\ gil' = c[1] <=> ~Away(q, 1)
          /\ \A m \in Mutex : owner'[m] = c <=> m \in Owed(q, 1)
      BY <1>1, <2>1, <2>2, RunningCall DEF LInv
    <2>4. /\ owner' \in [Mutex -> Call \cup {NoOne}] /\ gil' \in Thread \cup {NoOne}
          /\ half' \subseteq Doc /\ poisoned' \subseteq Mutex
      BY <1>1 DEF LInv, Base, Typed
    <2>5. /\ \A m \in Mutex, e \in Call : e # c => (owner'[m] = e <=> owner[m] = e)
          /\ \A t \in Thread : t # c[1] => (gil' = t <=> gil = t)
      BY <1>1
    <2>6. rest' = [rest EXCEPT ![c] = q]
      BY <1>3 DEF q
    <2>7. Base'
      BY <2>1, <2>3, <2>4, <2>5, <2>6, Moves DEF LInv
    <2>8. HalfIsHeld'
      <3>1. \A m \in Mutex : m \in poisoned => owner'[m] = NoOne
        BY <1>1 DEF LInv, HalfIsHeld
      <3> QED BY <1>1, <2>6, <3>1, HalfKept DEF At
    <2> QED BY <2>7, <2>8 DEF LInv
  <1> QED BY <1>2, <1>3 DEF ReadTagOf

LEMMA LookUpTagLInv ==
  ASSUME LInv, NEW c \in Call, LookUpTagAgain(c) PROVE LInv'
  <1>1. Running(c) /\ At(c, "lookuptag") /\ UNCHANGED <<gil, owner, half, poisoned>>
    BY DEF LookUpTagAgain
  <1>2. CASE ~Interned(read[c])
    <2>1. Advance(c)
      BY <1>2 DEF LookUpTagAgain, Advance, LInv, Base, Typed
    <2> QED BY <1>1, <2>1, PlainLInv DEF At
  <1>3. CASE Interned(read[c])
    <2> DEFINE q == <<>>
    <2>1. Disciplined(q) /\ Owed(q, 1) = {} /\ ~Away(q, 1)
      BY Exits DEF Fits
    <2>2. rest' = [rest EXCEPT ![c] = q]
      BY <1>3 DEF LookUpTagAgain
    <2> HIDE DEF q
    <2>3. Owed(rest[c], 1) = {} /\ ~Away(rest[c], 1)
      BY <1>1, RunningCall, Advanced DEF At, LInv
    <2>4. /\ Innermost(c)
          /\ \A e \in Call : e[1] = c[1] /\ e[2] < c[2] => At(e, "python")
          /\ gil' = c[1] <=> ~Away(q, 1)
          /\ \A m \in Mutex : owner'[m] = c <=> m \in Owed(q, 1)
      BY <1>1, <2>1, <2>3, RunningCall DEF LInv
    <2>5. /\ owner' \in [Mutex -> Call \cup {NoOne}] /\ gil' \in Thread \cup {NoOne}
          /\ half' \subseteq Doc /\ poisoned' \subseteq Mutex
      BY <1>1 DEF LInv, Base, Typed
    <2>6. /\ \A m \in Mutex, e \in Call : e # c => (owner'[m] = e <=> owner[m] = e)
          /\ \A t \in Thread : t # c[1] => (gil' = t <=> gil = t)
      BY <1>1
    <2>7. Base'
      BY <2>1, <2>2, <2>4, <2>5, <2>6, Moves DEF LInv
    <2>8. HalfIsHeld'
      <3>1. \A m \in Mutex : m \in poisoned => owner'[m] = NoOne
        BY <1>1 DEF LInv, HalfIsHeld
      <3> QED BY <1>1, <2>2, <3>1, HalfKept DEF At
    <2> QED BY <2>7, <2>8 DEF LInv
  <1> QED BY <1>2, <1>3

-----------------------------------------------------------------------------
(* The strengthened invariant holds of every behaviour.                    *)
THEOREM LockInvariance == LockSpec => []LInv
  <1>1. LInv /\ [LockNext]_allVars => LInv'
    <2> SUFFICES ASSUME LInv, [LockNext]_allVars PROVE LInv'
      OBVIOUS
    <2>1. ASSUME NEW c \in Call, Begin(c) PROVE LInv'
      BY <2>1, BeginLInv
    <2>2. ASSUME NEW c \in Call, Proceed(c) PROVE LInv'
      <3>1. CASE BeginDetach(c) \/ EndDetach(c)
        BY <3>1, DetachLInv
      <3>2. CASE TakeLock(c)
        BY <3>2, TakeLockLInv
      <3>3. CASE DropLock(c)
        BY <3>3, DropLockLInv
      <3>4. CASE RefusePoisoned(c) \/ Fail(c)
        BY <3>4, BailLInv
      <3>5. CASE Work(c) \/ EndPython(c) \/ MakeTag(c)
        <4>1. /\ Running(c) /\ Advance(c) /\ UNCHANGED <<gil, owner, half, poisoned>>
              /\ Head(rest[c]).op \notin {"lock", "unlock", "attach", "detach", "edit"}
          BY <3>5 DEF Work, EndPython, MakeTag, At
        <4> QED BY <4>1, PlainLInv
      <3>6. CASE BeginEdit(c)
        BY <3>6, BeginEditLInv
      <3>7. CASE EndEdit(c)
        BY <3>7, EndEditLInv
      <3>8. CASE Panic(c)
        BY <3>8, PanicLInv
      <3>9. CASE ReadTagOf(c)
        BY <3>9, ReadTagLInv
      <3>10. CASE LookUpTagAgain(c)
        BY <3>10, LookUpTagLInv
      <3> QED BY <2>2, <3>1, <3>2, <3>3, <3>4, <3>5, <3>6, <3>7, <3>8, <3>9, <3>10 DEF Proceed
    <2>3. ASSUME NEW t \in Thread, SwitchOut(t) \/ SwitchIn(t) PROVE LInv'
      BY <2>3, SwitchLInv
    <2>4. CASE UNCHANGED allVars
      BY <2>4 DEF allVars, lockVars, LInv, Base, Typed, HoldsWhatItOwes, NestedInPython,
                  GilFollows, HalfIsHeld, Active, At, Innermost
    <2> QED BY <2>1, <2>2, <2>3, <2>4 DEF LockNext
  <1> QED BY <1>1, LockInitLInv, PTL DEF LockSpec

(* Types, nesting of calls, and native code running with the GIL exactly   *)
(* while it is not detached.                                               *)
THEOREM LockTypeCorrect == LockSpec => []LockTypeOK
  <1>1. LInv => LockTypeOK
    <2> SUFFICES ASSUME LInv PROVE LockTypeOK
      OBVIOUS
    <2>1. ASSUME NEW c \in Call, Active(c), Innermost(c), ~At(c, "python")
          PROVE  gil = c[1] <=> ~Detached(rest[c])
      <3>1. rest[c] \in Seq(Instruction)
        BY DEF LInv, Base, Typed
      <3> QED BY <2>1, <3>1, DetachedIsAway DEF LInv, Base, GilFollows
    <2>2. \A c, e \in Call : e[1] = c[1] /\ e[2] > c[2] /\ Active(e) => At(c, "python")
      BY DEF LInv, Base, NestedInPython
    <2>3. /\ gil \in Thread \cup {NoOne} /\ owner \in [Mutex -> Call \cup {NoOne}]
          /\ DOMAIN rest = Call /\ half \subseteq Doc /\ poisoned \subseteq Mutex
      BY DEF LInv, Base, Typed
    <2> QED BY <2>1, <2>2, <2>3 DEF LockTypeOK
  <1> QED BY <1>1, LockInvariance, PTL

(* The lock order is kept by every handler, for all documents and threads. *)
THEOREM LockOrder == LockSpec => []LockDiscipline
  <1>1. LInv => LockDiscipline
    <2> SUFFICES ASSUME LInv, NEW c \in Call, NEW m \in Mutex, owner[m] = c
                 PROVE  /\ Innermost(c)
                        /\ Active(c) /\ ~At(c, "attach") /\ ~At(c, "python")
                        /\ At(c, "lock") => \A n \in Held(c) : n < Head(rest[c]).m
      BY DEF LockDiscipline, Held
    <2>1. Disciplined(rest[c]) /\ m \in Owed(rest[c], 1)
          /\ \A n \in Held(c) : n \in Owed(rest[c], 1)
      BY DEF LInv, Base, HoldsWhatItOwes, Held
    <2>2. rest[c] # <<>>
      BY <2>1, Nothing DEF Fits
    <2>3. /\ Head(rest[c]).op \notin {"attach", "python"}
          /\ Head(rest[c]).op = "lock" => \A n \in Owed(rest[c], 1) : n < Head(rest[c]).m
      BY <2>1, <2>2, Advanced
    <2>4. Active(c) /\ ~At(c, "attach") /\ ~At(c, "python")
      BY <2>2, <2>3 DEF Active, At
    <2>5. Innermost(c)
      BY <2>4 DEF LInv, Base, NestedInPython, Innermost
    <2> QED BY <2>1, <2>3, <2>4, <2>5 DEF At
  <1> QED BY <1>1, LockInvariance, PTL

(* Nobody reads what another call has changed by half.                     *)
THEOREM WholeReads == LockSpec => []NoTornRead
  <1>1. LInv => NoTornRead
    <2> SUFFICES ASSUME LInv, NEW c \in Call, At(c, "use")
                 PROVE  Head(rest[c]).m \notin half /\ owner[Head(rest[c]).m] = c
      BY DEF NoTornRead
    <2> DEFINE d == Head(rest[c]).m
    <2>1. Disciplined(rest[c]) /\ rest[c] # <<>>
      BY DEF LInv, Base, HoldsWhatItOwes, At, Active
    <2>2. d \in Doc /\ d \in Owed(rest[c], 1)
      BY <2>1, Advanced DEF At
    <2>3. owner[d] = c /\ c # NoOne
      BY <2>2, MutexInt DEF LInv, Base, HoldsWhatItOwes
    <2>4. ASSUME d \in half PROVE FALSE
      <3>1. d \notin poisoned
        BY <2>3 DEF LInv, HalfIsHeld
      <3>2. PICK e \in Call : owner[d] = e /\ Head(rest[e]) = Edit(d)
        BY <2>4, <3>1 DEF LInv, HalfIsHeld
      <3> QED BY <2>3, <3>2 DEF At, Edit, On
    <2> QED BY <2>3, <2>4
  <1> QED BY <1>1, LockInvariance, PTL

(* The tag getter inside its locks is the tag getter of TagIntern: the     *)
(* composition takes no other step with the table.                         *)
THEOREM ImplementsTagIntern == LockSpec => Spec
  <1>1. LockInit => Init
    BY DEF LockInit
  <1>2. [LockNext]_allVars => [Next]_vars
    <2> SUFFICES ASSUME LockNext PROVE [Next]_vars
      BY DEF allVars
    <2>1. ASSUME NEW c \in Call, Begin(c) PROVE UNCHANGED vars
      BY <2>1 DEF Begin
    <2>2. ASSUME NEW t \in Thread, SwitchOut(t) \/ SwitchIn(t) PROVE UNCHANGED vars
      BY <2>2 DEF SwitchOut, SwitchIn
    <2>3. ASSUME NEW c \in Call, Proceed(c) PROVE [Next]_vars
      <3>1. CASE ReadTagOf(c)
        BY <3>1 DEF ReadTagOf, Next
      <3>2. CASE LookUpTagAgain(c)
        BY <3>2 DEF LookUpTagAgain, Next
      <3>3. CASE MakeTag(c)
        BY <3>3 DEF MakeTag, Next
      <3>4. CASE ~ReadTagOf(c) /\ ~LookUpTagAgain(c) /\ ~MakeTag(c)
        BY <2>3, <3>4 DEF Proceed, BeginDetach, EndDetach, TakeLock, RefusePoisoned,
             DropLock, Work, Fail, BeginEdit, EndEdit, Panic, EndPython
      <3> QED BY <3>1, <3>2, <3>3, <3>4
    <2> QED BY <2>1, <2>2, <2>3 DEF LockNext
  <1> QED BY <1>1, <1>2, PTL DEF LockSpec, Spec

(* Hence one string object per qualified name, in any schedule.            *)
THEOREM OneObjectWithLocks == LockSpec => []OneObjectPerTag
  BY ImplementsTagIntern, OneObject, PTL

(* ... and the tag table keeps its types.                                  *)
THEOREM TagTypesWithLocks == LockSpec => []TypeOK
  BY ImplementsTagIntern, TypeCorrect, PTL

-----------------------------------------------------------------------------
(* Deadlock.  The calls in progress are finitely many, so of any set of    *)
(* them one is the last in the order of what they wait for.                *)

LEMMA LeastNatural ==
  ASSUME NEW S \in SUBSET Nat, S # {}
  PROVE  \E x \in S : \A y \in S : x <= y
  <1> DEFINE R == OpToRel(<, Nat)
  <1>1. IsWellFoundedOn(R, Nat)
    BY NatLessThanWellFounded, Zenon
  <1>2. PICK x \in S : \A y \in S : <<y, x>> \notin R
    <2> HIDE DEF R
    <2> QED BY <1>1, WFMin
  <1>3. \A y \in S : ~(y < x)
    BY <1>2 DEF OpToRel
  <1> QED BY <1>3

(* A finite set has a member with the greatest value of f.                 *)
LEMMA Greatest ==
  ASSUME NEW S, IsFiniteSet(S), S # {}, NEW f \in [S -> Int]
  PROVE  \E x \in S : \A y \in S : f[y] <= f[x]
  <1> DEFINE Bad == {T \in SUBSET S : T # {} /\ \A x \in T : \E y \in T : f[x] < f[y]}
             Sizes == {Cardinality(T) : T \in Bad}
  <1>1. \A T \in SUBSET S : IsFiniteSet(T) /\ Cardinality(T) \in Nat
    BY FS_Subset, FS_CardinalityType
  <1>2. SUFFICES ASSUME S \in Bad PROVE FALSE
    <2>1. PICK x \in S : \A y \in S : ~(f[x] < f[y])
      BY <1>2
    <2>2. f[x] \in Int /\ \A y \in S : f[y] \in Int /\ f[y] <= f[x]
      BY <2>1
    <2> QED BY <2>2
  <1>3. Sizes \in SUBSET Nat /\ Sizes # {}
    BY <1>1, <1>2
  <1>4. PICK n \in Sizes : \A k \in Sizes : n <= k
    <2> HIDE DEF Sizes
    <2> QED BY <1>3, LeastNatural
  <1>5. PICK T \in Bad : n = Cardinality(T)
    BY <1>4
  <1>6. PICK x \in T : TRUE
    BY <1>5
  <1> DEFINE U == T \ {x}
  <1>7. PICK y \in T : f[x] < f[y]
    BY <1>5, <1>6
  <1>8. y \in U /\ U \in SUBSET S /\ f[x] \in Int /\ f[y] \in Int
    BY <1>5, <1>6, <1>7
  <1>9. Cardinality(U) < Cardinality(T) /\ Cardinality(U) \in Nat /\ Cardinality(T) \in Nat
    BY <1>1, <1>5, <1>6, <1>8, FS_RemoveElement
  <1>10. U \in Bad
    <2> SUFFICES ASSUME NEW z \in U PROVE \E w \in U : f[z] < f[w]
      BY <1>8
    <2>1. PICK w \in T : f[z] < f[w]
      BY <1>5
    <2>2. f[z] \in Int /\ f[w] \in Int
      BY <1>5, <2>1
    <2>3. CASE w = x
      BY <1>7, <1>8, <2>1, <2>2, <2>3
    <2>4. CASE w # x
      BY <2>1, <2>4
    <2> QED BY <2>3, <2>4
  <1>11. Cardinality(U) \in Sizes
    BY <1>10
  <1> HIDE DEF U, Sizes, Bad
  <1> QED BY <1>4, <1>5, <1>9, <1>11

FewAreActive == IsFiniteSet({c \in Call : Active(c)})

(* Only Begin makes a call active, and one call at a time.                 *)
LEMMA FewMore ==
  ASSUME FewAreActive, LInv, [LockNext]_allVars
  PROVE  FewAreActive'
  <1> DEFINE A == {c \in Call : Active(c)}
             B == {c \in Call : Active(c)'}
  <1>1. B \subseteq A \/ \E c \in Call : B \subseteq A \cup {c}
    <2>1. ASSUME NEW c \in Call, NEW q, rest' = [rest EXCEPT ![c] = q]
          PROVE  B \subseteq A \cup {c}
      BY <2>1 DEF Active, LInv, Base, Typed
    <2>2. ASSUME rest' = rest PROVE B \subseteq A
      BY <2>2 DEF Active
    <2>3. ASSUME NEW c \in Call, Begin(c) PROVE B \subseteq A \cup {c}
      BY <2>1, <2>3 DEF Begin
    <2>4. ASSUME NEW c \in Call, Proceed(c) PROVE B \subseteq A \cup {c}
      <3>1. Advance(c) \/ Bail(c) \/ rest' = rest \/ ReadTagOf(c) \/ LookUpTagAgain(c)
        BY <2>4 DEF Proceed, BeginDetach, EndDetach, TakeLock, RefusePoisoned, DropLock,
             Work, Fail, BeginEdit, EndEdit, Panic, EndPython, MakeTag
      <3>2. rest' = rest \/ \E q : rest' = [rest EXCEPT ![c] = q]
        BY <3>1 DEF Advance, Bail, ReadTagOf, LookUpTagAgain
      <3> QED BY <2>1, <2>2, <3>2
    <2>5. CASE (\E t \in Thread : SwitchOut(t) \/ SwitchIn(t)) \/ UNCHANGED allVars
      BY <2>2, <2>5 DEF SwitchOut, SwitchIn, allVars, lockVars
    <2>6. CASE \E c \in Call : Begin(c) \/ Proceed(c)
      BY <2>3, <2>4, <2>6
    <2> QED BY <2>2, <2>5, <2>6 DEF LockNext
  <1>2. IsFiniteSet(A) /\ \A c \in Call : IsFiniteSet(A \cup {c})
    BY FS_AddElement DEF FewAreActive
  <1>3. IsFiniteSet(B)
    <2> HIDE DEF A, B
    <2> QED BY <1>1, <1>2, FS_Subset
  <1> QED BY <1>3 DEF FewAreActive, Active

(* Who holds a mutex waits only for the holder of a later one; who waits   *)
(* for the GIL waits for a call that holds it and waits for nobody here.   *)
LEMMA SomeoneGoesOn ==
  ASSUME LInv, LockDiscipline, LockTypeOK,
         NEW S \in SUBSET {c \in Call : Active(c)}, IsFiniteSet(S), S # {}
  PROVE  \E c \in S : \A e \in S : ~WaitsFor(c, e)
  <1> SUFFICES ASSUME \A c \in S : \E e \in S : WaitsFor(c, e) PROVE FALSE
    OBVIOUS
  <1>1. \A c \in S : c \in Call /\ Active(c) /\ c[1] \in Thread /\ c[2] \in Int /\ c # NoOne
    OBVIOUS
  <1>2. ASSUME NEW c \in S, At(c, "lock") PROVE Head(rest[c]).m \in Mutex
    BY <1>1, <1>2, Advanced DEF LInv, Base, HoldsWhatItOwes, At, Active
  <1>3. ASSUME NEW c \in S, Innermost(c), NEW e \in S, WaitsFor(c, e)
        PROVE  \/ At(c, "lock") /\ Head(rest[c]).m \in Held(e)
               \/ (At(c, "attach") \/ ~Detached(rest[c])) /\ gil # c[1] /\ gil = e[1] /\ Innermost(e)
    BY <1>1, <1>2, <1>3 DEF WaitsFor, Innermost, Held
  <1> DEFINE H == {c \in S : Held(c) # {}}
  <1>4. CASE H # {}
    <2>1. ASSUME NEW c \in H
          PROVE  At(c, "lock") /\ \E e \in H : Head(rest[c]).m \in Held(e)
      <3>1. Innermost(c) /\ ~At(c, "attach") /\ ~At(c, "python") /\ Active(c)
        BY <1>1 DEF LockDiscipline
      <3>2. gil = c[1] <=> ~Detached(rest[c])
        BY <1>1, <3>1 DEF LockTypeOK
      <3> QED BY <1>3, <3>1, <3>2
    <2>2. ASSUME NEW c \in H
          PROVE  \E e \in H : Head(rest[c]).m < Head(rest[e]).m
      <3>1. PICK e \in H : Head(rest[c]).m \in Held(e)
        BY <2>1
      <3>2. At(e, "lock") /\ e \in Call
        BY <1>1, <2>1
      <3> QED BY <3>1, <3>2 DEF LockDiscipline
    <2> DEFINE f == [c \in H |-> Head(rest[c]).m]
    <2>3. f \in [H -> Int] /\ IsFiniteSet(H)
      BY <1>2, <2>1, MutexInt, FS_Subset
    <2>4. PICK c \in H : \A e \in H : f[e] <= f[c]
      <3> HIDE DEF f, H
      <3> QED BY <1>4, <2>3, Greatest
    <2>5. PICK e \in H : f[c] < f[e]
      BY <2>2
    <2>6. f[c] \in Int /\ f[e] \in Int
      BY <2>3
    <2>7. f[e] <= f[c]
      BY <2>4, <2>5
    <2> HIDE DEF f, H
    <2> QED BY <2>5, <2>6, <2>7
  <1>5. CASE H = {}
    <2>1. ASSUME NEW c \in S PROVE ~Innermost(c)
      <3> SUFFICES ASSUME Innermost(c) PROVE FALSE
        OBVIOUS
      <3>1. PICK e \in S : gil = e[1] /\ Innermost(e)
        BY <1>3, <1>5
      <3>2. PICK d \in S : gil # e[1]
        BY <1>3, <1>5, <3>1
      <3> QED BY <3>1, <3>2
    <2>2. ASSUME NEW c \in S PROVE \E e \in S : c[2] < e[2]
      <3>1. PICK e \in S : WaitsFor(c, e)
        OBVIOUS
      <3>2. ~(At(c, "lock") /\ owner[Head(rest[c]).m] = e)
        BY <1>2, <1>5 DEF Held
      <3>3. ~Innermost(e)
        BY <2>1
      <3>4. e[2] > c[2]
        BY <3>1, <3>2, <3>3 DEF WaitsFor
      <3> QED BY <1>1, <3>4
    <2> DEFINE f == [c \in S |-> c[2]]
    <2>3. f \in [S -> Int]
      BY <1>1
    <2>4. PICK c \in S : \A e \in S : f[e] <= f[c]
      <3> HIDE DEF f
      <3> QED BY <2>3, Greatest
    <2>5. PICK e \in S : c[2] < e[2]
      BY <2>2
    <2>6. f[c] = c[2] /\ f[e] = e[2] /\ c[2] \in Int /\ e[2] \in Int
      BY <1>1
    <2> QED BY <2>4, <2>5, <2>6
  <1> QED BY <1>4, <1>5

(* The wait-for relation has no cycle in any schedule: never does a set of *)
(* calls stand still because each member waits for another one.            *)
THEOREM NoDeadlock == LockSpec => []NoCircularWait
  <1>1. LockInit => FewAreActive
    <2> SUFFICES ASSUME LockInit PROVE FewAreActive
      OBVIOUS
    <2>1. {c \in Call : Active(c)} = {}
      BY DEF LockInit, Active
    <2> QED BY <2>1, FS_EmptySet DEF FewAreActive
  <1>2. LInv /\ FewAreActive /\ [LockNext]_allVars => FewAreActive'
    BY FewMore
  <1>3. LockSpec => []FewAreActive
    BY <1>1, <1>2, LockInvariance, PTL DEF LockSpec
  <1>4. LInv /\ LockDiscipline /\ LockTypeOK /\ FewAreActive => NoCircularWait
    <2> SUFFICES ASSUME LInv, LockDiscipline, LockTypeOK, FewAreActive,
                        NEW S \in SUBSET {c \in Call : Active(c)}, S # {}
                 PROVE  \E c \in S : \A e \in S : ~WaitsFor(c, e)
      BY DEF NoCircularWait
    <2>1. IsFiniteSet(S)
      BY FS_Subset DEF FewAreActive
    <2> QED BY <2>1, SomeoneGoesOn
  <1> QED BY <1>3, <1>4, LockInvariance, LockOrder, LockTypeCorrect, PTL
=============================================================================
