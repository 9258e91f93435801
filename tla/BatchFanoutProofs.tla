-------------------------- MODULE BatchFanoutProofs --------------------------
(***************************************************************************)
(* Proofs about BatchFanout for any number of items, threads and retries,  *)
(* any max_body and any width of it.                                       *)
(*                                                                         *)
(* The inductive invariant FanoutInv adds to the checked invariants what   *)
(* makes them inductive: the counter has passed every index that is in a   *)
(* worker's hands or in a slot, it is beyond the end once a worker has     *)
(* exited (so the join means that every index was claimed), and what a     *)
(* worker is about to store is already sound for the index it holds.       *)
(***************************************************************************)
EXTENDS BatchFanout, FiniteSetTheorems, TLAPS

Exited == {w \in Worker : pc[w] = "exited"}

CounterBounded ==
  /\ next <= NItems + Cardinality(Exited)
  /\ \A w \in Worker : pc[w] = "exited" => next >= NItems

CounterAhead ==
  /\ \A w \in Worker : Busy(w) => item[w] < next
  /\ \A i \in Item : results[i] # NoOutcome => i < next

ScopeOver ==
  /\ main \in {"joined", "wrapup", "returned"} => \A w \in Worker : pc[w] = "exited"
  /\ main = "returned" => answer = results
  /\ main # "returned" => answer = NoOutcome

RetriesLeft ==
  \A w \in Worker :
    /\ pc[w] = "sleeping" => attempt[w] < Retries
    /\ Busy(w) /\ item[w] \in FileItem => pc[w] # "sleeping" /\ attempt[w] = 0

SpawnOrder == \A w \in Worker : w > spawned => pc[w] = "unspawned"

\* What slot i may hold.
Sound(o, i) ==
  /\ o \in Outcome
  /\ o.item = i
  /\ o.kind = "err" /\ i \notin FileItem => o.tries = Retries + 1
  /\ i \in FileItem => o.tries = 1
  /\ i \in FileItem /\ o.kind = "ok" => o.bytes = o.size /\ o.size <= maxBody

OutcomesSound ==
  /\ \A w \in Worker : pc[w] = "storing" => Sound(got[w], item[w])
  /\ \A i \in Item : results[i] # NoOutcome => Sound(results[i], i)

EveryIndexAccounted ==
  \A i \in Item :
    i < next => results[i] # NoOutcome \/ \E w \in Worker : Busy(w) /\ item[w] = i

FanoutInv ==
  /\ TypeOK
  /\ CounterBounded
  /\ CounterAhead
  /\ ScopeOver
  /\ SpawnOrder
  /\ RetriesLeft
  /\ OutcomesSound
  /\ ClaimsAreExclusive
  /\ EveryIndexAccounted

-----------------------------------------------------------------------------
LEMMA ThreadsAreNatural ==
  /\ NThreads \in Nat
  /\ NItems > 0 => NThreads > 0
BY CountsAssumption DEF NThreads

LEMMA ExitedBounded == IsFiniteSet(Exited) /\ Cardinality(Exited) \in 0 .. NThreads
<1>1. IsFiniteSet(Worker) /\ Cardinality(Worker) = NThreads
  BY FS_Interval, ThreadsAreNatural DEF Worker
<1>2. Exited \subseteq Worker
  BY DEF Exited
<1> QED
  BY <1>1, <1>2, FS_Subset, FS_CardinalityType

LEMMA FanoutInit == Init => FanoutInv
<1> SUFFICES ASSUME Init PROVE FanoutInv
  OBVIOUS
<1>1. TypeOK
  <2>1. \A w \in Worker : 0 \in Item
    BY ThreadsAreNatural, CountsAssumption DEF Worker, Item, NThreads
  <2>2. item \in [Worker -> Item]
    BY <2>1 DEF Init
  <2>3. spawned \in 0 .. NThreads /\ next \in 0 .. NItems + NThreads
    BY ThreadsAreNatural, CountsAssumption DEF Init
  <2>4. attempt \in [Worker -> 0 .. Retries]
    BY CountsAssumption DEF Init
  <2>5. /\ got \in [Worker -> Outcome \cup {NoOutcome}]
        /\ results \in [Item -> Outcome \cup {NoOutcome}]
        /\ answer \in [Item -> Outcome \cup {NoOutcome}] \cup {NoOutcome}
    BY Zenon DEF Init
  <2>6. pc \in [Worker -> {"unspawned", "claiming", "trying", "sleeping", "storing", "exited"}]
    BY DEF Init
  <2> QED
    BY <2>2, <2>3, <2>4, <2>5, <2>6 DEF Init, TypeOK
<1>2. CounterBounded
  BY ExitedBounded, ThreadsAreNatural, CountsAssumption DEF Init, CounterBounded
<1> QED
  BY <1>1, <1>2 DEF Init, FanoutInv, CounterAhead, ScopeOver, SpawnOrder, RetriesLeft,
       OutcomesSound, ClaimsAreExclusive, EveryIndexAccounted, Busy, Item

-----------------------------------------------------------------------------
(***************************************************************************)
(* The steps of the calling thread and of the other Python threads leave   *)
(* the workers alone.                                                      *)
(***************************************************************************)
LEMMA WorkersUntouched ==
  ASSUME FanoutInv, UNCHANGED <<workVars, maxBody>>
  PROVE  /\ CounterBounded' /\ CounterAhead' /\ RetriesLeft' /\ OutcomesSound'
         /\ ClaimsAreExclusive' /\ EveryIndexAccounted'
<1> USE DEF FanoutInv, workVars
<1>1. CounterBounded'
  BY DEF CounterBounded, Exited
<1>2. CounterAhead' /\ RetriesLeft'
  BY DEF CounterAhead, RetriesLeft, Busy
<1>3. OutcomesSound'
  BY DEF OutcomesSound, Sound
<1>4. ClaimsAreExclusive' /\ EveryIndexAccounted'
  BY DEF ClaimsAreExclusive, EveryIndexAccounted, Busy
<1> QED
  BY <1>1, <1>2, <1>3, <1>4

\* The calling thread reaches the wrap-up only when every slot is filled.
LEMMA AllFilled ==
  ASSUME FanoutInv, main \in {"wrapup", "returned"}, NEW i \in Item
  PROVE  results[i] # NoOutcome
<1>1. \A w \in Worker : pc[w] = "exited"
  BY DEF FanoutInv, ScopeOver
<1>2. 1 \in Worker
  BY ThreadsAreNatural, CountsAssumption DEF Worker, Item
<1>3. i < next
  BY <1>1, <1>2, CountsAssumption DEF FanoutInv, CounterBounded, Item, TypeOK
<1> QED
  BY <1>1, <1>3 DEF FanoutInv, EveryIndexAccounted, Busy

LEMMA CallerStep ==
  ASSUME FanoutInv,
         Detach \/ Join \/ Reattach \/ WrapUp \/ OthersTake \/ OthersRelease
  PROVE  FanoutInv'
<1>1. UNCHANGED <<workVars, maxBody>>
  BY DEF Detach, Join, Reattach, WrapUp, OthersTake, OthersRelease
<1>2. main = "wrapup" => \A i \in Item : results[i] # NoOutcome
  BY AllFilled
<1>3. TypeOK'
  <2>a. \/ answer' = answer
        \/ answer' = results
        \/ main = "wrapup" /\ answer' = [i \in Item |-> IF results[i] = NoOutcome
                                                        THEN NoResult(i) ELSE results[i]]
    BY DEF Detach, Join, Reattach, WrapUp, OthersTake, OthersRelease
  <2>b. results \in [Item -> Outcome \cup {NoOutcome}]
    BY DEF FanoutInv, TypeOK
  <2>c. answer' = answer \/ answer' = results
    BY <1>2, <2>a, <2>b
  <2>1. answer' \in [Item -> Outcome \cup {NoOutcome}] \cup {NoOutcome}
    BY <2>b, <2>c, Zenon DEF FanoutInv, TypeOK
  <2>2. /\ main' \in {"attached", "scope", "joined", "wrapup", "returned"}
        /\ others' \in BOOLEAN
        /\ spawned' = spawned
    BY DEF FanoutInv, TypeOK, Detach, Join, Reattach, WrapUp, OthersTake, OthersRelease
  <2> QED
    BY <1>1, <2>1, <2>2 DEF FanoutInv, TypeOK, workVars
<1>4. ScopeOver'
  <2>1. main' \in {"joined", "wrapup", "returned"} => \A w \in Worker : pc[w] = "exited"
    <3>1. CASE Detach
      BY <3>1, CountsAssumption DEF Detach, Worker, NThreads
    <3> QED
      BY <3>1 DEF FanoutInv, ScopeOver, Join, Reattach, WrapUp, OthersTake, OthersRelease
  <2>2. WrapUp => answer' = results
    BY <1>2 DEF FanoutInv, TypeOK, WrapUp
  <2>3. main' = "returned" => answer' = results
    BY <2>2 DEF FanoutInv, ScopeOver, Detach, Join, Reattach, WrapUp, OthersTake, OthersRelease
  <2>4. main' # "returned" => answer' = NoOutcome
    BY DEF FanoutInv, ScopeOver, Detach, Join, Reattach, WrapUp, OthersTake, OthersRelease
  <2> QED
    BY <1>1, <2>1, <2>3, <2>4 DEF ScopeOver, workVars
<1>5. SpawnOrder'
  BY <1>1 DEF FanoutInv, SpawnOrder, workVars, Detach, Join, Reattach, WrapUp, OthersTake,
              OthersRelease
<1> QED
  BY <1>1, <1>3, <1>4, <1>5, WorkersUntouched DEF FanoutInv

(***************************************************************************)
(* A worker that has been spawned shows that the call is in its scope.     *)
(***************************************************************************)
LEMMA ScopeOpen ==
  ASSUME FanoutInv, NEW w \in Worker, pc[w] # "exited", UNCHANGED <<main, answer>>
  PROVE  /\ main \notin {"joined", "wrapup", "returned"}
         /\ ScopeOver'
BY DEF FanoutInv, ScopeOver

LEMMA SpawnStep ==
  ASSUME FanoutInv, NEW w \in Worker, Spawn(w)
  PROVE  FanoutInv'
<1> USE DEF FanoutInv, Spawn
<1>p. pc \in [Worker -> {"unspawned", "claiming", "trying", "sleeping", "storing", "exited"}]
  BY DEF TypeOK
<1>1. pc[w] = "unspawned"
  BY ThreadsAreNatural DEF SpawnOrder, TypeOK, Worker
<1>2. \A v \in Worker : /\ pc'[v] = pc[v] \/ (v = w /\ pc'[v] = "claiming")
                        /\ Busy(v)' <=> Busy(v)
  BY <1>p, <1>1 DEF Busy
<1>3. TypeOK'
  BY <1>p, ThreadsAreNatural DEF TypeOK, Worker
<1>4. CounterBounded'
  <2>1. Exited' = Exited
    BY <1>p, <1>1 DEF Exited
  <2> QED
    BY <1>2, <2>1 DEF CounterBounded
<1>5. CounterAhead' /\ RetriesLeft'
  BY <1>1, <1>2 DEF CounterAhead, RetriesLeft
<1>6. ScopeOver'
  BY <1>1, ScopeOpen
<1>7. SpawnOrder'
  BY <1>p, <1>2, ThreadsAreNatural DEF SpawnOrder, TypeOK, Worker
<1>8. OutcomesSound'
  BY <1>2 DEF OutcomesSound, Sound
<1>9. ClaimsAreExclusive' /\ EveryIndexAccounted'
  BY <1>2 DEF ClaimsAreExclusive, EveryIndexAccounted
<1> QED
  BY <1>3, <1>4, <1>5, <1>6, <1>7, <1>8, <1>9

(***************************************************************************)
(* Claiming: either the counter is beyond the end and the worker exits, or *)
(* the index is one nobody has claimed before.                             *)
(***************************************************************************)
LEMMA ClaimStep ==
  ASSUME FanoutInv, NEW w \in Worker, Claim(w)
  PROVE  FanoutInv'
<1> USE DEF FanoutInv, Claim, MovedOn
<1>p. /\ pc \in [Worker -> {"unspawned", "claiming", "trying", "sleeping", "storing", "exited"}]
      /\ item \in [Worker -> Item]
      /\ attempt \in [Worker -> 0 .. Retries]
      /\ next \in Nat
      /\ NItems \in Nat
  BY ThreadsAreNatural, CountsAssumption DEF TypeOK
<1>e. /\ IsFiniteSet(Exited) /\ Cardinality(Exited) \in 0 .. NThreads
      /\ Cardinality(Exited') \in 0 .. NThreads
  <2>1. Exited' \subseteq Worker
    BY DEF Exited
  <2>2. IsFiniteSet(Worker) /\ Cardinality(Worker) = NThreads
    BY FS_Interval, ThreadsAreNatural DEF Worker
  <2> QED
    BY <2>1, <2>2, ExitedBounded, FS_Subset, FS_CardinalityType
<1>1. CASE next >= NItems
  <2>1. /\ pc' = [pc EXCEPT ![w] = "exited"] /\ next' = next + 1
        /\ UNCHANGED <<main, spawned, item, attempt, got, results, answer, maxBody>>
    BY <1>1
  <2>2. \A v \in Worker : /\ pc'[v] = pc[v] \/ (v = w /\ pc'[v] = "exited")
                          /\ Busy(v)' <=> Busy(v)
    BY <1>p, <2>1 DEF Busy
  <2>3. CounterBounded'
    <3>1. Exited' = Exited \cup {w} /\ w \notin Exited
      BY <1>p, <2>1 DEF Exited
    <3>2. Cardinality(Exited') = Cardinality(Exited) + 1
      BY <1>e, <3>1, FS_AddElement
    <3> QED
      BY <1>1, <1>p, <1>e, <2>1, <2>2, <3>2 DEF CounterBounded
  <2>4. TypeOK'
    <3>1. next' \in 0 .. NItems + NThreads
      BY <1>p, <1>e, <2>1, <2>3, ThreadsAreNatural DEF CounterBounded
    <3> QED
      BY <1>p, <2>1, <3>1 DEF TypeOK
  <2>5. CounterAhead' /\ RetriesLeft'
    BY <1>p, <2>1, <2>2 DEF CounterAhead, RetriesLeft, Item
  <2>6. ScopeOver'
    BY ScopeOpen
  <2>7. SpawnOrder'
    BY <1>p, <2>1, <2>2 DEF SpawnOrder
  <2>8. OutcomesSound'
    BY <2>1, <2>2 DEF OutcomesSound, Sound
  <2>9. ClaimsAreExclusive'
    BY <2>1, <2>2 DEF ClaimsAreExclusive
  <2>10. EveryIndexAccounted'
    BY <1>1, <1>p, <2>1, <2>2 DEF EveryIndexAccounted, Item
  <2> QED
    BY <2>3, <2>4, <2>5, <2>6, <2>7, <2>8, <2>9, <2>10
<1>2. CASE ~(next >= NItems)
  <2>1. /\ pc' = [pc EXCEPT ![w] = "trying"] /\ next' = next + 1
        /\ item' = [item EXCEPT ![w] = next]
        /\ attempt' = [attempt EXCEPT ![w] = 0]
        /\ next \in Item
        /\ UNCHANGED <<main, spawned, got, results, answer, maxBody>>
    BY <1>2, <1>p DEF Item
  <2>2. \A v \in Worker :
          \/ /\ v # w /\ pc'[v] = pc[v] /\ item'[v] = item[v] /\ attempt'[v] = attempt[v]
             /\ Busy(v)' <=> Busy(v)
          \/ /\ v = w /\ pc'[v] = "trying" /\ item'[v] = next /\ attempt'[v] = 0
             /\ ~Busy(v) /\ Busy(v)'
    BY <1>p, <2>1 DEF Busy
  <2>3. CounterBounded'
    BY <1>2, <1>p, <1>e, <2>1, <2>2 DEF CounterBounded
  <2>4. TypeOK'
    <3>1. next' \in 0 .. NItems + NThreads
      BY <1>2, <1>p, <2>1, ThreadsAreNatural
    <3> QED
      BY <1>p, <2>1, <3>1, CountsAssumption DEF TypeOK
  <2>5. CounterAhead' /\ RetriesLeft'
    BY <1>p, <2>1, <2>2 DEF CounterAhead, RetriesLeft, Item
  <2>6. ScopeOver'
    BY ScopeOpen
  <2>7. SpawnOrder'
    BY <1>p, <2>1, <2>2 DEF SpawnOrder
  <2>8. OutcomesSound'
    BY <2>1, <2>2 DEF OutcomesSound, Sound
  <2>9. ClaimsAreExclusive'
    BY <1>p, <2>1, <2>2 DEF ClaimsAreExclusive, CounterAhead, Item
  <2>10. EveryIndexAccounted'
    BY <1>p, <2>1, <2>2 DEF EveryIndexAccounted, Item
  <2> QED
    BY <2>3, <2>4, <2>5, <2>6, <2>7, <2>8, <2>9, <2>10
<1> QED
  BY <1>1, <1>2

(***************************************************************************)
(* Moving on with the same item: from trying to sleeping or storing, and   *)
(* back from sleeping to trying.                                           *)
(***************************************************************************)
LEMMA KeepItem ==
  ASSUME FanoutInv, NEW w \in Worker, Busy(w),
         NEW to \in {"trying", "sleeping", "storing"},
         pc' = [pc EXCEPT ![w] = to],
         attempt' \in [Worker -> 0 .. Retries],
         got' \in [Worker -> Outcome \cup {NoOutcome}],
         \A v \in Worker \ {w} : attempt'[v] = attempt[v] /\ got'[v] = got[v],
         to = "sleeping" => attempt'[w] < Retries,
         item[w] \in FileItem => to # "sleeping" /\ attempt'[w] = 0,
         NEW o, to = "storing" => got'[w] = o /\ Sound(o, item[w]),
         UNCHANGED <<main, others, spawned, next, item, results, answer, maxBody>>
  PROVE  FanoutInv'
<1> USE DEF FanoutInv
<1>p. pc \in [Worker -> {"unspawned", "claiming", "trying", "sleeping", "storing", "exited"}]
  BY DEF TypeOK
<1>q. pc'[w] = to
  BY <1>p
<1>1. \A v \in Worker : /\ v # w => pc'[v] = pc[v]
                        /\ v = w => pc'[v] = to
                        /\ Busy(v)' <=> Busy(v)
  BY <1>p DEF Busy
<1>2. TypeOK'
  BY <1>p DEF TypeOK
<1>3. CounterBounded'
  <2>1. Exited' = Exited
    BY <1>p DEF Exited, Busy
  <2> QED
    BY <1>1, <2>1 DEF CounterBounded
<1>4. CounterAhead'
  BY <1>1 DEF CounterAhead, Busy
<1>5. ScopeOver'
  BY ScopeOpen DEF Busy
<1>6. SpawnOrder'
  BY <1>1 DEF SpawnOrder, Busy
<1>7. RetriesLeft'
  <2> SUFFICES ASSUME NEW v \in Worker
               PROVE  /\ pc'[v] = "sleeping" => attempt'[v] < Retries
                      /\ Busy(v)' /\ item[v] \in FileItem =>
                           pc'[v] # "sleeping" /\ attempt'[v] = 0
    BY DEF RetriesLeft
  <2>1. CASE v = w
    <3>1. pc'[v] = to /\ attempt'[v] = attempt'[w] /\ item[v] = item[w]
      BY <1>q, <2>1 DEF Busy
    <3> QED
      BY <3>1 DEF Busy
  <2>2. CASE v # w
    <3>1. pc'[v] = pc[v] /\ attempt'[v] = attempt[v] /\ (Busy(v)' <=> Busy(v))
      BY <1>1, <2>2 DEF Busy
    <3> QED
      BY <3>1 DEF RetriesLeft, Busy
  <2> QED
    BY <2>1, <2>2
<1>8. OutcomesSound'
  <2>1. ASSUME NEW v \in Worker, pc'[v] = "storing"
        PROVE  Sound(got'[v], item[v])
    <3>1. CASE v = w
      <4>1. to = "storing" /\ got'[v] = got'[w] /\ item[v] = item[w]
        BY <1>q, <2>1, <3>1 DEF Busy
      <4> QED
        BY <4>1 DEF Busy
    <3>2. CASE v # w
      BY <1>1, <2>1, <3>2 DEF OutcomesSound
    <3> QED
      BY <3>1, <3>2
  <2> QED
    BY <2>1 DEF OutcomesSound, Sound
<1>9. ClaimsAreExclusive' /\ EveryIndexAccounted'
  BY <1>1 DEF ClaimsAreExclusive, EveryIndexAccounted, Busy
<1> QED
  BY <1>2, <1>3, <1>4, <1>5, <1>6, <1>7, <1>8, <1>9

LEMMA WakeStep ==
  ASSUME FanoutInv, NEW w \in Worker, Wake(w)
  PROVE  FanoutInv'
<1>1. attempt[w] < Retries /\ item[w] \notin FileItem
  BY DEF FanoutInv, RetriesLeft, Wake, Busy
<1>2. attempt' \in [Worker -> 0 .. Retries]
  BY <1>1, CountsAssumption DEF FanoutInv, TypeOK, Wake, AttemptCounted
<1>3. got' \in [Worker -> Outcome \cup {NoOutcome}]
  BY DEF FanoutInv, TypeOK, Wake
<1> QED
  BY <1>1, <1>2, <1>3, KeepItem DEF Wake, AttemptCounted, Busy

(***************************************************************************)
(* Coming to an outcome: a worker that is trying has it in hand.           *)
(***************************************************************************)
LEMMA GotSound ==
  ASSUME FanoutInv, NEW w \in Worker, pc[w] = "trying",
         NEW o, Sound(o, item[w]),
         got' = [got EXCEPT ![w] = o], pc' = [pc EXCEPT ![w] = "storing"],
         UNCHANGED <<main, others, spawned, next, item, attempt, results, answer, maxBody>>
  PROVE  FanoutInv'
<1>1. got' \in [Worker -> Outcome \cup {NoOutcome}] /\ got'[w] = o
  BY DEF FanoutInv, TypeOK, Sound
<1>2. attempt' \in [Worker -> 0 .. Retries]
  BY DEF FanoutInv, TypeOK
<1>3. item[w] \in FileItem => attempt'[w] = 0
  BY DEF FanoutInv, RetriesLeft, Busy
<1>4. \A v \in Worker \ {w} : attempt'[v] = attempt[v] /\ got'[v] = got[v]
  BY DEF FanoutInv, TypeOK
<1> QED
  BY <1>1, <1>2, <1>3, <1>4, KeepItem DEF Busy

LEMMA FinishStep ==
  ASSUME FanoutInv, NEW w \in Worker, Finish(w)
  PROVE  FanoutInv'
<1>t. /\ item[w] \in Item /\ attempt[w] \in 0 .. Retries /\ maxBody \in 0 .. UMax
      /\ pc[w] = "trying" /\ item[w] \in FileItem => attempt[w] = 0
  BY DEF FanoutInv, TypeOK, RetriesLeft, Busy
<1>o. ASSUME NEW kind \in {"ok", "err", "panic"}, NEW size \in 0 .. UMax, NEW bytes \in 0 .. UMax
      PROVE  /\ OutcomeOf(w, kind, size, bytes) \in Outcome
             /\ OutcomeOf(w, kind, size, bytes).item = item[w]
             /\ OutcomeOf(w, kind, size, bytes).kind = kind
             /\ OutcomeOf(w, kind, size, bytes).tries = attempt[w] + 1
             /\ OutcomeOf(w, kind, size, bytes).size = size
             /\ OutcomeOf(w, kind, size, bytes).bytes = bytes
  BY <1>t, CountsAssumption DEF OutcomeOf, Outcome
<1>z. 0 \in 0 .. UMax
  BY CountsAssumption
<1>1. CASE Succeed(w)
  <2>1. Sound(OutcomeOf(w, "ok", 0, 0), item[w])
    BY <1>1, <1>t, <1>o, <1>z DEF Sound, Succeed
  <2> QED
    BY <1>1, <2>1, GotSound DEF Succeed, Got
<1>2. CASE Fail(w)
  <2>1. CASE MayRetry(w)
    <3>1. /\ attempt' \in [Worker -> 0 .. Retries] /\ attempt'[w] < Retries
          /\ got' \in [Worker -> Outcome \cup {NoOutcome}]
          /\ item[w] \notin FileItem
      BY <1>2, <2>1 DEF FanoutInv, TypeOK, Fail, MayRetry
    <3> QED
      BY <1>2, <2>1, <3>1, KeepItem DEF Fail, Busy
  <2>2. CASE ~MayRetry(w)
    <3>1. attempt[w] = Retries
      BY <1>t, <2>2, CountsAssumption DEF MayRetry
    <3>2. Sound(OutcomeOf(w, "err", 0, 0), item[w])
      BY <1>2, <1>t, <1>o, <1>z, <3>1 DEF Sound, Fail
    <3> QED
      BY <1>2, <2>2, <3>2, GotSound DEF Fail, Got
  <2> QED
    BY <2>1, <2>2
<1>3. CASE FailFile(w)
  <2>1. Sound(OutcomeOf(w, "err", 0, 0), item[w])
    BY <1>3, <1>t, <1>o, <1>z DEF Sound, FailFile
  <2> QED
    BY <1>3, <2>1, GotSound DEF FailFile, Got
<1>4. CASE Panic(w)
  <2>1. Sound(OutcomeOf(w, "panic", 0, 0), item[w])
    BY <1>4, <1>t, <1>o, <1>z DEF Sound, Panic
  <2> QED
    BY <1>4, <2>1, GotSound DEF Panic, PanicCaught
<1>5. ASSUME NEW size \in 0 .. UMax, ReadFile(w, size)
      PROVE  FanoutInv'
  <2> DEFINE bytes == ReadLength(size, maxBody)
  <2>1. /\ bytes \in Nat
        /\ bytes <= maxBody => bytes = size
    BY <1>t, CountsAssumption DEF ReadLength
  <2>2. CASE bytes > maxBody
    <3>1. Sound(OutcomeOf(w, "err", size, 0), item[w])
      BY <1>5, <1>t, <1>o, <1>z DEF Sound, ReadFile
    <3> QED
      BY <1>5, <2>2, <3>1, GotSound DEF ReadFile, Got
  <2>3. CASE ~(bytes > maxBody)
    <3>1. bytes = size /\ size <= maxBody
      BY <1>t, <2>1, <2>3, CountsAssumption
    <3>2. Sound(OutcomeOf(w, "ok", size, bytes), item[w])
      BY <1>5, <1>t, <1>o, <3>1 DEF Sound, ReadFile
    <3> QED
      BY <1>5, <2>3, <3>2, GotSound DEF ReadFile, Got
  <2> QED
    BY <2>2, <2>3
<1> QED
  BY <1>1, <1>2, <1>3, <1>4, <1>5 DEF Finish

(***************************************************************************)
(* Storing: the slot is empty before, and the outcome is its item's.       *)
(***************************************************************************)
LEMMA StoreStep ==
  ASSUME FanoutInv, NEW w \in Worker, Store(w)
  PROVE  /\ FanoutInv'
         /\ results[item[w]] = NoOutcome
         /\ results' = [results EXCEPT ![item[w]] = got[w]]
         /\ Sound(got[w], item[w]) /\ got[w] # NoOutcome
<1> USE DEF FanoutInv, Store, StoreSlot
<1>p. /\ pc \in [Worker -> {"unspawned", "claiming", "trying", "sleeping", "storing", "exited"}]
      /\ item \in [Worker -> Item]
      /\ results \in [Item -> Outcome \cup {NoOutcome}]
  BY DEF TypeOK
<1>1. Sound(got[w], item[w]) /\ got[w] # NoOutcome /\ Busy(w) /\ results[item[w]] = NoOutcome
  BY NoOutcomeAssumption DEF OutcomesSound, Sound, ClaimsAreExclusive, Busy
<1>2. \A v \in Worker :
        \/ v # w /\ pc'[v] = pc[v] /\ got'[v] = got[v] /\ (Busy(v)' <=> Busy(v))
        \/ v = w /\ pc'[v] = "claiming" /\ ~Busy(v)'
  BY <1>p DEF Busy, TypeOK
<1>3. \A i \in Item : results'[i] = IF i = item[w] THEN got[w] ELSE results[i]
  BY <1>p
<1>4. TypeOK'
  <2>1. results' \in [Item -> Outcome \cup {NoOutcome}]
    BY <1>1, <1>p DEF Sound
  <2>2. got' \in [Worker -> Outcome \cup {NoOutcome}]
    BY DEF TypeOK
  <2> QED
    BY <1>p, <2>1, <2>2 DEF TypeOK
<1>5. CounterBounded'
  <2>1. Exited' = Exited
    BY <1>p DEF Exited
  <2> QED
    BY <1>2, <2>1 DEF CounterBounded
<1>6. CounterAhead'
  BY <1>1, <1>2, <1>3, <1>p DEF CounterAhead
<1>7. ScopeOver'
  BY ScopeOpen DEF ScopeOver
<1>8. SpawnOrder'
  BY <1>2 DEF SpawnOrder
<1>9. RetriesLeft'
  BY <1>2 DEF RetriesLeft
<1>10. OutcomesSound'
  BY <1>1, <1>2, <1>3 DEF OutcomesSound, Sound
<1>11. ClaimsAreExclusive'
  BY <1>1, <1>2, <1>3, <1>p DEF ClaimsAreExclusive
<1>12. EveryIndexAccounted'
  BY <1>1, <1>2, <1>3, <1>p DEF EveryIndexAccounted
<1> QED
  BY <1>1, <1>4, <1>5, <1>6, <1>7, <1>8, <1>9, <1>10, <1>11, <1>12

LEMMA FanoutStep == FanoutInv /\ [Next]_vars => FanoutInv'
<1> SUFFICES ASSUME FanoutInv, [Next]_vars PROVE FanoutInv'
  OBVIOUS
<1>1. CASE Detach \/ Join \/ Reattach \/ WrapUp \/ OthersTake \/ OthersRelease
  BY <1>1, CallerStep
<1>2. ASSUME NEW w \in Worker, Spawn(w) PROVE FanoutInv'
  BY <1>2, SpawnStep
<1>3. ASSUME NEW w \in Worker, Work(w) PROVE FanoutInv'
  BY <1>3, ClaimStep, FinishStep, WakeStep, StoreStep DEF Work
<1>4. CASE UNCHANGED vars
  <2>1. UNCHANGED <<workVars, maxBody>> /\ UNCHANGED <<main, others, spawned, answer>>
    BY <1>4 DEF vars, workVars
  <2>2. TypeOK' /\ ScopeOver' /\ SpawnOrder'
    BY <2>1 DEF FanoutInv, TypeOK, ScopeOver, SpawnOrder, workVars
  <2> QED
    BY <2>1, <2>2, WorkersUntouched DEF FanoutInv
<1> QED
  BY <1>1, <1>2, <1>3, <1>4 DEF Next

(***************************************************************************)
(* The inductive invariant holds in every state of every fan-out.          *)
(***************************************************************************)
THEOREM Invariance == SafetySpec => []FanoutInv
BY FanoutInit, FanoutStep, PTL DEF SafetySpec

(***************************************************************************)
(* The state of the call, its workers and its counter keeps its types: in  *)
(* particular next never runs more than NThreads past the end.             *)
(***************************************************************************)
THEOREM TypeCorrect == SafetySpec => []TypeOK
<1>1. FanoutInv => TypeOK
  BY DEF FanoutInv
<1> QED
  BY <1>1, Invariance, PTL

(***************************************************************************)
(* The shared index hands every item to one worker and once.               *)
(***************************************************************************)
THEOREM Exclusive == SafetySpec => []ClaimsAreExclusive
<1>1. FanoutInv => ClaimsAreExclusive
  BY DEF FanoutInv
<1> QED
  BY <1>1, Invariance, PTL

(***************************************************************************)
(* No item is dropped between the counter and the slots, and none is       *)
(* missing when the slots are wrapped up.                                  *)
(***************************************************************************)
THEOREM NothingLost == SafetySpec => []NoItemLost
<1>1. FanoutInv => NoItemLost
  BY AllFilled DEF FanoutInv, EveryIndexAccounted, NoItemLost
<1> QED
  BY <1>1, Invariance, PTL

(***************************************************************************)
(* Every item is worked on by one worker and once.                         *)
(***************************************************************************)
THEOREM EachOnce == SafetySpec => []EachItemOnce
<1>1. ClaimsAreExclusive /\ NoItemLost => EachItemOnce
  BY DEF EachItemOnce
<1> QED
  BY <1>1, Exclusive, NothingLost, PTL

(***************************************************************************)
(* The returned list is index-aligned with the input.                      *)
(***************************************************************************)
THEOREM Aligned == SafetySpec => []SlotsAligned
<1>1. FanoutInv => SlotsAligned
  BY DEF FanoutInv, OutcomesSound, Sound, ScopeOver, SlotsAligned
<1> QED
  BY <1>1, Invariance, PTL

(***************************************************************************)
(* An error of a URL is reported after Retries + 1 attempts and no fewer.  *)
(***************************************************************************)
THEOREM ErrorsFinal == SafetySpec => []ErrorsAreFinal
<1>1. FanoutInv => ErrorsAreFinal
  BY DEF FanoutInv, OutcomesSound, Sound, ErrorsAreFinal
<1> QED
  BY <1>1, Invariance, PTL

(***************************************************************************)
(* File bodies are whole or refused for every width of max_body.           *)
(***************************************************************************)
THEOREM BodiesWhole == SafetySpec => []BodiesWholeOrRefused
<1>1. FanoutInv => BodiesWholeOrRefused
  BY FileItemAssumption DEF FanoutInv, OutcomesSound, Sound, BodiesWholeOrRefused
<1> QED
  BY <1>1, Invariance, PTL

(***************************************************************************)
(* Every step of the fan-out is a step of the abstract batch or changes    *)
(* nothing the caller can see: the safety part of ImplementsBatch.         *)
(***************************************************************************)
THEOREM ImplementsBatchSafety == SafetySpec => Promise!Init /\ [][Promise!Next]_Promise!vars
<1>1. Init => Promise!Init
  BY DEF Init, Promise!Init, Item, Promise!Item
<1>2. FanoutInv /\ [Next]_vars => [Promise!Next]_Promise!vars
  <2> SUFFICES ASSUME FanoutInv, [Next]_vars
               PROVE  Promise!Next \/ UNCHANGED <<results, answer>>
    BY DEF Promise!vars
  <2>1. CASE Detach
    <3>1. answer = NoOutcome
      BY <2>1 DEF FanoutInv, ScopeOver, Detach
    <3> QED
      BY <2>1, <3>1, CountsAssumption
      DEF Detach, workVars, Promise!Next, Promise!Return, Promise!Item
  <2>2. CASE WrapUp
    <3>1. answer = NoOutcome /\ \A i \in Item : results[i] # NoOutcome
      BY <2>2, AllFilled DEF FanoutInv, ScopeOver, WrapUp
    <3>2. answer' = results
      BY <2>2, <3>1 DEF WrapUp, FanoutInv, TypeOK
    <3> QED
      BY <2>2, <3>1, <3>2 DEF WrapUp, workVars, Promise!Next, Promise!Return, Item, Promise!Item
  <2>3. ASSUME NEW w \in Worker, Store(w)
        PROVE  Promise!Next
    <3>1. /\ item[w] \in Item
          /\ results[item[w]] = NoOutcome
          /\ got[w] \in Outcome /\ got[w].item = item[w]
          /\ results' = [results EXCEPT ![item[w]] = got[w]]
          /\ answer' = answer
      BY <2>3, StoreStep DEF FanoutInv, TypeOK, Sound, Store
    <3>2. Promise!Resolve(item[w])
      BY <3>1 DEF Promise!Resolve
    <3> QED
      BY <3>1, <3>2 DEF Promise!Next, Item, Promise!Item
  <2>4. ASSUME NEW w \in Worker, Spawn(w) \/ Claim(w) \/ Finish(w) \/ Wake(w)
        PROVE  UNCHANGED <<results, answer>>
    BY <2>4 DEF Spawn, Claim, Finish, Wake, Succeed, Fail, FailFile, Panic, ReadFile, Got
  <2>5. CASE Join \/ Reattach \/ OthersTake \/ OthersRelease \/ UNCHANGED vars
    BY <2>5 DEF Join, Reattach, OthersTake, OthersRelease, vars, workVars
  <2> QED
    BY <2>1, <2>2, <2>3, <2>4, <2>5 DEF Next, Work
<1> QED
  BY <1>1, <1>2, Invariance, PTL DEF SafetySpec
=============================================================================
