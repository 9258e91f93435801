----------------------------- MODULE BatchFanout -----------------------------
(***************************************************************************)
(* The scoped-thread fan-out of parse_many and fetch_batch, and the retry  *)
(* loop of fetch_one that runs in it (src/src/lib.rs).                     *)
(*                                                                         *)
(* The calling Python thread releases the GIL, spawns the workers, joins   *)
(* them at the end of the scope, takes the GIL back and wraps the slots    *)
(* into the list it returns.  Each worker claims the next index from a     *)
(* shared atomic counter, works on that item and stores the outcome in its *)
(* slot.  A panic in the work is caught and becomes the item's outcome.    *)
(*                                                                         *)
(* parse_many is the case Retries = 0.  A "file://" item is read in one    *)
(* attempt and never retried; its body is modelled, with max_body as the   *)
(* fixed-width integer it is.  Elapsed time is not modelled: the sleep of  *)
(* the backoff is a state a worker eventually leaves.                      *)
(***************************************************************************)
EXTENDS Naturals, FiniteSets

CONSTANTS
  NItems,      \* items.len()
  MaxThreads,  \* max_threads, 0 when it is None or 0
  Cpus,        \* available_parallelism()
  Retries,     \* opts.retries
  FileItem,    \* The items whose URL starts with file://
  UMax,        \* u64::MAX
  NoOutcome    \* An empty slot.

ASSUME CountsAssumption ==
  /\ NItems \in Nat /\ MaxThreads \in Nat /\ Retries \in Nat /\ UMax \in Nat
  /\ Cpus \in Nat \ {0}

Item == 0 .. NItems - 1

ASSUME FileItemAssumption == FileItem \subseteq Item

NThreads ==
  LET wanted == IF MaxThreads > 0 THEN MaxThreads ELSE Cpus
  IN  IF wanted < NItems THEN wanted ELSE NItems

Worker == 1 .. NThreads

\* An item's outcome.  "tries" counts the attempts made, "size" is the true
\* length of a file (0 otherwise): both only tell outcomes apart.
Outcome == [ item  : Item,
             kind  : {"ok", "err", "panic"},
             tries : 1 .. Retries + 1,
             size  : 0 .. UMax,
             bytes : 0 .. UMax ]

ASSUME NoOutcomeAssumption ==
  /\ NoOutcome \notin Outcome
  /\ NoOutcome \notin [Item -> Outcome \cup {NoOutcome}]

VARIABLES
  main,     \* where the calling thread is
  others,   \* some other Python thread holds the GIL
  spawned,  \* how many workers the scope has spawned
  next,     \* the shared atomic index
  pc,       \* pc[w]: where worker w is in its loop
  item,     \* item[w]: the index it claimed last
  attempt,  \* attempt[w]: fetch_one's attempt
  got,      \* got[w]: the outcome it is about to store
  results,  \* results[i]: the slot of item i
  answer,   \* the returned list, NoOutcome until then
  maxBody   \* opts.max_body, chosen by the caller

workVars == <<next, pc, item, attempt, got, results>>
vars == <<main, others, spawned, next, pc, item, attempt, got, results, answer, maxBody>>

TypeOK ==
  /\ main \in {"attached", "scope", "joined", "wrapup", "returned"}
  /\ others \in BOOLEAN
  /\ spawned \in 0 .. NThreads
  /\ next \in 0 .. NItems + NThreads
  /\ pc \in [Worker -> {"unspawned", "claiming", "trying", "sleeping", "storing", "exited"}]
  /\ item \in [Worker -> Item]
  /\ attempt \in [Worker -> 0 .. Retries]
  /\ got \in [Worker -> Outcome \cup {NoOutcome}]
  /\ results \in [Item -> Outcome \cup {NoOutcome}]
  /\ answer \in [Item -> Outcome \cup {NoOutcome}] \cup {NoOutcome}
  /\ maxBody \in 0 .. UMax

Init ==
  /\ main = "attached"
  /\ others = FALSE
  /\ spawned = 0
  /\ next = 0
  /\ pc = [w \in Worker |-> "unspawned"]
  /\ item = [w \in Worker |-> 0]
  /\ attempt = [w \in Worker |-> 0]
  /\ got = [w \in Worker |-> NoOutcome]
  /\ results = [i \in Item |-> NoOutcome]
  /\ answer = NoOutcome
  /\ maxBody \in 0 .. UMax

-----------------------------------------------------------------------------
(***************************************************************************)
(* The calling thread.                                                     *)
(***************************************************************************)

\* An empty batch returns at once; any other releases the GIL.
Detach ==
  /\ main = "attached"
  /\ IF NItems = 0
     THEN main' = "returned" /\ answer' = results
     ELSE main' = "scope" /\ answer' = answer
  /\ UNCHANGED <<others, spawned, workVars, maxBody>>

Spawn(w) ==
  /\ main = "scope"
  /\ w = spawned + 1
  /\ spawned' = w
  /\ pc' = [pc EXCEPT ![w] = "claiming"]
  /\ UNCHANGED <<main, others, next, item, attempt, got, results, answer, maxBody>>

\* The end of thread::scope joins every worker.
Join ==
  /\ main = "scope"
  /\ spawned = NThreads
  /\ \A w \in Worker : pc[w] = "exited"
  /\ main' = "joined"
  /\ UNCHANGED <<others, spawned, workVars, answer, maxBody>>

Reattach ==
  /\ main = "joined"
  /\ ~others
  /\ main' = "wrapup"
  /\ UNCHANGED <<others, spawned, workVars, answer, maxBody>>

\* An unfilled slot becomes that item's error ("no result").
NoResult(i) == [item |-> i, kind |-> "panic", tries |-> 1, size |-> 0, bytes |-> 0]

WrapUp ==
  /\ main = "wrapup"
  /\ answer' = [i \in Item |-> IF results[i] = NoOutcome THEN NoResult(i) ELSE results[i]]
  /\ main' = "returned"
  /\ UNCHANGED <<others, spawned, workVars, maxBody>>

\* The other Python threads take the GIL and give it back.
OthersTake ==
  /\ ~others
  /\ main \notin {"attached", "wrapup"}
  /\ others' = TRUE
  /\ UNCHANGED <<main, spawned, workVars, answer, maxBody>>

OthersRelease ==
  /\ others
  /\ others' = FALSE
  /\ UNCHANGED <<main, spawned, workVars, answer, maxBody>>

-----------------------------------------------------------------------------
(***************************************************************************)
(* A worker.                                                               *)
(***************************************************************************)

\* next.fetch_add(1): one atomic step reads the index and moves it on.
MovedOnNever(n) == n   \* mutant: a load, without the add
MovedOn(n) == n + 1

Claim(w) ==
  /\ pc[w] = "claiming"
  /\ next' = MovedOn(next)
  /\ IF next >= NItems
     THEN /\ pc' = [pc EXCEPT ![w] = "exited"]
          /\ UNCHANGED <<item, attempt>>
     ELSE /\ pc' = [pc EXCEPT ![w] = "trying"]
          /\ item' = [item EXCEPT ![w] = next]
          /\ attempt' = [attempt EXCEPT ![w] = 0]
  /\ UNCHANGED <<main, others, spawned, got, results, answer, maxBody>>

OutcomeOf(w, kind, size, bytes) ==
  [item |-> item[w], kind |-> kind, tries |-> attempt[w] + 1, size |-> size, bytes |-> bytes]

\* fetch_batch with a per_item that passes fetch_one's outcome on, as fetch_many
\* has it.  fetch_and_parse_many's own per_item turns a bad status or a body
\* that does not parse into an error of the item.
Got(w, o) ==
  /\ got' = [got EXCEPT ![w] = o]
  /\ pc' = [pc EXCEPT ![w] = "storing"]
  /\ UNCHANGED <<main, others, spawned, next, item, attempt, results, answer, maxBody>>

\* The attempt answers, whatever the status: no status is retried.
Succeed(w) ==
  /\ pc[w] = "trying" /\ item[w] \notin FileItem
  /\ Got(w, OutcomeOf(w, "ok", 0, 0))

MayRetryOnceMore(w) == attempt[w] <= Retries      \* mutant: one too many
MayRetryOnceLess(w) == attempt[w] + 1 < Retries   \* mutant: one too few
MayRetry(w) == attempt[w] < Retries

\* The attempt fails: back off when a retry is left, else give up.
Fail(w) ==
  /\ pc[w] = "trying" /\ item[w] \notin FileItem
  /\ IF MayRetry(w)
     THEN /\ pc' = [pc EXCEPT ![w] = "sleeping"]
          /\ UNCHANGED <<main, others, spawned, next, item, attempt, got, results, answer, maxBody>>
     ELSE Got(w, OutcomeOf(w, "err", 0, 0))

AttemptUncounted(w) == attempt   \* mutant: the increment is missing
AttemptCounted(w) == [attempt EXCEPT ![w] = @ + 1]

Wake(w) ==
  /\ pc[w] = "sleeping"
  /\ attempt' = AttemptCounted(w)
  /\ pc' = [pc EXCEPT ![w] = "trying"]
  /\ UNCHANGED <<main, others, spawned, next, item, got, results, answer, maxBody>>

\* file.take(max_body + 1).read_to_end, or the whole file when max_body is
\* u64::MAX and the sum would wrap.
ReadUnguarded(size, max) ==   \* mutant: the u64::MAX case left out
  LET limit == (max + 1) % (UMax + 1) IN IF size < limit THEN size ELSE limit
ReadLength(size, max) ==
  LET limit == max + 1 IN IF max = UMax \/ size < limit THEN size ELSE limit

\* read_file_url_body: one attempt; opening or reading may fail.
ReadFile(w, size) ==
  /\ pc[w] = "trying" /\ item[w] \in FileItem
  /\ LET bytes == ReadLength(size, maxBody)
     IN  IF bytes > maxBody
         THEN Got(w, OutcomeOf(w, "err", size, 0))
         ELSE Got(w, OutcomeOf(w, "ok", size, bytes))

FailFile(w) ==
  /\ pc[w] = "trying" /\ item[w] \in FileItem
  /\ Got(w, OutcomeOf(w, "err", 0, 0))

\* The work panics: catch_unwind turns it into the item's outcome.
PanicUncaught(w) == pc' = [pc EXCEPT ![w] = "exited"] /\ got' = got   \* mutant
PanicCaught(w) ==
  /\ pc' = [pc EXCEPT ![w] = "storing"]
  /\ got' = [got EXCEPT ![w] = OutcomeOf(w, "panic", 0, 0)]

Panic(w) ==
  /\ pc[w] = "trying"
  /\ PanicCaught(w)
  /\ UNCHANGED <<main, others, spawned, next, item, attempt, results, answer, maxBody>>

StoreSlotOfCounter(w) ==   \* mutant: the counter read again at the store
  IF next > 0 /\ next <= NItems THEN next - 1 ELSE item[w]
StoreSlot(w) == item[w]

Store(w) ==
  /\ pc[w] = "storing"
  /\ results' = [results EXCEPT ![StoreSlot(w)] = got[w]]
  /\ got' = [got EXCEPT ![w] = NoOutcome]
  /\ pc' = [pc EXCEPT ![w] = "claiming"]
  /\ UNCHANGED <<main, others, spawned, next, item, attempt, answer, maxBody>>

Finish(w) ==
  \/ Succeed(w) \/ Fail(w) \/ FailFile(w) \/ Panic(w)
  \/ \E size \in 0 .. UMax : ReadFile(w, size)

Work(w) == Claim(w) \/ Finish(w) \/ Wake(w) \/ Store(w)

Next ==
  \/ Detach \/ Join \/ Reattach \/ WrapUp
  \/ OthersTake \/ OthersRelease
  \/ \E w \in Worker : Spawn(w) \/ Work(w)

(***************************************************************************)
(* The operating system runs every thread, an attempt ends (the agent has  *)
(* a global timeout, a parse its limits) and so does a sleep.  The other   *)
(* threads give the GIL back at the interpreter's switch interval and the  *)
(* waiting thread is let in in its turn.                                   *)
(***************************************************************************)
Fairness ==
  /\ WF_vars(Detach) /\ WF_vars(Join) /\ WF_vars(WrapUp)
  /\ SF_vars(Reattach) /\ WF_vars(OthersRelease)
  /\ \A w \in Worker : WF_vars(Spawn(w)) /\ WF_vars(Work(w))

SafetySpec == Init /\ [][Next]_vars
Spec == SafetySpec /\ Fairness
-----------------------------------------------------------------------------
Busy(w) == pc[w] \in {"trying", "sleeping", "storing"}

(***************************************************************************)
(* No item is worked on twice: two busy workers hold different indexes,    *)
(* and the slot of an index that is being worked on is still empty.        *)
(***************************************************************************)
ClaimsAreExclusive ==
  \A w \in Worker :
    Busy(w) => /\ results[item[w]] = NoOutcome
               /\ \A v \in Worker \ {w} : Busy(v) => item[v] # item[w]

(***************************************************************************)
(* No item is lost: an index the counter has passed is in some worker's    *)
(* hands or has its outcome, so "worker thread produced no result" is      *)
(* unreachable, as the comment at the wrap-up says.                        *)
(***************************************************************************)
NoItemLost ==
  /\ \A i \in Item :
       i < next => \/ results[i] # NoOutcome
                   \/ \E w \in Worker : Busy(w) /\ item[w] = i
  /\ main \in {"wrapup", "returned"} => \A i \in Item : results[i] # NoOutcome

(***************************************************************************)
(* Together: every item is worked on by one worker and once.               *)
(***************************************************************************)
EachItemOnce == ClaimsAreExclusive /\ NoItemLost

(***************************************************************************)
(* The list is aligned with the input: what is in slot i is the outcome of *)
(* item i, and the answer is those slots.                                  *)
(***************************************************************************)
SlotsAligned ==
  /\ \A i \in Item : results[i] # NoOutcome => results[i].item = i
  /\ answer # NoOutcome => answer = results

(***************************************************************************)
(* fetch_one gives up only when every retry is spent, and never makes more *)
(* than Retries + 1 attempts; a file is never retried.  Nothing is said of *)
(* the errors that fetch_and_parse_many makes of an answer it did get: it  *)
(* never asks again for those.                                             *)
(***************************************************************************)
ErrorsAreFinal ==
  \A i \in Item :
    results[i] # NoOutcome =>
      /\ results[i].kind = "err" /\ i \notin FileItem => results[i].tries = Retries + 1
      /\ i \in FileItem => results[i].tries = 1

(***************************************************************************)
(* A file body is returned whole or refused, at every max_body up to       *)
(* u64::MAX: it is never silently truncated and never over the limit.      *)
(***************************************************************************)
BodiesWholeOrRefused ==
  \A i \in FileItem :
    results[i] # NoOutcome /\ results[i].kind = "ok" =>
      results[i].bytes = results[i].size /\ results[i].size <= maxBody

(***************************************************************************)
(* The fan-out implements the promise of the batch calls; with the         *)
(* fairness above that includes that the batch returns.                    *)
(***************************************************************************)
Promise ==
  INSTANCE Batch
    WITH NItems <- NItems, Outcome <- Outcome, NoOutcome <- NoOutcome,
         results <- results, answer <- answer
ImplementsBatch == Promise!Spec
=============================================================================
