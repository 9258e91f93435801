------------------------------ MODULE SlotTable ------------------------------
(***************************************************************************)
(* The slot table inside a DocHolderBase (src/src/lib.rs): the vector of   *)
(* weak references indexed by node id, the compact list of tracked slots   *)
(* that makes a sweep proportional to cache churn, the membership bits of  *)
(* that list, the entry counter and the size that triggers a sweep.        *)
(*                                                                         *)
(* The module is pure: a table is a record and each Rust helper an         *)
(* operator from table to table.  The order of the tracked list is never   *)
(* observable, so the list is a bag (node id -> number of occurrences).    *)
(***************************************************************************)
EXTENDS Naturals, FiniteSets

CONSTANTS
  MaxId,      \* Bound: node ids, which index the arena, are below this.
  Wrapper,    \* The identities of Python _Element objects.
  SweepMin,   \* PROXY_SWEEP_MIN.
  Empty,      \* A slot that holds None.
  Tombstone   \* A slot whose weak reference is dead.

NodeId == 0 .. MaxId - 1

Cell == Wrapper \cup {Empty, Tombstone}

ASSUME MaxIdAssumption == MaxId \in Nat
ASSUME SweepMinAssumption == SweepMin \in Nat \ {0}
ASSUME CellAssumption ==
  Empty \notin Wrapper /\ Tombstone \notin Wrapper /\ Empty # Tombstone

Table == [ len     : 0 .. MaxId,           \* length of both vectors
           slot    : [NodeId -> Cell],     \* proxies, None beyond len
           bit     : [NodeId -> BOOLEAN],  \* proxy_slot_tracked
           track   : [NodeId -> Nat],      \* tracked_proxy_slots, as a bag
           entries : Nat,                  \* proxy_entries
           sweepAt : Nat ]                 \* sweep_at

NewTable ==
  [ len     |-> 0,
    slot    |-> [n \in NodeId |-> Empty],
    bit     |-> [n \in NodeId |-> FALSE],
    track   |-> [n \in NodeId |-> 0],
    entries |-> 0,
    sweepAt |-> SweepMin ]

Filled(t) == {n \in NodeId : t.slot[n] # Empty}
Live(t)   == {n \in NodeId : t.slot[n] \in Wrapper}

(***************************************************************************)
(* sweep_dead.  Every occurrence in the tracked list whose slot upgrades   *)
(* is kept and counted, the slot of every other one is emptied and its bit *)
(* cleared; then empty untracked slots are popped off the end.             *)
(***************************************************************************)
Listed(t) == {n \in NodeId : t.track[n] > 0}

KeptIfDead(t) == Listed(t) \ Live(t)   \* mutant: the upgrade test inverted
Kept(t)   == Listed(t) \cap Live(t)

Occurrences(t, S) == UNION {{n} \X (1 .. t.track[n]) : n \in S}

PoppedLen(len, slot, bit) ==
  CHOOSE l \in 0 .. len :
    /\ l > 0 => slot[l-1] # Empty \/ bit[l-1]
    /\ \A n \in l .. len - 1 : slot[n] = Empty /\ ~bit[n]

SweepDead(t) ==
  LET dropped == Listed(t) \ Kept(t)
      slot    == [n \in NodeId |-> IF n \in dropped THEN Empty ELSE t.slot[n]]
      bit     == [n \in NodeId |-> n \notin dropped /\ t.bit[n]]
      live    == Cardinality(Occurrences(t, Kept(t)))
  IN  [ len     |-> PoppedLen(t.len, slot, bit),
        slot    |-> slot,
        bit     |-> bit,
        track   |-> [n \in NodeId |-> IF n \in dropped THEN 0 ELSE t.track[n]],
        entries |-> live,
        sweepAt |-> IF 2 * live > SweepMin THEN 2 * live ELSE SweepMin ]

(***************************************************************************)
(* remove_proxy_slot.  Takes the weak reference out of the slot and counts *)
(* it out (saturating); the slot stays in the tracked list until a sweep.  *)
(***************************************************************************)
\* mutant: counts out whatever was in the slot
RemoveSlotUnguarded(t, n) ==
  [t EXCEPT !.slot[n] = Empty, !.entries = @ - 1]
\* mutant: reads the weak reference where it should take it
RemoveSlotByCopy(t, n) ==
  IF n < t.len /\ t.slot[n] # Empty
  THEN [t EXCEPT !.entries = IF @ = 0 THEN 0 ELSE @ - 1]
  ELSE t
RemoveSlot(t, n) ==
  IF n < t.len /\ t.slot[n] # Empty
  THEN [t EXCEPT !.slot[n] = Empty,
                 !.entries = IF @ = 0 THEN 0 ELSE @ - 1]
  ELSE t

(***************************************************************************)
(* insert_proxy_slot.  Grows both vectors to reach n, counts the slot only *)
(* if it was empty and lists it only if its bit was clear.                 *)
(***************************************************************************)
\* mutant: lists the slot again each time it is filled
InsertSlotRelisting(t, n, w) ==
  [ len     |-> IF n >= t.len THEN n + 1 ELSE t.len,
    slot    |-> [t.slot EXCEPT ![n] = w],
    bit     |-> [t.bit EXCEPT ![n] = TRUE],
    track   |-> IF t.slot[n] # Empty THEN t.track ELSE [t.track EXCEPT ![n] = @ + 1],
    entries |-> IF t.slot[n] = Empty THEN t.entries + 1 ELSE t.entries,
    sweepAt |-> t.sweepAt ]
InsertSlot(t, n, w) ==
  [ len     |-> IF n >= t.len THEN n + 1 ELSE t.len,
    slot    |-> [t.slot EXCEPT ![n] = w],
    bit     |-> [t.bit EXCEPT ![n] = TRUE],
    track   |-> IF t.bit[n] THEN t.track ELSE [t.track EXCEPT ![n] = @ + 1],
    entries |-> IF t.slot[n] = Empty THEN t.entries + 1 ELSE t.entries,
    sweepAt |-> t.sweepAt ]

(***************************************************************************)
(* Every insertion is followed by this opportunistic sweep, both in        *)
(* proxy_for_id and in repoint_subtree.                                    *)
(***************************************************************************)
InsertAndSweep(t, n, w) ==
  LET filled == InsertSlot(t, n, w)
  IN  IF filled.entries >= filled.sweepAt THEN SweepDead(filled) ELSE filled

(***************************************************************************)
(* What the interpreter does to a table when object w dies: its weak       *)
(* reference, callback-free, no longer upgrades.                           *)
(***************************************************************************)
ClearWeakrefs(t, w) ==
  [t EXCEPT !.slot = [n \in NodeId |-> IF @[n] = w THEN Tombstone ELSE @[n]]]

-----------------------------------------------------------------------------
(***************************************************************************)
(* What the table must satisfy between two operations.                     *)
(***************************************************************************)

\* The counter is the number of slots that hold a weak reference, live or dead:
\* proxy_entries is never recounted except by a sweep.
CountIsExact(t) == t.entries = Cardinality(Filled(t))

\* The tracked list holds no node id twice, and holds exactly those whose bit
\* is set; a slot with a weak reference is always in it, so a sweep sees it.
TrackingIsExact(t) ==
  \A n \in NodeId : /\ t.track[n] = IF t.bit[n] THEN 1 ELSE 0
                    /\ t.slot[n] # Empty => t.bit[n]

\* Nothing is stored or listed beyond the end of the two vectors.
NothingBeyondEnd(t) ==
  \A n \in NodeId : n >= t.len => t.slot[n] = Empty /\ ~t.bit[n]

\* Dead and live entries together stay below the armed sweep size.
BelowSweepSize(t) == t.entries < t.sweepAt /\ SweepMin <= t.sweepAt

TableOK(t) ==
  /\ CountIsExact(t)
  /\ TrackingIsExact(t)
  /\ NothingBeyondEnd(t)
  /\ BelowSweepSize(t)
=============================================================================
