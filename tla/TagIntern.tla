------------------------------ MODULE TagIntern ------------------------------
(***************************************************************************)
(* _Element.tag and the per-document table of interned tag strings.  The   *)
(* getter looks a name up under the document mutex; when the table has no  *)
(* string for it, the name is copied out and the mutex released, for the   *)
(* string must be allocated without it.  Allocation can run the garbage    *)
(* collector, and with it finalizers that read tags of the same document:  *)
(* every call is a sequence of steps, and calls overlap freely.  Elements  *)
(* can be renamed at any time, so any name may be read by any call.        *)
(***************************************************************************)
CONSTANTS
  Call,       \* calls of the getter that overlap
  Name,       \* qualified names: (namespace, local name)
  Object,     \* Python string objects that can be alive
  NoObject

ASSUME TagInternAssumption == NoObject \notin Object

VARIABLES
  table,    \* tag_table: the interned string of a name, if any
  pc,       \* where each call stands
  read,     \* the name each call copied out
  made,     \* the string each call has allocated and not yet handed over
  got       \* got[n]: the strings returned for name n so far (history)

vars == <<table, pc, read, made, got>>

Steps == {"idle", "missed", "allocating", "allocated"}

Interned(n) == table[n] # NoObject

InUse == {table[n] : n \in Name} \cup {made[c] : c \in Call}

-----------------------------------------------------------------------------
Init ==
  /\ table = [n \in Name |-> NoObject]
  /\ pc = [c \in Call |-> "idle"]
  /\ read \in [Call -> Name]
  /\ made = [c \in Call |-> NoObject]
  /\ got = [n \in Name |-> {}]

Moved(c, to) == pc' = [pc EXCEPT ![c] = to]

ReturnedHolding(c, n, object) ==
  /\ got' = [got EXCEPT ![n] = @ \cup {object}]
  /\ UNCHANGED made
  /\ Moved(c, "idle")

Returned(c, n, object) ==
  /\ got' = [got EXCEPT ![n] = @ \cup {object}]
  /\ made' = [made EXCEPT ![c] = NoObject]
  /\ Moved(c, "idle")

(* get_tag: one look at an element's name and at the table.                *)
ReadHit(c, n) ==
  /\ pc[c] = "idle"
  /\ Interned(n)
  /\ read' = [read EXCEPT ![c] = n]
  /\ Returned(c, n, table[n])
  /\ UNCHANGED table

ReadMiss(c, n) ==
  /\ pc[c] = "idle"
  /\ ~Interned(n)
  /\ read' = [read EXCEPT ![c] = n]
  /\ Moved(c, "missed")
  /\ UNCHANGED <<table, made, got>>

(* intern_tag looks again, now without the mutex ...                       *)
LookUpHit(c) ==
  /\ pc[c] = "missed"
  /\ Interned(read[c])
  /\ Returned(c, read[c], table[read[c]])
  /\ UNCHANGED <<table, read>>

LookUpMiss(c) ==
  /\ pc[c] = "missed"
  /\ ~Interned(read[c])
  /\ Moved(c, "allocating")
  /\ UNCHANGED <<table, read, made, got>>

LookUp(c) == IF Interned(read[c]) THEN LookUpHit(c) ELSE LookUpMiss(c)

(* ... allocates a string that is nobody else's ...                        *)
Allocate(c) ==
  /\ pc[c] = "allocating"
  /\ \E object \in Object \ InUse : made' = [made EXCEPT ![c] = object]
  /\ Moved(c, "allocated")
  /\ UNCHANGED <<table, read, got>>

(* ... and takes the entry another call has added while it allocated, or   *)
(* adds its own, within one borrow of the holder.                          *)
SettledBlindly(c) == made[c]

Settled(c) == IF Interned(read[c]) THEN table[read[c]] ELSE made[c]

Intern(c) ==
  /\ pc[c] = "allocated"
  /\ table' = [table EXCEPT ![read[c]] = Settled(c)]
  /\ Returned(c, read[c], Settled(c))
  /\ UNCHANGED read

Next ==
  \E c \in Call : \/ \E n \in Name : ReadHit(c, n) \/ ReadMiss(c, n)
                  \/ LookUp(c)
                  \/ Allocate(c)
                  \/ Intern(c)

Spec == Init /\ [][Next]_vars

-----------------------------------------------------------------------------
(* Every variable has its type; a call holds a string exactly while it has *)
(* allocated one and not yet settled.                                      *)
TypeOK ==
  /\ table \in [Name -> Object \cup {NoObject}]
  /\ pc \in [Call -> Steps]
  /\ read \in [Call -> Name]
  /\ made \in [Call -> Object \cup {NoObject}]
  /\ got \in [Name -> SUBSET Object]
  /\ \A c \in Call : made[c] # NoObject <=> pc[c] = "allocated"

(* Every call that asked for one qualified name, however the calls         *)
(* overlapped, was given one and the same string, the one in the table; and*)
(* strings of two names are never the same object.  Comparing tags by      *)
(* identity first relies on both.                                          *)
OneObjectPerTag ==
  /\ \A n \in Name : got[n] # {} => got[n] = {table[n]}
  /\ \A m, n \in Name : got[m] \cap got[n] # {} => m = n
=============================================================================
