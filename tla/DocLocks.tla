------------------------------ MODULE DocLocks ------------------------------
(***************************************************************************)
(* The global interpreter lock (GIL), the mutex of every document and of   *)
(* every iterparse object, and the native calls that take them.  A call is *)
(* the list of what it still has to do: take or drop a mutex, give the GIL *)
(* away (detach) or take it back (attach), read or edit a document, or     *)
(* create Python objects.  Creating objects can run the garbage collector  *)
(* and hence finalizers, which make calls of their own in the same thread; *)
(* only there, and between calls, can the GIL go to another thread.  The   *)
(* tag getter carries the steps of TagIntern.                              *)
(***************************************************************************)
EXTENDS TagIntern, Integers, Sequences

CONSTANTS
  Thread,     \* Python threads; a call is <<thread, depth>>, where depth 1
              \* is the program's call and 2 one of a finalizer inside it
  Doc,        \* documents, named by the addresses of their mutexes
  IterDoc,    \* documents an iterparse object is building
  TagDoc,     \* the document whose tag table is followed
  NoOne       \* nobody holds the GIL, or the mutex

ASSUME DocLocksAssumption ==
  /\ Call \subseteq Thread \X (Nat \ {0})
  /\ Doc \subseteq Nat \ {0}
  /\ IterDoc \subseteq Doc
  /\ TagDoc \in Doc
  /\ NoOne \notin Thread \cup Call

VARIABLES
  gil,        \* the thread that holds the GIL
  owner,      \* the call that holds a mutex
  rest,       \* what each call still has to do; <<>> when there is no call
  half,       \* documents whose editing has begun and not ended
  poisoned    \* mutexes whose holder has panicked

lockVars == <<gil, owner, rest, half, poisoned>>

(* The state mutex of the iterparse object that builds document d.         *)
StateOf(d) == 0 - d

Mutex == Doc \cup {StateOf(d) : d \in IterDoc}

-----------------------------------------------------------------------------
(* What a native call is made of.                                          *)

Do(op) == [op |-> op, m |-> 0]
On(op, m) == [op |-> op, m |-> m]

Lock(m) == On("lock", m)
Unlock(m) == On("unlock", m)
Use(d) == On("use", d)          \* reads document d; may report an error
Edit(d) == On("edit", d)        \* changes document d
Detach == Do("detach")          \* Python::detach: the closure begins
Attach == Do("attach")          \* its end
Compute == Do("compute")        \* native work on no document; may fail
Python == Do("python")          \* creates Python objects
ReadTag == Do("readtag")
LookUpTag == Do("lookuptag")
AllocateTag == Do("allocatetag")
InternTag == Do("interntag")

(* The mutexes of two documents are taken in the order of their addresses. *)
BothAsGiven(a, b) == <<Lock(a), Lock(b)>>

Both(a, b) == IF a < b THEN <<Lock(a), Lock(b)>> ELSE <<Lock(b), Lock(a)>>

(* One document, for the length of a read (children, XPath) or an edit.    *)
ReadAttached(d) == <<Lock(d), Use(d), Unlock(d), Python>>

EditAttached(d) == <<Lock(d), Edit(d), Unlock(d)>>

(* Serialization, validation and the bulk scans: the closure takes the     *)
(* mutex and drops it before its end; the result is converted afterwards.  *)
ReadDetachedHoldingOn(d) == <<Detach, Lock(d), Use(d), Attach, Unlock(d), Python>>

ReadDetached(d) == <<Detach, Lock(d), Use(d), Unlock(d), Attach, Python>>

PostProcess(d) == <<Detach, Lock(d), Edit(d), Unlock(d), Attach>>

(* _replace_xml and _prepend_fragment_xml parse detached and edit attached;*)
(* what can be refused is refused before the edit.                         *)
ReplaceXml(d) == <<Detach, Compute, Attach, Lock(d), Use(d), Edit(d), Unlock(d)>>

ImportSubtree(src, dst) ==
  Both(dst, src) \o <<Use(src), Edit(dst), Unlock(dst), Unlock(src)>>

(* Pairs are collected under the mutexes, of two holders that may share a  *)
(* document; the caches are repaired after.                                *)
RepointSubtree(src, dst) ==
  IF src = dst
    THEN <<Lock(src), Use(src), Unlock(src), Python>>
    ELSE Both(dst, src) \o <<Use(src), Use(dst), Unlock(dst), Unlock(src), Python>>

(* IterParse.__next__: the state mutex for the whole replay, the document's*)
(* for one event at a time (two events here); the wrapper is made after.   *)
IterNext(d) ==
  <<Detach, Lock(StateOf(d)), Lock(d), Edit(d), Unlock(d), Lock(d), Edit(d),
    Unlock(d), Unlock(StateOf(d)), Attach, Python>>

(* IterParse.root reads the state attached, then makes the wrapper.        *)
IterRoot(d) == <<Lock(StateOf(d)), Unlock(StateOf(d)), Python>>

(* _Element.tag: the name is read under the mutex, the string made without.*)
GetTagUnderLock ==
  <<Lock(TagDoc), ReadTag, LookUpTag, Python, AllocateTag, InternTag, Unlock(TagDoc)>>

GetTag ==
  <<Lock(TagDoc), ReadTag, Unlock(TagDoc), LookUpTag, Python, AllocateTag, InternTag>>

Handlers ==
  (UNION {{ReadAttached(d), EditAttached(d), ReadDetached(d), PostProcess(d),
           ReplaceXml(d)} : d \in Doc})
    \cup (UNION {{IterNext(d), IterRoot(d)} : d \in IterDoc})
    \cup {RepointSubtree(q[1], q[2]) : q \in Doc \X Doc}
    \cup {ImportSubtree(q[1], q[2]) : q \in {r \in Doc \X Doc : r[1] # r[2]}}
    \cup {GetTag}
-----------------------------------------------------------------------------
Active(c) == rest[c] # <<>>

Innermost(c) == \A e \in Call : e[1] = c[1] /\ e[2] > c[2] => ~Active(e)

At(c, op) == Active(c) /\ Head(rest[c]).op = op

Held(c) == {m \in Mutex : owner[m] = c}

(* What is left of a call runs without the GIL up to its end of detach.    *)
Detached(p) ==
  \E i \in DOMAIN p : p[i] = Attach /\ \A j \in 1 .. i - 1 : p[j] # Detach

(* Thread t executes Python code: between calls, or in a finalizer.        *)
InPython(t) ==
  \A c \in Call : c[1] = t /\ Active(c) /\ Innermost(c) => At(c, "python")

(* Call c can take its next step, except for a mutex or the GIL.           *)
Running(c) ==
  /\ Active(c)
  /\ Innermost(c)
  /\ gil = c[1] \/ Detached(rest[c])

Advance(c) == rest' = [rest EXCEPT ![c] = Tail(@)]

(* An early return or an unwinding panic drops the guards and, if need be, *)
(* takes the GIL back.                                                     *)
BailAttaching(c) ==
  /\ owner' = [m \in Mutex |-> IF owner[m] = c THEN NoOne ELSE owner[m]]
  /\ rest' = [rest EXCEPT ![c] = <<Attach>>]

Bail(c) ==
  /\ owner' = [m \in Mutex |-> IF owner[m] = c THEN NoOne ELSE owner[m]]
  /\ rest' = [rest EXCEPT ![c] = IF Detached(@) THEN <<Attach>> ELSE <<>>]

-----------------------------------------------------------------------------
LockInit ==
  /\ Init
  /\ gil = NoOne
  /\ owner = [m \in Mutex |-> NoOne]
  /\ rest = [c \in Call |-> <<>>]
  /\ half = {}
  /\ poisoned = {}

(* Python code calls a method: a thread's program, or a finalizer.         *)
Begin(c) ==
  /\ gil = c[1]
  /\ \A e \in Call : e[1] = c[1] /\ e[2] >= c[2] => ~Active(e)
  /\ \A e \in Call : e[1] = c[1] /\ e[2] < c[2] => At(e, "python")
  /\ \E p \in Handlers : rest' = [rest EXCEPT ![c] = p]
  /\ UNCHANGED <<gil, owner, half, poisoned, vars>>

(* The interpreter hands the GIL over between two bytecodes.               *)
SwitchOut(t) ==
  /\ gil = t
  /\ InPython(t)
  /\ gil' = NoOne
  /\ UNCHANGED <<owner, rest, half, poisoned, vars>>

SwitchIn(t) ==
  /\ gil = NoOne
  /\ InPython(t)
  /\ gil' = t
  /\ UNCHANGED <<owner, rest, half, poisoned, vars>>

BeginDetach(c) ==
  /\ Running(c)
  /\ At(c, "detach")
  /\ gil' = NoOne
  /\ Advance(c)
  /\ UNCHANGED <<owner, half, poisoned, vars>>

EndDetach(c) ==
  /\ Running(c)
  /\ At(c, "attach")
  /\ gil = NoOne
  /\ gil' = c[1]
  /\ Advance(c)
  /\ UNCHANGED <<owner, half, poisoned, vars>>

(* Mutex::lock waits for the mutex and then fails if it is poisoned.       *)
Free(c) == Running(c) /\ At(c, "lock") /\ owner[Head(rest[c]).m] = NoOne

TakeLockUnchecked(c) ==
  /\ Free(c)
  /\ owner' = [owner EXCEPT ![Head(rest[c]).m] = c]
  /\ Advance(c)
  /\ UNCHANGED <<gil, half, poisoned, vars>>

TakeLock(c) ==
  /\ Free(c)
  /\ Head(rest[c]).m \notin poisoned
  /\ owner' = [owner EXCEPT ![Head(rest[c]).m] = c]
  /\ Advance(c)
  /\ UNCHANGED <<gil, half, poisoned, vars>>

RefusePoisoned(c) ==
  /\ Free(c)
  /\ Head(rest[c]).m \in poisoned
  /\ Bail(c)
  /\ UNCHANGED <<gil, half, poisoned, vars>>

DropLock(c) ==
  /\ Running(c)
  /\ At(c, "unlock")
  /\ owner' = [owner EXCEPT ![Head(rest[c]).m] = NoOne]
  /\ Advance(c)
  /\ UNCHANGED <<gil, half, poisoned, vars>>

(* Native work without effect succeeds or returns an error.                *)
Work(c) ==
  /\ Running(c)
  /\ At(c, "use") \/ At(c, "compute")
  /\ Advance(c)
  /\ UNCHANGED <<gil, owner, half, poisoned, vars>>

Fail(c) ==
  /\ Running(c)
  /\ At(c, "use") \/ At(c, "compute")
  /\ Bail(c)
  /\ UNCHANGED <<gil, half, poisoned, vars>>

BeginEdit(c) ==
  /\ Running(c)
  /\ At(c, "edit")
  /\ Head(rest[c]).m \notin half
  /\ half' = half \cup {Head(rest[c]).m}
  /\ UNCHANGED <<gil, owner, rest, poisoned, vars>>

EndEdit(c) ==
  /\ Running(c)
  /\ At(c, "edit")
  /\ Head(rest[c]).m \in half
  /\ half' = half \ {Head(rest[c]).m}
  /\ Advance(c)
  /\ UNCHANGED <<gil, owner, poisoned, vars>>

(* A panic of the native code poisons every mutex its call holds.          *)
Panic(c) ==
  /\ Running(c)
  /\ At(c, "use") \/ At(c, "edit")
  /\ poisoned' = poisoned \cup Held(c)
  /\ Bail(c)
  /\ UNCHANGED <<gil, half, vars>>

(* Objects are made; the finalizers that this ran have returned.           *)
EndPython(c) ==
  /\ Running(c)
  /\ At(c, "python")
  /\ Advance(c)
  /\ UNCHANGED <<gil, owner, half, poisoned, vars>>

(* The steps of the tag getter; a hit returns at once, the guard dropped.  *)
ReadTagOf(c) ==
  /\ Running(c)
  /\ At(c, "readtag")
  /\ \E n \in Name :
       \/ ReadMiss(c, n) /\ Advance(c)
       \/ ReadHit(c, n) /\ rest' = [rest EXCEPT ![c] = <<Unlock(TagDoc)>>]
  /\ UNCHANGED <<gil, owner, half, poisoned>>

LookUpTagAgain(c) ==
  /\ Running(c)
  /\ At(c, "lookuptag")
  /\ LookUp(c)
  /\ rest' = [rest EXCEPT ![c] = IF Interned(read[c]) THEN <<>> ELSE Tail(@)]
  /\ UNCHANGED <<gil, owner, half, poisoned>>

MakeTag(c) ==
  /\ Running(c)
  /\ \/ At(c, "allocatetag") /\ Allocate(c)
     \/ At(c, "interntag") /\ Intern(c)
  /\ Advance(c)
  /\ UNCHANGED <<gil, owner, half, poisoned>>

Proceed(c) ==
  \/ BeginDetach(c) \/ EndDetach(c)
  \/ TakeLock(c) \/ RefusePoisoned(c) \/ DropLock(c)
  \/ Work(c) \/ Fail(c) \/ BeginEdit(c) \/ EndEdit(c) \/ Panic(c)
  \/ EndPython(c)
  \/ ReadTagOf(c) \/ LookUpTagAgain(c) \/ MakeTag(c)

LockNext ==
  \/ \E c \in Call : Begin(c) \/ Proceed(c)
  \/ \E t \in Thread : SwitchOut(t) \/ SwitchIn(t)

allVars == <<lockVars, vars>>

LockSpec == LockInit /\ [][LockNext]_allVars

-----------------------------------------------------------------------------
(* Every variable has its type; a thread's calls are nested; and native    *)
(* code runs with the GIL exactly while it is not detached.                *)
LockTypeOK ==
  /\ gil \in Thread \cup {NoOne}
  /\ owner \in [Mutex -> Call \cup {NoOne}]
  /\ DOMAIN rest = Call
  /\ \A c, e \in Call :
       e[1] = c[1] /\ e[2] > c[2] /\ Active(e) => At(c, "python")
  /\ \A c \in Call : Active(c) /\ Innermost(c) /\ ~At(c, "python") =>
       (gil = c[1] <=> ~Detached(rest[c]))
  /\ half \subseteq Doc
  /\ poisoned \subseteq Mutex

(* The stated lock order (GIL, iterator state, documents by address): a    *)
(* call that holds a mutex waits only for mutexes later in the order, and  *)
(* neither for the GIL nor for Python code it has called.                  *)
LockDiscipline ==
  \A c \in Call : Held(c) # {} =>
    /\ Innermost(c)
    /\ Active(c) /\ ~At(c, "attach") /\ ~At(c, "python")
    /\ At(c, "lock") => \A n \in Held(c) : n < Head(rest[c]).m

(* c cannot go on before e does: e holds the mutex it asks for, is a call  *)
(* its Python code has made, or runs in the thread that has the GIL.       *)
WaitsFor(c, e) ==
  \/ At(c, "lock") /\ owner[Head(rest[c]).m] = e
  \/ e[1] = c[1] /\ e[2] > c[2] /\ Active(e)
  \/ /\ At(c, "attach") \/ ~Detached(rest[c])
     /\ gil # c[1]
     /\ gil = e[1]
     /\ Active(e) /\ Innermost(e)

(* No set of calls is stuck, each waiting for another one (or itself).     *)
NoCircularWait ==
  \A S \in SUBSET {c \in Call : Active(c)} :
    S # {} => \E c \in S : \A e \in S : ~WaitsFor(c, e)

(* Nobody reads a document another call has changed by half, even when that*)
(* call was killed by a panic: it holds the mutex, or has poisoned it.     *)
NoTornRead ==
  \A c \in Call : At(c, "use") =>
    /\ Head(rest[c]).m \notin half
    /\ owner[Head(rest[c]).m] = c
=============================================================================
