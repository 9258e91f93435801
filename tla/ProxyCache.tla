------------------------------ MODULE ProxyCache ------------------------------
(***************************************************************************)
(* The identity-stable proxy caches of several documents and the calls     *)
(* that work on them (src/src/lib.rs, DocHolderBase).                      *)
(*                                                                         *)
(* Each holder owns one document and one slot table.  A wrapper is a       *)
(* Python _Element; it views one node of one document.  A call is one      *)
(* activation of a Rust entry point: of another thread, or of a finalizer  *)
(* that the garbage collector runs inside a call of the same thread.       *)
(*                                                                         *)
(*   - proxy_for_id is two steps.  A hit changes nothing and has no action *)
(*     of its own.  A miss leaves the borrow (BeginMiss), runs Python      *)
(*     allocation, where every other call may run, and comes back to       *)
(*     insert (FinishMiss) without looking at the slot again.              *)
(*   - A move to another document is import_subtree (Import), then         *)
(*     repoint_subtree (BeginRepoint, RepointPair ...), then the detaching *)
(*     of the source (DetachSource), as _Element._clone_into_self calls    *)
(*     them.  repoint_subtree holds the GIL from its first step to its     *)
(*     last: meanwhile nothing else runs.  Between the three calls other   *)
(*     calls may, other moves of the same nodes among them.                *)
(*   - Extract and Attach are the two halves of every edit within one      *)
(*     document; Attach also puts an arrived copy in its place.            *)
(*   - Drop is the death of a wrapper the program no longer refers to.     *)
(***************************************************************************)
EXTENDS LockStep

CONSTANTS
  Holder,       \* The documents' holders.
  Call,         \* The activations that may be in progress together.
  FirstDocs,    \* Bound: the documents, [size, kids], the holders may start with.
  MaxChanges,   \* Bound: how often Extract, Attach and Import are taken.
  SameNodeMiss, \* May two calls be in the miss of one node at a time?
  None          \* No node, no move, no document.

Node == [holder : Holder, id : NodeId]
Ref(h, n) == [holder |-> h, id |-> n]

ASSUME FirstDocsAssumption ==
  \A d \in FirstDocs, h \in Holder :
    d[h].size \in 0 .. MaxId /\ LinksOK(d[h].size, d[h].kids)
ASSUME MaxChangesAssumption == MaxChanges \in Nat
ASSUME SameNodeMissAssumption == SameNodeMiss \in BOOLEAN
ASSUME NoneAssumption == None \notin Node

VARIABLES
  table,   \* table[h]: the slot table of holder h
  arena,   \* arena[h]: how many nodes the arena of h's document holds
  kids,    \* kids[h]: the child list of every node of h's document
  view,    \* view[w]: the node wrapper w views (holder, doc, node_id), or None
  miss,    \* miss[c]: the node call c is making a wrapper for, or None
  move,    \* move[c]: the cross-document move call c is making
  changes  \* how often the trees were changed so far

vars == <<table, arena, kids, view, miss, move, changes>>

\* A move: how far the call is, source and destination holder, the node that
\* moves, and the pairs still to be re-pointed.  No action after Import reads
\* copy, which tells of each node what its copy is, but at the top, where it is
\* what import_subtree returned; nor shape, the child lists the source had then.
\* They are history, for the properties.
Move == [ pc    : {"imported", "repointing", "repointed"},
          src   : Holder,
          dst   : Holder,
          top   : NodeId,
          copy  : UNION {[S -> NodeId] : S \in SUBSET NodeId},
          shape : Links,
          todo  : SUBSET (NodeId \X NodeId) ]
NoMove == [ pc |-> "none", src |-> None, dst |-> None, top |-> None,
            copy |-> <<>>, shape |-> None, todo |-> {} ]

TypeOK ==
  /\ table \in [Holder -> Table]
  /\ arena \in [Holder -> 0 .. MaxId]
  /\ kids \in [Holder -> Links]
  /\ \A h \in Holder : LinksOK(arena[h], kids[h])
  /\ view \in [Wrapper -> Node \cup {None}]
  /\ miss \in [Call -> Node \cup {None}]
  /\ move \in [Call -> Move \cup {NoMove}]
  /\ changes \in 0 .. MaxChanges

Init ==
  /\ table = [h \in Holder |-> NewTable]
  /\ \E d \in FirstDocs :
       /\ arena = [h \in Holder |-> d[h].size]
       /\ kids  = [h \in Holder |-> d[h].kids]
  /\ view  = [w \in Wrapper |-> None]
  /\ miss  = [c \in Call |-> None]
  /\ move  = [c \in Call |-> NoMove]
  /\ changes = 0

Idle(c) == miss[c] = None /\ move[c] = NoMove

\* No repoint_subtree is under way, so the GIL can change hands.
GilFree == \A c \in Call : move[c].pc # "repointing"

\* The copies that a call has imported, and not yet re-pointed the wrappers of
\* the source to: a detached subtree no tree leads to and whose only handle is
\* that call's.
Pending(c) == move[c].pc \in {"imported", "repointing"}
Copies(c)  == {move[c].copy[s] : s \in DOMAIN move[c].copy}
FreshCopies(h) == UNION {Copies(c) : c \in {d \in Call : Pending(d) /\ move[d].dst = h}}

Reachable(h) == {n \in NodeId : n < arena[h]} \ FreshCopies(h)

HasLiveWrapper(h, n) == n \in Live(table[h])

-----------------------------------------------------------------------------
(***************************************************************************)
(* proxy_for_id, phase 1: the slot holds no live weak reference.           *)
(***************************************************************************)
BeginMiss(c, h, n) ==
  /\ GilFree
  /\ Idle(c)
  /\ n \in Reachable(h)
  /\ ~HasLiveWrapper(h, n)
  /\ SameNodeMiss \/ \A d \in Call : miss[d] # Ref(h, n)
  /\ miss' = [miss EXCEPT ![c] = Ref(h, n)]
  /\ UNCHANGED <<table, arena, kids, view, move, changes>>

(***************************************************************************)
(* Phases 2 and 3: the wrapper w is built and put in the slot whatever the *)
(* slot holds by now, then the opportunistic sweep.                        *)
(***************************************************************************)
FinishMiss(c, w) ==
  /\ GilFree
  /\ miss[c] # None
  /\ view[w] = None
  /\ view' = [view EXCEPT ![w] = miss[c]]
  /\ table' = [table EXCEPT ![miss[c].holder] = InsertAndSweep(@, miss[c].id, w)]
  /\ miss' = [miss EXCEPT ![c] = None]
  /\ UNCHANGED <<arena, kids, move, changes>>

\* Phase 2 raises (the type is not registered, or allocation fails).
FailMiss(c) ==
  /\ GilFree
  /\ miss[c] # None
  /\ miss' = [miss EXCEPT ![c] = None]
  /\ UNCHANGED <<table, arena, kids, view, move, changes>>

\* The last reference to w goes: its weak references, in whatever table, die.
Drop(w) ==
  /\ GilFree
  /\ view[w] # None
  /\ view' = [view EXCEPT ![w] = None]
  /\ table' = [h \in Holder |-> ClearWeakrefs(table[h], w)]
  /\ UNCHANGED <<arena, kids, miss, move, changes>>

-----------------------------------------------------------------------------
(***************************************************************************)
(* _extract: n leaves its parent.                                          *)
(***************************************************************************)
Extract(h, n) ==
  /\ GilFree
  /\ changes < MaxChanges
  /\ n \in Reachable(h)
  /\ HasParent(kids[h], n)
  /\ kids' = [kids EXCEPT ![h] = Detached(@, n)]
  /\ changes' = changes + 1
  /\ UNCHANGED <<table, arena, view, miss, move>>

(***************************************************************************)
(* _attach without a reference node: n, which has no parent, becomes the   *)
(* last child of p.                                                        *)
(***************************************************************************)
Attach(h, p, n) ==
  /\ GilFree
  /\ changes < MaxChanges
  /\ p \in Reachable(h) /\ n \in Reachable(h)
  /\ ~HasParent(kids[h], n)
  /\ p \notin Below(kids[h], n)
  /\ kids' = [kids EXCEPT ![h] = Attached(@, p, n)]
  /\ changes' = changes + 1
  /\ UNCHANGED <<table, arena, view, miss, move>>

-----------------------------------------------------------------------------
(***************************************************************************)
(* import_subtree: the subtree of s is copied to the end of dst's arena.   *)
(* Which copy takes which of the new ids is left open.                     *)
(***************************************************************************)
NewIds(h, S) == arena[h] .. arena[h] + Cardinality(S) - 1

Import(c, src, dst, s) ==
  LET k == kids[src]
      S == Below(k, s)
  IN  /\ GilFree
      /\ Idle(c)
      /\ changes < MaxChanges
      /\ src # dst
      /\ s \in Reachable(src)
      /\ arena[dst] + Cardinality(S) <= MaxId
      /\ \E f \in [S -> NewIds(dst, S)] :
           /\ \A m, n \in S : f[m] = f[n] => m = n
           /\ kids' = [kids EXCEPT ![dst] = WithCopy(k, @, f)]
           /\ move' = [move EXCEPT ![c] =
                         [ pc |-> "imported", src |-> src, dst |-> dst, top |-> s,
                           copy |-> f, shape |-> Within(k, S), todo |-> {} ]]
      /\ arena' = [arena EXCEPT ![dst] = @ + Cardinality(S)]
      /\ changes' = changes + 1
      /\ UNCHANGED <<table, view, miss>>

(***************************************************************************)
(* repoint_subtree up to the pair loop: sweep the source, return at once   *)
(* when it then caches nothing, and pair the nodes of the two trees as     *)
(* they are by now.                                                        *)
(***************************************************************************)
NearlyNothingCached(t) == t.entries <= 1   \* mutant: one entry left behind
NothingCached(t) == t.entries = 0

Pairs(c) ==
  LockStep(kids[move[c].src], kids[move[c].dst], move[c].top, move[c].copy[move[c].top])

BeginRepoint(c) ==
  /\ GilFree
  /\ move[c].pc = "imported"
  /\ LET swept == SweepDead(table[move[c].src])
     IN  /\ table' = [table EXCEPT ![move[c].src] = swept]
         /\ move' = [move EXCEPT ![c] =
                       IF NothingCached(swept)
                       THEN [move[c] EXCEPT !.pc = "repointed"]
                       ELSE [move[c] EXCEPT !.pc = "repointing", !.todo = Pairs(c)]]
  /\ UNCHANGED <<arena, kids, view, miss, changes>>

(***************************************************************************)
(* One turn of the pair loop.  The source slot is emptied.  If it held a   *)
(* live wrapper, that wrapper is re-pointed to the other node of the pair  *)
(* and cached in the destination; the loop stops early once the source     *)
(* caches nothing.                                                         *)
(***************************************************************************)
RepointPair(c, p) ==
  /\ move[c].pc = "repointing"
  /\ p \in move[c].todo
  /\ LET src     == move[c].src
         dst     == move[c].dst
         held    == IF p[1] < table[src].len THEN table[src].slot[p[1]] ELSE Empty
         emptied == RemoveSlot(table[src], p[1])
         stop    == \/ move[c].todo = {p}
                    \/ held \in Wrapper /\ NothingCached(emptied)
     IN  /\ IF held \in Wrapper
            THEN /\ view' = [view EXCEPT ![held] = Ref(dst, p[2])]
                 /\ table' = [table EXCEPT ![src] = emptied,
                                           ![dst] = InsertAndSweep(@, p[2], held)]
            ELSE /\ view' = view
                 /\ table' = [table EXCEPT ![src] = emptied]
         /\ move' = [move EXCEPT ![c] =
                       IF stop
                       THEN [move[c] EXCEPT !.pc = "repointed", !.todo = {}]
                       ELSE [move[c] EXCEPT !.todo = move[c].todo \ {p}]]
  /\ UNCHANGED <<arena, kids, miss, changes>>

\* The last step of the move: the source leaves its parent, if it has one.
DetachSource(c) ==
  /\ GilFree
  /\ move[c].pc = "repointed"
  /\ kids' = [kids EXCEPT ![move[c].src] = Detached(@, move[c].top)]
  /\ move' = [move EXCEPT ![c] = NoMove]
  /\ UNCHANGED <<table, arena, view, miss, changes>>

Next ==
  \/ \E c \in Call, h \in Holder, n \in NodeId : BeginMiss(c, h, n)
  \/ \E c \in Call, w \in Wrapper : FinishMiss(c, w)
  \/ \E c \in Call : FailMiss(c)
  \/ \E w \in Wrapper : Drop(w)
  \/ \E h \in Holder, n \in NodeId : Extract(h, n)
  \/ \E h \in Holder, p, n \in NodeId : Attach(h, p, n)
  \/ \E c \in Call, src, dst \in Holder, s \in NodeId : Import(c, src, dst, s)
  \/ \E c \in Call : BeginRepoint(c)
  \/ \E c \in Call, p \in NodeId \X NodeId : RepointPair(c, p)
  \/ \E c \in Call : DetachSource(c)

Spec == Init /\ [][Next]_vars

-----------------------------------------------------------------------------
(***************************************************************************)
(* Every table keeps its counters, its tracked list and its sweep size     *)
(* exact, whatever calls run inside one another.                           *)
(***************************************************************************)
TablesOK == \A h \in Holder : TableOK(table[h])

(***************************************************************************)
(* A cached live wrapper views the very node it is cached under: a hit may *)
(* return it as it is, with no refresh (the claim of proxy_for_id's        *)
(* phase 1), even after the wrapper was moved across documents.            *)
(***************************************************************************)
HitsAreAccurate ==
  \A h \in Holder, n \in NodeId :
    table[h].slot[n] \in Wrapper => view[table[h].slot[n]] = Ref(h, n)

(***************************************************************************)
(* A live wrapper is the one cached for its node, so no node ever has two  *)
(* live wrappers: root[0] is root[0].                                      *)
(***************************************************************************)
IdentityStable ==
  \A w \in Wrapper :
    view[w] # None => table[view[w].holder].slot[view[w].id] = w

(***************************************************************************)
(* The child lists of the source subtree are still the ones that were      *)
(* copied: no other call has edited them since Import.                     *)
(***************************************************************************)
SourceUnchanged(c) ==
  \A s \in DOMAIN move[c].copy : kids[move[c].src][s] = move[c].shape[s]

(***************************************************************************)
(* When repoint_subtree is over, with the loop run out, cut short by the   *)
(* early break or skipped by the fast path, no live wrapper still views a  *)
(* node that was copied, unless the source was edited in between: the      *)
(* references the program held all follow the subtree.                     *)
(***************************************************************************)
MoveTakesAllWrappers ==
  [][\A c \in Call :
       Pending(c) /\ move'[c].pc = "repointed" /\ SourceUnchanged(c) =>
         \A s \in DOMAIN move[c].copy, w \in Wrapper :
           view'[w] # Ref(move[c].src, s)]_vars

(***************************************************************************)
(* A wrapper that lives through a step keeps its node, unless a move takes *)
(* it to the other document.  It then views one of the nodes that this     *)
(* very move has created; and if no other call edited the source between   *)
(* Import and the walk, the one that is the copy of its own node: the      *)
(* pairs that repoint_subtree finds by position, in trees it did not see   *)
(* made, are the pairs that import_subtree made.                           *)
(***************************************************************************)
WrappersFollowTheirNode ==
  [][\A w \in Wrapper :
       view[w] # None /\ view'[w] # None /\ view'[w] # view[w] =>
         \E c \in Call :
           /\ move[c].pc = "repointing"
           /\ view[w].holder = move[c].src
           /\ view'[w].holder = move[c].dst
           /\ view'[w].id \in Copies(c)
           /\ SourceUnchanged(c) => /\ view[w].id \in DOMAIN move[c].copy
                                    /\ view'[w].id = move[c].copy[view[w].id]]_vars
=============================================================================
