# A verification project for pyuppsala

pyuppsala is a Python extension in Rust: a native XML document (the external
crate *uppsala*), Python bindings to it (`src/src/lib.rs`) and an
lxml-compatible layer in Python (`src/python/pyuppsala/etree.py`). This
directory holds TLA+ models of its stateful parts, TLC configurations that
check them on small instances, and TLAPS proofs of what matters most for
instances of every size.

    tlc -workers 2 -config ProxyCache.cfg MCProxyCache
    tlapm ProxyCacheProofs.tla

## 1. The system

| part | state it keeps | operations | what makes it correct |
|---|---|---|---|
| **Proxy cache** (`DocHolderBase`, lib.rs 2537-2923) | per document: a vector of weak references indexed by node id, a list of tracked slots, an entry counter, a sweep size | look up or build the wrapper of a node; sweep dead entries; re-point the wrappers of a subtree copied to another document | one live wrapper per node; a wrapper follows its node into the copy; counters exact, as an early exit relies on them |
| **Batch parsing and fetching** (`parse_many`, `fetch_batch`, `fetch_one`, 5731-6150) | shared index, a slot per item, per worker an attempt counter; GIL released by the caller | spawn, claim, work, retry, store, join | every item worked on once, answers aligned with inputs, panics contained, the call returns |
| **Tag interning** (2018-2729) | table of (namespace, local name) to string per document | read `.tag` | one string object per name |
| **Child lists** (etree.py 461-591, 736-787, 941-1186) | sibling chains of elements and text nodes | append, insert, replace, slices, del, addnext, `.text`, `.tail`, clear | the list behaves as a Python list of (element, tail) pairs |
| **Child iteration** (`ProxyChildIterator`, 3480-3552) | the next raw sibling | `__next__` while the loop body edits | no child skipped, order kept |
| **Descendant iteration and scans** (2936-3478) | stack, buffer of up to 128 node ids | `iter`, `fast_*` | each node once, stale nodes tolerated |
| **Document locks** (two-document operations 2850, 4527; detached operations) | a mutex per document, the GIL | lock in address order, detach for long native work | no deadlock; no Python code under a lock |
| **iterparse** (3554-4060) | parser, tree under construction, event queue | feed, yield, clear | events in document order, cleared elements stay cleared |
| **Namespaces** (etree.py 185-355, 438-458, 610-663; lib.rs 3080) | prefix counter, declarations | generate a prefix, rename, inherit declarations on import | names keep their namespace through every move and rename |
| **Post-parse options** (3243-3335) | the parsed tree | strip, coalesce, convert CDATA | idempotent, order-preserving |
| **Byte decoding** (6361-6455) | none | choose an encoding, decode | BOM before declaration |
| **XPath, XSD, XSLT, serialization, writer** | small caches | forwarding to the crate | mostly pure |
| **XInclude** (etree.py 2758-2992) | none | expand includes recursively, read files and URLs | bounded depth and size, paths below the base, nothing lost on fallback |

How they meet: every etree call goes from a wrapper to its native node through
the document mutex; finding a child ends in the proxy cache; moving a child
between documents is an import (two mutexes), a re-pointing (two caches) and a
detach, three calls between which other code may run; the iterators finish in the proxy cache of the holder they captured;
batch calls hand documents back as fresh holders. The only shared memory
between threads is the documents (mutexes) and what the GIL protects (caches,
tag tables). The GIL is not held exactly where native work is detached, and can
change hands wherever Python objects are allocated.

Hard to test here: garbage collection that runs finalizers in the middle of a
cache miss; calls that overlap in that way; counters which let loops stop
early; native inserts whose reference node has been moved by the same call;
iterators over a tree their loop body edits; workers that panic, retry or
finish out of order; taking the GIL back. `PROJECT.json` lists these hazards
line by line with the properties that cover them.

## 2. Modules

    PyList, Lists <- ChildList <- ChildIter
                         ^            ^
                    MCChildList  ChildListProofs
    SlotTable, Lists <- LockStep <- ProxyCache <- MCProxyCache, ProxyCacheProofs
    Batch <= BatchFanout <- BatchFanoutProofs
    TagIntern <- DocLocks <- MCDocLocks, DocLocksProofs
    IterParse <- MCIterParse, IterParseProofs
    Lists <- Tree <- PostParse, Decode <- DescWalk <- MCDescWalk, DescWalkProofs
    Scope <- Namespaces <- BareNames <- MCNamespaces
                 ^
          NamespacesProofs                           (<- extended by, <= implemented by)

`Lists` has the two ways in which a list loses members, for child lists and for
scans. `LoopLemmas` holds what the proofs of `ChildList`, `DescWalk`,
`Namespaces` and `ProxyCache` share: a fold as an explicit loop, lists joined,
cut, sifted and flattened.

**SlotTable** is one cache as a data structure: `slot`, `len`, `tracked`,
`listed`, `entries` and `sweep_at` are the fields of `DocHolderBase`; the
operators `InsertSlot`, `RemoveSlot` and `SweepDead` are its three methods.
`TableOK` says that the counters are exact.

**LockStep** is the trees as child lists, and the walk of two of them by which
`repoint_subtree` pairs nodes: the children of a pair by position, as long as
both lists last. A node stands for itself and its tail, which moves along and
has no wrapper.

**ProxyCache** is several documents' caches and trees and the calls in progress.
A lookup that misses is two actions, `BeginMiss` and `FinishMiss`, because the
borrow is released in between and Python is called; anything may run there. A
cross-document move is what `_clone_into_self` does: `Import` copies the
subtree as it is, `BeginRepoint` computes the pairs from both trees as they are
by then, `RepointPair` moves one wrapper, and `DetachSource` takes the source out
of its tree. Lookups, edits and other moves, of the same or of overlapping
subtrees, may come between these calls, but not into the walk, which holds the GIL.
`Extract` and `Attach` are the halves of every edit within a document; `Attach` also
puts the arrived copy in its place. Nobody but the moving call has a handle
of a copy before its walk is over, so the copies are `Reachable` only then. `Drop`
is the death of a wrapper, which kills its weak references. `SameNodeMiss`
says whether two misses of the same node may overlap. `copy` and `shape` are
history: what the copy of each node is, and the child lists that were copied.

**Batch** is the promise of a batch call: items are resolved in any order, then
the call returns them all. **BatchFanout** is the code, and states the
refinement with the instance `Promise`: the calling thread
(`Detach`, `Spawn`, `Join`, `Reattach`, `WrapUp`), the workers (`Claim`,
`Succeed`, `Fail`, `Wake`, `ReadFile`, `FailFile`, `Panic`, `Store`) and the
other Python threads competing for the GIL (`OthersTake`, `OthersRelease`).
`parse_many` is the instance without retries. `Succeed` abstracts a parse or an
HTTP exchange; a `file://` read keeps its length arithmetic at a finite width.
`Got` is `fetch_batch` as `fetch_many` calls it, with the outcome of `fetch_one`
passed on; `fetch_and_parse_many` makes an error of an answer with a status outside
2xx or a body that does not parse, and never asks again for it. So `ErrorsAreFinal`
is about `fetch_one`, not about every error in a batch.

**TagIntern** is the tag getter: a look under the mutex (`ReadHit`,
`ReadMiss`), a second one without it (`LookUpHit`, `LookUpMiss`), an allocation
and the settling under the borrow (`Intern`). Its second look (`lookup_tag`
inside `intern_tag`) comes before any Python object is created, so in the
composition nothing can run between the two and it never hits. The third one, after the
allocation, does.

**DocLocks** composes that getter with the locks. A native call is the list of
what it still has to do: take or drop a mutex, give the GIL away and take it
back, read or edit a document, create Python objects. `Handlers` is the set of
such lists, one for each shape of call in `lib.rs`: plain reads and edits,
detached reads (serialization, validation, bulk scans), post-processing,
`_replace_xml`, the two-document operations, `__next__` and `root` of
iterparse, and the tag getter. The actions are one per kind of step, with its
failure (`Fail`, `RefusePoisoned`, `Panic`). A finalizer is a call of the same
thread at depth 2, which can begin only where the outer one creates objects.

**Tree** is a document as nodes with kinds, children, texts and one attribute:
the sibling walks, the text runs behind `.text` and `.tail`, the descendant walk
(`AdvanceWalk`, `TakeMatches`) and the `fast_*` scans built on it. `PreOrder` is
the reference they are compared with, and `IsTree` says what links a document
has: of any set of nodes one has no child in the set, so walks down end. **PostParse** is what the parser options do
(`FilterTree`, `CoalesceTree`), and `Expected` says what should come out.
**Decode** is the choice of an encoding and the decoding; `Encode` is its
reference. **DescWalk** runs these one behind the other: bytes, document,
options, and a loop over `iter()` whose body removes, appends and clears nodes.
`Start` and `NextMatch` are `__iter__` and `__next__` of both iterators: batches
of one are the native one, larger ones stand for `BATCH_SIZE` = 128.

**Scope** reads a document: the declarations a copy or a standalone
serialization takes along, `nsmap` and the validator's copy. `Resolve` is the
reference: the nearest declaration; `IsDocument` says what a document is.
**Namespaces** edits it: attributes,
declarations, renames, subelements and moves, with the choice of prefixes
(`EnsureNsPrefix`, `PrefixForNs`, `NewPrefix`, `FinalizeElementNs`). Local names
are left out; "" stands for no prefix, no namespace and the default declaration;
`Strings` is whatever prefixes and namespaces are taken from;
the registry of `register_namespace` is a constant. Which prefix an attribute
keeps when its value is replaced is up to the crate, hence nondeterministic.
**BareNames** has the three searches for bare names under a default namespace
(`ValidationDefaultNames`, `QualifyDefaultNamespaceSubtree`,
`HasBareNameUnderDefault`), which are recursive walks and hence outside the prover.

**ChildList** is the sibling chain and every edit. The operators follow the
helpers of etree.py one for one (`Extract`, `Attach`, `AttachTail`,
`AdoptAll`, ...), built on the four native operations (`AppendChild`,
`InsertBefore`, `InsertAfter`, `DetachAll`), so that what a call reads before
and after it has moved nodes stays visible. **PyList** is the reference: the
same edits on lists of (element, tail) pairs. `View` maps the first to the
second. Elements are leaves. A move between documents is, at this level, a
move: `ProxyCache` shows that wrappers follow.

**ChildIter** adds the iterator (`cursor` is the field `next`) and a loop body
that edits what it has been handed.

**IterParse** is the iterator of `iterparse`. The pull events of the whole
input exist before the first call (`collect_iterparse_events`); `job` is that
input with the options, and `pos` how much of it has been replayed. `Call`,
`Pull...`, `Exhaust` and `Return` are `__next__`: while one caller replays
events it holds the iterator's mutex, not the GIL, so that the other callers'
loop bodies (`Clear`, `Remove`) run between any two events. A node is named by
the position of the event that made it, and a text node holds the positions
merged into it, so that the reference (`Content`, `Innermost`: which element
contains an event) can be read off the input without a stack. `Remove` is
several native calls and is modelled between two calls of `__next__`. The
construction of the wrapper after `next_detached` is a lookup of `ProxyCache`.

## 3. What the runs check

| run | bounds | question |
|---|---|---|
| `proxy_cache` | 2 documents, one a root with two children and one empty; 2 wrappers, 2 calls, arenas of at most `MaxId` = 4 nodes, `MaxChanges` = 2 edits and imports, sweeps from size `SweepMin` = 2 | are tables exact and hits accurate, has a node one live wrapper, does a walk take all wrappers along, does a wrapper change node only in a walk, to a copy of that move, and to its own node's copy unless the source was edited? |
| `proxy_cache_identity_reentrant` | as `proxy_cache`, 3 nodes, no edits, with misses of one node overlapping | **violated**: two live wrappers for one node |
| `batch` | 3 items (1 file), 2 workers, 1 retry, 2-bit `UMax` | exclusive claims, nothing lost, slots aligned, errors final, bodies whole or refused; does the fan-out implement `Batch`, including that it returns? |
| `doc_locks` | 2 threads, one with a finalizer's call; 2 documents, one being built by iterparse; 1 name, 2 strings | one lock order, no lock across Python code, no circular wait, no half-edited document read, one string per tag? |
| `child_list_edits` | 4 elements, 3 text nodes, 2 parents, right-hand sides of up to `MaxNew` = 2 | does every edit agree with the list reference? |
| `child_list_self_replacement` | 3 elements, 2 text nodes | **violated**, see below |
| `child_iter_walk` | chains of up to `MaxLen` = 6 nodes (4 elements, 2 texts), `MaxEdits` = 3 | does a loop meet every child, in order? |
| `child_iter_extend` | chains of up to 5 nodes | **violated**: `dst.extend(src)` stops early |
| `desc_walk` | byte strings of up to 3 bytes of an alphabet of 11, every encoding of two texts, whole or cut short; trees of 6 and 12 nodes, all options, 3-bit-wide sums, batches of 1 and 3, `MaxEdits` = 2 and 1 | is decoding faithful, do the options do what they say, do views and scans agree with the pre-order, does a loop hand out what it leaves alone once and in order? |
| `iterparse_replay` | inputs of up to `MaxInner` = 4 events inside the root and one long input, batches of 1 to 3 results, 2 callers | are results complete, in order and about the right element, does the tree lose only what loop bodies took, do cleared elements stay empty, do all loops end? |
| `namespaces` | 3456 three-element documents (chain and fork, 6 declaration lists per element) to read, 44 of two elements to edit once or twice | do copies, standalone texts, `nsmap` and the searches agree on what every prefix means; does a chosen prefix mean the namespace it was chosen for; does a bound prefix keep its meaning? |
| `prefix_shadowed` | the 44 | **violated**: a hidden prefix is taken |

The invariants of a run are conjunctions of named parts where one question has
several (`EditsAgreeWithList`, `SlicesAgreeWithList`, `ReadersAgree`,
`ScopeIsKept`, ...); `PROJECT.json` has a mutant for the parts as well. That the
slots of a batch are aligned is part of implementing `Batch`, whose `Resolve`
puts an outcome of item i into slot i.

Why the bounds suffice. Two documents and two calls give every pairing of a
lookup with a lookup, a move, an edit or a drop; four nodes and a sweep size of two
reach insertion over a tombstone, sweeps during a move and the early exit. Two
changes are an import and an edit of its source, or two imports of overlapping
subtrees, each of which ends with a detaching of its own; two children are enough
for the second to take the first one's place. Two wrappers live at once only while
no arena is full (`FewWrappers`): a full one is needed for the copies of a tree and
of its child beside each other, where one wrapper can go astray. Copies take the new
ids in the order of their nodes' ids (`CopiesInOrder`). The theorems are for any
number of each and any order. With
two workers and three items a worker claims while the other retries, and both
overrun the index. Four elements let a slice replace, keep and reuse children
at once, and three texts let a tail have two nodes beside a leading text; an
anchor depends on the next one or two children only. Elements, texts,
wrappers and calls (not the holders, whose documents differ) are symmetric: no
definition tells them apart, and the runs with symmetry check no liveness. `ChildIter` stops when its loop does, so
deadlock is not checked there.

`proxy_cache` does not let two misses of the same node overlap, as identity then
fails (the next run). `TablesOK`, `HitsAreAccurate` and `WrappersFollowTheirNode`
hold with such misses too: their theorems are for both values of `SameNodeMiss`.

In `doc_locks` the documents are addresses 1 and 2: two suffice for a reversed
order, and two threads for a circle; the finalizer's call is the third actor, for
a lock wanted by the thread that holds it. Its calls begin at any time and without
end, so deadlock would be a state in which nobody can move: it is checked.

The byte alphabet of `desc_walk` has both bytes of each mark, the bytes that
begin and continue UTF-8 sequences of two and three bytes, surrogate halves, the
first byte of a document and zero. The small tree has nested elements of one name, a tail,
and a sum that overflows on the way; the large one every kind of node beside
every other, on two levels. A batch of three is partly used when an
edit comes, exhausted, or short. The three-element documents of `namespaces` have a prefix
declared, hidden, undeclared and repeated on every level of a line and of a
fork. Both runs bound the edits, so deadlock is not checked.

Batches of one to three results put the end of a batch
before, between and behind the events of four-event contents, which include
two elements with tails, a tail of text and CDATA, and nested elements; a batch
of three is needed for an input that ends while results are pending. `IterParse`
stops when its loops do (no deadlock check); that they all stop is the liveness
property.

`TreeIsTheInput` also says what it does not promise: whether `clear()` at an end
event takes the element's tail along depends on whether the tail was replayed
in the same batch, so a loop should not rely on either.

The properties of `ChildList` quantify over all calls and arguments in every
reachable state, so they do not depend on which action made the state.

### Disagreements found

1. **Two wrappers for one node.** `proxy_for_id` builds the wrapper with no
   borrow held, so that a finalizer may re-enter, and then inserts without
   looking at the slot again. If the finalizer looked the same node up and kept
   the wrapper, the entry is overwritten. `intern_tag` does look again.
2. **Self-replacement.** `replace(x, x)` and `el[i] = el[i]` remove x. The
   result does not hang on the native insert with a detached reference: the
   extraction of the old child follows it.
3. **extend from an element.** The child iterator remembers the next raw
   sibling. After a child with a tail that is its tail text, which moves along
   when the loop body moves the child: the walk goes on behind it in the
   destination and ends. Any loop that moves or removes the current child, or
   drops its tail, ends early when that child has a tail.
4. **Hidden prefix.** `_ensure_ns_prefix` (and `_finalize_element_ns`) take the
   first declaration of the namespace on the way up, even if a nearer one gives
   its prefix to another namespace. In `<r xmlns:a='u'><x xmlns:a='v'/></r>`,
   `x.set('{u}k', '1')` makes `a:k`, which means v there; the docstring promises a
   prefix "in scope on this element". `NamesResolveUnlessHidden` says that this
   is the only way a chosen prefix can mean something else.

Some behaviour is worth knowing though no statement of the repository is against
it. The properties leave it out, and name it where they do:

- a slice whose stop lies before its start is spliced in at stop (`el[1:0] = [x]`
  on one child inserts before it), where a list inserts at `start`;
- a slice with a negative step visits its slots backwards, but fills those with
  one anchor in visiting order: `el[::-1] = [x, y]` stores x, y unreversed;
- a registered prefix (the table has entries from the start) is declared
  without a look at what it means there: it replaces or hides a binding
  that names below may still use;
- a move within one document carries no declarations along;
- the comment in `repoint_subtree` (lib.rs 2877) says that the walk by position pairs
  source and clone exactly, because children are cloned in document order. It
  does as long as the source is what was cloned. The walk is a call of its own,
  though: a child that another thread, a finalizer or an overlapping move has
  detached since the import shifts the pairs of its later siblings, and their
  wrappers end on the clones of others. Without `SourceUnchanged` in its last line,
  `WrappersFollowTheirNode` fails in `proxy_cache` after an import of the root and a
  complete move of its first child. As it stands, it says that the wrapper then
  still ends on a copy that this move has made; `MoveTakesAllWrappers` has the
  same condition;
- a lookup that is under way when its node's subtree moves to another document
  inserts its wrapper on the source node, which is then in no tree (or in the
  tree somebody else has put it in): the wrapper is accurate and the only
  one of that node, so all properties of the cache hold;
- `set("xmlns:p", "")` is accepted, and serializes to what no parser takes.

### Fairness

`iterparse_replay` assumes of each caller that it keeps calling `__next__`
until it is told to stop, and of the mutex that a free one is given to somebody
who waits: the input is finite, so callers stop one after the other and nobody
is passed over for ever.

`doc_locks` assumes no fairness: its properties are about safety only, for the
document mutexes are the standard library's and promise no order.

`batch` needs more. Steps of the operating system's threads are
weakly fair: a spawned worker runs, a sleep ends. A read, a parse or a fetch
ends: it is bounded by input size or by the client's timeout. Taking the GIL
back is strongly fair and other holders release it, for the interpreter hands
it over on request at every switch interval, but others may take it again any
number of times.

## 4. What is proved

| module | theorems | argument |
|---|---|---|
| `ProxyCacheProofs` | `TypeCorrect`, `TablesExact`, `HitsAccurate` | `CacheInv`: the trees are forests (`LinksOK` is kept by attaching, detaching and copying) and moves are within their arenas; the first lemmas say that the three methods of a slot table preserve `TableOK` and what they do to live entries |
| `ProxyCacheProofs` | `WrappersFollow` | `CopiesInv`: nobody has a handle of a pending copy, so it keeps the child lists it was made with (`CopiesWait`) and shares no node with another pending one (`CopiesApart`, `TopsApart`); only one call walks (`OneMover`). Hence the walk leads from the copied top to copies only. If the source still has the child lists that were copied, source and copy have children at the same positions, and the set of all (node, its copy) is closed under `ChildPairs`: no pair lies outside of it, and none is missing, since the nodes whose pair is reached include the top and the children of each |
| `ProxyCacheProofs` | `Identity`, `MovesComplete`, from `SameNodeMiss = FALSE` | `IdentityInv`: pending copies are not cached (`NotCached`), a walk pairs no copy twice, pairs done have no cached source left (`PairsDone`), a node in a miss has no live wrapper, is in no other miss and is no pending copy (`MissesAlone`). The early exit is safe because an exact counter of zero means a table without wrappers |
| `BatchFanoutProofs` | `TypeCorrect`, `Exclusive`, `NothingLost`, `EachOnce`, `Aligned`, `ErrorsFinal`, `BodiesWhole`, `ImplementsBatchSafety` | every index below `next` is either held by exactly one worker or stored, and every index beyond it untouched; a worker's phase determines its item and attempts |
| `IterParseProofs` | `TypeCorrect`, `InOrder`, `StopsLast`, `DeliversAll`, `ClearedForGood`, `TextMerged` | `IInv`: handed-out and pending results together are the results of the events replayed; the stack is increasing, hence free of duplicates, so an element popped for its end result never comes back and is never the parent again (`ClosedForGood`); what follows a tail is no text, so cutting one joins no text nodes |
| `DocLocksProofs` | `TypeCorrect`, `OneObject` (of `TagIntern`) | entries, strings in the making and names are pairwise unshared, and what was returned is the entry |
| `DocLocksProofs` | `LockTypeCorrect`, `LockOrder`, `WholeReads`, `ImplementsTagIntern`, `OneObjectWithLocks`, `TagTypesWithLocks` | the rest of every call is a suffix of one of the handlers; a mutex is held by a call exactly if its rest drops it before it takes it; hence who takes a mutex holds only smaller ones, who is in Python holds none, and a document half edited is held. Every step is a step of `TagIntern` or leaves its variables alone, which gives the tag theorems for the composition |
| `DocLocksProofs` | `NoDeadlock` | only finitely many calls are ever active (`FewAreActive`). Suppose each of a set of them waits for another. If some hold a mutex, each of these waits for a mutex that another of them holds, which by the lock order waits for a greater one, and the one that waits for the greatest has nobody to wait for. If none does, they wait for the GIL or for the Python code they called, and the innermost call of the thread that has the GIL goes on |
| `IterParseProofs` | `ShowsElement`, `TreeFollowsInput` | `StackIsOpen`: the stack holds exactly the elements the input has open, and above each as many as its starts and ends so far leave over, so the element popped for an end is the one that opened it. `ChainsHold`: the child list of every element is the content of the replayed input inside it, less what `Clear` and `Remove` took, text merged |
| `ChildListProofs` | `NodesHaveOnePlace`, `OthersStay` | every operation of etree.py is a run of native ones. A fold over a list of children is an explicit loop, whose invariant says that chains stay disjoint and duplicate-free (`Sound`) and that nodes outside a given set keep parent and order (`Unmoved`). One lemma per helper names the set it moves; the calls compose them |
| `ChildListProofs` | `EditsAgree` | a chain without repeated nodes is a leading run of text and then elements, each with its run. So the entries a chain shows (`Row`) join as the chain joins: `RowParts`, `RowBlock`. An element that leaves takes one entry along (`ExtractShows`); attaching it with its tail at an anchor puts a block there, which is one entry at the anchor's index (`AttachIs`, `PlacedShows`). Each call is then a cut of the chain, and the reference operation the cut of the list at the same place; `extend` and `del` are loops of such steps |
| `ChildListProofs` | `SlicesAgree` | both assignments first take the selected and the reused elements out (`CutShows`: the chain and the list lose the same entries), then put the right-hand side back before anchors read in between. `el[i:j]` has one anchor, the first child to stay behind the slice (`PlaceInRow`). `el[i:j:k]` has one for each place: the entries that stay are cut at the places, and after n placements the chain is the first n pieces, each with its new entry, and then the rest (`Slotted`, `SlotStep`); the anchor of a place is the first child of what is still to come (`AnchorsFit`) |
| `ChildListProofs` | `WalksInOrder`, `WalksWhole`, from `CarriesCursor = FALSE` | `WalkInv`: the original children still owed stand in the source's chain at the iterator's node or behind it, in their first order. Edits of children already handed out and of new ones move only those and their tails, so the owed ones stay. The assumption is the loop the iterator's contract is about: `child_iter_extend` shows what happens without it |
| `DescWalkProofs` | `WalkTyped`, `WalkedOnce`, `RemovedStaysOut` | `WalkInv`: what was handed out and what is to come (`Trace`: the rest of the buffer, then the matches among the pre-orders of the stack) together list every undisturbed match once and in the order of the tree the loop began with (`InOrder`), every node not moved at most once (`Counted`), and no node that is `out` is to come (`StaysOut`). Pre-order and the walk are recursive functions on nodes and stacks; both are unfolded by induction over the tree (`PreOrderIs`, `TreeInduction`), so a step of the walk takes the first of what is to come and a refill moves matches from stack to buffer (`AdvancedServes`). An edit moves or unlinks nodes of a set closed under children; outside it pre-orders do not change (`SiftListing`, `EditWalking`). A node a batch ahead is not in the buffer, so an ancestor of it is still on the stack (`FarAhead`), and unlinking takes it out of what is to come. The parser options leave a tree (`PostprocessKeeps`) |
| `DescWalkProofs` | `SumIsExact` | by `WalkInv` the tree is one, so the values are integers of the range or `NotANumber`; both folds are loops, and the checked one is the exact one until the first value that does not parse or the first total out of range (`ExactlyNext`) |
| `DescWalkProofs` | `ReadersAlwaysAgree` | an undisturbed walk lists the matches of the pre-order (`ScanIs`). The text of a child list, from any place on, is the run there and the tails of the content children that follow (`CoversNext`, from the end of the list forward); the siblings of a content child stand next to it among the content children because sifting a list around an entry sifts its two sides (`SiftAround`). A pre-order names a node once (`PreOrderOnce`), so the scan of a group reports an item once or not at all, and the groups that do are those around it (`AlongOften`, `OnceCounts`) |
| `NamespacesProofs` | `TypeCorrect` | a document is a tree: of any set of elements one has its parent outside (`IsForest`). Hence the line of an element is what `Line` computes and ends (`Line` is unfolded by well-foundedness), attaching below an element that is not below the moved one keeps the tree, and detaching does. Every declaration an operation makes is checked first (`ValidDeclaration`, `ValidQName`), and replaces one of its prefix |
| `NamespacesProofs` | `NamesResolve` | `ChosenIsSeen`: the pair of the chosen prefix and its namespace is declared on the way up from where it was written. The nearest declaration of the prefix is that one, or it hides it |
| `NamespacesProofs` | `Bindings` | a declaration changes what its own prefix means, below it. A generated prefix is one nobody on the way up declares, so it had no meaning there and below it was hidden or unbound; a reused one changes nothing |
| `NamespacesProofs` | `ScopeKept` | the three walks are loops over the line of an element, and the first declaration of a prefix met on the way up is the nearest; read from the outside in, the last is. So each list a walk gathers tells of every prefix what the line tells. The copy of an element has the line of its source cut at the copied top, whose start tag got that list: nearest declarations agree |

The theorems hold for all sets of documents, threads, wrappers, calls, items,
workers, names and inputs (for `IterParse` even ill-formed ones), documents of every
size and shape, and all arena sizes,
thresholds, batch sizes, retries and integer widths, under the ASSUMEs of the
modules only (sentinel values lie outside the data; counts are naturals; there
is at least one CPU; the documents that are edited first are documents or, in
`ProxyCache`, forests; and no
prefix is registered as `xmlns`; what the crate's parser returns is a tree). The runs evaluate these assumptions.

Model-checked only: that a batch and a loop end (liveness under fairness is
outside the prover); `QualifiersAgree` of `BareNames`, whose walks are RECURSIVE
operators; and of `DescWalk` that decoding is faithful and that the options drop
only what they name.

## 5. What is not modelled, and the plan

Not modelled, with the reason in `PROJECT.json`: the crate's parser and engines
(XPath, XSD, XSLT, the writer and the regex builder are forwarded to
it: only their locks, and the subtree handed to them, are ours), XInclude
(Python code, etree.py 2758-2992, with a depth bound, a path check and a byte limit
of its own: a sequential recursion over paths and files, whose edits are those
of `ChildList`), HTTP, formatting and escaping, the ElementPath compiler (strings to steps), the capsule
for other extensions, characters above the basic plane, `replace_child` and the
creation of single nodes.

A native insert relative to a node that is not a child is outside the crate's
contract; `ChildList` takes it to leave the new node detached, which only the
self-replacement run meets. `ChildList` asks for distinct elements on a
right-hand side in its agreement properties, and for `e # self` in its sibling
calls; its elements are leaves. Python threads that edit one tree at once are
modelled in `doc_locks` and, around a cross-document move, in `ProxyCache`, and
nowhere else: like lxml, the library promises nothing for them but the
consistency of single native calls.

Left to do:

1. Subtrees in `ChildList` and a move below oneself, which `Attach` of `ProxyCache`
   leaves out as well, once what the crate does with a cycle is known.
2. XInclude: that expansion keeps the order of text and children, what is lost
   when a fallback fails, and that the depth bound stops documents that include
   one another.
3. Proofs of `DecodingIsFaithful` and `OptionsKeepTheRest`.
