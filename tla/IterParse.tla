------------------------------ MODULE IterParse ------------------------------
(***************************************************************************)
(* etree.iterparse: the whole input has been turned into pull events when  *)
(* the iterator is made, and __next__ replays them.  One call builds the   *)
(* tree ahead of the loop: it consumes events until a batch of results is  *)
(* pending or the input ends, and later calls are served from the queue.   *)
(* The replay runs without the GIL under the iterator's own mutex and      *)
(* takes the document mutex for each node only, so that other threads may  *)
(* call the iterator and edit finished elements in the middle of it.       *)
(*                                                                         *)
(* A node is known by the position of the event that made it.  The content *)
(* of a text node is the sequence of positions of the text events in it.   *)
(***************************************************************************)
EXTENDS Naturals, Sequences, FiniteSets

CONSTANTS
  Caller,     \* threads that loop over the iterator
  NoCaller,
  Job         \* inputs and options: see JobType

Kind == {"start", "end", "text", "cdata", "comment", "pi", "start-ns", "end-ns"}

CharData == {"text", "cdata"}

(* The pull events of an input, the events asked for, the kinds of markup *)
(* dropped, what becomes of CDATA, the names the tag filter accepts, and    *)
(* ITERPARSE_YIELD_BATCH, for which the program has one value.             *)
JobType ==
  [source : Seq([kind : Kind, name : STRING]), events : SUBSET (Kind \ CharData),
   removed : SUBSET {"comment", "pi"}, strip_cdata : BOOLEAN, tags : SUBSET STRING,
   batch : Nat \ {0}]

ASSUME IterParseAssumption ==
  /\ NoCaller \notin Caller
  /\ \A j \in Job : j \in JobType

VARIABLES
  job,      \* what this iterator replays; never changes
  pos,      \* events consumed so far; input_events is what lies behind
  stack,    \* open elements, innermost last
  pending,  \* results not yet handed out
  done,     \* input_events was found empty
  holder,   \* the caller inside next_detached's loop, with the state mutex
  kids,     \* child chains; node 0 is the document node
  text,     \* text[n]: the text events merged into text node n
  pc,       \* "loop", "filling" or "stopped" for each caller
  handed,   \* results handed out so far (history)
  cleared,  \* elements cleared by the loop body (history)
  cut       \* elements that lost their tail or were removed (history)

state == <<pos, stack, pending, done>>
tree == <<kids, text>>
history == <<cleared, cut>>
vars == <<job, state, holder, tree, pc, handed, history>>

Image(f) == {f[k] : k \in DOMAIN f}

source == job.source
Node == 0..Len(source)

-----------------------------------------------------------------------------
(* Which events produce a result.                                          *)
Kept(e) == e.kind \notin job.removed

Yields(e) ==
  /\ Kept(e)
  /\ e.kind \in job.events
  /\ e.kind \in {"start", "end"} => e.name \in job.tags

(* Text nodes, as opposed to preserved CDATA sections.                     *)
Mergeable(i) == source[i].kind = "text" \/ (source[i].kind = "cdata" /\ job.strip_cdata)

IsTextNode(n) == n # 0 /\ Mergeable(n)

IsCharData(n) == source[n].kind \in CharData

Init ==
  /\ job \in Job
  /\ pos = 0 /\ stack = <<>> /\ pending = <<>> /\ done = FALSE
  /\ holder = NoCaller
  /\ kids = [n \in Node |-> <<>>]
  /\ text = [n \in Node |-> <<>>]
  /\ pc = [c \in Caller |-> "loop"]
  /\ handed = <<>> /\ cleared = {} /\ cut = {}

-----------------------------------------------------------------------------
(* __next__                                                                *)
HandOut(c) ==
  /\ holder' = NoCaller
  /\ IF pending = <<>>
     THEN /\ pc' = [pc EXCEPT ![c] = "stopped"]
          /\ UNCHANGED <<pending, handed>>
     ELSE /\ pc' = [pc EXCEPT ![c] = "loop"]
          /\ handed' = Append(handed, Head(pending))
          /\ pending' = Tail(pending)

CallAskingDoneFirst(c) ==
  /\ pc[c] = "loop" /\ holder = NoCaller
  /\ IF done
     THEN pc' = [pc EXCEPT ![c] = "stopped"] /\ UNCHANGED <<holder, pending, handed>>
     ELSE IF pending # <<>>
     THEN HandOut(c)
     ELSE /\ holder' = c
          /\ pc' = [pc EXCEPT ![c] = "filling"]
          /\ UNCHANGED <<pending, handed>>
  /\ UNCHANGED <<job, pos, stack, done, tree, history>>

Call(c) ==
  /\ pc[c] = "loop" /\ holder = NoCaller
  /\ IF pending # <<>> \/ done
     THEN HandOut(c)
     ELSE /\ holder' = c
          /\ pc' = [pc EXCEPT ![c] = "filling"]
          /\ UNCHANGED <<pending, handed>>
  /\ UNCHANGED <<job, pos, stack, done, tree, history>>

FillingPastBatch(c) == holder = c /\ ~done /\ Len(pending) <= job.batch

Filling(c) == holder = c /\ ~done /\ Len(pending) < job.batch

Return(c) ==
  /\ holder = c /\ ~Filling(c)
  /\ HandOut(c)
  /\ UNCHANGED <<job, pos, stack, done, tree, history>>

(* The input is used up.                                                   *)
Exhaust(c) ==
  /\ Filling(c) /\ pos = Len(source)
  /\ done' = TRUE
  /\ UNCHANGED <<job, pos, stack, pending, holder, tree, pc, handed, history>>

(* One turn of the loop: the next event is of one of the kinds given.      *)
Pull(c, kinds) ==
  /\ Filling(c) /\ pos < Len(source)
  /\ source[pos + 1].kind \in kinds
  /\ pos' = pos + 1
  /\ UNCHANGED <<job, done, holder, pc, handed, history>>

Result(i, n) == [at |-> i, id |-> n]

EnqueueUnfiltered(i, n) == pending' = Append(pending, Result(i, n))

Enqueue(i, n) ==
  IF Yields(source[i]) THEN pending' = Append(pending, Result(i, n)) ELSE UNCHANGED pending

Parent == IF stack = <<>> THEN 0 ELSE stack[Len(stack)]

AppendUnderRoot(n) ==
  /\ kids' = [kids EXCEPT ![IF stack = <<>> THEN 0 ELSE stack[1]] = Append(@, n)]
  /\ UNCHANGED text

AppendChild(n) == kids' = [kids EXCEPT ![Parent] = Append(@, n)] /\ UNCHANGED text

PullStart(c) ==
  /\ Pull(c, {"start"})
  /\ AppendChild(pos + 1)
  /\ stack' = Append(stack, pos + 1)
  /\ Enqueue(pos + 1, pos + 1)

PullEndKeeping(c) ==
  /\ Pull(c, {"end"})
  /\ stack # <<>>
  /\ stack' = IF Yields(source[pos + 1]) THEN stack ELSE SubSeq(stack, 1, Len(stack) - 1)
  /\ Enqueue(pos + 1, Parent)
  /\ UNCHANGED tree

PullEndShowingParent(c) ==
  /\ Pull(c, {"end"})
  /\ stack # <<>>
  /\ stack' = SubSeq(stack, 1, Len(stack) - 1)
  /\ Enqueue(pos + 1, IF Len(stack) = 1 THEN stack[1] ELSE stack[Len(stack) - 1])
  /\ UNCHANGED tree

(* A well-formed input never finds the stack empty here: the stack holds   *)
(* what the input has open.                                                *)
PullEnd(c) ==
  /\ Pull(c, {"end"})
  /\ stack # <<>>
  /\ stack' = SubSeq(stack, 1, Len(stack) - 1)
  /\ Enqueue(pos + 1, Parent)
  /\ UNCHANGED tree

LastChild(p) == IF kids[p] = <<>> THEN 0 ELSE kids[p][Len(kids[p])]

AddOwnNode(i) ==
  kids' = [kids EXCEPT ![Parent] = Append(@, i)] /\ text' = [text EXCEPT ![i] = <<i>>]

(* append_text: text joins a text node that is the last child.             *)
AddText(i) ==
  IF Mergeable(i) /\ IsTextNode(LastChild(Parent))
  THEN text' = [text EXCEPT ![LastChild(Parent)] = Append(@, i)] /\ UNCHANGED kids
  ELSE AddOwnNode(i)

PullTextPeeking(c) ==
  IF stack = <<>>
  THEN /\ Filling(c) /\ pos < Len(source)
       /\ source[pos + 1].kind \in CharData
       /\ UNCHANGED vars
  ELSE Pull(c, CharData) /\ AddText(pos + 1) /\ UNCHANGED <<stack, pending>>

(* Text outside the root element is dropped.                               *)
PullText(c) ==
  /\ Pull(c, CharData)
  /\ IF stack = <<>> THEN UNCHANGED tree ELSE AddText(pos + 1)
  /\ UNCHANGED <<stack, pending>>

(* Comments and processing instructions.                                   *)
PullMarkup(c) ==
  /\ Pull(c, {"comment", "pi"})
  /\ IF Kept(source[pos + 1]) THEN AppendChild(pos + 1) ELSE UNCHANGED tree
  /\ Enqueue(pos + 1, pos + 1)
  /\ UNCHANGED stack

PullNamespace(c) ==
  /\ Pull(c, {"start-ns", "end-ns"})
  /\ Enqueue(pos + 1, 0)
  /\ UNCHANGED <<stack, tree>>

-----------------------------------------------------------------------------
(* The loop body, in whatever thread, edits elements it was given complete. *)
Finished == {handed[k].id : k \in {k \in DOMAIN handed : source[handed[k].at].kind = "end"}}

Home(n) == {p \in Node : n \in Image(kids[p])}

(* Where the tail of the k-th node of a chain ends.                        *)
TailEnd(s, k) ==
  CHOOSE m \in k..Len(s) :
    /\ \A j \in (k + 1)..m : IsCharData(s[j])
    /\ m < Len(s) => ~IsCharData(s[m + 1])

(* A chain without the tail of its k-th node, and without that node itself *)
(* when whole.                                                             *)
CutAt(s, k, whole) ==
  SubSeq(s, 1, IF whole THEN k - 1 ELSE k) \o SubSeq(s, TailEnd(s, k) + 1, Len(s))

Cut(s, e, whole) ==
  IF e \in Image(s) THEN CutAt(s, CHOOSE k \in DOMAIN s : s[k] = e, whole) ELSE s

Trimmed(e, whole) == [p \in Node |-> Cut(kids[p], e, whole)]

(* e.clear() and e.clear(keep_tail=True)                                   *)
Clear(e, keep_tail) ==
  /\ kids' = [IF keep_tail THEN kids ELSE Trimmed(e, FALSE) EXCEPT ![e] = <<>>]
  /\ cleared' = cleared \cup {e}
  /\ cut' = IF keep_tail THEN cut ELSE cut \cup {e}
  /\ UNCHANGED <<job, state, holder, text, pc, handed>>

(* e.getparent().remove(e): several native calls, between two calls of     *)
(* __next__.                                                               *)
Remove(e) ==
  /\ holder = NoCaller
  /\ Home(e) \notin {{}, {0}}
  /\ kids' = Trimmed(e, TRUE)
  /\ cut' = cut \cup {e}
  /\ UNCHANGED <<job, state, holder, text, pc, handed, cleared>>

Body == \E e \in Finished : (\E keep_tail \in BOOLEAN : Clear(e, keep_tail)) \/ Remove(e)

Serve(c) ==
  \/ Call(c) \/ Return(c) \/ Exhaust(c)
  \/ PullStart(c) \/ PullEnd(c) \/ PullText(c) \/ PullMarkup(c) \/ PullNamespace(c)

Next == Body \/ \E c \in Caller : Serve(c)

Spec == Init /\ [][Next]_vars /\ \A c \in Caller : WF_vars(Serve(c))

-----------------------------------------------------------------------------
(* The reference: which element contains an event, read off the input.     *)
Starts(i, j) == {k \in i..j : source[k].kind = "start"}
Ends(i, j) == {k \in i..j : source[k].kind = "end"}

(* The elements open after n events.                                       *)
Open(n) ==
  {i \in Starts(1, n) : \A m \in i..n : Cardinality(Starts(i, m)) > Cardinality(Ends(i, m))}

(* The latest of a set of events; 0 when there is none.                    *)
Latest(S) == IF S = {} THEN 0 ELSE CHOOSE i \in S : \A j \in S : j <= i

(* The innermost of them; 0 outside the root element.                      *)
Innermost(n) == Latest(Open(n))

(* What the first n events put into p.                                     *)
Content(p, n) ==
  {i \in 1..n : /\ Innermost(i - 1) = p
                /\ source[i].kind \in CharData \cup {"start", "comment", "pi"}
                /\ Kept(source[i])
                /\ p = 0 => ~IsCharData(i)}

(* The node whose tail the text event i belongs to; 0 for leading text.    *)
TailOwner(i) == Latest({j \in Content(Innermost(i - 1), i - 1) : ~IsCharData(j)})

-----------------------------------------------------------------------------
ResultType == [at : Node \ {0}, id : Node]

TypeOK ==
  /\ job \in Job
  /\ pos \in Node
  /\ stack \in Seq(Node \ {0})
  /\ pending \in Seq(ResultType) /\ Len(pending) <= job.batch
  /\ done \in BOOLEAN /\ (done => pos = Len(source))
  /\ holder \in Caller \cup {NoCaller}
  /\ kids \in [Node -> Seq(Node \ {0})]
  /\ text \in [Node -> Seq(Node \ {0})]
  /\ pc \in [Caller -> {"loop", "filling", "stopped"}]
  /\ \A c \in Caller : pc[c] = "filling" <=> holder = c
  /\ handed \in Seq(ResultType)
  /\ cleared \subseteq Node /\ cut \subseteq Node

(* Results leave in input order, none twice and none left out, whichever   *)
(* thread asks and however calls fall on batches.                          *)
Results == handed \o pending

DeliversInOrder ==
  /\ {Results[k].at : k \in DOMAIN Results} = {i \in 1..pos : Yields(source[i])}
  /\ \A j, k \in DOMAIN Results : j < k => Results[j].at < Results[k].at

(* StopIteration is raised only when everything has been handed out.       *)
StopsAtTheEnd == (\E c \in Caller : pc[c] = "stopped") => done /\ pending = <<>>

(* Between them, the callers receive every result once and in order before *)
(* the first of them is told to stop.                                      *)
DeliversEverything == DeliversInOrder /\ StopsAtTheEnd

(* An end result shows the element its tag closes, a start result the one  *)
(* it opens.                                                               *)
ShowsItsElement ==
  \A k \in DOMAIN Results :
    LET i == Results[k].at
    IN  Results[k].id = CASE source[i].kind = "end" -> Innermost(i - 1)
                          [] source[i].kind \in {"start", "comment", "pi"} -> i
                          [] OTHER -> 0

(* The content of p as positions: text nodes are replaced by what was      *)
(* merged into them.                                                       *)
InContent(p) ==
  UNION {IF IsCharData(n) THEN Image(text[n]) ELSE {n} : n \in Image(kids[p])}

Precedes(m, n) == \A i \in IF IsCharData(m) THEN Image(text[m]) ELSE {m},
                     j \in IF IsCharData(n) THEN Image(text[n]) ELSE {n} : i < j

(* The tree holds what the input says, in order; the only things missing   *)
(* are what the loop body took: content of cleared elements, removed       *)
(* elements, and tails of elements removed or cleared with their tail.     *)
(* An element handed out by its end event is therefore complete.           *)
TreeIsTheInput ==
  \A p \in Open(pos) \cup {i \in 1..pos : source[i].kind = "start"} \cup {0} :
    /\ InContent(p) \subseteq Content(p, pos)
    /\ \A j, k \in DOMAIN kids[p] : j < k => Precedes(kids[p][j], kids[p][k])
    /\ p \notin cleared =>
         \A i \in Content(p, pos) \ InContent(p) :
           IF IsCharData(i) THEN TailOwner(i) \in cut ELSE i \in cut

(* A cleared element stays empty, although the replay goes on.             *)
ClearedStaysEmpty == \A e \in cleared : kids[e] = <<>>

Merged(s) == \A k \in 1..(Len(s) - 1) : ~(IsTextNode(s[k]) /\ IsTextNode(s[k + 1]))

(* Text is one node: the replay and the edits between its steps never      *)
(* leave two text nodes as neighbours.                                     *)
TextIsMerged == \A p \in Node : Merged(kids[p])

(* Every loop ends: each caller is told to stop.                           *)
EveryLoopEnds == \A c \in Caller : <>(pc[c] = "stopped")
=============================================================================
