----------------------------- MODULE PatchList -----------------------------
(***************************************************************************)
(* PatchList (utils_gen.go), the doubly linked ring of container/list, and *)
(* what DBContext does with two of them (db_ctx.go): the buffer, and the   *)
(* copy of it that CompilePatch gives to the compiler.  That one is a copy *)
(* of the list's head only; the elements are those of the buffer.          *)
(*                                                                         *)
(* A node is an element, 1, 2, ..., or the root of a list; 0 is nil.       *)
(***************************************************************************)
EXTENDS Integers, SequencesExt

CONSTANTS
  Patches,
  MaxElement, MaxOps   \* bounds: elements there have ever been, operations

ASSUME PatchListAssumption == MaxElement \in Nat /\ MaxOps \in Nat

Buffer == -1
View == -2      \* CompilerOptions.Patches
TxBuffer == -3  \* the buffer of the clone of UseTx
Own == -4       \* a list of the program's own
Other == -5     \* and another
Lists == {Buffer, View, TxBuffer, Own, Other}
Programs == {Own, Other}

VARIABLES
  heap,   \* [next, prev, list, len, value]: next and prev of each node
  curr,   \* the element the compiler is at
  ops,
  \* history
  contents, rest,  \* what going through each list, and on from curr, comes to
  taken, given  \* the elements of the buffer at CompilePatch; those compiled of them

vars == <<heap, curr, ops, contents, rest, taken, given>>

Elements == DOMAIN heap.value

-----------------------------------------------------------------------------
(* container/list *)

Cleared(h, l) ==
  [h EXCEPT !.next[l] = l, !.prev[l] = l, !.len[l] = 0]

FrontOf(h, l) == IF h.len[l] = 0 THEN 0 ELSE h.next[l]
BackOf(h, l) == IF h.len[l] = 0 THEN 0 ELSE h.prev[l]

\* A neighbour, unless it is the root of the list the element says it is in.
NextOf(h, e) == IF h.list[e] # 0 /\ h.next[e] # h.list[e] THEN h.next[e] ELSE 0
PrevOf(h, e) == IF h.list[e] # 0 /\ h.prev[e] # h.list[e] THEN h.prev[e] ELSE 0

\* insert: e is put after at.
Linked(h, l, e, at) ==
  LET n == h.next[at] IN
  [h EXCEPT !.next = [h.next EXCEPT ![at] = e, ![e] = n], !.prev = [h.prev EXCEPT ![e] = at, ![n] = e],
            !.list[e] = l, !.len[l] = @ + 1]

Unlinked(h, l, e) ==
  [h EXCEPT !.next = [h.next EXCEPT ![h.prev[e]] = h.next[e], ![e] = 0],
            !.prev = [h.prev EXCEPT ![h.next[e]] = h.prev[e], ![e] = 0],
            !.list[e] = 0, !.len[l] = @ - 1]

\* insertValue: a new element.
InsertedValue(h, l, p, at) ==
  Linked([h EXCEPT !.value = Append(@, p)], l, Len(h.value) + 1, at)

\* move; an element that is there already stays.
Moved(h, l, e, at) == IF e = at THEN h ELSE Linked(Unlinked(h, l, e), l, e, at)

\* The loops of PushBackList and PushFrontList: through other, from its front or
\* its back, as often as it is long.  l may be other.
Start(h, other, forward) == [heap |-> h, e |-> IF forward THEN FrontOf(h, other) ELSE BackOf(h, other)]
Further(s, l, forward, atBack) ==
  LET g == InsertedValue(s.heap, l, s.heap.value[s.e], IF atBack THEN s.heap.prev[l] ELSE l)
  IN [heap |-> g, e |-> IF forward THEN NextOf(g, s.e) ELSE PrevOf(g, s.e)]
Copied(h, l, other, forward, atBack) ==
  LET after[i \in 0..h.len[other]] ==
        IF i = 0 THEN Start(h, other, forward) ELSE Further(after[i - 1], l, forward, atBack)
  IN after[h.len[other]].heap

BackListPushed(h, l, other) == Copied(h, l, other, TRUE, TRUE)

\* Mutant of FrontListPushed: in the order of PushBackList, which turns them round.
FrontListPushedForward(h, l, other) == Copied(h, l, other, TRUE, FALSE)

FrontListPushed(h, l, other) == Copied(h, l, other, FALSE, FALSE)

\* What going through a list from an element comes to.
From(h, e) ==
  LET at[i \in 1..MaxElement + 1] ==
        IF i = 1 THEN e ELSE IF at[i - 1] = 0 THEN 0 ELSE NextOf(h, at[i - 1])
  IN [i \in {j \in 1..MaxElement + 1 : at[j] # 0} |-> at[i]]

-----------------------------------------------------------------------------
(* PatchList *)

Op == ops < MaxOps /\ ops' = ops + 1
ContentsOf(h) == [l \in Lists |-> From(h, FrontOf(h, l))]
Seen == contents' = ContentsOf(heap') /\ rest' = From(heap', curr')
Changes(h) == heap' = h /\ UNCHANGED <<curr, taken, given>> /\ Seen
Room(n) == Len(heap.value) + n <= MaxElement

PushBack(l, p) == Op /\ Room(1) /\ Changes(InsertedValue(heap, l, p, heap.prev[l]))
PushFront(l, p) == Op /\ Room(1) /\ Changes(InsertedValue(heap, l, p, l))

InsertAfter(l, p, mark) ==
  Op /\ Room(1) /\ heap.list[mark] = l /\ Changes(InsertedValue(heap, l, p, mark))
InsertBefore(l, p, mark) ==
  Op /\ Room(1) /\ heap.list[mark] = l /\ Changes(InsertedValue(heap, l, p, heap.prev[mark]))

\* PatchList.Remove.
RemoveElement(l, e) == Op /\ heap.list[e] = l /\ Changes(Unlinked(heap, l, e))

MoveToFront(l, e) == Op /\ heap.list[e] = l /\ Changes(Moved(heap, l, e, l))
MoveToBack(l, e) == Op /\ heap.list[e] = l /\ Changes(Moved(heap, l, e, heap.prev[l]))

MoveAfter(l, e, mark) ==
  Op /\ heap.list[e] = l /\ heap.list[mark] = l /\ e # mark /\ Changes(Moved(heap, l, e, mark))
MoveBefore(l, e, mark) ==
  Op /\ heap.list[e] = l /\ heap.list[mark] = l /\ e # mark /\ Changes(Moved(heap, l, e, heap.prev[mark]))

PushBackList(l, other) == Op /\ Room(heap.len[other]) /\ Changes(BackListPushed(heap, l, other))
PushFrontList(l, other) == Op /\ Room(heap.len[other]) /\ Changes(FrontListPushed(heap, l, other))

SetValue(e, p) == Op /\ Changes([heap EXCEPT !.value[e] = p])

\* A cleared list leaves its elements behind, and these still name it.
ListInit(l) == Op /\ Changes(Cleared(heap, l))

-----------------------------------------------------------------------------
(* DBContext *)

Patch(p) == PushBack(Buffer, p)

\* A second clone forgets the first.
UseTx ==
  /\ Op /\ Room(heap.len[Buffer])
  /\ Changes(BackListPushed(Cleared(heap, TxBuffer), TxBuffer, Buffer))

\* Mutant of CompilePatch: the compiler gets the buffer itself.
CompilePatchAlias ==
  /\ Op /\ curr = 0
  /\ heap' = Cleared(heap, Buffer)
  /\ curr' = FrontOf(heap', Buffer)
  /\ Seen
  /\ taken' = contents[Buffer] /\ given' = <<>>

\* The head is copied, then the buffer is cleared.  The compiler (compiler.go) goes
\* through the copy, element by element.
CompilePatch ==
  /\ Op /\ curr = 0
  /\ heap' = Cleared([heap EXCEPT !.next[View] = heap.next[Buffer], !.prev[View] = heap.prev[Buffer],
                                  !.len[View] = heap.len[Buffer]], Buffer)
  /\ curr' = FrontOf(heap', View)
  /\ Seen
  /\ taken' = contents[Buffer] /\ given' = <<>>

CompileOne ==
  /\ curr # 0
  /\ given' = Append(given, curr)
  /\ curr' = NextOf(heap, curr)
  /\ rest' = From(heap, curr')
  /\ UNCHANGED <<heap, ops, contents, taken>>

Init ==
  /\ heap = [next |-> [n \in Lists \cup 1..MaxElement |-> IF n \in Lists THEN n ELSE 0],
             prev |-> [n \in Lists \cup 1..MaxElement |-> IF n \in Lists THEN n ELSE 0],
             list |-> [e \in 1..MaxElement |-> 0],
             len |-> [l \in Lists |-> 0], value |-> <<>>]
  /\ curr = 0 /\ ops = 0 /\ contents = ContentsOf(heap) /\ rest = <<>> /\ taken = <<>> /\ given = <<>>

\* An element of a cleared list is no more for the program to use: a list that
\* holds it no longer still takes it for its own, and would lose count.  (DBContext
\* clears only its buffer, and nobody holds that list.)
Held(e) ==
  heap.list[e] \in Programs => e \in ToSet(contents[heap.list[e]])

Next ==
  \/ \E p \in Patches : Patch(p)
  \/ UseTx \/ CompilePatch \/ CompileOne
  \/ \E l \in Programs :
       \/ \E p \in Patches : PushBack(l, p) \/ PushFront(l, p)
       \/ \E o \in Programs : PushBackList(l, o) \/ PushFrontList(l, o)
       \/ ListInit(l)
       \/ \E e \in {x \in Elements : Held(x)} :
            \/ RemoveElement(l, e) \/ MoveToFront(l, e) \/ MoveToBack(l, e)
            \/ \E p \in Patches : InsertAfter(l, p, e) \/ InsertBefore(l, p, e)
            \/ \E mark \in {x \in Elements : Held(x)} : MoveAfter(l, e, mark) \/ MoveBefore(l, e, mark)
  \/ \E e \in Elements, p \in Patches : SetValue(e, p)

Spec == Init /\ [][Next]_vars

-----------------------------------------------------------------------------
(* Properties *)

\* The compiler comes to the patches that were in the buffer when CompilePatch
\* was called, in their order, although their links still lead to the buffer and
\* new patches get into it meanwhile (db_ctx.go:195-196).
CompilesWhatWasBuffered == IsPrefix(given, taken) /\ (curr = 0 => given = taken)

Abstract == INSTANCE PatchSequences WITH content <- contents, value <- heap.value, cursor <- rest

\* The rings, the copied head included, are the sequences they stand for.
ListsAreSequences == Abstract!Spec
=============================================================================
