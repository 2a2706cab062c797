--------------------------- MODULE PatchSequences ---------------------------
(***************************************************************************)
(* What PatchList promises: lists are sequences of elements, an element is *)
(* in one list, and an operation that names an element of another list has *)
(* no effect.  View is the list a compiler is given: it is there to be     *)
(* gone through, and no operation on it moves or removes anything.         *)
(***************************************************************************)
EXTENDS Integers, SequencesExt

CONSTANTS Buffer, View, TxBuffer, Programs, Patches

VARIABLES
  content,   \* the elements of each list
  value,     \* the patch in each element there has ever been
  cursor     \* the elements the compiler has still to come to

New(n) == [i \in 1..n |-> Len(value) + i]
Pushed(ps) == value' = value \o ps

ValuesOf(l) == [i \in DOMAIN content[l] |-> value[content[l][i]]]

Init ==
  /\ content = [l \in {Buffer, View, TxBuffer} \cup Programs |-> <<>>]
  /\ value = <<>> /\ cursor = <<>>

Set(l, s) == content' = [content EXCEPT ![l] = s]

PushBack(l, p) == Pushed(<<p>>) /\ Set(l, content[l] \o New(1)) /\ UNCHANGED cursor
PushFront(l, p) == Pushed(<<p>>) /\ Set(l, New(1) \o content[l]) /\ UNCHANGED cursor

\* Before the mark: after = 0; after it: after = 1.
Insert(l, p, mark, after) ==
  \E i \in DOMAIN content[l] :
    /\ content[l][i] = mark
    /\ Pushed(<<p>>) /\ Set(l, InsertAt(content[l], i + after, Len(value) + 1))
    /\ UNCHANGED cursor

RemoveOf(l, e) ==
  \E i \in DOMAIN content[l] :
    content[l][i] = e /\ Set(l, RemoveAt(content[l], i)) /\ UNCHANGED <<value, cursor>>

Move(l, e, mark, after) ==
  \E i \in DOMAIN content[l] :
    LET others == RemoveAt(content[l], i) IN
    /\ content[l][i] = e
    /\ \E j \in DOMAIN others : others[j] = mark /\ Set(l, InsertAt(others, j + after, e))
    /\ UNCHANGED <<value, cursor>>

MoveToFront(l, e) ==
  \E i \in DOMAIN content[l] :
    content[l][i] = e /\ Set(l, <<e>> \o RemoveAt(content[l], i)) /\ UNCHANGED <<value, cursor>>
MoveToBack(l, e) ==
  \E i \in DOMAIN content[l] :
    content[l][i] = e /\ Set(l, RemoveAt(content[l], i) \o <<e>>) /\ UNCHANGED <<value, cursor>>

PushBackList(l, other) ==
  /\ Pushed(ValuesOf(other)) /\ Set(l, content[l] \o New(Len(content[other]))) /\ UNCHANGED cursor

\* The copies are made from the back, and so are numbered from there.
PushFrontList(l, other) ==
  /\ Pushed(Reverse(ValuesOf(other))) /\ Set(l, Reverse(New(Len(content[other]))) \o content[l])
  /\ UNCHANGED cursor

SetValue(e, p) == value' = [value EXCEPT ![e] = p] /\ UNCHANGED <<content, cursor>>

Clear(l) == Set(l, <<>>) /\ UNCHANGED <<value, cursor>>

\* UseTx: the clone has copies of the patches that wait in the buffer.
UseTx == Pushed(ValuesOf(Buffer)) /\ Set(TxBuffer, New(Len(content[Buffer]))) /\ UNCHANGED cursor

\* CompilePatch: the patches go to the compiler, and new ones may come.
CompilePatch ==
  /\ cursor = <<>>
  /\ content' = [content EXCEPT ![View] = content[Buffer], ![Buffer] = <<>>]
  /\ cursor' = content[Buffer]
  /\ UNCHANGED value

CompileOne == cursor # <<>> /\ cursor' = Tail(cursor) /\ UNCHANGED <<content, value>>

Next ==
  \/ \E p \in Patches : PushBack(Buffer, p)
  \/ UseTx \/ CompilePatch \/ CompileOne
  \/ \E l \in Programs : \/ \E p \in Patches : PushBack(l, p) \/ PushFront(l, p)
                         \/ \E o \in Programs : PushBackList(l, o) \/ PushFrontList(l, o)
                         \/ Clear(l)
                         \/ \E e \in DOMAIN value :
                              \/ RemoveOf(l, e) \/ MoveToFront(l, e) \/ MoveToBack(l, e)
                              \/ \E p \in Patches, after \in {0, 1} : Insert(l, p, e, after)
                              \/ \E mark \in DOMAIN value, after \in {0, 1} : Move(l, e, mark, after)
  \/ \E e \in DOMAIN value, p \in Patches : SetValue(e, p)

Spec == Init /\ [][Next]_<<content, value, cursor>>
=============================================================================
