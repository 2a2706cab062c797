--------------------------- MODULE PatchListProofs ---------------------------
(***************************************************************************)
(* Theorems about PatchList: its rings are the sequences they stand for,   *)
(* and a compiler comes to the patches that were buffered.  For any        *)
(* patches, any number of elements and of operations.                      *)
(***************************************************************************)
EXTENDS PatchList, WellFoundedInduction, SequenceTheorems, FiniteSetTheorems, TLAPS

\* Induction over the numbers: a set that has 0 and, with each number, the next, has
\* every number.
LEMMA SetInduction ==
  ASSUME NEW S, 0 \in S, \A n \in Nat : n \in S => n + 1 \in S
  PROVE  Nat \subseteq S
<1> SUFFICES ASSUME Nat \ S # {} PROVE FALSE
  OBVIOUS
<1> DEFINE T == Nat \ S
           R == OpToRel(<, Nat)
<1>1. \A y, x \in Nat : y < x => <<y, x>> \in R
  BY DEF OpToRel
<1>2. PICK x \in T : \A y \in T : ~(<<y, x>> \in R)
  <2>1. IsWellFoundedOn(R, Nat) /\ T \in SUBSET Nat /\ T # {}
    BY NatLessThanWellFounded
  <2> HIDE DEF R, T
  <2>2. QED
    BY <2>1, WFMin
<1> HIDE DEF R
<1>3. x # 0 /\ x - 1 \in Nat /\ x - 1 < x /\ (x - 1) + 1 = x
  BY <1>2
<1>4. x - 1 \in S
  BY <1>1, <1>2, <1>3
<1>5. QED
  BY <1>2, <1>3, <1>4

-----------------------------------------------------------------------------
(* Sequences *)

Distinct(s) == \A i, j \in DOMAIN s : s[i] = s[j] => i = j

\* There are no more different elements than there are elements.
LEMMA DistinctLen ==
  ASSUME NEW n \in Nat, NEW s \in Seq(1..n), Distinct(s)
  PROVE  Len(s) <= n
<1>1. Len(s) \in Nat /\ s \in [1..Len(s) -> 1..n] /\ DOMAIN s = 1..Len(s)
  BY LenProperties
<1>2. s \in Injection(1..Len(s), 1..n)
  BY <1>1 DEF Distinct, Injection, IsInjective
<1>3. IsFiniteSet(1..n) /\ Cardinality(1..n) = n /\ Cardinality(1..Len(s)) = Len(s)
  <2>1. ASSUME NEW k \in Nat PROVE IsFiniteSet(1..k) /\ Cardinality(1..k) = k
    <3>1. 1 \in Int /\ k \in Int
      OBVIOUS
    <3>2. IsFiniteSet(1..k) /\ Cardinality(1..k) = IF 1 > k THEN 0 ELSE k - 1 + 1
      BY <3>1, FS_Interval
    <3>3. QED
      BY <3>2
  <2>2. QED
    BY <1>1, <2>1
<1>4. QED
  BY <1>2, <1>3, FS_Injection

LEMMA SameSeq ==
  ASSUME NEW S, NEW s \in Seq(S), NEW T, NEW t \in Seq(T), Len(s) = Len(t), \A i \in 1..Len(s) : s[i] = t[i]
  PROVE  s = t
<1>1. s \in Seq(S \cup T) /\ t \in Seq(S \cup T)
  BY SeqMonotonic
<1>2. QED
  BY <1>1, SeqEqual

LEMMA Inserted ==
  ASSUME NEW S, NEW s \in Seq(S), NEW e \in S, NEW i \in 1..Len(s) + 1
  PROVE  /\ InsertAt(s, i, e) \in Seq(S) /\ Len(InsertAt(s, i, e)) = Len(s) + 1
         /\ \A j \in 1..Len(s) + 1 :
              InsertAt(s, i, e)[j] = IF j < i THEN s[j] ELSE IF j = i THEN e ELSE s[j - 1]
<1>1. Len(s) \in Nat /\ \A j \in 1..Len(s) : s[j] \in S
  BY LenProperties
<1> DEFINE a == SubSeq(s, 1, i - 1)
           b == SubSeq(s, i, Len(s))
           ae == a \o <<e>>
<1>2. a \in Seq(S) /\ Len(a) = i - 1 /\ \A j \in 1..i - 1 : a[j] = s[j]
  <2>1. \A j \in 1..i - 1 : s[j] \in S
    BY <1>1
  <2>2. i - 1 \in Int /\ 1 \in Int
    BY <1>1
  <2>3. /\ a \in Seq(S) /\ Len(a) = IF 1 <= i - 1 THEN (i - 1) - 1 + 1 ELSE 0
        /\ \A j \in 1..(i - 1) - 1 + 1 : a[j] = s[1 + j - 1]
    BY <2>1, <2>2, SubSeqProperties
  <2> HIDE DEF a
  <2>4. QED
    BY <1>1, <2>3
<1>3. b \in Seq(S) /\ Len(b) = Len(s) - i + 1 /\ \A j \in 1..Len(s) - i + 1 : b[j] = s[i + j - 1]
  <2>1. \A j \in i..Len(s) : s[j] \in S
    BY <1>1
  <2>2. i \in Int /\ Len(s) \in Int
    BY <1>1
  <2>3. /\ b \in Seq(S) /\ Len(b) = IF i <= Len(s) THEN Len(s) - i + 1 ELSE 0
        /\ \A j \in 1..Len(s) - i + 1 : b[j] = s[i + j - 1]
    BY <2>1, <2>2, SubSeqProperties
  <2> HIDE DEF b
  <2>4. QED
    BY <1>1, <2>3
<1> HIDE DEF a, b
<1>4. <<e>> \in Seq(S) /\ Len(<<e>>) = 1 /\ <<e>>[1] = e
  OBVIOUS
<1>5. ae \in Seq(S) /\ Len(ae) = i /\ \A j \in 1..i : ae[j] = IF j <= i - 1 THEN s[j] ELSE e
  <2>1. /\ ae \in Seq(S) /\ Len(ae) = Len(a) + 1
        /\ \A j \in 1..Len(a) + 1 : ae[j] = IF j <= Len(a) THEN a[j] ELSE <<e>>[j - Len(a)]
    BY <1>2, <1>4, ConcatProperties
  <2> HIDE DEF ae
  <2>2. ASSUME NEW j \in 1..i PROVE ae[j] = IF j <= i - 1 THEN s[j] ELSE e
    <3>1. CASE j <= i - 1
      BY <1>1, <1>2, <2>1, <3>1
    <3>2. CASE ~(j <= i - 1)
      <4>1. j = i /\ j - Len(a) = 1
        BY <1>1, <1>2, <3>2
      <4>2. QED
        BY <1>1, <1>2, <1>4, <2>1, <3>2, <4>1
    <3>3. QED
      BY <3>1, <3>2
  <2>3. QED
    BY <1>1, <1>2, <2>1, <2>2
<1>6. InsertAt(s, i, e) = ae \o b
  BY DEF InsertAt, a, b
<1> HIDE DEF ae
<1>7. /\ ae \o b \in Seq(S) /\ Len(ae \o b) = Len(ae) + Len(b)
      /\ \A j \in 1..Len(ae) + Len(b) : (ae \o b)[j] = IF j <= Len(ae) THEN ae[j] ELSE b[j - Len(ae)]
  BY <1>3, <1>5, ConcatProperties
<1>8. ASSUME NEW j \in 1..Len(s) + 1
      PROVE  (ae \o b)[j] = IF j < i THEN s[j] ELSE IF j = i THEN e ELSE s[j - 1]
  <2>1. CASE j <= i
    BY <1>1, <1>3, <1>5, <1>7, <2>1
  <2>2. CASE j > i
    <3>1. (ae \o b)[j] = b[j - i] /\ j - i \in 1..Len(s) - i + 1
      BY <1>1, <1>3, <1>5, <1>7, <2>2
    <3>2. b[j - i] = s[i + (j - i) - 1] /\ i + (j - i) - 1 = j - 1
      BY <1>1, <1>3, <3>1
    <3>3. QED
      BY <2>2, <3>1, <3>2
  <2>3. j <= i \/ j > i
    BY <1>1
  <2>4. QED
    BY <2>1, <2>2, <2>3
<1>9. QED
  BY <1>1, <1>3, <1>5, <1>6, <1>7, <1>8

LEMMA Removed ==
  ASSUME NEW S, NEW s \in Seq(S), NEW i \in 1..Len(s)
  PROVE  /\ RemoveAt(s, i) \in Seq(S) /\ Len(RemoveAt(s, i)) = Len(s) - 1
         /\ \A j \in 1..Len(s) - 1 : RemoveAt(s, i)[j] = IF j < i THEN s[j] ELSE s[j + 1]
<1>1. Len(s) \in Nat /\ \A j \in 1..Len(s) : s[j] \in S
  BY LenProperties
<1> DEFINE a == SubSeq(s, 1, i - 1)
           b == SubSeq(s, i + 1, Len(s))
<1>2. a \in Seq(S) /\ Len(a) = i - 1 /\ \A j \in 1..i - 1 : a[j] = s[j]
  <2>1. \A j \in 1..i - 1 : s[j] \in S
    BY <1>1
  <2>2. i - 1 \in Int /\ 1 \in Int
    BY <1>1
  <2>3. /\ a \in Seq(S) /\ Len(a) = IF 1 <= i - 1 THEN (i - 1) - 1 + 1 ELSE 0
        /\ \A j \in 1..(i - 1) - 1 + 1 : a[j] = s[1 + j - 1]
    BY <2>1, <2>2, SubSeqProperties
  <2> HIDE DEF a
  <2>4. QED
    BY <1>1, <2>3
<1>3. b \in Seq(S) /\ Len(b) = Len(s) - i /\ \A j \in 1..Len(s) - i : b[j] = s[i + j]
  <2>1. \A j \in i + 1..Len(s) : s[j] \in S
    BY <1>1
  <2>2. i + 1 \in Int /\ Len(s) \in Int
    BY <1>1
  <2>3. /\ b \in Seq(S) /\ Len(b) = IF i + 1 <= Len(s) THEN Len(s) - (i + 1) + 1 ELSE 0
        /\ \A j \in 1..Len(s) - (i + 1) + 1 : b[j] = s[(i + 1) + j - 1]
    BY <2>1, <2>2, SubSeqProperties
  <2> HIDE DEF b
  <2>4. ASSUME NEW j \in 1..Len(s) - i PROVE b[j] = s[i + j]
    <3>1. j \in 1..Len(s) - (i + 1) + 1 /\ (i + 1) + j - 1 = i + j
      BY <1>1
    <3>2. QED
      BY <2>3, <3>1
  <2>5. QED
    BY <1>1, <2>3, <2>4
<1>4. RemoveAt(s, i) = a \o b
  BY DEF RemoveAt
<1> HIDE DEF a, b
<1>5. /\ a \o b \in Seq(S) /\ Len(a \o b) = Len(a) + Len(b)
      /\ \A j \in 1..Len(a) + Len(b) : (a \o b)[j] = IF j <= Len(a) THEN a[j] ELSE b[j - Len(a)]
  BY <1>2, <1>3, ConcatProperties
<1>6. ASSUME NEW j \in 1..Len(s) - 1 PROVE (a \o b)[j] = IF j < i THEN s[j] ELSE s[j + 1]
  <2>1. CASE j < i
    BY <1>1, <1>2, <1>3, <1>5, <2>1
  <2>2. CASE j >= i
    <3>1. (a \o b)[j] = b[j - (i - 1)] /\ j - (i - 1) \in 1..Len(s) - i
      BY <1>1, <1>2, <1>3, <1>5, <2>2
    <3>2. b[j - (i - 1)] = s[i + (j - (i - 1))] /\ i + (j - (i - 1)) = j + 1
      BY <1>1, <1>3, <3>1
    <3>3. QED
      BY <1>1, <2>2, <3>1, <3>2
  <2>3. j < i \/ j >= i
    BY <1>1
  <2>4. QED
    BY <2>1, <2>2, <2>3
<1>7. QED
  BY <1>1, <1>2, <1>3, <1>4, <1>5, <1>6

-----------------------------------------------------------------------------
(* Rings *)

Nodes == Lists \cup 1..MaxElement

Heaps ==
  [next : [Nodes -> Nodes \cup {0}], prev : [Nodes -> Nodes \cup {0}], list : [1..MaxElement -> Lists \cup {0}],
   len : [Lists -> Int], value : Seq(Patches)]

\* Going round the list l that holds s: the root is before and behind the elements.
Node(l, s, i) == IF i \in 1..Len(s) THEN s[i] ELSE l

\* The list l is the ring of the elements s.
Ring(h, l, s) ==
  /\ s \in Seq(1..Len(h.value)) /\ Distinct(s) /\ h.len[l] = Len(s)
  /\ \A i \in 0..Len(s) :
       h.next[Node(l, s, i)] = Node(l, s, i + 1) /\ h.prev[Node(l, s, i + 1)] = Node(l, s, i)
  /\ \A i \in 1..Len(s) : h.list[s[i]] = l

\* The copy of the head of the buffer is followed by s, which ends in the buffer's root.
Chain(h, s) ==
  /\ s \in Seq(1..Len(h.value)) /\ Distinct(s) /\ h.len[View] = Len(s)
  /\ Len(s) > 0 => h.next[View] = s[1]
  /\ \A i \in 1..Len(s) : h.list[s[i]] = Buffer /\ h.next[s[i]] = IF i < Len(s) THEN s[i + 1] ELSE Buffer

\* In the memory h, each list l holds the elements c[l].
Rings(h, c) ==
  /\ h \in Heaps /\ Len(h.value) <= MaxElement
  /\ c \in [Lists -> Seq(Nat)]
  /\ \A l \in Lists \ {View} : Ring(h, l, c[l])
  /\ Chain(h, c[View])
  /\ \A i \in DOMAIN c[View], j \in DOMAIN c[Buffer] : c[View][i] # c[Buffer][j]

LEMMA ListNumbers == \A l \in Lists : l \in Int /\ l < 0
BY DEF Lists, Buffer, View, TxBuffer, Own, Other

LEMMA NodesDiffer ==
  ASSUME NEW l \in Lists, NEW n \in Nat, NEW s \in Seq(1..n), Distinct(s)
  PROVE  /\ Len(s) \in Nat /\ DOMAIN s = 1..Len(s) /\ \A i \in 1..Len(s) : s[i] \in 1..n /\ s[i] \notin Lists
         /\ \A i, j \in 0..Len(s) : Node(l, s, i) = Node(l, s, j) => i = j
         /\ \A i, j \in 1..Len(s) + 1 : Node(l, s, i) = Node(l, s, j) => i = j
         /\ \A i \in Int : Node(l, s, i) \in {l} \cup 1..n
<1>1. Len(s) \in Nat /\ DOMAIN s = 1..Len(s) /\ \A i \in 1..Len(s) : s[i] \in 1..n
  BY LenProperties
<1>2. \A i \in 1..Len(s) : s[i] \notin Lists /\ s[i] # l
  BY <1>1, ListNumbers
<1>3. \A i, j \in 1..Len(s) : s[i] = s[j] => i = j
  BY <1>1 DEF Distinct
<1>4. \A i, j \in 0..Len(s) : Node(l, s, i) = Node(l, s, j) => i = j
  BY <1>1, <1>2, <1>3 DEF Node
<1>5. \A i, j \in 1..Len(s) + 1 : Node(l, s, i) = Node(l, s, j) => i = j
  BY <1>1, <1>2, <1>3 DEF Node
<1>6. \A i \in Int : Node(l, s, i) \in {l} \cup 1..n
  BY <1>1 DEF Node
<1>7. QED
  BY <1>1, <1>2, <1>4, <1>5, <1>6

\* What Linked and Unlinked change.
LEMMA LinkedIs ==
  ASSUME NEW h \in Heaps, NEW l \in Lists, NEW e \in 1..MaxElement, NEW at \in Nodes, e # at,
         h.next[at] \in Nodes
  PROVE  LET g == Linked(h, l, e, at) IN
         /\ g \in Heaps /\ g.value = h.value
         /\ \A x \in Nodes : g.next[x] = IF x = e THEN h.next[at] ELSE IF x = at THEN e ELSE h.next[x]
         /\ \A x \in Nodes : g.prev[x] = IF x = h.next[at] THEN e ELSE IF x = e THEN at ELSE h.prev[x]
         /\ \A x \in 1..MaxElement : g.list[x] = IF x = e THEN l ELSE h.list[x]
         /\ \A m \in Lists : g.len[m] = IF m = l THEN h.len[l] + 1 ELSE h.len[m]
<1> DEFINE g == Linked(h, l, e, at)
           n == h.next[at]
<1>1. /\ h.next \in [Nodes -> Nodes \cup {0}] /\ h.prev \in [Nodes -> Nodes \cup {0}]
      /\ h.list \in [1..MaxElement -> Lists \cup {0}] /\ h.len \in [Lists -> Int] /\ h.value \in Seq(Patches)
      /\ e \in Nodes
  BY DEF Heaps, Nodes
<1>2. /\ g.next = [[h.next EXCEPT ![at] = e] EXCEPT ![e] = n]
      /\ g.prev = [[h.prev EXCEPT ![e] = at] EXCEPT ![n] = e]
      /\ g.list = [h.list EXCEPT ![e] = l] /\ g.len = [h.len EXCEPT ![l] = h.len[l] + 1] /\ g.value = h.value
  BY DEF Linked, Heaps
<1> HIDE DEF g, n
<1>3. n \in Nodes
  BY DEF n
<1>4. /\ g.next \in [Nodes -> Nodes \cup {0}] /\ g.prev \in [Nodes -> Nodes \cup {0}]
      /\ g.list \in [1..MaxElement -> Lists \cup {0}] /\ g.len \in [Lists -> Int]
  <2>1. g.next \in [Nodes -> Nodes \cup {0}]
    BY <1>1, <1>2, <1>3
  <2>2. g.prev \in [Nodes -> Nodes \cup {0}]
    BY <1>1, <1>2, <1>3
  <2>3. g.list \in [1..MaxElement -> Lists \cup {0}] /\ g.len \in [Lists -> Int]
    BY <1>1, <1>2
  <2>4. QED
    BY <2>1, <2>2, <2>3
<1>5. g \in Heaps
  BY <1>2, <1>4, <1>1 DEF Linked, Heaps, g
<1>6. \A x \in Nodes : g.next[x] = IF x = e THEN n ELSE IF x = at THEN e ELSE h.next[x]
  BY <1>1, <1>2, <1>3
<1>7. \A x \in Nodes : g.prev[x] = IF x = n THEN e ELSE IF x = e THEN at ELSE h.prev[x]
  BY <1>1, <1>2, <1>3
<1>8. \A x \in 1..MaxElement : g.list[x] = IF x = e THEN l ELSE h.list[x]
  BY <1>1, <1>2
<1>9. \A m \in Lists : g.len[m] = IF m = l THEN h.len[l] + 1 ELSE h.len[m]
  BY <1>1, <1>2
<1>10. QED
  BY <1>2, <1>5, <1>6, <1>7, <1>8, <1>9 DEF g, n

LEMMA UnlinkedIs ==
  ASSUME NEW h \in Heaps, NEW l \in Lists, NEW e \in 1..MaxElement,
         h.next[e] \in Nodes \ {e}, h.prev[e] \in Nodes \ {e}
  PROVE  LET g == Unlinked(h, l, e) IN
         /\ g \in Heaps /\ g.value = h.value
         /\ \A x \in Nodes \ {e} : g.next[x] = IF x = h.prev[e] THEN h.next[e] ELSE h.next[x]
         /\ \A x \in Nodes \ {e} : g.prev[x] = IF x = h.next[e] THEN h.prev[e] ELSE h.prev[x]
         /\ \A x \in 1..MaxElement : g.list[x] = IF x = e THEN 0 ELSE h.list[x]
         /\ \A m \in Lists : g.len[m] = IF m = l THEN h.len[l] - 1 ELSE h.len[m]
<1> DEFINE g == Unlinked(h, l, e)
           n == h.next[e]
           p == h.prev[e]
<1>1. /\ h.next \in [Nodes -> Nodes \cup {0}] /\ h.prev \in [Nodes -> Nodes \cup {0}]
      /\ h.list \in [1..MaxElement -> Lists \cup {0}] /\ h.len \in [Lists -> Int] /\ h.value \in Seq(Patches)
      /\ e \in Nodes
  BY DEF Heaps, Nodes
<1>2. /\ g.next = [[h.next EXCEPT ![p] = n] EXCEPT ![e] = 0]
      /\ g.prev = [[h.prev EXCEPT ![n] = p] EXCEPT ![e] = 0]
      /\ g.list = [h.list EXCEPT ![e] = 0] /\ g.len = [h.len EXCEPT ![l] = h.len[l] - 1] /\ g.value = h.value
  BY DEF Unlinked, Heaps
<1> HIDE DEF g, n, p
<1>3. n \in Nodes \ {e} /\ p \in Nodes \ {e}
  BY DEF n, p
<1>4. /\ g.next \in [Nodes -> Nodes \cup {0}] /\ g.prev \in [Nodes -> Nodes \cup {0}]
      /\ g.list \in [1..MaxElement -> Lists \cup {0}] /\ g.len \in [Lists -> Int]
  <2>1. g.next \in [Nodes -> Nodes \cup {0}]
    BY <1>1, <1>2, <1>3
  <2>2. g.prev \in [Nodes -> Nodes \cup {0}]
    BY <1>1, <1>2, <1>3
  <2>3. g.list \in [1..MaxElement -> Lists \cup {0}] /\ g.len \in [Lists -> Int]
    BY <1>1, <1>2
  <2>4. QED
    BY <2>1, <2>2, <2>3
<1>5. g \in Heaps
  BY <1>2, <1>4, <1>1 DEF Unlinked, Heaps, g
<1>6. \A x \in Nodes \ {e} : g.next[x] = IF x = p THEN n ELSE h.next[x]
  BY <1>1, <1>2, <1>3
<1>7. \A x \in Nodes \ {e} : g.prev[x] = IF x = n THEN p ELSE h.prev[x]
  BY <1>1, <1>2, <1>3
<1>8. \A x \in 1..MaxElement : g.list[x] = IF x = e THEN 0 ELSE h.list[x]
  BY <1>1, <1>2
<1>9. \A m \in Lists : g.len[m] = IF m = l THEN h.len[l] - 1 ELSE h.len[m]
  BY <1>1, <1>2
<1>10. QED
  BY <1>2, <1>5, <1>6, <1>7, <1>8, <1>9 DEF g, n, p

\* What is not changed of a ring.
LEMMA RingFrame ==
  ASSUME NEW h \in Heaps, NEW g \in Heaps, NEW l \in Lists, NEW s, Ring(h, l, s),
         Len(h.value) <= Len(g.value), g.len[l] = h.len[l],
         \A x \in {l} \cup ToSet(s) : g.next[x] = h.next[x] /\ g.prev[x] = h.prev[x],
         \A x \in ToSet(s) : g.list[x] = h.list[x]
  PROVE  Ring(g, l, s)
<1>1. Len(h.value) \in Nat /\ Len(g.value) \in Nat
  BY LenProperties DEF Heaps
<1>2. s \in Seq(1..Len(h.value)) /\ Distinct(s)
  BY DEF Ring
<1>3. s \in Seq(1..Len(g.value))
  <2>1. 1..Len(h.value) \subseteq 1..Len(g.value)
    BY <1>1
  <2>2. QED
    BY <1>2, <2>1, SeqMonotonic
<1>4. Len(s) \in Nat /\ DOMAIN s = 1..Len(s)
  BY <1>2, LenProperties
<1>5. \A i \in Int : Node(l, s, i) \in {l} \cup ToSet(s)
  BY <1>4 DEF Node, ToSet
<1>6. \A i \in 0..Len(s) : i \in Int /\ i + 1 \in Int
  BY <1>4
<1>7. \A i \in 1..Len(s) : s[i] \in ToSet(s)
  BY <1>4 DEF ToSet
<1>8. QED
  BY <1>2, <1>3, <1>5, <1>6, <1>7 DEF Ring

LEMMA ChainFrame ==
  ASSUME NEW h \in Heaps, NEW g \in Heaps, NEW s, Chain(h, s),
         Len(h.value) <= Len(g.value), g.len[View] = h.len[View],
         \A x \in {View} \cup ToSet(s) : g.next[x] = h.next[x],
         \A x \in ToSet(s) : g.list[x] = h.list[x]
  PROVE  Chain(g, s)
<1>1. Len(h.value) \in Nat /\ Len(g.value) \in Nat
  BY LenProperties DEF Heaps
<1>2. s \in Seq(1..Len(h.value)) /\ Distinct(s)
  BY DEF Chain
<1>3. s \in Seq(1..Len(g.value))
  <2>1. 1..Len(h.value) \subseteq 1..Len(g.value)
    BY <1>1
  <2>2. QED
    BY <1>2, <2>1, SeqMonotonic
<1>4. Len(s) \in Nat /\ DOMAIN s = 1..Len(s)
  BY <1>2, LenProperties
<1>5. \A i \in 1..Len(s) : s[i] \in ToSet(s)
  BY <1>4 DEF ToSet
<1>6. QED
  BY <1>2, <1>3, <1>5 DEF Chain

\* An element put behind the i-th one of a ring.
LEMMA LinkedRing ==
  ASSUME NEW h \in Heaps, Len(h.value) <= MaxElement, NEW l \in Lists, NEW s, Ring(h, l, s),
         NEW e \in 1..Len(h.value), e \notin ToSet(s), NEW i \in 0..Len(s)
  PROVE  LET at == Node(l, s, i)
             g == Linked(h, l, e, at)
         IN /\ Ring(g, l, InsertAt(s, i + 1, e)) /\ g \in Heaps /\ g.value = h.value
            /\ ToSet(InsertAt(s, i + 1, e)) = ToSet(s) \cup {e}
            /\ \A x \in Nodes \ ({l, e} \cup ToSet(s)) : g.next[x] = h.next[x] /\ g.prev[x] = h.prev[x]
            /\ \A x \in 1..MaxElement \ {e} : g.list[x] = h.list[x]
            /\ \A m \in Lists \ {l} : g.len[m] = h.len[m]
<1> DEFINE at == Node(l, s, i)
           behind == Node(l, s, i + 1)
           g == Linked(h, l, e, at)
           u == InsertAt(s, i + 1, e)
           n == Len(h.value)
           k == Len(s)
<1>1. n \in Nat /\ MaxElement \in Nat /\ 1..n \subseteq 1..MaxElement
  BY LenProperties, PatchListAssumption DEF Heaps
<1> HIDE DEF n
<1>2. /\ s \in Seq(1..n) /\ Distinct(s) /\ h.len[l] = k
      /\ \A j \in 0..k : h.next[Node(l, s, j)] = Node(l, s, j + 1) /\ h.prev[Node(l, s, j + 1)] = Node(l, s, j)
      /\ \A j \in 1..k : h.list[s[j]] = l
  BY DEF Ring, n
<1>3. /\ k \in Nat /\ DOMAIN s = 1..k /\ \A j \in 1..k : s[j] \in 1..n /\ s[j] \notin Lists
      /\ \A j, m \in 0..k : Node(l, s, j) = Node(l, s, m) => j = m
      /\ \A j, m \in 1..k + 1 : Node(l, s, j) = Node(l, s, m) => j = m
      /\ \A j \in Int : Node(l, s, j) \in {l} \cup 1..n
  BY <1>1, <1>2, NodesDiffer
<1> HIDE DEF k
<1>i. i \in 0..k /\ i \in Int /\ i + 1 \in Int /\ e \in 1..n
  BY <1>3 DEF k, n
<1>4. e \notin Lists /\ e \in 1..MaxElement /\ e \in Nodes /\ l \in Nodes /\ l # e
  BY <1>1, <1>i, ListNumbers DEF Nodes
<1>5. \A j \in Int : Node(l, s, j) \in {l} \cup ToSet(s) /\ Node(l, s, j) # e /\ Node(l, s, j) \in Nodes
  <2>1. \A j \in Int : Node(l, s, j) \in {l} \cup ToSet(s)
    BY <1>3 DEF Node, ToSet, k
  <2>2. QED
    BY <1>1, <1>3, <1>4, <2>1 DEF Nodes
<1>6. h.next[at] = behind /\ at # e /\ behind # e /\ at \in Nodes /\ behind \in Nodes
  BY <1>2, <1>i, <1>5
<1> DEFINE P(x) == IF x = behind THEN e ELSE IF x = e THEN at ELSE h.prev[x]
           N(x) == IF x = e THEN behind ELSE IF x = at THEN e ELSE h.next[x]
<1>7. /\ g \in Heaps /\ g.value = h.value
      /\ \A x \in Nodes : g.next[x] = N(x) /\ g.prev[x] = P(x)
      /\ \A x \in 1..MaxElement : g.list[x] = IF x = e THEN l ELSE h.list[x]
      /\ \A m \in Lists : g.len[m] = IF m = l THEN h.len[l] + 1 ELSE h.len[m]
  <2> HIDE DEF at, behind
  <2>1. QED
    BY <1>4, <1>6, LinkedIs
<1>8. u \in Seq(1..n) /\ Len(u) = k + 1
      /\ \A j \in 1..k + 1 : u[j] = IF j < i + 1 THEN s[j] ELSE IF j = i + 1 THEN e ELSE s[j - 1]
  <2>1. i + 1 \in 1..Len(s) + 1
    BY <1>3, <1>i DEF k
  <2>2. s \in Seq(1..n) /\ e \in 1..n
    BY <1>2, <1>i
  <2>3. /\ u \in Seq(1..n) /\ Len(u) = Len(s) + 1
        /\ \A j \in 1..Len(s) + 1 : u[j] = IF j < i + 1 THEN s[j] ELSE IF j = i + 1 THEN e ELSE s[j - 1]
    <3> DEFINE m == i + 1
               X == 1..n
    <3>1. m \in 1..Len(s) + 1 /\ s \in Seq(X) /\ e \in X /\ u = InsertAt(s, m, e)
      BY <2>1, <2>2
    <3> HIDE DEF m, X, u
    <3>2. /\ u \in Seq(X) /\ Len(u) = Len(s) + 1
          /\ \A j \in 1..Len(s) + 1 : u[j] = IF j < m THEN s[j] ELSE IF j = m THEN e ELSE s[j - 1]
      BY <3>1, Inserted, SMTT(60)
    <3>3. QED
      BY <3>2 DEF m, X
  <2> HIDE DEF u
  <2>4. QED
    BY <2>3 DEF k
<1> HIDE DEF u, g
<1>9. ToSet(u) = ToSet(s) \cup {e}
  <2>1. DOMAIN u = 1..k + 1
    BY <1>8, LenProperties
  <2>2. \A j \in 1..k + 1 : u[j] \in ToSet(s) \cup {e}
    <3>1. \A j \in 1..k + 1 : (j < i + 1 => j \in 1..k) /\ (j > i + 1 => j - 1 \in 1..k)
      BY <1>3, <1>i
    <3>2. \A j \in 1..k + 1 : j < i + 1 \/ j = i + 1 \/ (j > i + 1 /\ ~(j < i + 1) /\ j # i + 1)
      BY <1>i
    <3>3. QED
      BY <1>3, <1>8, <3>1, <3>2 DEF ToSet
  <2>3. \A j \in 1..k : s[j] \in ToSet(u)
    <3>1. ASSUME NEW j \in 1..k PROVE s[j] \in ToSet(u)
      <4>1. CASE j < i + 1
        <5>1. j \in 1..k + 1 /\ u[j] = s[j]
          BY <1>3, <1>8, <4>1
        <5>2. QED
          BY <2>1, <5>1 DEF ToSet
      <4>2. CASE ~(j < i + 1)
        <5>1. j + 1 \in 1..k + 1 /\ ~(j + 1 < i + 1) /\ j + 1 # i + 1 /\ (j + 1) - 1 = j
          BY <1>3, <1>i, <4>2
        <5>2. u[j + 1] = s[j]
          BY <1>8, <5>1
        <5>3. QED
          BY <2>1, <5>1, <5>2 DEF ToSet
      <4>3. QED
        BY <4>1, <4>2
    <3>2. QED
      BY <3>1
  <2>4. e \in ToSet(u)
    <3>1. i + 1 \in 1..k + 1 /\ u[i + 1] = e
      BY <1>3, <1>8, <1>i
    <3>2. QED
      BY <2>1, <3>1 DEF ToSet
  <2>5. QED
    BY <1>3, <2>1, <2>2, <2>3, <2>4 DEF ToSet
<1>10. Distinct(u)
  <2> SUFFICES ASSUME NEW a \in 1..k + 1, NEW b \in 1..k + 1, u[a] = u[b] PROVE a = b
    <3>1. DOMAIN u = 1..k + 1
      BY <1>8, LenProperties
    <3>2. QED
      BY <3>1 DEF Distinct
  <2>1. \A j \in 1..k : s[j] # e
    BY <1>3 DEF ToSet
  <2>2. \A j, m \in 1..k : s[j] = s[m] => j = m
    BY <1>2, <1>3 DEF Distinct
  <2>3. \A j \in 1..k + 1 :
          \/ j < i + 1 /\ j \in 1..k /\ u[j] = s[j]
          \/ j = i + 1 /\ u[j] = e
          \/ j > i + 1 /\ j - 1 \in 1..k /\ u[j] = s[j - 1]
    <3>1. \A j \in 1..k + 1 : (j < i + 1 => j \in 1..k) /\ (j > i + 1 => j - 1 \in 1..k)
      BY <1>3, <1>i
    <3>2. \A j \in 1..k + 1 : j < i + 1 \/ j = i + 1 \/ (j > i + 1 /\ ~(j < i + 1) /\ j # i + 1)
      BY <1>i
    <3>3. QED
      BY <1>8, <3>1, <3>2
  <2>4. QED
    BY <1>3, <1>i, <2>1, <2>2, <2>3
\* The nodes of the new ring are those of the old one, with e between at and behind.
<1>11. /\ \A j \in 0..i : Node(l, u, j) = Node(l, s, j)
       /\ Node(l, u, i + 1) = e
       /\ \A j \in i + 1..k + 1 : Node(l, u, j + 1) = Node(l, s, j)
  <2>1. \A j \in 0..i : Node(l, u, j) = Node(l, s, j)
    <3>1. ASSUME NEW j \in 0..i PROVE Node(l, u, j) = Node(l, s, j)
      <4>1. CASE j = 0
        BY <1>3, <1>8, <4>1 DEF Node
      <4>2. CASE j # 0
        <5>1. j \in 1..k /\ j \in 1..k + 1 /\ j < i + 1
          BY <1>3, <1>i, <4>2
        <5>2. u[j] = s[j]
          BY <1>8, <5>1
        <5>3. QED
          BY <1>8, <5>1, <5>2 DEF Node, k
      <4>3. QED
        BY <4>1, <4>2
    <3>2. QED
      BY <3>1
  <2>2. Node(l, u, i + 1) = e
    <3>1. i + 1 \in 1..k + 1 /\ u[i + 1] = e
      BY <1>3, <1>8, <1>i
    <3>2. QED
      BY <1>8, <3>1 DEF Node
  <2>3. \A j \in i + 1..k + 1 : Node(l, u, j + 1) = Node(l, s, j)
    <3>1. ASSUME NEW j \in i + 1..k + 1 PROVE Node(l, u, j + 1) = Node(l, s, j)
      <4>1. CASE j = k + 1
        <5>1. j \notin 1..k /\ j + 1 \notin 1..k + 1
          BY <1>3, <4>1
        <5>2. QED
          BY <1>8, <5>1 DEF Node, k
      <4>2. CASE j # k + 1
        <5>1. j \in 1..k /\ j + 1 \in 1..k + 1 /\ ~(j + 1 < i + 1) /\ j + 1 # i + 1 /\ (j + 1) - 1 = j
          BY <1>3, <1>i, <4>2
        <5>2. u[j + 1] = s[j]
          BY <1>8, <5>1
        <5>3. QED
          BY <1>8, <5>1, <5>2 DEF Node, k
      <4>3. QED
        BY <4>1, <4>2
    <3>2. QED
      BY <3>1
  <2>4. QED
    BY <2>1, <2>2, <2>3
<1>12. ASSUME NEW j \in 0..k + 1
       PROVE  g.next[Node(l, u, j)] = Node(l, u, j + 1) /\ g.prev[Node(l, u, j + 1)] = Node(l, u, j)
  <2>1. CASE j < i
    <3>1. /\ j \in 0..i /\ j + 1 \in 0..i /\ j \in Int /\ j + 1 \in Int /\ j \in 0..k
          /\ j + 1 \in 1..k + 1 /\ i + 1 \in 1..k + 1 /\ j # i /\ j + 1 # i + 1
      BY <1>3, <1>i, <2>1
    <3>2. Node(l, u, j) = Node(l, s, j) /\ Node(l, u, j + 1) = Node(l, s, j + 1)
      BY <1>11, <3>1
    <3>3. Node(l, s, j) # at /\ Node(l, s, j) # e /\ Node(l, s, j) \in Nodes
      BY <1>3, <1>5, <1>i, <3>1
    <3>4. Node(l, s, j + 1) # behind /\ Node(l, s, j + 1) # e /\ Node(l, s, j + 1) \in Nodes
      BY <1>3, <1>5, <1>i, <3>1
    <3>5. h.next[Node(l, s, j)] = Node(l, s, j + 1) /\ h.prev[Node(l, s, j + 1)] = Node(l, s, j)
      BY <1>2, <3>1
    <3> HIDE DEF at, behind
    <3>6. QED
      BY <1>7, <3>2, <3>3, <3>4, <3>5
  <2>2. CASE j = i
    <3>1. Node(l, u, j) = at /\ Node(l, u, j + 1) = e
      BY <1>11, <1>i, <2>2
    <3> HIDE DEF at, behind
    <3>2. QED
      BY <1>4, <1>6, <1>7, <3>1
  <2>3. CASE j = i + 1
    <3>1. j \in i + 1..k + 1
      BY <1>i, <2>3
    <3>2. Node(l, u, j) = e /\ Node(l, u, j + 1) = behind
      BY <1>11, <2>3, <3>1
    <3> HIDE DEF at, behind
    <3>3. QED
      BY <1>4, <1>6, <1>7, <3>2
  <2>4. CASE j > i + 1
    <3>1. /\ j - 1 \in i + 1..k + 1 /\ j \in i + 1..k + 1 /\ (j - 1) + 1 = j /\ j - 1 \in Int /\ j \in Int
          /\ j - 1 \in 0..k /\ j \in 1..k + 1 /\ i + 1 \in 1..k + 1 /\ j - 1 # i /\ j # i + 1
      BY <1>3, <1>i, <2>4
    <3>2. Node(l, u, j) = Node(l, s, j - 1) /\ Node(l, u, j + 1) = Node(l, s, j)
      BY <1>11, <3>1
    <3>3. Node(l, s, j - 1) # at /\ Node(l, s, j - 1) # e /\ Node(l, s, j - 1) \in Nodes
      BY <1>3, <1>5, <1>i, <3>1
    <3>4. Node(l, s, j) # behind /\ Node(l, s, j) # e /\ Node(l, s, j) \in Nodes
      BY <1>3, <1>5, <1>i, <3>1
    <3>5. h.next[Node(l, s, j - 1)] = Node(l, s, j) /\ h.prev[Node(l, s, j)] = Node(l, s, j - 1)
      BY <1>2, <3>1
    <3> HIDE DEF at, behind
    <3>6. QED
      BY <1>7, <3>2, <3>3, <3>4, <3>5
  <2>5. j < i \/ j = i \/ j = i + 1 \/ j > i + 1
    BY <1>i
  <2>6. QED
    BY <2>1, <2>2, <2>3, <2>4, <2>5
<1>13. \A j \in 1..k + 1 : g.list[u[j]] = l
  <2>1. \A x \in ToSet(u) : x \in 1..MaxElement /\ (x = e \/ h.list[x] = l)
    <3>1. \A x \in ToSet(s) : x \in 1..MaxElement /\ h.list[x] = l
      <4>1. \A j \in 1..k : s[j] \in 1..MaxElement /\ h.list[s[j]] = l
        BY <1>1, <1>2, <1>3
      <4>2. QED
        BY <1>3, <4>1 DEF ToSet
    <3>2. QED
      BY <1>4, <1>9, <3>1
  <2>2. \A j \in 1..k + 1 : u[j] \in ToSet(u)
    <3>1. DOMAIN u = 1..k + 1
      BY <1>8, LenProperties
    <3>2. QED
      BY <3>1 DEF ToSet
  <2>3. QED
    BY <1>7, <2>1, <2>2
<1>14. Ring(g, l, u)
  BY <1>2, <1>3, <1>7, <1>8, <1>10, <1>12, <1>13 DEF Ring, n, k
<1>15. \A x \in Nodes \ ({l, e} \cup ToSet(s)) : g.next[x] = h.next[x] /\ g.prev[x] = h.prev[x]
  <2>1. at \in {l} \cup ToSet(s) /\ behind \in {l} \cup ToSet(s)
    BY <1>5, <1>i
  <2> HIDE DEF at, behind
  <2>2. QED
    BY <1>7, <2>1
<1>16. QED
  BY <1>7, <1>9, <1>14, <1>15 DEF g, u

\* The i-th element taken out of a ring.
LEMMA UnlinkedRing ==
  ASSUME NEW h \in Heaps, Len(h.value) <= MaxElement, NEW l \in Lists, NEW s, Ring(h, l, s), NEW i \in 1..Len(s)
  PROVE  LET e == s[i]
             g == Unlinked(h, l, e)
         IN /\ Ring(g, l, RemoveAt(s, i)) /\ g \in Heaps /\ g.value = h.value
            /\ e \in 1..Len(h.value) /\ ToSet(RemoveAt(s, i)) = ToSet(s) \ {e}
            /\ \A x \in Nodes \ ({l} \cup ToSet(s)) : g.next[x] = h.next[x] /\ g.prev[x] = h.prev[x]
            /\ \A x \in 1..MaxElement \ {e} : g.list[x] = h.list[x]
            /\ \A m \in Lists \ {l} : g.len[m] = h.len[m]
<1> DEFINE e == s[i]
           before == Node(l, s, i - 1)
           behind == Node(l, s, i + 1)
           g == Unlinked(h, l, e)
           u == RemoveAt(s, i)
           n == Len(h.value)
           k == Len(s)
<1>1. n \in Nat /\ MaxElement \in Nat /\ 1..n \subseteq 1..MaxElement
  BY LenProperties, PatchListAssumption DEF Heaps
<1> HIDE DEF n
<1>2. /\ s \in Seq(1..n) /\ Distinct(s) /\ h.len[l] = k
      /\ \A j \in 0..k : h.next[Node(l, s, j)] = Node(l, s, j + 1) /\ h.prev[Node(l, s, j + 1)] = Node(l, s, j)
      /\ \A j \in 1..k : h.list[s[j]] = l
  BY DEF Ring, n
<1>3. /\ k \in Nat /\ DOMAIN s = 1..k /\ \A j \in 1..k : s[j] \in 1..n /\ s[j] \notin Lists
      /\ \A j, m \in 0..k : Node(l, s, j) = Node(l, s, m) => j = m
      /\ \A j, m \in 1..k + 1 : Node(l, s, j) = Node(l, s, m) => j = m
      /\ \A j \in Int : Node(l, s, j) \in {l} \cup 1..n
  BY <1>1, <1>2, NodesDiffer
<1> HIDE DEF k
<1>i. /\ i \in 1..k /\ i - 1 \in 0..k /\ i \in 0..k /\ i \in 1..k + 1 /\ i + 1 \in 1..k + 1
      /\ i \in Int /\ i - 1 \in Int /\ i + 1 \in Int /\ (i - 1) + 1 = i
  BY <1>3 DEF k
<1>4. e \in 1..n /\ e \in 1..MaxElement /\ e \in Nodes /\ l \in Nodes /\ e = Node(l, s, i)
  BY <1>1, <1>3, <1>i DEF Nodes, Node, k
<1> HIDE DEF e
<1>5. \A j \in Int : Node(l, s, j) \in {l} \cup ToSet(s) /\ Node(l, s, j) \in Nodes
  <2>1. \A j \in Int : Node(l, s, j) \in {l} \cup ToSet(s)
    BY <1>3 DEF Node, ToSet, k
  <2>2. QED
    BY <1>1, <1>3, <1>4, <2>1 DEF Nodes
<1>6. /\ h.next[e] = behind /\ h.prev[e] = before /\ before # e /\ behind # e
      /\ before \in Nodes /\ behind \in Nodes
  <2>1. h.next[e] = behind /\ h.prev[e] = before
    BY <1>2, <1>4, <1>i
  <2>2. before # e /\ behind # e
    BY <1>3, <1>4, <1>i
  <2>3. QED
    BY <1>5, <1>i, <2>1, <2>2
<1>7. /\ g \in Heaps /\ g.value = h.value
      /\ \A x \in Nodes \ {e} : /\ g.next[x] = IF x = before THEN behind ELSE h.next[x]
                                /\ g.prev[x] = IF x = behind THEN before ELSE h.prev[x]
      /\ \A x \in 1..MaxElement : g.list[x] = IF x = e THEN 0 ELSE h.list[x]
      /\ \A m \in Lists : g.len[m] = IF m = l THEN h.len[l] - 1 ELSE h.len[m]
  <2> HIDE DEF before, behind
  <2>1. QED
    BY <1>4, <1>6, UnlinkedIs
<1>8. u \in Seq(1..n) /\ Len(u) = k - 1 /\ \A j \in 1..k - 1 : u[j] = IF j < i THEN s[j] ELSE s[j + 1]
  BY <1>2, Removed DEF k
<1> HIDE DEF u, g
<1>0. DOMAIN u = 1..k - 1 /\ k - 1 \in Nat
  BY <1>3, <1>8, <1>i, LenProperties
<1>a. \A j \in 1..k - 1 : \/ j < i /\ j \in 1..k /\ j # i /\ u[j] = s[j]
                          \/ j >= i /\ j + 1 \in 1..k /\ j + 1 # i /\ u[j] = s[j + 1]
  <2>1. \A j \in 1..k - 1 : /\ j < i => j \in 1..k /\ j # i
                            /\ ~(j < i) => j >= i /\ j + 1 \in 1..k /\ j + 1 # i
    BY <1>3, <1>i
  <2>2. QED
    BY <1>8, <2>1
<1>b. \A j, m \in 1..k : s[j] = s[m] => j = m
  BY <1>2, <1>3 DEF Distinct
<1>9. ToSet(u) = ToSet(s) \ {e}
  <2>1. \A j \in 1..k - 1 : u[j] \in ToSet(s) \ {e}
    BY <1>3, <1>a, <1>b, <1>i DEF ToSet, e
  <2>2. ASSUME NEW j \in 1..k, s[j] # e PROVE s[j] \in ToSet(u)
    <3>1. j # i
      BY <2>2 DEF e
    <3>2. CASE j < i
      <4>1. j \in 1..k - 1
        BY <1>3, <1>i, <3>2
      <4>2. u[j] = s[j]
        BY <1>8, <3>2, <4>1
      <4>3. QED
        BY <1>0, <4>1, <4>2 DEF ToSet
    <3>3. CASE j > i
      <4>1. j - 1 \in 1..k - 1 /\ ~(j - 1 < i) /\ (j - 1) + 1 = j
        BY <1>3, <1>i, <3>3
      <4>2. u[j - 1] = s[j]
        BY <1>8, <4>1
      <4>3. QED
        BY <1>0, <4>1, <4>2 DEF ToSet
    <3>4. QED
      BY <1>i, <3>1, <3>2, <3>3
  <2>3. ToSet(u) \subseteq ToSet(s) \ {e}
    BY <1>0, <2>1 DEF ToSet
  <2>4. ASSUME NEW x \in ToSet(s) \ {e} PROVE x \in ToSet(u)
    <3>1. PICK j \in 1..k : x = s[j]
      BY <1>3 DEF ToSet
    <3>2. QED
      BY <2>2, <2>4, <3>1
  <2>5. QED
    BY <2>3, <2>4
<1>10. Distinct(u)
  <2> DEFINE from(j) == IF j < i THEN j ELSE j + 1
  <2>1. \A j \in 1..k - 1 : from(j) \in 1..k /\ u[j] = s[from(j)]
    BY <1>a
  <2>2. \A a, b \in 1..k - 1 : from(a) = from(b) => a = b
    BY <1>3, <1>i
  <2> HIDE DEF from
  <2>3. \A a, b \in 1..k - 1 : u[a] = u[b] => a = b
    BY <1>b, <2>1, <2>2
  <2>4. QED
    BY <1>0, <2>3 DEF Distinct
\* The nodes of the new ring are those of the old one without e.
<1>11. /\ \A j \in 0..i - 1 : Node(l, u, j) = Node(l, s, j)
       /\ \A j \in i..k : Node(l, u, j) = Node(l, s, j + 1)
  <2>1. \A j \in 0..i - 1 : Node(l, u, j) = Node(l, s, j)
    <3>1. ASSUME NEW j \in 0..i - 1 PROVE Node(l, u, j) = Node(l, s, j)
      <4>1. CASE j = 0
        BY <1>0, <1>3, <1>8, <4>1 DEF Node, k
      <4>2. CASE j # 0
        <5>1. j \in 1..k /\ j \in 1..k - 1 /\ j < i
          BY <1>3, <1>i, <4>2
        <5>2. u[j] = s[j]
          BY <1>8, <5>1
        <5>3. QED
          BY <1>8, <5>1, <5>2 DEF Node, k
      <4>3. QED
        BY <4>1, <4>2
    <3>2. QED
      BY <3>1
  <2>2. \A j \in i..k : Node(l, u, j) = Node(l, s, j + 1)
    <3>1. ASSUME NEW j \in i..k PROVE Node(l, u, j) = Node(l, s, j + 1)
      <4>1. CASE j = k
        <5>1. j \notin 1..k - 1 /\ j + 1 \notin 1..k
          BY <1>3, <4>1
        <5>2. QED
          BY <1>8, <5>1 DEF Node, k
      <4>2. CASE j # k
        <5>1. j \in 1..k - 1 /\ j + 1 \in 1..k /\ ~(j < i)
          BY <1>3, <1>i, <4>2
        <5>2. u[j] = s[j + 1]
          BY <1>8, <5>1
        <5>3. QED
          BY <1>8, <5>1, <5>2 DEF Node, k
      <4>3. QED
        BY <4>1, <4>2
    <3>2. QED
      BY <3>1
  <2>3. QED
    BY <2>1, <2>2
<1>12. ASSUME NEW j \in 0..k - 1
       PROVE  g.next[Node(l, u, j)] = Node(l, u, j + 1) /\ g.prev[Node(l, u, j + 1)] = Node(l, u, j)
  <2>1. CASE j < i - 1
    <3>1. /\ j \in 0..i - 1 /\ j + 1 \in 0..i - 1 /\ j \in Int /\ j + 1 \in Int /\ j \in 0..k /\ j + 1 \in 0..k
          /\ j + 1 \in 1..k + 1 /\ j # i - 1 /\ j # i /\ j + 1 # i + 1 /\ j + 1 # i
      BY <1>3, <1>i, <2>1
    <3>2. Node(l, u, j) = Node(l, s, j) /\ Node(l, u, j + 1) = Node(l, s, j + 1)
      BY <1>11, <3>1
    <3>3. Node(l, s, j) # before /\ Node(l, s, j) # e /\ Node(l, s, j) \in Nodes
      BY <1>3, <1>4, <1>5, <1>i, <3>1
    <3>4. Node(l, s, j + 1) # behind /\ Node(l, s, j + 1) # e /\ Node(l, s, j + 1) \in Nodes
      BY <1>3, <1>4, <1>5, <1>i, <3>1
    <3>5. h.next[Node(l, s, j)] = Node(l, s, j + 1) /\ h.prev[Node(l, s, j + 1)] = Node(l, s, j)
      BY <1>2, <3>1
    <3> HIDE DEF before, behind
    <3>6. QED
      BY <1>7, <3>2, <3>3, <3>4, <3>5
  <2>2. CASE j = i - 1
    <3>1. j \in 0..i - 1 /\ j + 1 = i /\ i \in i..k
      BY <1>3, <1>i, <2>2
    <3>2. Node(l, u, j) = before /\ Node(l, u, j + 1) = behind
      BY <1>11, <2>2, <3>1
    <3> HIDE DEF before, behind
    <3>3. QED
      BY <1>6, <1>7, <3>2
  <2>3. CASE j > i - 1
    <3>1. /\ j \in i..k /\ j + 1 \in i..k /\ j + 1 \in Int /\ (j + 1) + 1 \in Int /\ j + 1 \in 0..k
          /\ (j + 1) + 1 \in 1..k + 1 /\ j + 1 # i - 1 /\ j + 1 # i /\ (j + 1) + 1 # i + 1 /\ (j + 1) + 1 # i
      BY <1>3, <1>i, <2>3
    <3>2. Node(l, u, j) = Node(l, s, j + 1) /\ Node(l, u, j + 1) = Node(l, s, (j + 1) + 1)
      BY <1>11, <3>1
    <3>3. Node(l, s, j + 1) # before /\ Node(l, s, j + 1) # e /\ Node(l, s, j + 1) \in Nodes
      BY <1>3, <1>4, <1>5, <1>i, <3>1
    <3>4. Node(l, s, (j + 1) + 1) # behind /\ Node(l, s, (j + 1) + 1) # e /\ Node(l, s, (j + 1) + 1) \in Nodes
      BY <1>3, <1>4, <1>5, <1>i, <3>1
    <3>5. /\ h.next[Node(l, s, j + 1)] = Node(l, s, (j + 1) + 1)
          /\ h.prev[Node(l, s, (j + 1) + 1)] = Node(l, s, j + 1)
      BY <1>2, <3>1
    <3> HIDE DEF before, behind
    <3>6. QED
      BY <1>7, <3>2, <3>3, <3>4, <3>5
  <2>4. j < i - 1 \/ j = i - 1 \/ j > i - 1
    BY <1>i
  <2>5. QED
    BY <2>1, <2>2, <2>3, <2>4
<1>13. \A j \in 1..k - 1 : g.list[u[j]] = l
  <2>1. \A j \in 1..k : s[j] \in 1..MaxElement /\ h.list[s[j]] = l
    BY <1>1, <1>2, <1>3
  <2>2. \A j \in 1..k - 1 : u[j] # e /\ u[j] \in 1..MaxElement /\ h.list[u[j]] = l
    <3>1. \A m \in 1..k : m # i => s[m] # e
      BY <1>b, <1>i DEF e
    <3>2. \A j \in 1..k - 1 : \E m \in 1..k : m # i /\ u[j] = s[m]
      BY <1>a
    <3>3. QED
      BY <2>1, <3>1, <3>2
  <2>3. QED
    BY <1>7, <2>2
<1>14. Ring(g, l, u)
  BY <1>2, <1>3, <1>7, <1>8, <1>10, <1>12, <1>13 DEF Ring, n, k
<1>15. \A x \in Nodes \ ({l} \cup ToSet(s)) : g.next[x] = h.next[x] /\ g.prev[x] = h.prev[x]
  <2>1. before \in {l} \cup ToSet(s) /\ behind \in {l} \cup ToSet(s) /\ e \in {l} \cup ToSet(s)
    BY <1>4, <1>5, <1>i
  <2> HIDE DEF before, behind
  <2>2. QED
    BY <1>7, <2>1
<1>16. \A x \in 1..MaxElement \ {e} : g.list[x] = h.list[x]
  BY <1>7
<1>17. \A m \in Lists \ {l} : g.len[m] = h.len[m]
  BY <1>7
<1>18. g \in Heaps /\ g.value = h.value /\ e \in 1..Len(h.value)
  BY <1>4, <1>7 DEF n
<1>19. QED
  BY <1>9, <1>14, <1>15, <1>16, <1>17, <1>18 DEF g, u, e

-----------------------------------------------------------------------------
(* All lists *)

\* The elements of a list name it, or the buffer if they are the compiler's; so
\* that no element is in two lists.
LEMMA Apart ==
  ASSUME NEW h, NEW c, Rings(h, c)
  PROVE  /\ Len(h.value) \in Nat /\ MaxElement \in Nat /\ 1..Len(h.value) \subseteq 1..MaxElement
         /\ \A l \in Lists : /\ c[l] \in Seq(1..Len(h.value)) /\ Distinct(c[l]) /\ ToSet(c[l]) \subseteq 1..Len(h.value)
                             /\ Len(c[l]) \in Nat /\ DOMAIN c[l] = 1..Len(c[l])
                             /\ h.len[l] = Len(c[l]) /\ Len(c[l]) <= MaxElement
         /\ \A l \in Lists \ {View} : \A x \in ToSet(c[l]) : h.list[x] = l
         /\ \A x \in ToSet(c[View]) : h.list[x] = Buffer
         /\ \A l, m \in Lists : l # m => ToSet(c[l]) \cap ToSet(c[m]) = {}
<1>1. Len(h.value) \in Nat /\ MaxElement \in Nat /\ 1..Len(h.value) \subseteq 1..MaxElement
  BY LenProperties, PatchListAssumption DEF Rings, Heaps
<1>2. ASSUME NEW l \in Lists
      PROVE  /\ c[l] \in Seq(1..Len(h.value)) /\ Distinct(c[l]) /\ ToSet(c[l]) \subseteq 1..Len(h.value)
             /\ Len(c[l]) \in Nat /\ DOMAIN c[l] = 1..Len(c[l])
             /\ h.len[l] = Len(c[l]) /\ Len(c[l]) <= MaxElement
  <2>1. c[l] \in Seq(1..Len(h.value)) /\ Distinct(c[l]) /\ h.len[l] = Len(c[l])
    BY DEF Rings, Ring, Chain
  <2>2. /\ Len(c[l]) \in Nat /\ DOMAIN c[l] = 1..Len(c[l])
        /\ \A i \in 1..Len(c[l]) : c[l][i] \in 1..Len(h.value)
    BY <2>1, LenProperties
  <2>3. Len(c[l]) <= Len(h.value)
    BY <1>1, <2>1, DistinctLen
  <2>4. ToSet(c[l]) \subseteq 1..Len(h.value)
    BY <2>2 DEF ToSet
  <2>5. Len(c[l]) <= MaxElement
    BY <1>1, <2>2, <2>3 DEF Rings
  <2>6. QED
    BY <2>1, <2>2, <2>4, <2>5
<1>3. \A l \in Lists \ {View} : \A x \in ToSet(c[l]) : h.list[x] = l
  <2>1. ASSUME NEW l \in Lists \ {View} PROVE \A x \in ToSet(c[l]) : h.list[x] = l
    <3>1. Ring(h, l, c[l])
      BY DEF Rings
    <3>2. \A i \in 1..Len(c[l]) : h.list[c[l][i]] = l
      BY <3>1 DEF Ring
    <3>3. DOMAIN c[l] = 1..Len(c[l])
      BY <1>2
    <3>4. QED
      BY <3>2, <3>3 DEF ToSet
  <2>2. QED
    BY <2>1
<1>4. View \in Lists /\ Buffer \in Lists \ {View}
  BY DEF Lists, View, Buffer
<1>5. \A x \in ToSet(c[View]) : h.list[x] = Buffer
  <2>1. \A i \in 1..Len(c[View]) : h.list[c[View][i]] = Buffer
    BY DEF Rings, Chain
  <2>2. DOMAIN c[View] = 1..Len(c[View])
    BY <1>2, <1>4
  <2>3. QED
    BY <2>1, <2>2 DEF ToSet
<1>6. \A x \in ToSet(c[View]), y \in ToSet(c[Buffer]) : x # y
  BY DEF Rings, ToSet
<1>7. \A l, m \in Lists : l # m => ToSet(c[l]) \cap ToSet(c[m]) = {}
  BY <1>3, <1>4, <1>5, <1>6
<1>8. QED
  BY <1>1, <1>2, <1>3, <1>5, <1>7

\* Where one ring and an element that is in no other list were changed, the others stay.
LEMMA OneRingChanges ==
  ASSUME NEW h, NEW c, Rings(h, c), NEW l \in Lists \ {View}, NEW E \in SUBSET (1..MaxElement),
         NEW g \in Heaps, NEW u, Ring(g, l, u), ToSet(u) \subseteq ToSet(c[l]) \cup E,
         Len(h.value) <= Len(g.value), Len(g.value) <= MaxElement,
         \A m \in Lists \ {l} : ToSet(c[m]) \cap E = {},
         \A x \in Nodes \ ({l} \cup ToSet(c[l]) \cup E) : g.next[x] = h.next[x] /\ g.prev[x] = h.prev[x],
         \A x \in 1..MaxElement \ (ToSet(c[l]) \cup E) : g.list[x] = h.list[x],
         \A m \in Lists \ {l} : g.len[m] = h.len[m]
  PROVE  Rings(g, [c EXCEPT ![l] = u])
<1> DEFINE d == [c EXCEPT ![l] = u]
<1>1. View \in Lists /\ Buffer \in Lists \ {View} /\ h \in Heaps /\ c \in [Lists -> Seq(Nat)]
  BY DEF Lists, View, Buffer, Rings
<1>2. \A m \in Lists : d[m] = IF m = l THEN u ELSE c[m]
  BY <1>1
<1>3. u \in Seq(Nat)
  <2>1. u \in Seq(1..Len(g.value)) /\ Len(g.value) \in Nat
    BY LenProperties DEF Ring, Heaps
  <2>2. 1..Len(g.value) \subseteq Nat
    BY <2>1
  <2>3. QED
    BY <2>1, <2>2, SeqMonotonic
<1>4. d \in [Lists -> Seq(Nat)]
  BY <1>1, <1>3
<1> HIDE DEF d
<1>5. ASSUME NEW m \in Lists \ {l}
      PROVE  /\ \A x \in {m} \cup ToSet(c[m]) : g.next[x] = h.next[x] /\ g.prev[x] = h.prev[x]
             /\ \A x \in ToSet(c[m]) : g.list[x] = h.list[x]
             /\ g.len[m] = h.len[m]
  <2>1. ToSet(c[m]) \subseteq 1..MaxElement /\ ToSet(c[m]) \cap ToSet(c[l]) = {} /\ ToSet(c[l]) \subseteq 1..MaxElement
    BY Apart
  <2>2. \A x \in {m} \cup ToSet(c[m]) : x \in Nodes \ ({l} \cup ToSet(c[l]) \cup E)
    BY <2>1, ListNumbers DEF Nodes
  <2>3. \A x \in ToSet(c[m]) : x \in 1..MaxElement \ (ToSet(c[l]) \cup E)
    BY <2>1
  <2>4. QED
    BY <2>2, <2>3
<1>6. ASSUME NEW m \in Lists \ {View} PROVE Ring(g, m, d[m])
  <2>1. CASE m = l
    BY <1>2, <2>1
  <2>2. CASE m # l
    <3>1. Ring(h, m, c[m])
      BY DEF Rings
    <3>2. /\ \A x \in {m} \cup ToSet(c[m]) : g.next[x] = h.next[x] /\ g.prev[x] = h.prev[x]
          /\ \A x \in ToSet(c[m]) : g.list[x] = h.list[x]
          /\ g.len[m] = h.len[m]
      BY <1>5, <2>2
    <3>3. Ring(g, m, c[m])
      BY <1>1, <3>1, <3>2, RingFrame
    <3>4. QED
      BY <1>2, <2>2, <3>3
  <2>3. QED
    BY <2>1, <2>2
<1>7. Chain(g, d[View])
  <2>1. Chain(h, c[View]) /\ d[View] = c[View]
    BY <1>1, <1>2 DEF Rings
  <2>2. /\ \A x \in {View} \cup ToSet(c[View]) : g.next[x] = h.next[x]
        /\ \A x \in ToSet(c[View]) : g.list[x] = h.list[x]
        /\ g.len[View] = h.len[View]
    BY <1>1, <1>5
  <2>3. QED
    BY <1>1, <2>1, <2>2, ChainFrame
<1>8. \A i \in DOMAIN d[View], j \in DOMAIN d[Buffer] : d[View][i] # d[Buffer][j]
  <2>1. d[View] = c[View]
    BY <1>1, <1>2
  <2>2. \A x \in ToSet(c[View]), y \in ToSet(c[Buffer]) : x # y
    <3>1. \A m, n \in Lists : m # n => ToSet(c[m]) \cap ToSet(c[n]) = {}
      BY Apart
    <3>2. ToSet(c[View]) \cap ToSet(c[Buffer]) = {}
      BY <1>1, <3>1
    <3>3. QED
      BY <3>2
  <2>3. \A x \in ToSet(d[View]), y \in ToSet(d[Buffer]) : x # y
    <3>1. CASE l = Buffer
      BY <1>1, <1>2, <2>1, <2>2, <3>1
    <3>2. CASE l # Buffer
      BY <1>1, <1>2, <2>1, <2>2, <3>2
    <3>3. QED
      BY <3>1, <3>2
  <2>4. QED
    BY <2>3 DEF ToSet
<1>9. QED
  BY <1>4, <1>6, <1>7, <1>8 DEF Rings, d

\* An element of no list, put behind the i-th one of a list.
LEMMA LinkedKeeps ==
  ASSUME NEW h, NEW c, Rings(h, c), NEW l \in Lists \ {View}, NEW i \in 0..Len(c[l]),
         NEW e \in 1..Len(h.value), \A m \in Lists : e \notin ToSet(c[m])
  PROVE  /\ Rings(Linked(h, l, e, Node(l, c[l], i)), [c EXCEPT ![l] = InsertAt(c[l], i + 1, e)])
         /\ Linked(h, l, e, Node(l, c[l], i)).value = h.value
<1> DEFINE s == c[l]
           g == Linked(h, l, e, Node(l, s, i))
           u == InsertAt(s, i + 1, e)
<1>1. /\ h \in Heaps /\ Len(h.value) <= MaxElement /\ Ring(h, l, s) /\ e \notin ToSet(s) /\ e \in 1..MaxElement
      /\ i \in 0..Len(s) /\ Len(h.value) \in Nat
  BY Apart DEF Rings
<1> HIDE DEF s
<1>2. /\ Ring(g, l, u) /\ g \in Heaps /\ g.value = h.value
      /\ ToSet(u) = ToSet(s) \cup {e}
      /\ \A x \in Nodes \ ({l, e} \cup ToSet(s)) : g.next[x] = h.next[x] /\ g.prev[x] = h.prev[x]
      /\ \A x \in 1..MaxElement \ {e} : g.list[x] = h.list[x]
      /\ \A m \in Lists \ {l} : g.len[m] = h.len[m]
  BY <1>1, LinkedRing
<1> HIDE DEF g, u
<1>3. Rings(g, [c EXCEPT ![l] = u])
  <2> DEFINE E == {e}
  <2>1. /\ E \in SUBSET (1..MaxElement) /\ ToSet(u) \subseteq ToSet(c[l]) \cup E
        /\ \A m \in Lists \ {l} : ToSet(c[m]) \cap E = {}
        /\ \A x \in Nodes \ ({l} \cup ToSet(c[l]) \cup E) : g.next[x] = h.next[x] /\ g.prev[x] = h.prev[x]
        /\ \A x \in 1..MaxElement \ (ToSet(c[l]) \cup E) : g.list[x] = h.list[x]
    BY <1>1, <1>2 DEF s
  <2>2. Len(h.value) <= Len(g.value) /\ Len(g.value) <= MaxElement
    BY <1>1, <1>2
  <2> HIDE DEF E
  <2>3. QED
    BY <1>1, <1>2, <2>1, <2>2, OneRingChanges
<1>4. QED
  BY <1>2, <1>3 DEF g, u, s

\* e is the i-th of s.
IsAt(s, i, e) == i \in 1..Len(s) /\ e = s[i]

\* The contents where those of l are s.
With(c, l, s) == [c EXCEPT ![l] = s]

\* The i-th element of a list, taken out.
LEMMA UnlinkedKeeps ==
  ASSUME NEW h, NEW c, Rings(h, c), NEW l \in Lists \ {View}, NEW i, NEW e, IsAt(c[l], i, e)
  PROVE  /\ Rings(Unlinked(h, l, e), With(c, l, RemoveAt(c[l], i)))
         /\ Unlinked(h, l, e).value = h.value
         /\ e \in 1..Len(h.value) /\ e \notin ToSet(RemoveAt(c[l], i))
<1> DEFINE s == c[l]
           g == Unlinked(h, l, e)
           u == RemoveAt(s, i)
<1>1. /\ h \in Heaps /\ Len(h.value) <= MaxElement /\ Ring(h, l, s) /\ i \in 1..Len(s)
      /\ Len(h.value) \in Nat /\ 1..Len(h.value) \subseteq 1..MaxElement
  BY Apart DEF Rings, IsAt
<1>0. e \in ToSet(c[l])
  BY Apart DEF ToSet, IsAt
<1>e. e = s[i]
  BY DEF IsAt
<1> HIDE DEF s
<1>2. /\ Ring(g, l, u) /\ g \in Heaps /\ g.value = h.value
      /\ e \in 1..Len(h.value) /\ ToSet(u) = ToSet(s) \ {e}
      /\ \A x \in Nodes \ ({l} \cup ToSet(s)) : g.next[x] = h.next[x] /\ g.prev[x] = h.prev[x]
      /\ \A x \in 1..MaxElement \ {e} : g.list[x] = h.list[x]
      /\ \A m \in Lists \ {l} : g.len[m] = h.len[m]
  BY <1>1, <1>e, UnlinkedRing
<1> HIDE DEF g, u
<1>3. Rings(g, [c EXCEPT ![l] = u])
  <2> DEFINE E == {e}
  <2>1. /\ E \in SUBSET (1..MaxElement) /\ ToSet(u) \subseteq ToSet(c[l]) \cup E
        /\ \A x \in Nodes \ ({l} \cup ToSet(c[l]) \cup E) : g.next[x] = h.next[x] /\ g.prev[x] = h.prev[x]
        /\ \A x \in 1..MaxElement \ (ToSet(c[l]) \cup E) : g.list[x] = h.list[x]
    BY <1>1, <1>2 DEF s
  <2>2. \A m \in Lists \ {l} : ToSet(c[m]) \cap E = {}
    <3>1. \A m \in Lists \ {l} : ToSet(c[m]) \cap ToSet(c[l]) = {}
      BY Apart
    <3>2. QED
      BY <1>0, <3>1
  <2>3. Len(h.value) <= Len(g.value) /\ Len(g.value) <= MaxElement
    BY <1>1, <1>2
  <2> HIDE DEF E
  <2>r. Ring(g, l, u) /\ g \in Heaps /\ \A m \in Lists \ {l} : g.len[m] = h.len[m]
    BY <1>2
  <2>4. QED
    BY <2>1, <2>2, <2>3, <2>r, OneRingChanges
<1>4. QED
  BY <1>2, <1>3 DEF g, u, s, With

LEMMA ValuesChange ==
  ASSUME NEW h, NEW c, Rings(h, c), NEW g \in Heaps, Len(h.value) <= Len(g.value), Len(g.value) <= MaxElement,
         g.next = h.next, g.prev = h.prev, g.list = h.list, g.len = h.len
  PROVE  Rings(g, c)
<1>1. h \in Heaps
  BY DEF Rings
<1>2. ASSUME NEW m \in Lists \ {View} PROVE Ring(g, m, c[m])
  <2>1. Ring(h, m, c[m])
    BY DEF Rings
  <2>2. QED
    BY <1>1, <2>1, RingFrame
<1>3. Chain(g, c[View])
  <2>1. Chain(h, c[View])
    BY DEF Rings
  <2>2. QED
    BY <1>1, <2>1, ChainFrame
<1>4. QED
  BY <1>2, <1>3 DEF Rings

\* A new element behind the i-th one.
LEMMA InsertedKeeps ==
  ASSUME NEW h, NEW c, Rings(h, c), NEW l \in Lists \ {View}, NEW i \in 0..Len(c[l]),
         NEW p \in Patches, Len(h.value) + 1 <= MaxElement
  PROVE  LET g == InsertedValue(h, l, p, Node(l, c[l], i)) IN
         /\ Rings(g, [c EXCEPT ![l] = InsertAt(c[l], i + 1, Len(h.value) + 1)])
         /\ g.value = Append(h.value, p)
<1> DEFINE k == [h EXCEPT !.value = Append(h.value, p)]
           e == Len(h.value) + 1
<1>1. h \in Heaps /\ Len(h.value) \in Nat /\ h.value \in Seq(Patches)
  BY Apart DEF Rings, Heaps
<1>2. Append(h.value, p) \in Seq(Patches) /\ Len(Append(h.value, p)) = Len(h.value) + 1
  BY <1>1, AppendProperties
<1>3. /\ k \in Heaps /\ k.value = Append(h.value, p)
      /\ k.next = h.next /\ k.prev = h.prev /\ k.list = h.list /\ k.len = h.len
  BY <1>1, <1>2 DEF Heaps
<1> HIDE DEF k
<1>4. Rings(k, c)
  BY <1>1, <1>2, <1>3, ValuesChange
<1>5. e \in 1..Len(k.value) /\ \A m \in Lists : e \notin ToSet(c[m])
  <2>1. \A m \in Lists : ToSet(c[m]) \subseteq 1..Len(h.value)
    BY Apart
  <2>2. QED
    BY <1>1, <1>2, <1>3, <2>1
<1> HIDE DEF e
<1>6. /\ Rings(Linked(k, l, e, Node(l, c[l], i)), [c EXCEPT ![l] = InsertAt(c[l], i + 1, e)])
      /\ Linked(k, l, e, Node(l, c[l], i)).value = k.value
  BY <1>4, <1>5, LinkedKeeps
<1>7. InsertedValue(h, l, p, Node(l, c[l], i)) = Linked(k, l, e, Node(l, c[l], i))
  BY DEF InsertedValue, k, e
<1>8. QED
  BY <1>3, <1>6, <1>7 DEF e

LEMMA ClearedKeeps ==
  ASSUME NEW h, NEW c, Rings(h, c), NEW l \in Lists \ {View}
  PROVE  /\ Rings(Cleared(h, l), [c EXCEPT ![l] = <<>>])
         /\ Cleared(h, l).value = h.value
<1> DEFINE g == Cleared(h, l)
<1>1. h \in Heaps /\ Len(h.value) \in Nat /\ Len(h.value) <= MaxElement
  BY Apart DEF Rings
<1>2. /\ g.next = [h.next EXCEPT ![l] = l] /\ g.prev = [h.prev EXCEPT ![l] = l] /\ g.list = h.list
      /\ g.len = [h.len EXCEPT ![l] = 0] /\ g.value = h.value
  BY <1>1 DEF Cleared, Heaps
<1>3. /\ h.next \in [Nodes -> Nodes \cup {0}] /\ h.prev \in [Nodes -> Nodes \cup {0}] /\ h.len \in [Lists -> Int]
      /\ l \in Nodes
  BY <1>1 DEF Heaps, Nodes
<1>4. g \in Heaps
  <2>1. /\ [h.next EXCEPT ![l] = l] \in [Nodes -> Nodes \cup {0}]
        /\ [h.prev EXCEPT ![l] = l] \in [Nodes -> Nodes \cup {0}]
        /\ [h.len EXCEPT ![l] = 0] \in [Lists -> Int]
    BY <1>3
  <2>2. QED
    BY <1>1, <1>2, <2>1 DEF Cleared, Heaps
<1> HIDE DEF g
<1>5. /\ \A x \in Nodes \ {l} : g.next[x] = h.next[x] /\ g.prev[x] = h.prev[x]
      /\ g.next[l] = l /\ g.prev[l] = l /\ g.len[l] = 0
      /\ \A m \in Lists \ {l} : g.len[m] = h.len[m]
  BY <1>2, <1>3
<1>6. <<>> \in Seq(1..Len(g.value)) /\ Len(<<>>) = 0 /\ DOMAIN <<>> = {} /\ ToSet(<<>>) = {}
  BY EmptySeq DEF ToSet
<1>7. Ring(g, l, <<>>)
  <2>1. \A i \in Int : Node(l, <<>>, i) = l
    BY <1>6 DEF Node
  <2>2. \A i \in 0..0 : i \in Int /\ i + 1 \in Int
    OBVIOUS
  <2>3. Distinct(<<>>)
    BY <1>6 DEF Distinct
  <2>4. QED
    BY <1>5, <1>6, <2>1, <2>2, <2>3 DEF Ring
<1>8. Rings(g, [c EXCEPT ![l] = <<>>])
  <2> DEFINE E == {}
             u == <<>>
  <2>1. E \in SUBSET (1..MaxElement) /\ ToSet(u) \subseteq ToSet(c[l]) \cup E
        /\ \A m \in Lists \ {l} : ToSet(c[m]) \cap E = {}
    BY <1>6
  <2>2. /\ \A x \in Nodes \ ({l} \cup ToSet(c[l]) \cup E) : g.next[x] = h.next[x] /\ g.prev[x] = h.prev[x]
        /\ \A x \in 1..MaxElement \ (ToSet(c[l]) \cup E) : g.list[x] = h.list[x]
    BY <1>2, <1>5
  <2>3. Len(h.value) <= Len(g.value) /\ Len(g.value) <= MaxElement
    BY <1>1, <1>2
  <2>4. Ring(g, l, u)
    BY <1>7
  <2> HIDE DEF E, u
  <2>m. \A m \in Lists \ {l} : g.len[m] = h.len[m]
    BY <1>5
  <2>5. Rings(g, [c EXCEPT ![l] = u])
    BY <1>4, <2>1, <2>2, <2>3, <2>4, <2>m, OneRingChanges
  <2>6. QED
    BY <2>5 DEF u
<1>9. QED
  BY <1>2, <1>8 DEF g

\* The memory CompilePatch leaves behind.
Handed(h) ==
  Cleared([h EXCEPT !.next[View] = h.next[Buffer], !.prev[View] = h.prev[Buffer], !.len[View] = h.len[Buffer]],
          Buffer)

LEMMA HandedKeeps ==
  ASSUME NEW h, NEW c, Rings(h, c)
  PROVE  /\ Rings(Handed(h), [c EXCEPT ![View] = c[Buffer], ![Buffer] = <<>>])
         /\ Handed(h).value = h.value
<1> DEFINE g == Handed(h)
           s == c[Buffer]
           d == [c EXCEPT ![View] = s, ![Buffer] = <<>>]
<1>0. View \in Lists /\ Buffer \in Lists \ {View} /\ View # Buffer
  BY DEF Lists, View, Buffer
<1>1. h \in Heaps /\ Len(h.value) \in Nat /\ Len(h.value) <= MaxElement /\ c \in [Lists -> Seq(Nat)]
  BY Apart DEF Rings
<1>3. /\ h.next \in [Nodes -> Nodes \cup {0}] /\ h.prev \in [Nodes -> Nodes \cup {0}] /\ h.len \in [Lists -> Int]
      /\ View \in Nodes /\ Buffer \in Nodes
  BY <1>0, <1>1 DEF Heaps, Nodes
<1>2. /\ g.next = [[h.next EXCEPT ![View] = h.next[Buffer]] EXCEPT ![Buffer] = Buffer]
      /\ g.prev = [[h.prev EXCEPT ![View] = h.prev[Buffer]] EXCEPT ![Buffer] = Buffer]
      /\ g.len = [[h.len EXCEPT ![View] = h.len[Buffer]] EXCEPT ![Buffer] = 0]
      /\ g.list = h.list /\ g.value = h.value
  BY <1>1 DEF Handed, Cleared, Heaps
<1>4. g \in Heaps
  <2>1. g.next \in [Nodes -> Nodes \cup {0}] /\ g.prev \in [Nodes -> Nodes \cup {0}]
    BY <1>2, <1>3
  <2>2. g.len \in [Lists -> Int]
    BY <1>0, <1>2, <1>3
  <2>3. QED
    BY <1>1, <1>2, <2>1, <2>2 DEF Handed, Cleared, Heaps
<1> HIDE DEF g
<1>5. /\ \A x \in Nodes \ {View, Buffer} : g.next[x] = h.next[x] /\ g.prev[x] = h.prev[x]
      /\ g.next[Buffer] = Buffer /\ g.prev[Buffer] = Buffer /\ g.len[Buffer] = 0
      /\ g.next[View] = h.next[Buffer] /\ g.len[View] = h.len[Buffer]
      /\ \A m \in Lists \ {View, Buffer} : g.len[m] = h.len[m]
  BY <1>0, <1>2, <1>3
<1>6. <<>> \in Seq(1..Len(g.value)) /\ <<>> \in Seq(Nat) /\ Len(<<>>) = 0 /\ DOMAIN <<>> = {}
  BY EmptySeq
<1>7. d[View] = s /\ d[Buffer] = <<>> /\ \A m \in Lists \ {View, Buffer} : d[m] = c[m]
  BY <1>0, <1>1
<1>8. d \in [Lists -> Seq(Nat)]
  BY <1>0, <1>1, <1>6
<1> HIDE DEF d
<1>9. Ring(g, Buffer, <<>>)
  <2>1. \A i \in Int : Node(Buffer, <<>>, i) = Buffer
    BY <1>6 DEF Node
  <2>2. \A i \in 0..0 : i \in Int /\ i + 1 \in Int
    OBVIOUS
  <2>3. Distinct(<<>>)
    BY <1>6 DEF Distinct
  <2>4. QED
    BY <1>5, <1>6, <2>1, <2>2, <2>3 DEF Ring
<1>10. ASSUME NEW m \in Lists \ {View} PROVE Ring(g, m, d[m])
  <2>1. CASE m = Buffer
    BY <1>7, <1>9, <2>1
  <2>2. CASE m # Buffer
    <3>1. Ring(h, m, c[m]) /\ d[m] = c[m]
      BY <1>7, <2>2 DEF Rings
    <3>2. ToSet(c[m]) \subseteq 1..Len(h.value) /\ 1..Len(h.value) \subseteq 1..MaxElement
      BY Apart
    <3>3. \A x \in {m} \cup ToSet(c[m]) : x \in Nodes \ {View, Buffer}
      BY <1>0, <2>2, <3>2, ListNumbers DEF Nodes
    <3>4. g.len[m] = h.len[m]
      BY <1>5, <2>2
    <3>l. Len(h.value) <= Len(g.value)
      BY <1>1, <1>2
    <3>5. /\ \A x \in {m} \cup ToSet(c[m]) : g.next[x] = h.next[x] /\ g.prev[x] = h.prev[x]
          /\ \A x \in ToSet(c[m]) : g.list[x] = h.list[x]
      BY <1>2, <1>5, <3>3
    <3>6. Ring(g, m, c[m])
      BY <1>1, <1>4, <3>1, <3>4, <3>5, <3>l, RingFrame
    <3>7. QED
      BY <3>1, <3>6
  <2>3. QED
    BY <2>1, <2>2
<1>11. Chain(g, s)
  <2>1. Ring(h, Buffer, s)
    BY <1>0 DEF Rings
  <2>2. /\ s \in Seq(1..Len(h.value)) /\ Distinct(s) /\ h.len[Buffer] = Len(s) /\ Len(s) \in Nat
        /\ ToSet(s) \subseteq 1..MaxElement /\ DOMAIN s = 1..Len(s)
    BY <1>0, Apart
  <2>3. Len(s) > 0 => g.next[View] = s[1]
    <3>1. h.next[Node(Buffer, s, 0)] = Node(Buffer, s, 0 + 1)
      BY <2>1, <2>2 DEF Ring
    <3>2. Node(Buffer, s, 0) = Buffer /\ (Len(s) > 0 => Node(Buffer, s, 0 + 1) = s[1])
      BY <2>2 DEF Node
    <3>3. QED
      BY <1>5, <3>1, <3>2
  <2>4. ASSUME NEW i \in 1..Len(s)
        PROVE  g.list[s[i]] = Buffer /\ g.next[s[i]] = IF i < Len(s) THEN s[i + 1] ELSE Buffer
    <3>1. s[i] \in Nodes \ {View, Buffer}
      <4>1. s[i] \in ToSet(s)
        BY <2>2 DEF ToSet
      <4>2. QED
        BY <1>0, <2>2, <4>1, ListNumbers DEF Nodes
    <3>2. h.next[Node(Buffer, s, i)] = Node(Buffer, s, i + 1) /\ h.list[s[i]] = Buffer
      BY <2>1, <2>2 DEF Ring
    <3>3. Node(Buffer, s, i) = s[i] /\ Node(Buffer, s, i + 1) = IF i < Len(s) THEN s[i + 1] ELSE Buffer
      BY <2>2 DEF Node
    <3>4. QED
      BY <1>2, <1>5, <3>1, <3>2, <3>3
  <2>5. QED
    BY <1>2, <1>5, <2>2, <2>3, <2>4 DEF Chain
<1>12. QED
  BY <1>1, <1>2, <1>4, <1>6, <1>7, <1>8, <1>10, <1>11 DEF Rings, g, d

-----------------------------------------------------------------------------
(* Going through a list *)

\* The nodes From comes to.
IsWalk(f, h, e) ==
  f = [i \in 1..MaxElement + 1 |-> IF i = 1 THEN e ELSE IF f[i - 1] = 0 THEN 0 ELSE NextOf(h, f[i - 1])]

LEMMA Walked ==
  ASSUME NEW h, NEW s \in Seq(1..MaxElement), Len(s) <= MaxElement,
         \A i \in 1..Len(s) : NextOf(h, s[i]) = IF i < Len(s) THEN s[i + 1] ELSE 0
  PROVE  From(h, IF Len(s) = 0 THEN 0 ELSE s[1]) = s
<1> DEFINE e == IF Len(s) = 0 THEN 0 ELSE s[1]
           f == CHOOSE x : IsWalk(x, h, e)
           g == [i \in 1..MaxElement + 1 |-> IF i <= Len(s) THEN s[i] ELSE 0]
<1>1. /\ Len(s) \in Nat /\ \A i \in 1..Len(s) : s[i] \in 1..MaxElement /\ s[i] # 0
      /\ s \in [1..Len(s) -> 1..MaxElement] /\ MaxElement \in Nat
  BY LenProperties, PatchListAssumption
<1>2. From(h, e) = [i \in {j \in 1..MaxElement + 1 : f[j] # 0} |-> f[i]]
  BY DEF From, IsWalk
<1>3. \A i \in 1..MaxElement + 1 : g[i] = IF i <= Len(s) THEN s[i] ELSE 0
  OBVIOUS
<1>4. IsWalk(g, h, e)
  <2> HIDE DEF e
  <2>1. ASSUME NEW i \in 1..MaxElement + 1
        PROVE  g[i] = IF i = 1 THEN e ELSE IF g[i - 1] = 0 THEN 0 ELSE NextOf(h, g[i - 1])
    <3>1. CASE i = 1
      BY <1>1, <1>3, <3>1 DEF e
    <3>2. CASE i # 1
      <4>1. i - 1 \in 1..MaxElement + 1 /\ g[i - 1] = IF i - 1 <= Len(s) THEN s[i - 1] ELSE 0
        BY <1>1, <3>2
      <4> HIDE DEF g
      <4>2. CASE i - 1 <= Len(s)
        <5>1. i - 1 \in 1..Len(s) /\ (i - 1) + 1 = i
          BY <1>1, <3>2, <4>2
        <5>2. NextOf(h, s[i - 1]) = IF i - 1 < Len(s) THEN s[i] ELSE 0
          BY <5>1
        <5>3. i - 1 < Len(s) <=> i <= Len(s)
          BY <1>1
        <5>4. g[i - 1] = s[i - 1] /\ g[i - 1] # 0
          BY <1>1, <4>1, <4>2, <5>1
        <5>5. QED
          BY <1>3, <3>2, <5>2, <5>3, <5>4
      <4>3. CASE ~(i - 1 <= Len(s))
        <5>1. ~(i <= Len(s)) /\ g[i - 1] = 0
          BY <1>1, <4>1, <4>3
        <5>2. QED
          BY <1>3, <3>2, <5>1
      <4>4. QED
        BY <4>2, <4>3
    <3>3. QED
      BY <3>1, <3>2
  <2>2. g = [i \in 1..MaxElement + 1 |-> g[i]]
    OBVIOUS
  <2> HIDE DEF g
  <2>3. QED
    BY <2>1, <2>2 DEF IsWalk
<1> HIDE DEF g, e
<1>5. IsWalk(f, h, e)
  BY <1>4
<1> HIDE DEF f
<1>6. /\ \A i \in 1..MaxElement + 1 : f[i] = IF i = 1 THEN e ELSE IF f[i - 1] = 0 THEN 0 ELSE NextOf(h, f[i - 1])
      /\ \A i \in 1..MaxElement + 1 : g[i] = IF i = 1 THEN e ELSE IF g[i - 1] = 0 THEN 0 ELSE NextOf(h, g[i - 1])
  BY <1>4, <1>5 DEF IsWalk
<1> DEFINE S == {k \in Nat : k + 1 \in 1..MaxElement + 1 => f[k + 1] = g[k + 1]}
<1>7. 0 \in S
  BY <1>1, <1>6
<1>8. ASSUME NEW k \in Nat, k \in S PROVE k + 1 \in S
  <2> SUFFICES ASSUME (k + 1) + 1 \in 1..MaxElement + 1 PROVE f[(k + 1) + 1] = g[(k + 1) + 1]
    OBVIOUS
  <2>1. k + 1 \in 1..MaxElement + 1 /\ (k + 1) + 1 # 1 /\ ((k + 1) + 1) - 1 = k + 1
    BY <1>1
  <2>2. f[k + 1] = g[k + 1]
    BY <1>8, <2>1
  <2>3. QED
    BY <1>6, <2>1, <2>2
<1> HIDE DEF S
<1>9. Nat \subseteq S
  BY <1>7, <1>8, SetInduction
<1>10. ASSUME NEW i \in 1..MaxElement + 1 PROVE f[i] = g[i]
  <2>1. i - 1 \in Nat /\ (i - 1) + 1 = i
    BY <1>1
  <2>2. i - 1 \in S
    BY <1>9, <2>1
  <2>3. QED
    BY <2>1, <2>2 DEF S
<1>11. {j \in 1..MaxElement + 1 : f[j] # 0} = 1..Len(s)
  BY <1>1, <1>3, <1>10
<1>12. \A i \in 1..Len(s) : f[i] = s[i]
  BY <1>1, <1>3, <1>10
<1>13. From(h, e) = [i \in 1..Len(s) |-> s[i]]
  BY <1>2, <1>11, <1>12
<1>14. [i \in 1..Len(s) |-> s[i]] = s
  BY <1>1
<1>15. QED
  BY <1>13, <1>14 DEF e

\* The neighbours of the i-th element of a list.
LEMMA Neighbours ==
  ASSUME NEW h, NEW c, Rings(h, c), NEW l \in Lists, NEW i \in 1..Len(c[l])
  PROVE  /\ NextOf(h, c[l][i]) = IF i < Len(c[l]) THEN c[l][i + 1] ELSE 0
         /\ l # View => PrevOf(h, c[l][i]) = IF i > 1 THEN c[l][i - 1] ELSE 0
<1> DEFINE s == c[l]
<1>1. /\ Len(s) \in Nat /\ DOMAIN s = 1..Len(s) /\ ToSet(s) \subseteq 1..Len(h.value)
      /\ View \in Lists /\ Buffer \in Lists
  BY Apart DEF Lists, View, Buffer
<1>2. \A j \in 1..Len(s) : s[j] \in 1..Len(h.value) /\ s[j] \notin Lists
  <2>1. \A j \in 1..Len(s) : s[j] \in ToSet(s)
    BY <1>1 DEF ToSet
  <2>2. \A x \in 1..Len(h.value) : x \notin Lists
    BY ListNumbers
  <2>3. QED
    BY <1>1, <2>1, <2>2
<1>3. \A m \in Lists : m # 0
  BY ListNumbers
<1>i. i \in 1..Len(s)
  OBVIOUS
<1>4. CASE l = View
  <2>1. h.list[s[i]] = Buffer /\ h.next[s[i]] = IF i < Len(s) THEN s[i + 1] ELSE Buffer
    BY <1>4 DEF Rings, Chain
  <2>2. i < Len(s) => i + 1 \in 1..Len(s)
    BY <1>1, <1>i
  <2> HIDE DEF s
  <2>3. NextOf(h, s[i]) = IF i < Len(s) THEN s[i + 1] ELSE 0
    BY <1>1, <1>2, <1>3, <2>1, <2>2 DEF NextOf
  <2>4. QED
    BY <1>4, <2>3 DEF s
<1>5. CASE l # View
  <2>1. Ring(h, l, s)
    BY <1>5 DEF Rings
  <2>2. h.list[s[i]] = l /\ h.next[Node(l, s, i)] = Node(l, s, i + 1)
    BY <1>1, <2>1 DEF Ring
  <2>3. h.prev[Node(l, s, i)] = Node(l, s, i - 1)
    <3>1. i - 1 \in 0..Len(s) /\ (i - 1) + 1 = i
      BY <1>1
    <3>2. QED
      BY <2>1, <3>1 DEF Ring
  <2>4. /\ Node(l, s, i) = s[i]
        /\ Node(l, s, i + 1) = IF i < Len(s) THEN s[i + 1] ELSE l
        /\ Node(l, s, i - 1) = IF i > 1 THEN s[i - 1] ELSE l
    BY <1>1 DEF Node
  <2>5. (i < Len(s) => i + 1 \in 1..Len(s)) /\ (i > 1 => i - 1 \in 1..Len(s))
    BY <1>1, <1>i
  <2> HIDE DEF s
  <2>6. NextOf(h, s[i]) = IF i < Len(s) THEN s[i + 1] ELSE 0
    BY <1>2, <1>3, <2>2, <2>4, <2>5 DEF NextOf
  <2>7. PrevOf(h, s[i]) = IF i > 1 THEN s[i - 1] ELSE 0
    BY <1>2, <1>3, <2>2, <2>3, <2>4, <2>5 DEF PrevOf
  <2>8. QED
    BY <2>6, <2>7 DEF s
<1>6. QED
  BY <1>4, <1>5

LEMMA Ends ==
  ASSUME NEW h, NEW c, Rings(h, c), NEW l \in Lists
  PROVE  /\ FrontOf(h, l) = IF Len(c[l]) = 0 THEN 0 ELSE c[l][1]
         /\ l # View => /\ BackOf(h, l) = IF Len(c[l]) = 0 THEN 0 ELSE c[l][Len(c[l])]
                        /\ h.prev[l] = Node(l, c[l], Len(c[l])) /\ l = Node(l, c[l], 0)
<1> DEFINE s == c[l]
<1>1. h.len[l] = Len(s) /\ Len(s) \in Nat
  BY Apart
<1>2. CASE l = View
  BY <1>1, <1>2 DEF Rings, Chain, FrontOf
<1>3. CASE l # View
  <2>1. Ring(h, l, s)
    BY <1>3 DEF Rings
  <2>2. 0 \in 0..Len(s) /\ Len(s) \in 0..Len(s) /\ Len(s) + 1 \notin 1..Len(s) /\ (Len(s) # 0 => 1 \in 1..Len(s) /\ Len(s) \in 1..Len(s))
        /\ 0 \notin 1..Len(s) /\ 0 + 1 = 1
    BY <1>1
  <2>3. h.next[Node(l, s, 0)] = Node(l, s, 1) /\ h.prev[Node(l, s, Len(s) + 1)] = Node(l, s, Len(s))
    BY <2>1, <2>2 DEF Ring
  <2>4. Node(l, s, 0) = l /\ Node(l, s, Len(s) + 1) = l /\ (Len(s) # 0 => Node(l, s, 1) = s[1] /\ Node(l, s, Len(s)) = s[Len(s)])
    BY <2>2 DEF Node
  <2>5. QED
    BY <1>1, <2>3, <2>4 DEF FrontOf, BackOf
<1>4. QED
  BY <1>2, <1>3

\* Going on from the k-th element of a list.
LEMMA GoingOn ==
  ASSUME NEW h, NEW c, Rings(h, c), NEW l \in Lists, NEW k \in 1..Len(c[l]) + 1
  PROVE  From(h, IF k <= Len(c[l]) THEN c[l][k] ELSE 0) = SubSeq(c[l], k, Len(c[l]))
<1> DEFINE s == c[l]
           n == Len(s)
           t == SubSeq(s, k, n)
<1>1. /\ n \in Nat /\ s \in Seq(1..Len(h.value)) /\ n <= MaxElement /\ Len(h.value) \in Nat /\ MaxElement \in Nat
      /\ Len(h.value) <= MaxElement
  BY Apart DEF Rings
<1>k. k \in Int /\ k \in 1..n + 1
  BY <1>1
<1>2. s \in Seq(1..MaxElement)
  <2>1. 1..Len(h.value) \subseteq 1..MaxElement
    BY <1>1
  <2>2. QED
    BY <1>1, <2>1, SeqMonotonic
<1>3. t \in Seq(1..MaxElement) /\ Len(t) = n + 1 - k /\ \A i \in 1..n + 1 - k : t[i] = s[k + i - 1]
  <2>1. \A i \in k..n : s[i] \in 1..MaxElement
    <3>1. \A i \in 1..n : s[i] \in 1..MaxElement
      BY <1>2, LenProperties
    <3>2. \A i \in k..n : i \in 1..n
      BY <1>1, <1>k
    <3>3. QED
      BY <3>1, <3>2
  <2>2. n \in Int
    BY <1>1
  <2> HIDE DEF n
  <2>3. /\ t \in Seq(1..MaxElement) /\ Len(t) = IF k <= n THEN n - k + 1 ELSE 0
        /\ \A i \in 1..n - k + 1 : t[i] = s[k + i - 1]
    BY <1>k, <2>1, <2>2, SubSeqProperties
  <2> HIDE DEF t
  <2>4. (IF k <= n THEN n - k + 1 ELSE 0) = n + 1 - k /\ n - k + 1 = n + 1 - k
    BY <1>1, <1>k
  <2>5. QED
    BY <2>3, <2>4
<1> HIDE DEF t
<1>4. ASSUME NEW i \in 1..Len(t) PROVE NextOf(h, t[i]) = IF i < Len(t) THEN t[i + 1] ELSE 0
  <2> DEFINE m == k + i - 1
  <2>1. m \in 1..n /\ (i < Len(t) <=> m < n) /\ i \in 1..n + 1 - k /\ (i < Len(t) => i + 1 \in 1..n + 1 - k)
    BY <1>1, <1>3, <1>k
  <2>2. t[i] = s[m] /\ (i < Len(t) => t[i + 1] = s[m + 1])
    <3>1. i < Len(t) => t[i + 1] = s[k + (i + 1) - 1]
      BY <1>3, <2>1
    <3>2. k + (i + 1) - 1 = m + 1
      BY <1>k
    <3>3. QED
      BY <1>3, <2>1, <3>1, <3>2
  <2> HIDE DEF m
  <2>3. NextOf(h, s[m]) = IF m < n THEN s[m + 1] ELSE 0
    BY <2>1, Neighbours
  <2>4. QED
    BY <2>1, <2>2, <2>3
<1>5. Len(t) <= MaxElement
  BY <1>1, <1>3, <1>k
<1>6. From(h, IF Len(t) = 0 THEN 0 ELSE t[1]) = t
  BY <1>3, <1>4, <1>5, Walked
<1>7. (IF Len(t) = 0 THEN 0 ELSE t[1]) = IF k <= n THEN s[k] ELSE 0
  <2>1. Len(t) = 0 <=> ~(k <= n)
    BY <1>1, <1>3, <1>k
  <2>2. k <= n => t[1] = s[k + 1 - 1] /\ k + 1 - 1 = k
    BY <1>1, <1>3, <1>k
  <2>3. QED
    BY <2>1, <2>2
<1>8. QED
  BY <1>6, <1>7 DEF t

LEMMA WalkContents ==
  ASSUME NEW h, NEW c, Rings(h, c)
  PROVE  ContentsOf(h) = c
<1>1. ASSUME NEW l \in Lists PROVE From(h, FrontOf(h, l)) = c[l]
  <2>1. Len(c[l]) \in Nat /\ 1 \in 1..Len(c[l]) + 1 /\ c[l] \in Seq(1..Len(h.value))
    BY Apart
  <2>2. From(h, IF 1 <= Len(c[l]) THEN c[l][1] ELSE 0) = SubSeq(c[l], 1, Len(c[l]))
    BY <2>1, GoingOn
  <2>3. FrontOf(h, l) = IF 1 <= Len(c[l]) THEN c[l][1] ELSE 0
    BY <2>1, Ends
  <2>4. SubSeq(c[l], 1, Len(c[l])) = c[l]
    BY <2>1, SubSeqFull
  <2>5. QED
    BY <2>2, <2>3, <2>4
<1>2. c = [l \in Lists |-> c[l]]
  BY DEF Rings
<1>3. QED
  BY <1>1, <1>2 DEF ContentsOf

-----------------------------------------------------------------------------
(* Moving *)

LEMMA InsertedAtEnds ==
  ASSUME NEW S, NEW s \in Seq(S), NEW e \in S
  PROVE  InsertAt(s, Len(s) + 1, e) = s \o <<e>> /\ InsertAt(s, 1, e) = <<e>> \o s
<1>1. Len(s) \in Nat /\ <<e>> \in Seq(S) /\ Len(<<e>>) = 1 /\ <<e>>[1] = e
  BY LenProperties
<1>2. InsertAt(s, Len(s) + 1, e) = s \o <<e>>
  <2> DEFINE u == InsertAt(s, Len(s) + 1, e)
             v == s \o <<e>>
             m == Len(s) + 1
  <2>1. m \in 1..Len(s) + 1
    BY <1>1
  <2> HIDE DEF m
  <2>2. /\ InsertAt(s, m, e) \in Seq(S) /\ Len(InsertAt(s, m, e)) = Len(s) + 1
        /\ \A j \in 1..Len(s) + 1 :
             InsertAt(s, m, e)[j] = IF j < m THEN s[j] ELSE IF j = m THEN e ELSE s[j - 1]
    BY <2>1, Inserted
  <2>3. /\ v \in Seq(S) /\ Len(v) = Len(s) + 1
        /\ \A j \in 1..Len(s) + 1 : v[j] = IF j <= Len(s) THEN s[j] ELSE <<e>>[j - Len(s)]
    BY <1>1, ConcatProperties
  <2>4. u = InsertAt(s, m, e)
    BY DEF m
  <2> HIDE DEF u, v
  <2>5. ASSUME NEW j \in 1..Len(s) + 1 PROVE u[j] = v[j]
    <3>1. CASE j <= Len(s)
      BY <1>1, <2>2, <2>3, <2>4, <3>1 DEF m
    <3>2. CASE ~(j <= Len(s))
      <4>1. j = m /\ j - Len(s) = 1
        BY <1>1, <3>2 DEF m
      <4>2. QED
        BY <1>1, <2>2, <2>3, <2>4, <3>2, <4>1
    <3>3. QED
      BY <3>1, <3>2
  <2>6. u = v
    BY <2>2, <2>3, <2>4, <2>5, SameSeq
  <2>7. QED
    BY <2>6 DEF u, v
<1>3. InsertAt(s, 1, e) = <<e>> \o s
  <2> DEFINE u == InsertAt(s, 1, e)
             v == <<e>> \o s
  <2>1. 1 \in 1..Len(s) + 1
    BY <1>1
  <2>2. /\ u \in Seq(S) /\ Len(u) = Len(s) + 1
        /\ \A j \in 1..Len(s) + 1 : u[j] = IF j < 1 THEN s[j] ELSE IF j = 1 THEN e ELSE s[j - 1]
    BY <2>1, Inserted
  <2>3. /\ v \in Seq(S) /\ Len(v) = 1 + Len(s)
        /\ \A j \in 1..1 + Len(s) : v[j] = IF j <= 1 THEN <<e>>[j] ELSE s[j - 1]
    BY <1>1, ConcatProperties
  <2> HIDE DEF u, v
  <2>4. ASSUME NEW j \in 1..Len(s) + 1 PROVE u[j] = v[j]
    <3>1. j \in 1..1 + Len(s) /\ ~(j < 1)
      BY <1>1
    <3>2. CASE j = 1
      BY <1>1, <2>2, <2>3, <3>1, <3>2
    <3>3. CASE j # 1
      BY <1>1, <2>2, <2>3, <3>1, <3>3
    <3>4. QED
      BY <3>2, <3>3
  <2>5. Len(u) = Len(v)
    BY <1>1, <2>2, <2>3
  <2>6. u = v
    BY <2>2, <2>3, <2>4, <2>5, SameSeq
  <2>7. QED
    BY <2>6 DEF u, v
<1>4. QED
  BY <1>2, <1>3

\* Taken out and put back.
LEMMA BackInPlace ==
  ASSUME NEW S, NEW s \in Seq(S), NEW i \in 1..Len(s)
  PROVE  InsertAt(RemoveAt(s, i), i, s[i]) = s
<1> DEFINE d == RemoveAt(s, i)
           e == s[i]
           u == InsertAt(d, i, e)
<1>1. Len(s) \in Nat /\ s[i] \in S /\ i \in Int
  BY LenProperties
<1>2. d \in Seq(S) /\ Len(d) = Len(s) - 1 /\ \A j \in 1..Len(s) - 1 : d[j] = IF j < i THEN s[j] ELSE s[j + 1]
  BY Removed
<1> HIDE DEF d
<1>3. i \in 1..Len(d) + 1 /\ e \in S
  BY <1>1, <1>2
<1>4. /\ u \in Seq(S) /\ Len(u) = Len(d) + 1
      /\ \A j \in 1..Len(d) + 1 : u[j] = IF j < i THEN d[j] ELSE IF j = i THEN e ELSE d[j - 1]
  <2> HIDE DEF e
  <2>1. QED
    BY <1>2, <1>3, Inserted
<1> HIDE DEF u
<1>5. ASSUME NEW j \in 1..Len(s) PROVE u[j] = s[j]
  <2>1. j \in 1..Len(d) + 1
    BY <1>1, <1>2
  <2>2. CASE j < i
    <3>1. j \in 1..Len(s) - 1
      BY <1>1, <2>2
    <3>2. QED
      BY <1>2, <1>4, <2>1, <2>2, <3>1
  <2>3. CASE j = i
    BY <1>1, <1>4, <2>1, <2>3
  <2>4. CASE j > i
    <3>1. j - 1 \in 1..Len(s) - 1 /\ ~(j - 1 < i) /\ (j - 1) + 1 = j /\ ~(j < i) /\ j # i
      BY <1>1, <2>4
    <3>2. u[j] = d[j - 1]
      BY <1>4, <2>1, <3>1
    <3>3. d[j - 1] = s[(j - 1) + 1]
      BY <1>2, <3>1
    <3>4. QED
      BY <3>1, <3>2, <3>3
  <2>5. j < i \/ j = i \/ j > i
    BY <1>1
  <2>6. QED
    BY <2>2, <2>3, <2>4, <2>5
<1>6. Len(u) = Len(s)
  BY <1>1, <1>2, <1>4
<1>7. u = s
  BY <1>4, <1>5, <1>6, SameSeq
<1>8. QED
  BY <1>7 DEF u, d, e

LEMMA NodeRemoved ==
  ASSUME NEW S, NEW s \in Seq(S), NEW i \in 1..Len(s), NEW l
  PROVE  /\ \A j \in 0..i - 1 : Node(l, RemoveAt(s, i), j) = Node(l, s, j)
         /\ \A j \in i..Len(s) : Node(l, RemoveAt(s, i), j) = Node(l, s, j + 1)
<1> DEFINE d == RemoveAt(s, i)
<1>1. Len(s) \in Nat /\ i \in Int
  BY LenProperties
<1>2. d \in Seq(S) /\ Len(d) = Len(s) - 1 /\ \A j \in 1..Len(s) - 1 : d[j] = IF j < i THEN s[j] ELSE s[j + 1]
  BY Removed
<1> HIDE DEF d
<1>3. ASSUME NEW j \in 0..i - 1 PROVE Node(l, d, j) = Node(l, s, j)
  <2>1. CASE j = 0
    BY <1>1, <1>2, <2>1 DEF Node
  <2>2. CASE j # 0
    <3>1. j \in 1..Len(s) /\ j \in 1..Len(s) - 1 /\ j < i
      BY <1>1, <2>2
    <3>2. d[j] = s[j]
      BY <1>2, <3>1
    <3>3. QED
      BY <1>2, <3>1, <3>2 DEF Node
  <2>3. QED
    BY <2>1, <2>2
<1>4. ASSUME NEW j \in i..Len(s) PROVE Node(l, d, j) = Node(l, s, j + 1)
  <2>1. CASE j = Len(s)
    <3>1. j \notin 1..Len(s) - 1 /\ j + 1 \notin 1..Len(s)
      BY <1>1, <2>1
    <3>2. QED
      BY <1>2, <3>1 DEF Node
  <2>2. CASE j # Len(s)
    <3>1. j \in 1..Len(s) - 1 /\ j + 1 \in 1..Len(s) /\ ~(j < i)
      BY <1>1, <2>2
    <3>2. d[j] = s[j + 1]
      BY <1>2, <3>1
    <3>3. QED
      BY <1>2, <3>1, <3>2 DEF Node
  <2>3. QED
    BY <2>1, <2>2
<1>5. QED
  BY <1>3, <1>4 DEF d

\* e, the i-th of s, is to be put behind at, the j-th of the others, d.
Moving(l, s, i, j, e, d, at) ==
  IsAt(s, i, e) /\ j \in 0..Len(s) - 1 /\ d = RemoveAt(s, i) /\ at = Node(l, d, j)

LEMMA MovedKeeps ==
  ASSUME NEW h, NEW c, Rings(h, c), NEW l \in Lists \ {View},
         NEW i, NEW j, NEW e, NEW d, NEW at, Moving(l, c[l], i, j, e, d, at)
  PROVE  /\ Rings(Moved(h, l, e, at), With(c, l, InsertAt(d, j + 1, e)))
         /\ Moved(h, l, e, at).value = h.value
<1> DEFINE k == Unlinked(h, l, e)
           b == [c EXCEPT ![l] = d]
<1>0. /\ IsAt(c[l], i, e) /\ i \in 1..Len(c[l]) /\ e = c[l][i] /\ j \in 0..Len(c[l]) - 1
      /\ d = RemoveAt(c[l], i) /\ at = Node(l, d, j)
  BY DEF Moving, IsAt
<1>1. /\ c \in [Lists -> Seq(Nat)] /\ Len(c[l]) \in Nat /\ c[l] \in Seq(1..Len(h.value)) /\ DOMAIN c[l] = 1..Len(c[l])
  <2>1. c \in [Lists -> Seq(Nat)]
    BY DEF Rings
  <2>2. QED
    BY <2>1, Apart
<1>2. Rings(k, b) /\ k.value = h.value /\ e \in 1..Len(h.value) /\ e \notin ToSet(d)
  <2>1. Rings(Unlinked(h, l, e), With(c, l, RemoveAt(c[l], i)))
    BY <1>0, UnlinkedKeeps, Zenon
  <2>2. e \in 1..Len(h.value)
    BY <1>0, UnlinkedKeeps, Zenon
  <2>3. e \notin ToSet(RemoveAt(c[l], i))
    BY <1>0, UnlinkedKeeps, Zenon
  <2>4. QED
    BY <1>0, <2>1, <2>2, <2>3 DEF With, Unlinked
<1>3. e \in ToSet(c[l])
  BY <1>0, <1>1 DEF ToSet
<1>4. d \in Seq(1..Len(h.value)) /\ Len(d) = Len(c[l]) - 1
  BY <1>0, <1>1, Removed
<1>5. b[l] = d /\ \A m \in Lists \ {l} : b[m] = c[m]
  BY <1>1
<1> HIDE DEF b
<1>6. \A m \in Lists : e \notin ToSet(b[m])
  <2>1. \A m \in Lists \ {l} : ToSet(c[m]) \cap ToSet(c[l]) = {}
    BY Apart
  <2>2. QED
    BY <1>2, <1>3, <1>5, <2>1
<1>7. e # at
  <2>1. at \in {l} \cup ToSet(d)
    BY <1>0, <1>4, LenProperties DEF Node, ToSet
  <2>2. e # l
    BY <1>2, ListNumbers
  <2>3. QED
    BY <1>2, <2>1, <2>2
<1>8. Moved(h, l, e, at) = Linked(k, l, e, at)
  BY <1>7 DEF Moved
<1>9. j \in 0..Len(b[l]) /\ e \in 1..Len(k.value) /\ at = Node(l, b[l], j)
  BY <1>0, <1>2, <1>4, <1>5
<1> HIDE DEF k
<1>10. /\ Rings(Linked(k, l, e, at), [b EXCEPT ![l] = InsertAt(d, j + 1, e)])
       /\ Linked(k, l, e, at).value = k.value
  BY <1>2, <1>5, <1>6, <1>9, LinkedKeeps
<1>11. [b EXCEPT ![l] = InsertAt(d, j + 1, e)] = [c EXCEPT ![l] = InsertAt(d, j + 1, e)]
  BY <1>1 DEF b
<1>12. QED
  BY <1>2, <1>8, <1>10, <1>11 DEF k, With

-----------------------------------------------------------------------------
(* Copying a list into another                                             *)

\* i new elements, when there were n; in their order, and turned round.
Count(n, i) == [j \in 1..i |-> n + j]
CountDown(n, i) == [j \in 1..i |-> n + i + 1 - j]

\* The values v of the first i elements of t; of the last i, from the back.
FirstValues(v, t, i) == [j \in 1..i |-> v[t[j]]]
LastValues(v, t, i) == [j \in 1..i |-> v[t[Len(t) + 1 - j]]]

LEMMA FunctionSeq ==
  ASSUME NEW S, NEW n \in Nat, NEW f \in [1..n -> S]
  PROVE  f \in Seq(S) /\ Len(f) = n
OBVIOUS

LEMMA CountType ==
  ASSUME NEW n \in Nat, NEW i \in Nat
  PROVE  /\ Count(n, i) \in Seq(Nat) /\ Len(Count(n, i)) = i
         /\ CountDown(n, i) \in Seq(Nat) /\ Len(CountDown(n, i)) = i
<1>1. Count(n, i) \in [1..i -> Nat] /\ CountDown(n, i) \in [1..i -> Nat]
  BY DEF Count, CountDown
<1>2. QED
  BY <1>1, FunctionSeq

LEMMA CountNext ==
  ASSUME NEW n \in Nat, NEW i \in Nat, NEW s \in Seq(Nat)
  PROVE  (s \o Count(n, i)) \o <<n + i + 1>> = s \o Count(n, i + 1)
<1> DEFINE e == n + i + 1
           one == <<e>>
<1>1. i + 1 \in Nat
  OBVIOUS
<1>2. Count(n, i) \in Seq(Nat) /\ Len(Count(n, i)) = i /\ Count(n, i + 1) \in Seq(Nat) /\ Len(Count(n, i + 1)) = i + 1
  BY <1>1, CountType
<1>4. one \in Seq(Nat) /\ Len(one) = 1 /\ one[1] = e
  OBVIOUS
<1>5. Count(n, i) \o one = Count(n, i + 1)
  <2> DEFINE u == Count(n, i) \o one
             v == Count(n, i + 1)
  <2> HIDE DEF one
  <2>1. /\ u \in Seq(Nat) /\ Len(u) = i + 1
        /\ \A j \in 1..i + 1 : u[j] = IF j <= i THEN Count(n, i)[j] ELSE one[j - i]
    <3> DEFINE a == Count(n, i)
    <3>1. a \in Seq(Nat) /\ Len(a) = i /\ one \in Seq(Nat) /\ Len(one) = 1
      BY <1>2, <1>4
    <3> HIDE DEF a
    <3>2. /\ a \o one \in Seq(Nat) /\ Len(a \o one) = Len(a) + Len(one)
          /\ \A j \in 1..Len(a) + Len(one) : (a \o one)[j] = IF j <= Len(a) THEN a[j] ELSE one[j - Len(a)]
      BY <3>1, ConcatProperties
    <3>3. QED
      BY <3>1, <3>2 DEF a
  <2> HIDE DEF u
  <2>2. ASSUME NEW j \in 1..i + 1 PROVE u[j] = v[j]
    <3>1. v[j] = n + j
      BY DEF Count
    <3>2. CASE j <= i
      BY <2>1, <3>1, <3>2 DEF Count
    <3>3. CASE ~(j <= i)
      <4>1. j = i + 1 /\ j - i = 1 /\ n + j = e
        BY <3>3
      <4>2. QED
        BY <1>4, <2>1, <3>1, <3>3, <4>1
    <3>4. QED
      BY <3>2, <3>3
  <2> HIDE DEF v
  <2>3. v \in Seq(Nat) /\ Len(v) = i + 1
    BY <1>2 DEF v
  <2>4. u = v
    BY <2>1, <2>2, <2>3, SameSeq
  <2>5. QED
    BY <2>4 DEF u, v
<1> HIDE DEF one
<1> DEFINE a == Count(n, i)
<1>6. a \in Seq(Nat)
  BY <1>2
<1>7. a \o one = Count(n, i + 1)
  BY <1>5
<1> HIDE DEF a
<1>8. (s \o a) \o one = s \o (a \o one)
  BY <1>4, <1>6, ConcatAssociative, SMTT(60)
<1>9. QED
  BY <1>7, <1>8 DEF one, a

LEMMA CountDownNext ==
  ASSUME NEW n \in Nat, NEW i \in Nat, NEW s \in Seq(Nat)
  PROVE  <<n + i + 1>> \o (CountDown(n, i) \o s) = CountDown(n, i + 1) \o s
<1> DEFINE e == n + i + 1
           one == <<e>>
<1>1. i + 1 \in Nat
  OBVIOUS
<1>2. CountDown(n, i) \in Seq(Nat) /\ Len(CountDown(n, i)) = i /\ CountDown(n, i + 1) \in Seq(Nat) /\ Len(CountDown(n, i + 1)) = i + 1
  BY <1>1, CountType
<1>4. one \in Seq(Nat) /\ Len(one) = 1 /\ one[1] = e
  OBVIOUS
<1>5. one \o CountDown(n, i) = CountDown(n, i + 1)
  <2> DEFINE u == one \o CountDown(n, i)
             v == CountDown(n, i + 1)
  <2> HIDE DEF one
  <2>1. /\ u \in Seq(Nat) /\ Len(u) = 1 + i
        /\ \A j \in 1..1 + i : u[j] = IF j <= 1 THEN one[j] ELSE CountDown(n, i)[j - 1]
    <3> DEFINE a == CountDown(n, i)
    <3>1. a \in Seq(Nat) /\ Len(a) = i /\ one \in Seq(Nat) /\ Len(one) = 1
      BY <1>2, <1>4
    <3> HIDE DEF a
    <3>2. /\ one \o a \in Seq(Nat) /\ Len(one \o a) = Len(one) + Len(a)
          /\ \A j \in 1..Len(one) + Len(a) : (one \o a)[j] = IF j <= Len(one) THEN one[j] ELSE a[j - Len(one)]
      BY <3>1, ConcatProperties
    <3>3. QED
      BY <3>1, <3>2 DEF a
  <2> HIDE DEF u
  <2>2. ASSUME NEW j \in 1..i + 1 PROVE u[j] = v[j]
    <3>1. v[j] = n + (i + 1) + 1 - j /\ j \in 1..1 + i
      BY DEF CountDown
    <3>2. CASE j = 1
      BY <1>4, <2>1, <3>1, <3>2
    <3>3. CASE j # 1
      <4>1. j - 1 \in 1..i /\ ~(j <= 1) /\ n + i + 1 - (j - 1) = n + (i + 1) + 1 - j
        BY <3>3
      <4>2. CountDown(n, i)[j - 1] = n + i + 1 - (j - 1)
        BY <4>1 DEF CountDown
      <4>3. QED
        BY <2>1, <3>1, <4>1, <4>2
    <3>4. QED
      BY <3>2, <3>3
  <2> HIDE DEF v
  <2>3. v \in Seq(Nat) /\ Len(v) = Len(u)
    BY <1>2, <2>1 DEF v
  <2>4. \A j \in 1..Len(u) : u[j] = v[j]
    BY <2>1, <2>2
  <2>5. u = v
    BY <2>1, <2>3, <2>4, SameSeq
  <2>6. QED
    BY <2>5 DEF u, v
<1> HIDE DEF one
<1> DEFINE a == CountDown(n, i)
<1>6. a \in Seq(Nat)
  BY <1>2
<1>7. one \o a = CountDown(n, i + 1)
  BY <1>5
<1> HIDE DEF a
<1>8. (one \o a) \o s = one \o (a \o s)
  BY <1>4, <1>6, ConcatAssociative, SMTT(60)
<1>9. QED
  BY <1>7, <1>8 DEF one, a

\* One more value at the end.
LEMMA OneMoreValue ==
  ASSUME NEW S, NEW v \in Seq(S), NEW f \in Seq(S), NEW g \in Seq(S), NEW y \in S,
         Len(g) = Len(f) + 1, \A j \in 1..Len(f) : g[j] = f[j], g[Len(f) + 1] = y
  PROVE  Append(v \o f, y) = v \o g
<1> DEFINE one == <<y>>
<1>1. v \o f \in Seq(S) /\ one \in Seq(S)
  BY ConcatProperties
<1>2. Append(v \o f, y) = (v \o f) \o one
  BY <1>1, AppendIsConcat
<1>3. f \o one = Append(f, y)
  BY AppendIsConcat
<1> HIDE DEF one
<1>4. (v \o f) \o one = v \o (f \o one)
  BY <1>1, ConcatAssociative, SMTT(60)
<1>5. Append(f, y) = g
  <2>1. /\ Append(f, y) \in Seq(S) /\ Len(Append(f, y)) = Len(f) + 1
        /\ \A j \in 1..Len(f) : Append(f, y)[j] = f[j]
        /\ Append(f, y)[Len(f) + 1] = y
    BY AppendProperties
  <2>2. \A j \in 1..Len(f) + 1 : j \in 1..Len(f) \/ j = Len(f) + 1
    BY LenProperties
  <2>3. \A j \in 1..Len(f) + 1 : Append(f, y)[j] = g[j]
    BY <2>1, <2>2
  <2>4. QED
    BY <2>1, <2>3, SameSeq
<1>6. QED
  BY <1>2, <1>3, <1>4, <1>5

LEMMA NextFirstValue ==
  ASSUME NEW S, NEW v \in Seq(S), NEW t \in Seq(1..Len(v)), NEW i \in Nat, i < Len(t)
  PROVE  /\ FirstValues(v, t, i) \in Seq(S) /\ Len(FirstValues(v, t, i)) = i
         /\ v[t[i + 1]] \in S
         /\ t[i + 1] \in 1..Len(v)
         /\ Append(v \o FirstValues(v, t, i), v[t[i + 1]]) = v \o FirstValues(v, t, i + 1)
<1> DEFINE n == Len(t)
           y == v[t[i + 1]]
           f == FirstValues(v, t, i)
           g == FirstValues(v, t, i + 1)
<1>1. n \in Nat /\ \A j \in 1..n : t[j] \in 1..Len(v) /\ v[t[j]] \in S
  BY LenProperties
<1>2. i + 1 \in 1..n /\ n - i \in 1..n /\ n + 1 - (i + 1) = n - i
  BY <1>1
<1>3. y \in S /\ t[i + 1] \in 1..Len(v)
  BY <1>1, <1>2
<1>4. \A k \in Nat : k <= n => FirstValues(v, t, k) \in [1..k -> S]
  <2> SUFFICES ASSUME NEW k \in Nat, k <= n PROVE FirstValues(v, t, k) \in [1..k -> S]
    OBVIOUS
  <2>1. \A j \in 1..k : j \in 1..n
    BY <1>1
  <2>2. \A j \in 1..k : v[t[j]] \in S
    BY <1>1, <2>1
  <2>3. QED
    BY <2>2 DEF FirstValues
<1>5. \A k \in Nat : k <= n => FirstValues(v, t, k) \in Seq(S) /\ Len(FirstValues(v, t, k)) = k
  BY <1>4, FunctionSeq
<1>6. i <= n /\ i + 1 \in Nat /\ i + 1 <= n
  BY <1>1, <1>2
<1>7. f \in Seq(S) /\ g \in Seq(S) /\ Len(f) = i /\ Len(g) = i + 1
  BY <1>5, <1>6
<1>8. (\A j \in 1..Len(f) : g[j] = f[j]) /\ g[Len(f) + 1] = y
  <2>1. (\A j \in 1..i : g[j] = f[j]) /\ g[i + 1] = y
    BY <1>2 DEF FirstValues
  <2>2. QED
    BY <1>7, <2>1
<1> HIDE DEF f, g, y
<1>9. Append(v \o f, y) = v \o g
  <2>1. Len(g) = Len(f) + 1
    BY <1>7
  <2>2. QED
    BY <1>3, <1>7, <1>8, <2>1, OneMoreValue
<1>10. QED
  BY <1>3, <1>7, <1>9 DEF f, g, y

LEMMA NextLastValue ==
  ASSUME NEW S, NEW v \in Seq(S), NEW t \in Seq(1..Len(v)), NEW i \in Nat, i < Len(t)
  PROVE  /\ LastValues(v, t, i) \in Seq(S) /\ Len(LastValues(v, t, i)) = i
         /\ v[t[Len(t) - i]] \in S
         /\ t[Len(t) - i] \in 1..Len(v)
         /\ Append(v \o LastValues(v, t, i), v[t[Len(t) - i]]) = v \o LastValues(v, t, i + 1)
<1> DEFINE n == Len(t)
           y == v[t[n - i]]
           f == LastValues(v, t, i)
           g == LastValues(v, t, i + 1)
<1>1. n \in Nat /\ \A j \in 1..n : t[j] \in 1..Len(v) /\ v[t[j]] \in S
  BY LenProperties
<1>2. i + 1 \in 1..n /\ n - i \in 1..n /\ n + 1 - (i + 1) = n - i
  BY <1>1
<1>3. y \in S /\ t[n - i] \in 1..Len(v)
  BY <1>1, <1>2
<1>4. \A k \in Nat : k <= n => LastValues(v, t, k) \in [1..k -> S]
  <2> SUFFICES ASSUME NEW k \in Nat, k <= n PROVE LastValues(v, t, k) \in [1..k -> S]
    OBVIOUS
  <2>1. \A j \in 1..k : n + 1 - j \in 1..n
    BY <1>1
  <2>2. \A j \in 1..k : v[t[n + 1 - j]] \in S
    BY <1>1, <2>1
  <2>3. QED
    BY <2>2 DEF LastValues
<1>5. \A k \in Nat : k <= n => LastValues(v, t, k) \in Seq(S) /\ Len(LastValues(v, t, k)) = k
  BY <1>4, FunctionSeq
<1>6. i <= n /\ i + 1 \in Nat /\ i + 1 <= n
  BY <1>1, <1>2
<1>7. f \in Seq(S) /\ g \in Seq(S) /\ Len(f) = i /\ Len(g) = i + 1
  BY <1>5, <1>6
<1>8. (\A j \in 1..Len(f) : g[j] = f[j]) /\ g[Len(f) + 1] = y
  <2>1. (\A j \in 1..i : g[j] = f[j]) /\ g[i + 1] = y
    BY <1>2 DEF LastValues
  <2>2. QED
    BY <1>7, <2>1
<1> HIDE DEF f, g, y
<1>9. Append(v \o f, y) = v \o g
  <2>1. Len(g) = Len(f) + 1
    BY <1>7
  <2>2. QED
    BY <1>3, <1>7, <1>8, <2>1, OneMoreValue
<1>10. QED
  BY <1>3, <1>7, <1>9 DEF f, g, y

\* The turns of a loop, from the first.
IsAfter(f, st, l, forward, atBack, n) ==
  f = [i \in 0..n |-> IF i = 0 THEN st ELSE Further(f[i - 1], l, forward, atBack)]

LEMMA AfterExists ==
  ASSUME NEW st, NEW l, NEW forward, NEW atBack, NEW n \in Nat
  PROVE  \E f : IsAfter(f, st, l, forward, atBack, n)
<1> DEFINE S == {m \in Nat : \E f : IsAfter(f, st, l, forward, atBack, m)}
<1>1. 0 \in S
  <2> DEFINE f == [i \in 0..0 |-> st]
  <2>1. IsAfter(f, st, l, forward, atBack, 0)
    <3>1. f = [i \in 0..0 |-> IF i = 0 THEN st ELSE Further(f[i - 1], l, forward, atBack)]
      OBVIOUS
    <3>2. QED
      BY <3>1 DEF IsAfter
  <2>2. QED
    BY <2>1
<1>2. ASSUME NEW m \in Nat, m \in S PROVE m + 1 \in S
  <2>1. PICK f : IsAfter(f, st, l, forward, atBack, m)
    BY <1>2
  <2> DEFINE g == [i \in 0..m + 1 |-> IF i <= m THEN f[i] ELSE Further(f[i - 1], l, forward, atBack)]
  <2>2. \A i \in 0..m : f[i] = IF i = 0 THEN st ELSE Further(f[i - 1], l, forward, atBack)
    BY <2>1 DEF IsAfter
  <2>3. \A i \in 0..m + 1 : g[i] = IF i = 0 THEN st ELSE Further(g[i - 1], l, forward, atBack)
    <3> SUFFICES ASSUME NEW i \in 0..m + 1
                 PROVE  g[i] = IF i = 0 THEN st ELSE Further(g[i - 1], l, forward, atBack)
      OBVIOUS
    <3>1. i # 0 => i - 1 \in 0..m /\ g[i - 1] = f[i - 1]
      OBVIOUS
    <3>2. g[i] = IF i <= m THEN f[i] ELSE Further(f[i - 1], l, forward, atBack)
      OBVIOUS
    <3> HIDE DEF g
    <3>3. CASE i <= m
      <4>1. i \in 0..m
        BY <3>3
      <4>2. QED
        BY <2>2, <3>1, <3>2, <3>3, <4>1
    <3>4. CASE ~(i <= m)
      <4>1. i # 0
        BY <3>4
      <4>2. QED
        BY <3>1, <3>2, <3>4, <4>1
    <3>5. QED
      BY <3>3, <3>4
  <2>4. g = [i \in 0..m + 1 |-> g[i]]
    OBVIOUS
  <2> HIDE DEF g
  <2>5. IsAfter(g, st, l, forward, atBack, m + 1)
    BY <2>3, <2>4 DEF IsAfter
  <2>6. QED
    BY <2>5
<1> HIDE DEF S
<1>3. Nat \subseteq S
  BY <1>1, <1>2, SetInduction
<1>4. QED
  BY <1>3 DEF S

LEMMA CopiedIs ==
  ASSUME NEW h, NEW l, NEW other, NEW forward, NEW atBack, h.len[other] \in Nat
  PROVE  \E f : /\ f[0] = Start(h, other, forward)
                /\ \A i \in Nat : i < h.len[other] => f[i + 1] = Further(f[i], l, forward, atBack)
                /\ Copied(h, l, other, forward, atBack) = f[h.len[other]].heap
<1> DEFINE n == h.len[other]
           st == Start(h, other, forward)
           f == CHOOSE x : IsAfter(x, st, l, forward, atBack, n)
<1>1. Copied(h, l, other, forward, atBack) = f[n].heap
  BY DEF Copied, IsAfter
<1>2. \E x : IsAfter(x, st, l, forward, atBack, n)
  <2> HIDE DEF st, n
  <2>1. n \in Nat
    BY DEF n
  <2>2. QED
    BY <2>1, AfterExists
<1> HIDE DEF st, n
<1>3. IsAfter(f, st, l, forward, atBack, n)
  BY <1>2
<1> HIDE DEF f
<1>4. n \in Nat /\ \A i \in 0..n : f[i] = IF i = 0 THEN st ELSE Further(f[i - 1], l, forward, atBack)
  BY <1>3 DEF IsAfter, n
<1>5. f[0] = st
  BY <1>4
<1>6. \A i \in Nat : i < n => f[i + 1] = Further(f[i], l, forward, atBack)
  <2> SUFFICES ASSUME NEW i \in Nat, i < n PROVE f[i + 1] = Further(f[i], l, forward, atBack)
    OBVIOUS
  <2>1. i + 1 \in 0..n /\ i + 1 # 0 /\ (i + 1) - 1 = i
    BY <1>4
  <2>2. QED
    BY <1>4, <2>1
<1>7. QED
  BY <1>1, <1>5, <1>6 DEF n, st

\* After i turns of the loop, the elements e copied of c[other] are in front of or
\* behind the list, which are those that came, vs their values.
Turned(h, c, l, s, vs, st) == Rings(st.heap, [c EXCEPT ![l] = s]) /\ st.heap.value = h.value \o vs

\* What a turn of PushBackList does.
BackTurn(h, c, l, t, i, st) ==
  /\ Turned(h, c, l, c[l] \o Count(Len(h.value), i), FirstValues(h.value, t, i), st)
  /\ i < Len(t) => st.e = t[i + 1]

LEMMA NextBackTurn ==
  ASSUME NEW h, NEW c, Rings(h, c), NEW l \in Lists \ {View}, NEW other \in Lists \ {View},
         Len(h.value) + Len(c[other]) <= MaxElement,
         NEW i \in Nat, i < Len(c[other]), NEW st, BackTurn(h, c, l, c[other], i, st)
  PROVE  BackTurn(h, c, l, c[other], i + 1, Further(st, l, TRUE, TRUE))
<1> DEFINE v == h.value
           N == Len(v)
           t == c[other]
           n == Len(t)
           k == st.heap
           s == c[l] \o Count(N, i)
           b == [c EXCEPT ![l] = s]
           p == v[t[i + 1]]
           at == Node(l, s, Len(s))
           g == InsertedValue(k, l, p, at)
           u == c[l] \o Count(N, i + 1)
           d == [c EXCEPT ![l] = u]
<1>1. /\ c \in [Lists -> Seq(Nat)] /\ v \in Seq(Patches) /\ t \in Seq(1..N) /\ n \in Nat /\ N \in Nat
      /\ MaxElement \in Nat
  <2>1. c \in [Lists -> Seq(Nat)] /\ v \in Seq(Patches)
    BY DEF Rings, Heaps
  <2>2. QED
    BY <2>1, Apart
<1>i. i \in Nat /\ i < n /\ N + n <= MaxElement
  OBVIOUS
<1>2. Rings(k, b) /\ k.value = v \o FirstValues(v, t, i) /\ st.e = t[i + 1]
  BY DEF BackTurn, Turned
<1> HIDE DEF t, v, N, n
<1>3. /\ FirstValues(v, t, i) \in Seq(Patches) /\ Len(FirstValues(v, t, i)) = i /\ p \in Patches
      /\ t[i + 1] \in 1..N
      /\ Append(v \o FirstValues(v, t, i), p) = v \o FirstValues(v, t, i + 1)
  <2>1. t \in Seq(1..Len(v)) /\ i < Len(t)
    BY <1>1, <1>i DEF n, N
  <2>2. FirstValues(v, t, i) \in Seq(Patches) /\ Len(FirstValues(v, t, i)) = i
    BY <1>1, <1>i, <2>1, NextFirstValue
  <2>4. v[t[i + 1]] \in Patches /\ t[i + 1] \in 1..Len(v)
    BY <1>1, <1>i, <2>1, NextFirstValue
  <2>5. Append(v \o FirstValues(v, t, i), v[t[i + 1]]) = v \o FirstValues(v, t, i + 1)
    BY <1>1, <1>i, <2>1, NextFirstValue
  <2>3. QED
    BY <2>2, <2>4, <2>5 DEF N, p
<1> HIDE DEF p
<1>4. Len(k.value) = N + i /\ k.value[t[i + 1]] = p
  <2> DEFINE w == FirstValues(v, t, i)
  <2> HIDE DEF w
  <2>1. w \in Seq(Patches) /\ Len(w) = i
    BY <1>3 DEF w
  <2>2. /\ Len(v \o w) = Len(v) + Len(w)
        /\ \A j \in 1..Len(v) + Len(w) : (v \o w)[j] = IF j <= Len(v) THEN v[j] ELSE w[j - Len(v)]
    BY <1>1, <2>1, ConcatProperties
  <2>3. t[i + 1] \in 1..Len(v) + Len(w) /\ t[i + 1] <= Len(v)
    BY <1>1, <1>3, <2>1 DEF N
  <2>4. QED
    BY <1>2, <2>1, <2>2, <2>3 DEF w, N, p
<1>5. c[l] \in Seq(Nat) /\ s \in Seq(Nat) /\ u \in Seq(Nat) /\ Len(s) \in Nat
  <2>1. \A j \in Nat : Count(N, j) \in Seq(Nat)
    BY <1>1, CountType
  <2>2. Count(N, i) \in Seq(Nat) /\ Count(N, i + 1) \in Seq(Nat) /\ c[l] \in Seq(Nat)
    BY <1>1, <2>1
  <2> DEFINE x == Count(N, i)
             y == Count(N, i + 1)
             z == c[l]
  <2> HIDE DEF x, y, z
  <2>3. x \in Seq(Nat) /\ y \in Seq(Nat) /\ z \in Seq(Nat)
    BY <2>2 DEF x, y, z
  <2>4. z \o x \in Seq(Nat) /\ z \o y \in Seq(Nat)
    BY <2>3, ConcatProperties
  <2>5. s \in Seq(Nat) /\ u \in Seq(Nat)
    BY <2>4 DEF x, y, z
  <2> HIDE DEF s, u
  <2>6. QED
    BY <2>2, <2>5, LenProperties
<1>6. b[l] = s /\ d[l] = u /\ \A m \in Lists \ {l} : b[m] = c[m] /\ d[m] = c[m]
  BY <1>1
<1>7. N + i + 1 <= MaxElement /\ Len(k.value) + 1 <= MaxElement /\ Len(k.value) + 1 = N + i + 1
  BY <1>1, <1>4, <1>i
<1>8. s \o <<N + i + 1>> = u
  BY <1>1, <1>5, CountNext
<1>9. InsertAt(s, Len(s) + 1, N + i + 1) = u
  <2>1. N + i + 1 \in Nat
    BY <1>1
  <2> HIDE DEF s, u
  <2>2. InsertAt(s, Len(s) + 1, N + i + 1) = s \o <<N + i + 1>>
    BY <1>5, <2>1, InsertedAtEnds
  <2>3. QED
    BY <1>8, <2>2
<1> HIDE DEF s, u, b, d, k
<1>10. k.prev[l] = at
  BY <1>2, <1>6, Ends
<1>11. Rings(g, [b EXCEPT ![l] = u]) /\ g.value = Append(k.value, p)
  <2> DEFINE m == Len(s)
  <2>1. m \in 0..Len(b[l])
    BY <1>5, <1>6
  <2> HIDE DEF m
  <2>2. /\ Rings(InsertedValue(k, l, p, Node(l, b[l], m)),
                 [b EXCEPT ![l] = InsertAt(b[l], m + 1, Len(k.value) + 1)])
        /\ InsertedValue(k, l, p, Node(l, b[l], m)).value = Append(k.value, p)
    BY <1>2, <1>3, <1>7, <2>1, InsertedKeeps, ZenonT(60)
  <2>3. InsertAt(b[l], m + 1, Len(k.value) + 1) = u
    BY <1>6, <1>7, <1>9 DEF m
  <2>4. QED
    BY <1>6, <2>2, <2>3 DEF m
<1>12. [b EXCEPT ![l] = u] = d
  BY <1>1 DEF b, d
<1>13. Further(st, l, TRUE, TRUE).heap = g /\ Further(st, l, TRUE, TRUE).e = NextOf(g, t[i + 1])
  BY <1>2, <1>4, <1>10 DEF Further, k
<1> HIDE DEF g, at
<1>14. Turned(h, c, l, u, FirstValues(v, t, i + 1), Further(st, l, TRUE, TRUE))
  BY <1>2, <1>3, <1>11, <1>12, <1>13 DEF Turned, d, v
<1>15. ASSUME i + 1 < n PROVE NextOf(g, t[i + 1]) = t[(i + 1) + 1]
  <2>1. Rings(g, d)
    BY <1>11, <1>12
  <2>2. n <= Len(d[other]) /\ Len(d[other]) \in Nat /\ \A j \in 1..n : d[other][j] = t[j]
    <3>1. CASE other # l
      BY <1>1, <1>6, <3>1 DEF t, n
    <3>2. CASE other = l
      <4> DEFINE y == Count(N, i + 1)
      <4>1. y \in Seq(Nat) /\ c[l] \in Seq(Nat) /\ u = c[l] \o y /\ Len(y) = i + 1
        <5>1. i + 1 \in Nat
          OBVIOUS
        <5> DEFINE m == i + 1
        <5> HIDE DEF m
        <5>2. Count(N, m) \in Seq(Nat) /\ Len(Count(N, m)) = m
          BY <1>1, <5>1, CountType DEF m
        <5>3. QED
          BY <1>5, <5>2 DEF u, m
      <4> HIDE DEF y
      <4>2. /\ Len(u) = Len(c[l]) + Len(y)
            /\ \A j \in 1..Len(c[l]) + Len(y) : u[j] = IF j <= Len(c[l]) THEN c[l][j] ELSE y[j - Len(c[l])]
        BY <4>1, ConcatProperties
      <4>3. d[other] = u /\ Len(c[l]) = n /\ t = c[l]
        BY <1>6, <3>2 DEF t, n
      <4>4. QED
        BY <1>1, <4>1, <4>2, <4>3
    <3>3. QED
      BY <3>1, <3>2
  <2>3. i + 1 \in 1..Len(d[other]) /\ i + 1 < Len(d[other]) /\ i + 1 \in 1..n /\ (i + 1) + 1 \in 1..n
    BY <1>1, <1>15, <2>2
  <2> DEFINE m == i + 1
  <2> HIDE DEF m
  <2>4. NextOf(g, d[other][m]) = IF m < Len(d[other]) THEN d[other][m + 1] ELSE 0
    BY <2>1, <2>3, Neighbours DEF m
  <2>5. QED
    BY <2>2, <2>3, <2>4 DEF m
<1>16. QED
  BY <1>13, <1>14, <1>15 DEF BackTurn, t, n, N, v, u

\* What a turn of PushFrontList does.
FrontTurn(h, c, l, t, i, st) ==
  /\ Turned(h, c, l, CountDown(Len(h.value), i) \o c[l], LastValues(h.value, t, i), st)
  /\ i < Len(t) => st.e = t[Len(t) - i]

LEMMA NextFrontTurn ==
  ASSUME NEW h, NEW c, Rings(h, c), NEW l \in Lists \ {View}, NEW other \in Lists \ {View},
         Len(h.value) + Len(c[other]) <= MaxElement,
         NEW i \in Nat, i < Len(c[other]), NEW st, FrontTurn(h, c, l, c[other], i, st)
  PROVE  FrontTurn(h, c, l, c[other], i + 1, Further(st, l, FALSE, FALSE))
<1> DEFINE v == h.value
           N == Len(v)
           t == c[other]
           n == Len(t)
           k == st.heap
           s == CountDown(N, i) \o c[l]
           b == [c EXCEPT ![l] = s]
           p == v[t[n - i]]
           at == Node(l, s, 0)
           g == InsertedValue(k, l, p, at)
           u == CountDown(N, i + 1) \o c[l]
           d == [c EXCEPT ![l] = u]
<1>1. /\ c \in [Lists -> Seq(Nat)] /\ v \in Seq(Patches) /\ t \in Seq(1..N) /\ n \in Nat /\ N \in Nat
      /\ MaxElement \in Nat
  <2>1. c \in [Lists -> Seq(Nat)] /\ v \in Seq(Patches)
    BY DEF Rings, Heaps
  <2>2. QED
    BY <2>1, Apart
<1>i. i \in Nat /\ i < n /\ N + n <= MaxElement
  OBVIOUS
<1>2. Rings(k, b) /\ k.value = v \o LastValues(v, t, i) /\ st.e = t[n - i]
  BY DEF FrontTurn, Turned
<1> HIDE DEF t, v, N, n
<1>3. /\ LastValues(v, t, i) \in Seq(Patches) /\ Len(LastValues(v, t, i)) = i /\ p \in Patches
      /\ t[n - i] \in 1..N
      /\ Append(v \o LastValues(v, t, i), p) = v \o LastValues(v, t, i + 1)
  <2>1. t \in Seq(1..Len(v)) /\ i < Len(t)
    BY <1>1, <1>i DEF n, N
  <2>2. LastValues(v, t, i) \in Seq(Patches) /\ Len(LastValues(v, t, i)) = i
    BY <1>1, <1>i, <2>1, NextLastValue
  <2>4. v[t[Len(t) - i]] \in Patches /\ t[Len(t) - i] \in 1..Len(v)
    BY <1>1, <1>i, <2>1, NextLastValue
  <2>5. Append(v \o LastValues(v, t, i), v[t[Len(t) - i]]) = v \o LastValues(v, t, i + 1)
    BY <1>1, <1>i, <2>1, NextLastValue
  <2>3. QED
    BY <2>2, <2>4, <2>5 DEF N, p, n
<1> HIDE DEF p
<1>4. Len(k.value) = N + i /\ k.value[t[n - i]] = p
  <2> DEFINE w == LastValues(v, t, i)
  <2> HIDE DEF w
  <2>1. w \in Seq(Patches) /\ Len(w) = i
    BY <1>3 DEF w
  <2>2. /\ Len(v \o w) = Len(v) + Len(w)
        /\ \A j \in 1..Len(v) + Len(w) : (v \o w)[j] = IF j <= Len(v) THEN v[j] ELSE w[j - Len(v)]
    BY <1>1, <2>1, ConcatProperties
  <2>3. t[n - i] \in 1..Len(v) + Len(w) /\ t[n - i] <= Len(v)
    BY <1>1, <1>3, <2>1 DEF N
  <2>4. QED
    BY <1>2, <2>1, <2>2, <2>3 DEF w, N, p
<1>5. c[l] \in Seq(Nat) /\ s \in Seq(Nat) /\ u \in Seq(Nat) /\ Len(s) \in Nat
  <2>1. \A j \in Nat : CountDown(N, j) \in Seq(Nat)
    BY <1>1, CountType
  <2>2. CountDown(N, i) \in Seq(Nat) /\ CountDown(N, i + 1) \in Seq(Nat) /\ c[l] \in Seq(Nat)
    BY <1>1, <2>1
  <2> DEFINE x == CountDown(N, i)
             y == CountDown(N, i + 1)
             z == c[l]
  <2> HIDE DEF x, y, z
  <2>3. x \in Seq(Nat) /\ y \in Seq(Nat) /\ z \in Seq(Nat)
    BY <2>2 DEF x, y, z
  <2>4. x \o z \in Seq(Nat) /\ y \o z \in Seq(Nat)
    BY <2>3, ConcatProperties
  <2>5. s \in Seq(Nat) /\ u \in Seq(Nat)
    BY <2>4 DEF x, y, z
  <2> HIDE DEF s, u
  <2>6. QED
    BY <2>2, <2>5, LenProperties
<1>6. b[l] = s /\ d[l] = u /\ \A m \in Lists \ {l} : b[m] = c[m] /\ d[m] = c[m]
  BY <1>1
<1>7. N + i + 1 <= MaxElement /\ Len(k.value) + 1 <= MaxElement /\ Len(k.value) + 1 = N + i + 1
  BY <1>1, <1>4, <1>i
<1>8. <<N + i + 1>> \o s = u
  <2> DEFINE z == c[l]
  <2>1. z \in Seq(Nat)
    BY <1>5
  <2> HIDE DEF z
  <2>2. <<N + i + 1>> \o (CountDown(N, i) \o z) = CountDown(N, i + 1) \o z
    BY <1>1, <1>i, <2>1, CountDownNext
  <2>3. QED
    BY <2>2 DEF z
<1>9. InsertAt(s, 1, N + i + 1) = u
  <2>1. N + i + 1 \in Nat
    BY <1>1
  <2> HIDE DEF s, u
  <2>2. InsertAt(s, 1, N + i + 1) = <<N + i + 1>> \o s
    BY <1>5, <2>1, InsertedAtEnds
  <2>3. QED
    BY <1>8, <2>2
<1> HIDE DEF s, u, b, d, k
<1>10. l = at
  BY <1>2, <1>6, Ends
<1>11. Rings(g, [b EXCEPT ![l] = u]) /\ g.value = Append(k.value, p)
  <2> DEFINE m == 0
  <2>1. m \in 0..Len(b[l])
    BY <1>5, <1>6
  <2> HIDE DEF m
  <2>2. /\ Rings(InsertedValue(k, l, p, Node(l, b[l], m)),
                 [b EXCEPT ![l] = InsertAt(b[l], m + 1, Len(k.value) + 1)])
        /\ InsertedValue(k, l, p, Node(l, b[l], m)).value = Append(k.value, p)
    BY <1>2, <1>3, <1>7, <2>1, InsertedKeeps, ZenonT(60)
  <2>3. InsertAt(b[l], m + 1, Len(k.value) + 1) = u
    BY <1>6, <1>7, <1>9 DEF m
  <2>4. QED
    BY <1>6, <2>2, <2>3 DEF m
<1>12. [b EXCEPT ![l] = u] = d
  BY <1>1 DEF b, d
<1>13. Further(st, l, FALSE, FALSE).heap = g /\ Further(st, l, FALSE, FALSE).e = PrevOf(g, t[n - i])
  BY <1>2, <1>4, <1>10 DEF Further, k
<1> HIDE DEF g, at
<1>14. Turned(h, c, l, u, LastValues(v, t, i + 1), Further(st, l, FALSE, FALSE))
  BY <1>2, <1>3, <1>11, <1>12, <1>13 DEF Turned, d, v
<1>15. ASSUME i + 1 < n PROVE PrevOf(g, t[n - i]) = t[n - (i + 1)]
  <2>1. Rings(g, d)
    BY <1>11, <1>12
  <2>2. \E o \in Nat : o + n <= Len(d[other]) /\ \A j \in 1..n : d[other][o + j] = t[j]
    <3>1. CASE other # l
      <4>1. d[other] = t /\ 0 \in Nat /\ 0 + n <= Len(t) /\ \A j \in 1..n : 0 + j = j
        BY <1>1, <1>6, <3>1 DEF t, n
      <4>2. QED
        BY <4>1
    <3>2. CASE other = l
      <4> DEFINE y == CountDown(N, i + 1)
      <4>1. y \in Seq(Nat) /\ c[l] \in Seq(Nat) /\ u = y \o c[l] /\ Len(y) = i + 1
        <5>1. i + 1 \in Nat
          OBVIOUS
        <5> DEFINE m == i + 1
        <5> HIDE DEF m
        <5>2. CountDown(N, m) \in Seq(Nat) /\ Len(CountDown(N, m)) = m
          BY <1>1, <5>1, CountType DEF m
        <5>3. QED
          BY <1>5, <5>2 DEF u, m
      <4> HIDE DEF y
      <4>2. /\ Len(u) = Len(y) + Len(c[l])
            /\ \A j \in 1..Len(y) + Len(c[l]) : u[j] = IF j <= Len(y) THEN y[j] ELSE c[l][j - Len(y)]
        BY <4>1, ConcatProperties
      <4>3. d[other] = u /\ Len(c[l]) = n /\ t = c[l]
        BY <1>6, <3>2 DEF t, n
      <4>4. ASSUME NEW j \in 1..n PROVE u[i + 1 + j] = t[j]
        <5>1. i + 1 + j \in 1..Len(y) + Len(c[l]) /\ ~(i + 1 + j <= Len(y)) /\ (i + 1 + j) - Len(y) = j
          BY <1>1, <4>1, <4>3
        <5>2. QED
          BY <4>2, <4>3, <5>1
      <4>5. i + 1 \in Nat /\ i + 1 + n <= Len(d[other])
        BY <1>1, <4>1, <4>2, <4>3
      <4>6. QED
        BY <4>3, <4>4, <4>5
    <3>3. QED
      BY <3>1, <3>2
  <2>3. PICK o \in Nat : o + n <= Len(d[other]) /\ \A j \in 1..n : d[other][o + j] = t[j]
    BY <2>2
  <2>4. Len(d[other]) \in Nat
    BY <2>1, Apart
  <2> DEFINE m == o + (n - i)
  <2>5. m \in 1..Len(d[other]) /\ m > 1 /\ m - 1 = o + (n - (i + 1)) /\ n - i \in 1..n /\ n - (i + 1) \in 1..n
    BY <1>1, <1>15, <2>3, <2>4
  <2>6. d[other][m] = t[n - i] /\ d[other][m - 1] = t[n - (i + 1)]
    BY <2>3, <2>5
  <2> HIDE DEF m
  <2>7. PrevOf(g, d[other][m]) = IF m > 1 THEN d[other][m - 1] ELSE 0
    BY <2>1, <2>5, Neighbours
  <2>8. QED
    BY <2>5, <2>6, <2>7
<1>16. QED
  BY <1>13, <1>14, <1>15 DEF FrontTurn, t, n, N, v, u

\* The lists where those of l are s now, and the values v.
Filled(g, c, l, s, v) == Rings(g, With(c, l, s)) /\ g.value = v

LEMMA BackCopied ==
  ASSUME NEW h, NEW c, Rings(h, c), NEW l \in Lists \ {View}, NEW other \in Lists \ {View},
         Len(h.value) + Len(c[other]) <= MaxElement
  PROVE  Filled(BackListPushed(h, l, other), c, l, c[l] \o Count(Len(h.value), Len(c[other])),
                h.value \o FirstValues(h.value, c[other], Len(c[other])))
<1> DEFINE t == c[other]
           n == Len(t)
           v == h.value
           b == [c EXCEPT ![l] = c[l] \o Count(Len(v), 0)]
<1>1. h.len[other] = n /\ n \in Nat /\ Len(v) \in Nat /\ c \in [Lists -> Seq(Nat)] /\ v \in Seq(Patches) /\ t \in Seq(1..Len(v))
  <2>1. c \in [Lists -> Seq(Nat)] /\ v \in Seq(Patches)
    BY DEF Rings, Heaps
  <2>2. QED
    BY <2>1, Apart
<1>2. PICK f : /\ f[0] = Start(h, other, TRUE)
               /\ \A i \in Nat : i < n => f[i + 1] = Further(f[i], l, TRUE, TRUE)
               /\ BackListPushed(h, l, other) = f[n].heap
  <2> HIDE DEF n
  <2>1. h.len[other] \in Nat /\ h.len[other] = n
    BY <1>1
  <2> DEFINE so == TRUE
  <2> HIDE DEF so
  <2>2. \E f : /\ f[0] = Start(h, other, so)
               /\ \A i \in Nat : i < h.len[other] => f[i + 1] = Further(f[i], l, so, so)
               /\ Copied(h, l, other, so, so) = f[h.len[other]].heap
    BY <2>1, CopiedIs
  <2>3. QED
    BY <2>1, <2>2 DEF so, BackListPushed
<1>3. BackTurn(h, c, l, t, 0, f[0])
  <2>1. Count(Len(v), 0) = <<>> /\ FirstValues(v, t, 0) = <<>>
    BY DEF Count, FirstValues
  <2>2. c[l] \o <<>> = c[l] /\ v \o <<>> = v
    BY <1>1, ConcatEmptySeq
  <2>3. [c EXCEPT ![l] = c[l]] = c
    BY <1>1
  <2>4. f[0].heap = h /\ f[0].e = IF n = 0 THEN 0 ELSE t[1]
    BY <1>2, Ends DEF Start
  <2>5. Turned(h, c, l, c[l] \o Count(Len(v), 0), FirstValues(v, t, 0), f[0])
    BY <2>1, <2>2, <2>3, <2>4 DEF Turned
  <2>6. 0 < n => f[0].e = t[0 + 1]
    BY <1>1, <2>4
  <2>7. QED
    BY <2>5, <2>6 DEF BackTurn
<1> DEFINE S == {i \in Nat : i <= n => BackTurn(h, c, l, t, i, f[i])}
<1>4. 0 \in S
  BY <1>3
<1>5. ASSUME NEW i \in Nat, i \in S PROVE i + 1 \in S
  <2> SUFFICES ASSUME i + 1 <= n PROVE BackTurn(h, c, l, t, i + 1, f[i + 1])
    BY <1>5
  <2>1. i < n /\ i <= n
    BY <1>1
  <2>2. BackTurn(h, c, l, t, i, f[i])
    BY <1>5, <2>1
  <2> DEFINE st == f[i]
  <2>3. f[i + 1] = Further(st, l, TRUE, TRUE)
    BY <1>2, <2>1
  <2> HIDE DEF st, n
  <2>4. BackTurn(h, c, l, t, i + 1, Further(st, l, TRUE, TRUE))
    BY <2>1, <2>2, NextBackTurn DEF n, st
  <2>5. QED
    BY <2>3, <2>4
<1> HIDE DEF S
<1>6. Nat \subseteq S
  BY <1>4, <1>5, SetInduction
<1>7. BackTurn(h, c, l, t, n, f[n])
  BY <1>1, <1>6 DEF S
<1>8. QED
  BY <1>2, <1>7 DEF BackTurn, Turned, Filled, With

LEMMA FrontCopied ==
  ASSUME NEW h, NEW c, Rings(h, c), NEW l \in Lists \ {View}, NEW other \in Lists \ {View},
         Len(h.value) + Len(c[other]) <= MaxElement
  PROVE  Filled(FrontListPushed(h, l, other), c, l, CountDown(Len(h.value), Len(c[other])) \o c[l],
                h.value \o LastValues(h.value, c[other], Len(c[other])))
<1> DEFINE t == c[other]
           n == Len(t)
           v == h.value
<1>1. h.len[other] = n /\ n \in Nat /\ Len(v) \in Nat /\ c \in [Lists -> Seq(Nat)] /\ v \in Seq(Patches) /\ t \in Seq(1..Len(v))
  <2>1. c \in [Lists -> Seq(Nat)] /\ v \in Seq(Patches)
    BY DEF Rings, Heaps
  <2>2. QED
    BY <2>1, Apart
<1>2. PICK f : /\ f[0] = Start(h, other, FALSE)
               /\ \A i \in Nat : i < n => f[i + 1] = Further(f[i], l, FALSE, FALSE)
               /\ FrontListPushed(h, l, other) = f[n].heap
  <2> HIDE DEF n
  <2>1. h.len[other] \in Nat /\ h.len[other] = n
    BY <1>1
  <2> DEFINE so == FALSE
  <2> HIDE DEF so
  <2>2. \E f : /\ f[0] = Start(h, other, so)
               /\ \A i \in Nat : i < h.len[other] => f[i + 1] = Further(f[i], l, so, so)
               /\ Copied(h, l, other, so, so) = f[h.len[other]].heap
    BY <2>1, CopiedIs
  <2>3. QED
    BY <2>1, <2>2 DEF so, FrontListPushed
<1>3. FrontTurn(h, c, l, t, 0, f[0])
  <2>1. CountDown(Len(v), 0) = <<>> /\ LastValues(v, t, 0) = <<>>
    BY DEF CountDown, LastValues
  <2>2. <<>> \o c[l] = c[l] /\ v \o <<>> = v
    BY <1>1, ConcatEmptySeq
  <2>3. [c EXCEPT ![l] = c[l]] = c
    BY <1>1
  <2>4. f[0].heap = h /\ f[0].e = IF n = 0 THEN 0 ELSE t[n]
    BY <1>2, Ends DEF Start
  <2>5. Turned(h, c, l, CountDown(Len(v), 0) \o c[l], LastValues(v, t, 0), f[0])
    BY <2>1, <2>2, <2>3, <2>4 DEF Turned
  <2>6. 0 < n => f[0].e = t[n - 0]
    BY <1>1, <2>4
  <2>7. QED
    BY <2>5, <2>6 DEF FrontTurn
<1> DEFINE S == {i \in Nat : i <= n => FrontTurn(h, c, l, t, i, f[i])}
<1>4. 0 \in S
  BY <1>3
<1>5. ASSUME NEW i \in Nat, i \in S PROVE i + 1 \in S
  <2> SUFFICES ASSUME i + 1 <= n PROVE FrontTurn(h, c, l, t, i + 1, f[i + 1])
    BY <1>5
  <2>1. i < n /\ i <= n
    BY <1>1
  <2>2. FrontTurn(h, c, l, t, i, f[i])
    BY <1>5, <2>1
  <2> DEFINE st == f[i]
  <2>3. f[i + 1] = Further(st, l, FALSE, FALSE)
    BY <1>2, <2>1
  <2> HIDE DEF st, n
  <2>4. FrontTurn(h, c, l, t, i + 1, Further(st, l, FALSE, FALSE))
    BY <2>1, <2>2, NextFrontTurn DEF n, st
  <2>5. QED
    BY <2>3, <2>4
<1> HIDE DEF S
<1>6. Nat \subseteq S
  BY <1>4, <1>5, SetInduction
<1>7. FrontTurn(h, c, l, t, n, f[n])
  BY <1>1, <1>6 DEF S
<1>8. QED
  BY <1>2, <1>7 DEF FrontTurn, Turned, Filled, With

-----------------------------------------------------------------------------
(* The invariant                                                           *)

\* The compiler is at the k-th of the patches it was given.
AtElement(k) ==
  /\ given = SubSeq(taken, 1, k - 1) /\ rest = SubSeq(taken, k, Len(taken))
  /\ curr = IF k <= Len(taken) THEN taken[k] ELSE 0

ListInv ==
  /\ Rings(heap, contents)
  /\ taken = contents[View] /\ \E k \in 1..Len(taken) + 1 : AtElement(k)

LEMMA OwnLists ==
  /\ Programs \subseteq Lists \ {View} /\ Buffer \in Lists \ {View} /\ TxBuffer \in Lists \ {View}
  /\ View \in Lists /\ TxBuffer # Buffer
  /\ {Buffer, View, TxBuffer} \cup Programs = Lists
BY DEF Lists, Programs, Buffer, View, TxBuffer, Own, Other

LEMMA InitListInv == ASSUME Init PROVE ListInv /\ Abstract!Init
<1> DEFINE e == <<>>
           c == [l \in Lists |-> e]
<1>1. /\ e \in Seq(Nat) /\ Len(e) = 0 /\ DOMAIN e = {} /\ e \in Seq(Patches) /\ e \in Seq(1..Len(heap.value))
      /\ heap.value = e
  BY EmptySeq DEF Init
<1> HIDE DEF e
<1>2. heap \in Heaps
  <2>1. MaxElement \in Nat /\ \A l \in Lists : l \in Nodes
    BY PatchListAssumption DEF Nodes
  <2>2. \A n \in Nodes : (IF n \in Lists THEN n ELSE 0) \in Nodes \cup {0}
    BY <2>1
  <2>3. [n \in Lists \cup 1..MaxElement |-> IF n \in Lists THEN n ELSE 0] \in [Nodes -> Nodes \cup {0}]
    BY <2>2 DEF Nodes
  <2>4. QED
    BY <1>1, <2>3 DEF Init, Heaps, e
<1>3. ASSUME NEW l \in Lists PROVE Ring(heap, l, c[l])
  <2>1. c[l] = e
    OBVIOUS
  <2>2. heap.next[l] = l /\ heap.prev[l] = l /\ heap.len[l] = 0
    BY DEF Init
  <2>3. \A i \in Int : Node(l, e, i) = l
    BY <1>1 DEF Node
  <2>4. \A i \in 0..0 : i \in Int /\ i + 1 \in Int
    OBVIOUS
  <2>5. Distinct(e)
    BY <1>1 DEF Distinct
  <2> HIDE DEF c
  <2>6. Ring(heap, l, e)
    BY <1>1, <2>2, <2>3, <2>4, <2>5 DEF Ring
  <2>7. QED
    BY <2>1, <2>6
<1>4. Chain(heap, c[View])
  <2>1. c[View] = e /\ heap.len[View] = 0
    BY OwnLists DEF Init
  <2>2. Distinct(e)
    BY <1>1 DEF Distinct
  <2> HIDE DEF c
  <2>3. QED
    BY <1>1, <2>1, <2>2 DEF Chain
<1>5. Rings(heap, c)
  <2>1. c \in [Lists -> Seq(Nat)] /\ c[View] = e
    BY <1>1, OwnLists
  <2>2. Len(heap.value) <= MaxElement
    BY <1>1, PatchListAssumption
  <2> HIDE DEF c
  <2>3. QED
    BY <1>1, <1>2, <1>3, <1>4, <2>1, <2>2 DEF Rings
<1>6. contents = c
  <2> HIDE DEF c
  <2>1. QED
    BY <1>5, WalkContents DEF Init
<1>7. ListInv
  <2>1. contents[View] = e
    BY <1>6, OwnLists
  <2>2. taken = e /\ given = e /\ rest = e /\ curr = 0
    BY DEF Init, e
  <2>3. SubSeq(e, 1, 1 - 1) = e /\ SubSeq(e, 1, Len(e)) = e
    <3>1. SubSeq(e, 1, 0) = <<>>
      BY SubSeqEmpty
    <3>2. QED
      BY <1>1, <3>1 DEF e
  <2>4. AtElement(1) /\ 1 \in 1..Len(taken) + 1
    BY <1>1, <2>2, <2>3 DEF AtElement
  <2>5. QED
    BY <1>5, <1>6, <2>1, <2>2, <2>4 DEF ListInv
<1>8. Abstract!Init
  <2>1. contents = [l \in Lists |-> <<>>]
    BY <1>6 DEF e
  <2>2. contents = [l \in {Buffer, View, TxBuffer} \cup Programs |-> <<>>]
    BY <2>1, OwnLists
  <2>3. heap.value = <<>> /\ rest = <<>>
    BY DEF Init
  <2>4. QED
    BY <2>2, <2>3 DEF Abstract!Init
<1>9. QED
  BY <1>7, <1>8

\* Where the compiler's list stays, it stays at its element, and has as much to come to.
LEMMA ChangesKeep ==
  ASSUME ListInv, NEW h, Changes(h), NEW d, Rings(h, d), d[View] = contents[View]
  PROVE  ListInv' /\ contents' = d /\ rest' = rest /\ heap'.value = h.value
<1>1. PICK k \in 1..Len(taken) + 1 : AtElement(k)
  BY DEF ListInv
<1>2. taken = d[View] /\ heap' = h /\ curr' = curr /\ taken' = taken /\ given' = given
  BY DEF ListInv, Changes
<1>3. contents' = d
  BY <1>2, WalkContents DEF Changes, Seen
<1>4. From(h, IF k <= Len(d[View]) THEN d[View][k] ELSE 0) = SubSeq(d[View], k, Len(d[View]))
  BY <1>2, OwnLists, GoingOn
<1>5. rest' = rest
  BY <1>1, <1>2, <1>4 DEF AtElement, Changes, Seen
<1>6. AtElement(k)'
  BY <1>1, <1>2, <1>5 DEF AtElement
<1>7. ListInv'
  BY <1>2, <1>3, <1>6 DEF ListInv
<1>8. QED
  BY <1>2, <1>3, <1>5, <1>7

LEMMA ValueType ==
  ASSUME ListInv
  PROVE  /\ Rings(heap, contents) /\ contents \in [Lists -> Seq(Nat)]
         /\ heap.value \in Seq(Patches) /\ Len(heap.value) \in Nat
         /\ DOMAIN heap.value = 1..Len(heap.value)
<1>1. Rings(heap, contents)
  BY DEF ListInv
<1>2. contents \in [Lists -> Seq(Nat)] /\ heap.value \in Seq(Patches)
  BY <1>1 DEF Rings, Heaps
<1>3. QED
  BY <1>1, <1>2, LenProperties

\* An element of a list of the program's, that it still may use.
LEMMA HeldIs ==
  ASSUME ListInv, NEW l \in Programs, NEW e \in Elements, Held(e), heap.list[e] = l
  PROVE  \E i \in 1..Len(contents[l]) : e = contents[l][i]
<1>1. e \in ToSet(contents[l])
  BY DEF Held
<1>2. DOMAIN contents[l] = 1..Len(contents[l])
  BY ValueType, OwnLists, Apart
<1>3. QED
  BY <1>1, <1>2 DEF ToSet

LEMMA Before ==
  ASSUME NEW h, NEW c, Rings(h, c), NEW l \in Lists \ {View}, NEW i \in 1..Len(c[l])
  PROVE  h.prev[c[l][i]] = Node(l, c[l], i - 1) /\ c[l][i] = Node(l, c[l], i)
<1>1. Len(c[l]) \in Nat
  BY Apart
<1>2. i - 1 \in 0..Len(c[l]) /\ (i - 1) + 1 = i
  BY <1>1
<1>3. c[l][i] = Node(l, c[l], i)
  BY DEF Node
<1>4. Ring(h, l, c[l])
  BY DEF Rings
<1>5. h.prev[Node(l, c[l], (i - 1) + 1)] = Node(l, c[l], i - 1)
  BY <1>2, <1>4 DEF Ring
<1>6. QED
  BY <1>2, <1>3, <1>5

-----------------------------------------------------------------------------
(* One step at a time                                                      *)


\* A new element of value p, as the i + 1-st.
LEMMA InsertedStep ==
  ASSUME ListInv, NEW l \in Lists \ {View}, NEW p \in Patches, NEW i \in 0..Len(contents[l]), Room(1),
         NEW at, at = Node(l, contents[l], i), Changes(InsertedValue(heap, l, p, at))
  PROVE  /\ ListInv' /\ rest' = rest /\ Abstract!Pushed(<<p>>)
         /\ Abstract!Set(l, InsertAt(contents[l], i + 1, Len(heap.value) + 1))
<1> DEFINE g == InsertedValue(heap, l, p, at)
           u == InsertAt(contents[l], i + 1, Len(heap.value) + 1)
           d == [contents EXCEPT ![l] = u]
<1>1. Rings(heap, contents) /\ contents \in [Lists -> Seq(Nat)] /\ heap.value \in Seq(Patches)
  BY ValueType
<1>2. Rings(g, d) /\ g.value = Append(heap.value, p)
  BY <1>1, InsertedKeeps DEF Room
<1>3. d[View] = contents[View]
  BY <1>1, OwnLists
<1>4. Changes(g)
  OBVIOUS
<1> HIDE DEF g, d
<1>5. ListInv' /\ contents' = d /\ rest' = rest /\ heap'.value = g.value
  BY <1>2, <1>3, <1>4, ChangesKeep
<1>6. Append(heap.value, p) = heap.value \o <<p>>
  BY <1>1, AppendIsConcat
<1>7. Abstract!Pushed(<<p>>)
  BY <1>2, <1>5, <1>6 DEF Abstract!Pushed
<1>8. Abstract!Set(l, u)
  BY <1>5 DEF Abstract!Set, d
<1>9. QED
  BY <1>5, <1>7, <1>8

LEMMA SameOperators ==
  /\ \A s, i : Abstract!RemoveAt(s, i) = RemoveAt(s, i)
  /\ \A s, i, e : Abstract!InsertAt(s, i, e) = InsertAt(s, i, e)
  /\ \A s : Abstract!Reverse(s) = Reverse(s)
BY DEF Abstract!RemoveAt, RemoveAt, Abstract!InsertAt, InsertAt, Abstract!Reverse, Reverse

LEMMA OneNew == Abstract!New(1) = <<Len(heap.value) + 1>>
BY DEF Abstract!New

LEMMA PushBackStep ==
  ASSUME ListInv, NEW l \in Lists \ {View}, NEW p \in Patches, PushBack(l, p)
  PROVE  ListInv' /\ Abstract!PushBack(l, p)
<1> DEFINE s == contents[l]
           e == Len(heap.value) + 1
           i == Len(s)
<1>1. s \in Seq(Nat) /\ i \in 0..Len(s) /\ e \in Nat
  BY ValueType, LenProperties
<1>2. heap.prev[l] = Node(l, s, i)
  BY ValueType, Ends
<1>3. Room(1) /\ Changes(InsertedValue(heap, l, p, heap.prev[l]))
  BY DEF PushBack
<1> HIDE DEF i
<1>4. /\ ListInv' /\ rest' = rest /\ Abstract!Pushed(<<p>>)
      /\ Abstract!Set(l, InsertAt(s, i + 1, e))
  BY <1>1, <1>2, <1>3, InsertedStep
<1>5. InsertAt(s, i + 1, e) = s \o <<e>>
  BY <1>1, InsertedAtEnds DEF i
<1>6. QED
  BY <1>4, <1>5, OneNew DEF Abstract!PushBack

LEMMA PushFrontStep ==
  ASSUME ListInv, NEW l \in Lists \ {View}, NEW p \in Patches, PushFront(l, p)
  PROVE  ListInv' /\ Abstract!PushFront(l, p)
<1> DEFINE s == contents[l]
           e == Len(heap.value) + 1
           i == 0
<1>1. s \in Seq(Nat) /\ i \in 0..Len(s) /\ e \in Nat /\ i + 1 = 1
  BY ValueType, LenProperties
<1>2. l = Node(l, s, i)
  BY ValueType, Ends
<1>3. Room(1) /\ Changes(InsertedValue(heap, l, p, l))
  BY DEF PushFront
<1> HIDE DEF i
<1>4. /\ ListInv' /\ rest' = rest /\ Abstract!Pushed(<<p>>)
      /\ Abstract!Set(l, InsertAt(s, i + 1, e))
  BY <1>1, <1>2, <1>3, InsertedStep
<1>5. InsertAt(s, i + 1, e) = <<e>> \o s
  BY <1>1, InsertedAtEnds
<1>6. QED
  BY <1>4, <1>5, OneNew DEF Abstract!PushFront

LEMMA InsertAfterStep ==
  ASSUME ListInv, NEW l \in Programs, NEW p \in Patches, NEW mark \in Elements, Held(mark), InsertAfter(l, p, mark)
  PROVE  ListInv' /\ Abstract!Insert(l, p, mark, 1)
<1>1. PICK i \in 1..Len(contents[l]) : mark = contents[l][i]
  BY HeldIs DEF InsertAfter
<1>2. l \in Lists \ {View} /\ DOMAIN contents[l] = 1..Len(contents[l]) /\ Len(contents[l]) \in Nat
  BY ValueType, OwnLists, Apart
<1>3. i \in 0..Len(contents[l]) /\ mark = Node(l, contents[l], i)
  BY <1>1, <1>2 DEF Node
<1>4. Room(1) /\ Changes(InsertedValue(heap, l, p, mark))
  BY DEF InsertAfter
<1>5. /\ ListInv' /\ rest' = rest /\ Abstract!Pushed(<<p>>)
      /\ Abstract!Set(l, InsertAt(contents[l], i + 1, Len(heap.value) + 1))
  BY <1>2, <1>3, <1>4, InsertedStep
<1>6. QED
  <2>1. i \in DOMAIN contents[l] /\ contents[l][i] = mark
    BY <1>1, <1>2
  <2>2. QED
    BY <1>5, <2>1, SameOperators, Zenon DEF Abstract!Insert

LEMMA InsertBeforeStep ==
  ASSUME ListInv, NEW l \in Programs, NEW p \in Patches, NEW mark \in Elements, Held(mark), InsertBefore(l, p, mark)
  PROVE  ListInv' /\ Abstract!Insert(l, p, mark, 0)
<1>1. PICK i \in 1..Len(contents[l]) : mark = contents[l][i]
  BY HeldIs DEF InsertBefore
<1>2. l \in Lists \ {View} /\ DOMAIN contents[l] = 1..Len(contents[l]) /\ Len(contents[l]) \in Nat
  BY ValueType, OwnLists, Apart
<1> DEFINE j == i - 1
<1>3. j \in 0..Len(contents[l]) /\ j + 1 = i + 0
  BY <1>1, <1>2
<1>4. heap.prev[mark] = Node(l, contents[l], j)
  BY <1>1, <1>2, ValueType, Before
<1>5. Room(1) /\ Changes(InsertedValue(heap, l, p, heap.prev[mark]))
  BY DEF InsertBefore
<1> HIDE DEF j
<1>6. /\ ListInv' /\ rest' = rest /\ Abstract!Pushed(<<p>>)
      /\ Abstract!Set(l, InsertAt(contents[l], j + 1, Len(heap.value) + 1))
  BY <1>2, <1>3, <1>4, <1>5, InsertedStep
<1>7. Abstract!Set(l, InsertAt(contents[l], i + 0, Len(heap.value) + 1))
  BY <1>3, <1>6
<1>8. QED
  <2>1. i \in DOMAIN contents[l] /\ contents[l][i] = mark
    BY <1>1, <1>2
  <2>2. QED
    BY <1>6, <1>7, <2>1, SameOperators, Zenon DEF Abstract!Insert

LEMMA RemoveStep ==
  ASSUME ListInv, NEW l \in Programs, NEW e \in Elements, Held(e), RemoveElement(l, e)
  PROVE  ListInv' /\ Abstract!RemoveOf(l, e)
<1>1. PICK i \in 1..Len(contents[l]) : e = contents[l][i]
  BY HeldIs DEF RemoveElement
<1>2. /\ l \in Lists \ {View} /\ DOMAIN contents[l] = 1..Len(contents[l])
      /\ Rings(heap, contents) /\ contents \in [Lists -> Seq(Nat)]
  BY ValueType, OwnLists, Apart
<1> DEFINE g == Unlinked(heap, l, e)
           u == RemoveAt(contents[l], i)
           d == [contents EXCEPT ![l] = u]
<1>3. Rings(g, d) /\ g.value = heap.value
  <2> DEFINE c == contents
             h == heap
  <2>1. Rings(h, c) /\ l \in Lists \ {View} /\ IsAt(c[l], i, e)
    BY <1>1, <1>2 DEF IsAt
  <2> HIDE DEF c, h
  <2>2. Rings(Unlinked(h, l, e), With(c, l, RemoveAt(c[l], i)))
    BY <2>1, UnlinkedKeeps, Zenon
  <2>3. Unlinked(h, l, e).value = h.value
    BY DEF Unlinked
  <2>4. QED
    BY <2>2, <2>3 DEF c, h, With
<1>4. d[View] = contents[View] /\ Changes(g)
  BY <1>2, OwnLists DEF RemoveElement
<1> HIDE DEF g, d
<1>5. ListInv' /\ contents' = d /\ rest' = rest /\ heap'.value = g.value
  BY <1>3, <1>4, ChangesKeep
<1>6. Abstract!Set(l, u)
  BY <1>5 DEF Abstract!Set, d
<1>7. QED
  <2>1. i \in DOMAIN contents[l] /\ contents[l][i] = e /\ heap'.value = heap.value
    BY <1>1, <1>2, <1>3, <1>5
  <2>2. QED
    BY <1>5, <1>6, <2>1, SameOperators, Zenon DEF Abstract!RemoveOf

LEMMA SetValueStep ==
  ASSUME ListInv, NEW e \in Elements, NEW p \in Patches, SetValue(e, p)
  PROVE  ListInv' /\ Abstract!SetValue(e, p)
<1> DEFINE g == [heap EXCEPT !.value[e] = p]
           v == [heap.value EXCEPT ![e] = p]
<1>1. Rings(heap, contents) /\ heap.value \in Seq(Patches) /\ e \in 1..Len(heap.value) /\ heap \in Heaps
  BY ValueType DEF Elements, Rings
<1>2. v \in Seq(Patches) /\ Len(v) = Len(heap.value) /\ Len(v) \in Nat /\ Len(v) <= MaxElement
  BY <1>1, ExceptSeq, LenProperties DEF Rings
<1>3. /\ g \in Heaps /\ g.value = v
      /\ g.next = heap.next /\ g.prev = heap.prev /\ g.list = heap.list /\ g.len = heap.len
  BY <1>1, <1>2 DEF Heaps
<1>4. Changes(g)
  BY DEF SetValue
<1> HIDE DEF g, v
<1>5. Rings(g, contents)
  BY <1>1, <1>2, <1>3, ValuesChange
<1>6. ListInv' /\ contents' = contents /\ rest' = rest /\ heap'.value = g.value
  BY <1>4, <1>5, ChangesKeep
<1>7. QED
  BY <1>3, <1>6 DEF Abstract!SetValue, v

LEMMA ListInitStep ==
  ASSUME ListInv, NEW l \in Programs, ListInit(l)
  PROVE  ListInv' /\ Abstract!Clear(l)
<1> DEFINE g == Cleared(heap, l)
           d == [contents EXCEPT ![l] = <<>>]
<1>1. Rings(heap, contents) /\ l \in Lists \ {View} /\ contents \in [Lists -> Seq(Nat)]
  BY ValueType, OwnLists
<1>2. Rings(g, d) /\ g.value = heap.value
  BY <1>1, ClearedKeeps
<1>3. d[View] = contents[View] /\ Changes(g)
  BY <1>1, OwnLists DEF ListInit
<1> HIDE DEF g, d
<1>4. ListInv' /\ contents' = d /\ rest' = rest /\ heap'.value = g.value
  BY <1>2, <1>3, ChangesKeep
<1>5. QED
  BY <1>2, <1>4 DEF Abstract!Clear, Abstract!Set, d

\* The i-th element put behind the j-th of the others.
LEMMA MovedStep ==
  ASSUME ListInv, NEW l \in Lists \ {View}, NEW i, NEW j, NEW e, NEW u, NEW at,
         Moving(l, contents[l], i, j, e, u, at), Changes(Moved(heap, l, e, at))
  PROVE  /\ ListInv' /\ heap'.value = heap.value /\ rest' = rest
         /\ Abstract!Set(l, InsertAt(u, j + 1, e))
<1> DEFINE c == contents
           h == heap
           s == InsertAt(u, j + 1, e)
           d == [c EXCEPT ![l] = s]
           g == Moved(h, l, e, at)
<1>1. Rings(h, c) /\ c \in [Lists -> Seq(Nat)]
  BY ValueType
<1>2. Moving(l, c[l], i, j, e, u, at)
  OBVIOUS
<1>3. d[View] = contents[View] /\ Changes(g)
  BY <1>1, OwnLists
<1> HIDE DEF c, h
<1>4. Rings(g, d) /\ g.value = h.value
  <2>1. Rings(Moved(h, l, e, at), With(c, l, InsertAt(u, j + 1, e)))
    BY <1>1, <1>2, MovedKeeps, Zenon
  <2>2. Moved(h, l, e, at).value = h.value
    BY DEF Moved, Linked, Unlinked
  <2>3. QED
    BY <2>1, <2>2 DEF With
<1> HIDE DEF g, d
<1>5. ListInv' /\ contents' = d /\ rest' = rest /\ heap'.value = g.value
  BY <1>3, <1>4, ChangesKeep
<1>6. Abstract!Set(l, s)
  BY <1>5 DEF Abstract!Set, d, c
<1>7. QED
  BY <1>4, <1>5, <1>6 DEF c, h

\* An element that stays where it is.
LEMMA StaysStep ==
  ASSUME ListInv, NEW l \in Lists \ {View}, Changes(heap)
  PROVE  ListInv' /\ heap'.value = heap.value /\ rest' = rest /\ Abstract!Set(l, contents[l])
<1>1. Rings(heap, contents) /\ contents \in [Lists -> Seq(Nat)]
  BY ValueType
<1>2. ListInv' /\ contents' = contents /\ rest' = rest /\ heap'.value = heap.value
  <2> DEFINE h == heap
             d == contents
  <2>1. Rings(h, d) /\ d[View] = contents[View] /\ Changes(h)
    BY <1>1
  <2> HIDE DEF h, d
  <2>2. ListInv' /\ contents' = d /\ rest' = rest /\ heap'.value = h.value
    BY <2>1, ChangesKeep
  <2>3. QED
    BY <2>2 DEF h, d
<1>3. [contents EXCEPT ![l] = contents[l]] = contents
  BY <1>1
<1>4. QED
  BY <1>2, <1>3 DEF Abstract!Set

LEMMA MoveToFrontStep ==
  ASSUME ListInv, NEW l \in Programs, NEW e \in Elements, Held(e), MoveToFront(l, e)
  PROVE  ListInv' /\ Abstract!MoveToFront(l, e)
<1>1. PICK i \in 1..Len(contents[l]) : e = contents[l][i]
  BY HeldIs DEF MoveToFront
<1>2. /\ l \in Lists \ {View} /\ DOMAIN contents[l] = 1..Len(contents[l])
      /\ contents[l] \in Seq(Nat) /\ Len(contents[l]) \in Nat /\ e \in Nat
  <2>1. l \in Lists \ {View} /\ contents[l] \in Seq(Nat)
    BY ValueType, OwnLists
  <2>2. QED
    BY <1>1, <2>1, LenProperties
<1> DEFINE u == RemoveAt(contents[l], i)
           j == 0
<1>3. u \in Seq(Nat) /\ Len(u) = Len(contents[l]) - 1
  BY <1>2, Removed
<1> HIDE DEF u
<1>4. j \in 0..Len(contents[l]) - 1 /\ l = Node(l, u, j) /\ j + 1 = 1
  BY <1>1, <1>2, <1>3 DEF Node
<1>5. Changes(Moved(heap, l, e, l))
  BY DEF MoveToFront
<1> HIDE DEF j
<1>6. /\ ListInv' /\ heap'.value = heap.value /\ rest' = rest
      /\ Abstract!Set(l, InsertAt(u, j + 1, e))
  <2>1. Moving(l, contents[l], i, j, e, u, l)
    BY <1>1, <1>4 DEF u, Moving, IsAt
  <2>2. QED
    BY <1>2, <1>5, <2>1, MovedStep
<1>7. Abstract!Set(l, <<e>> \o u)
  <2>1. InsertAt(u, 1, e) = <<e>> \o u
    BY <1>2, <1>3, InsertedAtEnds
  <2>2. QED
    BY <1>4, <1>6, <2>1
<1>8. i \in DOMAIN contents[l] /\ contents[l][i] = e
  BY <1>1, <1>2
<1>9. QED
  BY <1>6, <1>7, <1>8, SameOperators, Zenon DEF Abstract!MoveToFront, u

LEMMA MoveToBackStep ==
  ASSUME ListInv, NEW l \in Programs, NEW e \in Elements, Held(e), MoveToBack(l, e)
  PROVE  ListInv' /\ Abstract!MoveToBack(l, e)
<1>1. PICK i \in 1..Len(contents[l]) : e = contents[l][i]
  BY HeldIs DEF MoveToBack
<1> DEFINE s == contents[l]
           u == RemoveAt(s, i)
           j == Len(s) - 1
<1>2. l \in Lists \ {View} /\ DOMAIN s = 1..Len(s) /\ s \in Seq(Nat) /\ Len(s) \in Nat /\ e \in Nat
  <2>1. l \in Lists \ {View} /\ contents[l] \in Seq(Nat)
    BY ValueType, OwnLists
  <2>2. QED
    BY <1>1, <2>1, LenProperties
<1>3. u \in Seq(Nat) /\ Len(u) = Len(s) - 1
  BY <1>2, Removed
<1>4. heap.prev[l] = Node(l, s, Len(s)) /\ Node(l, s, Len(s)) = s[Len(s)]
  BY <1>1, <1>2, ValueType, Ends DEF Node
<1>5. Changes(Moved(heap, l, e, heap.prev[l]))
  BY DEF MoveToBack
<1>6. InsertAt(u, Len(u) + 1, e) = u \o <<e>>
  <2> HIDE DEF u
  <2>1. QED
    BY <1>2, <1>3, InsertedAtEnds
<1>7. ListInv' /\ heap'.value = heap.value /\ rest' = rest /\ Abstract!Set(l, u \o <<e>>)
  <2>1. CASE i = Len(s)
    <3>1. Changes(heap)
      BY <1>1, <1>4, <1>5, <2>1 DEF Moved
    <3>2. u \o <<e>> = s
      <4>1. InsertAt(u, i, s[i]) = s
        BY <1>2, BackInPlace
      <4>2. Len(u) + 1 = i
        BY <1>2, <1>3, <2>1
      <4>3. QED
        BY <1>1, <1>6, <4>1, <4>2
    <3>3. QED
      BY <1>2, <3>1, <3>2, StaysStep
  <2>2. CASE i # Len(s)
    <3>1. j \in i..Len(s) /\ j \in 0..Len(s) - 1 /\ j + 1 = Len(s) /\ j + 1 = Len(u) + 1
      BY <1>1, <1>2, <1>3, <2>2
    <3>2. Node(l, u, j) = Node(l, s, j + 1)
      BY <1>2, <3>1, NodeRemoved
    <3>3. heap.prev[l] = Node(l, u, j)
      BY <1>4, <3>1, <3>2
    <3> HIDE DEF j, u
    <3>4. /\ ListInv' /\ heap'.value = heap.value /\ rest' = rest
          /\ Abstract!Set(l, InsertAt(u, j + 1, e))
      <4> DEFINE at == heap.prev[l]
      <4>1. Moving(l, s, i, j, e, u, at) /\ Changes(Moved(heap, l, e, at))
        BY <1>1, <1>5, <3>1, <3>3 DEF u, Moving, IsAt
      <4> HIDE DEF at
      <4>2. QED
        BY <1>2, <4>1, MovedStep
    <3>5. QED
      BY <1>6, <3>1, <3>4
  <2>3. QED
    BY <2>1, <2>2
<1>8. i \in DOMAIN contents[l] /\ contents[l][i] = e
  BY <1>1, <1>2
<1> HIDE DEF u
<1>9. QED
  BY <1>7, <1>8, SameOperators, Zenon DEF Abstract!MoveToBack, u

\* Where the m-th element is when the i-th is taken out.
Marked(s, i, m, u, j) ==
  /\ i \in 1..Len(s) /\ m \in 1..Len(s) /\ i # m
  /\ u = RemoveAt(s, i) /\ j = IF m < i THEN m ELSE m - 1

LEMMA MarkRemoved ==
  ASSUME NEW s \in Seq(Nat), NEW i, NEW m, NEW u, NEW j, Marked(s, i, m, u, j), NEW l
  PROVE  /\ j \in DOMAIN u /\ u[j] = s[m] /\ j \in 0..Len(s) - 1 /\ j - 1 \in 0..Len(s) - 1
         /\ Node(l, u, j) = s[m]
         /\ m # i + 1 => Node(l, u, j - 1) = Node(l, s, m - 1)
         /\ m = i + 1 => j = i
<1>0. /\ i \in 1..Len(s) /\ m \in 1..Len(s) /\ i # m
      /\ u = RemoveAt(s, i) /\ j = IF m < i THEN m ELSE m - 1
  BY DEF Marked
<1>1. Len(s) \in Nat /\ i \in Int /\ m \in Int
  BY <1>0, LenProperties
<1>2. u \in Seq(Nat) /\ Len(u) = Len(s) - 1 /\ \A x \in 1..Len(s) - 1 : u[x] = IF x < i THEN s[x] ELSE s[x + 1]
  BY <1>0, Removed
<1>3. /\ \A x \in 0..i - 1 : Node(l, u, x) = Node(l, s, x)
      /\ \A x \in i..Len(s) : Node(l, u, x) = Node(l, s, x + 1)
  BY <1>0, NodeRemoved
<1>4. DOMAIN u = 1..Len(s) - 1
  BY <1>2, LenProperties
<1>5. Node(l, s, m) = s[m]
  BY <1>0 DEF Node
<1>6. CASE m < i
  <2>1. j = m /\ j \in 1..Len(s) - 1 /\ j < i /\ j \in 0..i - 1 /\ j - 1 \in 0..i - 1 /\ j - 1 = m - 1
        /\ j \in 0..Len(s) - 1 /\ j - 1 \in 0..Len(s) - 1 /\ m # i + 1
    BY <1>0, <1>1, <1>6
  <2>2. u[j] = s[m] /\ Node(l, u, j) = s[m] /\ Node(l, u, j - 1) = Node(l, s, m - 1)
    BY <1>2, <1>3, <1>5, <2>1
  <2>3. QED
    BY <1>4, <2>1, <2>2
<1>7. CASE m > i
  <2>1. j = m - 1 /\ j \in 1..Len(s) - 1 /\ ~(j < i) /\ j \in i..Len(s) /\ j + 1 = m
        /\ j \in 0..Len(s) - 1 /\ j - 1 \in 0..Len(s) - 1 /\ (m = i + 1 => j = i)
    BY <1>0, <1>1, <1>7
  <2>2. u[j] = s[m] /\ Node(l, u, j) = s[m]
    BY <1>2, <1>3, <1>5, <2>1
  <2>3. ASSUME m # i + 1 PROVE Node(l, u, j - 1) = Node(l, s, m - 1)
    <3>1. j - 1 \in i..Len(s) /\ (j - 1) + 1 = m - 1
      BY <1>0, <1>1, <1>7, <2>1, <2>3
    <3>2. QED
      BY <1>3, <3>1
  <2>4. QED
    BY <1>4, <2>1, <2>2, <2>3
<1>8. QED
  BY <1>0, <1>1, <1>6, <1>7

LEMMA MoveAfterStep ==
  ASSUME ListInv, NEW l \in Programs, NEW e \in Elements, Held(e), NEW mark \in Elements, Held(mark),
         MoveAfter(l, e, mark)
  PROVE  ListInv' /\ Abstract!Move(l, e, mark, 1)
<1>1. PICK i \in 1..Len(contents[l]) : e = contents[l][i]
  BY HeldIs DEF MoveAfter
<1>2. PICK m \in 1..Len(contents[l]) : mark = contents[l][m]
  BY HeldIs DEF MoveAfter
<1> DEFINE s == contents[l]
           u == RemoveAt(s, i)
           j == IF m < i THEN m ELSE m - 1
<1>3. l \in Lists \ {View} /\ DOMAIN s = 1..Len(s) /\ s \in Seq(Nat) /\ i # m
  <2>1. l \in Lists \ {View} /\ contents[l] \in Seq(Nat)
    BY ValueType, OwnLists
  <2>2. QED
    BY <1>1, <1>2, <2>1, LenProperties DEF MoveAfter
<1>4. /\ j \in DOMAIN u /\ u[j] = mark /\ j \in 0..Len(s) - 1 /\ Node(l, u, j) = mark
  <2>1. Marked(s, i, m, u, j) /\ mark = s[m]
    BY <1>1, <1>2, <1>3 DEF Marked
  <2> HIDE DEF s, u, j
  <2>2. QED
    BY <1>3, <2>1, MarkRemoved
<1>5. Changes(Moved(heap, l, e, mark))
  BY DEF MoveAfter
<1> HIDE DEF u, j
<1>6. /\ ListInv' /\ heap'.value = heap.value /\ rest' = rest
      /\ Abstract!Set(l, InsertAt(u, j + 1, e))
  <2>1. Moving(l, s, i, j, e, u, mark)
    BY <1>1, <1>4 DEF u, Moving, IsAt
  <2>2. QED
    BY <1>3, <1>5, <2>1, MovedStep
<1>7. i \in DOMAIN contents[l] /\ contents[l][i] = e
  BY <1>1, <1>3
<1>8. \E x \in DOMAIN u : u[x] = mark /\ Abstract!Set(l, InsertAt(u, x + 1, e))
  BY <1>4, <1>6
<1>9. QED
  BY <1>6, <1>7, <1>8, SameOperators, Zenon DEF Abstract!Move, u

LEMMA MoveBeforeStep ==
  ASSUME ListInv, NEW l \in Programs, NEW e \in Elements, Held(e), NEW mark \in Elements, Held(mark),
         MoveBefore(l, e, mark)
  PROVE  ListInv' /\ Abstract!Move(l, e, mark, 0)
<1>1. PICK i \in 1..Len(contents[l]) : e = contents[l][i]
  BY HeldIs DEF MoveBefore
<1>2. PICK m \in 1..Len(contents[l]) : mark = contents[l][m]
  BY HeldIs DEF MoveBefore
<1> DEFINE s == contents[l]
           u == RemoveAt(s, i)
           j == IF m < i THEN m ELSE m - 1
           k == j - 1
<1>3. l \in Lists \ {View} /\ DOMAIN s = 1..Len(s) /\ s \in Seq(Nat) /\ i # m /\ Len(s) \in Nat
  <2>1. l \in Lists \ {View} /\ contents[l] \in Seq(Nat)
    BY ValueType, OwnLists
  <2>2. QED
    BY <1>1, <1>2, <2>1, LenProperties DEF MoveBefore
<1>4. /\ j \in DOMAIN u /\ u[j] = mark /\ k \in 0..Len(s) - 1
      /\ m # i + 1 => Node(l, u, k) = Node(l, s, m - 1)
      /\ m = i + 1 => j = i
  <2>1. Marked(s, i, m, u, j) /\ mark = s[m]
    BY <1>1, <1>2, <1>3 DEF Marked
  <2> HIDE DEF s, u, j, k
  <2>0. s \in Seq(Nat)
    BY <1>3
  <2>2. j \in DOMAIN u
    BY <1>3, <2>1, MarkRemoved, Zenon
  <2>3. u[j] = s[m]
    BY ONLY <2>0, <2>1, MarkRemoved, SMTT(30)
  <2>4. j - 1 \in 0..Len(s) - 1
    BY <1>3, <2>1 DEF Marked
  <2>5. m # i + 1 => Node(l, u, j - 1) = Node(l, s, m - 1)
    BY ONLY <2>0, <2>1, MarkRemoved, SMTT(30)
  <2>6. m = i + 1 => j = i
    BY <1>3, <2>1 DEF Marked
  <2>7. QED
    BY <2>1, <2>2, <2>3, <2>4, <2>5, <2>6 DEF k
<1>5. heap.prev[mark] = Node(l, s, m - 1)
  BY <1>2, <1>3, ValueType, Before
<1>6. Changes(Moved(heap, l, e, heap.prev[mark]))
  BY DEF MoveBefore
<1>7. j \in Int /\ k + 1 = j + 0 /\ j + 0 = j
  BY <1>1, <1>2, <1>3
<1>8. ListInv' /\ heap'.value = heap.value /\ rest' = rest /\ Abstract!Set(l, InsertAt(u, j + 0, e))
  <2>1. CASE m = i + 1
    <3>1. Node(l, s, m - 1) = e
      <4>1. m - 1 = i
        BY <1>1, <2>1
      <4>2. QED
        BY <1>1, <4>1 DEF Node
    <3>2. Changes(heap)
      BY <1>5, <1>6, <3>1 DEF Moved
    <3>3. InsertAt(u, j + 0, e) = s
      <4>1. InsertAt(u, i, s[i]) = s
        BY <1>3, BackInPlace
      <4>2. QED
        BY <1>1, <1>4, <1>7, <2>1, <4>1
    <3>4. QED
      BY <1>3, <3>2, <3>3, StaysStep
  <2>2. CASE m # i + 1
    <3>1. heap.prev[mark] = Node(l, u, k)
      BY <1>4, <1>5, <2>2
    <3> HIDE DEF u, j, k
    <3>2. /\ ListInv' /\ heap'.value = heap.value /\ rest' = rest
          /\ Abstract!Set(l, InsertAt(u, k + 1, e))
      <4> DEFINE at == heap.prev[mark]
      <4>1. Moving(l, s, i, k, e, u, at) /\ Changes(Moved(heap, l, e, at))
        BY <1>1, <1>4, <1>6, <3>1 DEF u, Moving, IsAt
      <4> HIDE DEF at
      <4>2. QED
        BY <1>3, <4>1, MovedStep
    <3>3. QED
      BY <1>7, <3>2
  <2>3. QED
    BY <2>1, <2>2
<1> HIDE DEF u, j, k
<1>9. i \in DOMAIN contents[l] /\ contents[l][i] = e
  BY <1>1, <1>3
<1>10. \E x \in DOMAIN u : u[x] = mark /\ Abstract!Set(l, InsertAt(u, x + 0, e))
  BY <1>4, <1>8
<1>11. QED
  BY <1>8, <1>9, <1>10, SameOperators, Zenon DEF Abstract!Move, u

-----------------------------------------------------------------------------
(* The copies, and the compiler                                            *)

\* What PatchSequences says of the copies, in the words of this module.
LEMMA CopiesAre ==
  ASSUME ListInv, NEW o \in Lists
  PROVE  LET n == Len(contents[o])
             t == Len(heap.value)
         IN /\ Abstract!New(n) = Count(t, n)
            /\ Abstract!Reverse(Abstract!New(n)) = CountDown(t, n)
            /\ Abstract!ValuesOf(o) = FirstValues(heap.value, contents[o], n)
            /\ Abstract!Reverse(Abstract!ValuesOf(o)) = LastValues(heap.value, contents[o], n)
<1> DEFINE s == contents[o]
           n == Len(s)
           t == Len(heap.value)
           v == heap.value
<1>1. n \in Nat /\ t \in Nat /\ DOMAIN s = 1..n
  BY ValueType, Apart
<1>2. Abstract!New(n) = Count(t, n) /\ Abstract!ValuesOf(o) = FirstValues(v, s, n)
  BY <1>1 DEF Abstract!New, Count, Abstract!ValuesOf, FirstValues
<1> HIDE DEF s, n, t, v
<1>3. Len(Count(t, n)) = n /\ Len(FirstValues(v, s, n)) = n
  BY <1>1 DEF Count, FirstValues
<1>4. ASSUME NEW i \in 1..n PROVE n - i + 1 \in 1..n /\ n + 1 - i = n - i + 1 /\ t + n + 1 - i = t + (n - i + 1)
  BY <1>1
<1>5. Reverse(Count(t, n)) = CountDown(t, n)
  BY <1>1, <1>3, <1>4 DEF Reverse, Count, CountDown
<1>6. Reverse(FirstValues(v, s, n)) = LastValues(v, s, n)
  BY <1>1, <1>3, <1>4 DEF Reverse, FirstValues, LastValues, n
<1>7. QED
  BY <1>2, <1>5, <1>6, SameOperators DEF s, n, t, v

LEMMA PushBackListStep ==
  ASSUME ListInv, NEW l \in Programs, NEW o \in Programs, PushBackList(l, o)
  PROVE  ListInv' /\ Abstract!PushBackList(l, o)
<1> DEFINE n == Len(contents[o])
           s == contents[l] \o Count(Len(heap.value), n)
           v == heap.value \o FirstValues(heap.value, contents[o], n)
           g == BackListPushed(heap, l, o)
           d == With(contents, l, s)
<1>1. /\ Rings(heap, contents) /\ contents \in [Lists -> Seq(Nat)]
      /\ l \in Lists \ {View} /\ o \in Lists \ {View} /\ Len(heap.value) + n <= MaxElement
  <2>1. Rings(heap, contents) /\ contents \in [Lists -> Seq(Nat)] /\ l \in Lists \ {View} /\ o \in Lists \ {View}
    BY ValueType, OwnLists
  <2>2. heap.len[o] = n
    BY <2>1, Apart
  <2>3. QED
    BY <2>1, <2>2 DEF PushBackList, Room
<1>2. Filled(g, contents, l, s, v)
  BY <1>1, BackCopied, Zenon
<1>3. d[View] = contents[View] /\ Changes(g)
  BY <1>1, OwnLists DEF PushBackList, With
<1> HIDE DEF g, d, s, v
<1>4. Rings(g, d) /\ g.value = v
  BY <1>2 DEF Filled, d
<1>5. ListInv' /\ contents' = d /\ rest' = rest /\ heap'.value = v
  BY <1>3, <1>4, ChangesKeep
<1>6. /\ Abstract!New(n) = Count(Len(heap.value), n)
      /\ Abstract!ValuesOf(o) = FirstValues(heap.value, contents[o], n)
  BY <1>1, CopiesAre
<1>7. QED
  BY <1>5, <1>6 DEF Abstract!PushBackList, Abstract!Pushed, Abstract!Set, d, s, v, With

LEMMA PushFrontListStep ==
  ASSUME ListInv, NEW l \in Programs, NEW o \in Programs, PushFrontList(l, o)
  PROVE  ListInv' /\ Abstract!PushFrontList(l, o)
<1> DEFINE n == Len(contents[o])
           s == CountDown(Len(heap.value), n) \o contents[l]
           v == heap.value \o LastValues(heap.value, contents[o], n)
           g == FrontListPushed(heap, l, o)
           d == With(contents, l, s)
<1>1. /\ Rings(heap, contents) /\ contents \in [Lists -> Seq(Nat)]
      /\ l \in Lists \ {View} /\ o \in Lists \ {View} /\ Len(heap.value) + n <= MaxElement
  <2>1. Rings(heap, contents) /\ contents \in [Lists -> Seq(Nat)] /\ l \in Lists \ {View} /\ o \in Lists \ {View}
    BY ValueType, OwnLists
  <2>2. heap.len[o] = n
    BY <2>1, Apart
  <2>3. QED
    BY <2>1, <2>2 DEF PushFrontList, Room
<1>2. Filled(g, contents, l, s, v)
  BY <1>1, FrontCopied, Zenon
<1>3. d[View] = contents[View] /\ Changes(g)
  BY <1>1, OwnLists DEF PushFrontList, With
<1> HIDE DEF g, d, s, v
<1>4. Rings(g, d) /\ g.value = v
  BY <1>2 DEF Filled, d
<1>5. ListInv' /\ contents' = d /\ rest' = rest /\ heap'.value = v
  BY <1>3, <1>4, ChangesKeep
<1>6. /\ Abstract!Reverse(Abstract!New(n)) = CountDown(Len(heap.value), n)
      /\ Abstract!Reverse(Abstract!ValuesOf(o)) = LastValues(heap.value, contents[o], n)
  BY <1>1, CopiesAre
<1>7. QED
  BY <1>5, <1>6 DEF Abstract!PushFrontList, Abstract!Pushed, Abstract!Set, d, s, v, With

LEMMA UseTxStep ==
  ASSUME ListInv, UseTx
  PROVE  ListInv' /\ Abstract!UseTx
<1> DEFINE h == Cleared(heap, TxBuffer)
           c == With(contents, TxBuffer, <<>>)
           n == Len(contents[Buffer])
           s == Count(Len(heap.value), n)
           v == heap.value \o FirstValues(heap.value, contents[Buffer], n)
           g == BackListPushed(h, TxBuffer, Buffer)
           d == With(contents, TxBuffer, s)
<1>1. Rings(heap, contents) /\ contents \in [Lists -> Seq(Nat)] /\ Len(heap.value) \in Nat
  BY ValueType
<1>2. Rings(h, c) /\ h.value = heap.value
  BY <1>1, OwnLists, ClearedKeeps DEF With
<1>3. c[Buffer] = contents[Buffer] /\ c[TxBuffer] = <<>> /\ n \in Nat /\ heap.len[Buffer] = n
  BY <1>1, OwnLists, Apart DEF With
<1>4. Len(heap.value) + n <= MaxElement /\ Changes(g)
  BY <1>3 DEF UseTx, Room
<1>5. With(c, TxBuffer, s) = d /\ d[View] = contents[View]
  BY <1>1, OwnLists DEF With
<1>6. <<>> \o s = s
  BY <1>1, <1>3, CountType, ConcatEmptySeq
<1> HIDE DEF h, c, d
<1>7. Filled(g, c, TxBuffer, c[TxBuffer] \o Count(Len(h.value), Len(c[Buffer])),
             h.value \o FirstValues(h.value, c[Buffer], Len(c[Buffer])))
  <2>1. Len(h.value) + Len(c[Buffer]) <= MaxElement
    BY <1>2, <1>3, <1>4
  <2>2. QED
    BY <1>2, <2>1, OwnLists, BackCopied, Zenon
<1> HIDE DEF g, s, v
<1>8. Filled(g, c, TxBuffer, s, v)
  BY <1>2, <1>3, <1>6, <1>7 DEF s, v
<1>9. Rings(g, d) /\ g.value = v
  BY <1>5, <1>8 DEF Filled
<1>10. ListInv' /\ contents' = d /\ rest' = rest /\ heap'.value = v
  BY <1>4, <1>5, <1>9, ChangesKeep
<1>11. /\ Abstract!New(n) = Count(Len(heap.value), n)
       /\ Abstract!ValuesOf(Buffer) = FirstValues(heap.value, contents[Buffer], n)
  BY OwnLists, CopiesAre
<1>12. QED
  BY <1>10, <1>11 DEF Abstract!UseTx, Abstract!Pushed, Abstract!Set, d, s, v, With

LEMMA CompilePatchStep ==
  ASSUME ListInv, CompilePatch
  PROVE  ListInv' /\ Abstract!CompilePatch
<1> DEFINE d == [contents EXCEPT ![View] = contents[Buffer], ![Buffer] = <<>>]
           t == contents[Buffer]
<1>1. Rings(heap, contents) /\ contents \in [Lists -> Seq(Nat)] /\ t \in Seq(Nat) /\ Len(t) \in Nat
  BY ValueType, OwnLists, Apart
<1>2. heap' = Handed(heap)
  BY DEF CompilePatch, Handed
<1>3. Rings(heap', d) /\ heap'.value = heap.value
  BY <1>1, <1>2, HandedKeeps
<1>4. d[View] = t
  BY <1>1, OwnLists
<1> HIDE DEF d
<1>5. contents' = d
  BY <1>3, WalkContents DEF CompilePatch, Seen
<1>6. curr' = IF 1 <= Len(t) THEN t[1] ELSE 0
  <2>1. FrontOf(heap', View) = IF Len(d[View]) = 0 THEN 0 ELSE d[View][1]
    BY <1>3, OwnLists, Ends
  <2>2. QED
    BY <1>1, <1>4, <2>1 DEF CompilePatch
<1>7. rest' = SubSeq(t, 1, Len(t))
  <2>1. 1 \in 1..Len(d[View]) + 1
    BY <1>1, <1>4
  <2>2. From(heap', IF 1 <= Len(d[View]) THEN d[View][1] ELSE 0) = SubSeq(d[View], 1, Len(d[View]))
    BY <1>3, <2>1, OwnLists, GoingOn
  <2>3. QED
    BY <1>4, <1>6, <2>2 DEF CompilePatch, Seen
<1>8. SubSeq(t, 1, Len(t)) = t /\ SubSeq(t, 1, 1 - 1) = <<>>
  <2>1. SubSeq(t, 1, 0) = <<>>
    BY SubSeqEmpty
  <2>2. QED
    BY <1>1, <2>1, SubSeqFull
<1>9. ListInv'
  <2>1. taken' = t /\ given' = <<>> /\ 1 \in 1..Len(t) + 1
    BY <1>1 DEF CompilePatch
  <2>2. AtElement(1)'
    BY <1>6, <1>7, <1>8, <2>1 DEF AtElement
  <2>3. \E k \in 1..Len(taken') + 1 : AtElement(k)'
    BY <2>1, <2>2
  <2>4. QED
    BY <1>3, <1>4, <1>5, <2>1, <2>3 DEF ListInv
<1>10. rest = <<>>
  <2>1. PICK k \in 1..Len(taken) + 1 : AtElement(k)
    BY DEF ListInv
  <2>2. taken \in Seq(1..Len(heap.value)) /\ Len(taken) \in Nat
    BY <1>1, OwnLists, Apart DEF ListInv
  <2>3. ~(k <= Len(taken))
    <3>1. k \in 1..Len(taken) => taken[k] # 0
      BY <2>2, LenProperties
    <3>2. QED
      BY <2>1, <2>2, <3>1 DEF AtElement, CompilePatch
  <2>4. SubSeq(taken, k, Len(taken)) = <<>>
    BY <2>2, <2>3, SubSeqEmpty
  <2>5. QED
    BY <2>1, <2>4 DEF AtElement
<1>11. QED
  BY <1>3, <1>5, <1>7, <1>8, <1>9, <1>10 DEF Abstract!CompilePatch, d

LEMMA CompileOneStep ==
  ASSUME ListInv, CompileOne
  PROVE  ListInv' /\ Abstract!CompileOne
<1> DEFINE t == taken
           n == Len(t)
<1>1. Rings(heap, contents) /\ t = contents[View] /\ n \in Nat /\ t \in Seq(1..Len(heap.value)) /\ View \in Lists
  BY ValueType, OwnLists, Apart DEF ListInv
<1>2. PICK k \in 1..n + 1 : AtElement(k)
  BY DEF ListInv
<1>3. k \in 1..n /\ curr = t[k] /\ k + 1 \in 1..n + 1 /\ n \in k..n
  BY <1>1, <1>2 DEF AtElement, CompileOne
<1>4. curr' = IF k < n THEN t[k + 1] ELSE 0
  <2>1. NextOf(heap, contents[View][k]) = IF k < Len(contents[View]) THEN contents[View][k + 1] ELSE 0
    BY <1>1, <1>3, Neighbours
  <2>2. QED
    BY <1>1, <1>3, <2>1 DEF CompileOne
<1>5. curr' = IF k + 1 <= n THEN t[k + 1] ELSE 0
  BY <1>1, <1>3, <1>4
<1>6. rest' = SubSeq(t, k + 1, n)
  <2> DEFINE m == k + 1
  <2>1. m \in 1..Len(contents[View]) + 1
    BY <1>1, <1>3
  <2> HIDE DEF m
  <2>2. From(heap, IF m <= Len(contents[View]) THEN contents[View][m] ELSE 0)
        = SubSeq(contents[View], m, Len(contents[View]))
    BY <1>1, <2>1, GoingOn
  <2>3. QED
    BY <1>1, <1>5, <2>2 DEF CompileOne, m
<1>7. rest # <<>> /\ rest' = Tail(rest)
  <2>1. Tail(SubSeq(t, k, n)) = SubSeq(t, k + 1, n)
    BY <1>1, <1>3, HeadTailOfSubSeq
  <2>2. SubSeq(t, k, n) # <<>>
    <3>1. \A i \in k..n : t[i] \in 1..Len(heap.value)
      <4>1. \A i \in k..n : i \in 1..n
        BY <1>1, <1>3
      <4>2. QED
        BY <1>1, <4>1, LenProperties
    <3>2. k \in Int /\ n \in Int /\ k <= n /\ n - k + 1 # 0
      BY <1>1, <1>3
    <3> HIDE DEF t, n
    <3>3. Len(SubSeq(t, k, n)) = n - k + 1
      BY <3>1, <3>2, SubSeqProperties
    <3>4. Len(<<>>) = 0
      OBVIOUS
    <3>5. QED
      BY <3>2, <3>3, <3>4
  <2>3. QED
    BY <1>2, <1>6, <2>1, <2>2 DEF AtElement
<1>8. given' = SubSeq(t, 1, (k + 1) - 1)
  <2>1. 1 \in 1..n /\ k \in 1..n /\ t[k] \in 1..Len(heap.value) /\ (k + 1) - 1 = k
    BY <1>1, <1>3, LenProperties
  <2>2. SubSeq(t, 1, k) = SubSeq(t, 1, k - 1) \o <<t[k]>>
    BY <1>1, <2>1, SubSeqRecursiveSecond
  <2>3. SubSeq(t, 1, k - 1) \in Seq(1..Len(heap.value))
    <3>1. \A i \in 1..k - 1 : t[i] \in 1..Len(heap.value)
      BY <1>1, <1>3, LenProperties
    <3>2. 1 \in Int /\ k - 1 \in Int
      BY <1>3
    <3> HIDE DEF t
    <3>3. QED
      BY <3>1, <3>2, SubSeqProperties
  <2>4. Append(SubSeq(t, 1, k - 1), t[k]) = SubSeq(t, 1, k - 1) \o <<t[k]>>
    <3> DEFINE e == t[k]
               u == SubSeq(t, 1, k - 1)
    <3> HIDE DEF e, u
    <3>1. Append(u, e) = u \o <<e>>
      BY <2>1, <2>3, AppendIsConcat DEF e, u
    <3>2. QED
      BY <3>1 DEF e, u
  <2>5. given' = Append(SubSeq(t, 1, k - 1), t[k])
    BY <1>2, <1>3 DEF AtElement, CompileOne
  <2>6. QED
    BY <2>1, <2>2, <2>4, <2>5
<1>9. ListInv'
  <2>1. heap' = heap /\ contents' = contents /\ taken' = taken
    BY DEF CompileOne
  <2>2. AtElement(k + 1)'
    BY <1>5, <1>6, <1>8, <2>1 DEF AtElement
  <2>3. \E m \in 1..Len(taken') + 1 : AtElement(m)'
    BY <1>3, <2>1, <2>2
  <2>4. QED
    BY <1>1, <2>1, <2>3 DEF ListInv
<1>10. QED
  BY <1>7, <1>9 DEF Abstract!CompileOne, CompileOne

-----------------------------------------------------------------------------
(* The theorems                                                            *)

\* Each step keeps the invariant, and is a step on the sequences.
LEMMA ListStep ==
  ASSUME ListInv, Next
  PROVE  ListInv' /\ Abstract!Next
<1>1. /\ Programs \subseteq Lists \ {View} /\ Buffer \in Lists \ {View}
      /\ Elements = DOMAIN heap.value
  BY OwnLists DEF Elements
<1>2. ASSUME NEW p \in Patches, Patch(p) PROVE ListInv' /\ Abstract!Next
  <2>1. ListInv' /\ Abstract!PushBack(Buffer, p)
    BY <1>1, <1>2, PushBackStep DEF Patch
  <2>2. QED
    BY <2>1 DEF Abstract!Next
<1>3. ASSUME UseTx PROVE ListInv' /\ Abstract!Next
  BY <1>3, UseTxStep DEF Abstract!Next
<1>4. ASSUME CompilePatch PROVE ListInv' /\ Abstract!Next
  BY <1>4, CompilePatchStep DEF Abstract!Next
<1>5. ASSUME CompileOne PROVE ListInv' /\ Abstract!Next
  BY <1>5, CompileOneStep DEF Abstract!Next
<1>6. ASSUME NEW l \in Programs, NEW p \in Patches, PushBack(l, p) \/ PushFront(l, p)
      PROVE  ListInv' /\ Abstract!Next
  <2>1. ListInv' /\ (Abstract!PushBack(l, p) \/ Abstract!PushFront(l, p))
    BY <1>1, <1>6, PushBackStep, PushFrontStep
  <2>2. QED
    BY <2>1 DEF Abstract!Next
<1>7. ASSUME NEW l \in Programs, NEW o \in Programs, PushBackList(l, o) \/ PushFrontList(l, o)
      PROVE  ListInv' /\ Abstract!Next
  <2>1. ListInv' /\ (Abstract!PushBackList(l, o) \/ Abstract!PushFrontList(l, o))
    BY <1>7, PushBackListStep, PushFrontListStep
  <2>2. QED
    BY <2>1 DEF Abstract!Next
<1>8. ASSUME NEW l \in Programs, ListInit(l) PROVE ListInv' /\ Abstract!Next
  <2>1. ListInv' /\ Abstract!Clear(l)
    BY <1>8, ListInitStep
  <2>2. QED
    BY <2>1 DEF Abstract!Next
<1>9. ASSUME NEW l \in Programs, NEW e \in Elements, Held(e),
             RemoveElement(l, e) \/ MoveToFront(l, e) \/ MoveToBack(l, e)
      PROVE  ListInv' /\ Abstract!Next
  <2>1. ListInv' /\ (Abstract!RemoveOf(l, e) \/ Abstract!MoveToFront(l, e) \/ Abstract!MoveToBack(l, e))
    BY <1>9, RemoveStep, MoveToFrontStep, MoveToBackStep
  <2>2. QED
    BY <1>1, <2>1 DEF Abstract!Next
<1>10. ASSUME NEW l \in Programs, NEW e \in Elements, Held(e), NEW p \in Patches,
              InsertAfter(l, p, e) \/ InsertBefore(l, p, e)
       PROVE  ListInv' /\ Abstract!Next
  <2>1. ListInv' /\ \E after \in {0, 1} : Abstract!Insert(l, p, e, after)
    BY <1>10, InsertAfterStep, InsertBeforeStep
  <2>2. QED
    BY <1>1, <2>1 DEF Abstract!Next
<1>11. ASSUME NEW l \in Programs, NEW e \in Elements, Held(e), NEW mark \in Elements, Held(mark),
              MoveAfter(l, e, mark) \/ MoveBefore(l, e, mark)
       PROVE  ListInv' /\ Abstract!Next
  <2>1. ListInv' /\ \E after \in {0, 1} : Abstract!Move(l, e, mark, after)
    BY <1>11, MoveAfterStep, MoveBeforeStep
  <2>2. QED
    BY <1>1, <2>1 DEF Abstract!Next
<1>12. ASSUME NEW e \in Elements, NEW p \in Patches, SetValue(e, p) PROVE ListInv' /\ Abstract!Next
  <2>1. ListInv' /\ Abstract!SetValue(e, p)
    BY <1>12, SetValueStep
  <2>2. QED
    BY <1>1, <2>1 DEF Abstract!Next
<1>13. QED
  BY <1>2, <1>3, <1>4, <1>5, <1>6, <1>7, <1>8, <1>9, <1>10, <1>11, <1>12, Zenon DEF Next

LEMMA NextListInv ==
  ASSUME ListInv, [Next]_vars
  PROVE  ListInv' /\ [Abstract!Next]_<<contents, heap.value, rest>>
<1>1. CASE Next
  BY <1>1, ListStep
<1>2. CASE UNCHANGED vars
  BY <1>2 DEF vars, ListInv, AtElement
<1>3. QED
  BY <1>1, <1>2

\* What has been compiled is the beginning of what was taken; at the end, all of it.
LEMMA GivenIsTaken == ListInv => CompilesWhatWasBuffered
<1> SUFFICES ASSUME ListInv PROVE CompilesWhatWasBuffered
  OBVIOUS
<1> DEFINE n == Len(taken)
<1>1. PICK k \in 1..n + 1 : AtElement(k)
  BY DEF ListInv
<1>2. taken \in Seq(1..Len(heap.value)) /\ n \in Nat
  BY ValueType, OwnLists, Apart DEF ListInv
<1>3. \A i \in 1..n : taken[i] \in 1..Len(heap.value)
  BY <1>2, LenProperties
<1>4. /\ Len(SubSeq(taken, 1, k - 1)) = k - 1
      /\ \A i \in 1..k - 1 : SubSeq(taken, 1, k - 1)[i] = taken[i]
  <2> DEFINE j == k - 1
             t == taken
  <2>1. 1 \in Int /\ j \in Int /\ (\A i \in 1..j : t[i] \in 1..Len(heap.value)) /\ j \in Nat
    BY <1>2, <1>3
  <2> HIDE DEF j, t
  <2>2. /\ Len(SubSeq(t, 1, j)) = IF 1 <= j THEN j - 1 + 1 ELSE 0
        /\ \A i \in 1..j - 1 + 1 : SubSeq(t, 1, j)[i] = t[1 + i - 1]
    BY <2>1, SubSeqProperties
  <2>3. Len(SubSeq(t, 1, j)) = j /\ \A i \in 1..j : SubSeq(t, 1, j)[i] = t[i]
    BY <2>1, <2>2
  <2>4. QED
    BY <2>3 DEF j, t
<1>5. k - 1 \in Nat /\ k - 1 <= n
  BY <1>2
<1>6. Len(given) = k - 1 /\ \A i \in 1..k - 1 : given[i] = taken[i]
  BY <1>1, <1>4 DEF AtElement
<1>7. IsPrefix(given, taken)
  BY <1>5, <1>6 DEF IsPrefix
<1>8. curr = 0 => given = taken
  <2> SUFFICES ASSUME curr = 0 PROVE given = taken
    OBVIOUS
  <2>1. k = n + 1
    BY <1>1, <1>2, <1>3 DEF AtElement
  <2>2. given = SubSeq(taken, 1, n)
    BY <1>1, <1>2, <2>1 DEF AtElement
  <2>3. QED
    BY <1>2, <2>2, SubSeqFull
<1>9. QED
  BY <1>7, <1>8 DEF CompilesWhatWasBuffered

\* Whatever patches, and whatever a program does with lists of its own meanwhile,
\* the compiler comes to each patch that was in the buffer when CompilePatch was
\* called, in order, and to no other: the list it was given is a head whose elements
\* link to the buffer's, and the buffer may have a new ring through none of them
\* (db_ctx.go:195-196).
THEOREM CompilesTheBuffer == Spec => []CompilesWhatWasBuffered
<1>1. Init => ListInv
  BY InitListInv
<1>2. ListInv /\ [Next]_vars => ListInv'
  BY NextListInv
<1>3. QED
  BY <1>1, <1>2, GivenIsTaken, PTL DEF Spec

\* Every operation of PatchList on rings of linked nodes is the operation of its name on
\* sequences, however many elements there are and wherever they have been before.
THEOREM RingsAreSequences == Spec => ListsAreSequences
<1>1. Init => ListInv /\ Abstract!Init
  BY InitListInv
<1>2. ListInv /\ [Next]_vars => ListInv' /\ [Abstract!Next]_<<contents, heap.value, rest>>
  BY NextListInv
<1>3. QED
  BY <1>1, <1>2, PTL DEF Spec, ListsAreSequences, Abstract!Spec

=============================================================================
