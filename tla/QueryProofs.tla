---------------------------- MODULE QueryProofs -----------------------------
(* Theorems about QueryBuilder, for every table, every set of loaders and   *)
(* any number of builders.                                                  *)
EXTENDS QueryBuilder, SequenceTheorems, FiniteSetTheorems, TLAPS

Slots == Loaders \cup {NoLoader}

Builder ==
  [array : Nat, len : Nat, conds : SUBSET Conditions, orders : Seq(OrderKeys),
   limit : Nat \cup {NoLimit}, offset : Nat \cup {NoOffset}, origin : Nat, asked : Seq(Loaders)]

(* The slice of b lies in its array, and only nil was made by no Include. *)
SliceOf(b) ==
  /\ b.array \in 0..Len(arrays)
  /\ Len(b.asked) = b.len
  /\ b.array = 0 => b.len = 0 /\ b.origin = 0
  /\ b.array > 0 =>
       /\ b.origin > 0
       /\ b.len \in 1..Len(arrays[b.array])
       /\ \A k \in 1..b.len : arrays[b.array][k] \in Loaders

Faithful(b) == \A k \in 1..b.len : arrays[b.array][k] = b.asked[k]

(* Two slices of one array: the shorter was extended, and slices as long as *)
(* each other come from one call of Include.                                *)
Nested(b, c) ==
  b.array = c.array /\ b.array > 0 =>
    /\ b.len = c.len => b.origin = c.origin
    /\ b.len < c.len => b.origin \in extended

QType ==
  /\ plan \in Plans
  /\ arrays \in Seq(Seq(Slots))
  /\ builders \in Seq(Builder)
  /\ extended \in SUBSET Nat
  /\ \A o \in extended : o <= Len(builders)
  /\ forked \in BOOLEAN
  /\ \A i \in DOMAIN builders : builders[i].origin <= Len(builders)

Slices == \A i \in DOMAIN builders : SliceOf(builders[i])

Unforked ==
  ~forked => \A i \in DOMAIN builders :
               /\ Faithful(builders[i])
               /\ \A j \in DOMAIN builders : Nested(builders[i], builders[j])

QInv == QType /\ Slices /\ Unforked

-----------------------------------------------------------------------------
LEMMA InitInv == Init => QInv
<1> SUFFICES ASSUME Init PROVE QInv
  OBVIOUS
<1>1. Selected \in Builder /\ Selected.origin = 0
  BY DEF Selected, Builder
<1>2. QType
  <2>1. builders \in Seq(Builder) /\ Len(builders) = 1 /\ builders[1] = Selected
    BY <1>1 DEF Init
  <2>2. arrays \in Seq(Seq(Slots))
    BY DEF Init
  <2>3. \A i \in DOMAIN builders : builders[i].origin <= Len(builders)
    BY <1>1, <2>1
  <2>4. plan \in Plans /\ extended = {} /\ forked = FALSE
    BY DEF Init
  <2>5. QED
    BY <2>1, <2>2, <2>3, <2>4 DEF QType
<1>3. Slices /\ Unforked
  BY DEF Init, Slices, Unforked, SliceOf, Faithful, Nested, Selected
<1>4. QED
  BY <1>2, <1>3 DEF QInv

(* A builder derived without Include has the slice of the one it comes from. *)
LEMMA DeriveKeeps ==
  ASSUME QInv, NEW i \in DOMAIN builders, NEW d \in Builder, Derive(d),
         d.array = builders[i].array, d.len = builders[i].len,
         d.origin = builders[i].origin, d.asked = builders[i].asked
  PROVE  QInv'
<1> USE DEF QInv
<1> DEFINE n == Len(builders)
<1>1. /\ builders' = Append(builders, d) /\ builders' \in Seq(Builder)
      /\ DOMAIN builders' = 1..(n + 1) /\ DOMAIN builders = 1..n
      /\ Len(builders') = n + 1 /\ n \in Nat
      /\ builders'[n + 1] = d /\ \A j \in 1..n : builders'[j] = builders[j]
  BY DEF Derive, QType
<1>2. UNCHANGED <<plan, arrays, extended, forked>>
  BY DEF Derive
<1>3. builders[i] \in Builder
  BY DEF QType
<1>4. QType'
  <2>1. \A j \in 1..(n + 1) : builders'[j].origin <= n + 1
    <3>1. \A j \in 1..n : builders[j] \in Builder /\ builders[j].origin <= n
      BY <1>1 DEF QType
    <3>2. \A j \in 1..n : builders[j].origin <= n + 1
      BY <3>1, <1>1 DEF Builder
    <3>3. d.origin <= n + 1
      BY <3>2, <1>1
    <3>4. QED
      BY <3>2, <3>3, <1>1
  <2>2. \A o \in extended : o <= n + 1
    BY <1>1 DEF QType
  <2>3. QED
    BY <1>1, <1>2, <2>1, <2>2 DEF QType
<1>5. Slices'
  <2>1. SliceOf(d)'
    BY <1>2 DEF Slices, SliceOf
  <2>2. \A j \in 1..n : SliceOf(builders[j])'
    BY <1>1, <1>2 DEF Slices, SliceOf
  <2>3. QED
    BY <1>1, <2>1, <2>2, SMTT(20) DEF Slices, SliceOf
<1>6. Unforked'
  <2> SUFFICES ASSUME ~forked
               PROVE  \A j \in 1..(n + 1) :
                        /\ Faithful(builders[j])'
                        /\ \A k \in 1..(n + 1) : Nested(builders[j], builders[k])'
    <3>1. UNCHANGED forked /\ DOMAIN builders' = 1..(n + 1)
      BY <1>1, <1>2
    <3>2. QED
      BY <3>1 DEF Unforked
  <2>1. \A j \in 1..(n + 1) : \E k \in 1..n :
          /\ builders'[j].array = builders[k].array
          /\ builders'[j].len = builders[k].len
          /\ builders'[j].origin = builders[k].origin
          /\ builders'[j].asked = builders[k].asked
    BY <1>1
  <2>2. TAKE j \in 1..(n + 1)
  <2>3. PICK g \in 1..n :
          /\ builders'[j].array = builders[g].array
          /\ builders'[j].len = builders[g].len
          /\ builders'[j].origin = builders[g].origin
          /\ builders'[j].asked = builders[g].asked
    BY <2>1
  <2>4. Faithful(builders[g]) /\ \A k \in 1..n : Nested(builders[g], builders[k])
    BY <1>1 DEF Unforked
  <2>5. Faithful(builders[j])'
    BY <2>3, <2>4, <1>2 DEF Faithful
  <2>6. ASSUME NEW k \in 1..(n + 1) PROVE Nested(builders[j], builders[k])'
    <3>1. PICK h \in 1..n :
            /\ builders'[k].array = builders[h].array
            /\ builders'[k].len = builders[h].len
            /\ builders'[k].origin = builders[h].origin
      BY <2>1
    <3>2. QED
      BY <2>3, <2>4, <3>1, <1>2 DEF Nested
  <2>7. QED
    BY <2>5, <2>6
<1>7. QED
  BY <1>4, <1>5, <1>6

-----------------------------------------------------------------------------
LEMMA WriteAtType ==
  ASSUME NEW slots \in Seq(Slots), NEW n \in Nat, NEW ls \in Seq(Loaders)
  PROVE  /\ WriteAt(slots, n, ls) \in Seq(Slots)
         /\ Len(WriteAt(slots, n, ls)) = Len(slots)
         /\ \A k \in 1..Len(slots) :
              WriteAt(slots, n, ls)[k] =
                IF k > n /\ k <= n + Len(ls) THEN ls[k - n] ELSE slots[k]
<1>1. Len(slots) \in Nat /\ Len(ls) \in Nat
  OBVIOUS
<1>2. \A k \in 1..Len(slots) :
        (IF k > n /\ k <= n + Len(ls) THEN ls[k - n] ELSE slots[k]) \in Slots
  BY <1>1 DEF Slots
<1>3. QED
  BY <1>1, <1>2 DEF WriteAt

(* What Include knows of the builder it is called on. *)
LEMMA HeldType ==
  ASSUME QType, NEW b \in Builder, SliceOf(b)
  PROVE  /\ LoadersOf(b) \in Seq(Loaders)
         /\ Len(LoadersOf(b)) = b.len
         /\ \A k \in 1..b.len : LoadersOf(b)[k] = arrays[b.array][k]
<1>1. CASE b.array = 0
  BY <1>1 DEF LoadersOf, SliceOf
<1>2. CASE b.array > 0
  <2>1. \A k \in 1..b.len : arrays[b.array][k] \in Loaders
    BY <1>2 DEF SliceOf
  <2>2. b.len \in Nat
    BY DEF Builder
  <2>3. /\ Held(b) \in Seq(Loaders)
        /\ Len(Held(b)) = b.len
        /\ \A k \in 1..b.len : Held(b)[k] = arrays[b.array][k]
    BY <2>1, <2>2, SubSeqProperties DEF Held
  <2>4. QED
    BY <1>2, <2>3 DEF LoadersOf
<1>3. QED
  BY <1>1, <1>2 DEF Builder

LEMMA CapacityType ==
  ASSUME QType, NEW b \in Builder, SliceOf(b)
  PROVE  Capacity(b) \in Nat /\ b.len <= Capacity(b)
<1>1. CASE b.array = 0
  BY <1>1 DEF Capacity, SliceOf
<1>2. CASE b.array > 0
  <2>1. arrays[b.array] \in Seq(Slots)
    BY <1>2 DEF QType, SliceOf
  <2>2. QED
    BY <1>2, <2>1 DEF Capacity, SliceOf
<1>3. QED
  BY <1>1, <1>2 DEF Builder

LEMMA GrownType ==
  ASSUME QType, NEW b \in Builder, SliceOf(b), NEW ls \in Seq(Loaders)
  PROVE  /\ Grown(b, ls) \in Seq(Slots)
         /\ Len(Grown(b, ls)) \in Nat
         /\ b.len + Len(ls) <= Len(Grown(b, ls)) \/ FitsIn(b, ls)
         /\ \A k \in 1..Len(Grown(b, ls)) :
              Grown(b, ls)[k] = IF k <= b.len THEN LoadersOf(b)[k]
                                ELSE IF k <= b.len + Len(ls) THEN ls[k - b.len]
                                ELSE NoLoader
<1> DEFINE cap == GrownCap(Capacity(b), b.len + Len(ls))
<1>1. Capacity(b) \in Nat /\ b.len \in Nat /\ Len(ls) \in Nat
  BY CapacityType DEF Builder
<1>2. cap \in Nat /\ (b.len + Len(ls) <= cap \/ FitsIn(b, ls))
  BY <1>1 DEF GrownCap, FitsIn
<1>3. /\ LoadersOf(b) \in Seq(Loaders) /\ Len(LoadersOf(b)) = b.len
  BY HeldType
<1>4. \A k \in 1..cap :
        (IF k <= b.len THEN LoadersOf(b)[k]
         ELSE IF k <= b.len + Len(ls) THEN ls[k - b.len] ELSE NoLoader) \in Slots
  BY <1>1, <1>3 DEF Slots
<1> HIDE DEF cap
<1>5. Grown(b, ls) =
        [k \in 1..cap |-> IF k <= b.len THEN LoadersOf(b)[k]
                          ELSE IF k <= b.len + Len(ls) THEN ls[k - b.len] ELSE NoLoader]
  BY DEF Grown, cap
<1>6. QED
  BY <1>2, <1>4, <1>5

(* What is common to both ways of appending: the new builder comes last.    *)
LEMMA IncludeType ==
  ASSUME QInv, NEW i \in DOMAIN builders, NEW ls \in Seq(Loaders), ls # <<>>,
         NEW new \in Builder, builders' = Append(builders, new),
         new.origin = Len(builders) + 1,
         arrays' \in Seq(Seq(Slots)), Include(builders[i], ls)
  PROVE  /\ QType'
         /\ DOMAIN builders' = 1..(Len(builders) + 1)
         /\ DOMAIN builders = 1..Len(builders)
         /\ \A j \in 1..Len(builders) : builders'[j] = builders[j]
         /\ builders'[Len(builders) + 1] = new
<1> USE DEF QInv
<1> DEFINE n == Len(builders)
<1>1. /\ builders' \in Seq(Builder) /\ n \in Nat
      /\ DOMAIN builders' = 1..(n + 1) /\ DOMAIN builders = 1..n
      /\ Len(builders') = n + 1
      /\ builders'[n + 1] = new /\ \A j \in 1..n : builders'[j] = builders[j]
  BY DEF QType
<1>2. \A j \in 1..n : builders[j] \in Builder /\ builders[j].origin <= n
  BY <1>1 DEF QType
<1>3. \A j \in 1..n : builders[j].origin \in Nat
  BY <1>2 DEF Builder
<1>4. \A j \in 1..(n + 1) : builders'[j].origin <= n + 1
  <2>1. \A j \in 1..n : builders'[j].origin <= n + 1
    BY <1>1, <1>2, <1>3
  <2>2. QED
    BY <1>1, <2>1
<1>5. extended' = extended \cup {builders[i].origin} /\ UNCHANGED plan
  BY DEF Include
<1>6. extended' \in SUBSET Nat /\ \A o \in extended' : o <= n + 1
  <2>1. /\ i \in 1..n /\ builders[i].origin \in Nat /\ builders[i].origin <= n + 1
    BY <1>1, <1>2, <1>3
  <2>2. extended \in SUBSET Nat /\ \A o \in extended : o <= n + 1
    BY <1>1 DEF QType
  <2>3. QED
    BY <2>1, <2>2, <1>5
<1>7. forked' \in BOOLEAN
  BY DEF Include
<1>8. QType'
  BY <1>1, <1>4, <1>5, <1>6, <1>7 DEF QType
<1>9. QED
  BY <1>1, <1>8

(* The arrays after an append in place. *)
InPlace(A, a, m, ls) == [A EXCEPT ![a] = WriteAt(A[a], m, ls)]

LEMMA InPlaceArrays ==
  ASSUME NEW A \in Seq(Seq(Slots)), NEW a \in 1..Len(A), NEW m \in Nat,
         NEW ls \in Seq(Loaders), m + Len(ls) <= Len(A[a])
  PROVE  /\ InPlace(A, a, m, ls) \in Seq(Seq(Slots)) /\ Len(InPlace(A, a, m, ls)) = Len(A)
         /\ Len(InPlace(A, a, m, ls)[a]) = Len(A[a])
         /\ \A k \in 1..m : InPlace(A, a, m, ls)[a][k] = A[a][k]
         /\ \A k \in (m + 1)..(m + Len(ls)) :
              InPlace(A, a, m, ls)[a][k] = ls[k - m] /\ InPlace(A, a, m, ls)[a][k] \in Loaders
         /\ \A k \in 1..Len(A[a]) :
              A[a][k] \in Loaders => InPlace(A, a, m, ls)[a][k] \in Loaders
         /\ \A c \in 1..Len(A) : c # a => InPlace(A, a, m, ls)[c] = A[c]
<1> DEFINE w == WriteAt(A[a], m, ls)
           B == InPlace(A, a, m, ls)
<1>1. A[a] \in Seq(Slots) /\ Len(A[a]) \in Nat /\ Len(ls) \in Nat
  OBVIOUS
<1>2. /\ w \in Seq(Slots) /\ Len(w) = Len(A[a])
      /\ \A k \in 1..Len(A[a]) :
           w[k] = IF k > m /\ k <= m + Len(ls) THEN ls[k - m] ELSE A[a][k]
  BY <1>1, WriteAtType
<1> HIDE DEF w
<1>3. B = [A EXCEPT ![a] = w]
  BY DEF w, InPlace
<1> HIDE DEF B
<1>4. /\ B \in Seq(Seq(Slots)) /\ Len(B) = Len(A)
      /\ \A c \in 1..Len(A) : B[c] = IF c = a THEN w ELSE A[c]
  BY <1>2, <1>3, ExceptSeq
<1>5. B[a] = w
  BY <1>4
<1>6. \A k \in 1..m : B[a][k] = A[a][k]
  <2>1. \A k \in 1..m : k \in 1..Len(A[a]) /\ ~(k > m)
    BY <1>1
  <2>2. QED
    BY <2>1, <1>2, <1>5
<1>7. \A k \in (m + 1)..(m + Len(ls)) : k \in 1..Len(A[a]) /\ k - m \in 1..Len(ls)
  BY <1>1
<1>8. \A k \in 1..Len(ls) : ls[k] \in Loaders
  OBVIOUS
<1>9. \A k \in (m + 1)..(m + Len(ls)) : B[a][k] = ls[k - m]
  BY <1>1, <1>2, <1>5, <1>7
<1>10. \A k \in (m + 1)..(m + Len(ls)) : B[a][k] \in Loaders
  BY <1>7, <1>8, <1>9
<1>11. ASSUME NEW k \in 1..Len(A[a]), A[a][k] \in Loaders PROVE B[a][k] \in Loaders
  <2>1. CASE k > m /\ k <= m + Len(ls)
    BY <2>1, <1>1, <1>10
  <2>2. CASE ~(k > m /\ k <= m + Len(ls))
    BY <2>2, <1>2, <1>5, <1>11
  <2>3. QED
    BY <2>1, <2>2
<1>12. QED
  BY <1>2, <1>4, <1>5, <1>6, <1>9, <1>10, <1>11 DEF B

LEMMA NewBuilder ==
  ASSUME NEW b \in Builder, NEW x \in Nat, NEW l \in Nat, NEW o \in Nat, NEW q \in Seq(Loaders)
  PROVE  /\ [b EXCEPT !.array = x, !.len = l, !.origin = o, !.asked = q] \in Builder
         /\ [b EXCEPT !.len = l, !.origin = o, !.asked = q] \in Builder
  BY DEF Builder

(* What the new builder asked for. *)
LEMMA AskedMore ==
  ASSUME NEW b \in Builder, Len(b.asked) = b.len, NEW ls \in Seq(Loaders), ls # <<>>
  PROVE  /\ b.len \in Nat /\ Len(ls) \in Nat \ {0}
         /\ b.asked \o ls \in Seq(Loaders)
         /\ Len(b.asked \o ls) = b.len + Len(ls)
         /\ \A k \in 1..b.len : (b.asked \o ls)[k] = b.asked[k]
         /\ \A k \in (b.len + 1)..(b.len + Len(ls)) : (b.asked \o ls)[k] = ls[k - b.len]
<1>1. b.asked \in Seq(Loaders) /\ b.len \in Nat
  BY DEF Builder
<1>2. Len(ls) \in Nat \ {0}
  BY EmptySeq
<1>3. QED
  BY <1>1, <1>2, ConcatProperties

LEMMA InPlaceKeeps ==
  ASSUME QInv, NEW i \in DOMAIN builders, NEW ls \in Seq(Loaders), ls # <<>>,
         Include(builders[i], ls), FitsIn(builders[i], ls)
  PROVE  QInv'
<1> USE DEF QInv
<1> DEFINE n == Len(builders)
           b == builders[i]
           a == b.array
           new == [b EXCEPT !.len = @ + Len(ls), !.origin = n + 1, !.asked = @ \o ls]
<1>1. i \in 1..n /\ b \in Builder /\ SliceOf(b) /\ n \in Nat
  BY DEF QType, Slices
<1>2. /\ b.len \in Nat /\ Len(ls) \in Nat \ {0} /\ Len(b.asked) = b.len
      /\ a \in Nat /\ b.origin \in Nat
  BY <1>1, EmptySeq DEF SliceOf, Builder
<1>3. a > 0
  BY <1>1, <1>2 DEF FitsIn, Capacity
<1>4. /\ a \in 1..Len(arrays) /\ b.origin > 0 /\ b.len > 0
      /\ \A k \in 1..b.len : arrays[a][k] \in Loaders
  BY <1>1, <1>3 DEF SliceOf
<1>5. /\ arrays \in Seq(Seq(Slots)) /\ b.len + Len(ls) <= Len(arrays[a])
      /\ Len(arrays[a]) \in Nat
  BY <1>3, <1>4 DEF QType, FitsIn, Capacity
<1>6. /\ arrays' = [arrays EXCEPT ![a] = WriteAt(arrays[a], b.len, ls)]
      /\ builders' = Append(builders, new)
  BY DEF Include, AppendInPlace
<1>w. /\ arrays' \in Seq(Seq(Slots)) /\ Len(arrays') = Len(arrays)
      /\ Len(arrays'[a]) = Len(arrays[a])
      /\ \A k \in 1..b.len : arrays'[a][k] = arrays[a][k]
      /\ \A k \in (b.len + 1)..(b.len + Len(ls)) :
           arrays'[a][k] = ls[k - b.len] /\ arrays'[a][k] \in Loaders
      /\ \A k \in 1..Len(arrays[a]) : arrays[a][k] \in Loaders => arrays'[a][k] \in Loaders
      /\ \A c \in 1..Len(arrays) : c # a => arrays'[c] = arrays[c]
  <2>1. arrays' = InPlace(arrays, a, b.len, ls)
    BY <1>6 DEF InPlace
  <2> DEFINE m == b.len
  <2>2. a \in 1..Len(arrays) /\ m \in Nat /\ arrays \in Seq(Seq(Slots)) /\ m + Len(ls) <= Len(arrays[a])
    BY <1>2, <1>4, <1>5
  <2> HIDE DEF a, m
  <2>3. /\ InPlace(arrays, a, m, ls) \in Seq(Seq(Slots))
        /\ Len(InPlace(arrays, a, m, ls)) = Len(arrays)
        /\ Len(InPlace(arrays, a, m, ls)[a]) = Len(arrays[a])
        /\ \A k \in 1..m : InPlace(arrays, a, m, ls)[a][k] = arrays[a][k]
        /\ \A k \in (m + 1)..(m + Len(ls)) :
             InPlace(arrays, a, m, ls)[a][k] = ls[k - m] /\ InPlace(arrays, a, m, ls)[a][k] \in Loaders
        /\ \A k \in 1..Len(arrays[a]) :
             arrays[a][k] \in Loaders => InPlace(arrays, a, m, ls)[a][k] \in Loaders
        /\ \A c \in 1..Len(arrays) : c # a => InPlace(arrays, a, m, ls)[c] = arrays[c]
    BY <2>2, InPlaceArrays
  <2>4. QED
    BY <2>1, <2>3 DEF m, a
<1>7. /\ b.asked \o ls \in Seq(Loaders) /\ Len(b.asked \o ls) = b.len + Len(ls)
      /\ \A k \in 1..b.len : (b.asked \o ls)[k] = b.asked[k]
      /\ \A k \in (b.len + 1)..(b.len + Len(ls)) : (b.asked \o ls)[k] = ls[k - b.len]
  BY <1>1, <1>2, AskedMore
<1>8. /\ new \in Builder /\ new.array = a /\ new.len = b.len + Len(ls)
      /\ new.origin = n + 1 /\ new.asked = b.asked \o ls
  <2>1. b.len + Len(ls) \in Nat /\ n + 1 \in Nat
    BY <1>1, <1>2
  <2>2. new = [b EXCEPT !.len = b.len + Len(ls), !.origin = n + 1, !.asked = b.asked \o ls]
    BY <1>1 DEF Builder
  <2>3. new \in Builder
    BY <1>1, <1>7, <2>1, <2>2, NewBuilder
  <2>4. QED
    BY <1>1, <2>2, <2>3 DEF Builder
<1> HIDE DEF new
<1>9. /\ QType' /\ DOMAIN builders' = 1..(n + 1) /\ DOMAIN builders = 1..n
      /\ \A j \in 1..n : builders'[j] = builders[j]
      /\ builders'[n + 1] = new
  BY <1>w, <1>6, <1>8, IncludeType
<1>10. \A j \in 1..n : /\ builders[j] \in Builder /\ SliceOf(builders[j])
                       /\ builders[j].array \in Nat /\ builders[j].len \in Nat
  <2>1. \A j \in 1..n : builders[j] \in Builder /\ SliceOf(builders[j])
    BY <1>9 DEF QType, Slices
  <2>2. QED
    BY <2>1 DEF Builder
<1>11. Slices'
  <2>1. ASSUME NEW j \in 1..n PROVE SliceOf(builders[j])'
    <3>1. CASE builders[j].array # a
      <4>1. builders[j].array > 0 => arrays'[builders[j].array] = arrays[builders[j].array]
        BY <3>1, <1>w, <1>10 DEF SliceOf
      <4>2. QED
        BY <4>1, <1>w, <1>9, <1>10 DEF SliceOf
    <3>2. CASE builders[j].array = a
      <4>1. builders[j].len \in 1..Len(arrays[a])
        BY <3>2, <1>3, <1>10 DEF SliceOf
      <4>2. \A k \in 1..builders[j].len : k \in 1..Len(arrays[a])
        BY <4>1, <1>5
      <4>3. \A k \in 1..builders[j].len : arrays'[a][k] \in Loaders
        BY <4>2, <3>2, <1>3, <1>w, <1>10 DEF SliceOf
      <4>4. QED
        BY <4>1, <4>3, <3>2, <1>w, <1>9, <1>10 DEF SliceOf
    <3>3. QED
      BY <3>1, <3>2
  <2>2. ASSUME NEW j \in 1..(n + 1), j = n + 1 PROVE SliceOf(builders[j])'
    <3>1. \A k \in 1..(b.len + Len(ls)) : arrays'[a][k] \in Loaders
      <4>1. \A k \in 1..b.len : arrays'[a][k] \in Loaders
        BY <1>w, <1>4
      <4>2. \A k \in 1..(b.len + Len(ls)) : k \in 1..b.len \/ k \in (b.len + 1)..(b.len + Len(ls))
        BY <1>2
      <4>3. QED
        BY <4>1, <4>2, <1>w
    <3>2. builders'[j] = new
      BY <2>2, <1>9
    <3>3. /\ a \in 0..Len(arrays') /\ a > 0
          /\ b.len + Len(ls) \in 1..Len(arrays'[a])
          /\ n + 1 > 0
      BY <1>1, <1>2, <1>3, <1>4, <1>5, <1>w, SMTT(20)
    <3>4. Len(new.asked) = new.len
      BY <1>7, <1>8
    <3>5. QED
      BY <3>1, <3>2, <3>3, <3>4, <1>8 DEF SliceOf
  <2>3. ASSUME NEW j \in 1..(n + 1) PROVE SliceOf(builders[j])'
    BY <2>1, <2>2, <1>1
  <2>4. QED
    BY <2>3, <1>9 DEF Slices
<1>12. Unforked'
  <2> SUFFICES ASSUME ~forked'
               PROVE  \A j \in 1..(n + 1) :
                        /\ Faithful(builders[j])'
                        /\ \A k \in 1..(n + 1) : Nested(builders[j], builders[k])'
    BY <1>9 DEF Unforked
  <2>1. ~forked /\ b.origin \notin extended
    BY <1>4 DEF Include
  <2>2. \A j \in 1..n : /\ Faithful(builders[j])
                        /\ \A k \in 1..n : Nested(builders[j], builders[k])
    BY <2>1, <1>9 DEF Unforked
  <2>3. i \in 1..n /\ extended' = extended \cup {b.origin}
    BY <1>9 DEF Include
  <2>4. ASSUME NEW j \in 1..n, builders[j].array = a
        PROVE  builders[j].len <= b.len /\ builders[j].origin \in extended'
    <3>1. Nested(b, builders[j]) /\ Nested(builders[j], b)
      BY <2>2, <2>3
    <3>2. QED
      BY <3>1, <2>1, <2>3, <2>4, <1>1, <1>2, <1>3, <1>10 DEF Nested
  <2>5. ASSUME NEW j \in 1..n PROVE Faithful(builders[j])'
    <3>1. CASE builders[j].array = a
      <4>1. builders[j].len <= b.len
        BY <2>4, <3>1
      <4>2. ASSUME NEW k \in 1..builders[j].len PROVE arrays'[a][k] = arrays[a][k]
        <5>1. builders[j].len \in Nat
          BY <1>10
        <5>2. k \in 1..b.len
          BY <4>1, <5>1, <1>2
        <5>3. \A x \in 1..b.len : arrays'[a][x] = arrays[a][x]
          BY <1>w
        <5>4. QED
          BY <5>2, <5>3
      <4>3. QED
        BY <4>2, <3>1, <2>2, <1>9 DEF Faithful
    <3>2. CASE builders[j].array # a
      <4>1. builders[j].array \in 0..Len(arrays) /\ (builders[j].array = 0 => builders[j].len = 0)
        BY <1>10 DEF SliceOf
      <4>2. ASSUME NEW k \in 1..builders[j].len
            PROVE  arrays'[builders[j].array][k] = arrays[builders[j].array][k]
        BY <4>1, <3>2, <1>w, <1>10, SMTT(20)
      <4>3. QED
        BY <4>2, <2>2, <1>9 DEF Faithful
    <3>3. QED
      BY <3>1, <3>2
  <2>6. ASSUME NEW j \in 1..(n + 1), j = n + 1 PROVE Faithful(builders[j])'
    <3>1. ASSUME NEW k \in 1..(b.len + Len(ls)) PROVE arrays'[a][k] = (b.asked \o ls)[k]
      <4>1. CASE k <= b.len
        <5>1. arrays[a][k] = b.asked[k]
          BY <4>1, <2>2, <2>3, <1>2, SMTT(20) DEF Faithful
        <5>2. QED
          BY <4>1, <5>1, <1>2, <1>w, <1>7
      <4>2. CASE k > b.len
        <5>1. k \in (b.len + 1)..(b.len + Len(ls))
          BY <4>2, <1>2
        <5>2. QED
          BY <5>1, <1>w, <1>7
      <4>3. QED
        BY <4>1, <4>2, <1>2
    <3>2. QED
      BY <3>1, <2>6, <1>8, <1>9 DEF Faithful
  <2>7. ASSUME NEW j \in 1..(n + 1), NEW k \in 1..(n + 1)
        PROVE  Nested(builders[j], builders[k])'
    <3>1. CASE j \in 1..n /\ k \in 1..n
      BY <3>1, <2>2, <2>3, <1>9 DEF Nested
    <3>2. CASE j \in 1..n /\ k = n + 1
      BY <3>2, <2>4, <1>2, <1>8, <1>9, <1>10 DEF Nested
    <3>3. CASE j = n + 1 /\ k \in 1..n
      BY <3>3, <2>4, <1>2, <1>8, <1>9, <1>10, SMTT(20) DEF Nested
    <3>4. CASE j = n + 1 /\ k = n + 1
      BY <3>4, <1>2, <1>8, <1>9 DEF Nested
    <3>5. QED
      BY <3>1, <3>2, <3>3, <3>4, <1>1
  <2>8. ASSUME NEW j \in 1..(n + 1) PROVE Faithful(builders[j])'
    BY <2>5, <2>6, <1>1
  <2>9. QED
    BY <2>7, <2>8
<1>13. QED
  BY <1>9, <1>11, <1>12

LEMMA GrowingKeeps ==
  ASSUME QInv, NEW i \in DOMAIN builders, NEW ls \in Seq(Loaders), ls # <<>>,
         Include(builders[i], ls), ~FitsIn(builders[i], ls)
  PROVE  QInv'
<1> USE DEF QInv
<1> DEFINE n == Len(builders)
           z == Len(arrays) + 1
           b == builders[i]
           g == Grown(b, ls)
           new == [b EXCEPT !.array = z, !.len = @ + Len(ls),
                            !.origin = n + 1, !.asked = @ \o ls]
<1>1. i \in 1..n /\ b \in Builder /\ SliceOf(b) /\ n \in Nat
  BY DEF QType, Slices
<1>2. /\ b.len \in Nat /\ Len(ls) \in Nat \ {0} /\ Len(b.asked) = b.len
      /\ b.array \in Nat /\ b.origin \in Nat
  BY <1>1, EmptySeq DEF SliceOf, Builder
<1>3. /\ g \in Seq(Slots) /\ Len(g) \in Nat /\ b.len + Len(ls) <= Len(g)
      /\ \A k \in 1..Len(g) :
           g[k] = IF k <= b.len THEN LoadersOf(b)[k]
                  ELSE IF k <= b.len + Len(ls) THEN ls[k - b.len] ELSE NoLoader
  BY <1>1, GrownType
<1>4. /\ LoadersOf(b) \in Seq(Loaders) /\ Len(LoadersOf(b)) = b.len
      /\ \A k \in 1..b.len : LoadersOf(b)[k] = arrays[b.array][k]
  BY <1>1, HeldType
<1>5. /\ \A k \in 1..b.len : g[k] = arrays[b.array][k] /\ g[k] \in Loaders
      /\ \A k \in (b.len + 1)..(b.len + Len(ls)) : g[k] = ls[k - b.len] /\ g[k] \in Loaders
  <2>1. ASSUME NEW k \in 1..b.len PROVE g[k] = arrays[b.array][k] /\ g[k] \in Loaders
    <3>1. k \in 1..Len(g) /\ LoadersOf(b)[k] \in Loaders
      BY <1>2, <1>3, <1>4
    <3>2. QED
      BY <3>1, <1>2, <1>3, <1>4, SMTT(20)
  <2>2. ASSUME NEW k \in (b.len + 1)..(b.len + Len(ls))
        PROVE  g[k] = ls[k - b.len] /\ g[k] \in Loaders
    <3>1. k \in 1..Len(g) /\ k - b.len \in 1..Len(ls) /\ ~(k <= b.len)
      BY <1>2, <1>3, SMTT(20)
    <3>2. QED
      BY <3>1, <1>2, <1>3
  <2>3. QED
    BY <2>1, <2>2
<1> HIDE DEF g
<1>6. /\ arrays' = Append(arrays, g) /\ builders' = Append(builders, new)
  BY DEF Include, AppendGrowing, g
<1>w. /\ arrays' \in Seq(Seq(Slots)) /\ Len(arrays') = z /\ Len(arrays) \in Nat
      /\ arrays'[z] = g /\ \A c \in 1..Len(arrays) : arrays'[c] = arrays[c]
  BY <1>3, <1>6 DEF QType
<1>7. /\ b.asked \o ls \in Seq(Loaders) /\ Len(b.asked \o ls) = b.len + Len(ls)
      /\ \A k \in 1..b.len : (b.asked \o ls)[k] = b.asked[k]
      /\ \A k \in (b.len + 1)..(b.len + Len(ls)) : (b.asked \o ls)[k] = ls[k - b.len]
  BY <1>1, <1>2, AskedMore
<1>8. /\ new \in Builder /\ new.array = z /\ new.len = b.len + Len(ls)
      /\ new.origin = n + 1 /\ new.asked = b.asked \o ls
  <2>1. b.len + Len(ls) \in Nat /\ n + 1 \in Nat /\ z \in Nat
    BY <1>1, <1>2, <1>w
  <2>2. new = [b EXCEPT !.array = z, !.len = b.len + Len(ls), !.origin = n + 1,
                        !.asked = b.asked \o ls]
    BY <1>1 DEF Builder
  <2>3. new \in Builder
    BY <1>1, <1>7, <2>1, <2>2, NewBuilder
  <2>4. QED
    BY <1>1, <2>2, <2>3 DEF Builder
<1> HIDE DEF new
<1>9. /\ QType' /\ DOMAIN builders' = 1..(n + 1) /\ DOMAIN builders = 1..n
      /\ \A j \in 1..n : builders'[j] = builders[j]
      /\ builders'[n + 1] = new
  BY <1>w, <1>6, <1>8, IncludeType
<1>10. \A j \in 1..n :
         /\ builders[j] \in Builder /\ SliceOf(builders[j])
         /\ builders[j].array \in 0..Len(arrays) /\ builders[j].len \in Nat
         /\ builders[j].array = 0 => builders[j].len = 0
         /\ builders[j].array > 0 => arrays'[builders[j].array] = arrays[builders[j].array]
  <2>1. \A j \in 1..n : builders[j] \in Builder /\ SliceOf(builders[j])
    BY <1>9 DEF QType, Slices
  <2>2. QED
    BY <2>1, <1>w, SMTT(20) DEF Builder, SliceOf
<1>11. Slices'
  <2>1. ASSUME NEW j \in 1..n PROVE SliceOf(builders[j])'
    <3>1. builders'[j] = builders[j] /\ builders[j].array \in 0..Len(arrays')
      BY <1>w, <1>9, <1>10
    <3>2. CASE builders[j].array = 0
      BY <3>1, <3>2, <1>10 DEF SliceOf
    <3>3. CASE builders[j].array > 0
      BY <3>1, <3>3, <1>10 DEF SliceOf
    <3>4. QED
      BY <3>2, <3>3, <1>10
  <2>2. ASSUME NEW j \in 1..(n + 1), j = n + 1 PROVE SliceOf(builders[j])'
    <3>1. \A k \in 1..(b.len + Len(ls)) : g[k] \in Loaders
      <4>1. \A k \in 1..(b.len + Len(ls)) : k \in 1..b.len \/ k \in (b.len + 1)..(b.len + Len(ls))
        BY <1>2
      <4>2. QED
        BY <4>1, <1>5
    <3>2. builders'[j] = new
      BY <2>2, <1>9
    <3>3. /\ z \in 0..Len(arrays') /\ z > 0 /\ n + 1 > 0
          /\ b.len + Len(ls) \in 1..Len(arrays'[z])
      <4>1. arrays'[z] = g /\ Len(arrays') = z /\ z \in Nat /\ z > 0
        BY <1>w
      <4>2. b.len + Len(ls) \in 1..Len(g)
        BY <1>2, <1>3
      <4>3. QED
        BY <4>1, <4>2, <1>1
    <3>4. Len(new.asked) = new.len
      BY <1>7, <1>8
    <3>5. QED
      BY <3>1, <3>2, <3>3, <3>4, <1>w, <1>8 DEF SliceOf
  <2>3. ASSUME NEW j \in 1..(n + 1) PROVE SliceOf(builders[j])'
    BY <2>1, <2>2, <1>1
  <2>4. QED
    BY <2>3, <1>9 DEF Slices
<1>12. Unforked'
  <2> SUFFICES ASSUME ~forked'
               PROVE  \A j \in 1..(n + 1) :
                        /\ Faithful(builders[j])'
                        /\ \A k \in 1..(n + 1) : Nested(builders[j], builders[k])'
    BY <1>9 DEF Unforked
  <2>1. ~forked /\ extended \subseteq extended'
    BY DEF Include
  <2>2. \A j \in 1..n : /\ Faithful(builders[j])
                        /\ \A k \in 1..n : Nested(builders[j], builders[k])
    BY <2>1, <1>9 DEF Unforked
  <2>3. ASSUME NEW j \in 1..n PROVE Faithful(builders[j])'
    <3>1. CASE builders[j].array = 0
      BY <3>1, <1>9, <1>10 DEF Faithful
    <3>2. CASE builders[j].array > 0
      BY <3>2, <2>2, <1>9, <1>10, SMTT(20) DEF Faithful
    <3>3. QED
      BY <3>1, <3>2, <1>10
  <2>4. ASSUME NEW j \in 1..(n + 1), j = n + 1 PROVE Faithful(builders[j])'
    <3>1. ASSUME NEW k \in 1..(b.len + Len(ls)) PROVE g[k] = (b.asked \o ls)[k]
      <4>1. CASE k <= b.len
        <5>1. arrays[b.array][k] = b.asked[k]
          BY <4>1, <2>2, <1>1, <1>2, SMTT(20) DEF Faithful
        <5>2. QED
          BY <4>1, <5>1, <1>2, <1>5, <1>7
      <4>2. CASE k > b.len
        <5>1. k \in (b.len + 1)..(b.len + Len(ls))
          BY <4>2, <1>2
        <5>2. QED
          BY <5>1, <1>5, <1>7
      <4>3. QED
        BY <4>1, <4>2, <1>2
    <3>2. QED
      BY <3>1, <2>4, <1>w, <1>8, <1>9 DEF Faithful
  <2>5. ASSUME NEW j \in 1..(n + 1), NEW k \in 1..(n + 1)
        PROVE  Nested(builders[j], builders[k])'
    <3>1. CASE j \in 1..n /\ k \in 1..n
      BY <3>1, <2>1, <2>2, <1>9 DEF Nested
    <3>2. CASE j # k /\ (j = n + 1 \/ k = n + 1)
      <4>1. builders'[j].array # builders'[k].array
        <5>1. \A h \in 1..n : builders'[h].array # z
          BY <1>9, <1>10, <1>w
        <5>2. builders'[n + 1].array = z
          BY <1>8, <1>9
        <5>3. (j \in 1..n /\ k = n + 1) \/ (j = n + 1 /\ k \in 1..n)
          BY <3>2, <1>1
        <5>4. QED
          BY <5>1, <5>2, <5>3
      <4>2. QED
        BY <4>1 DEF Nested
    <3>3. CASE j = n + 1 /\ k = n + 1
      BY <3>3, <1>2, <1>8, <1>9 DEF Nested
    <3>4. QED
      BY <3>1, <3>2, <3>3, <1>1
  <2>6. ASSUME NEW j \in 1..(n + 1) PROVE Faithful(builders[j])'
    BY <2>3, <2>4, <1>1
  <2>7. QED
    BY <2>5, <2>6
<1>13. QED
  BY <1>9, <1>11, <1>12

LEMMA CountReturns ==
  ASSUME NEW i, Count(i)
  PROVE  LET b == builders[i]
         IN  \/ ~Builds(b) /\ Returns("Count", i, <<>>, 0, "refused")
             \/ /\ Builds(b) /\ ~Accepts(TRUE, b)
                /\ Returns("Count", i, <<>>, 0, IF plan.cached THEN "panic" ELSE "database")
             \/ /\ Builds(b) /\ Accepts(TRUE, b) /\ CountRow(b) = <<>>
                /\ Returns("Count", i, <<>>, 0, "ErrNoRows")
             \/ /\ Builds(b) /\ Accepts(TRUE, b) /\ CountRow(b) # <<>>
                /\ Returns("Count", i, <<>>, CountRow(b)[1], "nil")
BY Zenon DEF Count

LEMMA QueryReturns ==
  ASSUME NEW i, Query(i)
  PROVE  LET b == builders[i]
         IN  \/ ~Builds(b) /\ Returns("Query", i, <<>>, 0, "refused")
             \/ Builds(b) /\ ~Accepts(FALSE, b) /\ Returns("Query", i, <<>>, 0, "database")
             \/ /\ Builds(b) /\ Accepts(FALSE, b)
                /\ \E s \in Answers(b) : Returns("Query", i, s, 0, "nil")
BY Zenon DEF Query

LEMMA QueryRowReturns ==
  ASSUME NEW i, QueryRow(i)
  PROVE  LET b == OneRow(builders[i])
         IN  \/ ~Builds(b) /\ Returns("QueryRow", i, <<>>, 0, "refused")
             \/ Builds(b) /\ ~Accepts(FALSE, b) /\ Returns("QueryRow", i, <<>>, 0, "database")
             \/ /\ Builds(b) /\ Accepts(FALSE, b)
                /\ \E s \in Answers(b) :
                     Returns("QueryRow", i, s, 0, IF s = <<>> THEN "ErrNoRows" ELSE "nil")
BY Zenon DEF QueryRow

LEMMA ReturnsIs ==
  ASSUME NEW call, NEW i, NEW rows, NEW count, NEW err, Returns(call, i, rows, count, err)
  PROVE  /\ answer'.call = call /\ answer'.on = i /\ answer'.rows = rows
         /\ answer'.count = count /\ answer'.err = err
BY DEF Returns

LEMMA AskingReturns ==
  ASSUME NEW i, Count(i) \/ Query(i) \/ QueryRow(i)
  PROVE  answer'.on = i /\ UNCHANGED <<plan, arrays, builders, extended, forked>>
<1>1. ASSUME NEW call, NEW rows, NEW count, NEW err, Returns(call, i, rows, count, err)
      PROVE  answer'.on = i /\ UNCHANGED <<plan, arrays, builders, extended, forked>>
  BY <1>1 DEF Returns
<1>2. CASE Count(i)
  BY <1>1, <1>2, CountReturns
<1>3. CASE Query(i)
  BY <1>1, <1>3, QueryReturns
<1>4. CASE QueryRow(i)
  BY <1>1, <1>4, QueryRowReturns
<1>5. QED
  BY <1>2, <1>3, <1>4

-----------------------------------------------------------------------------
LEMMA AskingKeeps ==
  ASSUME QInv, UNCHANGED <<plan, arrays, builders, extended, forked>>
  PROVE  QInv'
BY DEF QInv, QType, Slices, Unforked, SliceOf, Faithful, Nested

LEMMA NextInv == QInv /\ [Next]_vars => QInv'
<1> SUFFICES ASSUME QInv, [Next]_vars PROVE QInv'
  OBVIOUS
<1>1. /\ plan \in Plans
      /\ \A i \in DOMAIN builders : builders[i] \in Builder
  BY DEF QInv, QType
<1>2. ASSUME NEW i \in DOMAIN builders, NEW ls \in plan.includes, Include(builders[i], ls)
      PROVE  QInv'
  <2>1. ls \in Seq(Loaders) /\ ls # <<>>
    BY <1>1, PlanAssumption
  <2>2. QED
    BY <1>2, <2>1, InPlaceKeeps, GrowingKeeps
<1>3. ASSUME NEW i \in DOMAIN builders, NEW cs \in plan.conds, Where(builders[i], cs)
      PROVE  QInv'
  <2> DEFINE d == [builders[i] EXCEPT !.conds = @ \cup cs]
  <2>1. cs \in SUBSET Conditions
    BY <1>1 DEF Conditions
  <2>2. /\ d \in Builder /\ d.array = builders[i].array /\ d.len = builders[i].len
        /\ d.origin = builders[i].origin /\ d.asked = builders[i].asked
    BY <1>1, <2>1 DEF Builder
  <2>3. Derive(d)
    BY <1>3 DEF Where
  <2>4. QED
    BY <2>2, <2>3, DeriveKeeps
<1>4. ASSUME NEW i \in DOMAIN builders, NEW o \in plan.orders, OrderBy(builders[i], o)
      PROVE  QInv'
  <2> DEFINE d == [builders[i] EXCEPT !.orders = Append(@, o)]
  <2>1. o \in OrderKeys
    BY <1>1 DEF OrderKeys
  <2>2. Append(builders[i].orders, o) \in Seq(OrderKeys)
    BY <1>1, <2>1 DEF Builder
  <2>3. /\ d \in Builder /\ d.array = builders[i].array /\ d.len = builders[i].len
        /\ d.origin = builders[i].origin /\ d.asked = builders[i].asked
    BY <1>1, <2>2 DEF Builder
  <2>4. Derive(d)
    BY <1>4 DEF OrderBy
  <2>5. QED
    BY <2>3, <2>4, DeriveKeeps
<1>5. ASSUME NEW i \in DOMAIN builders, NEW m \in plan.limits, Limit(builders[i], m)
      PROVE  QInv'
  <2> DEFINE d == [builders[i] EXCEPT !.limit = m]
  <2>1. m \in Nat
    BY <1>1, PlanAssumption
  <2>2. /\ d \in Builder /\ d.array = builders[i].array /\ d.len = builders[i].len
        /\ d.origin = builders[i].origin /\ d.asked = builders[i].asked
    BY <1>1, <2>1 DEF Builder
  <2>3. QED
    BY <1>5, <2>2, DeriveKeeps DEF Limit
<1>6. ASSUME NEW i \in DOMAIN builders, NEW m \in plan.offsets, Offset(builders[i], m)
      PROVE  QInv'
  <2> DEFINE d == [builders[i] EXCEPT !.offset = m]
  <2>1. m \in Nat
    BY <1>1, PlanAssumption
  <2>2. /\ d \in Builder /\ d.array = builders[i].array /\ d.len = builders[i].len
        /\ d.origin = builders[i].origin /\ d.asked = builders[i].asked
    BY <1>1, <2>1 DEF Builder
  <2>3. QED
    BY <1>6, <2>2, DeriveKeeps DEF Offset
<1>7. ASSUME NEW i \in DOMAIN builders, Count(i) \/ Query(i) \/ QueryRow(i)
      PROVE  QInv'
  BY <1>7, AskingKeeps, AskingReturns
<1>8. CASE UNCHANGED vars
  BY <1>8, AskingKeeps DEF vars
<1>9. QED
  BY <1>2, <1>3, <1>4, <1>5, <1>6, <1>7, <1>8 DEF Next

LEMMA Inductive == Spec => []QInv
<1>1. Init => QInv
  BY InitInv
<1>2. QInv /\ [Next]_vars => QInv'
  BY NextInv
<1>3. QED
  BY <1>1, <1>2, PTL DEF Spec

(* The type invariant: no builder's list of loaders reaches past the array  *)
(* it shares, nor into slots that hold no loader, whatever was included.    *)
THEOREM TypeCorrect == Spec => []TypeOK
<1>1. QInv => TypeOK
  <2> SUFFICES ASSUME QInv PROVE TypeOK
    OBVIOUS
  <2>1. ASSUME NEW i \in DOMAIN builders
        PROVE  IsBuilder(builders[i]) /\ LoadersOf(builders[i]) \in Seq(Loaders)
    <3>1. /\ builders[i] \in Builder /\ SliceOf(builders[i])
          /\ builders[i].origin <= Len(builders)
      BY DEF QInv, QType, Slices
    <3>2. LoadersOf(builders[i]) \in Seq(Loaders)
      BY <3>1, HeldType DEF QInv
    <3>3. Len(builders) \in Nat
      BY DEF QInv, QType
    <3>4. builders[i].origin \in 0..Len(builders)
      BY <3>1, <3>3 DEF Builder
    <3>5. QED
      BY <3>1, <3>2, <3>4 DEF IsBuilder, Builder, SliceOf
  <2>2. plan \in Plans /\ forked \in BOOLEAN
    BY DEF QInv, QType
  <2>3. extended \subseteq 0..Len(builders)
    BY DEF QInv, QType
  <2>4. QED
    BY <2>1, <2>2, <2>3 DEF TypeOK
<1>2. QED
  BY <1>1, Inductive, PTL

(* Every builder runs the loaders it was asked for, unless one builder that *)
(* had loaders was extended twice.                                          *)
THEOREM LoadersKept == Spec => []LoadersLostOnlyByForks
<1>1. QInv => LoadersLostOnlyByForks
  <2> SUFFICES ASSUME QInv, ~forked, NEW i \in DOMAIN builders
               PROVE  LoadersOf(builders[i]) = builders[i].asked
    BY DEF LoadersLostOnlyByForks
  <2>1. /\ builders[i] \in Builder /\ SliceOf(builders[i]) /\ Faithful(builders[i])
    BY DEF QInv, QType, Slices, Unforked
  <2>2. /\ LoadersOf(builders[i]) \in Seq(Loaders)
        /\ Len(LoadersOf(builders[i])) = builders[i].len
        /\ \A k \in 1..builders[i].len : LoadersOf(builders[i])[k] = arrays[builders[i].array][k]
    BY <2>1, HeldType DEF QInv
  <2>3. /\ builders[i].asked \in Seq(Loaders) /\ Len(builders[i].asked) = builders[i].len
    BY <2>1 DEF Builder, SliceOf
  <2>4. \A k \in 1..Len(LoadersOf(builders[i])) : LoadersOf(builders[i])[k] = builders[i].asked[k]
    BY <2>1, <2>2 DEF Faithful
  <2>5. QED
    BY <2>2, <2>3, <2>4, SeqEqual
<1>2. QED
  BY <1>1, Inductive, PTL

-----------------------------------------------------------------------------
(* What the terminal calls answer *)

LEMMA CutIs ==
  ASSUME NEW S, NEW s \in Seq(S), NEW b, b.limit \in Nat \cup {NoLimit}, Skipped(b) \in Nat
  PROVE  LET most == IF Len(s) > Skipped(b) THEN Len(s) - Skipped(b) ELSE 0
         IN  /\ Cut(b, s) \in Seq(S)
             /\ Len(Cut(b, s)) = AtMost(most, b.limit)
             /\ \A k \in 1..Len(Cut(b, s)) : Cut(b, s)[k] = s[Skipped(b) + k]
<1> DEFINE end == IF b.limit = NoLimit \/ Skipped(b) + b.limit > Len(s)
                  THEN Len(s) ELSE Skipped(b) + b.limit
           m == Skipped(b) + 1
           most == IF Len(s) > Skipped(b) THEN Len(s) - Skipped(b) ELSE 0
<1>1. Cut(b, s) = SubSeq(s, m, end)
  BY DEF Cut
<1>2. m \in Int /\ end \in Int /\ m >= 1 /\ end <= Len(s) /\ Len(s) \in Nat
  BY DEF NoLimit
<1>3. \A i \in m..end : s[i] \in S
  <2>1. \A i \in m..end : i \in 1..Len(s)
    BY <1>2
  <2>2. QED
    BY <2>1
<1>4. (IF m <= end THEN end - m + 1 ELSE 0) = AtMost(most, b.limit)
  BY DEF AtMost, NoLimit
<1> HIDE DEF m, end, most
<1>5. /\ Cut(b, s) \in Seq(S)
      /\ Len(Cut(b, s)) = IF m <= end THEN end - m + 1 ELSE 0
      /\ \A i \in 1..end - m + 1 : Cut(b, s)[i] = s[m + i - 1]
  BY <1>1, <1>2, <1>3, SubSeqProperties
<1>6. \A k \in 1..Len(Cut(b, s)) : Cut(b, s)[k] = s[Skipped(b) + k]
  <2> SUFFICES ASSUME NEW k \in 1..Len(Cut(b, s)) PROVE Cut(b, s)[k] = s[Skipped(b) + k]
    OBVIOUS
  <2>1. k \in 1..end - m + 1
    BY <1>2, <1>5
  <2>2. m + k - 1 = Skipped(b) + k
    BY <2>1 DEF m
  <2>3. QED
    BY <1>5, <2>1, <2>2
<1>7. Len(Cut(b, s)) = AtMost(most, b.limit)
  BY <1>4, <1>5
<1>8. QED
  BY <1>5, <1>6, <1>7 DEF most

LEMMA MatchingFinite ==
  ASSUME NEW b
  PROVE  IsFiniteSet(Matching(b)) /\ Cardinality(Matching(b)) \in Nat
<1>1. Matching(b) \subseteq DOMAIN Rows
  BY DEF Matching
<1>2. QED
  BY <1>1, RowsAssumption, FS_Subset, FS_CardinalityType

LEMMA ArrangementIs ==
  ASSUME NEW b, NEW s \in Arrangements(b)
  PROVE  s \in Seq(Matching(b)) /\ Len(s) = Cardinality(Matching(b))
<1> DEFINE n == Cardinality(Matching(b))
<1>1. s \in [1..n -> Matching(b)] /\ n \in Nat
  BY MatchingFinite DEF Arrangements
<1>2. QED
  BY <1>1

LEMMA SkippedType ==
  ASSUME NEW b \in Builder
  PROVE  b.limit \in Nat \cup {NoLimit} /\ Skipped(b) \in Nat
BY DEF Builder, Skipped, NoOffset

LEMMA CountAgrees ==
  ASSUME QInv, NEW i \in DOMAIN builders, Count(i), answer'.err # "refused"
  PROVE  Agrees(answer', builders[i])
<1> DEFINE b == builders[i]
           n == Cardinality(Matching(b))
           refusal == IF plan.cached THEN "panic" ELSE "database"
<1>1. b \in Builder /\ plan.dialect \in Dialects
  BY PlanAssumption DEF QInv, QType
<1>2. b.limit \in Nat \cup {NoLimit} /\ Skipped(b) \in Nat
  BY <1>1, SkippedType
<1>3. n \in Nat /\ <<n>> \in Seq(Nat) /\ Len(<<n>>) = 1
  BY MatchingFinite
<1>4. /\ Len(CountRow(b)) = AtMost(IF 1 > Skipped(b) THEN 1 - Skipped(b) ELSE 0, b.limit)
      /\ CountRow(b) \in Seq(Nat)
      /\ \A k \in 1..Len(CountRow(b)) : CountRow(b)[k] = <<n>>[Skipped(b) + k]
  <2> HIDE DEF b, n
  <2>1. QED
    BY <1>2, <1>3, CutIs DEF CountRow, n
<1>5. answer'.call = "Count" /\ Builds(b)
        /\ IF ~Accepts(TRUE, b) THEN answer'.err = refusal
           ELSE IF CountRow(b) = <<>> THEN answer'.err = "ErrNoRows"
           ELSE answer'.err = "nil" /\ answer'.count = CountRow(b)[1]
  <2>1. CASE ~Builds(b) /\ Returns("Count", i, <<>>, 0, "refused")
    BY <2>1, ReturnsIs
  <2>2. CASE Builds(b) /\ ~Accepts(TRUE, b) /\ Returns("Count", i, <<>>, 0, refusal)
    BY <2>2, ReturnsIs
  <2>3. CASE /\ Builds(b) /\ Accepts(TRUE, b) /\ CountRow(b) = <<>>
             /\ Returns("Count", i, <<>>, 0, "ErrNoRows")
    BY <2>3, ReturnsIs
  <2>4. CASE /\ Builds(b) /\ Accepts(TRUE, b) /\ CountRow(b) # <<>>
             /\ Returns("Count", i, <<>>, CountRow(b)[1], "nil")
    BY <2>4, ReturnsIs
  <2>5. QED
    BY Zenon, <2>1, <2>2, <2>3, <2>4, CountReturns
<1>6. Accepts(TRUE, b) <=>
        ~(SkipsOnly(b) \/ (plan.dialect = "postgres" /\ b.orders # <<>>))
  BY DEF Accepts, SkipsOnly
<1>7. CASE ~Accepts(TRUE, b)
  BY <1>5, <1>6, <1>7 DEF Agrees
<1>8. CASE Accepts(TRUE, b) /\ (Skipped(b) > 0 \/ b.limit = 0)
  <2>1. Len(CountRow(b)) = 0
    BY <1>2, <1>4, <1>8 DEF AtMost, NoLimit
  <2>2. CountRow(b) = <<>>
    BY <1>4, <2>1
  <2>3. QED
    BY <1>5, <1>6, <1>8, <2>2 DEF Agrees
<1>9. CASE Accepts(TRUE, b) /\ ~(Skipped(b) > 0 \/ b.limit = 0)
  <2>1. Skipped(b) = 0 /\ Len(CountRow(b)) = 1
    BY <1>2, <1>4, <1>9 DEF AtMost, NoLimit
  <2>2. CountRow(b) # <<>> /\ CountRow(b)[1] = n
    BY <1>3, <1>4, <2>1
  <2>3. QED
    BY <1>5, <1>6, <1>9, <2>2 DEF Agrees
<1>10. QED
  BY <1>7, <1>8, <1>9

LEMMA QueryAgrees ==
  ASSUME QInv, NEW i \in DOMAIN builders, Query(i), answer'.err # "refused"
  PROVE  Agrees(answer', builders[i])
<1> DEFINE b == builders[i]
           n == Cardinality(Matching(b))
<1>1. b \in Builder
  BY DEF QInv, QType
<1>2. b.limit \in Nat \cup {NoLimit} /\ Skipped(b) \in Nat
  BY <1>1, SkippedType
<1>3. Accepts(FALSE, b) <=> ~SkipsOnly(b)
  BY DEF Accepts, SkipsOnly
<1>4. CASE SkipsOnly(b)
  <2>1. answer'.call = "Query" /\ answer'.err = "database"
    <3>1. \/ Returns("Query", i, <<>>, 0, "refused")
          \/ Returns("Query", i, <<>>, 0, "database")
      BY Zenon, <1>3, <1>4, QueryReturns
    <3>2. QED
      BY <3>1, ReturnsIs
  <2>2. QED
    BY <1>4, <2>1 DEF Agrees
<1>5. CASE ~SkipsOnly(b)
  <2>1. ~Returns("Query", i, <<>>, 0, "refused")
    BY ReturnsIs
  <2>2. PICK s \in Arrangements(b) : Returns("Query", i, Cut(b, s), 0, "nil")
    <3>1. \E rows \in Answers(b) : Returns("Query", i, rows, 0, "nil")
      BY Zenon, <1>3, <1>5, <2>1, QueryReturns
    <3>2. QED
      BY Zenon, <3>1 DEF Answers
  <2>3. answer'.call = "Query" /\ answer'.err = "nil" /\ answer'.rows = Cut(b, s)
    BY <2>2, ReturnsIs
  <2>4. s \in Seq(Matching(b)) /\ Len(s) = n
    BY ArrangementIs
  <2>5. Len(Cut(b, s)) = AtMost(IF n > Skipped(b) THEN n - Skipped(b) ELSE 0, b.limit)
    <3> HIDE DEF b, n
    <3>1. QED
      BY <1>2, <2>4, CutIs
  <2>6. QED
    BY <1>5, <2>3, <2>5 DEF Agrees
<1>6. QED
  BY <1>4, <1>5

LEMMA QueryRowAgrees ==
  ASSUME QInv, NEW i \in DOMAIN builders, QueryRow(i), answer'.err # "refused"
  PROVE  Agrees(answer', builders[i])
<1> DEFINE b == builders[i]
           one == OneRow(b)
           all == [b EXCEPT !.limit = NoLimit]
           n == Cardinality(Matching(b))
           left == IF n > Skipped(b) THEN n - Skipped(b) ELSE 0
<1>1. b \in Builder
  BY DEF QInv, QType
<1>2. /\ b.limit \in Nat \cup {NoLimit} /\ Skipped(b) \in Nat
      /\ one.limit = 1 /\ one.offset = b.offset /\ one.conds = b.conds /\ one.orders = b.orders
      /\ all.limit = NoLimit /\ all.offset = b.offset
      /\ Skipped(one) = Skipped(b) /\ Skipped(all) = Skipped(b)
  BY <1>1, SkippedType DEF Builder, OneRow, Skipped
<1>3. Arrangements(one) = Arrangements(b) /\ Accepts(FALSE, one)
  BY <1>2 DEF Arrangements, Matching, Accepts, NoLimit
<1>4. PICK s \in Arrangements(b) :
        /\ answer'.call = "QueryRow" /\ answer'.rows = Cut(one, s)
        /\ answer'.err = IF Cut(one, s) = <<>> THEN "ErrNoRows" ELSE "nil"
  <2>1. ~Returns("QueryRow", i, <<>>, 0, "refused")
    BY ReturnsIs
  <2>2. PICK rows \in Answers(one) :
          Returns("QueryRow", i, rows, 0, IF rows = <<>> THEN "ErrNoRows" ELSE "nil")
    BY Zenon, <1>3, <2>1, QueryRowReturns
  <2>3. PICK s \in Arrangements(b) : rows = Cut(one, s)
    BY Zenon, <1>3, <2>2 DEF Answers
  <2>4. QED
    BY <2>2, <2>3, ReturnsIs
<1>5. s \in Seq(Matching(b)) /\ Len(s) = n /\ n \in Nat
  BY ArrangementIs, MatchingFinite
<1>6. /\ Cut(one, s) \in Seq(Matching(b)) /\ Cut(all, s) \in Seq(Matching(b))
      /\ Len(Cut(one, s)) = AtMost(left, 1)
      /\ Len(Cut(all, s)) = AtMost(left, NoLimit)
      /\ \A k \in 1..Len(Cut(one, s)) : Cut(one, s)[k] = s[Skipped(b) + k]
      /\ \A k \in 1..Len(Cut(all, s)) : Cut(all, s)[k] = s[Skipped(b) + k]
  <2>1. /\ one.limit \in Nat \cup {NoLimit} /\ Skipped(one) \in Nat
        /\ all.limit \in Nat \cup {NoLimit} /\ Skipped(all) \in Nat
    BY <1>2
  <2>s. s \in Seq(Matching(b))
    BY <1>5
  <2> HIDE DEF b, n, one, all
  <2>2. /\ Cut(one, s) \in Seq(Matching(b))
        /\ Len(Cut(one, s)) = AtMost(IF Len(s) > Skipped(one) THEN Len(s) - Skipped(one) ELSE 0, one.limit)
        /\ \A k \in 1..Len(Cut(one, s)) : Cut(one, s)[k] = s[Skipped(one) + k]
    BY <2>1, <2>s, CutIs
  <2>3. /\ Cut(all, s) \in Seq(Matching(b))
        /\ Len(Cut(all, s)) = AtMost(IF Len(s) > Skipped(all) THEN Len(s) - Skipped(all) ELSE 0, all.limit)
        /\ \A k \in 1..Len(Cut(all, s)) : Cut(all, s)[k] = s[Skipped(all) + k]
    BY <2>1, <2>s, CutIs
  <2>4. QED
    BY <1>2, <1>5, <2>2, <2>3
<1>7. left \in Nat
  BY <1>2, <1>5
<1>8. CASE left = 0
  <2>1. Len(Cut(one, s)) = 0
    BY <1>6, <1>8 DEF AtMost, NoLimit
  <2>2. Cut(one, s) = <<>>
    BY <1>6, <2>1
  <2>3. QED
    BY <1>4, <1>8, <2>2 DEF Agrees
<1>9. CASE left # 0
  <2>1. Len(Cut(one, s)) = 1 /\ Len(Cut(all, s)) >= 1 /\ Len(Cut(all, s)) \in Nat
    BY <1>6, <1>7, <1>9 DEF AtMost, NoLimit
  <2>2. Cut(all, s)[1] = Cut(one, s)[1] /\ Cut(one, s) # <<>>
    <3>1. 1 \in 1..Len(Cut(all, s)) /\ 1 \in 1..Len(Cut(one, s))
      BY <2>1
    <3> HIDE DEF b, n, one, all
    <3>2. QED
      BY <1>6, <3>1
  <2>3. QED
    BY <1>4, <1>9, <2>1, <2>2 DEF Agrees
<1>10. QED
  BY <1>8, <1>9

(* Count, Query and QueryRow of one builder agree, whatever the table, the  *)
(* conditions, the order and the paging, and fail for no builder but those  *)
(* the dialect has no statement for (example/goen.go:103-142 and the like). *)
THEOREM TerminalCallsAgree == Spec => []CallsAgree
<1>1. Init => CallsAgree
  BY DEF Init, CallsAgree, Nothing
<1>2. ASSUME QInv, CallsAgree, [Next]_vars PROVE CallsAgree'
  <2>1. ASSUME answer' = Nothing PROVE CallsAgree'
    BY <2>1 DEF CallsAgree, Nothing
  <2>2. CASE \E i \in DOMAIN builders : Count(i) \/ Query(i) \/ QueryRow(i)
    <3>1. PICK i \in DOMAIN builders : Count(i) \/ Query(i) \/ QueryRow(i)
      BY <2>2
    <3>2. answer'.on = i /\ builders' = builders /\ plan' = plan
      BY <3>1, AskingReturns
    <3>3. answer'.err # "refused" => Agrees(answer', builders[i])
      BY <1>2, <3>1, CountAgrees, QueryAgrees, QueryRowAgrees
    <3>4. QED
      BY <3>2, <3>3 DEF CallsAgree, Agrees, SkipsOnly
  <2>3. CASE UNCHANGED vars
    BY <1>2, <2>3 DEF CallsAgree, Agrees, SkipsOnly, vars
  <2>4. QED
    BY <1>2, <2>1, <2>2, <2>3 DEF Next, Include, Where, OrderBy, Limit, Offset, Derive
<1>3. QED
  BY <1>1, <1>2, Inductive, PTL DEF Spec

(* A condition and its negation never answer one row, and what both leave   *)
(* out is what NULL leaves open, for every value the column and the         *)
(* argument may have.                                                       *)
LEMMA NegationsSplit ==
  ASSUME NEW x, NEW y, x.op \in DOMAIN Negated, y.op = Negated[x.op], y.arg = x.arg, NEW v,
         x.op \in {"Lt", "Gt", "Between"} =>
           Bounds(x) \subseteq Int \cup {Null} /\ v \in Int \cup {Null}
  PROVE  /\ ~(Selects(x, v) /\ Selects(y, v))
         /\ ~Selects(x, v) /\ ~Selects(y, v) <=> LeftOpen(x, v)
<1> USE RowsAssumption
<1>1. x.op \in {"Eq", "In", "Lt", "Gt", "Between", "Like"}
  BY DEF Negated
<1>2. CASE x.op = "Eq"
  BY <1>2 DEF Negated, Selects, LeftOpen
<1>3. CASE x.op = "In"
  BY <1>3 DEF Negated, Selects, LeftOpen
<1>4. CASE x.op = "Lt"
  BY <1>4 DEF Negated, Selects, LeftOpen, Compares, Bounds, Comparisons
<1>5. CASE x.op = "Gt"
  BY <1>5 DEF Negated, Selects, LeftOpen, Compares, Bounds, Comparisons
<1>6. CASE x.op = "Between"
  <2> DEFINE low == Value(x.arg[1])
             high == Value(x.arg[2])
  <2>1. Bounds(x) = {low, high} /\ low \in Int \cup {Null} /\ high \in Int \cup {Null}
    BY <1>6 DEF Bounds, Comparisons
  <2>2. /\ Selects(x, v) <=> v # Null /\ Null \notin {low, high} /\ low <= v /\ v <= high
        /\ Selects(y, v) <=> Outside(v, low, high)
        /\ LeftOpen(x, v) <=> v = Null \/ (Null \in {low, high} /\ ~Outside(v, low, high))
    BY <1>6, <2>1 DEF Negated, Selects, LeftOpen
  <2> HIDE DEF low, high
  <2>3. QED
    BY <1>6, <2>1, <2>2 DEF Outside, Below
<1>7. CASE x.op = "Like"
  BY <1>7 DEF Negated, Selects, LeftOpen
<1>8. QED
  BY <1>1, <1>2, <1>3, <1>4, <1>5, <1>6, <1>7

(* A builder with a condition and one with its negation share no row, and   *)
(* leave out exactly the rows that NULL leaves open, whatever else they ask *)
(* for (example/goen.go:219-265 and the like, with squirrel's expressions). *)
THEOREM NegationsSplitRows == Spec => []NegationsSplitTheRows
<1>1. ASSUME QInv PROVE NegationsSplitTheRows
  <2> SUFFICES ASSUME NEW i \in DOMAIN builders, NEW j \in DOMAIN builders,
                      NEW x \in builders[i].conds \ builders[j].conds,
                      NEW y \in builders[j].conds \ builders[i].conds,
                      builders[i].conds \ {x} = builders[j].conds \ {y},
                      x.op \in DOMAIN Negated, y.op = Negated[x.op],
                      x.col = y.col, x.arg = y.arg
               PROVE  LET b == builders[i]
                          c == builders[j]
                          all == Matching([b EXCEPT !.conds = @ \ {x}])
                      IN  /\ Matching(b) \cap Matching(c) = {}
                          /\ all \ (Matching(b) \cup Matching(c)) =
                               {r \in all : LeftOpen(x, Rows[r][x.col])}
    BY DEF NegationsSplitTheRows
  <2> DEFINE b == builders[i]
             c == builders[j]
             less == [b EXCEPT !.conds = @ \ {x}]
  <2>1. b \in Builder
    BY <1>1 DEF QInv, QType
  <2>2. less.conds = b.conds \ {x} /\ b.conds \subseteq Conditions
    BY <2>1 DEF Builder
  <2>3. \A r \in DOMAIN Rows :
          x.op \in {"Lt", "Gt", "Between"} =>
            Bounds(x) \subseteq Int \cup {Null} /\ Rows[r][x.col] \in Int \cup {Null}
    <3>1. PICK p \in Plans : x \in UNION p.conds
      BY <2>2 DEF Conditions
    <3>2. QED
      BY <3>1, RowsAssumption DEF Comparisons
  <2>4. \A r \in DOMAIN Rows :
          /\ ~(Selects(x, Rows[r][x.col]) /\ Selects(y, Rows[r][x.col]))
          /\ ~Selects(x, Rows[r][x.col]) /\ ~Selects(y, Rows[r][x.col])
               <=> LeftOpen(x, Rows[r][x.col])
    BY <2>3, NegationsSplit
  <2>5. Matching(b) \cap Matching(c) = {}
    BY <2>4 DEF Matching
  <2>6. ASSUME NEW r \in Matching(less)
        PROVE  /\ r \in DOMAIN Rows
               /\ r \in Matching(b) <=> Selects(x, Rows[r][x.col])
               /\ r \in Matching(c) <=> Selects(y, Rows[r][x.col])
    <3>1. /\ r \in DOMAIN Rows
          /\ \A k \in b.conds \ {x} : Selects(k, Rows[r][k.col])
          /\ \A k \in c.conds \ {y} : Selects(k, Rows[r][k.col])
      BY <2>2, <2>6 DEF Matching
    <3>2. QED
      BY <3>1 DEF Matching
  <2>7. QED
    BY <2>4, <2>5, <2>6
<1>2. QED
  BY <1>1, Inductive, PTL
=============================================================================
