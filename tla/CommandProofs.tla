---------------------------- MODULE CommandProofs ----------------------------
(***************************************************************************)
(* Theorems about the command (Command): what its runs write, and when one *)
(* may fail.                                                               *)
(***************************************************************************)
EXTENDS Command, WellFoundedInduction, SequenceTheorems, FiniteSetTheorems, TLAPS

\* Induction over the numbers: a set that has 0 and, with each number, the next, has
\* every number.
LEMMA SetInduction ==
  ASSUME NEW S, 0 \in S, \A n \in Nat : n \in S => n + 1 \in S
  PROVE  Nat \subseteq S
<1> SUFFICES ASSUME Nat \ S # {} PROVE FALSE
  OBVIOUS
<1> DEFINE T == Nat \ S
           R == OpToRel(<, Nat)
<1>1. \A y, x \in Nat : y < x => <<y, x>> \in R
  BY DEF OpToRel
<1>2. PICK x \in T : \A y \in T : ~(<<y, x>> \in R)
  <2>1. IsWellFoundedOn(R, Nat) /\ T \in SUBSET Nat /\ T # {}
    BY NatLessThanWellFounded
  <2> HIDE DEF R, T
  <2>2. QED
    BY <2>1, WFMin
<1> HIDE DEF R
<1>3. x # 0 /\ x - 1 \in Nat /\ x - 1 < x /\ (x - 1) + 1 = x
  BY <1>2
<1>4. x - 1 \in S
  BY <1>1, <1>2, <1>3
<1>5. QED
  BY <1>2, <1>3, <1>4

-----------------------------------------------------------------------------
(* Sorting *)

\* One of the first numbers has the greatest key.
LEMMA GreatestKey ==
  ASSUME NEW n \in Nat
  PROVE  \A k \in [1..n + 1 -> Int] : \E m \in 1..n + 1 : \A i \in 1..n + 1 : k[i] <= k[m]
<1> DEFINE Has(l) == \A k \in [1..l + 1 -> Int] : \E m \in 1..l + 1 : \A i \in 1..l + 1 : k[i] <= k[m]
           S == {l \in Nat : Has(l)}
<1>1. 0 \in S
  <2>1. ASSUME NEW k \in [1..0 + 1 -> Int] PROVE \E m \in 1..0 + 1 : \A i \in 1..0 + 1 : k[i] <= k[m]
    <3>1. \A i \in 1..0 + 1 : i = 1 /\ k[i] \in Int
      OBVIOUS
    <3>2. QED
      BY <3>1
  <2>2. QED
    BY <2>1
<1>2. ASSUME NEW l \in Nat, l \in S PROVE l + 1 \in S
  <2>0. Has(l) /\ (Has(l + 1) => l + 1 \in S)
    <3> HIDE DEF Has
    <3>1. QED
      BY <1>2
  <2> SUFFICES ASSUME NEW k \in [1..(l + 1) + 1 -> Int]
               PROVE  \E m \in 1..(l + 1) + 1 : \A i \in 1..(l + 1) + 1 : k[i] <= k[m]
    BY <2>0
  <2> DEFINE h == [i \in 1..l + 1 |-> k[i]]
  <2>1. h \in [1..l + 1 -> Int]
    <3>1. \A i \in 1..l + 1 : i \in 1..(l + 1) + 1
      OBVIOUS
    <3>2. QED
      BY <3>1
  <2>2. PICK m \in 1..l + 1 : \A i \in 1..l + 1 : h[i] <= h[m]
    BY <2>0, <2>1
  <2>3. \A i \in 1..l + 1 : k[i] <= k[m]
    BY <2>2
  <2> DEFINE top == IF k[m] <= k[(l + 1) + 1] THEN (l + 1) + 1 ELSE m
  <2>4. top \in 1..(l + 1) + 1 /\ k[m] <= k[top] /\ k[(l + 1) + 1] <= k[top]
    <3>1. k[m] \in Int /\ k[(l + 1) + 1] \in Int
      OBVIOUS
    <3>2. QED
      BY <3>1
  <2>5. \A i \in 1..(l + 1) + 1 : k[i] <= k[top]
    <3> HIDE DEF top
    <3>1. ASSUME NEW i \in 1..(l + 1) + 1 PROVE k[i] <= k[top]
      <4>1. CASE i = (l + 1) + 1
        BY <2>4, <4>1
      <4>2. CASE i # (l + 1) + 1
        <5>1. i \in 1..l + 1
          BY <4>2
        <5>2. k[i] <= k[m] /\ k[i] \in Int /\ k[m] \in Int /\ k[top] \in Int
          BY <2>3, <2>4, <5>1
        <5>3. QED
          BY <2>4, <5>2
      <4>3. QED
        BY <4>1, <4>2
    <3>2. QED
      BY <3>1
  <2>6. QED
    BY <2>4, <2>5
<1> HIDE DEF S
<1>3. n \in S
  BY <1>1, <1>2, SetInduction
<1>4. QED
  BY <1>3 DEF S

IsSorting(p, k, n) ==
  /\ p \in [1..n -> 1..n]
  /\ \A x \in 1..n : \E i \in 1..n : p[i] = x
  /\ \A i, j \in 1..n : p[i] = p[j] => i = j
  /\ \A i, j \in 1..n : i < j => k[p[i]] <= k[p[j]]

LEMMA SortingExists ==
  ASSUME NEW n \in Nat, NEW key \in [1..n -> Int]
  PROVE  \E p : IsSorting(p, key, n)
<1> DEFINE S == {l \in Nat : \A k \in [1..l -> Int] : \E p : IsSorting(p, k, l)}
<1>1. 0 \in S
  <2>1. \A k \in [1..0 -> Int] : IsSorting(k, k, 0)
    BY DEF IsSorting
  <2>2. QED
    BY <2>1
<1>2. ASSUME NEW l \in Nat, l \in S PROVE l + 1 \in S
  <2> SUFFICES ASSUME NEW k \in [1..l + 1 -> Int] PROVE \E p : IsSorting(p, k, l + 1)
    OBVIOUS
  <2>1. PICK m \in 1..l + 1 : \A i \in 1..l + 1 : k[i] <= k[m]
    BY GreatestKey
  <2> DEFINE at(i) == IF i = m THEN l + 1 ELSE i
             h == [i \in 1..l |-> k[at(i)]]
  <2>2. \A i \in 1..l : at(i) \in 1..l + 1 /\ at(i) # m
    OBVIOUS
  <2>3. h \in [1..l -> Int]
    BY <2>2
  <2>4. PICK q : IsSorting(q, h, l)
    BY <1>2, <2>3
  <2> DEFINE p == [i \in 1..l + 1 |-> IF i = l + 1 THEN m ELSE at(q[i])]
  <2>a. \A i \in 1..l : q[i] \in 1..l /\ h[q[i]] = k[at(q[i])] /\ at(q[i]) \in 1..l + 1 /\ at(q[i]) # m
    BY <2>2, <2>4 DEF IsSorting
  <2>e. \A x, y \in 1..l : at(x) = at(y) => x = y
    OBVIOUS
  <2>b. \A x \in 1..l + 1 : x # m => \E y \in 1..l : at(y) = x
    <3>1. ASSUME NEW x \in 1..l + 1, x # m PROVE \E y \in 1..l : at(y) = x
      <4>1. CASE x = l + 1
        <5>1. m \in 1..l /\ at(m) = x
          BY <3>1, <4>1
        <5>2. QED
          BY <5>1
      <4>2. CASE x # l + 1
        <5>1. x \in 1..l /\ at(x) = x
          BY <3>1, <4>2
        <5>2. QED
          BY <5>1
      <4>3. QED
        BY <4>1, <4>2
    <3>2. QED
      BY <3>1
  <2> HIDE DEF at, h
  <2>5. p[l + 1] = m /\ \A i \in 1..l : p[i] = at(q[i])
    OBVIOUS
  <2>6. p \in [1..l + 1 -> 1..l + 1]
    <3>1. \A i \in 1..l + 1 : i # l + 1 => i \in 1..l
      OBVIOUS
    <3>2. QED
      BY <2>a, <3>1
  <2> HIDE DEF p
  <2>7. ASSUME NEW x \in 1..l + 1 PROVE \E i \in 1..l + 1 : p[i] = x
    <3>1. CASE x = m
      BY <2>5, <3>1
    <3>2. CASE x # m
      <4>1. PICK y \in 1..l : at(y) = x
        BY <2>b, <3>2
      <4>2. PICK i \in 1..l : q[i] = y
        BY <2>4 DEF IsSorting
      <4>3. p[i] = x /\ i \in 1..l + 1
        BY <2>5, <4>1, <4>2
      <4>4. QED
        BY <4>3
    <3>3. QED
      BY <3>1, <3>2
  <2>8. ASSUME NEW i \in 1..l + 1, NEW j \in 1..l + 1, i < j PROVE k[p[i]] <= k[p[j]]
    <3>1. i \in 1..l
      BY <2>8
    <3>2. CASE j = l + 1
      BY <2>1, <2>5, <2>6, <3>2
    <3>3. CASE j # l + 1
      <4>1. j \in 1..l
        BY <3>3
      <4>2. h[q[i]] <= h[q[j]]
        BY <2>4, <2>8, <3>1, <4>1 DEF IsSorting
      <4>3. QED
        BY <2>a, <2>5, <3>1, <4>1, <4>2
    <3>4. QED
      BY <3>2, <3>3
  <2>9. \A i, j \in 1..l + 1 : p[i] = p[j] => i = j
    <3>1. \A i \in 1..l + 1 : i # l + 1 => i \in 1..l /\ p[i] # m
      BY <2>a, <2>5
    <3>2. \A i, j \in 1..l : p[i] = p[j] => i = j
      <4>1. ASSUME NEW i \in 1..l, NEW j \in 1..l, p[i] = p[j] PROVE i = j
        <5>1. at(q[i]) = at(q[j]) /\ q[i] \in 1..l /\ q[j] \in 1..l
          BY <2>a, <2>5, <4>1
        <5>2. q[i] = q[j]
          BY <2>e, <5>1
        <5>3. QED
          BY <2>4, <5>2 DEF IsSorting
      <4>2. QED
        BY <4>1
    <3>3. QED
      BY <2>5, <3>1, <3>2
  <2>c. IsSorting(p, k, l + 1)
    BY <2>6, <2>7, <2>8, <2>9 DEF IsSorting
  <2>d. QED
    BY <2>c
<1> HIDE DEF S
<1>3. n \in S
  BY <1>1, <1>2, SetInduction
<1>4. QED
  BY <1>3 DEF S

\* The entities of a directory.
EntitiesIn(dir) == {t \in DOMAIN Decls : t[1] = dir /\ walked[t].entity}

Ordered(s) == \A i, j \in DOMAIN s : i < j => NameOrder[s[i][2]] < NameOrder[s[j][2]]

\* Their names tell them apart.
LEMMA NamesOfEntities ==
  ASSUME NEW dir, NEW t \in EntitiesIn(dir), NEW u \in EntitiesIn(dir)
  PROVE  NameOrder[t[2]] \in Int /\ (NameOrder[t[2]] = NameOrder[u[2]] => t = u)
<1>1. t = <<dir, t[2]>> /\ u = <<dir, u[2]>>
  BY CommandAssumption DEF EntitiesIn
<1>2. NameOrder[t[2]] \in Int /\ (NameOrder[t[2]] = NameOrder[u[2]] => t[2] = u[2])
  BY CommandAssumption DEF EntitiesIn
<1>3. QED
  BY <1>1, <1>2

\* What Sorted makes of entities that are listed once: the same, in their order.
LEMMA SortedTables ==
  ASSUME NEW dir, NEW T, T \subseteq EntitiesIn(dir), NEW ts \in Seq(T),
         \A i, j \in DOMAIN ts : ts[i] = ts[j] => i = j
  PROVE  Sorted(ts) \in Seq(T) /\ ToSet(Sorted(ts)) = ToSet(ts) /\ Ordered(Sorted(ts))
<1> DEFINE n == Len(ts)
           key == [i \in 1..n |-> NameOrder[ts[i][2]]]
           arranged(p) == [i \in DOMAIN ts |-> ts[p[i]]]
           All == {arranged(p) : p \in Bijection(DOMAIN ts, DOMAIN ts)}
           Good(s) == \A i, j \in DOMAIN s : i < j => NameOrder[s[i][2]] <= NameOrder[s[j][2]]
<1>1. n \in Nat /\ DOMAIN ts = 1..n /\ \A i \in 1..n : ts[i] \in EntitiesIn(dir) /\ ts[i] \in T
  BY LenProperties
<1> HIDE DEF n
<1>2. /\ \A i \in 1..n : NameOrder[ts[i][2]] \in Int
      /\ \A i, j \in 1..n : NameOrder[ts[i][2]] = NameOrder[ts[j][2]] => i = j
  BY <1>1, NamesOfEntities
<1>3. PICK p : IsSorting(p, key, n)
  <2>1. key \in [1..n -> Int]
    BY <1>2
  <2> HIDE DEF key
  <2>2. QED
    BY <1>1, <2>1, SortingExists
<1>4. p \in Bijection(DOMAIN ts, DOMAIN ts)
  BY <1>1, <1>3 DEF IsSorting, Bijection, Injection, Surjection, IsInjective
<1>5. Good(arranged(p))
  BY <1>1, <1>3 DEF IsSorting
<1> DEFINE s == Sorted(ts)
<1>6. s \in All /\ Good(s)
  <2>1. arranged(p) \in All
    BY <1>4
  <2>2. s = CHOOSE x \in All : Good(x)
    BY DEF Sorted
  <2> HIDE DEF All, Good, arranged, s
  <2>3. QED
    BY <1>5, <2>1, <2>2
<1>7. PICK q \in Bijection(DOMAIN ts, DOMAIN ts) : s = arranged(q)
  BY <1>6
<1>8. /\ q \in [1..n -> 1..n] /\ \A x \in 1..n : \E i \in 1..n : q[i] = x
      /\ DOMAIN s = 1..n /\ \A i \in 1..n : s[i] = ts[q[i]]
  BY <1>1, <1>7 DEF Bijection, Surjection
<1>9. \A i, j \in 1..n : q[i] = q[j] => i = j
  BY <1>1, <1>7 DEF Bijection, Injection, IsInjective
<1> HIDE DEF s
<1>10. ToSet(s) = ToSet(ts)
  <2>1. ToSet(s) = {s[i] : i \in 1..n} /\ ToSet(ts) = {ts[i] : i \in 1..n}
    BY <1>1, <1>8 DEF ToSet
  <2>2. ASSUME NEW x \in ToSet(s) PROVE x \in ToSet(ts)
    <3>1. PICK i \in 1..n : x = s[i]
      BY <2>1, <2>2
    <3>2. q[i] \in 1..n /\ x = ts[q[i]]
      BY <1>8, <3>1
    <3>3. QED
      BY <2>1, <3>2
  <2>3. ASSUME NEW x \in ToSet(ts) PROVE x \in ToSet(s)
    <3>1. PICK k \in 1..n : x = ts[k]
      BY <2>1, <2>3
    <3>2. PICK i \in 1..n : q[i] = k
      BY <1>8, <3>1
    <3>3. x = s[i]
      BY <1>8, <3>1, <3>2
    <3>4. QED
      BY <2>1, <3>2, <3>3
  <2>4. QED
    BY <2>2, <2>3
<1>11. s \in Seq(T)
  <2>1. s \in [1..n -> T]
    <3>1. s = [i \in 1..n |-> ts[q[i]]]
      BY <1>1, <1>7
    <3>2. QED
      BY <1>1, <1>8, <3>1
  <2>2. QED
    BY <1>1, <2>1, SeqDef
<1>12. Ordered(s)
  <2> SUFFICES ASSUME NEW i \in 1..n, NEW j \in 1..n, i < j
               PROVE  NameOrder[s[i][2]] < NameOrder[s[j][2]]
    BY <1>8 DEF Ordered
  <2>1. q[i] \in 1..n /\ q[j] \in 1..n /\ q[i] # q[j]
    BY <1>1, <1>8, <1>9
  <2>2. NameOrder[s[i][2]] <= NameOrder[s[j][2]]
    BY <1>6, <1>8
  <2>3. NameOrder[ts[q[i]][2]] \in Int /\ NameOrder[ts[q[j]][2]] \in Int
        /\ NameOrder[ts[q[i]][2]] # NameOrder[ts[q[j]][2]]
    BY <1>2, <2>1
  <2>4. s[i] = ts[q[i]] /\ s[j] = ts[q[j]]
    BY <1>8
  <2>5. QED
    BY <2>2, <2>3, <2>4
<1>13. QED
  BY <1>10, <1>11, <1>12 DEF s

LEMMA AppendedToSet ==
  ASSUME NEW R, NEW s \in Seq(R), NEW x \in R
  PROVE  ToSet(Append(s, x)) = ToSet(s) \cup {x}
<1>1. /\ Len(s) \in Nat /\ DOMAIN s = 1..Len(s)
      /\ DOMAIN Append(s, x) = 1..Len(s) + 1
      /\ \A i \in 1..Len(s) : Append(s, x)[i] = s[i]
      /\ Append(s, x)[Len(s) + 1] = x
  BY AppendProperties, LenProperties
<1>2. QED
  BY <1>1 DEF ToSet

\* There is one order: no two lists of the same entities differ.
LEMMA OneOrder ==
  ASSUME NEW dir, NEW s \in Seq(EntitiesIn(dir)), NEW t \in Seq(EntitiesIn(dir)),
         Ordered(s), Ordered(t), ToSet(s) = ToSet(t)
  PROVE  s = t
<1>1. /\ Len(s) \in Nat /\ DOMAIN s = 1..Len(s) /\ \A i \in 1..Len(s) : s[i] \in EntitiesIn(dir)
      /\ Len(t) \in Nat /\ DOMAIN t = 1..Len(t) /\ \A i \in 1..Len(t) : t[i] \in EntitiesIn(dir)
  BY LenProperties
<1> DEFINE k(e) == NameOrder[e[2]]
<1>2. \A x, y \in EntitiesIn(dir) : k(x) \in Int /\ (k(x) = k(y) => x = y)
  BY NamesOfEntities
<1> HIDE DEF k
<1>3. /\ \A i, j \in 1..Len(s) : i < j => k(s[i]) < k(s[j])
      /\ \A i, j \in 1..Len(t) : i < j => k(t[i]) < k(t[j])
  BY <1>1 DEF Ordered, k
<1>4. /\ \A i \in 1..Len(s) : \E j \in 1..Len(t) : s[i] = t[j]
      /\ \A j \in 1..Len(t) : \E i \in 1..Len(s) : s[i] = t[j]
  BY <1>1 DEF ToSet
<1> DEFINE Same(i) == /\ i <= Len(s) <=> i <= Len(t)
                      /\ i <= Len(s) => s[i] = t[i]
           S == {m \in Nat : \A i \in 1..m : Same(i)}
<1>5. 0 \in S
  OBVIOUS
<1>6. ASSUME NEW m \in Nat, m \in S PROVE m + 1 \in S
  <2>1. \A i \in 1..m : Same(i)
    BY <1>6
  <2>2. ASSUME m + 1 <= Len(s) PROVE m + 1 <= Len(t) /\ k(t[m + 1]) <= k(s[m + 1])
    <3>1. PICK j \in 1..Len(t) : s[m + 1] = t[j]
      BY <1>1, <1>4, <2>2
    <3>2. j > m
      <4>1. SUFFICES ASSUME j <= m PROVE FALSE
        BY <1>1
      <4>2. s[j] = t[j] /\ j \in 1..Len(s) /\ m + 1 \in 1..Len(s) /\ j < m + 1
        BY <1>1, <2>1, <2>2, <4>1
      <4>3. k(s[j]) < k(s[m + 1]) /\ k(s[j]) = k(s[m + 1]) /\ k(s[j]) \in Int
        BY <1>1, <1>2, <1>3, <3>1, <4>2
      <4>4. QED
        BY <4>3
    <3>3. m + 1 \in 1..Len(t) /\ m + 1 <= j
      BY <1>1, <3>2
    <3>4. CASE m + 1 = j
      BY <1>1, <1>2, <3>1, <3>3, <3>4
    <3>5. CASE m + 1 # j
      <4>1. k(t[m + 1]) < k(t[j]) /\ k(t[m + 1]) \in Int /\ k(t[j]) \in Int
        BY <1>1, <1>2, <1>3, <3>3, <3>5
      <4>2. QED
        BY <3>1, <3>3, <4>1
    <3>6. QED
      BY <3>4, <3>5
  <2>3. ASSUME m + 1 <= Len(t) PROVE m + 1 <= Len(s) /\ k(s[m + 1]) <= k(t[m + 1])
    <3>1. PICK j \in 1..Len(s) : t[m + 1] = s[j]
      BY <1>1, <1>4, <2>3
    <3>2. j > m
      <4>1. SUFFICES ASSUME j <= m PROVE FALSE
        BY <1>1
      <4>2. s[j] = t[j] /\ j \in 1..Len(t) /\ m + 1 \in 1..Len(t) /\ j < m + 1
        BY <1>1, <2>1, <2>3, <4>1
      <4>3. k(t[j]) < k(t[m + 1]) /\ k(t[j]) = k(t[m + 1]) /\ k(t[j]) \in Int
        BY <1>1, <1>2, <1>3, <3>1, <4>2
      <4>4. QED
        BY <4>3
    <3>3. m + 1 \in 1..Len(s) /\ m + 1 <= j
      BY <1>1, <3>2
    <3>4. CASE m + 1 = j
      BY <1>1, <1>2, <3>1, <3>3, <3>4
    <3>5. CASE m + 1 # j
      <4>1. k(s[m + 1]) < k(s[j]) /\ k(s[m + 1]) \in Int /\ k(s[j]) \in Int
        BY <1>1, <1>2, <1>3, <3>3, <3>5
      <4>2. QED
        BY <3>1, <3>3, <4>1
    <3>6. QED
      BY <3>4, <3>5
  <2>4. Same(m + 1)
    <3>1. m + 1 <= Len(s) <=> m + 1 <= Len(t)
      BY <2>2, <2>3
    <3>2. ASSUME m + 1 <= Len(s) PROVE s[m + 1] = t[m + 1]
      <4>1. m + 1 \in 1..Len(s) /\ m + 1 \in 1..Len(t)
        BY <1>1, <3>1, <3>2
      <4>2. k(s[m + 1]) \in Int /\ k(t[m + 1]) \in Int
        BY <1>1, <1>2, <4>1
      <4>3. k(s[m + 1]) = k(t[m + 1])
        BY <2>2, <2>3, <3>1, <3>2, <4>2
      <4>4. QED
        BY <1>1, <1>2, <4>1, <4>3
    <3>3. QED
      BY <3>1, <3>2
  <2>5. ASSUME NEW i \in 1..m + 1 PROVE Same(i)
    <3> HIDE DEF Same
    <3>1. CASE i = m + 1
      BY <2>4, <3>1
    <3>2. CASE i # m + 1
      BY <2>1, <3>2
    <3>3. QED
      BY <3>1, <3>2
  <2> HIDE DEF Same
  <2>6. QED
    BY <2>5
<1>7. \A m \in Nat : m \in S
  <2> HIDE DEF S
  <2>1. QED
    BY <1>5, <1>6, SetInduction
<1>8. \A i \in Nat \ {0} : Same(i)
  <2> HIDE DEF Same
  <2>1. \A i \in Nat \ {0} : i \in 1..i
    OBVIOUS
  <2>2. QED
    BY <1>7, <2>1
<1>9. Len(s) = Len(t)
  <2> HIDE DEF S
  <2>1. Len(s) \in Nat /\ Len(t) \in Nat
    BY <1>1
  <2>2. Len(s) # 0 => Len(s) <= Len(t)
    BY <1>8, <2>1
  <2>3. Len(t) # 0 => Len(t) <= Len(s)
    BY <1>8, <2>1
  <2> HIDE DEF Same
  <2>4. QED
    BY <2>1, <2>2, <2>3
<1>10. \A i \in 1..Len(s) : s[i] = t[i]
  BY <1>1, <1>8
<1>11. QED
  BY <1>9, <1>10, SeqEqual

-----------------------------------------------------------------------------
(* What a run lists *)

\* The output of a run is a stub from the moment it is looked at until it is written.
OwnStub ==
  /\ DOMAIN file = Outputs
  /\ pc \in {"create", "stub", "check"} => args.out # Stdout
  /\ pc # "idle" => args \in Arguments
  /\ pc \in {"check", "parse", "walk", "write"} /\ args.out # Stdout => file[args.out].text = "stub"

\* What is listed and what is still to be looked at are the entities; and what
\* earlier runs made lists all of them.
Listing ==
  /\ pc \notin {"walk", "write"} => tables = <<>>
  /\ pc = "walk" =>
       /\ todo \subseteq Objects
       /\ tables \in Seq(Entities(args)) /\ \A i, j \in DOMAIN tables : tables[i] = tables[j] => i = j
       /\ ToSet(tables) \cap todo = {}
       /\ ToSet(tables) \cup {t \in todo : walked[t].entity} = Entities(args)
  /\ pc = "write" =>
       tables \in Seq(Entities(args)) /\ Ordered(tables) /\ ToSet(tables) = Entities(args)
  /\ \A m \in made :
       /\ m.code.tables \in Seq(Entities(m.args)) /\ Ordered(m.code.tables)
       /\ ToSet(m.code.tables) = Entities(m.args)


LEMMA EntitiesOfSource ==
  ASSUME NEW a
  PROVE  Entities(a) \subseteq EntitiesIn(a.src)
BY DEF Entities, EntitiesIn

\* Steps that make nothing, and do not lead into the walk or go on with it.
Elsewhere ==
  /\ pc' \notin {"walk", "write"} /\ made' = made
  /\ tables' = <<>> \/ (tables' = tables /\ pc \notin {"walk", "write"})

LEMMA ElsewhereSteps ==
  ASSUME \/ \E a \in Arguments : Start(a)
         \/ CreateFails \/ Create \/ WriteStub \/ WriteStubFails
         \/ CheckPanics \/ Conflict \/ CheckPackage
         \/ ParseFails \/ ParsePanics \/ WalkPanics \/ WriteFails \/ Killed
  PROVE  Elsewhere
<1>1. (\E a \in Arguments : Start(a)) => Elsewhere
  BY DEF Start, Elsewhere
<1>2. CreateFails \/ Create \/ WriteStub \/ WriteStubFails => Elsewhere
  BY DEF CreateFails, Create, WriteStub, WriteStubFails, Elsewhere, Exit, Fault, history, pkgData
<1>3. CheckPanics \/ Conflict \/ CheckPackage => Elsewhere
  BY DEF CheckPanics, Conflict, CheckPackage, Elsewhere, Exit, history
<1>4. ParseFails \/ ParsePanics \/ WalkPanics => Elsewhere
  BY DEF ParseFails, ParsePanics, WalkPanics, Elsewhere, Exit, history
<1>5. WriteFails \/ Killed => Elsewhere
  BY DEF WriteFails, Killed, Elsewhere, Exit, Fault
<1>6. QED
  BY <1>1, <1>2, <1>3, <1>4, <1>5

LEMMA InitOwnStub == Init => OwnStub
BY DEF Init, OwnStub

LEMMA NextOwnStub == OwnStub /\ [Next]_vars => OwnStub'
<1> SUFFICES ASSUME OwnStub, [Next]_vars PROVE OwnStub'
  OBVIOUS
<1>1. ASSUME NEW a \in Arguments, Start(a) PROVE OwnStub'
  BY <1>1 DEF OwnStub, Start
<1>2. ASSUME CreateFails \/ Create \/ WriteStub \/ WriteStubFails PROVE OwnStub'
  <2>1. args' = args /\ args.out # Stdout /\ args \in Arguments /\ args.out \in Outputs
    BY <1>2, CommandAssumption DEF OwnStub, CreateFails, Create, WriteStub, WriteStubFails, Fault
  <2>2. CASE CreateFails
    BY <2>1, <2>2 DEF OwnStub, CreateFails, Exit
  <2>3. CASE Create
    BY <2>1, <2>3 DEF OwnStub, Create, Holds
  <2>4. CASE WriteStub
    BY <2>1, <2>4 DEF OwnStub, WriteStub, Holds
  <2>5. CASE WriteStubFails
    BY <2>1, <2>5 DEF OwnStub, WriteStubFails, Holds, Exit
  <2>6. QED
    BY <1>2, <2>2, <2>3, <2>4, <2>5
<1>3. ASSUME CheckPanics \/ Conflict \/ ParseFails \/ ParsePanics \/ WalkPanics \/ Killed PROVE OwnStub'
  BY <1>3 DEF OwnStub, CheckPanics, Conflict, ParseFails, ParsePanics, WalkPanics, Killed, Exit
<1>4. ASSUME CheckPackage \/ Parse \/ EndWalk PROVE OwnStub'
  BY <1>4 DEF OwnStub, CheckPackage, Parse, EndWalk
<1>5. ASSUME NEW t \in todo, Walk(t) PROVE OwnStub'
  BY <1>5 DEF OwnStub, Walk, Visit
<1>6. ASSUME Write \/ WriteFails PROVE OwnStub'
  <2>1. DOMAIN file' = Outputs /\ pc' = "idle"
    BY <1>6 DEF OwnStub, Write, WriteFails, Exit
  <2>2. QED
    BY <2>1 DEF OwnStub
<1>7. ASSUME UNCHANGED vars PROVE OwnStub'
  BY <1>7 DEF OwnStub, vars
<1>8. QED
  BY <1>1, <1>2, <1>3, <1>4, <1>5, <1>6, <1>7 DEF Next

\* ParseDir returns the package of the source's own types: if there are several,
\* go/build, which sees those types too, cannot have named another.
LEMMA ParsedPackage ==
  ASSUME NEW p \in ParsedPkgs, Several => p = AssumedName(args.src), ~SrcPanics, Objects # {}
  PROVE  p = PkgName[args.src]
<1>1. PICK t \in Objects : t[1] = args.src /\ t \in DOMAIN Decls
  BY DEF Objects
<1>2. PkgName[args.src] \in ParsedPkgs
  BY <1>1 DEF ParsedPkgs
<1>3. CASE ~Several
  BY <1>2, <1>3 DEF Several
<1>4. CASE Several
  <2>1. PkgName[args.src] \in BuildPkgs(args.src)
    BY <1>1 DEF BuildPkgs
  <2>2. \A x, y \in BuildPkgs(args.src) : x = y
    BY <1>4 DEF SrcPanics, AssumeImportPanics
  <2>3. p \in BuildPkgs(args.src)
    BY <1>4, <2>1 DEF AssumedName
  <2>4. QED
    BY <2>1, <2>2, <2>3
<1>5. QED
  BY <1>3, <1>4

LEMMA NextListing == Listing /\ [Next]_vars => Listing'
<1> SUFFICES ASSUME Listing, [Next]_vars PROVE Listing'
  OBVIOUS
<1>1. ASSUME Elsewhere PROVE Listing'
  BY <1>1 DEF Listing, Elsewhere
<1>2. ASSUME Parse PROVE Listing'
  <2>1. PICK p \in ParsedPkgs : /\ Several => p = AssumedName(args.src)
                                /\ todo' = {t \in Objects : PkgName[t[1]] = p}
    BY <1>2 DEF Parse
  <2>2. todo' = Objects
    <3>1. CASE Objects = {}
      BY <2>1, <3>1
    <3>2. CASE Objects # {}
      <4>1. p = PkgName[args.src]
        BY <1>2, <2>1, <3>2, ParsedPackage DEF Parse
      <4>2. \A t \in Objects : t[1] = args.src
        BY DEF Objects
      <4>3. QED
        BY <2>1, <4>1, <4>2
    <3>3. QED
      BY <3>1, <3>2
  <2>3. /\ pc = "parse" /\ pc' = "walk" /\ tables' = tables /\ args' = args /\ made' = made
    BY <1>2 DEF Parse, history
  <2>4. tables = <<>> /\ ToSet(<<>>) = {} /\ DOMAIN <<>> = {} /\ <<>> \in Seq(Entities(args))
    BY <2>3, EmptySeq DEF Listing, ToSet
  <2>5. Objects' = Objects
    BY <2>3 DEF Objects, Excluded
  <2>6. {t \in Objects : walked[t].entity} = Entities(args)
    BY DEF Objects, Excluded, Entities
  <2>7. QED
    BY <2>2, <2>3, <2>4, <2>5, <2>6 DEF Listing
<1>3. ASSUME NEW t \in todo, Walk(t) PROVE Listing'
  <2>1. /\ pc = "walk" /\ pc' = "walk" /\ args' = args /\ made' = made /\ todo' = todo \ {t}
        /\ IF walked[t].entity THEN tables' = Append(tables, t) ELSE tables' = tables
    BY <1>3 DEF Walk, Visit, history
  <2> DEFINE E == Entities(args)
  <2>2. /\ todo \subseteq Objects /\ tables \in Seq(E)
        /\ \A i, j \in DOMAIN tables : tables[i] = tables[j] => i = j
        /\ ToSet(tables) \cap todo = {} /\ ToSet(tables) \cup {x \in todo : walked[x].entity} = E
    BY <2>1 DEF Listing
  <2>3. Objects' = Objects /\ Entities(args)' = E
    BY <2>1 DEF Objects, Excluded, Entities
  <2> HIDE DEF E
  <2>4. CASE walked[t].entity
    <3>1. t \in E /\ tables' = Append(tables, t)
      BY <2>1, <2>2, <2>4
    <3>2. tables' \in Seq(E) /\ ToSet(tables') = ToSet(tables) \cup {t}
      BY <2>2, <3>1, AppendProperties, AppendedToSet
    <3>3. /\ DOMAIN tables = 1..Len(tables) /\ Len(tables) \in Nat
          /\ DOMAIN tables' = 1..Len(tables) + 1 /\ tables'[Len(tables) + 1] = t
          /\ \A i \in 1..Len(tables) : tables'[i] = tables[i]
      BY <2>2, <3>1, <3>2, LenProperties, AppendProperties
    <3>4. \A i \in 1..Len(tables) : tables[i] # t
      BY <2>2, <3>3 DEF ToSet
    <3>5. \A i, j \in DOMAIN tables' : tables'[i] = tables'[j] => i = j
      <4>1. \A i \in DOMAIN tables' : i # Len(tables) + 1 => i \in 1..Len(tables)
        BY <3>3
      <4>2. QED
        BY <2>2, <3>3, <3>4, <4>1
    <3>6. /\ ToSet(tables)' \cap todo' = {}
          /\ ToSet(tables)' \cup {x \in todo' : walked[x].entity} = E
      <4>1. ToSet(tables)' = ToSet(tables')
        BY DEF ToSet
      <4>2. QED
        BY <2>1, <2>2, <3>1, <3>2, <4>1
    <3>7. QED
      BY <2>1, <2>2, <2>3, <3>2, <3>5, <3>6 DEF Listing
  <2>5. CASE ~walked[t].entity
    <3>1. tables' = tables
      BY <2>1, <2>5
    <3>2. ToSet(tables)' = ToSet(tables)
      BY <3>1 DEF ToSet
    <3>3. {x \in todo' : walked[x].entity} = {x \in todo : walked[x].entity}
      BY <2>1, <2>5
    <3>4. QED
      BY <2>1, <2>2, <2>3, <3>1, <3>2, <3>3 DEF Listing
  <2>6. QED
    BY <2>4, <2>5
<1>4. ASSUME EndWalk PROVE Listing'
  <2>1. /\ pc = "walk" /\ pc' = "write" /\ args' = args /\ made' = made /\ todo = {} /\ tables' = Sorted(tables)
    BY <1>4 DEF EndWalk, history
  <2> DEFINE E == Entities(args)
  <2>2. /\ tables \in Seq(E) /\ ToSet(tables) = E
        /\ \A i, j \in DOMAIN tables : tables[i] = tables[j] => i = j
    BY <2>1 DEF Listing
  <2>3. Entities(args)' = E /\ E \subseteq EntitiesIn(args.src)
    BY <2>1, EntitiesOfSource DEF Entities
  <2> HIDE DEF E
  <2>4. tables' \in Seq(E) /\ ToSet(tables') = E /\ Ordered(tables')
    BY <2>1, <2>2, <2>3, SortedTables
  <2>5. ToSet(tables)' = ToSet(tables') /\ Ordered(tables)' = Ordered(tables')
    BY DEF ToSet, Ordered
  <2>6. QED
    BY <2>1, <2>3, <2>4, <2>5 DEF Listing
<1>5. ASSUME Write PROVE Listing'
  <2>1. /\ pc = "write" /\ pc' = "idle" /\ tables' = <<>> /\ made' = made \cup {[args |-> args, code |-> Code]}
    BY <1>5 DEF Write, Exit
  <2>2. Code.tables = tables
    BY DEF Code
  <2>3. tables \in Seq(Entities(args)) /\ Ordered(tables) /\ ToSet(tables) = Entities(args)
    BY <2>1 DEF Listing
  <2> DEFINE new == [args |-> args, code |-> Code]
  <2>4. new.args = args /\ new.code.tables = tables
    BY <2>2
  <2> HIDE DEF new
  <2>5. \A m \in made' : /\ m.code.tables \in Seq(Entities(m.args)) /\ Ordered(m.code.tables)
                         /\ ToSet(m.code.tables) = Entities(m.args)
    BY <2>1, <2>3, <2>4 DEF Listing, new
  <2>6. QED
    BY <2>1, <2>5 DEF Listing
<1>6. ASSUME UNCHANGED vars PROVE Listing'
  BY <1>6 DEF Listing, vars, Objects, Excluded
<1>7. QED
  BY <1>1, <1>2, <1>3, <1>4, <1>5, <1>6, ElsewhereSteps DEF Next

LEMMA InitListing == Init => Listing
<1> SUFFICES ASSUME Init PROVE Listing
  OBVIOUS
<1>1. pc = "idle" /\ tables = <<>> /\ made = {}
  BY DEF Init
<1>2. QED
  BY <1>1 DEF Listing

LEMMA ListingInvariant == Spec => [](OwnStub /\ Listing)
<1>1. QED
  BY InitOwnStub, NextOwnStub, InitListing, NextListing, PTL DEF Spec

\* However the maps come and whatever happened before, a run that ends well lists
\* every entity of its source once, in the order of their names (generator.go:130-160).
THEOREM ListsEveryEntity == Spec => []EveryEntityOnce
<1>1. Listing => EveryEntityOnce
  BY DEF Listing, EveryEntityOnce, Ordered
<1>2. QED
  BY <1>1, ListingInvariant, PTL

-----------------------------------------------------------------------------
(* What a run writes *)

\* Every source has a type that does not depend on what a run writes.
SourcesHaveTypes ==
  \A a \in Arguments : \E t \in DOMAIN Decls : t[1] = a.src /\ Decls[t].file # a.out.name

\* The packages of a directory, whatever was written to it, and what is assumed to be its package.
OwnPkgs(dir) ==
  {PkgName[t[1]] : t \in {d \in DOMAIN Decls : d[1] = dir}} \cup {p.name : p \in {q \in OtherPkgs[dir] : ~q.test}}
DirPkg(dir) == IF OwnPkgs(dir) = {} THEN BaseName[dir] ELSE CHOOSE p \in OwnPkgs(dir) : TRUE

\* OutPkgName before and after ParseDir, and pkgData.Imports with the tables T.
GivenPkg(a) == IF a.out = Stdout \/ a.out.dir = a.src THEN a.p ELSE DirPkg(a.out.dir)
CodePkg(a) == IF GivenPkg(a) = "" THEN PkgName[a.src] ELSE GivenPkg(a)
FirstImports(a) ==
  {[name |-> "", path |-> i] : i \in RequiredImports}
    \cup (IF GivenPkg(a) = "" THEN {} ELSE {[name |-> ".", path |-> a.src]})
ImportsWith(a, T) ==
  FirstImports(a) \cup
    {[name |-> SafeName[i], path |-> i] :
       i \in {j \in UNION {ToSet(walked[t].imports) : t \in T} : \A other \in FirstImports(a) : other.path # j}}

\* A directory with no package of its own gets the one its name says.
NamedByDirectory ==
  \A o \in Outputs :
    OwnPkgs(o.dir) = {} /\ file[o].text \in {"code", "cut"} => file[o].package = BaseName[o.dir]

\* What a run has so far follows from its arguments and the tables it listed.
Determined ==
  /\ pc \in {"create", "stub", "check"} => pkgName = args.p
  /\ pc = "parse" => pkgName = GivenPkg(args)
  /\ pc \in {"walk", "write"} => pkgName = CodePkg(args) /\ imports = ImportsWith(args, ToSet(tables))
  /\ \A m \in made :
       /\ m.args \in Arguments
       /\ m.code = [text |-> "code", package |-> CodePkg(m.args),
                    imports |-> ImportsWith(m.args, Entities(m.args)), tables |-> m.code.tables]

LEMMA InitDetermined == Init => Determined /\ NamedByDirectory
<1> SUFFICES ASSUME Init PROVE Determined /\ NamedByDirectory
  OBVIOUS
<1>1. pc = "idle" /\ made = {} /\ \A o \in Outputs : file[o].text = "none"
  BY DEF Init
<1>2. Determined
  BY <1>1 DEF Determined
<1>3. NamedByDirectory
  BY <1>1 DEF NamedByDirectory
<1>4. QED
  BY <1>2, <1>3

\* What AssumeImport says of a directory, whenever it says anything.
LEMMA AssumedPkg ==
  ASSUME OwnStub, NamedByDirectory, NEW dir, ~AssumeImportPanics(dir)
  PROVE  AssumedName(dir) = DirPkg(dir)
<1> DEFINE files == {file[o].package : o \in Written(dir, {"code", "cut"})}
<1>1. BuildPkgs(dir) = OwnPkgs(dir) \cup files
  BY DEF BuildPkgs, OwnPkgs
<1>2. \A x, y \in BuildPkgs(dir) : x = y
  BY DEF AssumeImportPanics
<1>3. OwnPkgs(dir) = {} => \A x \in files : x = BaseName[dir]
  BY DEF NamedByDirectory, Written
<1> HIDE DEF files
<1>4. CASE OwnPkgs(dir) = {}
  <2>1. DirPkg(dir) = BaseName[dir]
    BY <1>4 DEF DirPkg
  <2>2. CASE BuildPkgs(dir) = {}
    BY <2>1, <2>2 DEF AssumedName
  <2>3. CASE BuildPkgs(dir) # {}
    <3>1. AssumedName(dir) \in BuildPkgs(dir)
      BY <2>3 DEF AssumedName
    <3>2. QED
      BY <1>1, <1>3, <1>4, <2>1, <3>1
  <2>4. QED
    BY <2>2, <2>3
<1>5. CASE OwnPkgs(dir) # {}
  <2>1. DirPkg(dir) \in OwnPkgs(dir)
    BY <1>5 DEF DirPkg
  <2>2. AssumedName(dir) \in BuildPkgs(dir)
    BY <1>1, <1>5 DEF AssumedName
  <2>3. QED
    BY <1>1, <1>2, <2>1, <2>2
<1>6. QED
  BY <1>4, <1>5

\* The imports I with those of t, as AddImports adds them.
Added(I, t) ==
  I \cup {[name |-> SafeName[i], path |-> i] :
             i \in {j \in ToSet(walked[t].imports) : \A other \in I : other.path # j}}

\* Importing for one table after the other comes to importing for all of them.
LEMMA MoreImports ==
  ASSUME NEW a, NEW T, NEW t
  PROVE  ImportsWith(a, T \cup {t}) = Added(ImportsWith(a, T), t)
<1> DEFINE F == FirstImports(a)
           New(J) == {[name |-> SafeName[i], path |-> i] : i \in {j \in J : \A other \in F : other.path # j}}
           J == UNION {ToSet(walked[u].imports) : u \in T}
           K == ToSet(walked[t].imports)
           added == {[name |-> SafeName[i], path |-> i] :
                       i \in {j \in K : \A other \in F \cup New(J) : other.path # j}}
<1>1. UNION {ToSet(walked[u].imports) : u \in T \cup {t}} = J \cup K
  OBVIOUS
<1>2. ImportsWith(a, T) = F \cup New(J) /\ ImportsWith(a, T \cup {t}) = F \cup New(J \cup K)
  BY <1>1 DEF ImportsWith
<1> HIDE DEF F, J, K
<1>3. New(J \cup K) = New(J) \cup New(K)
  OBVIOUS
<1>4. added \subseteq New(K)
  OBVIOUS
<1>5. ASSUME NEW x \in New(K) PROVE x \in F \cup New(J) \cup added
  <2>1. PICK i \in K : x = [name |-> SafeName[i], path |-> i] /\ \A other \in F : other.path # i
    OBVIOUS
  <2>2. CASE \E other \in New(J) : other.path = i
    <3>1. PICK j \in J : i = j /\ \A other \in F : other.path # j
      BY <2>2
    <3>2. QED
      BY <2>1, <3>1
  <2>3. CASE ~\E other \in New(J) : other.path = i
    BY <2>1, <2>3
  <2>4. QED
    BY <2>2, <2>3
<1>6. F \cup New(J \cup K) = F \cup New(J) \cup added
  <2> HIDE DEF New, added
  <2>1. QED
    BY <1>3, <1>4, <1>5
<1>7. Added(ImportsWith(a, T), t) = (F \cup New(J)) \cup added
  BY <1>2 DEF K, Added
<1>8. QED
  BY <1>2, <1>6, <1>7

\* What is written to a directory with no package of its own.
LEMMA NamedCode ==
  ASSUME SourcesHaveTypes, NEW a \in Arguments, a.out \in Outputs, OwnPkgs(a.out.dir) = {}
  PROVE  CodePkg(a) = BaseName[a.out.dir]
<1>1. PICK t \in DOMAIN Decls : t[1] = a.src
  BY DEF SourcesHaveTypes
<1>2. PkgName[a.src] \in OwnPkgs(a.src)
  BY <1>1 DEF OwnPkgs
<1>3. a.out.dir # a.src /\ a.out # Stdout
  BY <1>2, CommandAssumption
<1>4. GivenPkg(a) = BaseName[a.out.dir]
  BY <1>3 DEF GivenPkg, DirPkg
<1>5. BaseName[a.out.dir] # ""
  BY CommandAssumption
<1>6. QED
  BY <1>4, <1>5 DEF CodePkg

LEMMA NextNamed ==
  ASSUME SourcesHaveTypes, OwnStub, Determined, NamedByDirectory, [Next]_vars
  PROVE  NamedByDirectory'
<1>1. CASE file' = file
  BY <1>1 DEF NamedByDirectory
<1>2. ASSUME NEW held, file' = [file EXCEPT ![args.out] = [text |-> held]], held \notin {"code", "cut"}
      PROVE  NamedByDirectory'
  BY <1>2 DEF NamedByDirectory, OwnStub
<1>3. CASE CreateFails \/ Create \/ WriteStub \/ WriteStubFails
  BY <1>1, <1>2, <1>3 DEF CreateFails, Create, WriteStub, WriteStubFails, Holds
<1>4. CASE Write \/ WriteFails
  <2>1. pc = "write" /\ args \in Arguments /\ pkgName = CodePkg(args)
    BY <1>4 DEF Write, WriteFails, OwnStub, Determined
  <2>2. CASE args.out = Stdout
    BY <1>1, <1>4, <2>2 DEF Write, WriteFails
  <2>3. CASE args.out # Stdout
    <3>1. args.out \in Outputs
      BY <2>1, <2>3, CommandAssumption
    <3>2. PICK left : /\ file' = [file EXCEPT ![args.out] = left]
                      /\ left.text \in {"code", "cut"} => left.package = pkgName
      BY <1>4, <2>3 DEF Write, WriteFails, Code
    <3>3. OwnPkgs(args.out.dir) = {} => pkgName = BaseName[args.out.dir]
      BY <2>1, <3>1, NamedCode
    <3>4. ASSUME NEW o \in Outputs, OwnPkgs(o.dir) = {}, file'[o].text \in {"code", "cut"}
          PROVE  file'[o].package = BaseName[o.dir]
      <4>1. CASE o = args.out
        <5>1. file'[o] = left
          BY <3>2, <4>1 DEF OwnStub
        <5>2. QED
          BY <3>2, <3>3, <3>4, <4>1, <5>1
      <4>2. CASE o # args.out
        <5>1. file'[o] = file[o]
          BY <3>2, <4>2 DEF OwnStub
        <5>2. QED
          BY <3>4, <5>1 DEF NamedByDirectory
      <4>3. QED
        BY <4>1, <4>2
    <3>5. QED
      BY <3>4 DEF NamedByDirectory, OwnPkgs
  <2>4. QED
    BY <2>2, <2>3
<1>5. CASE \E a \in Arguments : Start(a)
  BY <1>1, <1>5 DEF Start
<1>6. CASE CheckPanics \/ Conflict \/ CheckPackage \/ ParseFails \/ ParsePanics \/ Parse
  BY <1>1, <1>6 DEF CheckPanics, Conflict, CheckPackage, ParseFails, ParsePanics, Parse
<1>7. CASE (\E t \in todo : Walk(t)) \/ WalkPanics \/ EndWalk \/ Killed
  BY <1>1, <1>7 DEF Walk, Visit, WalkPanics, EndWalk, Killed
<1>8. CASE UNCHANGED vars
  BY <1>1, <1>8 DEF vars
<1>9. QED
  BY <1>3, <1>4, <1>5, <1>6, <1>7, <1>8 DEF Next

LEMMA NextDetermined ==
  ASSUME SourcesHaveTypes, OwnStub, Listing, Determined, NamedByDirectory, [Next]_vars
  PROVE  Determined'
<1>1. ASSUME NEW a \in Arguments, Start(a) PROVE Determined'
  <2>1. /\ args' = a /\ pkgName' = a.p /\ made' = made
        /\ pc' = IF a.out = Stdout THEN "parse" ELSE "create"
    BY <1>1 DEF Start
  <2>2. a.out = Stdout => GivenPkg(a) = a.p
    BY DEF GivenPkg
  <2>3. QED
    BY <2>1, <2>2 DEF Determined
<1>2. ASSUME Create \/ WriteStub PROVE Determined'
  BY <1>2 DEF Determined, Create, WriteStub, history, pkgData
<1>3. ASSUME pc' = "idle", made' = made PROVE Determined'
  BY <1>3 DEF Determined
<1>4. ASSUME CheckPackage PROVE Determined'
  <2>1. /\ pc = "check" /\ pc' = "parse" /\ args' = args /\ made' = made
        /\ pkgName' = IF Beside THEN args.p ELSE AssumedName(args.out.dir)
        /\ ~Beside => ~AssumeImportPanics(args.out.dir)
    BY <1>4 DEF CheckPackage, history
  <2>2. args.out # Stdout
    BY <2>1 DEF OwnStub
  <2>3. pkgName' = GivenPkg(args)
    BY <2>1, <2>2, AssumedPkg DEF GivenPkg, Beside
  <2>4. QED
    BY <2>1, <2>3 DEF Determined
<1>5. ASSUME Parse PROVE Determined'
  <2>1. /\ pc = "parse" /\ pc' = "walk" /\ args' = args /\ made' = made /\ tables' = tables /\ tables = <<>>
        /\ pkgName = GivenPkg(args) /\ ~SrcPanics /\ args \in Arguments
        /\ imports' = {[name |-> "", path |-> i] : i \in RequiredImports}
                        \cup (IF pkgName = "" THEN {} ELSE {[name |-> ".", path |-> args.src]})
    BY <1>5 DEF Parse, history, Determined, Listing, OwnStub
  <2>2. PICK p \in ParsedPkgs : /\ Several => p = AssumedName(args.src)
                                /\ pkgName' = IF pkgName = "" THEN p ELSE pkgName
    BY <1>5 DEF Parse
  <2>3. Objects # {}
    BY <2>1 DEF SourcesHaveTypes, Objects, Excluded
  <2>4. p = PkgName[args.src]
    BY <2>1, <2>2, <2>3, ParsedPackage
  <2>5. pkgName' = CodePkg(args)
    BY <2>1, <2>2, <2>4 DEF CodePkg
  <2>6. imports' = FirstImports(args)
    BY <2>1 DEF FirstImports
  <2>7. ToSet(tables)' = {}
    <3>1. tables' = <<>>
      BY <2>1
    <3>2. DOMAIN <<>> = {}
      BY EmptySeq
    <3>3. QED
      BY <3>1, <3>2 DEF ToSet
  <2>8. ImportsWith(args, {}) = FirstImports(args)
    BY DEF ImportsWith
  <2>9. imports' = ImportsWith(args, ToSet(tables))'
    BY <2>1, <2>6, <2>7, <2>8 DEF ImportsWith, FirstImports, GivenPkg
  <2>10. QED
    BY <2>1, <2>5, <2>9 DEF Determined
<1>6. ASSUME NEW t \in todo, Walk(t) PROVE Determined'
  <2>1. /\ pc = "walk" /\ pc' = "walk" /\ args' = args /\ made' = made /\ pkgName' = pkgName
        /\ pkgName = CodePkg(args) /\ imports = ImportsWith(args, ToSet(tables))
        /\ IF walked[t].entity
           THEN tables' = Append(tables, t) /\ imports' = AddImports(walked[t].imports)
           ELSE tables' = tables /\ imports' = imports
    BY <1>6 DEF Walk, Visit, history, Determined
  <2> DEFINE E == Entities(args)
             T == ToSet(tables)
  <2>2. imports' = ImportsWith(args, ToSet(tables)')
    <3>1. CASE walked[t].entity
      <4>1. t \in E /\ tables \in Seq(E)
        BY <2>1, <3>1 DEF Listing
      <4> HIDE DEF E
      <4>2. ToSet(tables') = T \cup {t}
        <5>1. tables' = Append(tables, t)
          BY <2>1, <3>1
        <5>2. ToSet(Append(tables, t)) = ToSet(tables) \cup {t}
          BY <4>1, AppendedToSet
        <5>3. QED
          BY <5>1, <5>2
      <4>3. ToSet(tables)' = ToSet(tables')
        BY DEF ToSet
      <4>4. AddImports(walked[t].imports) = Added(ImportsWith(args, T), t)
        BY <2>1 DEF AddImports, Added
      <4>5. AddImports(walked[t].imports) = ImportsWith(args, T \cup {t})
        BY <4>4, MoreImports
      <4>6. QED
        BY <2>1, <3>1, <4>2, <4>3, <4>5
    <3>2. CASE ~walked[t].entity
      BY <2>1, <3>2 DEF ToSet
    <3>3. QED
      BY <3>1, <3>2
  <2>3. imports' = ImportsWith(args, ToSet(tables))'
    BY <2>1, <2>2 DEF ImportsWith, FirstImports, GivenPkg
  <2>4. QED
    BY <2>1, <2>3 DEF Determined
<1>7. ASSUME EndWalk PROVE Determined'
  <2>1. /\ pc = "walk" /\ pc' = "write" /\ args' = args /\ made' = made /\ pkgName' = pkgName
        /\ todo = {} /\ imports' = imports
        /\ pkgName = CodePkg(args) /\ imports = ImportsWith(args, ToSet(tables))
    BY <1>7 DEF EndWalk, history, Determined
  <2>2. ToSet(tables) = Entities(args)
    BY <2>1 DEF Listing
  <2>3. Listing'
    BY NextListing
  <2>4. ToSet(tables)' = Entities(args)
    BY <2>1, <2>3 DEF Listing, Entities
  <2>5. imports' = ImportsWith(args, ToSet(tables))'
    BY <2>1, <2>2, <2>4 DEF ImportsWith, FirstImports, GivenPkg
  <2>6. QED
    BY <2>1, <2>5 DEF Determined
<1>8. ASSUME Write PROVE Determined'
  <2> DEFINE new == [args |-> args, code |-> Code]
  <2>1. /\ pc = "write" /\ pc' = "idle" /\ made' = made \cup {new} /\ args \in Arguments
        /\ pkgName = CodePkg(args) /\ imports = ImportsWith(args, ToSet(tables))
        /\ ToSet(tables) = Entities(args)
    BY <1>8 DEF Write, Exit, Determined, Listing, OwnStub
  <2>2. /\ new.args \in Arguments
        /\ new.code = [text |-> "code", package |-> CodePkg(new.args),
                       imports |-> ImportsWith(new.args, Entities(new.args)), tables |-> new.code.tables]
    BY <2>1 DEF Code
  <2> HIDE DEF new
  <2>3. QED
    BY <2>1, <2>2 DEF Determined
<1>9. ASSUME UNCHANGED vars PROVE Determined'
  <2>1. ToSet(tables)' = ToSet(tables)
    BY <1>9 DEF vars, ToSet
  <2>2. QED
    BY <1>9, <2>1 DEF Determined, vars, ImportsWith, FirstImports, GivenPkg
<1>10. CASE CreateFails \/ WriteStubFails \/ CheckPanics \/ Conflict \/ WriteFails \/ Killed
  BY <1>3, <1>10 DEF CreateFails, WriteStubFails, CheckPanics, Conflict, WriteFails, Killed, Exit, Fault, history
<1>11. CASE ParseFails \/ ParsePanics \/ WalkPanics
  BY <1>3, <1>11 DEF ParseFails, ParsePanics, WalkPanics, Exit, history
<1>12. QED
  BY <1>1, <1>2, <1>4, <1>5, <1>6, <1>7, <1>8, <1>9, <1>10, <1>11 DEF Next

\* Whatever failed or was killed or written in between, and in whatever order the
\* maps came, runs with the same arguments make the same code (generator.go:155).
\* The sources must have types of their own: a run on a directory that holds
\* generated files only takes its package from them.
THEOREM RerunsMakeTheSame ==
  ASSUME SourcesHaveTypes
  PROVE  Spec => []RerunsAgree
<1> DEFINE RunInv == OwnStub /\ Listing /\ Determined /\ NamedByDirectory
<1>1. Init => RunInv
  BY InitOwnStub, InitListing, InitDetermined
<1>2. RunInv /\ [Next]_vars => RunInv'
  BY NextOwnStub, NextListing, NextDetermined, NextNamed
<1>3. RunInv => RerunsAgree
  <2> SUFFICES ASSUME Listing, Determined, NEW m \in made, NEW n \in made, m.args = n.args
               PROVE  m.code = n.code
    BY DEF RerunsAgree
  <2> DEFINE dir == m.args.src
  <2>1. m.code.tables \in Seq(EntitiesIn(dir)) /\ n.code.tables \in Seq(EntitiesIn(dir))
    BY EntitiesOfSource, SeqMonotonic DEF Listing
  <2>2. /\ Ordered(m.code.tables) /\ Ordered(n.code.tables)
        /\ ToSet(m.code.tables) = ToSet(n.code.tables)
    BY DEF Listing
  <2> HIDE DEF dir
  <2>3. m.code.tables = n.code.tables
    BY <2>1, <2>2, OneOrder
  <2>4. QED
    BY <2>3 DEF Determined
<1> HIDE DEF RunInv
<1>4. QED
  BY <1>1, <1>2, <1>3, PTL DEF Spec

-----------------------------------------------------------------------------
(* When a run fails *)

\* The files that are there before goen runs agree on the package of their directory.
OnePackageEach ==
  \A dir \in {o.dir : o \in Outputs} \cup {a.src : a \in Arguments} :
    \A q \in OtherPkgs[dir] : ~q.test => q.name = PkgName[dir]

\* What can be to blame on the other files of the two directories.
OthersToBlame ==
  \E o \in Outputs \ {args.out} :
    /\ o.dir \in {args.src, args.out.dir}
    /\ \/ file[o].text \in {"broken", "cut"}
       \/ file[o].text = "code" /\ file[o].package # PkgName[o.dir]

\* AssumeImport panics at other files only: the run's own output is a stub by then.
LEMMA PanicsForOthers ==
  ASSUME OnePackageEach, OwnStub, pc \in {"check", "parse"},
         NEW dir \in {args.src, args.out.dir}, pc = "check" \/ dir = args.src, AssumeImportPanics(dir)
  PROVE  OthersToBlame
<1>1. \A o \in Outputs : o = args.out => file[o].text = "stub"
  BY CommandAssumption DEF OwnStub
<1>2. CASE Written(dir, {"broken"}) # {}
  <2>1. PICK o \in Outputs : o.dir = dir /\ file[o].text = "broken"
    BY <1>2 DEF Written
  <2>2. QED
    BY <1>1, <2>1 DEF OthersToBlame
<1>3. CASE \E p, q \in BuildPkgs(dir) : p # q
  <2>1. PICK p \in BuildPkgs(dir) : p # PkgName[dir]
    BY <1>3
  <2>2. dir \in {o.dir : o \in Outputs} \cup {a.src : a \in Arguments}
    BY CommandAssumption DEF OwnStub
  <2>3. \E o \in Written(dir, {"code", "cut"}) : file[o].package = p
    BY <2>1, <2>2 DEF BuildPkgs, OnePackageEach
  <2>4. PICK o \in Outputs : o.dir = dir /\ file[o].text \in {"code", "cut"} /\ file[o].package = p
    BY <2>3 DEF Written
  <2>5. o # args.out
    BY <1>1, <2>4
  <2>6. QED
    BY <2>1, <2>4, <2>5 DEF OthersToBlame
<1>4. QED
  BY <1>2, <1>3 DEF AssumeImportPanics

\* OwnOutputIsHarmless, with what a failure may be about under one name each.
Excused ==
  \/ \E t \in Objects : walked[t].panics
  \/ Objects = {}
  \/ exit = 128 /\ ~Beside /\ args.p # ""
  \/ OthersToBlame

LEMMA NextHarmless ==
  ASSUME OnePackageEach, OwnStub, Listing, pc = "idle" /\ exit # 0 /\ ~failed => Excused, [Next]_vars,
         pc' = "idle", exit' # 0, ~failed'
  PROVE  Excused'
<1>1. ASSUME OthersToBlame, args' = args, file' = file PROVE Excused'
  BY <1>1 DEF OthersToBlame, Excused
<1>2. ASSUME args' = args PROVE Objects' = Objects
  BY <1>2 DEF Objects, Excluded
<1>3. CASE CheckPanics
  <2>1. pc = "check" /\ args' = args /\ file' = file /\ AssumeImportPanics(args.out.dir)
    BY <1>3 DEF CheckPanics
  <2>2. OthersToBlame
    BY <2>1, PanicsForOthers
  <2>3. QED
    BY <1>1, <2>1, <2>2
<1>4. CASE Conflict
  BY <1>4 DEF Conflict, Excused, Beside, Exit
<1>5. CASE ParseFails
  <2>1. pc = "parse" /\ args' = args /\ file' = file
    BY <1>5 DEF ParseFails
  <2>2. CASE ParsesNot
    <3>1. PICK o \in Outputs : o.dir = args.src /\ file[o].text \in {"broken", "cut"} /\ o.name # args.out.name
      BY <2>2 DEF ParsesNot, Written, Excluded
    <3>2. OthersToBlame
      BY <3>1 DEF OthersToBlame
    <3>3. QED
      BY <1>1, <2>1, <3>2
  <2>3. CASE ~AssumeImportPanics(args.src) /\ AssumedName(args.src) \notin ParsedPkgs
    <3>1. Objects = {}
      <4>1. SUFFICES ASSUME NEW t \in Objects PROVE FALSE
        OBVIOUS
      <4>2. t[1] = args.src /\ t \in DOMAIN Decls
        BY DEF Objects
      <4>3. PkgName[args.src] \in ParsedPkgs /\ PkgName[args.src] \in BuildPkgs(args.src)
        BY <4>2 DEF ParsedPkgs, BuildPkgs
      <4>4. AssumedName(args.src) \in BuildPkgs(args.src)
        BY <4>3 DEF AssumedName
      <4>5. QED
        BY <2>3, <4>3, <4>4 DEF AssumeImportPanics
    <3>2. QED
      BY <1>2, <2>1, <3>1 DEF Excused
  <2>4. QED
    BY <1>5, <2>2, <2>3 DEF ParseFails
<1>6. CASE ParsePanics
  <2>1. pc = "parse" /\ args' = args /\ file' = file /\ (ParsedPkgs = {} \/ SrcPanics)
    BY <1>6 DEF ParsePanics
  <2>2. CASE ParsedPkgs = {}
    <3>1. Objects = {}
      BY <2>2 DEF ParsedPkgs
    <3>2. QED
      BY <1>2, <2>1, <3>1 DEF Excused
  <2>3. CASE SrcPanics
    <3>1. OthersToBlame
      BY <2>1, <2>3, PanicsForOthers DEF SrcPanics
    <3>2. QED
      BY <1>1, <2>1, <3>1
  <2>4. QED
    BY <2>1, <2>2, <2>3
<1>7. CASE WalkPanics
  <2>1. pc = "walk" /\ args' = args /\ \E t \in todo : walked[t].panics
    BY <1>7 DEF WalkPanics
  <2>2. todo \subseteq Objects
    BY <2>1 DEF Listing
  <2>3. QED
    BY <1>2, <2>1, <2>2 DEF Excused
<1>8. CASE UNCHANGED vars
  <2>1. Excused
    BY <1>8 DEF vars
  <2>2. QED
    BY <1>8, <2>1 DEF vars, Excused, OthersToBlame, Objects, Excluded, Beside
<1>9. ~CreateFails /\ ~WriteStubFails /\ ~WriteFails /\ ~Killed /\ ~Write
  BY DEF CreateFails, WriteStubFails, WriteFails, Killed, Write, Fault, Exit
<1>10. ~(\E a \in Arguments : Start(a)) /\ ~Create /\ ~WriteStub /\ ~CheckPackage
  BY DEF Start, Create, WriteStub, CheckPackage
<1>11. ~Parse /\ ~(\E t \in todo : Walk(t)) /\ ~EndWalk
  BY DEF Parse, Walk, EndWalk
<1>12. QED
  BY <1>3, <1>4, <1>5, <1>6, <1>7, <1>8, <1>9, <1>10, <1>11 DEF Next

\* A run in which no call failed never fails for what failed or killed runs left
\* in its own output (main.go:137): it is a stub when it is looked at.  Files that
\* were there before and disagree on their package are to blame themselves.
THEOREM FailsForOthersOnly ==
  ASSUME OnePackageEach
  PROVE  Spec => []OwnOutputIsHarmless
<1> DEFINE Harmless == pc = "idle" /\ exit # 0 /\ ~failed => Excused
           RunInv == OwnStub /\ Listing /\ Harmless
<1>1. Init => RunInv
  BY InitOwnStub, InitListing DEF Init
<1>2. RunInv /\ [Next]_vars => RunInv'
  BY NextOwnStub, NextListing, NextHarmless
<1>3. RunInv => OwnOutputIsHarmless
  BY DEF Excused, OthersToBlame, OwnOutputIsHarmless
<1> HIDE DEF RunInv
<1>4. QED
  BY <1>1, <1>2, <1>3, PTL DEF Spec

=============================================================================
