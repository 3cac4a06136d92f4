------------------------- MODULE SlamTimerListProof -------------------------
(***************************************************************************)
(* For any number of timers, all intervals and whatever Lua creates and    *)
(* removes from the callbacks: the links of slam_timer_list.c form one     *)
(* ordered doubly linked list of the nodes that are allocated.             *)
(***************************************************************************)
EXTENDS SlamTimerList, FiniteSetTheorems, NaturalsInduction, WellFoundedInduction, TLAPS

Links == [head : Ref \cup {Null}, next : [Ref -> Ref \cup {Null}], prev : [Ref -> Ref \cup {Null}]]

\* The n nodes of the list l, in order.
Path(l, n, q) ==
  /\ q \in [1 .. n -> Ref]
  /\ \A i, j \in 1 .. n : q[i] = q[j] => i = j
  /\ l.head = IF n = 0 THEN Null ELSE q[1]
  /\ \A i \in 1 .. n : l.next[q[i]] = IF i = n THEN Null ELSE q[i + 1]
  /\ \A i \in 1 .. n : l.prev[q[i]] = IF i = 1 THEN Null ELSE q[i - 1]

Sorted(nodes, n, q) ==
  \A i, j \in 1 .. n : i < j => nodes[q[i]].expire_time <= nodes[q[j]].expire_time

-----------------------------------------------------------------------------
(* Chain follows the links.                                                *)

\* There are no more nodes than refs.
LEMMA PathIsShort ==
  ASSUME NEW n \in Nat, NEW q \in [1 .. n -> Ref], \A i, j \in 1 .. n : q[i] = q[j] => i = j
  PROVE  n <= Cardinality(Ref) /\ Cardinality(Ref) \in Nat
<1>1. IsFiniteSet(Ref)
  BY RefAssumption
<1>2. IsFiniteSet(1 .. n) /\ Cardinality(1 .. n) = n
  <2>1. IsFiniteSet(1 .. n) /\ Cardinality(1 .. n) = IF 1 > n THEN 0 ELSE n - 1 + 1
    BY FS_Interval
  <2> QED
    BY <2>1
<1>3. Cardinality(Ref) \in Nat
  BY <1>1, FS_CardinalityType
<1>4. q \in Injection(1 .. n, Ref)
  BY DEF Injection, IsInjective
<1>5. Cardinality(1 .. n) <= Cardinality(Ref)
  BY <1>1, <1>4, FS_Injection
<1> QED
  BY <1>2, <1>3, <1>5

\* The nodes up to the k-th.
UpTo(n, q, k) == [i \in 1 .. (IF k <= n THEN k ELSE n) |-> q[i]]

LEMMA LongerUpTo ==
  ASSUME NEW l, NEW n \in Nat, NEW q, Path(l, n, q), NEW k \in Nat
  PROVE  UpTo(n, q, k) \in Seq(Ref) /\ Longer(l)[UpTo(n, q, k)] = UpTo(n, q, k + 1)
<1> DEFINE c == UpTo(n, q, k)
           m == IF k <= n THEN k ELSE n
<1>0. q \in [1 .. n -> Ref]
  BY DEF Path
<1>1. m \in Nat /\ m <= n /\ (m = k \/ m = n)
  OBVIOUS
<1>2. c = [i \in 1 .. m |-> q[i]]
  BY DEF UpTo
<1> HIDE DEF m, c
<1>3. c \in [1 .. m -> Ref]
  BY <1>0, <1>1, <1>2
<1>4. c \in Seq(Ref) /\ Len(c) = m
  BY ONLY <1>1, <1>3
<1> DEFINE r == IF c = << >> THEN l.head ELSE l.next[Last(c)]
<1>5. Longer(l)[c] = IF r = Null THEN c ELSE Append(c, r)
  BY <1>4 DEF Longer
<1>6. r = IF m = n THEN Null ELSE q[m + 1]
  <2>1. CASE m = 0
    <3>1. c = << >>
      BY <1>4, <2>1
    <3>2. l.head = IF n = 0 THEN Null ELSE q[1]
      BY DEF Path
    <3> QED
      BY <2>1, <3>1, <3>2
  <2>2. CASE m # 0
    <3>1. m \in 1 .. m /\ m \in 1 .. n
      BY <1>1, <2>2
    <3>2. c # << >> /\ Last(c) = c[m]
      BY <1>4, <2>2 DEF Last
    <3>3. c[m] = q[m]
      BY <1>2, <3>1
    <3>4. l.next[q[m]] = IF m = n THEN Null ELSE q[m + 1]
      BY <3>1 DEF Path
    <3> QED
      BY <3>2, <3>3, <3>4
  <2> QED
    BY <2>1, <2>2
<1> HIDE DEF r
<1>7. CASE m = n
  <2>1. UpTo(n, q, k + 1) = c
    <3>1. (IF k + 1 <= n THEN k + 1 ELSE n) = m
      BY <1>1, <1>7 DEF m
    <3> QED
      BY <1>2, <3>1 DEF UpTo
  <2> QED
    BY <1>4, <1>5, <1>6, <1>7, <2>1 DEF c
<1>8. CASE m # n
  <2>1. k = m /\ k + 1 <= n /\ k + 1 \in 1 .. n
    BY <1>1, <1>8
  <2>2. UpTo(n, q, k + 1) = [i \in 1 .. m + 1 |-> q[i]]
    BY <2>1 DEF UpTo
  <2>3. q[m + 1] \in Ref /\ q[m + 1] # Null
    BY <1>0, <2>1, RefAssumption
  <2>4. Longer(l)[c] = Append(c, q[m + 1])
    BY <1>5, <1>6, <1>8, <2>3
  <2>5. Append(c, q[m + 1]) = [i \in 1 .. m + 1 |-> IF i = m + 1 THEN q[m + 1] ELSE c[i]]
    BY <1>1, <1>4
  <2>6. \A i \in 1 .. m + 1 : (IF i = m + 1 THEN q[m + 1] ELSE c[i]) = q[i]
    BY <1>1, <1>2
  <2>7. Append(c, q[m + 1]) = [i \in 1 .. m + 1 |-> q[i]]
    BY <2>5, <2>6
  <2> QED
    BY <1>4, <2>2, <2>4, <2>7 DEF c
<1> QED
  BY <1>7, <1>8

\* A set of numbers that is not empty has a least one.
LEMMA Least ==
  ASSUME NEW S, S \subseteq Nat, S # {}
  PROVE  \E x \in S : \A y \in S : x <= y
<1>1. \E x \in S : \A y \in S : ~(<<y, x>> \in OpToRel(<, Nat))
  BY WFMin, NatLessThanWellFounded, Zenon
<1>2. PICK x \in S : \A y \in S : ~(<<y, x>> \in OpToRel(<, Nat))
  BY <1>1, Zenon
<1>3. ASSUME NEW y \in S PROVE x <= y
  <2>1. ~(y < x)
    BY <1>2, Zenon DEF OpToRel
  <2> QED
    BY <2>1
<1> QED
  BY <1>3

\* What Chain finds are the nodes of the list.
LEMMA ChainIs ==
  ASSUME NEW l, NEW n \in Nat, NEW q, Path(l, n, q)
  PROVE  /\ Chain(l) = q /\ q \in Seq(Ref) /\ Len(q) = n
         /\ Range(Chain(l)) = {q[i] : i \in 1 .. n}
<1>0. q \in [1 .. n -> Ref] /\ \A i, j \in 1 .. n : q[i] = q[j] => i = j
  BY DEF Path
<1>1. q \in Seq(Ref) /\ Len(q) = n /\ DOMAIN q = 1 .. n
  BY ONLY <1>0, n \in Nat
<1> DEFINE m == Cardinality(Ref) + 1
<1>2. m \in Nat /\ n <= m /\ m > 0
  BY <1>0, PathIsShort
<1> HIDE DEF m
<1> DEFINE Step(f, k) == IF k = 0 THEN << >> ELSE Longer(l)[f[k - 1]]
           g == [k \in 0 .. m |-> UpTo(n, q, k)]
           P(f) == f = [k \in 0 .. m |-> Step(f, k)]
           h == CHOOSE f : P(f)
<1>3. g = [k \in 0 .. m |-> Step(g, k)]
  <2>1. ASSUME NEW k \in 0 .. m PROVE UpTo(n, q, k) = Step(g, k)
    <3>1. CASE k = 0
      <4>1. UpTo(n, q, 0) = [i \in 1 .. 0 |-> q[i]]
        BY DEF UpTo
      <4>2. UpTo(n, q, 0) = << >>
        BY <4>1
      <4> QED
        BY <3>1, <4>2
    <3>2. CASE k # 0
      <4>1. k - 1 \in Nat /\ k - 1 \in 0 .. m /\ (k - 1) + 1 = k
        BY <1>2, <3>2
      <4>2. Longer(l)[UpTo(n, q, k - 1)] = UpTo(n, q, (k - 1) + 1)
        BY <4>1, LongerUpTo, ZenonT(30)
      <4>3. g[k - 1] = UpTo(n, q, k - 1)
        BY <4>1
      <4> QED
        BY <3>2, <4>1, <4>2, <4>3
    <3> QED
      BY <3>1, <3>2
  <2> QED
    BY <2>1
<1>4. h = [k \in 0 .. m |-> Step(h, k)]
  <2>1. P(g)
    BY <1>3, Zenon
  <2> HIDE DEF g, P
  <2>2. P(h)
    BY ONLY <2>1, Zenon
  <2> QED
    BY ONLY <2>2 DEF P
<1> HIDE DEF g, h
<1>5. h = g
  <2>1. \A k \in 0 .. m : h[k] = Step(h, k) /\ g[k] = Step(g, k)
    BY <1>3, <1>4, Zenon
  <2>2. h = [k \in 0 .. m |-> h[k]] /\ g = [k \in 0 .. m |-> g[k]]
    BY <1>3, <1>4
  <2>3. h[0] = g[0]
    BY <1>2, <2>1
  <2>4. ASSUME NEW k \in 1 .. m, h[k - 1] = g[k - 1] PROVE h[k] = g[k]
    <3>1. k \in 0 .. m /\ k # 0
      BY <1>2
    <3> QED
      BY <2>1, <2>4, <3>1
  <2> QED
    <3> DEFINE S == {k \in 0 .. m : h[k] # g[k]}
    <3>1. ASSUME S # {} PROVE FALSE
      <4>0. S \subseteq Nat
        OBVIOUS
      <4>1. PICK x \in S : \A y \in S : x <= y
        <5> HIDE DEF S
        <5> QED
          BY <3>1, <4>0, Least, Zenon
      <4>2. x \in 0 .. m /\ h[x] # g[x]
        OBVIOUS
      <4>3. x # 0
        BY <2>3, <4>2
      <4>4. x - 1 \in 0 .. m /\ x \in 1 .. m /\ ~(x <= x - 1)
        BY <1>2, <4>2, <4>3
      <4>5. x - 1 \notin S
        BY <4>1, <4>4
      <4>6. h[x - 1] = g[x - 1]
        BY <4>4, <4>5
      <4> QED
        BY <2>4, <4>2, <4>4, <4>6
    <3>2. \A k \in 0 .. m : h[k] = g[k]
      BY <3>1
    <3> HIDE DEF S
    <3> QED
      BY ONLY <2>2, <3>2
<1>6. Chain(l) = h[m]
  BY DEF Chain, h, m
<1>7. g[m] = UpTo(n, q, m)
  BY <1>2 DEF g
<1>8. UpTo(n, q, m) = q
  <2>1. (IF m <= n THEN m ELSE n) = n
    BY <1>2
  <2> QED
    BY <1>0, <2>1 DEF UpTo
<1>9. Chain(l) = q
  BY <1>5, <1>6, <1>7, <1>8
<1> QED
  BY <1>1, <1>9 DEF Range

-----------------------------------------------------------------------------
(* What adding and removing do to the path.                                *)

In(n, q) == {q[i] : i \in 1 .. n}

\* r put in as the p-th node, and the p-th node taken out
Ins(n, q, p, r) == [i \in 1 .. n + 1 |-> IF i < p THEN q[i] ELSE IF i = p THEN r ELSE q[i - 1]]
Del(n, q, p) == [i \in 1 .. n - 1 |-> IF i < p THEN q[i] ELSE q[i + 1]]

\* The links of a node put in as the p-th, and of its neighbours.
Insertion(l, L, n, q, p, r) ==
  /\ L.head = IF p = 1 THEN r ELSE l.head
  /\ L.next[r] = IF p = n + 1 THEN Null ELSE q[p]
  /\ L.prev[r] = IF p = 1 THEN Null ELSE q[p - 1]
  /\ \A i \in 1 .. n : L.next[q[i]] = IF i = p - 1 THEN r ELSE l.next[q[i]]
  /\ \A i \in 1 .. n : L.prev[q[i]] = IF i = p THEN r ELSE l.prev[q[i]]

\* The links of the neighbours of the p-th node once it is taken out.
Removal(l, L, n, q, p) ==
  /\ L.head = IF p = 1 THEN l.next[q[p]] ELSE l.head
  /\ \A i \in 1 .. n :
       i # p => L.next[q[i]] = IF i = p - 1 THEN l.next[q[p]] ELSE l.next[q[i]]
  /\ \A i \in 1 .. n :
       i # p => L.prev[q[i]] = IF i = p + 1 THEN l.prev[q[p]] ELSE l.prev[q[i]]

LEMMA Inserted ==
  ASSUME NEW l, NEW L, NEW n \in Nat, NEW q, Path(l, n, q),
         NEW p \in 1 .. n + 1, NEW r \in Ref, r \notin In(n, q), Insertion(l, L, n, q, p, r)
  PROVE  /\ Path(L, n + 1, Ins(n, q, p, r))
         /\ In(n + 1, Ins(n, q, p, r)) = In(n, q) \cup {r}
<1> DEFINE s == Ins(n, q, p, r)
<1>0. /\ q \in [1 .. n -> Ref]
      /\ \A i, j \in 1 .. n : q[i] = q[j] => i = j
      /\ l.head = IF n = 0 THEN Null ELSE q[1]
      /\ \A i \in 1 .. n : l.next[q[i]] = IF i = n THEN Null ELSE q[i + 1]
      /\ \A i \in 1 .. n : l.prev[q[i]] = IF i = 1 THEN Null ELSE q[i - 1]
      /\ L.head = IF p = 1 THEN r ELSE l.head
      /\ L.next[r] = IF p = n + 1 THEN Null ELSE q[p]
      /\ L.prev[r] = IF p = 1 THEN Null ELSE q[p - 1]
      /\ \A i \in 1 .. n : L.next[q[i]] = IF i = p - 1 THEN r ELSE l.next[q[i]]
      /\ \A i \in 1 .. n : L.prev[q[i]] = IF i = p THEN r ELSE l.prev[q[i]]
  BY DEF Path, Insertion
<1>1. \A i \in 1 .. n : q[i] # r
  BY DEF In
<1>2. s = [i \in 1 .. n + 1 |-> IF i < p THEN q[i] ELSE IF i = p THEN r ELSE q[i - 1]]
  BY DEF Ins
<1> HIDE DEF s
<1>3. \A i \in 1 .. n + 1 : s[i] = IF i < p THEN q[i] ELSE IF i = p THEN r ELSE q[i - 1]
  BY <1>2
<1>4. s \in [1 .. n + 1 -> Ref]
  BY <1>0, <1>2
<1>5. \A i, j \in 1 .. n + 1 : s[i] = s[j] => i = j
  BY <1>0, <1>1, <1>3
<1>6. L.head = s[1]
  BY <1>0, <1>3
<1>7. ASSUME NEW i \in 1 .. n + 1 PROVE L.next[s[i]] = IF i = n + 1 THEN Null ELSE s[i + 1]
  <2>1. CASE i < p
    <3>1. i \in 1 .. n /\ s[i] = q[i] /\ i + 1 \in 1 .. n + 1 /\ i # n + 1
      BY <1>3, <2>1
    <3>2. L.next[q[i]] = IF i = p - 1 THEN r ELSE q[i + 1]
      BY <1>0, <2>1, <3>1
    <3>3. s[i + 1] = IF i = p - 1 THEN r ELSE q[i + 1]
      BY <1>3, <2>1, <3>1
    <3> QED
      BY <3>1, <3>2, <3>3
  <2>2. CASE i = p
    <3>1. i # n + 1 => s[i + 1] = q[i]
      BY <1>3, <2>2
    <3> QED
      BY <1>0, <1>3, <2>2, <3>1
  <2>3. CASE i > p
    <3>1. i - 1 \in 1 .. n /\ s[i] = q[i - 1] /\ i - 1 # p - 1
      BY <1>3, <2>3
    <3>2. L.next[q[i - 1]] = IF i - 1 = n THEN Null ELSE q[i]
      BY <1>0, <3>1
    <3>3. i # n + 1 => s[i + 1] = q[i]
      BY <1>3, <2>3
    <3> QED
      BY <3>1, <3>2, <3>3
  <2> QED
    BY <2>1, <2>2, <2>3
<1>8. ASSUME NEW i \in 1 .. n + 1 PROVE L.prev[s[i]] = IF i = 1 THEN Null ELSE s[i - 1]
  <2>1. CASE i < p
    <3>1. i \in 1 .. n /\ i # p /\ s[i] = q[i]
      BY <1>3, <2>1
    <3>2. L.prev[q[i]] = IF i = 1 THEN Null ELSE q[i - 1]
      BY <1>0, <3>1
    <3>3. i # 1 => s[i - 1] = q[i - 1]
      BY <1>3, <2>1
    <3> QED
      BY <3>1, <3>2, <3>3
  <2>2. CASE i = p
    <3>1. i # 1 => s[i - 1] = q[i - 1]
      BY <1>3, <2>2
    <3> QED
      BY <1>0, <1>3, <2>2, <3>1
  <2>3. CASE i > p
    <3>1. i - 1 \in 1 .. n /\ i # 1 /\ s[i] = q[i - 1]
      BY <1>3, <2>3
    <3>2. L.prev[q[i - 1]] = IF i - 1 = p THEN r ELSE q[i - 2]
      BY <1>0, <2>3, <3>1
    <3>3. s[i - 1] = IF i - 1 = p THEN r ELSE q[i - 2]
      BY <1>3, <2>3, <3>1
    <3> QED
      BY <3>1, <3>2, <3>3
  <2> QED
    BY <2>1, <2>2, <2>3
<1>9. Path(L, n + 1, s)
  BY <1>4, <1>5, <1>6, <1>7, <1>8 DEF Path
<1>10. In(n + 1, s) = In(n, q) \cup {r}
  <2>1. ASSUME NEW x \in In(n + 1, s) PROVE x \in In(n, q) \cup {r}
    <3>1. PICK i \in 1 .. n + 1 : x = s[i]
      BY DEF In
    <3> QED
      BY <1>3, <3>1 DEF In
  <2>2. ASSUME NEW i \in 1 .. n PROVE q[i] \in In(n + 1, s)
    <3>1. q[i] = s[i] \/ q[i] = s[i + 1]
      BY <1>3
    <3> QED
      BY <3>1 DEF In
  <2>3. r \in In(n + 1, s)
    BY <1>3 DEF In
  <2> QED
    BY <2>1, <2>2, <2>3, Zenon DEF In
<1> QED
  BY <1>9, <1>10 DEF s

LEMMA Removed ==
  ASSUME NEW l, NEW L, NEW n \in Nat, NEW q, Path(l, n, q), NEW p \in 1 .. n,
         Removal(l, L, n, q, p)
  PROVE  /\ Path(L, n - 1, Del(n, q, p))
         /\ In(n - 1, Del(n, q, p)) = In(n, q) \ {q[p]}
<1> DEFINE s == Del(n, q, p)
<1>0. /\ q \in [1 .. n -> Ref]
      /\ \A i, j \in 1 .. n : q[i] = q[j] => i = j
      /\ l.head = IF n = 0 THEN Null ELSE q[1]
      /\ \A i \in 1 .. n : l.next[q[i]] = IF i = n THEN Null ELSE q[i + 1]
      /\ \A i \in 1 .. n : l.prev[q[i]] = IF i = 1 THEN Null ELSE q[i - 1]
      /\ L.head = IF p = 1 THEN l.next[q[p]] ELSE l.head
      /\ \A i \in 1 .. n :
           i # p => L.next[q[i]] = IF i = p - 1 THEN l.next[q[p]] ELSE l.next[q[i]]
      /\ \A i \in 1 .. n :
           i # p => L.prev[q[i]] = IF i = p + 1 THEN l.prev[q[p]] ELSE l.prev[q[i]]
  BY DEF Path, Removal
<1>1. n - 1 \in Nat
  OBVIOUS
<1>2. s = [i \in 1 .. n - 1 |-> IF i < p THEN q[i] ELSE q[i + 1]]
  BY DEF Del
<1> HIDE DEF s
<1>3. \A i \in 1 .. n - 1 : s[i] = IF i < p THEN q[i] ELSE q[i + 1]
  BY <1>2
<1>4. s \in [1 .. n - 1 -> Ref]
  BY <1>0, <1>2
<1>5. \A i, j \in 1 .. n - 1 : s[i] = s[j] => i = j
  BY <1>0, <1>3
<1>6. L.head = IF n - 1 = 0 THEN Null ELSE s[1]
  BY <1>0, <1>3
<1>7. \A i \in 1 .. n - 1 : L.next[s[i]] = IF i = n - 1 THEN Null ELSE s[i + 1]
  BY <1>0, <1>3
<1>8. \A i \in 1 .. n - 1 : L.prev[s[i]] = IF i = 1 THEN Null ELSE s[i - 1]
  BY <1>0, <1>3
<1>9. Path(L, n - 1, s)
  BY <1>4, <1>5, <1>6, <1>7, <1>8 DEF Path
<1>10. In(n - 1, s) = In(n, q) \ {q[p]}
  <2>1. ASSUME NEW x \in In(n - 1, s) PROVE x \in In(n, q) \ {q[p]}
    <3>1. PICK i \in 1 .. n - 1 : x = s[i]
      BY DEF In
    <3>2. PICK j \in 1 .. n : x = q[j] /\ j # p
      BY <1>3, <3>1
    <3> QED
      BY <1>0, <3>2 DEF In
  <2>2. ASSUME NEW i \in 1 .. n, i # p PROVE q[i] \in In(n - 1, s)
    <3>1. (i \in 1 .. n - 1 /\ q[i] = s[i]) \/ (i - 1 \in 1 .. n - 1 /\ q[i] = s[i - 1])
      BY <1>3, <2>2
    <3> QED
      BY <3>1 DEF In
  <2>3. ASSUME NEW x \in In(n, q) \ {q[p]} PROVE x \in In(n - 1, s)
    <3>1. PICK i \in 1 .. n : x = q[i]
      BY DEF In
    <3> QED
      BY <2>2, <3>1
  <2> QED
    BY ONLY <2>1, <2>3
<1> QED
  BY <1>9, <1>10 DEF s

\* A node put in where the ones before it expire no later and the ones after it no
\* earlier keeps the order.
LEMMA InsertedSorted ==
  ASSUME NEW nodes \in [Ref -> Node], NEW n \in Nat, NEW q \in [1 .. n -> Ref], Sorted(nodes, n, q),
         NEW p \in 1 .. n + 1, NEW r \in Ref,
         \A i \in 1 .. n : i < p => nodes[q[i]].expire_time <= nodes[r].expire_time,
         \A i \in 1 .. n : i >= p => nodes[r].expire_time <= nodes[q[i]].expire_time
  PROVE  Sorted(nodes, n + 1, Ins(n, q, p, r))
<1> DEFINE s == Ins(n, q, p, r)
           E(x) == nodes[x].expire_time
<1>1. \A x \in Ref : E(x) \in Nat
  BY DEF Node
<1>2. \A i \in 1 .. n + 1 : s[i] = IF i < p THEN q[i] ELSE IF i = p THEN r ELSE q[i - 1]
  BY DEF Ins
<1>3. \A i, j \in 1 .. n : i < j => E(q[i]) <= E(q[j])
  BY DEF Sorted
<1>4. /\ \A i \in 1 .. n : i < p => E(q[i]) <= E(r)
      /\ \A i \in 1 .. n : i >= p => E(r) <= E(q[i])
  OBVIOUS
<1> HIDE DEF s, E
<1>5. ASSUME NEW i \in 1 .. n + 1, NEW j \in 1 .. n + 1, i < j PROVE E(s[i]) <= E(s[j])
  <2>1. CASE j < p
    BY <1>2, <1>3, <1>5, <2>1
  <2>2. CASE j = p
    BY <1>2, <1>4, <1>5, <2>2
  <2>3. CASE j > p
    <3>1. j - 1 \in 1 .. n /\ s[j] = q[j - 1]
      BY <1>2, <2>3
    <3>2. CASE i < p
      <4>1. i \in 1 .. n /\ i < j - 1 /\ s[i] = q[i]
        BY <1>2, <2>3, <3>2
      <4> QED
        BY <1>3, <3>1, <4>1
    <3>3. CASE i = p
      BY <1>2, <1>4, <1>5, <3>1, <3>3
    <3>4. CASE i > p
      <4>1. i - 1 \in 1 .. n /\ i - 1 < j - 1 /\ s[i] = q[i - 1]
        BY <1>2, <1>5, <3>4
      <4> QED
        BY <1>3, <3>1, <4>1
    <3> QED
      BY <3>2, <3>3, <3>4
  <2> QED
    BY <2>1, <2>2, <2>3
<1> QED
  BY <1>5 DEF Sorted, E, s

\* A list without one of its nodes keeps the order.
LEMMA RemovedSorted ==
  ASSUME NEW nodes, NEW n \in Nat, NEW q, Sorted(nodes, n, q), NEW p \in 1 .. n
  PROVE  Sorted(nodes, n - 1, Del(n, q, p))
<1> DEFINE s == Del(n, q, p)
<1>1. \A i \in 1 .. n - 1 : s[i] = q[IF i < p THEN i ELSE i + 1]
  BY DEF Del
<1> HIDE DEF s
<1>2. ASSUME NEW i \in 1 .. n - 1, NEW j \in 1 .. n - 1, i < j
      PROVE  nodes[s[i]].expire_time <= nodes[s[j]].expire_time
  <2>1. PICK a \in 1 .. n, b \in 1 .. n : a < b /\ s[i] = q[a] /\ s[j] = q[b]
    BY <1>1, <1>2
  <2> QED
    BY <2>1 DEF Sorted
<1> QED
  BY <1>2 DEF Sorted, s

\* slam_timer_list_add puts the node in its place.
LEMMA AddKeeps ==
  ASSUME NEW l \in Links, NEW nodes \in [Ref -> Node], NEW n \in Nat, NEW q, Path(l, n, q),
         Sorted(nodes, n, q), NEW r \in Ref, r \notin In(n, q)
  PROVE  /\ ListAdd(l, nodes, r) \in Links
         /\ \E p \in 1 .. n + 1 :
              /\ Path(ListAdd(l, nodes, r), n + 1, Ins(n, q, p, r))
              /\ In(n + 1, Ins(n, q, p, r)) = In(n, q) \cup {r}
              /\ Sorted(nodes, n + 1, Ins(n, q, p, r))
<1> DEFINE E(x) == nodes[x].expire_time
           L == ListAdd(l, nodes, r)
           I == {i \in 1 .. n : E(r) < E(q[i])}
           at == IF I # {} THEN Min(I) ELSE 0
<1>0. /\ q \in [1 .. n -> Ref]
      /\ \A i, j \in 1 .. n : q[i] = q[j] => i = j
      /\ l.head = IF n = 0 THEN Null ELSE q[1]
      /\ \A i \in 1 .. n : l.next[q[i]] = IF i = n THEN Null ELSE q[i + 1]
      /\ \A i \in 1 .. n : l.prev[q[i]] = IF i = 1 THEN Null ELSE q[i - 1]
  BY DEF Path
<1>1. \A i \in 1 .. n : q[i] # r
  BY DEF In
<1>2. \A x \in Ref : E(x) \in Nat
  BY DEF Node
<1>3. Chain(l) = q /\ Len(q) = n
  BY ChainIs
<1>4. SelectInSeq(Chain(l), LAMBDA x : E(r) < E(x)) = at
  BY <1>3 DEF SelectInSeq
<1>5. L = IF l.head = Null THEN LinkOnly(l, r)
          ELSE IF at # 0 THEN LinkBefore(l, r, q[at]) ELSE LinkLast(l, r, q[n])
  BY <1>3, <1>4 DEF ListAdd, Last
<1>6. /\ l.head \in Ref \cup {Null} /\ l.next \in [Ref -> Ref \cup {Null}]
      /\ l.prev \in [Ref -> Ref \cup {Null}]
  BY DEF Links
<1>7. \A i, j \in 1 .. n : i < j => E(q[i]) <= E(q[j])
  BY DEF Sorted
<1>8. Null \notin Ref
  BY RefAssumption
<1> HIDE DEF L, at, E
<1>9. CASE n = 0
  <2>1. L = [head |-> r, next |-> [l.next EXCEPT ![r] = Null], prev |-> [l.prev EXCEPT ![r] = Null]]
    BY <1>0, <1>5, <1>9 DEF LinkOnly
  <2>2. L.head = r /\ L.next[r] = Null /\ L.prev[r] = Null
    BY <1>6, <2>1
  <2>3. L \in Links
    BY <1>6, <2>1 DEF Links
  <2>4. 1 \in 1 .. n + 1 /\ 1 .. n = {}
    BY <1>9
  <2>5. Path(L, n + 1, Ins(n, q, 1, r)) /\ In(n + 1, Ins(n, q, 1, r)) = In(n, q) \cup {r}
    <3>1. Insertion(l, L, n, q, 1, r)
      BY <1>9, <2>2, <2>4 DEF Insertion
    <3> QED
      BY <2>4, <3>1, Inserted
  <2>6. Sorted(nodes, n + 1, Ins(n, q, 1, r))
    BY <1>0, <2>4, InsertedSorted, Zenon
  <2> QED
    BY <2>3, <2>4, <2>5, <2>6 DEF L
<1>10. CASE n # 0 /\ I # {}
  <2>1. at \in I /\ \A y \in I : at <= y
    <3>1. I \subseteq Nat
      OBVIOUS
    <3> HIDE DEF I
    <3>2. \E x \in I : \A y \in I : x <= y
      BY <1>10, <3>1, Least, Zenon
    <3> QED
      BY <1>10, <3>2 DEF at, Min
  <2>2. at \in 1 .. n /\ at # 0 /\ at \in 1 .. n + 1 /\ E(r) < E(q[at])
    BY <2>1
  <2>3. \A i \in 1 .. n : i < at => ~(E(r) < E(q[i]))
    BY <2>1, <2>2
  <2> HIDE DEF I
  <2>4. q[at] \in Ref /\ q[at] # r /\ l.head # Null
    BY <1>0, <1>1, <1>8, <1>10, <2>2
  <2> DEFINE prv == l.prev[q[at]]
  <2>5. prv = (IF at = 1 THEN Null ELSE q[at - 1])
    BY <1>0, <2>2
  <2>6. L = [head |-> IF q[at] = l.head THEN r ELSE l.head,
             next |-> [m \in Ref |-> IF m = r THEN q[at] ELSE IF m = prv THEN r ELSE l.next[m]],
             prev |-> [l.prev EXCEPT ![r] = prv, ![q[at]] = r]]
    BY <1>5, <2>2, <2>4 DEF LinkBefore
  <2> HIDE DEF prv
  <2>7. prv \in Ref \cup {Null}
    BY <1>0, <2>2, <2>5
  <2>8. L \in Links
    BY <1>6, <2>4, <2>6, <2>7 DEF Links
  <2>9. /\ \A m \in Ref : L.next[m] = IF m = r THEN q[at] ELSE IF m = prv THEN r ELSE l.next[m]
        /\ \A m \in Ref : L.prev[m] = IF m = q[at] THEN r ELSE IF m = r THEN prv ELSE l.prev[m]
        /\ L.head = IF q[at] = l.head THEN r ELSE l.head
    BY <1>6, <2>4, <2>6
  <2>10. L.head = IF at = 1 THEN r ELSE l.head
    BY <1>0, <1>10, <2>2, <2>9
  <2>11. L.next[r] = IF at = n + 1 THEN Null ELSE q[at]
    BY <2>2, <2>9
  <2>12. L.prev[r] = IF at = 1 THEN Null ELSE q[at - 1]
    BY <2>4, <2>5, <2>9
  <2>13. \A i \in 1 .. n : L.next[q[i]] = IF i = at - 1 THEN r ELSE l.next[q[i]]
    BY <1>0, <1>1, <1>8, <2>2, <2>5, <2>9
  <2>14. \A i \in 1 .. n : L.prev[q[i]] = IF i = at THEN r ELSE l.prev[q[i]]
    BY <1>0, <1>1, <2>2, <2>9
  <2> HIDE DEF at
  <2>15. Path(L, n + 1, Ins(n, q, at, r)) /\ In(n + 1, Ins(n, q, at, r)) = In(n, q) \cup {r}
    <3>1. Insertion(l, L, n, q, at, r)
      BY <2>10, <2>11, <2>12, <2>13, <2>14 DEF Insertion
    <3> QED
      BY <2>2, <3>1, Inserted
  <2>16. /\ \A i \in 1 .. n : i < at => E(q[i]) <= E(r)
         /\ \A i \in 1 .. n : i >= at => E(r) <= E(q[i])
    <3>1. \A i \in 1 .. n : E(q[i]) \in Nat
      BY <1>0, <1>2
    <3>2. E(r) \in Nat
      BY <1>2
    <3> QED
      BY <1>7, <2>2, <2>3, <3>1, <3>2
  <2>17. Sorted(nodes, n + 1, Ins(n, q, at, r))
    BY <1>0, <2>2, <2>16, InsertedSorted, Zenon DEF E
  <2> QED
    BY <2>2, <2>8, <2>15, <2>17 DEF L
<1>11. CASE n # 0 /\ I = {}
  <2>1. at = 0 /\ n \in 1 .. n /\ n + 1 \in 1 .. n + 1
    BY <1>11 DEF at
  <2>2. \A i \in 1 .. n : ~(E(r) < E(q[i]))
    BY <1>11
  <2> HIDE DEF I
  <2>3. q[n] \in Ref /\ q[n] # r /\ l.head # Null
    BY <1>0, <1>1, <1>8, <1>11, <2>1
  <2>4. L = [head |-> l.head, next |-> [l.next EXCEPT ![q[n]] = r, ![r] = Null],
             prev |-> [l.prev EXCEPT ![r] = q[n]]]
    BY <1>5, <2>1, <2>3 DEF LinkLast
  <2>5. L \in Links
    BY <1>6, <2>3, <2>4 DEF Links
  <2>6. /\ \A m \in Ref : L.next[m] = IF m = r THEN Null ELSE IF m = q[n] THEN r ELSE l.next[m]
        /\ \A m \in Ref : L.prev[m] = IF m = r THEN q[n] ELSE l.prev[m]
        /\ L.head = l.head
    BY <1>6, <2>3, <2>4
  <2>7. \A i \in 1 .. n : L.next[q[i]] = IF i = (n + 1) - 1 THEN r ELSE l.next[q[i]]
    BY <1>0, <1>1, <2>1, <2>6
  <2>8. \A i \in 1 .. n : L.prev[q[i]] = IF i = n + 1 THEN r ELSE l.prev[q[i]]
    BY <1>0, <1>1, <2>6
  <2>9. /\ L.head = IF n + 1 = 1 THEN r ELSE l.head
        /\ L.next[r] = IF n + 1 = n + 1 THEN Null ELSE q[n + 1]
        /\ L.prev[r] = IF n + 1 = 1 THEN Null ELSE q[(n + 1) - 1]
    BY <1>11, <2>6
  <2>10. PICK p \in 1 .. n + 1 : p = n + 1
    BY <2>1
  <2>11. Path(L, n + 1, Ins(n, q, p, r)) /\ In(n + 1, Ins(n, q, p, r)) = In(n, q) \cup {r}
    <3>1. Insertion(l, L, n, q, p, r)
      BY <2>7, <2>8, <2>9, <2>10 DEF Insertion
    <3> QED
      BY <3>1, Inserted
  <2>12. /\ \A i \in 1 .. n : i < p => E(q[i]) <= E(r)
         /\ \A i \in 1 .. n : i >= p => E(r) <= E(q[i])
    <3>1. \A i \in 1 .. n : E(q[i]) \in Nat
      BY <1>0, <1>2
    <3>2. E(r) \in Nat
      BY <1>2
    <3> QED
      BY <2>2, <2>10, <3>1, <3>2
  <2>13. Sorted(nodes, n + 1, Ins(n, q, p, r))
    BY <1>0, <2>12, InsertedSorted, Zenon DEF E
  <2> QED
    BY <2>5, <2>11, <2>13 DEF L
<1> QED
  BY <1>9, <1>10, <1>11

\* slam_timer_list_remove_by_node takes the node out.
LEMMA RemoveKeeps ==
  ASSUME NEW l \in Links, NEW n \in Nat, NEW q, Path(l, n, q), NEW p \in 1 .. n
  PROVE  /\ ListRemove(l, q[p]) \in Links
         /\ Path(ListRemove(l, q[p]), n - 1, Del(n, q, p))
         /\ In(n - 1, Del(n, q, p)) = In(n, q) \ {q[p]}
<1> DEFINE L == ListRemove(l, q[p])
<1>0. /\ q \in [1 .. n -> Ref]
      /\ \A i, j \in 1 .. n : q[i] = q[j] => i = j
      /\ l.head = IF n = 0 THEN Null ELSE q[1]
      /\ \A i \in 1 .. n : l.next[q[i]] = IF i = n THEN Null ELSE q[i + 1]
      /\ \A i \in 1 .. n : l.prev[q[i]] = IF i = 1 THEN Null ELSE q[i - 1]
  BY DEF Path
<1>1. /\ l.head \in Ref \cup {Null} /\ l.next \in [Ref -> Ref \cup {Null}]
      /\ l.prev \in [Ref -> Ref \cup {Null}] /\ Null \notin Ref /\ q[p] \in Ref
  BY <1>0, RefAssumption DEF Links
<1>2. PICK nxt \in Ref \cup {Null} : nxt = l.next[q[p]] /\ nxt = IF p = n THEN Null ELSE q[p + 1]
  BY <1>0, <1>1
<1>3. PICK prv \in Ref \cup {Null} : prv = l.prev[q[p]] /\ prv = IF p = 1 THEN Null ELSE q[p - 1]
  BY <1>0, <1>1
<1>4. \A i \in 1 .. n : q[i] = nxt <=> i = p + 1
  BY <1>0, <1>1, <1>2
<1>5. L \in Links /\ Removal(l, L, n, q, p)
  <2>1. CASE p = 1
    <3>1. L = [head |-> nxt, next |-> l.next,
               prev |-> [m \in Ref |-> IF m = nxt THEN Null ELSE l.prev[m]]]
      BY <1>0, <1>2, <2>1 DEF ListRemove
    <3> HIDE DEF L
    <3>2. L \in Links
      BY <1>1, <1>2, <3>1 DEF Links
    <3>3. L.head = nxt /\ L.next = l.next
      BY <3>1
    <3>4. ASSUME NEW i \in 1 .. n PROVE L.prev[q[i]] = IF i = p + 1 THEN Null ELSE l.prev[q[i]]
      BY <1>0, <1>4, <3>1
    <3>5. prv = Null
      BY <1>3, <2>1
    <3>6. \A i \in 1 .. n : i # p - 1
      BY <2>1
    <3> QED
      BY <1>2, <1>3, <2>1, <3>2, <3>3, <3>4, <3>5, <3>6 DEF Removal
  <2>2. CASE p # 1
    <3>1. l.head # q[p] /\ p - 1 \in 1 .. n /\ prv = q[p - 1] /\ prv \in Ref
      BY <1>0, <1>3, <2>2
    <3>2. L = [head |-> l.head, next |-> [l.next EXCEPT ![prv] = nxt],
               prev |-> [m \in Ref |-> IF m = nxt THEN prv ELSE l.prev[m]]]
      BY <1>2, <1>3, <3>1 DEF ListRemove
    <3> HIDE DEF L
    <3>3. L \in Links
      BY <1>1, <1>2, <1>3, <3>2, ZenonT(30) DEF Links
    <3>4. L.head = l.head
      BY <3>2
    <3>5. ASSUME NEW i \in 1 .. n PROVE L.prev[q[i]] = IF i = p + 1 THEN prv ELSE l.prev[q[i]]
      BY <1>0, <1>4, <3>2
    <3>6. ASSUME NEW i \in 1 .. n PROVE L.next[q[i]] = IF i = p - 1 THEN nxt ELSE l.next[q[i]]
      <4>1. q[i] = prv <=> i = p - 1
        BY <1>0, <3>1
      <4> QED
        BY <1>0, <1>1, <3>2, <4>1
    <3> QED
      BY <1>2, <1>3, <2>2, <3>3, <3>4, <3>5, <3>6 DEF Removal
  <2> QED
    BY <2>1, <2>2
<1> HIDE DEF L
<1>6. Path(L, n - 1, Del(n, q, p)) /\ In(n - 1, Del(n, q, p)) = In(n, q) \ {q[p]}
  <2>1. Path(L, n - 1, Del(n, q, p))
    BY ONLY n \in Nat, Path(l, n, q), p \in 1 .. n, <1>5, Removed
  <2>2. In(n - 1, Del(n, q, p)) = In(n, q) \ {q[p]}
    BY ONLY n \in Nat, Path(l, n, q), p \in 1 .. n, <1>5, Removed
  <2> QED
    BY ONLY <2>1, <2>2
<1> QED
  BY <1>5, <1>6 DEF L

\* The links of a freed node are not links of the list.
LEMMA FreeKeeps ==
  ASSUME NEW l \in Links, NEW n \in Nat, NEW q, Path(l, n, q), NEW r \in Ref, r \notin In(n, q)
  PROVE  FreeLinks(l, r) \in Links /\ Path(FreeLinks(l, r), n, q)
<1> DEFINE L == FreeLinks(l, r)
<1>1. L = [head |-> l.head, next |-> [l.next EXCEPT ![r] = Null], prev |-> [l.prev EXCEPT ![r] = Null]]
  <2>1. PICK h, x, y : l = [head |-> h, next |-> x, prev |-> y]
    BY DEF Links
  <2>2. L = [[head |-> h, next |-> x, prev |-> y] EXCEPT !.next[r] = Null, !.prev[r] = Null]
    BY <2>1 DEF FreeLinks
  <2> HIDE DEF L
  <2>3. L = [head |-> h, next |-> [x EXCEPT ![r] = Null], prev |-> [y EXCEPT ![r] = Null]]
    BY ONLY <2>2, Zenon
  <2> QED
    BY ONLY <2>1, <2>3
<1> HIDE DEF L
<1>2. /\ l.head \in Ref \cup {Null} /\ l.next \in [Ref -> Ref \cup {Null}]
      /\ l.prev \in [Ref -> Ref \cup {Null}]
  BY DEF Links
<1>3. L \in Links
  BY <1>1, <1>2 DEF Links
<1>4. q \in [1 .. n -> Ref] /\ \A i \in 1 .. n : q[i] # r
  BY DEF Path, In
<1>5. L.head = l.head /\ \A i \in 1 .. n : L.next[q[i]] = l.next[q[i]] /\ L.prev[q[i]] = l.prev[q[i]]
  BY <1>1, <1>2, <1>4
<1>6. Path(L, n, q)
  <2>1. /\ \A i, j \in 1 .. n : q[i] = q[j] => i = j
        /\ l.head = IF n = 0 THEN Null ELSE q[1]
        /\ \A i \in 1 .. n : l.next[q[i]] = IF i = n THEN Null ELSE q[i + 1]
        /\ \A i \in 1 .. n : l.prev[q[i]] = IF i = 1 THEN Null ELSE q[i - 1]
    BY DEF Path
  <2>2. \A i \in 1 .. n : L.next[q[i]] = IF i = n THEN Null ELSE q[i + 1]
    BY ONLY <1>5, <2>1
  <2>3. \A i \in 1 .. n : L.prev[q[i]] = IF i = 1 THEN Null ELSE q[i - 1]
    BY ONLY <1>5, <2>1
  <2> QED
    BY ONLY <1>4, <1>5, <2>1, <2>2, <2>3 DEF Path
<1> QED
  BY ONLY <1>3, <1>6 DEF L

\* The order does not depend on a node that is not in the list.
LEMMA SortedOthers ==
  ASSUME NEW nodes \in [Ref -> Node], NEW n \in Nat, NEW q \in [1 .. n -> Ref],
         Sorted(nodes, n, q), NEW r \in Ref, r \notin In(n, q), NEW v
  PROVE  Sorted([nodes EXCEPT ![r] = v], n, q)
<1>1. \A i \in 1 .. n : q[i] \in Ref /\ q[i] # r
  BY DEF In
<1> DEFINE other == [nodes EXCEPT ![r] = v]
<1>2. \A i \in 1 .. n : other[q[i]] = nodes[q[i]]
  BY <1>1
<1> HIDE DEF other
<1>3. Sorted(other, n, q)
  BY ONLY <1>2, Sorted(nodes, n, q) DEF Sorted
<1> QED
  BY <1>3 DEF other

-----------------------------------------------------------------------------
(* The same for the nodes that Chain finds.                                *)

\* The links form one list, ordered by expire_time.
Good(l, nodes) ==
  /\ Len(Chain(l)) \in Nat
  /\ Path(l, Len(Chain(l)), Chain(l))
  /\ Sorted(nodes, Len(Chain(l)), Chain(l))

LEMMA GoodFromPath ==
  ASSUME NEW l, NEW nodes, NEW n \in Nat, NEW q, Path(l, n, q), Sorted(nodes, n, q)
  PROVE  Good(l, nodes) /\ Range(Chain(l)) = In(n, q)
<1>1. Chain(l) = q /\ Len(q) = n /\ Range(Chain(l)) = {q[i] : i \in 1 .. n}
  BY ChainIs
<1> QED
  BY <1>1 DEF Good, In

LEMMA PathFromGood ==
  ASSUME NEW l, NEW nodes, Good(l, nodes)
  PROVE  \E n \in Nat : \E q \in [1 .. n -> Ref] :
           /\ Path(l, n, q) /\ Sorted(nodes, n, q)
           /\ Range(Chain(l)) = In(n, q)
<1>1. PICK n \in Nat : n = Len(Chain(l))
  BY DEF Good
<1>2. PICK q : q = Chain(l)
  OBVIOUS
<1>3. Path(l, n, q) /\ Sorted(nodes, n, q)
  BY <1>1, <1>2 DEF Good
<1>4. q \in [1 .. n -> Ref]
  BY <1>3 DEF Path
<1>5. Range(Chain(l)) = In(n, q)
  BY <1>3, ChainIs DEF In
<1> QED
  BY <1>3, <1>4, <1>5

LEMMA GoodAdd ==
  ASSUME NEW l \in Links, NEW nodes \in [Ref -> Node], Good(l, nodes),
         NEW r \in Ref, r \notin Range(Chain(l))
  PROVE  /\ ListAdd(l, nodes, r) \in Links
         /\ Good(ListAdd(l, nodes, r), nodes)
         /\ Range(Chain(ListAdd(l, nodes, r))) = Range(Chain(l)) \cup {r}
<1> DEFINE L == ListAdd(l, nodes, r)
<1>1. PICK n \in Nat : \E q \in [1 .. n -> Ref] :
        Path(l, n, q) /\ Sorted(nodes, n, q) /\ Range(Chain(l)) = In(n, q)
  BY PathFromGood
<1>2. PICK q \in [1 .. n -> Ref] :
        Path(l, n, q) /\ Sorted(nodes, n, q) /\ Range(Chain(l)) = In(n, q)
  BY <1>1
<1>3. L \in Links /\ \E p \in 1 .. n + 1 :
        /\ Path(L, n + 1, Ins(n, q, p, r))
        /\ In(n + 1, Ins(n, q, p, r)) = In(n, q) \cup {r}
        /\ Sorted(nodes, n + 1, Ins(n, q, p, r))
  BY <1>2, AddKeeps
<1> HIDE DEF L
<1>4. n + 1 \in Nat
  OBVIOUS
<1>5. Good(L, nodes) /\ Range(Chain(L)) = In(n, q) \cup {r}
  BY <1>3, <1>4, GoodFromPath
<1> QED
  BY <1>2, <1>3, <1>5 DEF L

LEMMA GoodRemove ==
  ASSUME NEW l \in Links, NEW nodes, Good(l, nodes), NEW r \in Range(Chain(l))
  PROVE  /\ r \in Ref
         /\ ListRemove(l, r) \in Links
         /\ Good(ListRemove(l, r), nodes)
         /\ Range(Chain(ListRemove(l, r))) = Range(Chain(l)) \ {r}
<1> DEFINE L == ListRemove(l, r)
<1>1. PICK n \in Nat : \E q \in [1 .. n -> Ref] :
        Path(l, n, q) /\ Sorted(nodes, n, q) /\ Range(Chain(l)) = In(n, q)
  BY PathFromGood
<1>2. PICK q \in [1 .. n -> Ref] :
        Path(l, n, q) /\ Sorted(nodes, n, q) /\ Range(Chain(l)) = In(n, q)
  BY <1>1
<1>3. PICK p \in 1 .. n : r = q[p]
  BY <1>2 DEF In
<1>4. L \in Links /\ Path(L, n - 1, Del(n, q, p)) /\ In(n - 1, Del(n, q, p)) = In(n, q) \ {r}
  BY <1>2, <1>3, RemoveKeeps
<1> HIDE DEF L
<1>5. Sorted(nodes, n - 1, Del(n, q, p)) /\ n - 1 \in Nat
  BY <1>2, RemovedSorted
<1>6. Good(L, nodes) /\ Range(Chain(L)) = In(n, q) \ {r}
  BY <1>4, <1>5, GoodFromPath
<1>7. r \in Ref
  BY <1>3
<1> QED
  BY <1>2, <1>4, <1>6, <1>7 DEF L

LEMMA GoodFree ==
  ASSUME NEW l \in Links, NEW nodes, Good(l, nodes), NEW r \in Ref, r \notin Range(Chain(l))
  PROVE  /\ FreeLinks(l, r) \in Links
         /\ Good(FreeLinks(l, r), nodes)
         /\ Range(Chain(FreeLinks(l, r))) = Range(Chain(l))
<1> DEFINE L == FreeLinks(l, r)
<1>1. PICK n \in Nat : \E q \in [1 .. n -> Ref] :
        Path(l, n, q) /\ Sorted(nodes, n, q) /\ Range(Chain(l)) = In(n, q)
  BY PathFromGood
<1>2. PICK q \in [1 .. n -> Ref] :
        Path(l, n, q) /\ Sorted(nodes, n, q) /\ Range(Chain(l)) = In(n, q)
  BY <1>1
<1>3. L \in Links /\ Path(L, n, q)
  BY <1>2, FreeKeeps
<1> HIDE DEF L
<1>4. Good(L, nodes) /\ Range(Chain(L)) = In(n, q)
  BY <1>2, <1>3, GoodFromPath
<1> QED
  BY <1>2, <1>3, <1>4 DEF L

LEMMA GoodOthers ==
  ASSUME NEW l, NEW nodes \in [Ref -> Node], Good(l, nodes), NEW r \in Ref,
         r \notin Range(Chain(l)), NEW v
  PROVE  Good(l, [nodes EXCEPT ![r] = v])
<1>1. PICK n \in Nat : \E q \in [1 .. n -> Ref] :
        Path(l, n, q) /\ Sorted(nodes, n, q) /\ Range(Chain(l)) = In(n, q)
  BY PathFromGood
<1>2. PICK q \in [1 .. n -> Ref] :
        Path(l, n, q) /\ Sorted(nodes, n, q) /\ Range(Chain(l)) = In(n, q)
  BY <1>1
<1> DEFINE other == [nodes EXCEPT ![r] = v]
<1>3. Sorted(other, n, q)
  BY <1>2, SortedOthers, Zenon
<1> HIDE DEF other
<1>4. Good(l, other)
  BY <1>2, <1>3, GoodFromPath
<1> QED
  BY <1>4 DEF other

-----------------------------------------------------------------------------
(* The inductive invariant.                                                *)

TimerType ==
  /\ list \in Links
  /\ node \in [Ref -> Node]
  /\ now \in Nat
  /\ nowtime \in Nat
  /\ current \in Ref \cup {Null}

\* The list is whole and in order at every step, the node whose callback is running is
\* out of it, and those are the nodes that are allocated, each with its closure.
TimerInv ==
  /\ TimerType
  /\ Good(list, node)
  /\ pc = "callback" <=> current # Null
  /\ current \notin Range(Chain(list))
  /\ NoDanglingNode
  /\ ClosureHeld

LEMMA TimerInit == Init => TimerInv
<1> SUFFICES ASSUME Init PROVE TimerInv
  OBVIOUS
<1> USE DEF Init
<1>1. TimerType
  BY DEF TimerType, Links, Node, Blank
<1>2. PICK q : q = << >>
  OBVIOUS
<1>3. q \in [1 .. 0 -> Ref] /\ 1 .. 0 = {} /\ list.head = Null
  BY <1>2
<1>4. Path(list, 0, q) /\ Sorted(node, 0, q) /\ In(0, q) = {}
  BY ONLY <1>3 DEF Path, Sorted, In
<1>5. Good(list, node) /\ Range(Chain(list)) = {}
  BY ONLY <1>4, GoodFromPath
<1> QED
  BY <1>1, <1>5 DEF TimerInv, NoDanglingNode, ClosureHeld

\* Creating a timer: a ref the registry does not hold is neither in the list nor running.
LEMMA NewTimerKeeps ==
  ASSUME TimerInv, NEW r \in Ref, NEW interval \in Interval, NEW forever \in BOOLEAN,
         NewTimer(r, interval, forever)
  PROVE  TimerInv'
<1> DEFINE v == [interval |-> interval, expire_time |-> now + interval, forever |-> forever]
<1>0. /\ list \in Links /\ node \in [Ref -> Node] /\ now \in Nat /\ nowtime \in Nat
      /\ current \in Ref \cup {Null} /\ Good(list, node)
      /\ current \notin Range(Chain(list)) /\ NoDanglingNode /\ ClosureHeld
      /\ pc = "callback" <=> current # Null
  BY DEF TimerInv, TimerType
<1>1. /\ pc # "stopped" /\ r \notin registry /\ registry' = registry \cup {r}
      /\ alloc' = alloc \cup {r} /\ node' = [node EXCEPT ![r] = v]
      /\ list' = ListAdd(list, node', r)
      /\ now' = now /\ pc' = pc /\ nowtime' = nowtime /\ current' = current
  BY DEF NewTimer, InLua
<1>2. alloc = Range(Chain(list)) \cup {x \in {current} : x # Null} /\ alloc \subseteq registry
  BY <1>0, <1>1 DEF NoDanglingNode, ClosureHeld
<1>3. r \notin Range(Chain(list)) /\ r # current
  BY <1>1, <1>2, RefAssumption
<1>4. v \in Node
  BY <1>0, IntervalAssumption DEF Node
<1> HIDE DEF v
<1>5. node' \in [Ref -> Node]
  BY <1>0, <1>1, <1>4
<1>6. Good(list, node')
  BY <1>0, <1>1, <1>3, GoodOthers, Zenon
<1>7. PICK nodes \in [Ref -> Node] : nodes = node'
  BY <1>5
<1>8. /\ ListAdd(list, nodes, r) \in Links
      /\ Good(ListAdd(list, nodes, r), nodes)
      /\ Range(Chain(ListAdd(list, nodes, r))) = Range(Chain(list)) \cup {r}
  BY <1>0, <1>3, <1>6, <1>7, GoodAdd
<1>9. list' \in Links /\ Good(list', node') /\ Range(Chain(list')) = Range(Chain(list)) \cup {r}
  BY <1>1, <1>7, <1>8, Zenon
<1>10. TimerType'
  BY <1>0, <1>1, <1>5, <1>9 DEF TimerType
<1>11. NoDanglingNode' /\ ClosureHeld'
  BY <1>1, <1>2, <1>9, Zenon DEF NoDanglingNode, ClosureHeld
<1> QED
  BY <1>0, <1>1, <1>3, <1>9, <1>10, <1>11, Zenon DEF TimerInv

\* Removing a timer that is in the list.
LEMMA RemoveTimerKeeps ==
  ASSUME TimerInv, NEW r \in Ref, RemoveTimer(r)
  PROVE  TimerInv'
<1>0. /\ list \in Links /\ node \in [Ref -> Node] /\ now \in Nat /\ nowtime \in Nat
      /\ current \in Ref \cup {Null} /\ Good(list, node)
      /\ current \notin Range(Chain(list)) /\ NoDanglingNode /\ ClosureHeld
      /\ pc = "callback" <=> current # Null
  BY DEF TimerInv, TimerType
<1>1. /\ pc # "stopped" /\ r \in Range(Chain(list)) /\ registry' = registry \ {r}
      /\ alloc' = alloc \ {r} /\ node' = [node EXCEPT ![r] = Blank]
      /\ list' = FreeLinks(ListRemove(list, r), r)
      /\ now' = now /\ pc' = pc /\ nowtime' = nowtime /\ current' = current
  BY DEF RemoveTimer, InLua, FreeNode
<1>2. alloc = Range(Chain(list)) \cup {x \in {current} : x # Null} /\ alloc \subseteq registry
  BY <1>0, <1>1 DEF NoDanglingNode, ClosureHeld
<1>3. PICK L : L = ListRemove(list, r)
  OBVIOUS
<1>4. L \in Links /\ Good(L, node) /\ Range(Chain(L)) = Range(Chain(list)) \ {r}
  BY <1>0, <1>1, <1>3, GoodRemove
<1>5. /\ FreeLinks(L, r) \in Links /\ Good(FreeLinks(L, r), node)
      /\ Range(Chain(FreeLinks(L, r))) = Range(Chain(list)) \ {r}
  BY <1>4, GoodFree
<1>6. list' \in Links /\ Good(list', node) /\ Range(Chain(list')) = Range(Chain(list)) \ {r}
  BY <1>1, <1>3, <1>5
<1>7. node' \in [Ref -> Node]
  BY <1>0, <1>1 DEF Node, Blank
<1>8. Good(list', node')
  BY <1>0, <1>1, <1>6, GoodOthers, Zenon
<1>9. TimerType'
  BY <1>0, <1>1, <1>6, <1>7 DEF TimerType
<1>10. NoDanglingNode' /\ ClosureHeld'
  BY <1>0, <1>1, <1>2, <1>6 DEF NoDanglingNode, ClosureHeld
<1> QED
  BY <1>0, <1>1, <1>6, <1>8, <1>9, <1>10 DEF TimerInv

\* slam_timer_list_run takes the head out before its callback runs.
LEMMA FireHeadKeeps ==
  ASSUME TimerInv, FireHead
  PROVE  TimerInv'
<1>0. /\ list \in Links /\ node \in [Ref -> Node] /\ now \in Nat /\ nowtime \in Nat
      /\ Good(list, node) /\ NoDanglingNode /\ ClosureHeld
      /\ pc = "callback" <=> current # Null
  BY DEF TimerInv, TimerType
<1>1. PICK h : h = list.head
  OBVIOUS
<1>2. /\ pc = "fire" /\ h # Null /\ current' = h /\ list' = ListRemove(list, h)
      /\ registry' = registry /\ pc' = "callback"
      /\ now' = now /\ node' = node /\ alloc' = alloc /\ nowtime' = nowtime
  BY <1>1 DEF FireHead, Expired, KeptByCall
<1>3. current = Null
  BY <1>0, <1>2
<1>4. alloc = Range(Chain(list)) /\ alloc \subseteq registry
  BY <1>0, <1>2, <1>3 DEF NoDanglingNode, ClosureHeld
<1>5. h \in Range(Chain(list))
  <2>1. PICK n \in Nat : \E q \in [1 .. n -> Ref] :
          Path(list, n, q) /\ Sorted(node, n, q) /\ Range(Chain(list)) = In(n, q)
    BY <1>0, PathFromGood
  <2>2. PICK q \in [1 .. n -> Ref] : Path(list, n, q) /\ Range(Chain(list)) = In(n, q)
    BY <2>1
  <2>3. n # 0 /\ h = q[1]
    BY <1>1, <1>2, <2>2 DEF Path
  <2>4. 1 \in 1 .. n
    BY <2>3
  <2> QED
    BY <2>2, <2>3, <2>4 DEF In
<1>6. /\ h \in Ref /\ list' \in Links /\ Good(list', node)
      /\ Range(Chain(list')) = Range(Chain(list)) \ {h}
  BY <1>0, <1>2, <1>5, GoodRemove
<1>7. TimerType'
  BY <1>0, <1>2, <1>6 DEF TimerType
<1>8. NoDanglingNode' /\ ClosureHeld'
  BY <1>2, <1>4, <1>5, <1>6 DEF NoDanglingNode, ClosureHeld
<1> QED
  BY <1>2, <1>6, <1>7, <1>8 DEF TimerInv

\* What becomes of the node after its callback, which may have changed the list.
LEMMA CallbackDoneKeeps ==
  ASSUME TimerInv, CallbackDone
  PROVE  TimerInv'
<1>0. /\ list \in Links /\ node \in [Ref -> Node] /\ now \in Nat /\ nowtime \in Nat
      /\ Good(list, node) /\ NoDanglingNode /\ ClosureHeld
      /\ current \notin Range(Chain(list)) /\ current \in Ref \cup {Null}
      /\ pc = "callback" <=> current # Null
  BY DEF TimerInv, TimerType
<1>1. /\ pc = "callback" /\ current' = Null /\ pc' = "fire"
      /\ now' = now /\ registry' = registry /\ nowtime' = nowtime
  BY DEF CallbackDone
<1>2. current \in Ref /\ current # Null /\ Null \notin Ref
  BY <1>0, <1>1, RefAssumption
<1>3. alloc = Range(Chain(list)) \cup {current} /\ alloc \subseteq registry
  BY <1>0, <1>1, <1>2 DEF NoDanglingNode, ClosureHeld
<1>4. Range(Chain(list)) \subseteq Ref
  <2>1. PICK n \in Nat : \E q \in [1 .. n -> Ref] : Range(Chain(list)) = In(n, q)
    BY <1>0, PathFromGood
  <2> QED
    BY <2>1 DEF In
<1>5. CASE /\ node' = [node EXCEPT ![current] = Rearmed(current)]
           /\ list' = ListAdd(list, node', current)
           /\ alloc' = alloc
  <2>1. Rearmed(current) \in Node
    <3>1. PICK i \in Interval \cup {0}, e \in Nat, f \in BOOLEAN :
            node[current] = [interval |-> i, expire_time |-> e, forever |-> f]
      BY <1>0, <1>2 DEF Node
    <3>2. Rearmed(current) = [interval |-> i, expire_time |-> nowtime + i, forever |-> f]
      BY <3>1 DEF Rearmed
    <3>3. nowtime + i \in Nat
      BY <1>0, IntervalAssumption
    <3> QED
      BY <3>2, <3>3 DEF Node
  <2>2. node' \in [Ref -> Node]
    BY <1>0, <1>5, <2>1, Zenon
  <2>3. Good(list, node')
    BY <1>0, <1>2, <1>5, GoodOthers, Zenon
  <2>4. PICK nodes \in [Ref -> Node] : nodes = node'
    BY <2>2
  <2>5. /\ ListAdd(list, nodes, current) \in Links
        /\ Good(ListAdd(list, nodes, current), nodes)
        /\ Range(Chain(ListAdd(list, nodes, current))) = Range(Chain(list)) \cup {current}
    BY <1>0, <1>2, <2>3, <2>4, GoodAdd
  <2>6. /\ list' \in Links /\ Good(list', node')
        /\ Range(Chain(list')) = Range(Chain(list)) \cup {current}
    BY <1>5, <2>4, <2>5, Zenon
  <2>7. TimerType'
    BY <1>0, <1>1, <2>2, <2>6 DEF TimerType
  <2>8. NoDanglingNode' /\ ClosureHeld' /\ Null \notin Range(Chain(list'))
    BY <1>1, <1>2, <1>3, <1>4, <1>5, <2>6, Zenon DEF NoDanglingNode, ClosureHeld
  <2> QED
    BY <1>1, <2>6, <2>7, <2>8 DEF TimerInv
<1>6. CASE /\ alloc' = alloc \ Freed
           /\ node' = FreeNode(node, current)
           /\ list' = FreeLinks(list, current)
  <2>1. alloc' = alloc \ {current} /\ node' = [node EXCEPT ![current] = Blank]
    BY <1>6 DEF Freed, FreeNode
  <2>2. node' \in [Ref -> Node]
    BY <1>0, <2>1, Zenon DEF Node, Blank
  <2>3. list' \in Links /\ Good(list', node) /\ Range(Chain(list')) = Range(Chain(list))
    BY <1>0, <1>2, <1>6, GoodFree
  <2>4. Good(list', node')
    BY <1>0, <1>2, <2>1, <2>3, GoodOthers, Zenon
  <2>5. TimerType'
    BY <1>0, <1>1, <2>2, <2>3 DEF TimerType
  <2>6. NoDanglingNode' /\ ClosureHeld' /\ Null \notin Range(Chain(list'))
    BY <1>0, <1>1, <1>2, <1>3, <1>4, <2>1, <2>3 DEF NoDanglingNode, ClosureHeld
  <2> QED
    BY <1>1, <2>4, <2>5, <2>6 DEF TimerInv
<1> QED
  BY <1>5, <1>6 DEF CallbackDone

\* The loop between two callbacks only reads the list.
LEMMA OtherKeeps ==
  ASSUME TimerInv, UNCHANGED timers, UNCHANGED current,
         now' \in Nat, nowtime' \in Nat,
         pc' = "callback" <=> pc = "callback", pc' = "stopped" <=> pc = "stopped"
  PROVE  TimerInv'
<1>1. list' = list /\ node' = node /\ alloc' = alloc /\ registry' = registry /\ current' = current
  BY DEF timers
<1>2. TimerType'
  BY <1>1 DEF TimerInv, TimerType
<1>3. NoDanglingNode' /\ ClosureHeld'
  BY <1>1 DEF TimerInv, NoDanglingNode, ClosureHeld
<1>4. Good(list', node') /\ current' \notin Range(Chain(list'))
  BY <1>1 DEF TimerInv
<1>5. pc' = "callback" <=> current' # Null
  BY <1>1 DEF TimerInv
<1> QED
  BY <1>2, <1>3, <1>4, <1>5 DEF TimerInv

\* slam_timer_list_delete frees every node.
LEMMA LeaveKeeps ==
  ASSUME TimerInv, Leave
  PROVE  TimerInv'
<1>1. /\ pc = "leave" /\ pc' = "stopped" /\ alloc' = alloc \ Range(Chain(list))
      /\ list' = list /\ node' = node /\ current' = current /\ now' = now /\ nowtime' = nowtime
  BY DEF Leave
<1>2. current = Null
  BY <1>1 DEF TimerInv
<1>3. alloc = Range(Chain(list))
  BY <1>1, <1>2 DEF TimerInv, NoDanglingNode
<1>4. TimerType'
  BY <1>1 DEF TimerInv, TimerType
<1>5. NoDanglingNode' /\ ClosureHeld'
  BY <1>1, <1>3 DEF NoDanglingNode, ClosureHeld
<1> QED
  BY <1>1, <1>2, <1>4, <1>5 DEF TimerInv

LEMMA TimerStep == TimerInv /\ [Next]_vars => TimerInv'
<1> SUFFICES ASSUME TimerInv, [Next]_vars PROVE TimerInv'
  OBVIOUS
<1>0. now \in Nat /\ nowtime \in Nat
  BY DEF TimerInv, TimerType
<1>1. CASE Lua
  <2>1. CASE \E r \in Ref, i \in Interval, f \in BOOLEAN : NewTimer(r, i, f)
    BY <2>1, NewTimerKeeps
  <2>2. CASE \E r \in Ref : RemoveTimer(r)
    BY <2>2, RemoveTimerKeeps
  <2> QED
    BY <1>1, <2>1, <2>2 DEF Lua
<1>2. CASE Loop
  <2>1. CASE EntryDone
    BY <1>0, <2>1, OtherKeeps DEF EntryDone
  <2>2. CASE LoopTop
    BY <1>0, <2>2, OtherKeeps DEF LoopTop
  <2>3. CASE EpollWait
    BY <1>0, <2>3, OtherKeeps DEF EpollWait
  <2>4. CASE WakeByTimeout
    BY <1>0, <2>4, OtherKeeps DEF WakeByTimeout, Woken
  <2>5. CASE MessagesDone
    BY <1>0, <2>5, OtherKeeps DEF MessagesDone
  <2>6. CASE FireHead
    BY <2>6, FireHeadKeeps
  <2>7. CASE CallbackDone
    BY <2>7, CallbackDoneKeeps
  <2>8. CASE FireDone
    BY <1>0, <2>8, OtherKeeps DEF FireDone
  <2>9. CASE LeaveLoop
    BY <1>0, <2>9, OtherKeeps DEF LeaveLoop
  <2>10. CASE Leave
    BY <2>10, LeaveKeeps
  <2> QED
    BY <1>2, <2>1, <2>2, <2>3, <2>4, <2>5, <2>6, <2>7, <2>8, <2>9, <2>10 DEF Loop
<1>3. CASE WakeByEvent
  BY <1>0, <1>3, OtherKeeps DEF WakeByEvent, Woken
<1>4. CASE Tick
  BY <1>0, <1>4, OtherKeeps DEF Tick
<1>5. CASE Halt
  BY <1>0, <1>5, OtherKeeps DEF Halt
<1>6. CASE UNCHANGED vars
  BY <1>0, <1>6, OtherKeeps DEF vars
<1> QED
  BY <1>1, <1>2, <1>3, <1>4, <1>5, <1>6 DEF Next, Stopped

THEOREM TimerInvHolds == Spec => []TimerInv
<1>1. Init => TimerInv
  BY TimerInit
<1>2. TimerInv /\ [Next]_vars => TimerInv'
  BY TimerStep
<1> QED
  BY <1>1, <1>2, PTL DEF Spec

-----------------------------------------------------------------------------
(* The properties of the timers.                                           *)

\* The links are one doubly linked list at every step of the worker, also while a
\* callback adds and removes timers and with the stale links removed nodes keep.
THEOREM DoublyLinkedHolds == Spec => []DoublyLinked
<1>1. ASSUME TimerInv PROVE DoublyLinked
  <2>1. PICK n \in Nat : n = Len(Chain(list))
    BY <1>1 DEF TimerInv, Good
  <2>2. PICK q : q = Chain(list)
    OBVIOUS
  <2>3. Path(list, n, q)
    BY <1>1, <2>1, <2>2 DEF TimerInv, Good
  <2>4. /\ q \in [1 .. n -> Ref] /\ \A i, j \in 1 .. n : q[i] = q[j] => i = j
        /\ \A i \in 1 .. n : list.prev[q[i]] = IF i = 1 THEN Null ELSE q[i - 1]
    BY <2>3 DEF Path
  <2>5. n <= Cardinality(Ref)
    BY <2>4, PathIsShort
  <2>6. IsInjective(q)
    BY <2>4 DEF IsInjective
  <2>7. q # << >> => list.prev[q[1]] = Null
    <3>1. q # << >> => 1 \in 1 .. n
      BY <2>4
    <3> QED
      BY <2>4, <3>1
  <2>8. \A i \in 2 .. n : list.prev[q[i]] = q[i - 1]
    BY <2>4
  <2> QED
    BY <2>1, <2>2, <2>5, <2>6, <2>7, <2>8 DEF DoublyLinked
<1> QED
  BY <1>1, TimerInvHolds, PTL

\* The head is the next timer to fire: the list is ordered by expire_time at every
\* step, whatever the callbacks add and remove and with forever timers put back.
THEOREM OrderedHolds == Spec => []Ordered
<1>1. ASSUME TimerInv PROVE Ordered
  BY <1>1 DEF TimerInv, Good, Sorted, Ordered
<1> QED
  BY <1>1, TimerInvHolds, PTL

\* No node leaks and no freed node is in the list.
THEOREM NoDanglingNodeHolds == Spec => []NoDanglingNode
<1>1. TimerInv => NoDanglingNode
  BY DEF TimerInv
<1> QED
  BY <1>1, TimerInvHolds, PTL

\* A timer that can fire has its closure.
THEOREM ClosureHeldHolds == Spec => []ClosureHeld
<1>1. TimerInv => ClosureHeld
  BY DEF TimerInv
<1> QED
  BY <1>1, TimerInvHolds, PTL

=============================================================================
