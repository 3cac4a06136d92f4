--------------------------- MODULE SlamSequences ---------------------------
(***************************************************************************)
(* What Joined gives for any sequence of sequences: the streams of bytes   *)
(* of SlamSocket and the statements of SlamDb are put together with it.    *)
(***************************************************************************)
EXTENDS SlamJoined, SequenceTheorems, NaturalsInduction, WellFoundedInduction, TLAPS

\* A set of numbers that is not empty has a least one.
LEMMA Least ==
  ASSUME NEW S, S \subseteq Nat, S # {}
  PROVE  \E x \in S : \A y \in S : x <= y
<1>1. \E x \in S : \A y \in S : ~(<<y, x>> \in OpToRel(<, Nat))
  BY WFMin, NatLessThanWellFounded, Zenon
<1>2. PICK x \in S : \A y \in S : ~(<<y, x>> \in OpToRel(<, Nat))
  BY <1>1, Zenon
<1>3. ASSUME NEW y \in S PROVE x <= y
  <2>1. ~(y < x)
    BY <1>2, Zenon DEF OpToRel
  <2> QED
    BY <2>1
<1> QED
  BY <1>3, Zenon

\* f[i] is what the first i of the sequences in s give, for i up to n
Flat(s, n, f) == f = [i \in 0 .. n |-> IF i = 0 THEN << >> ELSE f[i - 1] \o s[i]]

LEMMA FlatAt ==
  ASSUME NEW s, NEW n \in Nat, NEW f, Flat(s, n, f), NEW i \in 0 .. n
  PROVE  f[i] = IF i = 0 THEN << >> ELSE f[i - 1] \o s[i]
  BY Zenon DEF Flat

LEMMA FlatGrows ==
  ASSUME NEW s, NEW n \in Nat, NEW f, Flat(s, n, f)
  PROVE  \E g : Flat(s, n + 1, g)
<1> DEFINE g == [i \in 0 .. n + 1 |-> IF i = n + 1 THEN f[n] \o s[n + 1] ELSE f[i]]
<1>1. ASSUME NEW i \in 0 .. n + 1
      PROVE  (IF i = n + 1 THEN f[n] \o s[n + 1] ELSE f[i])
               = (IF i = 0 THEN << >> ELSE g[i - 1] \o s[i])
  <2>1. i # 0 => i - 1 \in 0 .. n + 1 /\ i - 1 # n + 1
    OBVIOUS
  <2>2. i # 0 => g[i - 1] = f[i - 1]
    BY <2>1
  <2> HIDE DEF g
  <2>3. CASE i = n + 1
    <3>1. i # 0 /\ i - 1 = n
      BY <2>3
    <3> QED
      BY <2>2, <2>3, <3>1, Zenon
  <2>4. CASE i # n + 1
    <3>1. i \in 0 .. n
      BY <2>4
    <3>2. f[i] = IF i = 0 THEN << >> ELSE f[i - 1] \o s[i]
      BY <3>1, FlatAt
    <3> QED
      BY <2>2, <2>4, <3>2
  <2> QED
    BY <2>3, <2>4
<1>2. g = [i \in 0 .. n + 1 |-> IF i = 0 THEN << >> ELSE g[i - 1] \o s[i]]
  BY <1>1, Zenon
<1> HIDE DEF g
<1> QED
  BY <1>2, Zenon DEF Flat

LEMMA FlatExists ==
  ASSUME NEW s, NEW n \in Nat
  PROVE  \E f : Flat(s, n, f)
<1> DEFINE S == {k \in Nat : ~ \E f : Flat(s, k, f)}
<1>1. ASSUME S # {} PROVE FALSE
  <2>0. S \subseteq Nat
    OBVIOUS
  <2>1. PICK x \in S : \A y \in S : x <= y
    <3> HIDE DEF S
    <3> QED
      BY <1>1, <2>0, Least, Zenon
  <2>2. x \in Nat /\ ~ \E f : Flat(s, x, f)
    OBVIOUS
  <2>3. x # 0
    <3>1. PICK g : g = [i \in 0 .. 0 |-> << >>]
      BY Zenon
    <3>2. \A i \in 0 .. 0 : i = 0
      OBVIOUS
    <3>3. g = [i \in 0 .. 0 |-> IF i = 0 THEN << >> ELSE g[i - 1] \o s[i]]
      BY <3>1, <3>2, Zenon
    <3> QED
      BY <2>2, <3>3, Zenon DEF Flat
  <2>4. x - 1 \in Nat /\ ~(x <= x - 1) /\ (x - 1) + 1 = x
    BY <2>2, <2>3
  <2>5. PICK f : Flat(s, x - 1, f)
    BY <2>1, <2>4
  <2>6. \E g : Flat(s, (x - 1) + 1, g)
    BY <2>4, <2>5, FlatGrows
  <2> QED
    BY <2>2, <2>4, <2>6
<1> QED
  BY <1>1

Agree(s, t, k) == \A i \in 1 .. k : s[i] = t[i]

\* The first k results depend on the first k sequences only.
LEMMA FlatSame ==
  ASSUME NEW s, NEW n \in Nat, NEW f, Flat(s, n, f),
         NEW t, NEW m \in Nat, NEW g, Flat(t, m, g),
         NEW k \in Nat, k <= n, k <= m, Agree(s, t, k)
  PROVE  f[k] = g[k]
<1> DEFINE S == {i \in 0 .. k : f[i] # g[i]}
<1>1. ASSUME S # {} PROVE FALSE
  <2>0. S \subseteq Nat
    OBVIOUS
  <2>1. PICK x \in S : \A y \in S : x <= y
    <3> HIDE DEF S
    <3> QED
      BY <1>1, <2>0, Least, Zenon
  <2>2. x \in 0 .. k /\ f[x] # g[x]
    OBVIOUS
  <2>3. x \in 0 .. n /\ x \in 0 .. m
    BY <2>2
  <2>4. f[x] = IF x = 0 THEN << >> ELSE f[x - 1] \o s[x]
    BY <2>3, FlatAt
  <2>5. g[x] = IF x = 0 THEN << >> ELSE g[x - 1] \o t[x]
    BY <2>3, FlatAt
  <2>6. x # 0 => f[x - 1] = g[x - 1]
    <3>1. x # 0 => x - 1 \in 0 .. k /\ ~(x <= x - 1)
      BY <2>2
    <3> QED
      BY <2>1, <3>1
  <2>7. x # 0 => s[x] = t[x]
    BY <2>2 DEF Agree
  <2> QED
    BY ONLY <2>2, <2>4, <2>5, <2>6, <2>7
<1>2. k \in 0 .. k
  OBVIOUS
<1> QED
  BY <1>1, <1>2

LEMMA JoinedIs ==
  ASSUME NEW s, Len(s) \in Nat, NEW f, Flat(s, Len(s), f)
  PROVE  Joined(s) = f[Len(s)]
<1>1. PICK n \in Nat : n = Len(s)
  OBVIOUS
<1> DEFINE h == CHOOSE g : Flat(s, n, g)
<1>2. Flat(s, n, f) /\ Flat(s, n, h)
  BY <1>1, Zenon
<1>3. Joined(s) = h[n]
  BY <1>1 DEF Joined, Flat
<1> HIDE DEF h
<1>4. n <= n /\ Agree(s, s, n)
  BY DEF Agree
<1>5. h[n] = f[n]
  BY <1>2, <1>4, FlatSame
<1> QED
  BY <1>1, <1>3, <1>5, Zenon

\* Nothing joined is nothing, for JoinedAppend to start from.
LEMMA JoinedNone == Joined(<< >>) = << >>
<1>1. PICK s : s = << >>
  BY Zenon
<1>2. Len(s) = 0 /\ 0 \in Nat /\ 0 \in 0 .. 0
  BY <1>1
<1>3. PICK f : Flat(s, 0, f)
  BY <1>2, FlatExists, Zenon
<1>4. Joined(s) = f[0]
  <2>1. Len(s) \in Nat /\ Flat(s, Len(s), f)
    BY <1>2, <1>3, Zenon
  <2> QED
    BY <1>2, <2>1, JoinedIs, Zenon
<1>5. f[0] = << >>
  BY <1>2, <1>3, FlatAt, Zenon
<1> QED
  BY <1>1, <1>4, <1>5, Zenon

\* Sequences with one more at the end.
LEMMA JoinedAppend ==
  ASSUME NEW T, NEW s \in Seq(Seq(T)), NEW e \in Seq(T)
  PROVE  Joined(s) \in Seq(T) /\ Joined(Append(s, e)) = Joined(s) \o e
<1>1. PICK n \in Nat : n = Len(s)
  OBVIOUS
<1>2. PICK t : t = Append(s, e)
  BY Zenon
<1>3. /\ Len(t) = n + 1 /\ t[n + 1] = e
      /\ \A i \in 1 .. n : t[i] = s[i] /\ s[i] \in Seq(T)
  BY <1>1, <1>2
<1>4. n + 1 \in Nat /\ n + 1 \in 0 .. n + 1 /\ n + 1 # 0 /\ (n + 1) - 1 = n /\ n <= n /\ n <= n + 1
  OBVIOUS
<1>5. PICK f : Flat(t, n + 1, f)
  BY <1>4, FlatExists, Zenon
<1>6. PICK g : Flat(s, n, g)
  BY FlatExists, Zenon
<1>7. Joined(t) = f[n + 1] /\ Joined(s) = g[n]
  <2>1. Len(t) \in Nat /\ Flat(t, Len(t), f) /\ Len(s) \in Nat /\ Flat(s, Len(s), g)
    BY <1>1, <1>3, <1>4, <1>5, <1>6, Zenon
  <2> QED
    BY <1>1, <1>3, <2>1, JoinedIs, Zenon
<1>8. f[n + 1] = f[n] \o e
  <2>1. f[n + 1] = IF n + 1 = 0 THEN << >> ELSE f[(n + 1) - 1] \o t[n + 1]
    BY <1>4, <1>5, FlatAt, Zenon
  <2> QED
    BY <1>3, <1>4, <2>1, Zenon
<1>9. f[n] = g[n]
  <2>1. Agree(t, s, n)
    BY <1>3 DEF Agree
  <2> QED
    BY <1>4, <1>5, <1>6, <2>1, FlatSame
<1>10. g[n] \in Seq(T)
  <2> DEFINE S == {i \in 0 .. n : g[i] \notin Seq(T)}
  <2>1. ASSUME S # {} PROVE FALSE
    <3>0. S \subseteq Nat
      OBVIOUS
    <3>1. PICK x \in S : \A y \in S : x <= y
      <4> HIDE DEF S
      <4> QED
        BY <2>1, <3>0, Least, Zenon
    <3>2. x \in 0 .. n /\ g[x] \notin Seq(T)
      OBVIOUS
    <3>3. g[x] = IF x = 0 THEN << >> ELSE g[x - 1] \o s[x]
      BY <1>6, <3>2, FlatAt
    <3>4. x # 0 => g[x - 1] \in Seq(T)
      <4>1. x # 0 => x - 1 \in 0 .. n /\ ~(x <= x - 1)
        BY <3>2
      <4> QED
        BY <3>1, <4>1
    <3>5. x # 0 => s[x] \in Seq(T)
      BY <1>3, <3>2
    <3>6. x # 0 => g[x - 1] \o s[x] \in Seq(T)
      BY ONLY <3>4, <3>5
    <3>7. << >> \in Seq(T)
      OBVIOUS
    <3> QED
      BY ONLY <3>2, <3>3, <3>6, <3>7
  <2>2. n \in 0 .. n
    OBVIOUS
  <2> QED
    BY <2>1, <2>2
<1> QED
  BY <1>2, <1>7, <1>8, <1>9, <1>10, Zenon

-----------------------------------------------------------------------------
\* Concatenation, when only its laws matter.
Cat(a, b) == a \o b

LEMMA CatLaws ==
  ASSUME NEW T, NEW r \in Seq(T), NEW s \in Seq(T), NEW t \in Seq(T)
  PROVE  Cat(r, s) \in Seq(T) /\ Cat(Cat(r, s), t) = Cat(r, Cat(s, t))
<1>1. r \o s \in Seq(T)
  OBVIOUS
<1>2. (r \o s) \o t = r \o (s \o t)
  BY ConcatAssociative
<1> QED
  BY ONLY <1>1, <1>2 DEF Cat

=============================================================================
