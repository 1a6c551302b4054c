----------------------------- MODULE DataLemmas -----------------------------
(***************************************************************************)
(* Induction and recursion over the numbers, stated with sets and          *)
(* functions: what the proofs about sorted lists, recursive functions and  *)
(* choices of a smallest or largest element rest on.                       *)
(***************************************************************************)
EXTENDS Sublists, WellFoundedInduction, TLAPS

\* A set of numbers has a least one.
LEMMA LeastNumber ==
  ASSUME NEW S, S \subseteq Nat, S # {}
  PROVE  \E m \in S : \A k \in S : m <= k
<1>1. PICK m \in S : \A k \in S : ~(<<k, m>> \in OpToRel(<, Nat))
  BY NatLessThanWellFounded, WFMin
<1>2. ASSUME NEW k \in S
      PROVE  m <= k
  <2>1. ~(k < m)
    BY <1>1 DEF OpToRel
  <2> QED
    BY <2>1
<1> QED
  BY <1>2

\* A bounded set of numbers has a largest one.
LEMMA LargestNumber ==
  ASSUME NEW n \in Nat, NEW S, S \subseteq 0..n, S # {}
  PROVE  \E m \in S : \A k \in S : k <= m
<1> DEFINE T == {n - k : k \in S}
<1>1. T \subseteq Nat /\ T # {}
  OBVIOUS
<1>2. PICK m \in T : \A k \in T : m <= k
  <2> HIDE DEF T
  <2> QED
    BY <1>1, LeastNumber
<1>3. PICK l \in S : m = n - l
  BY <1>2
<1>4. ASSUME NEW k \in S
      PROVE  k <= l
  <2>1. n - k \in T
    OBVIOUS
  <2>2. n - l <= n - k
    BY <1>2, <1>3, <2>1
  <2> QED
    BY <2>2
<1> QED
  BY <1>4

\* Induction: a set with 0 in it and closed under successors has all numbers.
LEMMA NatSetInduction ==
  ASSUME NEW S, 0 \in S, \A n \in Nat : n \in S => n + 1 \in S
  PROVE  Nat \subseteq S
<1> SUFFICES ASSUME ~(Nat \subseteq S) PROVE FALSE
  OBVIOUS
<1> DEFINE T == Nat \ S
<1>1. PICK m \in T : \A k \in T : m <= k
  <2>1. T \subseteq Nat /\ T # {}
    OBVIOUS
  <2> HIDE DEF T
  <2> QED
    BY <2>1, LeastNumber
<1>2. m \in Nat /\ m # 0 /\ m \notin S
  BY <1>1
<1>3. m - 1 \in Nat /\ m - 1 \in S
  BY <1>1, <1>2
<1> QED
  BY <1>2, <1>3

\* Primitive recursion: there is a function with the values its steps say.
LEMMA PrimitiveRecursion ==
  ASSUME NEW X, NEW start \in X, NEW last \in Nat,
         NEW step \in [1..last -> [X -> X]]
  PROVE  \E f \in [0..last -> X] :
           /\ f[0] = start
           /\ \A i \in 1..last : f[i] = step[i][f[i - 1]]
<1> DEFINE Good(n, f) == /\ f[0] = start
                         /\ \A i \in 1..n : f[i] = step[i][f[i - 1]]
           S == {n \in Nat : n <= last => \E f \in [0..n -> X] : Good(n, f)}
<1>1. 0 \in S
  <2>1. [i \in 0..0 |-> start] \in [0..0 -> X] /\ Good(0, [i \in 0..0 |-> start])
    OBVIOUS
  <2> QED
    BY <2>1
<1>2. ASSUME NEW n \in Nat, n \in S, n + 1 <= last
      PROVE  \E f \in [0..n + 1 -> X] : Good(n + 1, f)
  <2>1. PICK f \in [0..n -> X] : Good(n, f)
    BY <1>2
  <2> DEFINE g == [i \in 0..n + 1 |-> IF i = n + 1 THEN step[i][f[n]] ELSE f[i]]
  <2>2. step[n + 1] \in [X -> X] /\ f[n] \in X
    BY <1>2
  <2>3. step[n + 1][f[n]] \in X
    BY <2>2
  <2>4. g \in [0..n + 1 -> X]
    BY <2>3
  <2>5. g[0] = start
    BY <2>1
  <2>6. ASSUME NEW i \in 1..n + 1
        PROVE  g[i] = step[i][g[i - 1]]
    <3>1. CASE i = n + 1
      BY <3>1
    <3>2. CASE i # n + 1
      <4>1. i \in 1..n /\ i - 1 \in 0..n /\ i - 1 # n + 1
        BY <3>2
      <4> QED
        BY <2>1, <3>2, <4>1
    <3> QED
      BY <3>1, <3>2
  <2> HIDE DEF g
  <2> QED
    BY <2>4, <2>5, <2>6
<1>3. \A n \in Nat : n \in S => n + 1 \in S
  <2> HIDE DEF Good
  <2> QED
    BY <1>2
<1>4. last \in S
  <2> HIDE DEF S
  <2> QED
    BY <1>1, <1>3, NatSetInduction
<1> QED
  BY <1>4

-----------------------------------------------------------------------------
(* What is left when members are taken out of a sequence.                  *)

\* r is what is left of t without those in gone: pos says where each one went.
LeftOf(t, gone, r, pos) ==
  /\ \A i \in (1..Len(t)) \ gone : pos[i] \in 1..Len(r) /\ r[pos[i]] = t[i]
  /\ \A i, j \in (1..Len(t)) \ gone : i < j => pos[i] < pos[j]
  /\ \A k \in 1..Len(r) : \E i \in (1..Len(t)) \ gone : pos[i] = k
  /\ \A i \in 1..Len(t) : (1..i) \cap gone = {} => pos[i] = i

\* Without follows the recursion it is defined by.
LEMMA WithoutUnfolds ==
  ASSUME NEW L, NEW t \in Seq(L), NEW gone
  PROVE  \E keep :
           /\ Without(t, gone) = keep[Len(t)]
           /\ keep[0] = <<>>
           /\ \A i \in 1..Len(t) :
                keep[i] = IF i \in gone THEN keep[i - 1] ELSE Append(keep[i - 1], t[i])
<1> DEFINE N == Len(t)
           X == Seq(L)
           Next1(i, s) == IF i \in gone THEN s ELSE Append(s, t[i])
           Body(g) == [i \in 0..N |-> IF i = 0 THEN <<>> ELSE Next1(i, g[i - 1])]
           keep == CHOOSE g : g = Body(g)
<1>1. Without(t, gone) = keep[N]
  BY DEF Without
<1>2. N \in Nat /\ <<>> \in X /\ \A i \in 1..N : t[i] \in L
  OBVIOUS
<1>3. ASSUME NEW i \in 1..N, NEW s \in X
      PROVE  Next1(i, s) \in X
  BY <1>2
<1> HIDE DEF N, X
<1>4. \E g : g = Body(g)
  <2> DEFINE step == [i \in 1..N |-> [x \in X |-> Next1(i, x)]]
             start == <<>>
  <2> HIDE DEF Next1
  <2>1. step \in [1..N -> [X -> X]] /\ start \in X
    BY <1>2, <1>3
  <2>2. \A i \in 1..N, s \in X : step[i][s] = Next1(i, s)
    OBVIOUS
  <2> HIDE DEF step, start
  <2>0. N \in Nat
    BY <1>2
  <2>3. PICK f \in [0..N -> X] : /\ f[0] = start
                                 /\ \A i \in 1..N : f[i] = step[i][f[i - 1]]
    BY <2>0, <2>1, PrimitiveRecursion
  <2>4. ASSUME NEW i \in 1..N
        PROVE  f[i] = Next1(i, f[i - 1])
    <3>1. f[i - 1] \in X
      BY <1>2
    <3> QED
      BY <2>2, <2>3, <3>1
  <2>5. f = [i \in 0..N |-> IF i = 0 THEN start ELSE Next1(i, f[i - 1])]
    BY <1>2, <2>3, <2>4
  <2> QED
    BY <2>5 DEF start
<1>5. keep = Body(keep)
  <2> HIDE DEF Body
  <2> QED
    BY <1>4
<1> HIDE DEF keep
<1>6. keep[0] = <<>> /\ \A i \in 1..N : keep[i] = Next1(i, keep[i - 1])
  <2> HIDE DEF Next1
  <2>1. 0 \in 0..N /\ \A i \in 1..N : i \in 0..N /\ i # 0
    BY <1>2
  <2>2. keep = [i \in 0..N |-> IF i = 0 THEN <<>> ELSE Next1(i, keep[i - 1])]
    BY <1>5
  <2>3. \A i \in 0..N : keep[i] = IF i = 0 THEN <<>> ELSE Next1(i, keep[i - 1])
    BY <2>2, Zenon
  <2> QED
    BY <2>1, <2>3
<1> QED
  BY <1>1, <1>6 DEF N

\* The members that stay are those that are not gone, in their order.
LEMMA WithoutLeaves ==
  ASSUME NEW L, NEW t \in Seq(L), NEW gone
  PROVE  /\ Without(t, gone) \in Seq(L)
         /\ \E pos \in [0..Len(t) -> Nat] : LeftOf(t, gone, Without(t, gone), pos)
<1>1. PICK keep :
        /\ Without(t, gone) = keep[Len(t)]
        /\ keep[0] = <<>>
        /\ \A i \in 1..Len(t) :
             keep[i] = IF i \in gone THEN keep[i - 1] ELSE Append(keep[i - 1], t[i])
  BY WithoutUnfolds
<1> DEFINE N == Len(t)
<1>2. N \in Nat /\ \A i \in 1..N : t[i] \in L
  OBVIOUS
<1>3. keep[0] = <<>> /\ Without(t, gone) = keep[N] /\
      \A i \in 1..N : keep[i] = IF i \in gone THEN keep[i - 1] ELSE Append(keep[i - 1], t[i])
  BY <1>1
<1> HIDE DEF N
<1> DEFINE pos == [i \in 0..N |-> Len(keep[i])]
           Good(n) ==
             /\ keep[n] \in Seq(L)
             /\ \A i \in (1..n) \ gone : pos[i] \in 1..Len(keep[n]) /\ keep[n][pos[i]] = t[i]
             /\ \A i, j \in (1..n) \ gone : i < j => pos[i] < pos[j]
             /\ \A k \in 1..Len(keep[n]) : \E i \in (1..n) \ gone : pos[i] = k
             /\ \A i \in 0..n : pos[i] \in Nat
             /\ \A i \in 0..n : (1..i) \cap gone = {} => pos[i] = i
           S == {n \in Nat : n <= N => Good(n)}
<1>4. \A n \in 0..N : pos[n] = Len(keep[n])
  OBVIOUS
<1> HIDE DEF pos
<1>5. 0 \in S
  <2>1. pos[0] = 0 /\ keep[0] \in Seq(L) /\ Len(keep[0]) = 0
    BY <1>2, <1>3, <1>4
  <2>2. (1..0) \ gone = {} /\ 1..0 = {} /\ 0..0 = {0}
    OBVIOUS
  <2>3. Good(0)
    BY <2>1, <2>2
  <2> HIDE DEF Good
  <2> QED
    BY <2>3
<1>6. ASSUME NEW n \in Nat, n \in S, n + 1 <= N
      PROVE  Good(n + 1)
  <2>1. Good(n)
    <3> HIDE DEF Good
    <3> QED
      BY <1>2, <1>6
  <2>2. n \in 0..N /\ n + 1 \in 1..N /\ n + 1 \in 0..N /\ (n + 1) - 1 = n
    BY <1>2, <1>6
  <2>3. pos[n] = Len(keep[n]) /\ pos[n + 1] = Len(keep[n + 1])
    BY <1>4, <2>2
  <2>4. keep[n + 1] = IF n + 1 \in gone THEN keep[n] ELSE Append(keep[n], t[n + 1])
    BY <1>3, <2>2
  <2>5. CASE n + 1 \in gone
    <3>1. keep[n + 1] = keep[n]
      BY <2>4, <2>5
    <3>2. (1..n + 1) \ gone = (1..n) \ gone
      BY <2>5
    <3>3. ~((1..n + 1) \cap gone = {}) /\ \A i \in 0..n + 1 : i \in 0..n \/ i = n + 1
      BY <2>5
    <3>4. pos[n + 1] \in Nat
      BY <2>1, <2>2, <2>3, <3>1
    <3> QED
      BY <2>1, <3>1, <3>2, <3>3, <3>4
  <2>6. CASE n + 1 \notin gone
    <3> DEFINE s == keep[n]
               r == keep[n + 1]
               x == t[n + 1]
    <3>1. s \in Seq(L) /\ x \in L /\ r = Append(s, x)
      BY <1>2, <2>1, <2>2, <2>4, <2>6
    <3>2. pos[n] = Len(s) /\ pos[n + 1] = Len(r)
      BY <2>3
    <3>3. \A i \in (1..n) \ gone : pos[i] \in 1..Len(s) /\ s[pos[i]] = t[i]
      BY <2>1
    <3>4. \A k \in 1..Len(s) : \E i \in (1..n) \ gone : pos[i] = k
      BY <2>1
    <3>5. \A i, j \in (1..n) \ gone : i < j => pos[i] < pos[j]
      BY <2>1
    <3>6. /\ \A i \in 0..n : pos[i] \in Nat
          /\ \A i \in 0..n : (1..i) \cap gone = {} => pos[i] = i
      BY <2>1
    <3> HIDE DEF s, r, x
    <3>7. /\ r \in Seq(L) /\ Len(s) \in Nat /\ Len(r) = Len(s) + 1 /\ r[Len(s) + 1] = x
          /\ \A k \in 1..Len(s) : r[k] = s[k]
      BY <3>1
    <3> DEFINE l == Len(s)
               m == Len(r)
    <3>8. /\ l \in Nat /\ m = l + 1 /\ r[l + 1] = x /\ pos[n] = l /\ pos[n + 1] = l + 1
          /\ \A k \in 1..l : r[k] = s[k]
          /\ \A i \in (1..n) \ gone : pos[i] \in 1..l /\ s[pos[i]] = t[i]
          /\ \A k \in 1..l : \E i \in (1..n) \ gone : pos[i] = k
      BY <3>2, <3>3, <3>4, <3>7
    <3> HIDE DEF l, m
    <3>9. /\ \A i \in (1..n + 1) \ gone : i \in (1..n) \ gone \/ i = n + 1
          /\ \A i \in (1..n) \ gone : i \in (1..n + 1) \ gone /\ i < n + 1
          /\ n + 1 \in (1..n + 1) \ gone
      BY <2>6
    <3>10. \A i \in (1..n + 1) \ gone : pos[i] \in 1..m /\ r[pos[i]] = t[i]
      <4> TAKE i \in (1..n + 1) \ gone
      <4>1. CASE i = n + 1
        BY <3>8, <4>1 DEF x
      <4>2. CASE i \in (1..n) \ gone
        <5>1. pos[i] \in 1..l /\ s[pos[i]] = t[i]
          BY <3>8, <4>2
        <5>2. r[pos[i]] = s[pos[i]] /\ pos[i] \in 1..m
          BY <3>8, <5>1
        <5> QED
          BY <5>1, <5>2
      <4> QED
        BY <3>9, <4>1, <4>2
    <3>11. \A i, j \in (1..n + 1) \ gone : i < j => pos[i] < pos[j]
      <4> TAKE i, j \in (1..n + 1) \ gone
      <4> HAVE i < j
      <4>1. i \in (1..n) \ gone
        BY <3>9
      <4>2. CASE j = n + 1
        BY <3>8, <4>1, <4>2
      <4> QED
        BY <3>5, <3>9, <4>1, <4>2
    <3>12. \A k \in 1..m : \E i \in (1..n + 1) \ gone : pos[i] = k
      <4> TAKE k \in 1..m
      <4>1. k \in 1..l \/ k = l + 1
        BY <3>8
      <4> QED
        BY <4>1, <3>8, <3>9
    <3>13. \A i \in 0..n + 1 : pos[i] \in Nat
      BY <3>6, <3>8
    <3>14. \A i \in 0..n + 1 : (1..i) \cap gone = {} => pos[i] = i
      <4> SUFFICES ASSUME (1..n + 1) \cap gone = {} PROVE pos[n + 1] = n + 1
        BY <3>6
      <4>1. (1..n) \cap gone = {} /\ n \in 0..n
        OBVIOUS
      <4> QED
        BY <3>6, <3>8, <4>1
    <3> QED
      BY <3>7, <3>10, <3>11, <3>12, <3>13, <3>14 DEF m, r
  <2> QED
    BY <2>5, <2>6
<1>7. N \in S
  <2> HIDE DEF Good
  <2>1. \A n \in Nat : n \in S => n + 1 \in S
    BY <1>6
  <2> HIDE DEF S
  <2> QED
    BY <1>2, <1>5, <2>1, NatSetInduction
<1>8. Good(N)
  <2> HIDE DEF Good
  <2> QED
    BY <1>2, <1>7
<1>9. pos \in [0..N -> Nat]
  BY <1>8 DEF pos
<1>10. LeftOf(t, gone, keep[N], pos)
  <2>1. \A i \in 1..N : i \in 0..N
    BY <1>2
  <2> QED
    BY <1>2, <1>8, <2>1 DEF LeftOf, N
<1> QED
  BY <1>3, <1>8, <1>9, <1>10 DEF N
=============================================================================
