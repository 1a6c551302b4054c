--------------------------- MODULE VersionsProofs ---------------------------
(***************************************************************************)
(* What the terms of a constraint mean, for every version and every bound: *)
(* the comparisons of constraint.go decide membership of the interval that *)
(* Versions states beside them.  TLC compares the two at the boundaries;   *)
(* the theorems hold for all numbers.                                      *)
(***************************************************************************)
EXTENDS Versions, DataLemmas

\* parseVersion yields three components that fit, whatever the text.
LEMMA ParsedIsTriple ==
  ASSUME NEW text \in VersionText
  PROVE  ParseVersion(text) \in Triple
<1>1. ASSUME NEW i \in 1..3
      PROVE  (IF i <= Len(text.core) /\ text.core[i] <= MaxPart
              THEN text.core[i] ELSE 0) \in 0..MaxPart
  <2>1. text.core \in Seq(Nat)
    BY DEF VersionText
  <2>2. CASE i <= Len(text.core) /\ text.core[i] <= MaxPart
    <3>1. i \in 1..Len(text.core)
      BY <2>1, <2>2
    <3>2. text.core[i] \in Nat
      BY <2>1, <3>1
    <3> QED
      BY <2>2, <3>2, MaxPartAssumption
  <2>3. CASE ~(i <= Len(text.core) /\ text.core[i] <= MaxPart)
    BY <2>3, MaxPartAssumption
  <2> QED
    BY <2>2, <2>3
<1> QED
  BY <1>1 DEF ParseVersion, Triple

\* The components of a triple, for the arithmetic below.
LEMMA TripleParts ==
  ASSUME NEW v \in Triple
  PROVE  /\ v[1] \in Nat /\ v[2] \in Nat /\ v[3] \in Nat
         /\ v[1] <= MaxPart /\ v[2] <= MaxPart /\ v[3] <= MaxPart
BY MaxPartAssumption DEF Triple

\* "Greater than b" is "not below the successor of b": the comparison is an
\* order without gaps, which is what lets every term be an interval.
LEMMA NextAfter ==
  ASSUME NEW b \in Triple, NEW v \in Triple
  PROVE  Before(b, v) <=> ~Before(v, Bump(b, 3))
BY TripleParts DEF Before, Bump

\* No version comes before 0.0.0, and every one before what is out of range.
LEMMA OuterBounds ==
  ASSUME NEW v \in Triple
  PROVE  ~Before(v, Zero) /\ Before(v, Beyond)
BY TripleParts, MaxPartAssumption DEF Before, Zero, Beyond

\* caretUpperOK: from the base up to the next change of its first component
\* that is not zero; ^0.0.z admits z alone.
LEMMA CaretIsInterval ==
  ASSUME NEW b \in Triple, NEW v \in Triple
  PROVE  (~Before(v, b) /\ CaretUpperOK(b, v))
           <=> Within(v, [from |-> b, to |-> Bump(b, CaretPart(b))])
<1>0. /\ b[1] \in Nat /\ b[2] \in Nat /\ b[3] \in Nat
      /\ v[1] \in Nat /\ v[2] \in Nat /\ v[3] \in Nat
  BY TripleParts
<1>1. CASE b[1] > 0
  BY <1>0, <1>1 DEF Before, CaretUpperOK, Within, Bump, CaretPart
<1>2. CASE ~(b[1] > 0) /\ b[2] > 0
  BY <1>0, <1>2 DEF Before, CaretUpperOK, Within, Bump, CaretPart
<1>3. CASE ~(b[1] > 0) /\ ~(b[2] > 0)
  BY <1>0, <1>3 DEF Before, CaretUpperOK, Within, Bump, CaretPart
<1> QED
  BY <1>1, <1>2, <1>3

\* matchesTilde: from the base up to the next major version, or the next minor
\* one if three components are written.
LEMMA TildeIsInterval ==
  ASSUME NEW text \in VersionText, NEW v \in Triple
  PROVE  MatchesTilde(text, v)
           <=> Within(v, [from |-> ParseVersion(text),
                          to |-> Bump(ParseVersion(text), TildePart(text))])
<1> DEFINE b == ParseVersion(text)
<1>0. b \in Triple
  BY ParsedIsTriple
<1>1. /\ b[1] \in Nat /\ b[2] \in Nat /\ b[3] \in Nat
      /\ v[1] \in Nat /\ v[2] \in Nat /\ v[3] \in Nat
  BY <1>0, TripleParts
<1>2. MatchesTilde(text, v)
        <=> ~Before(v, b) /\ v[1] = b[1] /\ (Len(text.core) >= 3 => v[2] = b[2])
  BY DEF MatchesTilde
<1> HIDE DEF b
<1>3. CASE Len(text.core) >= 3
  <2>1. TildePart(text) = 2
    BY <1>3 DEF TildePart
  <2>2. (~Before(v, b) /\ v[1] = b[1] /\ v[2] = b[2])
          <=> Within(v, [from |-> b, to |-> Bump(b, 2)])
    BY <1>1 DEF Before, Within, Bump
  <2> QED
    BY <1>2, <1>3, <2>1, <2>2 DEF b
<1>4. CASE ~(Len(text.core) >= 3)
  <2>1. TildePart(text) = 1
    BY <1>4 DEF TildePart
  <2>2. (~Before(v, b) /\ v[1] = b[1])
          <=> Within(v, [from |-> b, to |-> Bump(b, 1)])
    BY <1>1 DEF Before, Within, Bump
  <2> QED
    BY <1>2, <1>4, <2>1, <2>2 DEF b
<1> QED
  BY <1>3, <1>4

\* Every term with one of these operators admits exactly the versions of its
\* interval: matchesSingle has no gap and no overlap at a boundary.
THEOREM OrderingTermsAreIntervals ==
  ASSUME NEW t \in OrderingTerm, NEW version \in VersionText
  PROVE  MatchesSingle(t, version)
           <=> Within(ParseVersion(version), Interval(t))
<1> DEFINE b == ParseVersion(t.arg)
           v == ParseVersion(version)
<1>0. /\ t.op \in {">=", "<=", ">", "<", "^", "~", "*"}
      /\ t.arg \in VersionText
  BY DEF OrderingTerm
<1>1. b \in Triple /\ v \in Triple
  BY <1>0, ParsedIsTriple
<1>2. ~Before(v, Zero) /\ Before(v, Beyond)
  BY <1>1, OuterBounds
<1>3. CASE t.op = ">="
  BY <1>2, <1>3 DEF MatchesSingle, Interval, Within
<1>4. CASE t.op = "<="
  <2>1. Before(b, v) <=> ~Before(v, Bump(b, 3))
    BY <1>1, NextAfter
  <2> QED
    BY <1>2, <1>4, <2>1 DEF MatchesSingle, Interval, Within
<1>5. CASE t.op = ">"
  <2>1. Before(b, v) <=> ~Before(v, Bump(b, 3))
    BY <1>1, NextAfter
  <2> QED
    BY <1>2, <1>5, <2>1 DEF MatchesSingle, Interval, Within
<1>6. CASE t.op = "<"
  BY <1>2, <1>6 DEF MatchesSingle, Interval, Within
<1>7. CASE t.op = "^"
  <2>1. (~Before(v, b) /\ CaretUpperOK(b, v))
          <=> Within(v, [from |-> b, to |-> Bump(b, CaretPart(b))])
    BY <1>1, CaretIsInterval
  <2> QED
    BY <1>7, <2>1 DEF MatchesSingle, Interval
<1>8. CASE t.op = "~"
  <2>1. MatchesTilde(t.arg, v)
          <=> Within(v, [from |-> b, to |-> Bump(b, TildePart(t.arg))])
    BY <1>0, <1>1, TildeIsInterval
  <2> QED
    BY <1>8, <2>1 DEF MatchesSingle, Interval
<1>9. CASE t.op = "*"
  BY <1>2, <1>9 DEF MatchesSingle, Interval, Within
<1> QED
  BY <1>0, <1>3, <1>4, <1>5, <1>6, <1>7, <1>8, <1>9

\* hyphenUpper: an upper end that is written with one or two components lets
\* in everything that begins with it, and nothing that comes after.
THEOREM HyphenEndIsPrefix ==
  ASSUME NEW text \in VersionText, Len(text.core) \in 1..3, NEW v \in Triple
  PROVE  ~Before(HyphenUpper(text), v)
           <=> Before(v, Bump(ParseVersion(text), Len(text.core)))
<1> DEFINE b == ParseVersion(text)
<1>0. b \in Triple
  BY ParsedIsTriple
<1>1. /\ b[1] \in Nat /\ b[2] \in Nat /\ b[3] \in Nat
      /\ v[1] \in Nat /\ v[2] \in Nat /\ v[3] \in Nat
      /\ v[2] <= MaxPart /\ v[3] <= MaxPart
  BY <1>0, TripleParts
<1>2. HyphenUpper(text)
        = [i \in 1..3 |-> IF i = 1 \/ i <= Len(text.core)
                          THEN b[i] ELSE MaxPart]
  BY DEF HyphenUpper
<1> HIDE DEF b
<1>3. CASE Len(text.core) = 1
  BY <1>1, <1>2, <1>3, MaxPartAssumption DEF Before, Bump, b
<1>4. CASE Len(text.core) = 2
  BY <1>1, <1>2, <1>4, MaxPartAssumption DEF Before, Bump, b
<1>5. CASE Len(text.core) = 3
  BY <1>1, <1>2, <1>5, MaxPartAssumption DEF Before, Bump, b
<1> QED
  BY <1>3, <1>4, <1>5

\* versionHasPrefix compares components: 1.2 is no prefix of 1.20.
LEMMA PrefixByComponents ==
  ASSUME NEW core \in Seq(Nat), NEW prefix \in Seq(Nat)
  PROVE  VersionHasPrefix(core, prefix)
           <=> /\ Len(prefix) <= Len(core)
               /\ \A i \in 1..Len(prefix) : core[i] = prefix[i]
<1>1. CASE Len(prefix) <= Len(core)
  <2>1. /\ Len(SubSeq(core, 1, Len(prefix))) = Len(prefix)
        /\ \A i \in 1..Len(prefix) :
             SubSeq(core, 1, Len(prefix))[i] = core[i]
        /\ SubSeq(core, 1, Len(prefix)) \in Seq(Nat)
    BY <1>1
  <2>2. SubSeq(core, 1, Len(prefix)) = prefix
          <=> \A i \in 1..Len(prefix) :
                SubSeq(core, 1, Len(prefix))[i] = prefix[i]
    BY <2>1
  <2> QED
    BY <1>1, <2>1, <2>2 DEF VersionHasPrefix
<1>2. CASE ~(Len(prefix) <= Len(core))
  BY <1>2 DEF VersionHasPrefix
<1> QED
  BY <1>1, <1>2

\* A prefix of up to three components is the interval up to the next value of
\* its last one.
LEMMA PrefixIsInterval ==
  ASSUME NEW version, FullText(version),
         NEW t, RegularTerm(t), t.op \in Equalities
  PROVE  VersionHasPrefix(version.core, t.arg.core)
           <=> Within(ParseVersion(version), Interval(t))
<1> DEFINE v == ParseVersion(version)
           b == ParseVersion(t.arg)
           n == Len(t.arg.core)
<1>1. /\ t.arg \in VersionText /\ n \in 1..3
      /\ \A i \in 1..n : t.arg.core[i] <= MaxPart
  BY DEF RegularTerm, OrderingTerm, Equalities
<1>2. /\ version.core \in Seq(Nat) /\ t.arg.core \in Seq(Nat)
      /\ Len(version.core) >= 3 /\ Len(version.core) \in Nat
      /\ \A i \in 1..Len(version.core) : version.core[i] <= MaxPart
  <2>1. /\ version.core \in Seq(Nat) /\ t.arg.core \in Seq(Nat)
        /\ Len(version.core) >= 3
        /\ \A i \in 1..Len(version.core) : version.core[i] <= MaxPart
    BY <1>1 DEF FullText, VersionText
  <2>2. \A s \in Seq(Nat) : Len(s) \in Nat
    OBVIOUS
  <2> QED
    BY <2>1, <2>2
<1>3. \A i \in 1..3 : v[i] = version.core[i]
  BY <1>2 DEF ParseVersion
<1>4. \A i \in 1..3 : b[i] = IF i <= n THEN t.arg.core[i] ELSE 0
  <2>1. ASSUME NEW i \in 1..3
        PROVE  b[i] = IF i <= n /\ t.arg.core[i] <= MaxPart
                      THEN t.arg.core[i] ELSE 0
    BY DEF ParseVersion
  <2>2. ASSUME NEW i \in 1..3, i <= n
        PROVE  t.arg.core[i] <= MaxPart
    <3>1. i \in 1..n
      BY <1>1, <2>2
    <3> QED
      BY <1>1, <3>1
  <2> QED
    BY <2>1, <2>2
<1>5. v \in Triple /\ b \in Triple
  BY <1>1, ParsedIsTriple DEF FullText
<1>6. /\ b[1] \in Nat /\ b[2] \in Nat /\ b[3] \in Nat
      /\ v[1] \in Nat /\ v[2] \in Nat /\ v[3] \in Nat
  BY <1>5, TripleParts
<1>7. VersionHasPrefix(version.core, t.arg.core)
        <=> \A i \in 1..n : v[i] = b[i]
  <2>1. VersionHasPrefix(version.core, t.arg.core)
          <=> \A i \in 1..n : version.core[i] = t.arg.core[i]
    <3>1. n <= Len(version.core)
      <4> DEFINE m == Len(version.core)
      <4>1. n \in 1..3 /\ m \in Nat /\ m >= 3
        BY <1>1, <1>2
      <4> HIDE DEF n, m
      <4>2. n <= m
        BY <4>1
      <4> QED
        BY <4>2 DEF m
    <3> QED
      BY <1>2, <3>1, PrefixByComponents
  <2>2. \A i \in 1..n : v[i] = version.core[i] /\ b[i] = t.arg.core[i]
    BY <1>1, <1>3, <1>4, SMTT(30)
  <2> QED
    BY <2>1, <2>2
<1>8. Interval(t) = [from |-> b, to |-> Bump(b, n)]
  BY DEF Interval, Equalities
<1> HIDE DEF v, b
<1>9. (\A i \in 1..n : v[i] = b[i])
        <=> Within(v, [from |-> b, to |-> Bump(b, n)])
  <2>1. CASE n = 1
    BY <1>4, <1>6, <2>1 DEF Before, Within, Bump
  <2>2. CASE n = 2
    BY <1>4, <1>6, <2>2 DEF Before, Within, Bump
  <2>3. CASE n = 3
    BY <1>4, <1>6, <2>3 DEF Before, Within, Bump
  <2> QED
    BY <1>1, <2>1, <2>2, <2>3
<1> QED
  BY <1>7, <1>8, <1>9 DEF v

\* matchesSingle: a term matches exactly the versions of its interval, and !=
\* exactly the others, for every operator.
THEOREM TermsMeanIntervals ==
  ASSUME NEW t, RegularTerm(t), NEW version, FullText(version)
  PROVE  MatchesSingle(t, version)
           <=> (Within(ParseVersion(version), Interval(t)) <=> t.op # "!=")
<1>1. CASE t \in OrderingTerm
  <2>1. t.op # "!="
    BY <1>1 DEF OrderingTerm
  <2>2. version \in VersionText
    BY DEF FullText
  <2>3. MatchesSingle(t, version)
          <=> Within(ParseVersion(version), Interval(t))
    BY <1>1, <2>2, OrderingTermsAreIntervals
  <2> QED
    BY <2>1, <2>3
<1>2. CASE t.op \in Equalities
  <2>1. VersionHasPrefix(version.core, t.arg.core)
          <=> Within(ParseVersion(version), Interval(t))
    BY <1>2, PrefixIsInterval
  <2>2. /\ t.arg.core \in Seq(Nat) /\ Len(t.arg.core) \in 1..3
        /\ version.core \in Seq(Nat)
    BY <1>2 DEF RegularTerm, OrderingTerm, Equalities, FullText, VersionText
  <2>3. version.core = t.arg.core => VersionHasPrefix(version.core, t.arg.core)
    BY <2>2, PrefixByComponents
  <2>4. MatchesEquality(t.arg, version)
          <=> VersionHasPrefix(version.core, t.arg.core)
    <3>1. t.arg.core # <<>>
      <4>1. Len(<<>>) \notin 1..3
        OBVIOUS
      <4> QED
        BY <2>2, <4>1
    <3> QED
      BY <2>3, <3>1, Zenon DEF MatchesEquality
  <2>5. CASE t.op = "!="
    BY <2>1, <2>4, <2>5 DEF MatchesSingle
  <2>6. CASE t.op = ".*"
    BY <2>1, <2>6 DEF MatchesSingle
  <2>7. CASE t.op \in {"", "=", "=="}
    BY <2>1, <2>4, <2>7 DEF MatchesSingle
  <2> QED
    BY <1>2, <2>5, <2>6, <2>7 DEF Equalities
<1> QED
  BY <1>1, <1>2 DEF RegularTerm

-----------------------------------------------------------------------------
(* The terms of a group.                                                   *)

\* Whichever tokens constraintTerms joins, it returns terms that have a meaning
\* if every token, with the one it would be joined with, has one.
LEMMA TermsAreRegular ==
  ASSUME NEW g \in Seq(Token),
         \A k \in 1..Len(g) : RegularTerm(TermAt(g, k))
  PROVE  ConstraintTerms(g) \in Seq({t \in Token : RegularTerm(t)})
<1> DEFINE n == Len(g)
           T == {t \in Token : RegularTerm(t)}
           X == Seq(T)
           After(i) == IF Joins(g, i) THEN i + 2 ELSE i + 1
           Body(f) == [i \in 1..n + 1 |-> IF i > n THEN <<>>
                                          ELSE <<TermAt(g, i)>> \o f[After(i)]]
           terms == CHOOSE f : f = Body(f)
<1>1. ConstraintTerms(g) = terms[1]
  BY DEF ConstraintTerms
<1>2. n \in Nat /\ <<>> \in X /\ \A i \in 1..n : g[i] \in Token
  OBVIOUS
<1>3. ASSUME NEW i \in 1..n
      PROVE  TermAt(g, i) \in T /\ After(i) \in {i + 1, i + 2} /\ After(i) \in 1..n + 1
  <2>1. TermAt(g, i) \in Token
    <3>1. CASE Joins(g, i)
      <4>1. g[i] \in Token /\ g[i + 1] \in Token
        BY <1>2, <3>1 DEF Joins
      <4> QED
        BY <3>1, <4>1 DEF TermAt, Token
    <3>2. CASE ~Joins(g, i)
      BY <1>2, <3>2 DEF TermAt
    <3> QED
      BY <3>1, <3>2
  <2>2. After(i) \in {i + 1, i + 2} /\ After(i) \in 1..n + 1
    BY <1>2 DEF Joins
  <2> QED
    BY <2>1, <2>2
<1> HIDE DEF n, T, After
<1>4. ASSUME NEW t \in T, NEW s \in X
      PROVE  <<t>> \o s \in X
  OBVIOUS
<1> HIDE DEF X
\* Two of them at a time, from the last token to the first.
<1>5. \E f : f = Body(f)
  <2> DEFINE Y == X \X X
             Next1(i, x) == <<<<TermAt(g, i)>> \o (IF After(i) = i + 1 THEN x[1] ELSE x[2]),
                              x[1]>>
             step == [k \in 1..n |-> [x \in Y |-> Next1(n + 1 - k, x)]]
             start == <<<<>>, <<>>>>
  <2>1. start \in Y
    BY <1>2
  <2>2. ASSUME NEW k \in 1..n, NEW x \in Y
        PROVE  Next1(n + 1 - k, x) \in Y
    <3>1. n + 1 - k \in 1..n
      BY <1>2
    <3>2. x[1] \in X /\ x[2] \in X
      OBVIOUS
    <3> QED
      BY <1>3, <1>4, <3>1, <3>2
  <2> HIDE DEF Next1, Y
  <2>3. step \in [1..n -> [Y -> Y]]
    BY <2>2
  <2>4. \A k \in 1..n, x \in Y : step[k][x] = Next1(n + 1 - k, x)
    OBVIOUS
  <2> HIDE DEF step, start
  <2>0. n \in Nat
    BY <1>2
  <2>5. PICK f \in [0..n -> Y] : /\ f[0] = start
                                 /\ \A k \in 1..n : f[k] = step[k][f[k - 1]]
    BY ONLY <2>0, <2>1, <2>3, PrimitiveRecursion
  <2>6. ASSUME NEW k \in 1..n
        PROVE  /\ f[k - 1] \in Y
               /\ f[k] = Next1(n + 1 - k, f[k - 1])
    <3>1. f[k - 1] \in Y
      BY <1>2
    <3> QED
      BY <2>4, <2>5, <3>1
  <2> DEFINE h == [i \in 1..n + 1 |-> f[n + 1 - i][1]]
  <2>7. ASSUME NEW i \in 1..n + 1
        PROVE  h[i] = IF i > n THEN <<>> ELSE <<TermAt(g, i)>> \o h[After(i)]
    <3>1. CASE i > n
      <4>1. i = n + 1 /\ n + 1 - i = 0
        BY <1>2, <3>1
      <4>2. h[i] = f[0][1]
        BY <4>1
      <4> QED
        BY <2>5, <3>1, <4>2 DEF start
    <3>2. CASE ~(i > n)
      <4> DEFINE k == n + 1 - i
      <4>1. i \in 1..n /\ k \in 1..n /\ n + 1 - k = i /\ k - 1 = n + 1 - (i + 1)
            /\ i + 1 \in 1..n + 1
        BY <1>2, <3>2
      <4>2. h[i] = f[k][1] /\ h[i + 1] = f[k - 1][1]
        BY <4>1
      <4>3. f[k] = Next1(i, f[k - 1])
        BY <2>6, <4>1
      <4>4. h[i] = <<TermAt(g, i)>> \o (IF After(i) = i + 1 THEN f[k - 1][1] ELSE f[k - 1][2])
        BY <4>2, <4>3 DEF Next1
      <4>5. CASE After(i) = i + 1
        BY <3>2, <4>2, <4>4, <4>5
      <4>6. CASE After(i) # i + 1
        <5>1. After(i) = i + 2 /\ i + 2 \in 1..n + 1
          BY <1>3, <4>1, <4>6
        <5>2. k - 1 \in 1..n /\ n + 1 - (k - 1) = i + 1 /\ (k - 1) - 1 = n + 1 - (i + 2)
          BY <1>2, <4>1, <5>1
        <5>3. f[k - 1] = Next1(i + 1, f[k - 1 - 1])
          BY <2>6, <5>2
        <5>4. f[k - 1][2] = f[k - 1 - 1][1] /\ h[i + 2] = f[k - 1 - 1][1]
          BY <5>1, <5>2, <5>3 DEF Next1
        <5> QED
          BY <3>2, <4>4, <4>6, <5>1, <5>4
      <4> QED
        BY <4>5, <4>6
    <3> QED
      BY <3>1, <3>2
  <2>8. h = Body(h)
    <3>1. h = [i \in 1..n + 1 |-> h[i]]
      OBVIOUS
    <3> HIDE DEF h
    <3> QED
      BY <2>7, <3>1
  <2> QED
    BY <2>8
<1>6. terms = Body(terms)
  <2> HIDE DEF Body
  <2> QED
    BY <1>5
<1> HIDE DEF terms
<1>7. \A i \in 1..n + 1 :
        terms[i] = IF i > n THEN <<>> ELSE <<TermAt(g, i)>> \o terms[After(i)]
  BY <1>6, Zenon
<1> DEFINE Good(k) == \A i \in 1..n + 1 : i + k > n => terms[i] \in X
           S == {k \in Nat : Good(k)}
<1>8. 0 \in S
  <2>1. ASSUME NEW i \in 1..n + 1, i + 0 > n
        PROVE  terms[i] \in X
    <3>1. i > n
      BY <1>2, <2>1
    <3> QED
      BY <1>2, <1>7, <3>1, Zenon
  <2> QED
    BY <1>2, <2>1
<1>9. ASSUME NEW k \in Nat, k \in S
      PROVE  k + 1 \in S
  <2>1. ASSUME NEW i \in 1..n + 1, i + (k + 1) > n
        PROVE  terms[i] \in X
    <3>1. CASE i > n
      BY <1>2, <1>7, <3>1
    <3>2. CASE ~(i > n)
      <4>1. i \in 1..n
        BY <1>2, <3>2
      <4>2. After(i) \in 1..n + 1 /\ After(i) \in {i + 1, i + 2} /\ TermAt(g, i) \in T
        BY <1>3, <4>1
      <4>0. After(i) + k > n
        BY <1>2, <2>1, <4>1, <4>2
      <4>3. terms[After(i)] \in X
        BY <1>9, <4>0, <4>2
      <4> QED
        BY <1>4, <1>7, <3>2, <4>2, <4>3
    <3> QED
      BY <3>1, <3>2
  <2> QED
    BY <2>1
<1>10. n \in S
  <2>1. \A k \in Nat : k \in S => k + 1 \in S
    BY <1>9
  <2> HIDE DEF S
  <2> QED
    BY <1>2, <1>8, <2>1, NatSetInduction
<1>11. terms[1] \in X
  BY <1>2, <1>10
<1> QED
  BY <1>1, <1>11 DEF X, T

-----------------------------------------------------------------------------
\* Matches(constraint, version) holds exactly if the version lies in the
\* intervals of one alternative, whatever the numbers are.
THEOREM ConstraintsMeanIntervals ==
  ASSUME NEW c, RegularConstraint(c), NEW version, FullText(version)
  PROVE  ConstraintMatches(c, version) <=> Admits(c, version)
<1> DEFINE v == ParseVersion(version)
<1>1. ASSUME NEW i \in 1..Len(c)
      PROVE  MatchesAndGroup(c[i], version) <=> GroupAdmits(c[i], v)
  <2>1. CASE IsHyphenRange(c[i])
    <3>1. /\ c[i][3].arg \in VersionText
          /\ Len(c[i][3].arg.core) \in 1..3
      <4>1. c[i] \in Seq(Token) /\ Len(c[i]) = 3 /\ Len(c[i][3].arg.core) \in 1..3
        BY <2>1 DEF RegularConstraint, IsHyphenRange
      <4>2. c[i][3] \in Token
        BY <4>1
      <4> QED
        BY <4>1, <4>2 DEF Token
    <3>2. v \in Triple
      BY ParsedIsTriple DEF FullText
    <3>3. ~Before(HyphenUpper(c[i][3].arg), v)
            <=> Before(v, Bump(ParseVersion(c[i][3].arg),
                               Len(c[i][3].arg.core)))
      BY <3>1, <3>2, HyphenEndIsPrefix
    <3> QED
      BY <2>1, <3>3 DEF MatchesAndGroup, GroupAdmits, Within
  <2>2. CASE ~IsHyphenRange(c[i])
    <3> DEFINE terms == ConstraintTerms(c[i])
    <3>1. \A k \in 1..Len(terms) : RegularTerm(terms[k])
      <4>1. c[i] \in Seq(Token) /\ \A k \in 1..Len(c[i]) : RegularTerm(TermAt(c[i], k))
        BY <2>2 DEF RegularConstraint
      <4>2. terms \in Seq({t \in Token : RegularTerm(t)})
        BY <4>1, TermsAreRegular
      <4> HIDE DEF terms
      <4> QED
        BY <4>2
    <3>2. \A k \in 1..Len(terms) :
            MatchesSingle(terms[k], version)
              <=> (Within(v, Interval(terms[k])) <=> terms[k].op # "!=")
      BY <3>1, TermsMeanIntervals
    <3>3. MatchesAndGroup(c[i], version)
            <=> \A k \in 1..Len(terms) : MatchesSingle(terms[k], version)
      BY <2>2 DEF MatchesAndGroup
    <3>4. GroupAdmits(c[i], v)
            <=> \A k \in 1..Len(terms) :
                  Within(v, Interval(terms[k])) <=> terms[k].op # "!="
      BY <2>2 DEF GroupAdmits
    <3> QED
      BY <3>2, <3>3, <3>4
  <2> QED
    BY <2>1, <2>2
<1> QED
  BY <1>1 DEF ConstraintMatches, Admits
=============================================================================
