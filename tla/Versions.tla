------------------------------ MODULE Versions ------------------------------
(***************************************************************************)
(* Version constraints as internal/resolver/constraint.go reads them, and  *)
(* what they mean.                                                         *)
(*                                                                         *)
(* A version text is a record [core, tag]: the numbers between the dots,   *)
(* and what follows a "-" or "+".  A constraint is a sequence of           *)
(* alternatives ("||", "|"), an alternative a sequence of tokens, and a    *)
(* token a record [op, arg].  The empty sequence is the constraint "" (or  *)
(* "*"); an empty alternative is what a doubled "|" leaves.                *)
(***************************************************************************)
EXTENDS Naturals, Sequences

CONSTANT MaxPart   \* the largest number a component can hold, 2^64 - 1
ASSUME MaxPartAssumption == MaxPart \in Nat

Triple == [1..3 -> 0..MaxPart]
Text(core) == [core |-> core, tag |-> ""]
NoText == Text(<<>>)

\* parseVersion: three components, of which a missing or unreadable one is 0.
ParseVersion(text) ==
  [i \in 1..3 |-> IF i <= Len(text.core) /\ text.core[i] <= MaxPart
                  THEN text.core[i] ELSE 0]

\* semVer.cmp, as an order.
Before(a, b) ==
  \/ a[1] < b[1]
  \/ a[1] = b[1] /\ a[2] < b[2]
  \/ a[1] = b[1] /\ a[2] = b[2] /\ a[3] < b[3]

\* Mutation of CaretUpperOK: ^0.x is given the whole of 0.
CaretUpperOKWide(base, v) == v[1] = base[1]

CaretUpperOK(base, v) ==
  IF base[1] > 0 THEN v[1] = base[1]
  ELSE IF base[2] > 0 THEN v[1] = 0 /\ v[2] = base[2]
  ELSE v[1] = 0 /\ v[2] = 0 /\ v[3] = base[3]

\* matchesTilde counts the components that are written.
MatchesTilde(text, v) ==
  LET base == ParseVersion(text)
  IN /\ ~Before(v, base)
     /\ v[1] = base[1]
     /\ Len(text.core) >= 3 => v[2] = base[2]

\* hyphenUpper: an upper end of one or two components is a prefix.
HyphenUpper(text) ==
  [i \in 1..3 |-> IF i = 1 \/ i <= Len(text.core)
                  THEN ParseVersion(text)[i] ELSE MaxPart]

\* versionHasPrefix: the components of `prefix` begin those of `core`.
VersionHasPrefix(core, prefix) ==
  /\ Len(prefix) <= Len(core)
  /\ SubSeq(core, 1, Len(prefix)) = prefix

\* matchesEquality compares the texts: "" is no prefix of anything.
MatchesEquality(text, version) ==
  \/ version.core = text.core
  \/ text.core # <<>> /\ VersionHasPrefix(version.core, text.core)

MatchesSingle(t, version) ==
  LET v == ParseVersion(version)
      base == ParseVersion(t.arg)
  IN CASE t.op = ">=" -> ~Before(v, base)
       [] t.op = "<=" -> ~Before(base, v)
       [] t.op = "!=" -> ~MatchesEquality(t.arg, version)
       [] t.op = ">"  -> Before(base, v)
       [] t.op = "<"  -> Before(v, base)
       [] t.op = "^"  -> ~Before(v, base) /\ CaretUpperOK(base, v)
       [] t.op = "~"  -> MatchesTilde(t.arg, v)
       [] t.op = ".*" -> VersionHasPrefix(version.core, t.arg.core)
       [] t.op = "*"  -> TRUE
       [] t.op \in {"", "=", "=="} -> MatchesEquality(t.arg, version)

IsLoneOperator(t) ==
  t.arg = NoText /\ t.op \in {">=", "<=", "!=", ">", "<", "=", "=="}

\* constraintTerms joins an operator that stands alone with the next token.
Joins(group, i) == IsLoneOperator(group[i]) /\ i < Len(group)
TermAt(group, i) ==
  IF Joins(group, i) THEN [group[i] EXCEPT !.arg = group[i + 1].arg] ELSE group[i]
ConstraintTerms(group) ==
  LET terms[i \in 1..Len(group) + 1] ==
        IF i > Len(group) THEN <<>>
        ELSE <<TermAt(group, i)>>
               \o terms[IF Joins(group, i) THEN i + 2 ELSE i + 1]
  IN terms[1]

\* splitHyphenRange: "lo - hi", the only alternative that is not a list of terms.
IsHyphenRange(group) == Len(group) = 3 /\ group[2].op = "-"

MatchesAndGroup(group, version) ==
  IF IsHyphenRange(group)
  THEN LET v == ParseVersion(version)
       IN /\ ~Before(v, ParseVersion(group[1].arg))
          /\ ~Before(HyphenUpper(group[3].arg), v)
  ELSE LET terms == ConstraintTerms(group)
       IN \A i \in 1..Len(terms) : MatchesSingle(terms[i], version)

ConstraintMatches(c, version) ==
  \/ c = <<>>
  \/ \E i \in 1..Len(c) : c[i] # <<>> /\ MatchesAndGroup(c[i], version)

-----------------------------------------------------------------------------
(* What a constraint means, stated without the code: every term admits the *)
(* versions from one triple (inclusive) up to another (exclusive), and !=  *)
(* all but those of the equality.                                          *)

\* The least version that differs from b in component k or an earlier one,
\* and comes after it.
Bump(b, k) ==
  [i \in 1..3 |-> IF i < k THEN b[i] ELSE IF i = k THEN b[i] + 1 ELSE 0]

Zero == [i \in 1..3 |-> 0]
Beyond == [i \in 1..3 |-> IF i = 1 THEN MaxPart + 1 ELSE 0]

\* The component ^ and ~ may not change.
CaretPart(b) == IF b[1] > 0 THEN 1 ELSE IF b[2] > 0 THEN 2 ELSE 3
TildePart(text) == IF Len(text.core) >= 3 THEN 2 ELSE 1

Interval(t) ==
  LET b == ParseVersion(t.arg)
      From(lo, hi) == [from |-> lo, to |-> hi]
  IN CASE t.op = ">=" -> From(b, Beyond)
       [] t.op = "<=" -> From(Zero, Bump(b, 3))
       [] t.op = ">"  -> From(Bump(b, 3), Beyond)
       [] t.op = "<"  -> From(Zero, b)
       [] t.op = "^"  -> From(b, Bump(b, CaretPart(b)))
       [] t.op = "~"  -> From(b, Bump(b, TildePart(t.arg)))
       [] t.op = "*"  -> From(Zero, Beyond)
       [] t.op \in {"", "=", "==", "!=", ".*"} ->
            From(b, Bump(b, Len(t.arg.core)))

Within(v, interval) == ~Before(v, interval.from) /\ Before(v, interval.to)

GroupAdmits(group, v) ==
  IF IsHyphenRange(group)
  THEN Within(v, [from |-> ParseVersion(group[1].arg),
                  to |-> Bump(ParseVersion(group[3].arg),
                              Len(group[3].arg.core))])
  ELSE \A i \in 1..Len(ConstraintTerms(group)) :
         LET t == ConstraintTerms(group)[i]
         IN Within(v, Interval(t)) <=> t.op # "!="

\* The versions a constraint admits.  Alternatives that are empty admit none.
Admits(c, version) ==
  \/ c = <<>>
  \/ \E i \in 1..Len(c) :
       c[i] # <<>> /\ GroupAdmits(c[i], ParseVersion(version))

\* Where the two agree.  The numbers of a text may be of any size and count,
VersionText == [core : Seq(Nat), tag : STRING]

\* but those of a release are three or more, and none overflows;
FullText(text) ==
  /\ text \in VersionText
  /\ Len(text.core) >= 3
  /\ \A i \in 1..Len(text.core) : text.core[i] <= MaxPart

\* a term that compares numbers may have any text,
OrderingTerm == [op : {">=", "<=", ">", "<", "^", "~", "*"}, arg : VersionText]

\* one that compares texts has up to three components that fit,
Equalities == {"", "=", "==", "!=", ".*"}
RegularTerm(t) ==
  \/ t \in OrderingTerm
  \/ /\ t.op \in Equalities
     /\ t.arg \in VersionText
     /\ Len(t.arg.core) \in 1..3
     /\ \A i \in 1..Len(t.arg.core) : t.arg.core[i] <= MaxPart

\* and so has the upper end of a range.
Token == [op : STRING, arg : VersionText]
RegularConstraint(c) ==
  \A i \in 1..Len(c) :
    /\ c[i] \in Seq(Token)
    /\ IF IsHyphenRange(c[i])
       THEN Len(c[i][3].arg.core) \in 1..3
       ELSE \A k \in 1..Len(c[i]) : RegularTerm(TermAt(c[i], k))
=============================================================================
