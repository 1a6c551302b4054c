------------------------------ MODULE Sublists ------------------------------
(* A sequence without some of its members, in the same order: how the code  *)
(* copies the lines it keeps, and drops a candidate it has just tried.      *)
EXTENDS Naturals, Sequences

\* The members of t whose numbers are not in gone.
Without(t, gone) ==
  LET keep[i \in 0..Len(t)] ==
        IF i = 0 THEN <<>>
        ELSE IF i \in gone THEN keep[i - 1] ELSE Append(keep[i - 1], t[i])
  IN keep[Len(t)]
=============================================================================
