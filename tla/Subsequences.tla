----------------------------- MODULE Subsequences -----------------------------
(* Subsequences, by the positions that are kept.                              *)
EXTENDS Naturals, Sequences, FiniteSets

\* How many of the positions in J come up to i.
Rank(J, i) == Cardinality({j \in J : j <= i})

\* The elements of s at the positions in I, in their order: what a loop over a
\* list leaves when it erases the others, or moves there from the list.
Kept(s, I) ==
  LET J == I \cap DOMAIN s
  IN  [k \in 1 .. Cardinality(J) |-> s[CHOOSE i \in J : Rank(J, i) = k]]
=============================================================================
