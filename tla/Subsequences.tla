---------------------------- MODULE Subsequences ----------------------------
(* Taking elements out of a sequence.  The places are counted rather than  *)
(* folded over, so that facts about them need no induction.                *)
EXTENDS Naturals, FiniteSets

\* How many places of S there are up to i.
Rank(S, i) == Cardinality({j \in S : j <= i})

\* The elements of s at the places in S.
Subsequence(s, S) ==
  [k \in 1 .. Cardinality(S) |-> s[CHOOSE i \in S : Rank(S, i) = k]]
=============================================================================
