------------------------------- MODULE Lists -------------------------------
(* What the rules do with lists: keep some of the elements, and add numbers up. *)
EXTENDS Naturals, FiniteSets, Sequences

\* The elements of s at the positions in I, in their order.
KeepAt(s, I) ==
  LET Place(i) == Cardinality({j \in I : j <= i})
  IN [k \in 1..Cardinality(I) |-> s[CHOOSE i \in I : Place(i) = k]]

\* The positions where an element stands that does not stand before.
FirstPositions(s) == {i \in DOMAIN s : \A k \in 1..(i - 1) : s[k] # s[i]}

\* What the first i numbers of s are together, for each i.
RunningTotals(s) ==
  LET total[i \in 0..Len(s)] == IF i = 0 THEN 0 ELSE total[i - 1] + s[i] IN total

SumOf(s) == RunningTotals(s)[Len(s)]
=============================================================================
