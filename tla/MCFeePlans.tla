----------------------------- MODULE MCFeePlans -----------------------------
(* FeePlans on small instances. *)
EXTENDS FeePlans, TLC

Given(l, a) == [label |-> l, amount |-> a]
Explicit(total, given) == [total |-> total, installments |-> given, splitInto |-> 0]
Split(total, n) == [total |-> total, installments |-> <<>>, splitInto |-> n]

\* Totals of 0 to 3 paisa in two or three parts, explicit installments that
\* round to their total or miss it, and none at all.
MCRequests ==
  {Split(0, 2), Split(30, 2), Split(23, 3),
   Explicit(30, <<Given(7, 18), Given(8, 8)>>),
   Explicit(30, <<Given(7, 10), Given(8, 10)>>),
   Explicit(30, <<>>)}

\* Two installments with one label.
MCSameLabel == {Explicit(50, <<Given(7, 30), Given(7, 20)>>)}

MCSymmetry == Permutations(Students)
=============================================================================
