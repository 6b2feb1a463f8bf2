------------------------------ MODULE MCRoster ------------------------------
(* Roster on a small instance, with one test of one mark. *)
EXTENDS Roster, TLC

MCMaxMarks == [t \in {"t1"} |-> 1]

MCSymmetry == Permutations(Students) \cup Permutations(Batches) \cup Permutations(Clerks)
=============================================================================
