--------------------------- MODULE MCAssignment ---------------------------
(* Assignment for TLC: requests of one kind are interchangeable.           *)
EXTENDS Assignment, TLC

Symmetry == Permutations(Homework) \cup Permutations(Teacher)
=============================================================================
