----------------------------- MODULE MCUploads -----------------------------
(* Uploads for TLC: two files of one student for one assignment.           *)
EXTENDS Uploads, TLC

CONSTANTS s1

OneSubmission == [f \in File |-> s1]
Symmetry == Permutations(Cleaner)
=============================================================================
