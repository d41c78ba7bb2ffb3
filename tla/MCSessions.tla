----------------------------- MODULE MCSessions -----------------------------
(* Sessions for TLC: keys, tickets and exchanges are interchangeable.      *)
EXTENDS Sessions, TLC

Symmetry == Permutations(Key) \cup Permutations(Ticket) \cup Permutations(Exchange)
=============================================================================
