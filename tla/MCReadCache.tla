---------------------------- MODULE MCReadCache ----------------------------
(* ReadCache for TLC: requests are interchangeable.                        *)
EXTENDS ReadCache, TLC

Symmetry == Permutations(Reader)
=============================================================================
