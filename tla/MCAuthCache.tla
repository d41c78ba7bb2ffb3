---------------------------- MODULE MCAuthCache ----------------------------
(* AuthCache for TLC: requests are interchangeable.                        *)
EXTENDS AuthCache, TLC

Symmetry == Permutations(Request)
=============================================================================
