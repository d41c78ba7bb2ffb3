---------------------------- MODULE MCPublishing ----------------------------
(* Publishing for TLC: one request of each kind, because liveness is       *)
(* checked and symmetry would not be sound.                                *)
EXTENDS Publishing, TLC
=============================================================================
