------------------------------ MODULE MCBridge ------------------------------
(* Bridge for TLC: courses, classes and students are interchangeable.      *)
EXTENDS Bridge, TLC

Symmetry ==
    Permutations(Course) \cup Permutations(Class) \cup Permutations(Updater)

\* A request that has ended, and whose call has, takes no step any more and is
\* read by none: two states that differ in what it leaves behind are one.
Over(r) == pc[r] = "done" /\ handler[r] \notin Live

View ==
    <<management, classes, others, history,
      [r \in Request |->
          IF Over(r) THEN <<>>
          ELSE <<pc[r], on[r], body[r], to[r], handler[r], answer[r]>>]>>
=============================================================================
