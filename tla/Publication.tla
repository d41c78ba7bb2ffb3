---------------------------- MODULE Publication ----------------------------
(***************************************************************************)
(* What publishing promises about one draft, without locks, rows or files  *)
(* ("idempotent", "the order guarantees that students never see a half-    *)
(* made product", backend/src/authoring.rs:1-4): the assignment appears to *)
(* students once, in one step, whole and as last saved; what they see of   *)
(* it then stays the same until it is withdrawn, and it never comes back.  *)
(* Editions of a published assignment are the subject of Assignment.       *)
(***************************************************************************)
CONSTANTS Document, \* what can be saved
          Questions(_) \* the questions that students see of a document

VARIABLES saved,    \* the document last saved
          phase,    \* "draft", "shown" or "withdrawn"
          view      \* the questions that students can open

vars == <<saved, phase, view>>

Init ==
    /\ saved \in Document
    /\ phase = "draft"
    /\ view = {}

Save ==
    /\ phase = "draft"
    /\ saved' \in Document
    /\ UNCHANGED <<phase, view>>

Publish ==
    /\ phase = "draft"
    /\ phase' = "shown"
    /\ view' = Questions(saved)
    /\ UNCHANGED saved

Withdraw ==
    /\ phase \in {"draft", "shown"}
    /\ phase' = "withdrawn"
    /\ view' = {}
    /\ UNCHANGED saved

Next == Save \/ Publish \/ Withdraw

Spec == Init /\ [][Next]_vars
=============================================================================
