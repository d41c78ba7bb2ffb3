------------------------------ MODULE Grading ------------------------------
(***************************************************************************)
(* What an assignment promises to its students and teachers, without       *)
(* problems, locks or requests that end half-way: a submission that was    *)
(* handed in is judged by the question the assignment has; an edition      *)
(* builds on the last one, has the assignment to itself, and changes the   *)
(* question only when no judgement by the old one is left.  It takes the   *)
(* judgements back one by one and hands the submissions in again, or drops *)
(* all of them at once.                                                    *)
(***************************************************************************)
EXTENDS Naturals

CONSTANTS
    Submission,
    Teacher,
    Question,
    Nobody      \* no teacher

VARIABLES
    there,    \* the assignment has not been removed
    question,
    edition,
    seen,     \* the edition that a teacher works from
    editor,   \* the teacher who is changing the assignment
    place,    \* of a submission: "unsent", "pending", "judged" or "dropped"
    by        \* the question it was judged by, or 0

vars == <<there, question, edition, seen, editor, place, by>>

HandedIn == {s \in Submission : place[s] \in {"pending", "judged"}}

Init ==
    /\ there = TRUE
    /\ question \in Question
    /\ edition = 0
    /\ seen = [t \in Teacher |-> 0]
    /\ editor = Nobody
    /\ place = [s \in Submission |-> "unsent"]
    /\ by = [s \in Submission |-> 0]

-----------------------------------------------------------------------------

HandIn(s) ==
    /\ there /\ editor = Nobody
    /\ place[s] = "unsent"
    /\ place' = [place EXCEPT ![s] = "pending"]
    /\ UNCHANGED <<there, question, edition, seen, editor, by>>

Refuse(s) ==
    /\ place[s] = "unsent"
    /\ place' = [place EXCEPT ![s] = "dropped"]
    /\ UNCHANGED <<there, question, edition, seen, editor, by>>

Judge(s) ==
    /\ there /\ editor = Nobody
    /\ place[s] = "pending"
    /\ place' = [place EXCEPT ![s] = "judged"]
    /\ by' = [by EXCEPT ![s] = question]
    /\ UNCHANGED <<there, question, edition, seen, editor>>

-----------------------------------------------------------------------------

Load(t) ==
    /\ there
    /\ seen' = [seen EXCEPT ![t] = edition]
    /\ UNCHANGED <<there, question, edition, editor, place, by>>

Begin(t) ==
    /\ there /\ editor = Nobody
    /\ \A s \in Submission : place[s] # "pending"
    /\ editor' = t
    /\ UNCHANGED <<there, question, edition, seen, place, by>>

TakeBack(t, s) ==
    /\ editor = t /\ seen[t] = edition
    /\ place[s] = "judged"
    /\ place' = [place EXCEPT ![s] = "pending"]
    /\ by' = [by EXCEPT ![s] = 0]
    /\ UNCHANGED <<there, question, edition, seen, editor>>

DropAll(t) ==
    /\ editor = t
    /\ place' = [s \in Submission |-> IF s \in HandedIn THEN "dropped" ELSE place[s]]
    /\ by' = [s \in Submission |-> 0]
    /\ UNCHANGED <<there, question, edition, seen, editor>>

Edit(t) ==
    /\ editor = t /\ seen[t] = edition
    /\ edition' = edition + 1
    /\ \/ question' = question
       \/ question' \in Question /\ \A s \in Submission : place[s] # "judged"
    /\ editor' = Nobody
    /\ UNCHANGED <<there, seen, place, by>>

Remove(t) ==
    /\ editor = t
    /\ there' = FALSE
    /\ \A s \in Submission : place[s] \notin {"pending", "judged"}
    /\ editor' = Nobody
    /\ UNCHANGED <<question, edition, seen, place, by>>

\* The teacher changed nothing, or his request failed.
Leave(t) ==
    /\ editor = t
    /\ editor' = Nobody
    /\ UNCHANGED <<there, question, edition, seen, place, by>>

\* Most statements of a request change nothing that anybody sees.
Unseen == UNCHANGED vars

Next ==
    \/ Unseen
    \/ \E s \in Submission : HandIn(s) \/ Refuse(s) \/ Judge(s)
    \/ \E t \in Teacher :
        \/ Load(t) \/ Begin(t) \/ DropAll(t) \/ Edit(t) \/ Remove(t) \/ Leave(t)
        \/ \E s \in Submission : TakeBack(t, s)

Spec == Init /\ [][Next]_vars
=============================================================================
