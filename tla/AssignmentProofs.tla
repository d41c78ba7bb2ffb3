-------------------------- MODULE AssignmentProofs --------------------------
(***************************************************************************)
(* Theorems about Assignment, for any number of submissions, teachers and  *)
(* requests that end half-way.                                             *)
(*                                                                         *)
(* The properties speak of an assignment at rest; the invariant says what  *)
(* the request that has the lock of the class has done to it so far, and   *)
(* that whatever a request that ended has left behind is never judged.     *)
(***************************************************************************)
EXTENDS Assignment, FiniteSetTheorems, TLAPS

\* The stages of a teacher's request.
Editing == {"close", "sync", "tests", "repoint", "open", "sources", "solutions", "commit"}
Cleaning == {"clean", "files", "row", "requeue"}

\* Who has the locks.
Locked ==
    /\ \A s \in Solution : step[s] \in {"class", "check", "link"} => s \in Homework
    /\ \A s \in Homework :
        step[s] \in {"check", "problem", "valid", "insert", "link", "source", "queue"}
            => classLock = s
    /\ \A s \in Solution :
        step[s] \in {"valid", "insert", "link", "source", "queue"} => problemLock[on[s]] = s
    /\ \A t \in Teacher : pc[t] \in {"check"} \cup Editing \cup Cleaning => classLock = t
    /\ \A t \in Teacher : pc[t] \in {"files", "row"} => problemLock[old[t]] = t

\* Which requests come to which stage.
Tasks ==
    \A t \in Teacher :
        /\ pc[t] \in {"sync", "tests"} => task[t] \in {"rewrite", "replace"}
        /\ pc[t] \in {"repoint", "requeue"} => task[t] = "rewrite"
        /\ pc[t] = "open" => task[t] = "replace"
        /\ pc[t] \in {"sources", "solutions"} => task[t] \in {"replace", "remove"}
        /\ pc[t] \in Cleaning => task[t] \in {"rewrite", "replace", "remove"}

\* A submission and its solution.
Stages ==
    \A s \in Solution :
        /\ step[s] \in {"new", "class", "check", "problem", "valid", "insert"}
            => result[s] = "none" /\ s \notin linked
        /\ step[s] \in {"link", "source", "queue"} => result[s] = "saving"
        /\ step[s] \in {"insert", "link", "source", "queue"} => problem[on[s]] = "open"
        /\ s \in Homework
                /\ step[s] \in {"problem", "valid", "insert", "link", "source", "queue"}
            => on[s] = question /\ status # "removed"
        /\ s \in judging <=> result[s] = "running"

\* What a request that has passed Check finds until it commits.
Edition ==
    \A t \in Teacher :
        pc[t] \in Editing =>
            /\ status # "removed" /\ old[t] = question
            /\ task[t] # "remove" => based[t] = edition
            /\ listed[t] \subseteq linked
            /\ task[t] # "remove" => \A s \in linked \ listed[t] : result[s] = "none"
            /\ \A s \in linked :
                \/ result[s] = "none"
                \/ result[s] = "judged" /\ (pc[t] # "commit" \/ task[t] # "rewrite")
                \/ /\ task[t] = "rewrite" /\ pc[t] \in {"repoint", "commit"}
                   /\ result[s] = "saving" /\ on[s] = fresh[t]

\* The problem it makes.
Fresh ==
    \A t \in Teacher :
        /\ pc[t] \in {"tests", "repoint", "open"} => problem[fresh[t]] = "hidden"
        /\ pc[t] \in {"repoint", "open"} => fresh[t] \in tests
        /\ pc[t] \in {"sources", "solutions", "commit"} /\ task[t] \in {"rewrite", "replace"}
            => problem[fresh[t]] = "open" /\ fresh[t] \in tests
        /\ pc[t] \in Cleaning /\ task[t] = "rewrite" =>
            /\ status # "removed" /\ question = fresh[t]
            /\ \A s \in listed[t] : result[s] = "saving" => on[s] = fresh[t]

\* The problem it removes is not referred to.
Unused ==
    \A t \in Teacher : pc[t] \in {"files", "row"} => ~Referenced(old[t])

\* A submission of the assignment is judged by the question it has now, or not.
Current ==
    \A s \in linked :
        status # "removed" =>
            /\ result[s] \in {"waiting", "running", "judged"} => on[s] = question
            /\ result[s] \in {"running", "judged"} => graded[s] = question

\* Every request commits once.
Committed == {t \in Teacher : pc[t] \in Cleaning \cup {"done"}}
Counted == edition <= Cardinality(Committed)

IInv ==
    /\ TypeOK /\ Locked /\ Tasks /\ Stages /\ Edition /\ Fresh /\ Unused /\ Current
    /\ QuestionUsable /\ SolutionHasProblem /\ Counted

\* When no request ends half-way, nothing incomplete is left behind.
Fed ==
    /\ aborts = 0
    /\ \A s \in Solution :
        /\ result[s] \in {"waiting", "running"} => problem[on[s]] = "open" /\ on[s] \in tests
        /\ result[s] \in {"waiting", "running", "judged"} =>
            s \in source \/ \E t \in Teacher : pc[t] = "solutions" /\ s \in listed[t]
        /\ step[s] = "queue" => s \in source
        /\ step[s] \in {"insert", "link", "source", "queue"} => on[s] \in tests
    /\ \A p \in Problem :
        problem[p] = "open" => p \in tests \/ \E t \in Teacher : pc[t] = "row" /\ old[t] = p
    /\ \A t \in Teacher :
        pc[t] \in Editing \cup Cleaning /\ task[t] = "rewrite" => listed[t] \subseteq source

-----------------------------------------------------------------------------
(* Helpers.                                                                 *)

\* What a request does after it has closed the assignment.
LEMMA CloseFacts ==
    ASSUME TypeOK, NEW t \in Teacher, Close(t)
    PROVE  \E l \in Label :
               /\ pc' = [pc EXCEPT ![t] = l]
               /\ \/ task[t] \in {"same", "title"} /\ l = "commit"
                  \/ task[t] \in {"rewrite", "replace"} /\ l = "sync"
                  \/ task[t] = "remove" /\ l = "sources"
<1>1. task[t] \in {"same", "title", "rewrite", "replace", "remove"}
      BY DEF Task, TypeOK
<1>2. CASE task[t] \in {"same", "title"}
  <2>1. pc' = [pc EXCEPT ![t] = "commit"]
        BY <1>2 DEF Close, Goto
  <2> QED
        BY <1>2, <2>1 DEF Label
<1>3. CASE task[t] \in {"rewrite", "replace"}
  <2>1. pc' = [pc EXCEPT ![t] = "sync"]
        BY <1>3 DEF Close, Goto
  <2> QED
        BY <1>3, <2>1 DEF Label
<1>4. CASE task[t] = "remove"
  <2>1. pc' = [pc EXCEPT ![t] = "sources"]
        BY <1>4 DEF Close, Goto
  <2> QED
        BY <1>4, <2>1 DEF Label
<1> QED
      BY <1>1, <1>2, <1>3, <1>4

\* Somebody who is about to commit is not among those who have.
LEMMA CommitBound ==
    ASSUME Counted, edition \in Nat, NEW t \in Teacher, pc[t] = "commit"
    PROVE  edition + 1 <= Cardinality(Teacher)
<1>1. IsFiniteSet(Teacher \ {t}) /\ Cardinality(Teacher \ {t}) = Cardinality(Teacher) - 1
      BY BoundAssumption, FS_RemoveElement
<1>2. Committed \subseteq Teacher \ {t}
      BY DEF Committed, Cleaning
<1>3. Cardinality(Committed) <= Cardinality(Teacher \ {t})
      BY <1>1, <1>2, FS_Subset
<1>4. Cardinality(Committed) \in Nat /\ Cardinality(Teacher) \in Nat
      BY <1>1, <1>2, FS_Subset, FS_CardinalityType, BoundAssumption
<1> QED
      BY <1>1, <1>3, <1>4 DEF Counted

\* Requests that have committed do not come back.
LEMMA CommittedGrows ==
    ASSUME TypeOK, [Next]_vars
    PROVE  \/ edition' = edition /\ Committed \subseteq Committed'
           \/ \E t \in Teacher :
                /\ edition' = edition + 1 /\ t \notin Committed
                /\ Committed \cup {t} \subseteq Committed'
<1>1. ASSUME NEW t \in Teacher, Commit(t), edition' # edition
      PROVE  /\ edition' = edition + 1 /\ t \notin Committed
             /\ Committed \cup {t} \subseteq Committed'
      BY <1>1 DEF Commit, Goto, Committed, TypeOK, Cleaning
<1>2. ASSUME NEW t \in Teacher, Commit(t), edition' = edition
      PROVE  Committed \subseteq Committed'
      BY <1>2 DEF Commit, Goto, Committed, TypeOK, Cleaning
<1>3. ASSUME NEW t \in Teacher, Close(t)
      PROVE  edition' = edition /\ Committed \subseteq Committed'
      BY <1>3, CloseFacts DEF Close, Committed, Cleaning, TypeOK
<1>4. ASSUME NEW t \in Teacher,
             LoadDocument(t) \/ Begin(t) \/ EnterClassroom(t) \/ Check(t) \/ SyncProblem(t)
                 \/ WriteTests(t) \/ OpenProblem(t) \/ DeleteSources(t) \/ DeleteSolutions(t)
                 \/ CleanRead(t) \/ CleanKeep(t) \/ RemoveTests(t) \/ RemoveRow(t) \/ Requeue(t)
      PROVE  edition' = edition /\ Committed \subseteq Committed'
      BY <1>4
      DEF LoadDocument, Begin, EnterClassroom, Check, SyncProblem, WriteTests,
          OpenProblem, DeleteSources, DeleteSolutions, CleanRead, CleanKeep,
          RemoveTests, RemoveRow, Requeue, AfterClean, Goto, Committed, TypeOK,
          Cleaning, course
<1>5. ASSUME NEW x \in Process, Abort(x)
      PROVE  edition' = edition /\ Committed \subseteq Committed'
      BY <1>5 DEF Abort, Goto, Committed, TypeOK, course, teacher
<1>6. ASSUME NEW s \in Solution, StartHomework(s) \/ StartPractice(s) \/ Submit(s) \/ Judge(s)
      PROVE  UNCHANGED <<edition, pc>>
      BY <1>6
      DEF StartHomework, StartPractice, Submit, EnterClass, Admit, EnterProblem,
          Validate, Insert, Link, SaveSource, Queue, Judge, Pick, Finish, course,
          teacher
<1>7. ASSUME NEW t \in Teacher, NEW s \in Homework, Repoint(t, s)
      PROVE  UNCHANGED <<edition, pc>>
      BY <1>7 DEF Repoint, course, teacher
<1>8. ASSUME ArchiveCourse \/ UNCHANGED vars PROVE UNCHANGED <<edition, pc>>
      BY <1>8 DEF ArchiveCourse, vars, course, teacher
<1>9. UNCHANGED <<edition, pc>> => edition' = edition /\ Committed \subseteq Committed'
      BY DEF Committed
<1> QED
      BY <1>1, <1>2, <1>3, <1>4, <1>5, <1>6, <1>7, <1>8, <1>9 DEF Next, Change

\* No request commits twice.
LEMMA CountedStep == IInv /\ [Next]_vars => Counted'
<1> SUFFICES ASSUME IInv, [Next]_vars PROVE Counted'
      OBVIOUS
<1>1. IsFiniteSet(Committed') /\ IsFiniteSet(Committed)
      BY BoundAssumption, FS_Subset DEF Committed
<1>2. /\ Cardinality(Committed) \in Nat /\ Cardinality(Committed') \in Nat
      /\ edition \in Nat /\ edition <= Cardinality(Committed)
      BY <1>1, FS_CardinalityType, BoundAssumption DEF IInv, Counted, TypeOK
<1>3. CASE edition' = edition /\ Committed \subseteq Committed'
      BY <1>1, <1>2, <1>3, FS_Subset DEF Counted
<1>4. ASSUME NEW t \in Teacher, edition' = edition + 1, t \notin Committed,
             Committed \cup {t} \subseteq Committed'
      PROVE  Counted'
  <2>1. /\ IsFiniteSet(Committed \cup {t})
        /\ Cardinality(Committed \cup {t}) = Cardinality(Committed) + 1
        BY <1>1, <1>4, FS_AddElement
  <2>2. Cardinality(Committed \cup {t}) <= Cardinality(Committed')
        BY <1>1, <1>4, <2>1, FS_Subset
  <2> QED
        BY <1>2, <1>4, <2>1, <2>2 DEF Counted
<1> QED
      BY <1>3, <1>4, CommittedGrows DEF IInv

-----------------------------------------------------------------------------
(* Every step keeps the invariant.                                          *)

\* Every variable keeps its type.
LEMMA TypeOKStep == IInv /\ [Next]_vars => TypeOK'
<1> SUFFICES ASSUME IInv, [Next]_vars PROVE TypeOK'
      OBVIOUS
<1> USE DEF IInv
<1>1. ASSUME NEW s \in Solution, StartHomework(s) PROVE TypeOK'
      BY <1>1, BoundAssumption
      DEF StartHomework, Advance, Counted, Step, Label, Task, TypeOK, course, teacher,
          judge, locks
<1>2. ASSUME NEW s \in Solution, StartPractice(s) PROVE TypeOK'
      BY <1>2, BoundAssumption
      DEF StartPractice, Advance, Counted, Step, Label, Task, TypeOK, course, teacher,
          judge, locks
<1>3. ASSUME NEW s \in Solution, EnterClass(s) PROVE TypeOK'
      BY <1>3, BoundAssumption
      DEF EnterClass, Advance, TakeClass, Counted, Step, Label, Task, TypeOK, Process,
          course, jol, teacher, judge
<1>4. ASSUME NEW s \in Solution, Admit(s) PROVE TypeOK'
      BY <1>4, BoundAssumption
      DEF Admit, Advance, ReleaseClass, LoadProblem, Accepting, Counted, Step, Label,
          Task, TypeOK, course, jol, teacher, judge
<1>5. ASSUME NEW s \in Solution, EnterProblem(s) PROVE TypeOK'
      BY <1>5, BoundAssumption
      DEF EnterProblem, Advance, TakeProblem, Counted, Step, Label, Task, TypeOK,
          Process, course, jol, teacher, judge
<1>6. ASSUME NEW s \in Solution, Validate(s) PROVE TypeOK'
      BY <1>6, BoundAssumption
      DEF Validate, Advance, ReleaseProblem, ReleaseClass, Counted, Step, Label, Task,
          TypeOK, course, jol, teacher, judge, locks
<1>7. ASSUME NEW s \in Solution, Insert(s) PROVE TypeOK'
      BY <1>7, BoundAssumption
      DEF Insert, Advance, Counted, Step, Label, Task, TypeOK, course, teacher, judge,
          locks
<1>8. ASSUME NEW s \in Solution, Link(s) PROVE TypeOK'
      BY <1>8 DEF Link, Advance, Step, TypeOK, Locked, jol, teacher, judge, locks
<1>9. ASSUME NEW s \in Solution, SaveSource(s) PROVE TypeOK'
      BY <1>9, BoundAssumption
      DEF SaveSource, Advance, Counted, Step, Label, Task, TypeOK, course, teacher,
          judge, locks
<1>10. ASSUME NEW s \in Solution, Queue(s) PROVE TypeOK'
      BY <1>10, BoundAssumption
      DEF Queue, Advance, ReleaseProblem, ReleaseClass, Counted, Step, Label, Task,
          TypeOK, course, teacher, judge
<1>11. ASSUME NEW s \in Solution, Pick(s) PROVE TypeOK'
      BY <1>11, BoundAssumption
      DEF Pick, Counted, Step, Label, Task, TypeOK, course, teacher, locks
<1>12. ASSUME NEW s \in Solution, Finish(s) PROVE TypeOK'
      BY <1>12, BoundAssumption
      DEF Finish, Counted, Step, Label, Task, TypeOK, course, teacher, locks
<1>13. ASSUME NEW t \in Teacher, LoadDocument(t) PROVE TypeOK'
      BY <1>13, BoundAssumption
      DEF LoadDocument, Goto, OpenToTeachers, Counted, Step, Label, Task, TypeOK,
          course, jol, judge, locks
<1>14. ASSUME NEW t \in Teacher, Begin(t) PROVE TypeOK'
      BY <1>14, BoundAssumption
      DEF Begin, Goto, OpenToTeachers, Counted, Step, Label, Task, TypeOK, course,
          jol, judge, locks
<1>15. ASSUME NEW t \in Teacher, EnterClassroom(t) PROVE TypeOK'
      BY <1>15, BoundAssumption
      DEF EnterClassroom, Goto, TakeClass, Counted, Step, Label, Task, TypeOK,
          Process, course, jol, judge
<1>16. ASSUME NEW t \in Teacher, Check(t) PROVE TypeOK'
      BY <1>16, BoundAssumption
      DEF Check, Goto, ReleaseClass, OpenToTeachers, Busy, UpToDate, Counted, Step,
          Label, Task, TypeOK, course, jol, judge
<1>17. ASSUME NEW t \in Teacher, Close(t) PROVE TypeOK'
      BY <1>17, BoundAssumption
      DEF Close, Goto, Counted, Step, Label, Task, TypeOK, jol, judge, locks
<1>18. ASSUME NEW t \in Teacher, SyncProblem(t) PROVE TypeOK'
      BY <1>18, BoundAssumption
      DEF SyncProblem, Goto, Counted, Step, Label, Task, TypeOK, course, judge, locks
<1>19. ASSUME NEW t \in Teacher, WriteTests(t) PROVE TypeOK'
      BY <1>19, BoundAssumption
      DEF WriteTests, Goto, Counted, Step, Label, Task, TypeOK, course, judge, locks
<1>20. ASSUME NEW t \in Teacher, NEW s \in Homework, Repoint(t, s)
      PROVE  TypeOK'
      BY <1>20, BoundAssumption
      DEF Repoint, Counted, Step, Label, Task, TypeOK, course, teacher, judge, locks
<1>21. ASSUME NEW t \in Teacher, OpenProblem(t) PROVE TypeOK'
      BY <1>21, BoundAssumption
      DEF OpenProblem, Goto, Counted, Step, Label, Task, TypeOK, course, judge, locks
<1>22. ASSUME NEW t \in Teacher, DeleteSources(t) PROVE TypeOK'
      BY <1>22, BoundAssumption
      DEF DeleteSources, Goto, Counted, Step, Label, Task, TypeOK, course, judge,
          locks
<1>23. ASSUME NEW t \in Teacher, DeleteSolutions(t) PROVE TypeOK'
      BY <1>23, BoundAssumption
      DEF DeleteSolutions, Goto, Counted, Step, Label, Task, TypeOK, course, judge,
          locks
<1>24. ASSUME NEW t \in Teacher, Commit(t) PROVE TypeOK'
  <2>1. edition + 1 <= Cardinality(Teacher) /\ edition + 1 \in Nat
        BY <1>24, CommitBound, BoundAssumption, FS_CardinalityType DEF Commit, TypeOK
  <2>2. edition' \in 0..Cardinality(Teacher)
        BY <1>24, <2>1, BoundAssumption, FS_CardinalityType DEF Commit, TypeOK
  <2>3. linked' \in SUBSET Homework /\ status' \in {"published", "closed", "removed"}
        BY <1>24 DEF Commit, TypeOK
  <2>4. question' \in Problem
        BY <1>24 DEF Commit, TypeOK
  <2>5. pc' \in [Teacher -> Label] /\ classLock' \in Process \cup {Free}
        BY <1>24 DEF Commit, Goto, ReleaseClass, Label, TypeOK
  <2> QED
        BY <1>24, <2>2, <2>3, <2>4, <2>5 DEF Commit, TypeOK, jol, judge
<1>25. ASSUME NEW t \in Teacher, CleanRead(t) PROVE TypeOK'
      BY <1>25, BoundAssumption
      DEF CleanRead, Goto, TakeProblem, Counted, Step, Label, Task, TypeOK, Process,
          course, jol, judge
<1>26. ASSUME NEW t \in Teacher, CleanKeep(t) PROVE TypeOK'
      BY <1>26, BoundAssumption
      DEF CleanKeep, AfterClean, Goto, ReleaseClass, Counted, Step, Label, Task,
          TypeOK, course, jol, judge
<1>27. ASSUME NEW t \in Teacher, RemoveTests(t) PROVE TypeOK'
      BY <1>27, BoundAssumption
      DEF RemoveTests, Goto, Counted, Step, Label, Task, TypeOK, course, judge, locks
<1>28. ASSUME NEW t \in Teacher, RemoveRow(t) PROVE TypeOK'
      BY <1>28, BoundAssumption
      DEF RemoveRow, ReleaseProblem, AfterClean, Goto, ReleaseClass, Counted, Step,
          Label, Task, TypeOK, course, judge
<1>29. ASSUME NEW t \in Teacher, Requeue(t) PROVE TypeOK'
      BY <1>29, BoundAssumption
      DEF Requeue, Goto, ReleaseClass, Counted, Step, Label, Task, TypeOK, course,
          judge
<1>30. ASSUME ArchiveCourse PROVE TypeOK'
      BY <1>30, BoundAssumption
      DEF ArchiveCourse, Counted, Step, Label, Task, TypeOK, jol, teacher, judge,
          locks
<1>31. ASSUME NEW x \in Process, Abort(x) PROVE TypeOK'
      BY <1>31, BoundAssumption
      DEF Abort, Advance, Goto, ReleaseProblem, ReleaseClass, Counted, Step, Label,
          Task, TypeOK, course, jol, teacher, judge
<1>32. ASSUME UNCHANGED vars PROVE TypeOK'
      BY <1>32 DEF vars, TypeOK, course, jol, teacher, judge, locks
<1> QED
      BY <1>1, <1>2, <1>3, <1>4, <1>5, <1>6, <1>7, <1>8, <1>9, <1>10, <1>11, <1>12,
         <1>13, <1>14, <1>15, <1>16, <1>17, <1>18, <1>19, <1>20, <1>21, <1>22, <1>23,
         <1>24, <1>25, <1>26, <1>27, <1>28, <1>29, <1>30, <1>31, <1>32
      DEF Next, Submit, Judge, Change

\* A lock has one owner, who gives it back when its request ends.
LEMMA LockedStep == IInv /\ [Next]_vars => Locked'
<1> SUFFICES ASSUME IInv, [Next]_vars PROVE Locked'
      OBVIOUS
<1> USE DEF IInv
<1>1. ASSUME NEW s \in Solution, StartHomework(s) PROVE Locked'
      BY <1>1 DEF StartHomework, Advance, Locked, teacher, locks
<1>2. ASSUME NEW s \in Solution, StartPractice(s) PROVE Locked'
      BY <1>2, ProcessAssumption DEF StartPractice, Advance, Locked, teacher, locks
<1>3. ASSUME NEW s \in Solution, EnterClass(s) PROVE Locked'
      BY <1>3, ProcessAssumption
      DEF EnterClass, Advance, TakeClass, Process, Solution, Locked, jol, teacher
<1>4. ASSUME NEW s \in Solution, Admit(s) PROVE Locked'
      BY <1>4, ProcessAssumption
      DEF Admit, Advance, ReleaseClass, LoadProblem, Accepting, TypeOK, Solution,
          Locked, jol, teacher
<1>5. ASSUME NEW s \in Solution, EnterProblem(s) PROVE Locked'
      BY <1>5, ProcessAssumption
      DEF EnterProblem, Advance, TakeProblem, TypeOK, Process, Locked, jol, teacher
<1>6. ASSUME NEW s \in Solution, Validate(s) PROVE Locked'
      BY <1>6, ProcessAssumption
      DEF Validate, Advance, ReleaseProblem, ReleaseClass, TypeOK, Solution, Locked,
          jol, teacher, locks
<1>7. ASSUME NEW s \in Solution, Insert(s) PROVE Locked'
      BY <1>7 DEF Insert, Advance, Locked, teacher, locks
<1>8. ASSUME NEW s \in Solution, Link(s) PROVE Locked'
      BY <1>8 DEF Link, Advance, Locked, jol, teacher, locks
<1>9. ASSUME NEW s \in Solution, SaveSource(s) PROVE Locked'
      BY <1>9 DEF SaveSource, Advance, Locked, teacher, locks
<1>10. ASSUME NEW s \in Solution, Queue(s) PROVE Locked'
      BY <1>10, ProcessAssumption
      DEF Queue, Advance, ReleaseProblem, ReleaseClass, TypeOK, Locked, teacher
<1>11. ASSUME NEW s \in Solution, Pick(s) PROVE Locked'
      BY <1>11 DEF Pick, Locked, teacher, locks
<1>12. ASSUME NEW s \in Solution, Finish(s) PROVE Locked'
      BY <1>12 DEF Finish, Locked, teacher, locks
<1>13. ASSUME NEW t \in Teacher, LoadDocument(t) PROVE Locked'
      BY <1>13
      DEF LoadDocument, Goto, OpenToTeachers, Cleaning, Editing, Locked, jol, locks
<1>14. ASSUME NEW t \in Teacher, Begin(t) PROVE Locked'
      BY <1>14 DEF Begin, Goto, OpenToTeachers, Cleaning, Editing, Locked, jol, locks
<1>15. ASSUME NEW t \in Teacher, EnterClassroom(t) PROVE Locked'
      BY <1>15, ProcessAssumption
      DEF EnterClassroom, Goto, TakeClass, Process, Solution, Locked, jol
<1>16. ASSUME NEW t \in Teacher, Check(t) PROVE Locked'
      BY <1>16, ProcessAssumption
      DEF Check, Goto, ReleaseClass, OpenToTeachers, Busy, UpToDate, TypeOK, Cleaning,
          Solution, Editing, Locked, jol
<1>17. ASSUME NEW t \in Teacher, Close(t) PROVE Locked'
  <2>1. UNCHANGED <<offering, question, edition, linked, jol, judge, locks, step, task,
                     based, saved, old, fresh, listed, aborts>>
        BY <1>17 DEF Close
  <2>2. pc[t] = "close" /\ status' = "closed"
        BY <1>17 DEF Close
  <2> QED
        BY <1>17, <2>1, <2>2, CloseFacts DEF TypeOK, Editing, Locked, jol, locks
<1>18. ASSUME NEW t \in Teacher, SyncProblem(t) PROVE Locked'
      BY <1>18 DEF SyncProblem, Goto, Editing, Locked, locks
<1>19. ASSUME NEW t \in Teacher, WriteTests(t) PROVE Locked'
      BY <1>19 DEF WriteTests, Goto, Editing, Locked, locks
<1>20. ASSUME NEW t \in Teacher, NEW s \in Homework, Repoint(t, s)
      PROVE  Locked'
      BY <1>20, ProcessAssumption DEF Repoint, Editing, Locked, teacher, locks
<1>21. ASSUME NEW t \in Teacher, OpenProblem(t) PROVE Locked'
      BY <1>21 DEF OpenProblem, Goto, Editing, Locked, locks
<1>22. ASSUME NEW t \in Teacher, DeleteSources(t) PROVE Locked'
      BY <1>22 DEF DeleteSources, Goto, Editing, Locked, locks
<1>23. ASSUME NEW t \in Teacher, DeleteSolutions(t) PROVE Locked'
      BY <1>23 DEF DeleteSolutions, Goto, Editing, Locked, locks
<1>24. ASSUME NEW t \in Teacher, Commit(t) PROVE Locked'
      BY <1>24, ProcessAssumption
      DEF Commit, Goto, ReleaseClass, TypeOK, Cleaning, Solution, Editing, Locked, jol
<1>25. ASSUME NEW t \in Teacher, CleanRead(t) PROVE Locked'
      BY <1>25, ProcessAssumption
      DEF CleanRead, Goto, TakeProblem, TypeOK, Cleaning, Process, Locked, jol
<1>26. ASSUME NEW t \in Teacher, CleanKeep(t) PROVE Locked'
      BY <1>26, ProcessAssumption
      DEF CleanKeep, AfterClean, Goto, ReleaseClass, TypeOK, Cleaning, Solution,
          Editing, Locked, jol
<1>27. ASSUME NEW t \in Teacher, RemoveTests(t) PROVE Locked'
      BY <1>27 DEF RemoveTests, Goto, Cleaning, Locked, locks
<1>28. ASSUME NEW t \in Teacher, RemoveRow(t) PROVE Locked'
      BY <1>28, ProcessAssumption
      DEF RemoveRow, ReleaseProblem, AfterClean, Goto, ReleaseClass, TypeOK, Cleaning,
          Solution, Editing, Locked
<1>29. ASSUME NEW t \in Teacher, Requeue(t) PROVE Locked'
      BY <1>29, ProcessAssumption
      DEF Requeue, Goto, ReleaseClass, TypeOK, Cleaning, Solution, Editing, Locked
<1>30. ASSUME ArchiveCourse PROVE Locked'
      BY <1>30 DEF ArchiveCourse, Locked, jol, teacher, locks
<1>31. ASSUME NEW x \in Process, Abort(x) PROVE Locked'
      BY <1>31, ProcessAssumption
      DEF Abort, Advance, Goto, ReleaseProblem, ReleaseClass, TypeOK, Cleaning,
          Solution, Editing, Locked, jol, teacher
<1>32. ASSUME UNCHANGED vars PROVE Locked'
      BY <1>32 DEF vars, Locked, jol, teacher, locks
<1> QED
      BY <1>1, <1>2, <1>3, <1>4, <1>5, <1>6, <1>7, <1>8, <1>9, <1>10, <1>11, <1>12,
         <1>13, <1>14, <1>15, <1>16, <1>17, <1>18, <1>19, <1>20, <1>21, <1>22, <1>23,
         <1>24, <1>25, <1>26, <1>27, <1>28, <1>29, <1>30, <1>31, <1>32
      DEF Next, Submit, Judge, Change

\* The task of a request is chosen when it begins.
LEMMA TasksStep == IInv /\ [Next]_vars => Tasks'
<1> SUFFICES ASSUME IInv, [Next]_vars PROVE Tasks'
      OBVIOUS
<1> USE DEF IInv
<1>1. ASSUME NEW s \in Solution, StartHomework(s) PROVE Tasks'
      BY <1>1 DEF StartHomework, Advance, Tasks, teacher
<1>2. ASSUME NEW s \in Solution, StartPractice(s) PROVE Tasks'
      BY <1>2 DEF StartPractice, Advance, Tasks, teacher
<1>3. ASSUME NEW s \in Solution, EnterClass(s) PROVE Tasks'
      BY <1>3 DEF EnterClass, Advance, TakeClass, Tasks, teacher
<1>4. ASSUME NEW s \in Solution, Admit(s) PROVE Tasks'
      BY <1>4 DEF Admit, Advance, ReleaseClass, LoadProblem, Accepting, Tasks, teacher
<1>5. ASSUME NEW s \in Solution, EnterProblem(s) PROVE Tasks'
      BY <1>5 DEF EnterProblem, Advance, TakeProblem, Tasks, teacher
<1>6. ASSUME NEW s \in Solution, Validate(s) PROVE Tasks'
      BY <1>6 DEF Validate, Advance, ReleaseProblem, ReleaseClass, Tasks, teacher
<1>7. ASSUME NEW s \in Solution, Insert(s) PROVE Tasks'
      BY <1>7 DEF Insert, Advance, Tasks, teacher
<1>8. ASSUME NEW s \in Solution, Link(s) PROVE Tasks'
      BY <1>8 DEF Link, Advance, Tasks, teacher
<1>9. ASSUME NEW s \in Solution, SaveSource(s) PROVE Tasks'
      BY <1>9 DEF SaveSource, Advance, Tasks, teacher
<1>10. ASSUME NEW s \in Solution, Queue(s) PROVE Tasks'
      BY <1>10 DEF Queue, Advance, ReleaseProblem, ReleaseClass, Tasks, teacher
<1>11. ASSUME NEW s \in Solution, Pick(s) PROVE Tasks'
      BY <1>11 DEF Pick, Tasks, teacher
<1>12. ASSUME NEW s \in Solution, Finish(s) PROVE Tasks'
      BY <1>12 DEF Finish, Tasks, teacher
<1>13. ASSUME NEW t \in Teacher, LoadDocument(t) PROVE Tasks'
      BY <1>13 DEF LoadDocument, Goto, OpenToTeachers, Tasks, Cleaning
<1>14. ASSUME NEW t \in Teacher, Begin(t) PROVE Tasks'
      BY <1>14 DEF Begin, Goto, OpenToTeachers, Tasks, Cleaning
<1>15. ASSUME NEW t \in Teacher, EnterClassroom(t) PROVE Tasks'
      BY <1>15 DEF EnterClassroom, Goto, TakeClass, Tasks, Cleaning
<1>16. ASSUME NEW t \in Teacher, Check(t) PROVE Tasks'
      BY <1>16
      DEF Check, Goto, ReleaseClass, OpenToTeachers, Busy, UpToDate, Tasks, TypeOK,
          Cleaning
<1>17. ASSUME NEW t \in Teacher, Close(t) PROVE Tasks'
  <2>1. UNCHANGED <<offering, question, edition, linked, jol, judge, locks, step, task,
                     based, saved, old, fresh, listed, aborts>>
        BY <1>17 DEF Close
  <2>2. pc[t] = "close" /\ status' = "closed"
        BY <1>17 DEF Close
  <2> QED
        BY <1>17, <2>1, <2>2, CloseFacts DEF Tasks, TypeOK, Cleaning
<1>18. ASSUME NEW t \in Teacher, SyncProblem(t) PROVE Tasks'
      BY <1>18 DEF SyncProblem, Goto, Tasks
<1>19. ASSUME NEW t \in Teacher, WriteTests(t) PROVE Tasks'
      BY <1>19 DEF WriteTests, Goto, Tasks
<1>20. ASSUME NEW t \in Teacher, NEW s \in Homework, Repoint(t, s)
      PROVE  Tasks'
      BY <1>20 DEF Repoint, Tasks, teacher
<1>21. ASSUME NEW t \in Teacher, OpenProblem(t) PROVE Tasks'
      BY <1>21 DEF OpenProblem, Goto, Tasks
<1>22. ASSUME NEW t \in Teacher, DeleteSources(t) PROVE Tasks'
      BY <1>22 DEF DeleteSources, Goto, Tasks
<1>23. ASSUME NEW t \in Teacher, DeleteSolutions(t) PROVE Tasks'
      BY <1>23 DEF DeleteSolutions, Goto, Tasks
<1>24. ASSUME NEW t \in Teacher, Commit(t) PROVE Tasks'
  <2>1. \/ task[t] \in {"same", "title"} /\ pc' = [pc EXCEPT ![t] = "done"]
        \/ task[t] \in {"rewrite", "replace", "remove"} /\ pc' = [pc EXCEPT ![t] = "clean"]
        BY <1>24 DEF Commit, Goto, Task, TypeOK
  <2>2. task' = task
        BY <1>24 DEF Commit
  <2> QED
        BY <2>1, <2>2 DEF Tasks, TypeOK, Cleaning
<1>25. ASSUME NEW t \in Teacher, CleanRead(t) PROVE Tasks'
      BY <1>25 DEF CleanRead, Goto, TakeProblem, Tasks, Cleaning
<1>26. ASSUME NEW t \in Teacher, CleanKeep(t) PROVE Tasks'
      BY <1>26 DEF CleanKeep, AfterClean, Goto, ReleaseClass, Tasks, TypeOK, Cleaning
<1>27. ASSUME NEW t \in Teacher, RemoveTests(t) PROVE Tasks'
      BY <1>27 DEF RemoveTests, Goto, Tasks, Cleaning
<1>28. ASSUME NEW t \in Teacher, RemoveRow(t) PROVE Tasks'
      BY <1>28
      DEF RemoveRow, ReleaseProblem, AfterClean, Goto, ReleaseClass, Tasks, TypeOK,
          Cleaning
<1>29. ASSUME NEW t \in Teacher, Requeue(t) PROVE Tasks'
      BY <1>29 DEF Requeue, Goto, ReleaseClass, Tasks
<1>30. ASSUME ArchiveCourse PROVE Tasks'
      BY <1>30 DEF ArchiveCourse, Tasks, teacher
<1>31. ASSUME NEW x \in Process, Abort(x) PROVE Tasks'
      BY <1>31
      DEF Abort, Advance, Goto, ReleaseProblem, ReleaseClass, Tasks, TypeOK, Cleaning,
          teacher
<1>32. ASSUME UNCHANGED vars PROVE Tasks'
      BY <1>32 DEF vars, Tasks, teacher
<1> QED
      BY <1>1, <1>2, <1>3, <1>4, <1>5, <1>6, <1>7, <1>8, <1>9, <1>10, <1>11, <1>12,
         <1>13, <1>14, <1>15, <1>16, <1>17, <1>18, <1>19, <1>20, <1>21, <1>22, <1>23,
         <1>24, <1>25, <1>26, <1>27, <1>28, <1>29, <1>30, <1>31, <1>32
      DEF Next, Submit, Judge, Change

\* A submission works under the lock of the class, or of its problem.
LEMMA StagesStep == IInv /\ [Next]_vars => Stages'
<1> SUFFICES ASSUME IInv, [Next]_vars PROVE Stages'
      OBVIOUS
<1> USE DEF IInv
<1>1. ASSUME NEW s \in Solution, StartHomework(s) PROVE Stages'
      BY <1>1 DEF StartHomework, Advance, Stages, course, judge
<1>2. ASSUME NEW s \in Solution, StartPractice(s) PROVE Stages'
      BY <1>2, ProcessAssumption DEF StartPractice, Advance, Stages, course, judge
<1>3. ASSUME NEW s \in Solution, EnterClass(s) PROVE Stages'
      BY <1>3 DEF EnterClass, Advance, TakeClass, Stages, course, jol, judge
<1>4. ASSUME NEW s \in Solution, Admit(s) PROVE Stages'
      BY <1>4
      DEF Admit, Advance, ReleaseClass, LoadProblem, Accepting, TypeOK, Stages,
          course, jol, judge
<1>5. ASSUME NEW s \in Solution, EnterProblem(s) PROVE Stages'
      BY <1>5 DEF EnterProblem, Advance, TakeProblem, Stages, course, jol, judge
<1>6. ASSUME NEW s \in Solution, Validate(s) PROVE Stages'
      BY <1>6
      DEF Validate, Advance, ReleaseProblem, ReleaseClass, TypeOK, Stages, course,
          jol, judge
<1>7. ASSUME NEW s \in Solution, Insert(s) PROVE Stages'
      BY <1>7 DEF Insert, Advance, TypeOK, Stages, course, judge
<1>8. ASSUME NEW s \in Solution, Link(s) PROVE Stages'
      BY <1>8 DEF Link, Advance, Stages, jol, judge
<1>9. ASSUME NEW s \in Solution, SaveSource(s) PROVE Stages'
      BY <1>9 DEF SaveSource, Advance, Stages, course, judge
<1>10. ASSUME NEW s \in Solution, Queue(s) PROVE Stages'
      BY <1>10
      DEF Queue, Advance, ReleaseProblem, ReleaseClass, TypeOK, Stages, course, judge
<1>11. ASSUME NEW s \in Solution, Pick(s) PROVE Stages'
      BY <1>11 DEF Pick, TypeOK, Stages, course
<1>12. ASSUME NEW s \in Solution, Finish(s) PROVE Stages'
      BY <1>12 DEF Finish, TypeOK, Stages, course
<1>13. ASSUME NEW t \in Teacher, LoadDocument(t) PROVE Stages'
      BY <1>13 DEF LoadDocument, Goto, OpenToTeachers, Stages, course, jol, judge
<1>14. ASSUME NEW t \in Teacher, Begin(t) PROVE Stages'
      BY <1>14 DEF Begin, Goto, OpenToTeachers, Stages, course, jol, judge
<1>15. ASSUME NEW t \in Teacher, EnterClassroom(t) PROVE Stages'
      BY <1>15 DEF EnterClassroom, Goto, TakeClass, Stages, course, jol, judge
<1>16. ASSUME NEW t \in Teacher, Check(t) PROVE Stages'
      BY <1>16
      DEF Check, Goto, ReleaseClass, OpenToTeachers, Busy, UpToDate, Stages, course,
          jol, judge
<1>17. ASSUME NEW t \in Teacher, Close(t) PROVE Stages'
      BY <1>17 DEF Close, Goto, Stages, jol, judge
<1>18. ASSUME NEW t \in Teacher, SyncProblem(t) PROVE Stages'
      BY <1>18 DEF SyncProblem, Goto, Stages, course, judge
<1>19. ASSUME NEW t \in Teacher, WriteTests(t) PROVE Stages'
      BY <1>19 DEF WriteTests, Goto, Stages, course, judge
<1>20. ASSUME NEW t \in Teacher, NEW s \in Homework, Repoint(t, s)
      PROVE  Stages'
      BY <1>20 DEF Repoint, Editing, Stages, course, Edition, judge
<1>21. ASSUME NEW t \in Teacher, OpenProblem(t) PROVE Stages'
      BY <1>21 DEF OpenProblem, Goto, Stages, course, judge
<1>22. ASSUME NEW t \in Teacher, DeleteSources(t) PROVE Stages'
      BY <1>22 DEF DeleteSources, Goto, Stages, course, judge
<1>23. ASSUME NEW t \in Teacher, DeleteSolutions(t) PROVE Stages'
      BY <1>23 DEF DeleteSolutions, Goto, Editing, Stages, course, Edition, judge
<1>24. ASSUME NEW t \in Teacher, Commit(t) PROVE Stages'
      BY <1>24, ProcessAssumption
      DEF Commit, Goto, ReleaseClass, Editing, Locked, Stages, jol, judge
<1>25. ASSUME NEW t \in Teacher, CleanRead(t) PROVE Stages'
      BY <1>25 DEF CleanRead, Goto, TakeProblem, Stages, course, jol, judge
<1>26. ASSUME NEW t \in Teacher, CleanKeep(t) PROVE Stages'
      BY <1>26 DEF CleanKeep, AfterClean, Goto, ReleaseClass, Stages, course, jol, judge
<1>27. ASSUME NEW t \in Teacher, RemoveTests(t) PROVE Stages'
      BY <1>27 DEF RemoveTests, Goto, Stages, course, judge
<1>28. ASSUME NEW t \in Teacher, RemoveRow(t) PROVE Stages'
      BY <1>28, ProcessAssumption
      DEF RemoveRow, ReleaseProblem, AfterClean, Goto, ReleaseClass, Locked, Stages,
          course, judge
<1>29. ASSUME NEW t \in Teacher, Requeue(t) PROVE Stages'
      BY <1>29, ProcessAssumption
      DEF Requeue, Goto, ReleaseClass, TypeOK, Cleaning, Locked, Stages, course, judge
<1>30. ASSUME ArchiveCourse PROVE Stages'
      BY <1>30 DEF ArchiveCourse, Stages, jol, judge
<1>31. ASSUME NEW x \in Process, Abort(x) PROVE Stages'
      BY <1>31
      DEF Abort, Advance, Goto, ReleaseProblem, ReleaseClass, TypeOK, Stages, course,
          jol, judge
<1>32. ASSUME UNCHANGED vars PROVE Stages'
      BY <1>32 DEF vars, Stages, course, jol, judge
<1> QED
      BY <1>1, <1>2, <1>3, <1>4, <1>5, <1>6, <1>7, <1>8, <1>9, <1>10, <1>11, <1>12,
         <1>13, <1>14, <1>15, <1>16, <1>17, <1>18, <1>19, <1>20, <1>21, <1>22, <1>23,
         <1>24, <1>25, <1>26, <1>27, <1>28, <1>29, <1>30, <1>31, <1>32
      DEF Next, Submit, Judge, Change

\* Nobody else touches the submissions of the assignment during an edition.
LEMMA EditionStep == IInv /\ [Next]_vars => Edition'
<1> SUFFICES ASSUME IInv, [Next]_vars PROVE Edition'
      OBVIOUS
<1> USE DEF IInv
<1>1. ASSUME NEW s \in Solution, StartHomework(s) PROVE Edition'
      BY <1>1 DEF StartHomework, Advance, Tasks, Stages, course, Edition, teacher
<1>2. ASSUME NEW s \in Solution, StartPractice(s) PROVE Edition'
      BY <1>2 DEF StartPractice, Advance, Tasks, Stages, course, Edition, teacher
<1>3. ASSUME NEW s \in Solution, EnterClass(s) PROVE Edition'
      BY <1>3 DEF EnterClass, Advance, TakeClass, Tasks, course, Edition, jol, teacher
<1>4. ASSUME NEW s \in Solution, Admit(s) PROVE Edition'
      BY <1>4
      DEF Admit, Advance, ReleaseClass, LoadProblem, Accepting, Tasks, course,
          Edition, jol, teacher
<1>5. ASSUME NEW s \in Solution, EnterProblem(s) PROVE Edition'
      BY <1>5
      DEF EnterProblem, Advance, TakeProblem, Tasks, course, Edition, jol, teacher
<1>6. ASSUME NEW s \in Solution, Validate(s) PROVE Edition'
      BY <1>6
      DEF Validate, Advance, ReleaseProblem, ReleaseClass, Tasks, course, Edition,
          jol, teacher
<1>7. ASSUME NEW s \in Solution, Insert(s) PROVE Edition'
      BY <1>7 DEF Insert, Advance, Tasks, Stages, course, Edition, teacher
<1>8. ASSUME NEW s \in Solution, Link(s) PROVE Edition'
      BY <1>8, ProcessAssumption DEF Link, Advance, Tasks, Locked, Edition, teacher
<1>9. ASSUME NEW s \in Solution, SaveSource(s) PROVE Edition'
      BY <1>9 DEF SaveSource, Advance, Tasks, course, Edition, teacher
<1>10. ASSUME NEW s \in Solution, Queue(s) PROVE Edition'
      BY <1>10, ProcessAssumption
      DEF Queue, Advance, ReleaseProblem, ReleaseClass, Tasks, TypeOK, Locked, course,
          Edition, teacher
<1>11. ASSUME NEW s \in Solution, Pick(s) PROVE Edition'
      BY <1>11 DEF Pick, Tasks, course, Edition, teacher
<1>12. ASSUME NEW s \in Solution, Finish(s) PROVE Edition'
      BY <1>12 DEF Finish, Tasks, Stages, course, Edition, teacher
<1>13. ASSUME NEW t \in Teacher, LoadDocument(t) PROVE Edition'
      BY <1>13
      DEF LoadDocument, Goto, OpenToTeachers, Tasks, Editing, course, Edition, jol
<1>14. ASSUME NEW t \in Teacher, Begin(t) PROVE Edition'
      BY <1>14 DEF Begin, Goto, OpenToTeachers, Tasks, Editing, course, Edition, jol
<1>15. ASSUME NEW t \in Teacher, EnterClassroom(t) PROVE Edition'
      BY <1>15 DEF EnterClassroom, Goto, TakeClass, Tasks, Editing, course, Edition, jol
<1>16. ASSUME NEW t \in Teacher, Check(t) PROVE Edition'
      BY <1>16
      DEF Check, Goto, ReleaseClass, OpenToTeachers, Busy, UpToDate, Tasks, TypeOK,
          Solution, Editing, course, Edition, jol
<1>17. ASSUME NEW t \in Teacher, Close(t) PROVE Edition'
      BY <1>17 DEF Close, Goto, Tasks, Editing, Edition, jol
<1>18. ASSUME NEW t \in Teacher, SyncProblem(t) PROVE Edition'
      BY <1>18 DEF SyncProblem, Goto, Tasks, Editing, course, Edition
<1>19. ASSUME NEW t \in Teacher, WriteTests(t) PROVE Edition'
      BY <1>19 DEF WriteTests, Goto, Tasks, Editing, course, Edition
<1>20. ASSUME NEW t \in Teacher, NEW s \in Homework, Repoint(t, s)
      PROVE  Edition'
      BY <1>20 DEF Repoint, Tasks, TypeOK, Editing, Locked, course, Edition, teacher
<1>21. ASSUME NEW t \in Teacher, OpenProblem(t) PROVE Edition'
      BY <1>21 DEF OpenProblem, Goto, Tasks, Editing, course, Edition, Current
<1>22. ASSUME NEW t \in Teacher, DeleteSources(t) PROVE Edition'
      BY <1>22 DEF DeleteSources, Goto, Tasks, Editing, course, Edition
<1>23. ASSUME NEW t \in Teacher, DeleteSolutions(t) PROVE Edition'
      BY <1>23
      DEF DeleteSolutions, Goto, Tasks, TypeOK, Solution, Editing, course, Edition
<1>24. ASSUME NEW t \in Teacher, Commit(t) PROVE Edition'
      BY <1>24 DEF Commit, Goto, ReleaseClass, Tasks, TypeOK, Editing, Locked, Edition
<1>25. ASSUME NEW t \in Teacher, CleanRead(t) PROVE Edition'
      BY <1>25 DEF CleanRead, Goto, TakeProblem, Tasks, Editing, course, Edition, jol
<1>26. ASSUME NEW t \in Teacher, CleanKeep(t) PROVE Edition'
      BY <1>26
      DEF CleanKeep, AfterClean, Goto, ReleaseClass, Tasks, TypeOK, Editing, course,
          Edition, jol
<1>27. ASSUME NEW t \in Teacher, RemoveTests(t) PROVE Edition'
      BY <1>27 DEF RemoveTests, Goto, Tasks, Editing, course, Edition
<1>28. ASSUME NEW t \in Teacher, RemoveRow(t) PROVE Edition'
      BY <1>28
      DEF RemoveRow, ReleaseProblem, AfterClean, Goto, ReleaseClass, Tasks, TypeOK,
          Editing, course, Edition
<1>29. ASSUME NEW t \in Teacher, Requeue(t) PROVE Edition'
      BY <1>29
      DEF Requeue, Goto, ReleaseClass, Tasks, Cleaning, Editing, Locked, Edition
<1>30. ASSUME ArchiveCourse PROVE Edition'
      BY <1>30 DEF ArchiveCourse, Tasks, Edition, jol, teacher
<1>31. ASSUME NEW x \in Process, Abort(x) PROVE Edition'
      BY <1>31
      DEF Abort, Advance, Goto, ReleaseProblem, ReleaseClass, Tasks, TypeOK, Editing,
          course, Edition, jol, teacher
<1>32. ASSUME UNCHANGED vars PROVE Edition'
      BY <1>32 DEF vars, course, Edition, jol, teacher
<1> QED
      BY <1>1, <1>2, <1>3, <1>4, <1>5, <1>6, <1>7, <1>8, <1>9, <1>10, <1>11, <1>12,
         <1>13, <1>14, <1>15, <1>16, <1>17, <1>18, <1>19, <1>20, <1>21, <1>22, <1>23,
         <1>24, <1>25, <1>26, <1>27, <1>28, <1>29, <1>30, <1>31, <1>32
      DEF Next, Submit, Judge, Change

\* Nobody else knows the new problem until the edition commits.
LEMMA FreshStep == IInv /\ [Next]_vars => Fresh'
<1> SUFFICES ASSUME IInv, [Next]_vars PROVE Fresh'
      OBVIOUS
<1> USE DEF IInv
<1>1. ASSUME NEW s \in Solution, StartHomework(s) PROVE Fresh'
      BY <1>1 DEF StartHomework, Advance, Tasks, course, Fresh, teacher
<1>2. ASSUME NEW s \in Solution, StartPractice(s) PROVE Fresh'
      BY <1>2 DEF StartPractice, Advance, Tasks, Stages, course, Fresh, teacher
<1>3. ASSUME NEW s \in Solution, EnterClass(s) PROVE Fresh'
      BY <1>3 DEF EnterClass, Advance, TakeClass, Tasks, course, Fresh, jol, teacher
<1>4. ASSUME NEW s \in Solution, Admit(s) PROVE Fresh'
      BY <1>4
      DEF Admit, Advance, ReleaseClass, LoadProblem, Accepting, Tasks, course, Fresh,
          jol, teacher
<1>5. ASSUME NEW s \in Solution, EnterProblem(s) PROVE Fresh'
      BY <1>5 DEF EnterProblem, Advance, TakeProblem, Tasks, course, Fresh, jol, teacher
<1>6. ASSUME NEW s \in Solution, Validate(s) PROVE Fresh'
      BY <1>6
      DEF Validate, Advance, ReleaseProblem, ReleaseClass, Tasks, course, Fresh, jol,
          teacher
<1>7. ASSUME NEW s \in Solution, Insert(s) PROVE Fresh'
      BY <1>7 DEF Insert, Advance, Tasks, TypeOK, Stages, course, Fresh, teacher
<1>8. ASSUME NEW s \in Solution, Link(s) PROVE Fresh'
      BY <1>8 DEF Link, Advance, Tasks, Fresh, jol, teacher
<1>9. ASSUME NEW s \in Solution, SaveSource(s) PROVE Fresh'
      BY <1>9 DEF SaveSource, Advance, Tasks, course, Fresh, teacher
<1>10. ASSUME NEW s \in Solution, Queue(s) PROVE Fresh'
      BY <1>10
      DEF Queue, Advance, ReleaseProblem, ReleaseClass, Tasks, course, Fresh, teacher
<1>11. ASSUME NEW s \in Solution, Pick(s) PROVE Fresh'
      BY <1>11 DEF Pick, Tasks, course, Fresh, teacher
<1>12. ASSUME NEW s \in Solution, Finish(s) PROVE Fresh'
      BY <1>12 DEF Finish, Tasks, course, Fresh, teacher
<1>13. ASSUME NEW t \in Teacher, LoadDocument(t) PROVE Fresh'
      BY <1>13
      DEF LoadDocument, Goto, OpenToTeachers, Tasks, Cleaning, course, Fresh, jol
<1>14. ASSUME NEW t \in Teacher, Begin(t) PROVE Fresh'
      BY <1>14 DEF Begin, Goto, OpenToTeachers, Tasks, Cleaning, course, Fresh, jol
<1>15. ASSUME NEW t \in Teacher, EnterClassroom(t) PROVE Fresh'
      BY <1>15 DEF EnterClassroom, Goto, TakeClass, Tasks, Cleaning, course, Fresh, jol
<1>16. ASSUME NEW t \in Teacher, Check(t) PROVE Fresh'
      BY <1>16
      DEF Check, Goto, ReleaseClass, OpenToTeachers, Busy, UpToDate, Tasks, TypeOK,
          Cleaning, course, Fresh, jol
<1>17. ASSUME NEW t \in Teacher, Close(t) PROVE Fresh'
  <2>1. UNCHANGED <<offering, question, edition, linked, jol, judge, locks, step, task,
                     based, saved, old, fresh, listed, aborts>>
        BY <1>17 DEF Close
  <2>2. pc[t] = "close" /\ status' = "closed"
        BY <1>17 DEF Close
  <2> QED
        BY <1>17, <2>1, <2>2, CloseFacts DEF TypeOK, Cleaning, Fresh, jol
<1>18. ASSUME NEW t \in Teacher, SyncProblem(t) PROVE Fresh'
      BY <1>18 DEF SyncProblem, Goto, Tasks, TypeOK, Cleaning, course, Fresh
<1>19. ASSUME NEW t \in Teacher, WriteTests(t) PROVE Fresh'
      BY <1>19 DEF WriteTests, Goto, Tasks, Cleaning, course, Fresh
<1>20. ASSUME NEW t \in Teacher, NEW s \in Homework, Repoint(t, s)
      PROVE  Fresh'
      BY <1>20 DEF Repoint, Tasks, Editing, Locked, Fresh, teacher, QuestionUsable
<1>21. ASSUME NEW t \in Teacher, OpenProblem(t) PROVE Fresh'
      BY <1>21 DEF OpenProblem, Goto, Tasks, TypeOK, Cleaning, Editing, Locked, Fresh
<1>22. ASSUME NEW t \in Teacher, DeleteSources(t) PROVE Fresh'
      BY <1>22 DEF DeleteSources, Goto, Tasks, course, Fresh
<1>23. ASSUME NEW t \in Teacher, DeleteSolutions(t) PROVE Fresh'
      BY <1>23 DEF DeleteSolutions, Goto, Tasks, Editing, Locked, Fresh
<1>24. ASSUME NEW t \in Teacher, Commit(t) PROVE Fresh'
      BY <1>24
      DEF Commit, Goto, ReleaseClass, Tasks, TypeOK, Editing, Locked, Edition, Fresh,
          jol
<1>25. ASSUME NEW t \in Teacher, CleanRead(t) PROVE Fresh'
      BY <1>25 DEF CleanRead, Goto, TakeProblem, Tasks, Cleaning, course, Fresh, jol
<1>26. ASSUME NEW t \in Teacher, CleanKeep(t) PROVE Fresh'
      BY <1>26
      DEF CleanKeep, AfterClean, Goto, ReleaseClass, Tasks, TypeOK, Cleaning, course,
          Fresh, jol
<1>27. ASSUME NEW t \in Teacher, RemoveTests(t) PROVE Fresh'
      BY <1>27 DEF RemoveTests, Goto, Tasks, Cleaning, Editing, Locked, course, Fresh
<1>28. ASSUME NEW t \in Teacher, RemoveRow(t) PROVE Fresh'
      BY <1>28
      DEF RemoveRow, ReleaseProblem, AfterClean, Goto, ReleaseClass, Tasks, TypeOK,
          Cleaning, Editing, Locked, course, Fresh
<1>29. ASSUME NEW t \in Teacher, Requeue(t) PROVE Fresh'
      BY <1>29 DEF Requeue, Goto, ReleaseClass, Tasks, TypeOK, Cleaning, Locked, Fresh
<1>30. ASSUME ArchiveCourse PROVE Fresh'
      BY <1>30 DEF ArchiveCourse, Tasks, Fresh, jol, teacher
<1>31. ASSUME NEW x \in Process, Abort(x) PROVE Fresh'
      BY <1>31
      DEF Abort, Advance, Goto, ReleaseProblem, ReleaseClass, Tasks, TypeOK, Cleaning,
          course, Fresh, jol, teacher
<1>32. ASSUME UNCHANGED vars PROVE Fresh'
      BY <1>32 DEF vars, course, Fresh, jol, teacher
<1> QED
      BY <1>1, <1>2, <1>3, <1>4, <1>5, <1>6, <1>7, <1>8, <1>9, <1>10, <1>11, <1>12,
         <1>13, <1>14, <1>15, <1>16, <1>17, <1>18, <1>19, <1>20, <1>21, <1>22, <1>23,
         <1>24, <1>25, <1>26, <1>27, <1>28, <1>29, <1>30, <1>31, <1>32
      DEF Next, Submit, Judge, Change

\* A submission to the problem that is removed would need its lock.
LEMMA UnusedStep == IInv /\ [Next]_vars => Unused'
<1> SUFFICES ASSUME IInv, [Next]_vars PROVE Unused'
      OBVIOUS
<1> USE DEF IInv
<1>1. ASSUME NEW s \in Solution, StartHomework(s) PROVE Unused'
      BY <1>1 DEF StartHomework, Advance, Tasks, course, Referenced, Unused, teacher
<1>2. ASSUME NEW s \in Solution, StartPractice(s) PROVE Unused'
      BY <1>2
      DEF StartPractice, Advance, Tasks, Stages, course, Referenced, Unused, teacher
<1>3. ASSUME NEW s \in Solution, EnterClass(s) PROVE Unused'
      BY <1>3
      DEF EnterClass, Advance, TakeClass, Tasks, course, Referenced, Unused, jol,
          teacher
<1>4. ASSUME NEW s \in Solution, Admit(s) PROVE Unused'
      BY <1>4
      DEF Admit, Advance, ReleaseClass, LoadProblem, Accepting, Tasks, course,
          Referenced, Unused, jol, teacher
<1>5. ASSUME NEW s \in Solution, EnterProblem(s) PROVE Unused'
      BY <1>5
      DEF EnterProblem, Advance, TakeProblem, Tasks, course, Referenced, Unused, jol,
          teacher
<1>6. ASSUME NEW s \in Solution, Validate(s) PROVE Unused'
      BY <1>6
      DEF Validate, Advance, ReleaseProblem, ReleaseClass, Tasks, course, Referenced,
          Unused, jol, teacher
<1>7. ASSUME NEW s \in Solution, Insert(s) PROVE Unused'
      BY <1>7, ProcessAssumption
      DEF Insert, Advance, Tasks, Locked, course, Referenced, Unused, teacher
<1>8. ASSUME NEW s \in Solution, Link(s) PROVE Unused'
      BY <1>8 DEF Link, Advance, Tasks, Referenced, Unused, jol, teacher
<1>9. ASSUME NEW s \in Solution, SaveSource(s) PROVE Unused'
      BY <1>9 DEF SaveSource, Advance, Tasks, course, Referenced, Unused, teacher
<1>10. ASSUME NEW s \in Solution, Queue(s) PROVE Unused'
      BY <1>10
      DEF Queue, Advance, ReleaseProblem, ReleaseClass, Tasks, course, Referenced,
          Unused, teacher
<1>11. ASSUME NEW s \in Solution, Pick(s) PROVE Unused'
      BY <1>11 DEF Pick, Tasks, course, Referenced, Unused, teacher
<1>12. ASSUME NEW s \in Solution, Finish(s) PROVE Unused'
      BY <1>12 DEF Finish, Tasks, course, Referenced, Unused, teacher
<1>13. ASSUME NEW t \in Teacher, LoadDocument(t) PROVE Unused'
      BY <1>13
      DEF LoadDocument, Goto, OpenToTeachers, Tasks, course, Referenced, Unused, jol
<1>14. ASSUME NEW t \in Teacher, Begin(t) PROVE Unused'
      BY <1>14 DEF Begin, Goto, OpenToTeachers, Tasks, course, Referenced, Unused, jol
<1>15. ASSUME NEW t \in Teacher, EnterClassroom(t) PROVE Unused'
      BY <1>15
      DEF EnterClassroom, Goto, TakeClass, Tasks, course, Referenced, Unused, jol
<1>16. ASSUME NEW t \in Teacher, Check(t) PROVE Unused'
      BY <1>16
      DEF Check, Goto, ReleaseClass, OpenToTeachers, Busy, UpToDate, Tasks, TypeOK,
          course, Referenced, Unused, jol
<1>17. ASSUME NEW t \in Teacher, Close(t) PROVE Unused'
  <2>1. UNCHANGED <<offering, question, edition, linked, jol, judge, locks, step, task,
                     based, saved, old, fresh, listed, aborts>>
        BY <1>17 DEF Close
  <2>2. pc[t] = "close" /\ status' = "closed"
        BY <1>17 DEF Close
  <2> QED
        BY <1>17, <2>1, <2>2, CloseFacts DEF TypeOK, Cleaning, Editing, Locked, Unused
<1>18. ASSUME NEW t \in Teacher, SyncProblem(t) PROVE Unused'
      BY <1>18 DEF SyncProblem, Goto, Tasks, course, Referenced, Unused
<1>19. ASSUME NEW t \in Teacher, WriteTests(t) PROVE Unused'
      BY <1>19 DEF WriteTests, Goto, Tasks, course, Referenced, Unused
<1>20. ASSUME NEW t \in Teacher, NEW s \in Homework, Repoint(t, s)
      PROVE  Unused'
      BY <1>20 DEF Repoint, Tasks, Cleaning, Editing, Locked, Unused, teacher
<1>21. ASSUME NEW t \in Teacher, OpenProblem(t) PROVE Unused'
      BY <1>21 DEF OpenProblem, Goto, Tasks, course, Referenced, Unused
<1>22. ASSUME NEW t \in Teacher, DeleteSources(t) PROVE Unused'
      BY <1>22 DEF DeleteSources, Goto, Tasks, course, Referenced, Unused
<1>23. ASSUME NEW t \in Teacher, DeleteSolutions(t) PROVE Unused'
      BY <1>23 DEF DeleteSolutions, Goto, Tasks, Cleaning, course, Referenced, Unused
<1>24. ASSUME NEW t \in Teacher, Commit(t) PROVE Unused'
      BY <1>24
      DEF Commit, Goto, ReleaseClass, Tasks, TypeOK, Cleaning, Editing, Locked, Unused
<1>25. ASSUME NEW t \in Teacher, CleanRead(t) PROVE Unused'
      BY <1>25 DEF CleanRead, Goto, TakeProblem, Tasks, course, Referenced, Unused, jol
<1>26. ASSUME NEW t \in Teacher, CleanKeep(t) PROVE Unused'
      BY <1>26
      DEF CleanKeep, AfterClean, Goto, ReleaseClass, Tasks, TypeOK, course,
          Referenced, Unused, jol
<1>27. ASSUME NEW t \in Teacher, RemoveTests(t) PROVE Unused'
      BY <1>27 DEF RemoveTests, Goto, Tasks, course, Referenced, Unused
<1>28. ASSUME NEW t \in Teacher, RemoveRow(t) PROVE Unused'
      BY <1>28
      DEF RemoveRow, ReleaseProblem, AfterClean, Goto, ReleaseClass, Tasks, TypeOK,
          course, Referenced, Unused
<1>29. ASSUME NEW t \in Teacher, Requeue(t) PROVE Unused'
      BY <1>29
      DEF Requeue, Goto, ReleaseClass, Tasks, Cleaning, course, Referenced, Unused
<1>30. ASSUME ArchiveCourse PROVE Unused'
      BY <1>30 DEF ArchiveCourse, Tasks, Referenced, Unused, jol, teacher
<1>31. ASSUME NEW x \in Process, Abort(x) PROVE Unused'
      BY <1>31
      DEF Abort, Advance, Goto, ReleaseProblem, ReleaseClass, Tasks, TypeOK, course,
          Referenced, Unused, jol, teacher
<1>32. ASSUME UNCHANGED vars PROVE Unused'
      BY <1>32 DEF vars, course, Referenced, Unused, jol, teacher
<1> QED
      BY <1>1, <1>2, <1>3, <1>4, <1>5, <1>6, <1>7, <1>8, <1>9, <1>10, <1>11, <1>12,
         <1>13, <1>14, <1>15, <1>16, <1>17, <1>18, <1>19, <1>20, <1>21, <1>22, <1>23,
         <1>24, <1>25, <1>26, <1>27, <1>28, <1>29, <1>30, <1>31, <1>32
      DEF Next, Submit, Judge, Change

\* What the judge gets is for the question of the assignment.
LEMMA CurrentStep == IInv /\ [Next]_vars => Current'
<1> SUFFICES ASSUME IInv, [Next]_vars PROVE Current'
      OBVIOUS
<1> USE DEF IInv
<1>1. ASSUME NEW s \in Solution, StartHomework(s) PROVE Current'
      BY <1>1 DEF StartHomework, Advance, Tasks, course, judge, Current
<1>2. ASSUME NEW s \in Solution, StartPractice(s) PROVE Current'
      BY <1>2 DEF StartPractice, Advance, Tasks, Stages, course, judge, Current
<1>3. ASSUME NEW s \in Solution, EnterClass(s) PROVE Current'
      BY <1>3 DEF EnterClass, Advance, TakeClass, Tasks, course, jol, judge, Current
<1>4. ASSUME NEW s \in Solution, Admit(s) PROVE Current'
      BY <1>4
      DEF Admit, Advance, ReleaseClass, LoadProblem, Accepting, Tasks, course, jol,
          judge, Current
<1>5. ASSUME NEW s \in Solution, EnterProblem(s) PROVE Current'
      BY <1>5 DEF EnterProblem, Advance, TakeProblem, Tasks, course, jol, judge, Current
<1>6. ASSUME NEW s \in Solution, Validate(s) PROVE Current'
      BY <1>6
      DEF Validate, Advance, ReleaseProblem, ReleaseClass, Tasks, course, jol, judge,
          Current
<1>7. ASSUME NEW s \in Solution, Insert(s) PROVE Current'
      BY <1>7 DEF Insert, Advance, Tasks, course, judge, Current
<1>8. ASSUME NEW s \in Solution, Link(s) PROVE Current'
      BY <1>8 DEF Link, Advance, Tasks, Stages, jol, judge, Current
<1>9. ASSUME NEW s \in Solution, SaveSource(s) PROVE Current'
      BY <1>9 DEF SaveSource, Advance, Tasks, course, judge, Current
<1>10. ASSUME NEW s \in Solution, Queue(s) PROVE Current'
      BY <1>10
      DEF Queue, Advance, ReleaseProblem, ReleaseClass, Tasks, TypeOK, Stages, course,
          judge, Current
<1>11. ASSUME NEW s \in Solution, Pick(s) PROVE Current'
      BY <1>11 DEF Pick, Tasks, TypeOK, course, Current
<1>12. ASSUME NEW s \in Solution, Finish(s) PROVE Current'
      BY <1>12 DEF Finish, Tasks, Stages, course, Current
<1>13. ASSUME NEW t \in Teacher, LoadDocument(t) PROVE Current'
      BY <1>13
      DEF LoadDocument, Goto, OpenToTeachers, Tasks, course, jol, judge, Current
<1>14. ASSUME NEW t \in Teacher, Begin(t) PROVE Current'
      BY <1>14 DEF Begin, Goto, OpenToTeachers, Tasks, course, jol, judge, Current
<1>15. ASSUME NEW t \in Teacher, EnterClassroom(t) PROVE Current'
      BY <1>15 DEF EnterClassroom, Goto, TakeClass, Tasks, course, jol, judge, Current
<1>16. ASSUME NEW t \in Teacher, Check(t) PROVE Current'
      BY <1>16
      DEF Check, Goto, ReleaseClass, OpenToTeachers, Busy, UpToDate, Tasks, course,
          jol, judge, Current
<1>17. ASSUME NEW t \in Teacher, Close(t) PROVE Current'
      BY <1>17 DEF Close, Goto, Tasks, Editing, Edition, jol, judge, Current
<1>18. ASSUME NEW t \in Teacher, SyncProblem(t) PROVE Current'
      BY <1>18 DEF SyncProblem, Goto, Tasks, course, judge, Current
<1>19. ASSUME NEW t \in Teacher, WriteTests(t) PROVE Current'
      BY <1>19 DEF WriteTests, Goto, Tasks, course, judge, Current
<1>20. ASSUME NEW t \in Teacher, NEW s \in Homework, Repoint(t, s)
      PROVE  Current'
      BY <1>20 DEF Repoint, Tasks, TypeOK, course, judge, Current
<1>21. ASSUME NEW t \in Teacher, OpenProblem(t) PROVE Current'
      BY <1>21 DEF OpenProblem, Goto, Tasks, course, judge, Current
<1>22. ASSUME NEW t \in Teacher, DeleteSources(t) PROVE Current'
      BY <1>22 DEF DeleteSources, Goto, Tasks, course, judge, Current
<1>23. ASSUME NEW t \in Teacher, DeleteSolutions(t) PROVE Current'
      BY <1>23
      DEF DeleteSolutions, Goto, Tasks, TypeOK, Solution, course, judge, Current
<1>24. ASSUME NEW t \in Teacher, Commit(t) PROVE Current'
      BY <1>24
      DEF Commit, Goto, ReleaseClass, Tasks, Editing, Edition, jol, judge, Current
<1>25. ASSUME NEW t \in Teacher, CleanRead(t) PROVE Current'
      BY <1>25 DEF CleanRead, Goto, TakeProblem, Tasks, course, jol, judge, Current
<1>26. ASSUME NEW t \in Teacher, CleanKeep(t) PROVE Current'
      BY <1>26
      DEF CleanKeep, AfterClean, Goto, ReleaseClass, Tasks, course, jol, judge,
          Current
<1>27. ASSUME NEW t \in Teacher, RemoveTests(t) PROVE Current'
      BY <1>27 DEF RemoveTests, Goto, Tasks, course, judge, Current
<1>28. ASSUME NEW t \in Teacher, RemoveRow(t) PROVE Current'
      BY <1>28
      DEF RemoveRow, ReleaseProblem, AfterClean, Goto, ReleaseClass, Tasks, course,
          judge, Current
<1>29. ASSUME NEW t \in Teacher, Requeue(t) PROVE Current'
      BY <1>29
      DEF Requeue, Goto, ReleaseClass, Tasks, TypeOK, Cleaning, Solution, course,
          Fresh, judge, Current
<1>30. ASSUME ArchiveCourse PROVE Current'
      BY <1>30 DEF ArchiveCourse, Tasks, jol, judge, Current
<1>31. ASSUME NEW x \in Process, Abort(x) PROVE Current'
      BY <1>31
      DEF Abort, Advance, Goto, ReleaseProblem, ReleaseClass, Tasks, course, jol,
          judge, Current
<1>32. ASSUME UNCHANGED vars PROVE Current'
      BY <1>32 DEF vars, course, jol, judge, Current
<1> QED
      BY <1>1, <1>2, <1>3, <1>4, <1>5, <1>6, <1>7, <1>8, <1>9, <1>10, <1>11, <1>12,
         <1>13, <1>14, <1>15, <1>16, <1>17, <1>18, <1>19, <1>20, <1>21, <1>22, <1>23,
         <1>24, <1>25, <1>26, <1>27, <1>28, <1>29, <1>30, <1>31, <1>32
      DEF Next, Submit, Judge, Change

\* The new question is complete when it is linked, the old one removed afterwards.
LEMMA QuestionUsableStep == IInv /\ [Next]_vars => QuestionUsable'
<1> SUFFICES ASSUME IInv, [Next]_vars PROVE QuestionUsable'
      OBVIOUS
<1> USE DEF IInv
<1>1. ASSUME NEW s \in Solution, StartHomework(s) PROVE QuestionUsable'
      BY <1>1 DEF StartHomework, Advance, Tasks, course, QuestionUsable
<1>2. ASSUME NEW s \in Solution, StartPractice(s) PROVE QuestionUsable'
      BY <1>2 DEF StartPractice, Advance, Tasks, course, QuestionUsable
<1>3. ASSUME NEW s \in Solution, EnterClass(s) PROVE QuestionUsable'
      BY <1>3 DEF EnterClass, Advance, TakeClass, Tasks, course, jol, QuestionUsable
<1>4. ASSUME NEW s \in Solution, Admit(s) PROVE QuestionUsable'
      BY <1>4
      DEF Admit, Advance, ReleaseClass, LoadProblem, Accepting, Tasks, course, jol,
          QuestionUsable
<1>5. ASSUME NEW s \in Solution, EnterProblem(s) PROVE QuestionUsable'
      BY <1>5 DEF EnterProblem, Advance, TakeProblem, Tasks, course, jol, QuestionUsable
<1>6. ASSUME NEW s \in Solution, Validate(s) PROVE QuestionUsable'
      BY <1>6
      DEF Validate, Advance, ReleaseProblem, ReleaseClass, Tasks, course, jol,
          QuestionUsable
<1>7. ASSUME NEW s \in Solution, Insert(s) PROVE QuestionUsable'
      BY <1>7 DEF Insert, Advance, Tasks, course, QuestionUsable
<1>8. ASSUME NEW s \in Solution, Link(s) PROVE QuestionUsable'
      BY <1>8 DEF Link, Advance, Tasks, jol, QuestionUsable
<1>9. ASSUME NEW s \in Solution, SaveSource(s) PROVE QuestionUsable'
      BY <1>9 DEF SaveSource, Advance, Tasks, course, QuestionUsable
<1>10. ASSUME NEW s \in Solution, Queue(s) PROVE QuestionUsable'
      BY <1>10
      DEF Queue, Advance, ReleaseProblem, ReleaseClass, Tasks, course, QuestionUsable
<1>11. ASSUME NEW s \in Solution, Pick(s) PROVE QuestionUsable'
      BY <1>11 DEF Pick, Tasks, course, QuestionUsable
<1>12. ASSUME NEW s \in Solution, Finish(s) PROVE QuestionUsable'
      BY <1>12 DEF Finish, Tasks, course, QuestionUsable
<1>13. ASSUME NEW t \in Teacher, LoadDocument(t) PROVE QuestionUsable'
      BY <1>13
      DEF LoadDocument, Goto, OpenToTeachers, Tasks, course, jol, QuestionUsable
<1>14. ASSUME NEW t \in Teacher, Begin(t) PROVE QuestionUsable'
      BY <1>14 DEF Begin, Goto, OpenToTeachers, Tasks, course, jol, QuestionUsable
<1>15. ASSUME NEW t \in Teacher, EnterClassroom(t) PROVE QuestionUsable'
      BY <1>15 DEF EnterClassroom, Goto, TakeClass, Tasks, course, jol, QuestionUsable
<1>16. ASSUME NEW t \in Teacher, Check(t) PROVE QuestionUsable'
      BY <1>16
      DEF Check, Goto, ReleaseClass, OpenToTeachers, Busy, UpToDate, Tasks, course,
          jol, QuestionUsable
<1>17. ASSUME NEW t \in Teacher, Close(t) PROVE QuestionUsable'
      BY <1>17 DEF Close, Goto, Tasks, Editing, Edition, jol, QuestionUsable
<1>18. ASSUME NEW t \in Teacher, SyncProblem(t) PROVE QuestionUsable'
      BY <1>18 DEF SyncProblem, Goto, Tasks, course, QuestionUsable
<1>19. ASSUME NEW t \in Teacher, WriteTests(t) PROVE QuestionUsable'
      BY <1>19 DEF WriteTests, Goto, Tasks, course, QuestionUsable
<1>20. ASSUME NEW t \in Teacher, NEW s \in Homework, Repoint(t, s)
      PROVE  QuestionUsable'
      BY <1>20 DEF Repoint, Tasks, course, QuestionUsable
<1>21. ASSUME NEW t \in Teacher, OpenProblem(t) PROVE QuestionUsable'
      BY <1>21 DEF OpenProblem, Goto, Tasks, course, QuestionUsable
<1>22. ASSUME NEW t \in Teacher, DeleteSources(t) PROVE QuestionUsable'
      BY <1>22 DEF DeleteSources, Goto, Tasks, course, QuestionUsable
<1>23. ASSUME NEW t \in Teacher, DeleteSolutions(t) PROVE QuestionUsable'
      BY <1>23 DEF DeleteSolutions, Goto, Tasks, course, QuestionUsable
<1>24. ASSUME NEW t \in Teacher, Commit(t) PROVE QuestionUsable'
      BY <1>24
      DEF Commit, Goto, ReleaseClass, Tasks, Editing, Edition, Fresh, jol,
          QuestionUsable
<1>25. ASSUME NEW t \in Teacher, CleanRead(t) PROVE QuestionUsable'
      BY <1>25 DEF CleanRead, Goto, TakeProblem, Tasks, course, jol, QuestionUsable
<1>26. ASSUME NEW t \in Teacher, CleanKeep(t) PROVE QuestionUsable'
      BY <1>26
      DEF CleanKeep, AfterClean, Goto, ReleaseClass, Tasks, course, jol,
          QuestionUsable
<1>27. ASSUME NEW t \in Teacher, RemoveTests(t) PROVE QuestionUsable'
      BY <1>27 DEF RemoveTests, Goto, Tasks, course, Referenced, Unused, QuestionUsable
<1>28. ASSUME NEW t \in Teacher, RemoveRow(t) PROVE QuestionUsable'
      BY <1>28
      DEF RemoveRow, ReleaseProblem, AfterClean, Goto, ReleaseClass, Tasks, course,
          Referenced, Unused, QuestionUsable
<1>29. ASSUME NEW t \in Teacher, Requeue(t) PROVE QuestionUsable'
      BY <1>29 DEF Requeue, Goto, ReleaseClass, Tasks, course, QuestionUsable
<1>30. ASSUME ArchiveCourse PROVE QuestionUsable'
      BY <1>30 DEF ArchiveCourse, Tasks, jol, QuestionUsable
<1>31. ASSUME NEW x \in Process, Abort(x) PROVE QuestionUsable'
      BY <1>31
      DEF Abort, Advance, Goto, ReleaseProblem, ReleaseClass, Tasks, course, jol,
          QuestionUsable
<1>32. ASSUME UNCHANGED vars PROVE QuestionUsable'
      BY <1>32 DEF vars, course, jol, QuestionUsable
<1> QED
      BY <1>1, <1>2, <1>3, <1>4, <1>5, <1>6, <1>7, <1>8, <1>9, <1>10, <1>11, <1>12,
         <1>13, <1>14, <1>15, <1>16, <1>17, <1>18, <1>19, <1>20, <1>21, <1>22, <1>23,
         <1>24, <1>25, <1>26, <1>27, <1>28, <1>29, <1>30, <1>31, <1>32
      DEF Next, Submit, Judge, Change

\* A problem that is removed has no solution.
LEMMA SolutionHasProblemStep == IInv /\ [Next]_vars => SolutionHasProblem'
<1> SUFFICES ASSUME IInv, [Next]_vars PROVE SolutionHasProblem'
      OBVIOUS
<1> USE DEF IInv
<1>1. ASSUME NEW s \in Solution, StartHomework(s) PROVE SolutionHasProblem'
      BY <1>1 DEF StartHomework, Advance, SolutionHasProblem, Stages
<1>2. ASSUME NEW s \in Solution, StartPractice(s) PROVE SolutionHasProblem'
      BY <1>2 DEF StartPractice, Advance, SolutionHasProblem
<1>3. ASSUME NEW s \in Solution, EnterClass(s) PROVE SolutionHasProblem'
      BY <1>3 DEF EnterClass, Advance, TakeClass, SolutionHasProblem, jol
<1>4. ASSUME NEW s \in Solution, Admit(s) PROVE SolutionHasProblem'
      BY <1>4
      DEF Admit, Advance, ReleaseClass, LoadProblem, Accepting, SolutionHasProblem,
          jol
<1>5. ASSUME NEW s \in Solution, EnterProblem(s) PROVE SolutionHasProblem'
      BY <1>5 DEF EnterProblem, Advance, TakeProblem, SolutionHasProblem, jol
<1>6. ASSUME NEW s \in Solution, Validate(s) PROVE SolutionHasProblem'
      BY <1>6
      DEF Validate, Advance, ReleaseProblem, ReleaseClass, SolutionHasProblem, jol
<1>7. ASSUME NEW s \in Solution, Insert(s) PROVE SolutionHasProblem'
      BY <1>7 DEF Insert, Advance, SolutionHasProblem, Stages
<1>8. ASSUME NEW s \in Solution, Link(s) PROVE SolutionHasProblem'
      BY <1>8 DEF Link, Advance, SolutionHasProblem, jol
<1>9. ASSUME NEW s \in Solution, SaveSource(s) PROVE SolutionHasProblem'
      BY <1>9 DEF SaveSource, Advance, SolutionHasProblem
<1>10. ASSUME NEW s \in Solution, Queue(s) PROVE SolutionHasProblem'
      BY <1>10 DEF Queue, Advance, ReleaseProblem, ReleaseClass, SolutionHasProblem
<1>11. ASSUME NEW s \in Solution, Pick(s) PROVE SolutionHasProblem'
      BY <1>11 DEF Pick, SolutionHasProblem
<1>12. ASSUME NEW s \in Solution, Finish(s) PROVE SolutionHasProblem'
      BY <1>12 DEF Finish, SolutionHasProblem
<1>13. ASSUME NEW t \in Teacher, LoadDocument(t) PROVE SolutionHasProblem'
      BY <1>13 DEF LoadDocument, Goto, OpenToTeachers, SolutionHasProblem, jol
<1>14. ASSUME NEW t \in Teacher, Begin(t) PROVE SolutionHasProblem'
      BY <1>14 DEF Begin, Goto, OpenToTeachers, SolutionHasProblem, jol
<1>15. ASSUME NEW t \in Teacher, EnterClassroom(t) PROVE SolutionHasProblem'
      BY <1>15 DEF EnterClassroom, Goto, TakeClass, SolutionHasProblem, jol
<1>16. ASSUME NEW t \in Teacher, Check(t) PROVE SolutionHasProblem'
      BY <1>16
      DEF Check, Goto, ReleaseClass, OpenToTeachers, Busy, UpToDate,
          SolutionHasProblem, jol
<1>17. ASSUME NEW t \in Teacher, Close(t) PROVE SolutionHasProblem'
      BY <1>17 DEF Close, Goto, SolutionHasProblem, jol
<1>18. ASSUME NEW t \in Teacher, SyncProblem(t) PROVE SolutionHasProblem'
      BY <1>18 DEF SyncProblem, Goto, SolutionHasProblem
<1>19. ASSUME NEW t \in Teacher, WriteTests(t) PROVE SolutionHasProblem'
      BY <1>19 DEF WriteTests, Goto, SolutionHasProblem
<1>20. ASSUME NEW t \in Teacher, NEW s \in Homework, Repoint(t, s)
      PROVE  SolutionHasProblem'
      BY <1>20 DEF Repoint, SolutionHasProblem, Fresh
<1>21. ASSUME NEW t \in Teacher, OpenProblem(t) PROVE SolutionHasProblem'
      BY <1>21 DEF OpenProblem, Goto, SolutionHasProblem
<1>22. ASSUME NEW t \in Teacher, DeleteSources(t) PROVE SolutionHasProblem'
      BY <1>22 DEF DeleteSources, Goto, SolutionHasProblem
<1>23. ASSUME NEW t \in Teacher, DeleteSolutions(t) PROVE SolutionHasProblem'
      BY <1>23 DEF DeleteSolutions, Goto, SolutionHasProblem
<1>24. ASSUME NEW t \in Teacher, Commit(t) PROVE SolutionHasProblem'
      BY <1>24 DEF Commit, Goto, ReleaseClass, SolutionHasProblem, jol
<1>25. ASSUME NEW t \in Teacher, CleanRead(t) PROVE SolutionHasProblem'
      BY <1>25 DEF CleanRead, Goto, TakeProblem, SolutionHasProblem, jol
<1>26. ASSUME NEW t \in Teacher, CleanKeep(t) PROVE SolutionHasProblem'
      BY <1>26 DEF CleanKeep, AfterClean, Goto, ReleaseClass, SolutionHasProblem, jol
<1>27. ASSUME NEW t \in Teacher, RemoveTests(t) PROVE SolutionHasProblem'
      BY <1>27 DEF RemoveTests, Goto, SolutionHasProblem
<1>28. ASSUME NEW t \in Teacher, RemoveRow(t) PROVE SolutionHasProblem'
      BY <1>28
      DEF RemoveRow, ReleaseProblem, AfterClean, Goto, ReleaseClass,
          SolutionHasProblem, Referenced, Unused
<1>29. ASSUME NEW t \in Teacher, Requeue(t) PROVE SolutionHasProblem'
      BY <1>29 DEF Requeue, Goto, ReleaseClass, SolutionHasProblem
<1>30. ASSUME ArchiveCourse PROVE SolutionHasProblem'
      BY <1>30 DEF ArchiveCourse, SolutionHasProblem, jol
<1>31. ASSUME NEW x \in Process, Abort(x) PROVE SolutionHasProblem'
      BY <1>31
      DEF Abort, Advance, Goto, ReleaseProblem, ReleaseClass, SolutionHasProblem, jol
<1>32. ASSUME UNCHANGED vars PROVE SolutionHasProblem'
      BY <1>32 DEF vars, SolutionHasProblem, jol
<1> QED
      BY <1>1, <1>2, <1>3, <1>4, <1>5, <1>6, <1>7, <1>8, <1>9, <1>10, <1>11, <1>12,
         <1>13, <1>14, <1>15, <1>16, <1>17, <1>18, <1>19, <1>20, <1>21, <1>22, <1>23,
         <1>24, <1>25, <1>26, <1>27, <1>28, <1>29, <1>30, <1>31, <1>32
      DEF Next, Submit, Judge, Change

\* Nothing is left half done.
LEMMA FedStep == MaxAborts = 0 /\ IInv /\ Fed /\ [Next]_vars => Fed'
<1> SUFFICES ASSUME MaxAborts = 0, IInv, Fed, [Next]_vars PROVE Fed'
      OBVIOUS
<1> USE DEF IInv
<1>1. ASSUME NEW s \in Solution, StartHomework(s) PROVE Fed'
      BY <1>1 DEF StartHomework, Advance, Fed, Tasks, teacher, QuestionUsable
<1>2. ASSUME NEW s \in Solution, StartPractice(s) PROVE Fed'
      BY <1>2 DEF StartPractice, Advance, Fed, Tasks, Stages, teacher
<1>3. ASSUME NEW s \in Solution, EnterClass(s) PROVE Fed'
      BY <1>3 DEF EnterClass, Advance, TakeClass, Fed, Tasks, jol, teacher
<1>4. ASSUME NEW s \in Solution, Admit(s) PROVE Fed'
      BY <1>4
      DEF Admit, Advance, ReleaseClass, LoadProblem, Accepting, Fed, Tasks, TypeOK,
          jol, teacher
<1>5. ASSUME NEW s \in Solution, EnterProblem(s) PROVE Fed'
      BY <1>5 DEF EnterProblem, Advance, TakeProblem, Fed, Tasks, jol, teacher
<1>6. ASSUME NEW s \in Solution, Validate(s) PROVE Fed'
      BY <1>6, ProcessAssumption
      DEF Validate, Advance, ReleaseProblem, ReleaseClass, Fed, Tasks, TypeOK, Locked,
          jol, teacher
<1>7. ASSUME NEW s \in Solution, Insert(s) PROVE Fed'
      BY <1>7 DEF Insert, Advance, Fed, Tasks, teacher
<1>8. ASSUME NEW s \in Solution, Link(s) PROVE Fed'
      BY <1>8 DEF Link, Advance, Fed, Tasks, jol, teacher
<1>9. ASSUME NEW s \in Solution, SaveSource(s) PROVE Fed'
      BY <1>9 DEF SaveSource, Advance, Fed, Tasks, teacher
<1>10. ASSUME NEW s \in Solution, Queue(s) PROVE Fed'
      BY <1>10
      DEF Queue, Advance, ReleaseProblem, ReleaseClass, Fed, Tasks, Stages, teacher
<1>11. ASSUME NEW s \in Solution, Pick(s) PROVE Fed'
      BY <1>11 DEF Pick, Fed, Tasks, teacher
<1>12. ASSUME NEW s \in Solution, Finish(s) PROVE Fed'
      BY <1>12 DEF Finish, Fed, Tasks, Stages, teacher
<1>13. ASSUME NEW t \in Teacher, LoadDocument(t) PROVE Fed'
      BY <1>13
      DEF LoadDocument, Goto, OpenToTeachers, Fed, Tasks, Cleaning, Editing, jol
<1>14. ASSUME NEW t \in Teacher, Begin(t) PROVE Fed'
      BY <1>14 DEF Begin, Goto, OpenToTeachers, Fed, Tasks, Cleaning, Editing, jol
<1>15. ASSUME NEW t \in Teacher, EnterClassroom(t) PROVE Fed'
      BY <1>15 DEF EnterClassroom, Goto, TakeClass, Fed, Tasks, Cleaning, Editing, jol
<1>16. ASSUME NEW t \in Teacher, Check(t) PROVE Fed'
      BY <1>16
      DEF Check, Goto, ReleaseClass, OpenToTeachers, Busy, UpToDate, Fed, Tasks,
          TypeOK, Cleaning, Solution, Editing, Locked, jol
<1>17. ASSUME NEW t \in Teacher, Close(t) PROVE Fed'
      BY <1>17 DEF Close, Goto, Fed, Tasks, Editing, jol
<1>18. ASSUME NEW t \in Teacher, SyncProblem(t) PROVE Fed'
      BY <1>18 DEF SyncProblem, Goto, Fed, Tasks, Editing
<1>19. ASSUME NEW t \in Teacher, WriteTests(t) PROVE Fed'
      BY <1>19 DEF WriteTests, Goto, Fed, Tasks, Editing
<1>20. ASSUME NEW t \in Teacher, NEW s \in Homework, Repoint(t, s)
      PROVE  Fed'
      BY <1>20 DEF Repoint, Fed, Tasks, Editing, Edition, Fresh, teacher
<1>21. ASSUME NEW t \in Teacher, OpenProblem(t) PROVE Fed'
      BY <1>21 DEF OpenProblem, Goto, Fed, Tasks, Editing, Fresh
<1>22. ASSUME NEW t \in Teacher, DeleteSources(t) PROVE Fed'
      BY <1>22
      DEF DeleteSources, Goto, Fed, Tasks, TypeOK, Editing, Locked, Stages, Edition
<1>23. ASSUME NEW t \in Teacher, DeleteSolutions(t) PROVE Fed'
      BY <1>23 DEF DeleteSolutions, Goto, Fed, Tasks
<1>24. ASSUME NEW t \in Teacher, Commit(t) PROVE Fed'
      BY <1>24 DEF Commit, Goto, ReleaseClass, Fed, Tasks, TypeOK, Editing, jol
<1>25. ASSUME NEW t \in Teacher, CleanRead(t) PROVE Fed'
      BY <1>25 DEF CleanRead, Goto, TakeProblem, Fed, Tasks, Cleaning, jol
<1>26. ASSUME NEW t \in Teacher, CleanKeep(t) PROVE Fed'
      BY <1>26
      DEF CleanKeep, AfterClean, Goto, ReleaseClass, Fed, Tasks, TypeOK, Cleaning,
          Fresh, jol
<1>27. ASSUME NEW t \in Teacher, RemoveTests(t) PROVE Fed'
      BY <1>27, ProcessAssumption
      DEF RemoveTests, Goto, Fed, Tasks, TypeOK, Cleaning, Locked, Referenced, Unused
<1>28. ASSUME NEW t \in Teacher, RemoveRow(t) PROVE Fed'
      BY <1>28
      DEF RemoveRow, ReleaseProblem, AfterClean, Goto, ReleaseClass, Fed, Tasks,
          TypeOK, Cleaning, Referenced, Unused
<1>29. ASSUME NEW t \in Teacher, Requeue(t) PROVE Fed'
      BY <1>29
      DEF Requeue, Goto, ReleaseClass, Fed, Tasks, Cleaning, Fresh, QuestionUsable
<1>30. ASSUME ArchiveCourse PROVE Fed'
      BY <1>30 DEF ArchiveCourse, Fed, Tasks, jol, teacher
<1>31. ASSUME NEW x \in Process, Abort(x) PROVE Fed'
      BY <1>31 DEF Abort, Advance, Goto, ReleaseProblem, ReleaseClass, Fed, Tasks
<1>32. ASSUME UNCHANGED vars PROVE Fed'
      BY <1>32 DEF vars, Fed, jol, teacher
<1> QED
      BY <1>1, <1>2, <1>3, <1>4, <1>5, <1>6, <1>7, <1>8, <1>9, <1>10, <1>11, <1>12,
         <1>13, <1>14, <1>15, <1>16, <1>17, <1>18, <1>19, <1>20, <1>21, <1>22, <1>23,
         <1>24, <1>25, <1>26, <1>27, <1>28, <1>29, <1>30, <1>31, <1>32
      DEF Next, Submit, Judge, Change

LEMMA InitIInv == Init => IInv
<1> SUFFICES ASSUME Init PROVE IInv
    OBVIOUS
<1>1. Cardinality(Teacher) \in Nat /\ 1 \in Problem
      BY BoundAssumption, FS_CardinalityType DEF Problem
<1>2. TypeOK
      BY <1>1, BoundAssumption DEF Init, Step, Label, Task, TypeOK
<1>3. Counted
  <2>1. Committed = {}
        BY DEF Init, Committed, Cleaning
  <2> QED
        BY <2>1, FS_EmptySet DEF Init, Counted
<1>4. Locked /\ Tasks /\ Edition /\ Fresh /\ Unused
  <2>1. (\A t \in Teacher : pc[t] = "new") /\ (\A s \in Solution : step[s] = "new")
        BY DEF Init
  <2> QED
        BY <2>1 DEF Tasks, Cleaning, Solution, Editing, Locked, Edition, Fresh, Unused
<1>5. Stages /\ Current
      BY DEF Init, Stages, Current
<1>6. QuestionUsable /\ SolutionHasProblem
      BY <1>1 DEF Init, SolutionHasProblem, QuestionUsable
<1> QED
      BY <1>2, <1>3, <1>4, <1>5, <1>6 DEF IInv

LEMMA StepIInv == IInv /\ [Next]_vars => IInv'
BY TypeOKStep, LockedStep, TasksStep, StagesStep, EditionStep, FreshStep, UnusedStep,
   CurrentStep, QuestionUsableStep, SolutionHasProblemStep, CountedStep
DEF IInv

LEMMA Invariance == Spec => []IInv
<1>1. Init => IInv
      BY InitIInv
<1>2. IInv /\ [Next]_vars => IInv'
      BY StepIInv
<1> QED
      BY <1>1, <1>2, PTL DEF Spec

-----------------------------------------------------------------------------
(* The theorems.                                                            *)

\* Every variable has its type; there are not more editions than teachers.
THEOREM TypeCorrect == Spec => []TypeOK
<1>1. IInv => TypeOK
      BY DEF IInv
<1> QED
      BY <1>1, Invariance, PTL

\* A result is that of the question the assignment has now.
THEOREM VerdictsCurrent == Spec => []VerdictCurrent
<1>1. IInv => VerdictCurrent
      BY DEF IInv, VerdictCurrent, Current
<1> QED
      BY <1>1, Invariance, PTL

\* The question of the assignment is always open and has its tests.
THEOREM QuestionsUsable == Spec => []QuestionUsable
<1>1. IInv => QuestionUsable
      BY DEF IInv
<1> QED
      BY <1>1, Invariance, PTL

\* No problem is removed under a solution.
THEOREM SolutionsHaveProblems == Spec => []SolutionHasProblem
<1>1. IInv => SolutionHasProblem
      BY DEF IInv
<1> QED
      BY <1>1, Invariance, PTL

\* Only Commit changes the edition, for a request that is up to date.
LEMMA EditionStepIsCommit ==
    IInv /\ [Next]_vars =>
        \A t \in Teacher :
            pc[t] = "commit" /\ pc'[t] # "commit" /\ edition' # edition => based[t] = edition
<1> SUFFICES ASSUME IInv, [Next]_vars, NEW t \in Teacher, pc[t] = "commit", edition' # edition
             PROVE  based[t] = edition
    OBVIOUS
<1>1. ASSUME NEW u \in Teacher, Commit(u) PROVE based[t] = edition
  <2>1. u = t
        BY <1>1 DEF IInv, Commit, Editing, Locked
  <2>2. task[t] # "remove"
        BY <1>1, <2>1 DEF Commit
  <2> QED
        BY <2>2 DEF IInv, Editing, Edition
<1>2. ASSUME NEW u \in Teacher,
             LoadDocument(u) \/ Begin(u) \/ EnterClassroom(u) \/ Check(u) \/ Close(u)
                 \/ SyncProblem(u) \/ WriteTests(u) \/ (\E s \in Homework : Repoint(u, s))
                 \/ OpenProblem(u) \/ DeleteSources(u) \/ DeleteSolutions(u)
                 \/ CleanRead(u) \/ CleanKeep(u) \/ RemoveTests(u) \/ RemoveRow(u) \/ Requeue(u)
      PROVE  edition' = edition
      BY <1>2
      DEF LoadDocument, Begin, EnterClassroom, Check, Close, SyncProblem, WriteTests,
          Repoint, OpenProblem, DeleteSources, DeleteSolutions, CleanRead, CleanKeep,
          RemoveTests, RemoveRow, Requeue, course
<1>3. ASSUME NEW s \in Solution, StartHomework(s) \/ StartPractice(s) \/ Submit(s) \/ Judge(s)
      PROVE  edition' = edition
      BY <1>3
      DEF StartHomework, StartPractice, Submit, EnterClass, Admit, EnterProblem,
          Validate, Insert, Link, SaveSource, Queue, Judge, Pick, Finish, course
<1>4. ASSUME ArchiveCourse \/ (\E x \in Process : Abort(x)) \/ UNCHANGED vars
      PROVE  edition' = edition
      BY <1>4 DEF ArchiveCourse, Abort, vars, course
<1> QED
      BY <1>1, <1>2, <1>3, <1>4 DEF Next, Change

\* No edition overwrites one that its author has not seen.
THEOREM EditionsKept == Spec => NoLostEdition
<1>1. IInv /\ [Next]_vars =>
          [\A t \in Teacher :
              pc[t] = "commit" /\ pc'[t] # "commit" /\ edition' # edition
                  => based[t] = edition]_vars
      BY EditionStepIsCommit
<1> QED
      BY <1>1, Invariance, PTL DEF Spec, NoLostEdition

\* What the judge takes is complete, as long as no request ends half-way.
THEOREM JudgeFed ==
    ASSUME MaxAborts = 0
    PROVE  Spec => []JudgeIsFed
<1>1. Init => Fed
  <2>1. 1 \in Problem
        BY BoundAssumption, FS_CardinalityType DEF Problem
  <2> QED
        BY <2>1 DEF Init, Fed
<1>2. IInv /\ Fed /\ [Next]_vars => Fed'
      BY FedStep
<1>3. IInv /\ Fed => JudgeIsFed
  <2> SUFFICES ASSUME IInv, Fed, NEW s \in Solution, result[s] \in {"waiting", "running"}
               PROVE  s \in source /\ on[s] \in tests /\ problem[on[s]] = "open"
      BY DEF JudgeIsFed, IInv, Stages
  <2>1. ASSUME NEW t \in Teacher, pc[t] = "solutions" PROVE s \notin listed[t]
        BY <2>1 DEF IInv, Editing, Edition
  <2> QED
        BY <2>1 DEF Fed
<1> QED
      BY <1>1, <1>2, <1>3, Invariance, PTL DEF Spec

\* An edition judges again with the original code (library-workflow-20261006.md:10)
\* when no request ends half-way: the promise is broken by those that do.
THEOREM CodeKept ==
    ASSUME MaxAborts = 0
    PROVE  Spec => []RejudgedWithCode
<1>1. TypeOK /\ JudgeIsFed => RejudgedWithCode
      BY DEF TypeOK, JudgeIsFed, RejudgedWithCode, Solution
<1> QED
      BY <1>1, JudgeFed, TypeCorrect, PTL

-----------------------------------------------------------------------------
(* Who holds a lock, and what an edition has listed and made: with these the *)
(* invariant says enough for deadlock freedom and for the refinement.        *)

\* Whoever has a lock is at a statement that holds it, and has not ended.
Holding ==
    /\ classLock \in Solution =>
        classLock \in Homework /\ step[classLock] \notin {"new", "class", "done"}
    /\ classLock \in Teacher => pc[classLock] \in {"check"} \cup Editing \cup Cleaning
    /\ \A p \in Problem :
        /\ problemLock[p] \in Solution =>
            step[problemLock[p]] \in {"valid", "insert", "link", "source", "queue"}
        /\ problemLock[p] \in Teacher => pc[problemLock[p]] \in {"files", "row"}

\* A submission is linked at one statement, and only to an assignment.
Settled ==
    /\ \A s \in linked : step[s] \in {"source", "queue", "done"}
    /\ status = "removed" => linked = {}

\* What a request that takes submissions away has listed and deleted.
Emptied ==
    \A t \in Teacher :
        /\ pc[t] \in Editing /\ task[t] = "remove" => listed[t] = linked
        /\ pc[t] = "commit" /\ task[t] \in {"replace", "remove"} =>
            \A s \in linked : result[s] = "none"

\* Every problem but the first was made by a request that is past that statement.
Makers == {t \in Teacher : pc[t] \notin {"new", "loaded", "class", "check", "close", "sync"}}
Made == {p \in Problem : problem[p] # "none"}
Numbered ==
    /\ Cardinality(Made) <= Cardinality(Makers) + 1
    /\ \A t \in Teacher : pc[t] \in Cleaning => old[t] \in Made

FullInv == IInv /\ Holding /\ Settled /\ Emptied /\ Numbered

-----------------------------------------------------------------------------
\* A submission stays linked to the assignment until both are removed.
LEMMA SettledStep == FullInv /\ [Next]_vars => Settled'
<1> SUFFICES ASSUME FullInv, [Next]_vars PROVE Settled'
      OBVIOUS
<1> USE DEF FullInv, IInv
<1>1. ASSUME NEW s \in Solution, Link(s) PROVE Settled'
      BY <1>1 DEF Link, Advance, Settled, TypeOK, Locked, Stages, Solution
<1>2. ASSUME NEW s \in Solution,
             StartHomework(s) \/ StartPractice(s) \/ EnterClass(s) \/ Admit(s)
                 \/ EnterProblem(s) \/ Validate(s) \/ Insert(s) \/ SaveSource(s) \/ Queue(s)
      PROVE  Settled'
      BY <1>2 DEF StartHomework, StartPractice, EnterClass, Admit, EnterProblem, Validate,
          Insert, SaveSource, Queue, Advance, Settled, TypeOK, Solution, course
<1>3. ASSUME NEW s \in Solution, Judge(s) PROVE Settled'
      BY <1>3 DEF Judge, Pick, Finish, Settled, course
<1>4. ASSUME NEW t \in Teacher, Commit(t) PROVE Settled'
      BY <1>4 DEF Commit, Settled, Edition, Editing, TypeOK
<1>5. ASSUME NEW t \in Teacher, Close(t) PROVE Settled'
      BY <1>5 DEF Close, Settled, Edition, Editing
<1>6. ASSUME NEW t \in Teacher,
             LoadDocument(t) \/ Begin(t) \/ EnterClassroom(t) \/ Check(t) \/ SyncProblem(t)
                 \/ WriteTests(t) \/ (\E s \in Homework : Repoint(t, s)) \/ OpenProblem(t)
                 \/ DeleteSources(t) \/ DeleteSolutions(t) \/ CleanRead(t) \/ CleanKeep(t)
                 \/ RemoveTests(t) \/ RemoveRow(t) \/ Requeue(t)
      PROVE  Settled'
      BY <1>6 DEF LoadDocument, Begin, EnterClassroom, Check, SyncProblem, WriteTests,
          Repoint, OpenProblem, DeleteSources, DeleteSolutions, CleanRead, CleanKeep,
          RemoveTests, RemoveRow, Requeue, Settled, course
<1>7. ASSUME ArchiveCourse PROVE Settled'
      BY <1>7 DEF ArchiveCourse, Settled, TypeOK
<1>8. ASSUME NEW x \in Process, Abort(x) PROVE Settled'
      BY <1>8 DEF Abort, Advance, Settled, TypeOK, Solution, course
<1>9. ASSUME UNCHANGED vars PROVE Settled'
      BY <1>9 DEF vars, Settled, course
<1> QED
      BY <1>1, <1>2, <1>3, <1>4, <1>5, <1>6, <1>7, <1>8, <1>9 DEF Next, Submit, Change

\* What a request lists and deletes stays so while it has the lock of the class.
LEMMA EmptiedStep == FullInv /\ [Next]_vars => Emptied'
<1> SUFFICES ASSUME FullInv, [Next]_vars PROVE Emptied'
      OBVIOUS
<1> USE DEF FullInv, IInv
<1>1. ASSUME NEW s \in Solution, Link(s) PROVE Emptied'
      BY <1>1, ProcessAssumption
      DEF Link, Locked, Emptied, Editing, TypeOK, Solution, jol, teacher
<1>2. ASSUME NEW s \in Solution, Insert(s) PROVE Emptied'
      BY <1>2 DEF Insert, Settled, Emptied, TypeOK, course, teacher
<1>3. ASSUME NEW s \in Solution, Queue(s) \/ Judge(s) PROVE Emptied'
      BY <1>3 DEF Queue, Judge, Pick, Finish, Emptied, TypeOK, Stages, Solution, course, teacher
<1>4. ASSUME NEW s \in Solution,
             StartHomework(s) \/ StartPractice(s) \/ EnterClass(s) \/ Admit(s)
                 \/ EnterProblem(s) \/ Validate(s) \/ SaveSource(s)
      PROVE  Emptied'
      BY <1>4 DEF StartHomework, StartPractice, EnterClass, Admit, EnterProblem, Validate,
          SaveSource, Emptied, course, jol, teacher
<1>5. ASSUME NEW t \in Teacher, Check(t) PROVE Emptied'
      BY <1>5 DEF Check, Goto, Emptied, Editing, TypeOK, course, jol
<1>6. ASSUME NEW t \in Teacher, Close(t) PROVE Emptied'
  <2>1. UNCHANGED <<linked, result, task, listed>> /\ pc[t] = "close"
        BY <1>6 DEF Close, jol
  <2>2. PICK l \in Label :
            /\ pc' = [pc EXCEPT ![t] = l]
            /\ \/ task[t] \in {"same", "title"} /\ l = "commit"
               \/ task[t] \in {"rewrite", "replace"} /\ l = "sync"
               \/ task[t] = "remove" /\ l = "sources"
        BY <1>6, CloseFacts
  <2> QED
        BY <2>1, <2>2 DEF Emptied, Editing, TypeOK
<1>7. ASSUME NEW t \in Teacher, NEW s \in Homework, Repoint(t, s) PROVE Emptied'
      BY <1>7, ProcessAssumption
      DEF Repoint, Emptied, Locked, Tasks, Edition, Editing, TypeOK, Process, course, teacher
<1>8. ASSUME NEW t \in Teacher, OpenProblem(t) PROVE Emptied'
      BY <1>8 DEF OpenProblem, Goto, Emptied, Tasks, Editing, TypeOK, course
<1>9. ASSUME NEW t \in Teacher, DeleteSolutions(t) PROVE Emptied'
      BY <1>9 DEF DeleteSolutions, Goto, Emptied, Edition, Editing, TypeOK, Solution, course
<1>10. ASSUME NEW t \in Teacher, Commit(t) PROVE Emptied'
      BY <1>10, ProcessAssumption
      DEF Commit, Goto, Emptied, Locked, Editing, TypeOK, Process, jol
<1>11. ASSUME NEW t \in Teacher,
              LoadDocument(t) \/ Begin(t) \/ EnterClassroom(t) \/ SyncProblem(t)
                  \/ WriteTests(t) \/ DeleteSources(t)
       PROVE  Emptied'
      BY <1>11 DEF LoadDocument, Begin, EnterClassroom, SyncProblem, WriteTests,
          DeleteSources, Goto, Emptied, Editing, TypeOK, course, jol
<1>12. ASSUME NEW t \in Teacher,
              CleanRead(t) \/ CleanKeep(t) \/ RemoveTests(t) \/ RemoveRow(t)
       PROVE  Emptied'
  <2>1. /\ UNCHANGED <<linked, result, task, listed>>
        /\ \E l \in {"files", "row", "requeue", "done"} : pc' = [pc EXCEPT ![t] = l]
        BY <1>12 DEF CleanRead, CleanKeep, RemoveTests, RemoveRow, AfterClean, Goto, course, jol
  <2> QED
        BY <2>1 DEF Emptied, Editing, TypeOK
<1>13. ASSUME NEW t \in Teacher, Requeue(t) PROVE Emptied'
      BY <1>13 DEF Requeue, Goto, Emptied, Editing, TypeOK, Solution, course
<1>14. ASSUME ArchiveCourse PROVE Emptied'
      BY <1>14 DEF ArchiveCourse, Emptied, jol, teacher
<1>15. ASSUME NEW x \in Process, Abort(x) PROVE Emptied'
      BY <1>15 DEF Abort, Goto, Emptied, Editing, TypeOK, course, jol, teacher
<1>16. ASSUME UNCHANGED vars PROVE Emptied'
      BY <1>16 DEF vars, Emptied, course, jol, teacher
<1> QED
      BY <1>1, <1>2, <1>3, <1>4, <1>5, <1>6, <1>7, <1>8, <1>9, <1>10, <1>11, <1>12,
          <1>13, <1>14, <1>15, <1>16 DEF Next, Submit, Change

\* A problem that was made stays made, and what a request replaces was.
LEMMA OldMadeStep == FullInv /\ [Next]_vars =>
    Made \subseteq Made' /\ \A t \in Teacher : pc'[t] \in Cleaning => old'[t] \in Made'
<1> SUFFICES ASSUME FullInv, [Next]_vars
             PROVE  /\ Made \subseteq Made'
                    /\ \A t \in Teacher : pc'[t] \in Cleaning => old'[t] \in Made'
      OBVIOUS
<1> DEFINE Goal == /\ Made \subseteq Made'
                   /\ \A t \in Teacher : pc'[t] \in Cleaning => old'[t] \in Made'
<1> USE DEF FullInv, IInv
<1>1. ASSUME NEW s \in Solution, StartHomework(s) \/ StartPractice(s) \/ Submit(s) \/ Judge(s)
      PROVE  Goal
      BY <1>1 DEF StartHomework, StartPractice, Submit, EnterClass, Admit, EnterProblem,
          Validate, Insert, Link, SaveSource, Queue, Judge, Pick, Finish, Made, Numbered,
          jol, teacher
<1>2. ASSUME NEW t \in Teacher, Commit(t) PROVE Goal
      BY <1>2 DEF Commit, Goto, Edition, QuestionUsable, Editing, Cleaning, Made, Numbered,
          TypeOK, jol
<1>3. ASSUME NEW t \in Teacher,
             LoadDocument(t) \/ Begin(t) \/ EnterClassroom(t) \/ Check(t) \/ Requeue(t)
      PROVE  Goal
      BY <1>3 DEF LoadDocument, Begin, EnterClassroom, Check, Requeue, Goto, Cleaning, Made,
          Numbered, TypeOK, jol
<1>4. ASSUME NEW t \in Teacher, Close(t) PROVE Goal
  <2>1. PICK l \in Label :
            /\ pc' = [pc EXCEPT ![t] = l]
            /\ \/ task[t] \in {"same", "title"} /\ l = "commit"
               \/ task[t] \in {"rewrite", "replace"} /\ l = "sync"
               \/ task[t] = "remove" /\ l = "sources"
        BY <1>4, CloseFacts
  <2> QED
        BY <1>4, <2>1 DEF Close, Cleaning, Made, Numbered, TypeOK, jol
<1>5. ASSUME NEW t \in Teacher, WriteTests(t) \/ DeleteSources(t) \/ DeleteSolutions(t)
      PROVE  Goal
      BY <1>5 DEF WriteTests, DeleteSources, DeleteSolutions, Goto, Cleaning, Made,
          Numbered, TypeOK
<1>6. ASSUME NEW t \in Teacher, SyncProblem(t) \/ OpenProblem(t) PROVE Goal
      BY <1>6 DEF SyncProblem, OpenProblem, Goto, Cleaning, Made, Numbered, TypeOK
<1>7. ASSUME NEW t \in Teacher, NEW s \in Homework, Repoint(t, s) PROVE Goal
      BY <1>7 DEF Repoint, Made, Numbered, teacher
<1>8. ASSUME NEW t \in Teacher,
             CleanRead(t) \/ CleanKeep(t) \/ RemoveTests(t) \/ RemoveRow(t)
      PROVE  Goal
  <2>1. /\ old' = old /\ pc[t] \in Cleaning
        /\ \/ problem' = problem
           \/ problem' = [problem EXCEPT ![old[t]] = "removed"]
        /\ \E l \in {"files", "row", "requeue", "done"} : pc' = [pc EXCEPT ![t] = l]
        BY <1>8 DEF CleanRead, CleanKeep, RemoveTests, RemoveRow, AfterClean, Goto, Cleaning, jol
  <2> QED
        BY <2>1 DEF Cleaning, Made, Numbered, TypeOK
<1>9. ASSUME NEW x \in Process, Abort(x) PROVE Goal
      BY <1>9 DEF Abort, Goto, Cleaning, Made, Numbered, TypeOK, jol, teacher
<1>10. ASSUME ArchiveCourse \/ UNCHANGED vars PROVE Goal
      BY <1>10 DEF ArchiveCourse, vars, Made, Numbered, jol, teacher
<1> QED
      BY <1>1, <1>2, <1>3, <1>4, <1>5, <1>6, <1>7, <1>8, <1>9, <1>10 DEF Next, Change

\* A request makes one problem.
LEMMA MadeByMakers == FullInv /\ [Next]_vars =>
    \/ Made' \subseteq Made /\ Makers \subseteq Makers'
    \/ \E p \in Problem, t \in Teacher :
        /\ Made' = Made \cup {p}
        /\ t \notin Makers /\ Makers \cup {t} \subseteq Makers'
<1> SUFFICES ASSUME FullInv, [Next]_vars
             PROVE  \/ Made' \subseteq Made /\ Makers \subseteq Makers'
                    \/ \E p \in Problem, t \in Teacher :
                        /\ Made' = Made \cup {p}
                        /\ t \notin Makers /\ Makers \cup {t} \subseteq Makers'
      OBVIOUS
<1> DEFINE Goal == Made' \subseteq Made /\ Makers \subseteq Makers'
<1> USE DEF FullInv, IInv
<1>1. ASSUME NEW s \in Solution, StartHomework(s) \/ StartPractice(s) \/ Submit(s) \/ Judge(s)
      PROVE  Goal
      BY <1>1 DEF StartHomework, StartPractice, Submit, EnterClass, Admit, EnterProblem,
          Validate, Insert, Link, SaveSource, Queue, Judge, Pick, Finish, Made, Makers,
          jol, teacher
<1>2. ASSUME NEW t \in Teacher, SyncProblem(t)
      PROVE  \E p \in Problem :
                /\ Made' = Made \cup {p}
                /\ t \notin Makers /\ Makers \cup {t} \subseteq Makers'
      BY <1>2 DEF SyncProblem, Goto, Made, Makers, TypeOK
<1>3. ASSUME NEW t \in Teacher, Close(t) PROVE Goal
  <2>1. problem' = problem /\ t \notin Makers /\ \A u \in Teacher \ {t} : pc'[u] = pc[u]
        BY <1>3, CloseFacts DEF Close, Makers, TypeOK, jol
  <2> QED
        BY <2>1 DEF Made, Makers
<1>4. ASSUME NEW t \in Teacher,
             LoadDocument(t) \/ Begin(t) \/ EnterClassroom(t) \/ Check(t) \/ WriteTests(t)
                 \/ DeleteSources(t) \/ DeleteSolutions(t) \/ Commit(t) \/ Requeue(t)
      PROVE  Goal
      BY <1>4 DEF LoadDocument, Begin, EnterClassroom, Check, WriteTests, DeleteSources,
          DeleteSolutions, Commit, Requeue, Goto, Made, Makers, TypeOK, jol
<1>5. ASSUME NEW t \in Teacher, OpenProblem(t) PROVE Goal
      BY <1>5 DEF OpenProblem, Goto, Fresh, Made, Makers, TypeOK
<1>6. ASSUME NEW t \in Teacher, NEW s \in Homework, Repoint(t, s) PROVE Goal
      BY <1>6 DEF Repoint, Made, Makers, teacher
<1>7. ASSUME NEW t \in Teacher,
             CleanRead(t) \/ CleanKeep(t) \/ RemoveTests(t) \/ RemoveRow(t)
      PROVE  Goal
  <2>1. /\ pc[t] \in Cleaning
        /\ \/ problem' = problem
           \/ problem' = [problem EXCEPT ![old[t]] = "removed"]
        /\ \E l \in {"files", "row", "requeue", "done"} : pc' = [pc EXCEPT ![t] = l]
        BY <1>7 DEF CleanRead, CleanKeep, RemoveTests, RemoveRow, AfterClean, Goto, Cleaning, jol
  <2> QED
        BY <2>1 DEF Made, Makers, Numbered, TypeOK
<1>8. ASSUME NEW x \in Process, Abort(x) PROVE Goal
      BY <1>8 DEF Abort, Goto, Made, Makers, TypeOK, jol, teacher
<1>9. ASSUME ArchiveCourse \/ UNCHANGED vars PROVE Goal
      BY <1>9 DEF ArchiveCourse, vars, Made, Makers, jol, teacher
<1> QED
      BY <1>1, <1>2, <1>3, <1>4, <1>5, <1>6, <1>7, <1>8, <1>9 DEF Next, Change

\* There are not more problems than requests that may have made one.
LEMMA NumberedStep == FullInv /\ [Next]_vars => Numbered'
<1> SUFFICES ASSUME FullInv, [Next]_vars PROVE Numbered'
      OBVIOUS
<1> USE DEF FullInv
<1>1. /\ IsFiniteSet(Problem) /\ IsFiniteSet(Made) /\ IsFiniteSet(Made')
      /\ IsFiniteSet(Makers) /\ IsFiniteSet(Makers')
  <2>1. IsFiniteSet(Problem)
        BY BoundAssumption, FS_CardinalityType, FS_Interval DEF Problem
  <2>2. Made \subseteq Problem /\ Made' \subseteq Problem
        BY DEF Made
  <2>3. Makers \subseteq Teacher /\ Makers' \subseteq Teacher
        BY DEF Makers
  <2> QED
        BY <2>1, <2>2, <2>3, BoundAssumption, FS_Subset
<1>2. /\ Cardinality(Made) \in Nat /\ Cardinality(Made') \in Nat
      /\ Cardinality(Makers) \in Nat /\ Cardinality(Makers') \in Nat
      BY <1>1, FS_CardinalityType
<1>3. CASE Made' \subseteq Made /\ Makers \subseteq Makers'
  <2>1. Cardinality(Made') <= Cardinality(Made) /\ Cardinality(Makers) <= Cardinality(Makers')
        BY <1>1, <1>3, FS_Subset
  <2> QED
        BY <1>2, <2>1, OldMadeStep DEF Numbered
<1>4. ASSUME NEW p \in Problem, NEW t \in Teacher, Made' = Made \cup {p},
             t \notin Makers, Makers \cup {t} \subseteq Makers'
      PROVE  Numbered'
  <2>1. Cardinality(Made') <= Cardinality(Made) + 1
        BY <1>1, <1>2, <1>4, FS_AddElement
  <2>2. Cardinality(Makers) + 1 <= Cardinality(Makers')
    <3>1. /\ IsFiniteSet(Makers \cup {t})
          /\ Cardinality(Makers \cup {t}) = Cardinality(Makers) + 1
          BY <1>1, <1>4, FS_AddElement
    <3> QED
          BY <1>1, <1>4, <3>1, FS_Subset
  <2> QED
        BY <1>2, <2>1, <2>2, OldMadeStep DEF Numbered
<1> QED
      BY <1>3, <1>4, MadeByMakers

\* A lock is given back in the step in which its owner leaves.
LEMMA HoldingStep == FullInv /\ [Next]_vars => Holding'
<1> SUFFICES ASSUME FullInv, [Next]_vars PROVE Holding'
      OBVIOUS
<1> USE ProcessAssumption DEF FullInv, IInv
<1>1. ASSUME NEW s \in Solution, EnterClass(s) \/ EnterProblem(s) PROVE Holding'
      BY <1>1 DEF EnterClass, EnterProblem, TakeClass, TakeProblem, Advance, Holding, Locked,
          Process, Solution, TypeOK, teacher
<1>2. ASSUME NEW s \in Solution, Admit(s) \/ Validate(s) \/ Queue(s) PROVE Holding'
      BY <1>2 DEF Admit, Validate, Queue, ReleaseProblem, ReleaseClass, Advance, Holding,
          Process, Solution, TypeOK, locks, teacher
<1>3. ASSUME NEW s \in Solution,
             StartHomework(s) \/ StartPractice(s) \/ Insert(s) \/ Link(s) \/ SaveSource(s)
      PROVE  Holding'
      BY <1>3 DEF StartHomework, StartPractice, Insert, Link, SaveSource, Advance, Holding,
          Process, Solution, TypeOK, locks, teacher
<1>4. ASSUME NEW s \in Solution, Judge(s) PROVE Holding'
      BY <1>4 DEF Judge, Pick, Finish, Holding, locks, teacher
<1>5. ASSUME NEW t \in Teacher, LoadDocument(t) \/ Begin(t) \/ EnterClassroom(t) PROVE Holding'
      BY <1>5 DEF LoadDocument, Begin, EnterClassroom, TakeClass, Goto, Holding, Editing,
          Cleaning, Process, TypeOK, locks
<1>6. ASSUME NEW t \in Teacher, Check(t) PROVE Holding'
      BY <1>6 DEF Check, ReleaseClass, Goto, Holding, Editing, Cleaning, Process, TypeOK
<1>7. ASSUME NEW t \in Teacher, Close(t) PROVE Holding'
  <2>1. PICK l \in Editing : pc' = [pc EXCEPT ![t] = l]
        BY <1>7, CloseFacts DEF Editing
  <2>2. UNCHANGED <<step, locks>> /\ pc[t] = "close"
        BY <1>7 DEF Close
  <2> QED
        BY <2>1, <2>2 DEF Holding, Editing, TypeOK, locks
<1>8. ASSUME NEW t \in Teacher,
             SyncProblem(t) \/ WriteTests(t) \/ (\E s \in Homework : Repoint(t, s))
                 \/ OpenProblem(t) \/ DeleteSources(t) \/ DeleteSolutions(t)
      PROVE  Holding'
      BY <1>8 DEF SyncProblem, WriteTests, Repoint, OpenProblem, DeleteSources,
          DeleteSolutions, Goto, Holding, Editing, TypeOK, locks, teacher
<1>9. ASSUME NEW t \in Teacher, Commit(t) \/ Requeue(t) PROVE Holding'
      BY <1>9 DEF Commit, Requeue, ReleaseClass, Goto, Holding, Editing, Cleaning, Process,
          TypeOK
<1>10. ASSUME NEW t \in Teacher, CleanRead(t) \/ RemoveTests(t) PROVE Holding'
      BY <1>10 DEF CleanRead, RemoveTests, TakeProblem, Goto, Holding, Cleaning, Process,
          TypeOK, locks
<1>11. ASSUME NEW t \in Teacher, CleanKeep(t) \/ RemoveRow(t) PROVE Holding'
  <2>1. /\ step' = step /\ pc[t] \in Cleaning
        /\ \/ pc[t] = "clean" /\ problemLock' = problemLock
           \/ ReleaseProblem(t)
        /\ \/ pc' = [pc EXCEPT ![t] = "requeue"] /\ classLock' = classLock
           \/ pc' = [pc EXCEPT ![t] = "done"] /\ ReleaseClass(t)
        BY <1>11 DEF CleanKeep, RemoveRow, AfterClean, Goto, Cleaning
  <2> QED
        BY <2>1 DEF ReleaseProblem, ReleaseClass, Holding, Cleaning, Process, TypeOK
<1>12. ASSUME NEW x \in Process, Abort(x) PROVE Holding'
      BY <1>12 DEF Abort, Advance, Goto, ReleaseProblem, ReleaseClass, Holding, Process,
          TypeOK, teacher
<1>13. ASSUME ArchiveCourse \/ UNCHANGED vars PROVE Holding'
      BY <1>13 DEF ArchiveCourse, vars, Holding, locks, teacher
<1> QED
      BY <1>1, <1>2, <1>3, <1>4, <1>5, <1>6, <1>7, <1>8, <1>9, <1>10, <1>11, <1>12, <1>13
      DEF Next, Submit, Change

\* The inductive invariant with what locks, submissions and problems add to it.
LEMMA FullInvariance == Spec => []FullInv
<1>1. Init => Holding /\ Settled /\ Emptied
      BY ProcessAssumption DEF Init, Holding, Settled, Emptied, Editing, Process
<1>2. Init => Numbered
  <2> SUFFICES ASSUME Init PROVE Numbered
        OBVIOUS
  <2>1. Cardinality(Teacher) \in Nat
        BY BoundAssumption, FS_CardinalityType
  <2>2. Made = {1} /\ Makers = {}
        BY <2>1 DEF Init, Made, Makers, Problem
  <2>3. Cardinality(Made) = 1 /\ Cardinality(Makers) = 0
        BY <2>2, FS_Singleton, FS_EmptySet
  <2> QED
        BY <2>3 DEF Init, Numbered, Cleaning
<1>3. FullInv /\ IInv' /\ [Next]_vars => FullInv'
      BY HoldingStep, SettledStep, EmptiedStep, NumberedStep DEF FullInv
<1> QED
      BY <1>1, <1>2, <1>3, Invariance, PTL DEF Spec, FullInv

\* There is always an id for the problem of a request that needs one.
LEMMA FreshId ==
    ASSUME FullInv, NEW t \in Teacher, pc[t] = "sync"
    PROVE  \E p \in Problem : problem[p] = "none"
<1> SUFFICES ASSUME Made = Problem PROVE FALSE
      BY DEF Made
<1>1. /\ IsFiniteSet(Teacher \ {t}) /\ Cardinality(Teacher) \in Nat
      /\ Cardinality(Teacher \ {t}) = Cardinality(Teacher) - 1
      BY BoundAssumption, FS_CardinalityType, FS_RemoveElement
<1>2. Cardinality(Made) = Cardinality(Teacher) + 1
      BY <1>1, FS_Interval DEF Problem
<1>3. Makers \subseteq Teacher \ {t}
      BY DEF Makers
<1>4. Cardinality(Makers) <= Cardinality(Teacher) - 1 /\ Cardinality(Makers) \in Nat
      BY <1>1, <1>3, FS_Subset, FS_CardinalityType
<1> QED
      BY <1>1, <1>2, <1>4 DEF FullInv, Numbered

\* Whoever has the lock of a problem can go on.
LEMMA ProblemHolderReady ==
    ASSUME FullInv, NEW p \in Problem, problemLock[p] # Free
    PROVE  problemLock[p] \in UnderWay /\ Ready(problemLock[p])
BY ProcessAssumption DEF FullInv, IInv, TypeOK, Holding, UnderWay, Ready, Process

\* Whoever has the lock of the class can go on, or somebody with that of a problem.
LEMMA ClassHolderReady ==
    ASSUME FullInv, classLock # Free
    PROVE  \E x \in UnderWay : Ready(x)
<1> USE DEF FullInv, IInv, TypeOK
<1>1. classLock \in UnderWay
      BY ProcessAssumption DEF Holding, UnderWay, Process, Editing, Cleaning
<1>2. CASE classLock \in Solution
  <2>1. Ready(classLock) \/ problemLock[on[classLock]] # Free
        BY <1>2 DEF Holding, Ready
  <2> QED
        BY <1>1, <1>2, <2>1, ProblemHolderReady
<1>3. CASE classLock \in Teacher
  <2>1. pc[classLock] # "class"
        BY <1>3 DEF Holding, Editing, Cleaning
  <2>2. Ready(classLock) \/ problemLock[old[classLock]] # Free
        BY <1>3, <2>1, FreshId DEF Ready
  <2> QED
        BY <1>1, <1>3, <2>2, ProblemHolderReady
<1> QED
      BY <1>2, <1>3 DEF Process

\* The class's lock comes before that of a problem, and a request that ends
\* gives back both: some request can always go on.
THEOREM SomebodyGoesOn == Spec => []NoDeadlock
<1>1. FullInv => NoDeadlock
  <2> SUFFICES ASSUME FullInv, NEW x \in UnderWay PROVE \E y \in UnderWay : Ready(y)
        BY DEF NoDeadlock
  <2>1. CASE classLock # Free
        BY <2>1, ClassHolderReady
  <2>2. CASE classLock = Free /\ x \in Solution
    <3>1. Ready(x) \/ problemLock[on[x]] # Free
          BY <2>2 DEF Ready
    <3> QED
          BY <2>2, <3>1, ProblemHolderReady DEF FullInv, IInv, TypeOK
  <2>3. CASE classLock = Free /\ x \in Teacher
    <3>1. Ready(x) \/ problemLock[old[x]] # Free
          BY <2>3, FreshId DEF Ready
    <3> QED
          BY <2>3, <3>1, ProblemHolderReady DEF FullInv, IInv, TypeOK
  <2> QED
        BY <2>1, <2>2, <2>3 DEF UnderWay
<1> QED
      BY <1>1, FullInvariance, PTL

-----------------------------------------------------------------------------
(* What students and teachers see: Assignment implements Grading.           *)

\* A step of Grading, or none.
GStep == [GradingOf!Next]_(GradingOf!vars)

\* A step that shows no submission anything new.
LEMMA PlacesSame ==
    ASSUME \A s \in Homework : Place(s)' = Place(s),
           \A s \in Homework : Place(s) = "judged" => graded'[s] = graded[s]
    PROVE  UNCHANGED <<Places, JudgedBy>>
BY DEF Places, JudgedBy

\* The statements of an edition, and of other requests, leave its teacher editor.
LEMMA EditorSame ==
    ASSUME FullInv, NEW t \in Teacher, classLock' = classLock,
           \A u \in Teacher \ {t} : pc'[u] = pc[u],
           pc'[t] \in Editing <=> pc[t] \in Editing
    PROVE  Editor' = Editor
BY DEF Editor, Editing

\* Whoever is between the check and the commit is the editor.
LEMMA EditorIs ==
    ASSUME FullInv, NEW t \in Teacher, pc[t] \in Editing
    PROVE  Editor = t
BY DEF FullInv, IInv, Locked, Editor, Editing

\* A submission is handed in when it is linked, refused when its request ends
\* before that, and judged when the judge has finished.
LEMMA SubmitView ==
    ASSUME FullInv, NEW s \in Solution,
           StartHomework(s) \/ StartPractice(s) \/ Submit(s) \/ Judge(s)
    PROVE  GStep
<1> USE ProcessAssumption DEF FullInv, IInv
<1> DEFINE Rest == UNCHANGED <<status, question, edition, based>>
<1>1. ASSUME NEW l \in Step, step' = [step EXCEPT ![s] = l],
             UNCHANGED <<linked, result, graded>>,
             s \in Homework => (l \in {"source", "queue", "done"} <=>
                                    step[s] \in {"source", "queue", "done"})
      PROVE  UNCHANGED <<Places, JudgedBy>>
  <2>1. \A x \in Homework : Place(x)' = Place(x)
        BY <1>1 DEF Place, TypeOK
  <2> QED
        BY <1>1, <2>1, PlacesSame
<1>2. ASSUME UNCHANGED pc, UNCHANGED classLock \/ (classLock \notin Teacher /\ classLock' \notin Teacher)
      PROVE  Editor' = Editor
      BY <1>2 DEF Editor
<1>3. CASE StartHomework(s) \/ StartPractice(s)
  <2>1. UNCHANGED <<Places, JudgedBy>>
        BY <1>1, <1>3 DEF StartHomework, StartPractice, Advance, Step, course, judge
  <2>2. Rest /\ UNCHANGED Editor
        BY <1>2, <1>3 DEF StartHomework, StartPractice, course, locks, teacher
  <2> QED
        BY <2>1, <2>2 DEF GStep, GradingOf!vars
<1>4. CASE EnterClass(s) \/ EnterProblem(s)
  <2>1. UNCHANGED <<Places, JudgedBy>>
        BY <1>1, <1>4 DEF EnterClass, EnterProblem, Advance, Step, course, jol, judge
  <2>2. Rest /\ UNCHANGED Editor
        BY <1>2, <1>4 DEF EnterClass, EnterProblem, TakeClass, Process, course, teacher
  <2> QED
        BY <2>1, <2>2 DEF GStep, GradingOf!vars
<1>5. CASE Insert(s) \/ SaveSource(s)
  <2>1. \A x \in Homework : Place(x)' = Place(x)
        BY <1>5 DEF Insert, SaveSource, Advance, Place, Settled, Solution, TypeOK, course
  <2>2. UNCHANGED <<Places, JudgedBy>>
        BY <1>5, <2>1, PlacesSame DEF Insert, SaveSource, judge
  <2>3. Rest /\ UNCHANGED Editor
        BY <1>2, <1>5 DEF Insert, SaveSource, course, locks, teacher
  <2> QED
        BY <2>2, <2>3 DEF GStep, GradingOf!vars
<1>6. CASE Queue(s)
  <2>1. \A x \in Homework : Place(x)' = Place(x)
        BY <1>6 DEF Queue, Advance, Place, Solution, TypeOK, course
  <2>2. UNCHANGED <<Places, JudgedBy>>
        BY <1>6, <2>1, PlacesSame DEF Queue, judge
  <2>3. Rest /\ UNCHANGED Editor
        BY <1>2, <1>6 DEF Queue, ReleaseClass, Process, course, teacher
  <2> QED
        BY <2>2, <2>3 DEF GStep, GradingOf!vars
<1>7. CASE Admit(s) \/ Validate(s)
  <2>1. /\ Rest /\ UNCHANGED <<linked, result, graded>>
        /\ step[s] \in {"check", "valid"}
        /\ \E l \in {"problem", "insert", "done"} : step' = [step EXCEPT ![s] = l]
        BY <1>7 DEF Admit, Validate, Advance, course, jol, judge, teacher
  <2>2. UNCHANGED Editor
        BY <1>2, <1>7 DEF Admit, Validate, ReleaseClass, Process, locks, teacher
  <2>3. CASE step'[s] # "done" \/ s \notin Homework
        BY <1>1, <2>1, <2>2, <2>3 DEF GStep, GradingOf!vars, Step, TypeOK
  <2>4. CASE step'[s] = "done" /\ s \in Homework
    <3>1. Place(s) = "unsent" /\ Place(s)' = "dropped"
          BY <2>1, <2>4 DEF Place, Settled, TypeOK
    <3>2. \A x \in Homework \ {s} : Place(x)' = Place(x)
          BY <2>1 DEF Place, TypeOK
    <3>3. Places[s] = "unsent" /\ Places' = [Places EXCEPT ![s] = "dropped"]
          BY <2>4, <3>1, <3>2 DEF Places
    <3>4. JudgedBy' = JudgedBy
          BY <2>1, <3>1, <3>2 DEF JudgedBy
    <3> QED
          BY <2>1, <2>2, <2>4, <3>3, <3>4 DEF GStep, GradingOf!Next, GradingOf!Refuse
  <2> QED
        BY <2>3, <2>4
<1>8. CASE Link(s)
  <2>1. /\ s \in Homework /\ s \notin linked /\ result[s] = "saving" /\ step[s] = "link"
        /\ classLock = s /\ status # "removed"
        BY <1>8 DEF Link, Locked, Stages, Settled
  <2>2. /\ Rest /\ UNCHANGED <<result, graded, pc, classLock>>
        /\ linked' = linked \cup {s} /\ step' = [step EXCEPT ![s] = "source"]
        BY <1>8 DEF Link, Advance, jol, judge, locks, teacher
  <2>3. Editor = Free /\ Editor' = Free
        BY <2>1, <2>2 DEF Editor, Solution
  <2>4. Place(s) = "unsent" /\ Place(s)' = "pending"
        BY <2>1, <2>2 DEF Place
  <2>5. \A x \in Homework \ {s} : Place(x)' = Place(x)
        BY <2>2 DEF Place, TypeOK
  <2>6. Places[s] = "unsent" /\ Places' = [Places EXCEPT ![s] = "pending"]
        BY <2>1, <2>4, <2>5 DEF Places
  <2>7. JudgedBy' = JudgedBy
        BY <2>2, <2>4, <2>5 DEF JudgedBy
  <2> QED
        BY <2>1, <2>2, <2>3, <2>6, <2>7 DEF GStep, GradingOf!Next, GradingOf!HandIn
<1>9. CASE Pick(s)
  <2>1. \A x \in Homework : Place(x)' = Place(x)
        BY <1>9 DEF Pick, Place, Solution, TypeOK, course
  <2>2. \A x \in Homework : Place(x) = "judged" => graded'[x] = graded[x]
        BY <1>9 DEF Pick, Place, Solution, TypeOK
  <2>3. Rest /\ UNCHANGED Editor
        BY <1>2, <1>9 DEF Pick, course, locks, teacher
  <2> QED
        BY <2>1, <2>2, <2>3, PlacesSame DEF GStep, GradingOf!vars
<1>10. CASE Finish(s)
  <2>1. Rest /\ UNCHANGED <<linked, step, graded, Editor>>
        BY <1>2, <1>10 DEF Finish, course, locks, teacher
  <2>2. result[s] = "running" /\ result' = [result EXCEPT ![s] = "judged"]
        BY <1>10 DEF Finish, Stages
  <2>3. CASE s \notin linked
    <3>1. \A x \in Homework : Place(x)' = Place(x)
          BY <2>1, <2>2, <2>3 DEF Place, Solution, TypeOK
    <3> QED
          BY <2>1, <3>1, PlacesSame DEF GStep, GradingOf!vars
  <2>4. CASE s \in linked
    <3>1. s \in Homework /\ status # "removed" /\ graded[s] = question
          BY <2>2, <2>4 DEF Settled, Current, TypeOK
    <3>2. Editor = Free
          BY <2>2, <2>4, EditorIs DEF Editor, Edition, Editing
    <3>3. Place(s) = "pending" /\ Place(s)' = "judged"
          BY <2>1, <2>2, <2>4 DEF Place, TypeOK
    <3>4. \A x \in Homework \ {s} : Place(x)' = Place(x)
          BY <2>1, <2>2 DEF Place, Solution, TypeOK
    <3>5. Places[s] = "pending" /\ Places' = [Places EXCEPT ![s] = "judged"]
          BY <3>1, <3>3, <3>4 DEF Places
    <3>6. JudgedBy' = [JudgedBy EXCEPT ![s] = question]
          BY <2>1, <3>1, <3>3, <3>4 DEF JudgedBy
    <3> QED
          BY <2>1, <3>1, <3>2, <3>5, <3>6 DEF GStep, GradingOf!Next, GradingOf!Judge
  <2> QED
        BY <2>3, <2>4
<1> QED
      BY <1>3, <1>4, <1>5, <1>6, <1>7, <1>8, <1>9, <1>10 DEF Submit, Judge

\* The statements of an edition that nobody sees, before and after its commit.
LEMMA EditView ==
    ASSUME FullInv, NEW t \in Teacher,
           \/ Begin(t) \/ EnterClassroom(t) \/ Close(t) \/ SyncProblem(t) \/ WriteTests(t)
           \/ OpenProblem(t) \/ DeleteSources(t) \/ CleanRead(t) \/ CleanKeep(t)
           \/ RemoveTests(t) \/ RemoveRow(t) \/ Requeue(t)
    PROVE  GStep
<1> USE DEF FullInv, IInv
<1>1. UNCHANGED <<question, edition, based, linked, graded, step>>
      BY DEF Begin, EnterClassroom, Close, SyncProblem, WriteTests, OpenProblem, DeleteSources,
         CleanRead, CleanKeep, RemoveTests, RemoveRow, Requeue, course, judge
<1>2. (status' # "removed") = (status # "removed")
      BY DEF Begin, EnterClassroom, Close, SyncProblem, WriteTests, OpenProblem, DeleteSources,
         CleanRead, CleanKeep, RemoveTests, RemoveRow, Requeue, Edition, Editing, course
<1>3. \A s \in Homework :
          result'[s] = result[s] \/ (result[s] = "saving" /\ result'[s] = "waiting")
      BY DEF Begin, EnterClassroom, Close, SyncProblem, WriteTests, OpenProblem, DeleteSources,
         CleanRead, CleanKeep, RemoveTests, RemoveRow, Requeue, Solution, TypeOK, jol
<1>4. UNCHANGED <<Places, JudgedBy>>
  <2>1. \A s \in Homework : Place(s)' = Place(s)
        BY <1>1, <1>3 DEF Place
  <2> QED
        BY <1>1, <2>1, PlacesSame
<1>5. CASE Begin(t) \/ EnterClassroom(t)
  <2>1. pc' = [pc EXCEPT ![t] = "class"] \/ pc' = [pc EXCEPT ![t] = "check"]
        BY <1>5 DEF Begin, EnterClassroom, Goto
  <2>2. pc[t] \notin Editing /\ (classLock' = classLock \/ (classLock = Free /\ classLock' = t))
        BY <1>5 DEF Begin, EnterClassroom, TakeClass, Editing, locks
  <2>3. Editor' = Editor
        BY <2>1, <2>2, ProcessAssumption DEF Editor, Editing, Process, TypeOK
  <2> QED
        BY <1>1, <1>2, <1>4, <2>3 DEF GStep, GradingOf!vars
<1>6. CASE Close(t)
  <2>1. PICK l \in Editing : pc' = [pc EXCEPT ![t] = l]
        BY <1>6, CloseFacts DEF Editing
  <2>2. Editor' = Editor
        BY <1>6, <2>1, EditorSame DEF Close, Editing, TypeOK, locks
  <2> QED
        BY <1>1, <1>2, <1>4, <2>2 DEF GStep, GradingOf!vars
<1>7. CASE SyncProblem(t) \/ WriteTests(t) \/ OpenProblem(t) \/ DeleteSources(t)
  <2>1. pc[t] \in Editing /\ \E l \in Editing : pc' = [pc EXCEPT ![t] = l]
        BY <1>7 DEF SyncProblem, WriteTests, OpenProblem, DeleteSources, Goto, Editing
  <2>2. classLock' = classLock
        BY <1>7 DEF SyncProblem, WriteTests, OpenProblem, DeleteSources, locks
  <2>3. Editor' = Editor
        BY <2>1, <2>2, EditorSame DEF TypeOK
  <2> QED
        BY <1>1, <1>2, <1>4, <2>3 DEF GStep, GradingOf!vars
<1>8. CASE CleanRead(t) \/ CleanKeep(t) \/ RemoveTests(t) \/ RemoveRow(t) \/ Requeue(t)
  <2>1. /\ pc[t] \in Cleaning
        /\ \E l \in {"files", "row", "requeue", "done"} : pc' = [pc EXCEPT ![t] = l]
        /\ classLock' \in {classLock, Free}
        BY <1>8 DEF CleanRead, CleanKeep, RemoveTests, RemoveRow, Requeue, AfterClean,
           ReleaseClass, Goto, Cleaning, locks
  <2>2. Editor = Free /\ Editor' = Free
        BY <2>1, ProcessAssumption DEF Editor, Locked, Cleaning, Process, TypeOK
  <2> QED
        BY <1>1, <1>2, <1>4, <2>2 DEF GStep, GradingOf!vars
<1> QED
      BY <1>5, <1>6, <1>7, <1>8

\* A teacher loads the last edition.
LEMMA LoadView ==
    ASSUME FullInv, NEW t \in Teacher, LoadDocument(t)
    PROVE  GStep
<1>1. UNCHANGED <<status, question, edition, linked, result, graded, step>>
      BY DEF LoadDocument, course, jol, judge
<1>2. UNCHANGED <<Places, JudgedBy>>
      BY <1>1, PlacesSame DEF Place
<1>3. Editor' = Editor
      BY EditorSame DEF LoadDocument, Goto, Editing, FullInv, IInv, TypeOK, locks
<1> QED
      BY <1>1, <1>2, <1>3
      DEF LoadDocument, OpenToTeachers, GStep, GradingOf!Next, GradingOf!Load

\* Check finds nothing pending, or leaves.
LEMMA CheckView ==
    ASSUME FullInv, NEW t \in Teacher, Check(t)
    PROVE  GStep
<1> USE DEF FullInv, IInv
<1>1. UNCHANGED <<status, question, edition, based, linked, result, graded, step>>
      BY DEF Check, course, jol, judge
<1>2. UNCHANGED <<Places, JudgedBy>>
      BY <1>1, PlacesSame DEF Place
<1>3. classLock = t /\ Editor = Free
      BY DEF Check, Locked, Editor, Editing
<1>4. CASE OpenToTeachers /\ ~Busy /\ UpToDate(t)
  <2>1. Editor' = t
        BY <1>3, <1>4 DEF Check, Goto, Editor, TypeOK
  <2>2. \A s \in Homework : Place(s) # "pending"
        BY <1>4 DEF Busy, Place, Solution, TypeOK
  <2> QED
        BY <1>1, <1>2, <1>3, <1>4, <2>1, <2>2
        DEF OpenToTeachers, Places, GStep, GradingOf!Next, GradingOf!Begin
<1>5. CASE ~(OpenToTeachers /\ ~Busy /\ UpToDate(t))
  <2>1. Editor' = Free
        BY <1>3, <1>5, ProcessAssumption DEF Check, ReleaseClass, Editor, Process
  <2> QED
        BY <1>1, <1>2, <1>3, <2>1 DEF GStep, GradingOf!vars
<1> QED
      BY <1>4, <1>5

\* A submission that moves to the new problem was judged by the old one.
LEMMA RepointView ==
    ASSUME FullInv, NEW t \in Teacher, NEW s \in Homework, Repoint(t, s)
    PROVE  GStep
<1> USE DEF FullInv, IInv
<1>1. /\ pc[t] = "repoint" /\ s \in listed[t] /\ on[s] = old[t] /\ result[s] # "none"
      /\ result' = [result EXCEPT ![s] = "saving"]
      /\ UNCHANGED <<status, question, edition, based, linked, graded, step, pc, classLock>>
      BY DEF Repoint, course, judge, locks, teacher
<1>2. old[t] # fresh[t] /\ s \in linked /\ task[t] = "rewrite"
      BY <1>1 DEF Edition, Fresh, QuestionUsable, Tasks, Editing
<1>3. result[s] = "judged" /\ based[t] = edition
      BY <1>1, <1>2 DEF Edition, Editing
<1>4. Editor = t /\ Editor' = Editor
      BY <1>1, EditorIs DEF Editor, Editing
<1>5. Place(s) = "judged" /\ Place(s)' = "pending"
      BY <1>1, <1>2, <1>3 DEF Place, Solution, TypeOK
<1>6. \A x \in Homework \ {s} : Place(x)' = Place(x)
      BY <1>1 DEF Place, Solution, TypeOK
<1>7. Places[s] = "judged" /\ Places' = [Places EXCEPT ![s] = "pending"]
      BY <1>5, <1>6 DEF Places
<1>8. JudgedBy' = [JudgedBy EXCEPT ![s] = 0]
      BY <1>1, <1>5, <1>6 DEF JudgedBy
<1> QED
      BY <1>1, <1>3, <1>4, <1>7, <1>8 DEF GStep, GradingOf!Next, GradingOf!TakeBack

\* All submissions of the assignment are dropped in one statement.
LEMMA DeleteView ==
    ASSUME FullInv, NEW t \in Teacher, DeleteSolutions(t)
    PROVE  GStep
<1> USE DEF FullInv, IInv
<1>1. /\ pc[t] = "solutions" /\ pc' = [pc EXCEPT ![t] = "commit"]
      /\ result' = [s \in Solution |-> IF s \in listed[t] THEN "none" ELSE result[s]]
      /\ UNCHANGED <<status, question, edition, based, linked, graded, step, classLock>>
      BY DEF DeleteSolutions, Goto, course, judge, locks
<1>2. Editor = t /\ Editor' = Editor
      BY <1>1, EditorIs, EditorSame DEF Editing, TypeOK
<1>3. \A s \in linked : result'[s] = "none"
      BY <1>1 DEF Edition, Emptied, Editing, Solution, TypeOK
<1>4. \A s \in Homework :
          Place(s)' = IF Place(s) \in {"pending", "judged"} THEN "dropped" ELSE Place(s)
      BY <1>1, <1>3 DEF Place, Solution, TypeOK
<1>5. Places' = [s \in Homework |->
                    IF s \in GradingOf!HandedIn THEN "dropped" ELSE Places[s]]
      BY <1>4 DEF Places, GradingOf!HandedIn
<1>6. JudgedBy' = [s \in Homework |-> 0]
      BY <1>4 DEF JudgedBy
<1> QED
      BY <1>1, <1>2, <1>5, <1>6 DEF GStep, GradingOf!Next, GradingOf!DropAll

\* The transaction changes the question when nothing is judged by the old one.
LEMMA CommitView ==
    ASSUME FullInv, NEW t \in Teacher, Commit(t)
    PROVE  GStep
<1> USE DEF FullInv, IInv
<1>1. Editor = t /\ Editor' = Free
  <2>1. classLock = t /\ pc[t] = "commit"
        BY DEF Commit, Locked, Editing
  <2>2. /\ pc'[t] \in {"done", "clean"} /\ classLock' \in {t, Free}
        BY <2>1 DEF Commit, ReleaseClass, Goto, TypeOK
  <2> QED
        BY <2>1, <2>2, EditorIs, ProcessAssumption DEF Editor, Editing, Process
<1>2. \A s \in Homework : Place(s)' = Place(s)
  <2>1. UNCHANGED <<result, step>> /\ linked' \subseteq linked
        BY DEF Commit, jol
  <2>2. \A s \in linked \ linked' : Place(s) = "dropped" /\ Place(s)' = "dropped"
    <3>1. ASSUME NEW s \in linked \ linked' PROVE result[s] = "none" /\ step[s] \in {"source", "queue", "done"}
          BY <3>1 DEF Commit, Emptied, Settled
    <3> QED
          BY <2>1, <3>1 DEF Place
  <2> QED
        BY <2>1, <2>2 DEF Place
<1>3. UNCHANGED <<Places, JudgedBy, based>>
      BY <1>2, PlacesSame DEF Commit, judge
<1>4. CASE task[t] = "same"
  <2>1. UNCHANGED <<question, edition>> /\ status # "removed" /\ status' # "removed"
        BY <1>4 DEF Commit, Edition, Editing, TypeOK
  <2> QED
        BY <1>1, <1>3, <2>1 DEF GStep, GradingOf!Next, GradingOf!Leave
<1>5. CASE task[t] = "remove"
  <2>1. UNCHANGED <<question, edition>> /\ status' = "removed"
        BY <1>5 DEF Commit
  <2>2. \A s \in Homework : Place(s) \notin {"pending", "judged"}
        BY <1>5 DEF Commit, Emptied, Place
  <2> QED
        BY <1>1, <1>3, <2>1, <2>2 DEF Places, GStep, GradingOf!Next, GradingOf!Remove
<1>6. CASE task[t] \in {"title", "rewrite", "replace"}
  <2>1. /\ edition' = edition + 1 /\ based[t] = edition
        /\ status # "removed" /\ status' # "removed"
        BY <1>6 DEF Commit, Edition, Editing, TypeOK
  <2>2. question' = question \/ (question' \in Problem /\ task[t] \in {"rewrite", "replace"})
        BY <1>6 DEF Commit, TypeOK
  <2>3. ASSUME task[t] \in {"rewrite", "replace"}, NEW s \in Homework
        PROVE  Places[s] # "judged"
        BY <2>3 DEF Commit, Edition, Emptied, Editing, Places, Place
  <2> QED
        BY <1>1, <1>3, <2>1, <2>2, <2>3 DEF GStep, GradingOf!Next, GradingOf!Edit
<1> QED
      BY <1>4, <1>5, <1>6 DEF TypeOK, Task

\* A request that ends refuses its submission, or leaves the assignment.
LEMMA AbortView ==
    ASSUME FullInv, NEW x \in Process, Abort(x)
    PROVE  GStep
<1> USE DEF FullInv, IInv
<1>1. UNCHANGED <<status, question, edition, based, linked, result, graded>>
      BY DEF Abort, course, jol, judge, teacher
<1>2. CASE x \in Solution
  <2>1. step' = [step EXCEPT ![x] = "done"] /\ pc' = pc
        BY <1>2, ProcessAssumption DEF Abort, Advance, teacher
  <2>2. Editor' = Editor
        BY <1>2, <2>1, ProcessAssumption DEF Abort, ReleaseClass, Editor, Process
  <2>3. CASE x \in Homework /\ Place(x) = "unsent"
    <3>1. \A y \in Homework \ {x} : Place(y)' = Place(y)
          BY <1>1, <2>1 DEF Place, Solution, TypeOK
    <3>2. Place(x)' = "dropped"
          BY <1>1, <2>1, <2>3 DEF Place, Solution, TypeOK
    <3>3. Places[x] = "unsent" /\ Places' = [Places EXCEPT ![x] = "dropped"]
          BY <2>3, <3>1, <3>2 DEF Places
    <3>4. JudgedBy' = JudgedBy
          BY <1>1, <2>3, <3>1, <3>2 DEF JudgedBy
    <3> QED
          BY <1>1, <2>2, <2>3, <3>3, <3>4 DEF GStep, GradingOf!Next, GradingOf!Refuse
  <2>4. CASE x \notin Homework \/ Place(x) # "unsent"
    <3>1. \A y \in Homework : Place(y)' = Place(y)
          BY <1>1, <2>1, <2>4 DEF Place, Solution, TypeOK
    <3> QED
          BY <1>1, <2>2, <3>1, PlacesSame DEF GStep, GradingOf!vars
  <2> QED
        BY <2>3, <2>4
<1>3. CASE x \in Teacher
  <2>1. step' = step /\ pc' = [pc EXCEPT ![x] = "done"]
        BY <1>3, ProcessAssumption DEF Abort, Goto
  <2>2. UNCHANGED <<Places, JudgedBy>>
        BY <1>1, <2>1, PlacesSame DEF Place
  <2>3. CASE Editor = x
    <3>1. Editor' = Free
          BY <1>3, <2>3, ProcessAssumption DEF Abort, ReleaseClass, Editor, Process
    <3> QED
          BY <1>1, <1>3, <2>2, <2>3, <3>1 DEF GStep, GradingOf!Next, GradingOf!Leave
  <2>4. CASE Editor # x
    <3>1. Editor' = Editor
          BY <1>3, <2>1, <2>4, ProcessAssumption DEF Abort, ReleaseClass, Editor, Process, TypeOK
    <3> QED
          BY <1>1, <2>2, <3>1 DEF GStep, GradingOf!vars
  <2> QED
        BY <2>3, <2>4
<1> QED
      BY <1>2, <1>3 DEF Process

\* Every step is one of Grading, or none.
LEMMA NextView == FullInv /\ [Next]_vars => GStep
<1> SUFFICES ASSUME FullInv, [Next]_vars PROVE GStep
      OBVIOUS
<1>1. ASSUME ArchiveCourse PROVE GStep
  <2>1. UNCHANGED <<question, edition, based, linked, result, graded, step, pc, classLock>>
        BY <1>1 DEF ArchiveCourse, jol, judge, locks, teacher
  <2>2. (status' # "removed") = (status # "removed")
        BY <1>1 DEF ArchiveCourse
  <2> QED
        BY <2>1, <2>2, PlacesSame DEF Place, Editor, GStep, GradingOf!vars
<1>2. ASSUME UNCHANGED vars PROVE GStep
  <2>1. UNCHANGED <<status, question, edition, based, linked, result, graded, step, pc, classLock>>
        BY <1>2 DEF vars, course, jol, judge, locks, teacher
  <2> QED
        BY <2>1, PlacesSame DEF Place, Editor, GStep, GradingOf!vars
<1> QED
      BY <1>1, <1>2, SubmitView, EditView, LoadView, CheckView, RepointView, DeleteView,
         CommitView, AbortView DEF Next, Change

\* Students and teachers see what Grading promises, for any number of
\* submissions, editions and requests that end half-way.
THEOREM Refinement == Spec => ImplementsGrading
<1>1. Init => GradingOf!Init
  <2> SUFFICES ASSUME Init PROVE GradingOf!Init
        OBVIOUS
  <2>1. 1 \in Problem
        BY BoundAssumption, FS_CardinalityType DEF Problem
  <2>2. Editor = Free
        BY ProcessAssumption DEF Init, Editor, Process
  <2>3. \A s \in Homework : Place(s) = "unsent"
        BY DEF Init, Place, Solution
  <2> QED
        BY <2>1, <2>2, <2>3 DEF Init, Places, JudgedBy, GradingOf!Init
<1> QED
      BY <1>1, NextView, FullInvariance, PTL
      DEF Spec, ImplementsGrading, GradingOf!Spec, GStep
=============================================================================
