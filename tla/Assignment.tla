----------------------------- MODULE Assignment -----------------------------
(***************************************************************************)
(* One published programming assignment of the course service: its         *)
(* submissions on the way to the HUSTOJ judge (hustoj.rs, routes/          *)
(* batches.rs, routes/public_problems.rs) and its edition and removal by   *)
(* teachers (assignment_edit.rs, authoring.rs).  The assignment has one    *)
(* question; an edition that rewrites the question, or puts another one in *)
(* its place, makes a fresh problem.                                       *)
(*                                                                         *)
(* The tables of the judge are MyISAM: every statement on them is on its   *)
(* own and stays.  Requests exclude each other by MySQL named locks, one   *)
(* for the class and one for each problem, that end with the request.  Any *)
(* request may be cancelled, fail or die between two statements.           *)
(* Statistics, feedback tables and backups are left out.                   *)
(***************************************************************************)
EXTENDS Naturals, FiniteSets

CONSTANTS
    Homework,   \* submissions to the assignment, each with the request that makes it
    Practice,   \* submissions to a problem of the public list, likewise
    Teacher,    \* requests to edit or to remove the assignment
    Free,       \* the owner of a lock nobody holds
    MaxAborts   \* bound on the requests that end half-way

Solution == Homework \cup Practice
Process == Solution \cup Teacher

ASSUME ProcessAssumption ==
    Homework \cap Practice = {} /\ Solution \cap Teacher = {} /\ Free \notin Process
ASSUME BoundAssumption == MaxAborts \in Nat /\ IsFiniteSet(Teacher)

VARIABLES
    \* codemind_course, InnoDB
    offering,   \* cm_offering.status
    status,     \* cm_batch.status; "removed": there is no row
    question,   \* the problem that cm_batch_problem links
    edition,    \* the revision of the document of the assignment
    linked,     \* submissions with a row in cm_submission
    \* jol, MyISAM, and the judge's data directory
    problem,    \* each problem: no row, hidden (defunct), open or removed
    tests,      \* problems whose test files are complete
    result,     \* solution.result; "none": there is no row
    on,         \* solution.problem_id
    source,     \* solutions whose source is there
    \* The judge.
    judging,    \* solutions it is working on
    graded,     \* graded[s]: the problem whose tests it took for s
    \* Named locks.
    classLock, problemLock,
    \* Requests.
    step,       \* of a submission
    pc, task,
    based,      \* the revision that the teacher edited
    saved,      \* the status of the assignment when the request came
    old,        \* the question it replaces or removes
    fresh,      \* the problem it makes
    listed,     \* the submissions it found
    aborts

course == <<offering, status, question, edition, linked>>
jol == <<problem, tests, result, on, source>>
judge == <<judging, graded>>
locks == <<classLock, problemLock>>
teacher == <<pc, task, based, saved, old, fresh, listed>>
vars == <<course, jol, judge, locks, step, teacher, aborts>>

Problem == 1..(Cardinality(Teacher) + 1)
Task == {"same", "title", "rewrite", "replace", "remove"}
Step == {"new", "class", "check", "problem", "valid", "insert", "link", "source",
         "queue", "done"}
Label == {"new", "loaded", "class", "check", "close", "sync", "tests", "repoint",
          "open", "sources", "solutions", "commit", "clean", "files", "row",
          "requeue", "done"}

TypeOK ==
    /\ offering \in {"active", "archived"}
    /\ status \in {"published", "closed", "removed"}
    /\ question \in Problem
    /\ edition \in 0..Cardinality(Teacher)
    /\ linked \in SUBSET Homework
    /\ problem \in [Problem -> {"none", "hidden", "open", "removed"}]
    /\ tests \in SUBSET Problem
    /\ result \in [Solution -> {"none", "saving", "waiting", "running", "judged"}]
    /\ on \in [Solution -> Problem]
    /\ source \in SUBSET Solution
    /\ judging \in SUBSET Solution
    /\ graded \in [Solution -> Problem]
    /\ classLock \in Process \cup {Free}
    /\ problemLock \in [Problem -> Process \cup {Free}]
    /\ step \in [Solution -> Step]
    /\ pc \in [Teacher -> Label]
    /\ task \in [Teacher -> Task]
    /\ based \in [Teacher -> 0..Cardinality(Teacher)]
    /\ saved \in [Teacher -> {"published", "closed"}]
    /\ old \in [Teacher -> Problem]
    /\ fresh \in [Teacher -> Problem]
    /\ listed \in [Teacher -> SUBSET Homework]
    /\ aborts \in 0..MaxAborts

Init ==
    /\ offering = "active" /\ status = "published" /\ question = 1 /\ edition = 0
    /\ linked = {}
    /\ problem = [p \in Problem |-> IF p = 1 THEN "open" ELSE "none"]
    /\ tests = {1}
    /\ result = [s \in Solution |-> "none"]
    /\ on = [s \in Solution |-> 1]
    /\ source = {}
    /\ judging = {}
    /\ graded = [s \in Solution |-> 1]
    /\ classLock = Free
    /\ problemLock = [p \in Problem |-> Free]
    /\ step = [s \in Solution |-> "new"]
    /\ pc = [t \in Teacher |-> "new"]
    /\ task = [t \in Teacher |-> "same"]
    /\ based = [t \in Teacher |-> 0]
    /\ saved = [t \in Teacher |-> "published"]
    /\ old = [t \in Teacher |-> 1]
    /\ fresh = [t \in Teacher |-> 1]
    /\ listed = [t \in Teacher |-> {}]
    /\ aborts = 0

-----------------------------------------------------------------------------
(* Named locks (with_lock).                                                *)

\* Mutant: the problem's lock is not waited for.
TakeProblemAnyway(x, p) == problemLock' = [problemLock EXCEPT ![p] = x]

TakeProblem(x, p) ==
    /\ problemLock[p] = Free
    /\ problemLock' = [problemLock EXCEPT ![p] = x]

\* Mutant: the session goes back to the pool with the lock.
KeepProblem(x) == UNCHANGED problemLock

ReleaseProblem(x) ==
    problemLock' = [p \in Problem |-> IF problemLock[p] = x THEN Free ELSE problemLock[p]]

TakeClass(x) == classLock = Free /\ classLock' = x

ReleaseClass(x) == classLock' = IF classLock = x THEN Free ELSE classLock

-----------------------------------------------------------------------------
(* A submission.                                                           *)

Advance(s, label) == step' = [step EXCEPT ![s] = label]

\* A student submits to the question he saw.
StartHomework(s) ==
    /\ step[s] = "new"
    /\ s \in Homework /\ status # "removed"
    /\ on' = [on EXCEPT ![s] = question]
    /\ Advance(s, "class")
    /\ UNCHANGED <<course, problem, tests, result, source, judge, locks, teacher, aborts>>

\* Anybody practises an open problem.
StartPractice(s) ==
    /\ step[s] = "new"
    /\ s \in Practice
    /\ \E p \in Problem : problem[p] = "open" /\ on' = [on EXCEPT ![s] = p]
    /\ Advance(s, "problem")
    /\ UNCHANGED <<course, problem, tests, result, source, judge, locks, teacher, aborts>>

EnterClass(s) ==
    /\ step[s] = "class"
    /\ TakeClass(s)
    /\ Advance(s, "check")
    /\ UNCHANGED <<course, jol, judge, problemLock, teacher, aborts>>

\* load_problem finds the question in the assignment, open.
LoadProblem(s) == status # "removed" /\ on[s] = question /\ problem[question] = "open"

\* Neither the class nor the assignment refuses submissions.
Accepting == offering = "active" /\ status # "closed"

\* Both are looked up under the class's lock.
Admit(s) ==
    /\ step[s] = "check"
    /\ IF LoadProblem(s) /\ Accepting
       THEN Advance(s, "problem") /\ UNCHANGED classLock
       ELSE Advance(s, "done") /\ ReleaseClass(s)
    /\ UNCHANGED <<course, jol, judge, problemLock, teacher, aborts>>

\* insert_submission takes the problem's lock,
EnterProblem(s) ==
    /\ step[s] = "problem"
    /\ TakeProblem(s, on[s])
    /\ Advance(s, "valid")
    /\ UNCHANGED <<course, jol, judge, classLock, teacher, aborts>>

\* looks the problem up again,
Validate(s) ==
    /\ step[s] = "valid"
    /\ IF problem[on[s]] = "open"
       THEN Advance(s, "insert") /\ UNCHANGED locks
       ELSE Advance(s, "done") /\ ReleaseProblem(s) /\ ReleaseClass(s)
    /\ UNCHANGED <<course, jol, judge, teacher, aborts>>

\* inserts the solution with result 14,
Insert(s) ==
    /\ step[s] = "insert"
    /\ result' = [result EXCEPT ![s] = "saving"]
    /\ Advance(s, IF s \in Homework THEN "link" ELSE "source")
    /\ UNCHANGED <<course, problem, tests, on, source, judge, locks, teacher, aborts>>

\* links it to the assignment,
Link(s) ==
    /\ step[s] = "link"
    /\ linked' = linked \cup {s}
    /\ Advance(s, "source")
    /\ UNCHANGED <<offering, status, question, edition, jol, judge, locks, teacher, aborts>>

\* saves the source,
SaveSource(s) ==
    /\ step[s] = "source"
    /\ source' = source \cup {s}
    /\ Advance(s, "queue")
    /\ UNCHANGED <<course, problem, tests, result, on, judge, locks, teacher, aborts>>

\* and lets the judge have it.  (submit_state is then set to promoted, which
\* nothing reads.)
Queue(s) ==
    /\ step[s] = "queue"
    /\ result' = [result EXCEPT ![s] = IF result[s] = "saving" THEN "waiting" ELSE @]
    /\ ReleaseProblem(s) /\ ReleaseClass(s)
    /\ Advance(s, "done")
    /\ UNCHANGED <<course, problem, tests, on, source, judge, teacher, aborts>>

-----------------------------------------------------------------------------
(* The judge: it takes what is waiting, and writes the result by the id of *)
(* the solution.                                                           *)

Pick(s) ==
    /\ result[s] = "waiting"
    /\ result' = [result EXCEPT ![s] = "running"]
    /\ judging' = judging \cup {s}
    /\ graded' = [graded EXCEPT ![s] = on[s]]
    /\ UNCHANGED <<course, problem, tests, on, source, locks, step, teacher, aborts>>

Finish(s) ==
    /\ s \in judging
    /\ judging' = judging \ {s}
    /\ result' = [result EXCEPT ![s] = IF result[s] = "none" THEN "none" ELSE "judged"]
    /\ UNCHANGED <<course, problem, tests, on, source, graded, locks, step, teacher, aborts>>

-----------------------------------------------------------------------------
(* A teacher edits or removes the assignment.                              *)

Goto(t, label) == pc' = [pc EXCEPT ![t] = label]

\* Mutant: nobody looks whether the assignment is still there.
OpenToTeachersAny == offering = "active"

\* batch_access, to write.
OpenToTeachers == offering = "active" /\ status # "removed"

\* He loads the document, with its revision.
LoadDocument(t) ==
    /\ pc[t] = "new"
    /\ OpenToTeachers
    /\ based' = [based EXCEPT ![t] = edition]
    /\ Goto(t, "loaded")
    /\ UNCHANGED <<course, jol, judge, locks, step, task, saved, old, fresh, listed, aborts>>

\* update or remove reads the assignment before it has the lock,
Begin(t) ==
    /\ pc[t] = "loaded"
    /\ OpenToTeachers
    /\ saved' = [saved EXCEPT ![t] = status]
    /\ \E k \in Task : task' = [task EXCEPT ![t] = k]
    /\ Goto(t, "class")
    /\ UNCHANGED <<course, jol, judge, locks, step, based, old, fresh, listed, aborts>>

EnterClassroom(t) ==
    /\ pc[t] = "class"
    /\ TakeClass(t)
    /\ Goto(t, "check")
    /\ UNCHANGED <<course, jol, judge, problemLock, step, task, based, saved, old,
                   fresh, listed, aborts>>

\* Mutant: what the judge is running does not count.
BusyUnstarted == \E s \in linked : result[s] \in {"saving", "waiting"}

Busy == \E s \in linked : result[s] \in {"saving", "waiting", "running"}

\* Mutant: an edition of an older revision is accepted.
UpToDateAny(t) == TRUE

UpToDate(t) == task[t] = "remove" \/ based[t] = edition

\* and checks everything once it has it.  Then it lists the submissions.
Check(t) ==
    /\ pc[t] = "check"
    /\ IF OpenToTeachers /\ ~Busy /\ UpToDate(t)
       THEN /\ listed' = [listed EXCEPT ![t] =
                   IF task[t] = "remove" THEN linked ELSE {s \in linked : result[s] # "none"}]
            /\ old' = [old EXCEPT ![t] = question]
            /\ Goto(t, "close")
            /\ UNCHANGED classLock
       ELSE /\ Goto(t, "done")
            /\ ReleaseClass(t)
            /\ UNCHANGED <<listed, old>>
    /\ UNCHANGED <<course, jol, judge, problemLock, step, task, based, saved, fresh, aborts>>

\* Submissions are refused from here on.
Close(t) ==
    /\ pc[t] = "close"
    /\ status' = "closed"
    /\ Goto(t, CASE task[t] \in {"same", "title"} -> "commit"
                 [] task[t] \in {"rewrite", "replace"} -> "sync"
                 [] task[t] = "remove" -> "sources")
    /\ UNCHANGED <<offering, question, edition, linked, jol, judge, locks, step, task,
                   based, saved, old, fresh, listed, aborts>>

\* sync_problem: a new problem, hidden,
SyncProblem(t) ==
    /\ pc[t] = "sync"
    /\ \E p \in Problem :
        /\ problem[p] = "none" /\ \A q \in 1..(p - 1) : problem[q] # "none"
        /\ problem' = [problem EXCEPT ![p] = "hidden"]
        /\ fresh' = [fresh EXCEPT ![t] = p]
    /\ Goto(t, "tests")
    /\ UNCHANGED <<course, tests, result, on, source, judge, locks, step, task, based,
                   saved, old, listed, aborts>>

\* and its test files.
WriteTests(t) ==
    /\ pc[t] = "tests"
    /\ tests' = tests \cup {fresh[t]}
    /\ Goto(t, IF task[t] = "rewrite" THEN "repoint" ELSE "open")
    /\ UNCHANGED <<course, problem, result, on, source, judge, locks, step, task, based,
                   saved, old, fresh, listed, aborts>>

\* The submissions move to the new problem one by one, and the judge must not
\* see one before the edition ends.
Repoint(t, s) ==
    /\ pc[t] = "repoint"
    /\ s \in listed[t] /\ on[s] = old[t] /\ result[s] # "none"
    /\ on' = [on EXCEPT ![s] = fresh[t]]
    /\ result' = [result EXCEPT ![s] = "saving"]
    /\ UNCHANGED <<course, problem, tests, source, judge, locks, step, teacher, aborts>>

\* Mutant: the old question is hidden before the new one is linked.
OpenProblemHideOld(t) ==
    /\ \/ pc[t] = "open"
       \/ pc[t] = "repoint" /\ \A s \in listed[t] : on[s] # old[t] \/ result[s] = "none"
    /\ problem' = [problem EXCEPT ![fresh[t]] = "open", ![old[t]] = "hidden"]
    /\ Goto(t, IF task[t] = "replace" THEN "sources" ELSE "commit")
    /\ UNCHANGED <<course, tests, result, on, source, judge, locks, step, task, based,
                   saved, old, fresh, listed, aborts>>

OpenProblem(t) ==
    /\ \/ pc[t] = "open"
       \/ pc[t] = "repoint" /\ \A s \in listed[t] : on[s] # old[t] \/ result[s] = "none"
    /\ problem' = [problem EXCEPT ![fresh[t]] = "open"]
    /\ Goto(t, IF task[t] = "replace" THEN "sources" ELSE "commit")
    /\ UNCHANGED <<course, tests, result, on, source, judge, locks, step, task, based,
                   saved, old, fresh, listed, aborts>>

\* delete_submissions: what hangs on the solutions,
DeleteSources(t) ==
    /\ pc[t] = "sources"
    /\ source' = source \ listed[t]
    /\ Goto(t, "solutions")
    /\ UNCHANGED <<course, problem, tests, result, on, judge, locks, step, task, based,
                   saved, old, fresh, listed, aborts>>

\* then the solutions.
DeleteSolutions(t) ==
    /\ pc[t] = "solutions"
    /\ result' = [s \in Solution |-> IF s \in listed[t] THEN "none" ELSE result[s]]
    /\ Goto(t, "commit")
    /\ UNCHANGED <<course, problem, tests, on, source, judge, locks, step, task, based,
                   saved, old, fresh, listed, aborts>>

\* The transaction in codemind_course.  An edition keeps every submission to the
\* question it keeps or rewrites, which is every one it listed.
Commit(t) ==
    /\ pc[t] = "commit"
    /\ linked' = CASE task[t] = "remove" -> {}
                   [] task[t] = "replace" -> linked \ listed[t]
                   [] OTHER -> linked
    /\ status' = IF task[t] = "remove" THEN "removed" ELSE saved[t]
    /\ question' = IF task[t] \in {"rewrite", "replace"} THEN fresh[t] ELSE question
    /\ edition' = IF task[t] \in {"same", "remove"} THEN edition ELSE edition + 1
    /\ IF task[t] \in {"same", "title"}
       THEN Goto(t, "done") /\ ReleaseClass(t)
       ELSE Goto(t, "clean") /\ UNCHANGED classLock
    /\ UNCHANGED <<offering, jol, judge, problemLock, step, task, based, saved, old,
                   fresh, listed, aborts>>

\* Mutant: a solution does not count.
ReferencedByLink(p) == status # "removed" /\ question = p

Referenced(p) ==
    \/ status # "removed" /\ question = p
    \/ \E s \in Solution : on[s] = p /\ result[s] # "none"

\* What is left after the old question has been cleaned.
AfterClean(t) ==
    IF task[t] = "rewrite"
    THEN Goto(t, "requeue") /\ UNCHANGED classLock
    ELSE Goto(t, "done") /\ ReleaseClass(t)

\* clean_problem, under the problem's lock: a problem that something refers to
\* is only recounted, as the new question is at the end;
CleanRead(t) ==
    /\ pc[t] = "clean"
    /\ TakeProblem(t, old[t])
    /\ ~Referenced(old[t])
    /\ Goto(t, "files")
    /\ UNCHANGED <<course, jol, judge, classLock, step, task, based, saved, old, fresh,
                   listed, aborts>>

CleanKeep(t) ==
    /\ pc[t] = "clean"
    /\ problemLock[old[t]] = Free
    /\ Referenced(old[t])
    /\ AfterClean(t)
    /\ UNCHANGED <<course, jol, judge, problemLock, step, task, based, saved, old, fresh,
                   listed, aborts>>

\* of any other the test files are removed,
RemoveTests(t) ==
    /\ pc[t] = "files"
    /\ tests' = tests \ {old[t]}
    /\ Goto(t, "row")
    /\ UNCHANGED <<course, problem, result, on, source, judge, locks, step, task, based,
                   saved, old, fresh, listed, aborts>>

\* and the row.
RemoveRow(t) ==
    /\ pc[t] = "row"
    /\ problem' = [problem EXCEPT ![old[t]] = "removed"]
    /\ ReleaseProblem(t)
    /\ AfterClean(t)
    /\ UNCHANGED <<course, tests, result, on, source, judge, step, task, based, saved,
                   old, fresh, listed, aborts>>

\* The submissions that moved go back to the judge.
Requeue(t) ==
    /\ pc[t] = "requeue"
    /\ result' = [s \in Solution |->
           IF s \in listed[t] /\ result[s] = "saving" THEN "waiting" ELSE result[s]]
    /\ ReleaseClass(t)
    /\ Goto(t, "done")
    /\ UNCHANGED <<course, problem, tests, on, source, judge, problemLock, step, task,
                   based, saved, old, fresh, listed, aborts>>

-----------------------------------------------------------------------------
(* The environment.                                                        *)

\* archive_course: one transaction, and no named lock.
ArchiveCourse ==
    /\ offering = "active"
    /\ offering' = "archived"
    /\ status' = IF status = "published" THEN "closed" ELSE status
    /\ UNCHANGED <<question, edition, linked, jol, judge, locks, step, teacher, aborts>>

\* A request ends between two statements, and its sessions with it.
Abort(x) ==
    /\ aborts < MaxAborts
    /\ aborts' = aborts + 1
    /\ \/ x \in Solution /\ step[x] \notin {"new", "done"}
          /\ Advance(x, "done") /\ UNCHANGED teacher
       \/ x \in Teacher /\ pc[x] \notin {"new", "done"}
          /\ Goto(x, "done")
          /\ UNCHANGED <<step, task, based, saved, old, fresh, listed>>
    /\ ReleaseProblem(x) /\ ReleaseClass(x)
    /\ UNCHANGED <<course, jol, judge>>

Submit(s) ==
    \/ EnterClass(s) \/ Admit(s) \/ EnterProblem(s) \/ Validate(s)
    \/ Insert(s) \/ Link(s) \/ SaveSource(s) \/ Queue(s)

Judge(s) == Pick(s) \/ Finish(s)

Change(t) ==
    \/ EnterClassroom(t) \/ Check(t) \/ Close(t)
    \/ SyncProblem(t) \/ WriteTests(t) \/ (\E s \in Homework : Repoint(t, s))
    \/ OpenProblem(t) \/ DeleteSources(t) \/ DeleteSolutions(t) \/ Commit(t)
    \/ CleanRead(t) \/ CleanKeep(t) \/ RemoveTests(t) \/ RemoveRow(t) \/ Requeue(t)

Next ==
    \/ \E s \in Solution : StartHomework(s) \/ StartPractice(s) \/ Submit(s) \/ Judge(s)
    \/ \E t \in Teacher : LoadDocument(t) \/ Begin(t) \/ Change(t)
    \/ ArchiveCourse
    \/ \E x \in Process : Abort(x)

Spec == Init /\ [][Next]_vars

\* Requests that have begun go on until they end or are aborted, locks are
\* given to who waits, and the judge works.
FairSpec ==
    /\ Spec
    /\ \A s \in Solution : WF_vars(Submit(s)) /\ WF_vars(Judge(s))
    /\ \A t \in Teacher : WF_vars(Change(t))

-----------------------------------------------------------------------------
(* Properties.                                                             *)

\* The result a student has for the assignment was reached with the tests of
\* the question the assignment has now, whatever edition failed half-way: an
\* edition moves every judged submission, and takes none that the judge is
\* working on (assignment_edit.rs:26 and :100).
VerdictCurrent ==
    \A s \in linked : result[s] = "judged" /\ status # "removed" => graded[s] = question

\* Students never see a half-made question (authoring.rs:4): what the
\* assignment links is open and has all of its tests, also while it is edited
\* and after an edition or a removal that failed.
QuestionUsable ==
    status # "removed" => problem[question] = "open" /\ question \in tests

\* A problem is not removed under a solution: a submission that looked it up
\* before, a practising student's above all, still finds it (clean_problem and
\* insert_submission hold the problem's lock).
SolutionHasProblem ==
    \A s \in Solution : result[s] # "none" => problem[on[s]] # "removed"

\* "An outdated version gets 409" (library-workflow-20261006.md:13): no edition
\* overwrites one that its author has not seen.
NoLostEdition ==
    [][\A t \in Teacher :
          pc[t] = "commit" /\ pc'[t] # "commit" /\ edition' # edition
              => based[t] = edition]_vars

\* Whatever the judge may take or has taken is complete, its source and the
\* tests of its problem (hustoj.rs:98, "released as result=0 only after source
\* and link are stored"), as long as no request ends half-way.
JudgeIsFed ==
    \A s \in Solution :
        result[s] = "waiting" \/ s \in judging
            => s \in source /\ on[s] \in tests /\ problem[on[s]] = "open"

\* A solution that was inserted gets judged or is removed with the assignment:
\* a rejudge is not forgotten, and the two kinds of locks, taken one under the
\* other, never block for good.
EverySolutionSettles ==
    \A s \in Solution :
        (result[s] \in {"saving", "waiting", "running"})
            ~> (result[s] \in {"judged", "none"})

\* What a student is told of his submission.
Place(s) ==
    IF s \in linked
    THEN CASE result[s] = "judged" -> "judged"
           [] result[s] = "none" -> "dropped"
           [] OTHER -> "pending"
    ELSE IF step[s] \in {"source", "queue", "done"} THEN "dropped" ELSE "unsent"

Places == [s \in Homework |-> Place(s)]
JudgedBy == [s \in Homework |-> IF Place(s) = "judged" THEN graded[s] ELSE 0]

\* The teacher who has found the assignment ready to be changed.
Editor ==
    IF classLock \in Teacher /\ pc[classLock] \in
           {"close", "sync", "tests", "repoint", "open", "sources", "solutions", "commit"}
    THEN classLock ELSE Free

\* Students and teachers see an assignment whose editions exclude each other,
\* build on the last one and never leave a judgement by a question that was
\* rewritten, although an edition is a dozen statements, on tables that know no
\* transactions, of requests that may end after any of them.
GradingOf ==
    INSTANCE Grading WITH
        Submission <- Homework, Question <- Problem, Nobody <- Free,
        there <- status # "removed", seen <- based, editor <- Editor,
        place <- Places, by <- JudgedBy
ImplementsGrading == GradingOf!Spec

\* A request that has begun and not ended.
UnderWay ==
    {s \in Solution : step[s] \notin {"new", "done"}}
        \cup {t \in Teacher : pc[t] \notin {"new", "loaded", "done"}}

\* Its next statement can be executed: it waits for no lock, and there is an id
\* for the problem it makes.
Ready(x) ==
    \/ /\ x \in Solution
       /\ step[x] = "class" => classLock = Free
       /\ step[x] = "problem" => problemLock[on[x]] = Free
    \/ /\ x \in Teacher
       /\ pc[x] = "class" => classLock = Free
       /\ pc[x] = "clean" => problemLock[old[x]] = Free
       /\ pc[x] = "sync" => \E p \in Problem : problem[p] = "none"

\* The locks of the class and of its problems are taken one under the other by
\* requests that end anywhere, and still there is always one that can go on:
\* nobody waits for a lock whose owner waits for him, or has ended.
NoDeadlock == UnderWay # {} => \E x \in UnderWay : Ready(x)

\* library-workflow-20261006.md:10 says that an edition "judges again with the
\* original code".
RejudgedWithCode == \A s \in linked : result[s] = "waiting" => s \in source
=============================================================================
