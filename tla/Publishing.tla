----------------------------- MODULE Publishing -----------------------------
(***************************************************************************)
(* Publishing a draft in a class of the course service: the draft          *)
(* (cm_authoring_draft), its assignment (cm_batch, cm_batch_problem), the  *)
(* questions made for it in HUSTOJ's tables, which know no transactions,   *)
(* and their test files.  Requests publish the draft, save it, remove it   *)
(* or its assignment, and delete the class; a teacher opens and archives   *)
(* the class without any lock.  Every statement is a step; a request that  *)
(* fails or is cancelled stops after any of them, its named locks released.*)
(*                                                                         *)
(* One draft of one class is enough: drafts share only the lock of their   *)
(* class.  Solutions, which keep a question alive, and editions of a       *)
(* published assignment (the other branch of drafts.rs:update) are the     *)
(* subject of Assignment.  Publishing in several classes                   *)
(* (publish_to_offerings, deploy) is a Spreader per class: it inserts a    *)
(* fresh draft and publishes it without taking the draft's lock.           *)
(***************************************************************************)
EXTENDS Naturals, FiniteSets

CONSTANTS
    Publisher,  \* POST /api/drafts/{id}/publish
    Spreader,   \* one class of publish-to-offerings or of deploy
    Editor,     \* PUT /api/drafts/{id}
    Remover,    \* DELETE of the draft or of its assignment
    Closer,     \* deletion of the class
    Slug,       \* the questions a draft may have
    MaxVersion, \* bound on the saved versions
    MaxAborts,  \* bound on the requests that fail or are cancelled
    Patient,    \* nobody touches a fresh draft before its request has ended
    Free        \* no owner of a lock

Maker == Publisher \cup Spreader
Request == Maker \cup Editor \cup Remover \cup Closer
Version == 1..MaxVersion
Document == [slugs : (SUBSET Slug) \ {{}}, version : Version]

ASSUME RolesAssumption ==
    /\ Publisher \cap Spreader = {} /\ Maker \cap (Editor \cup Remover \cup Closer) = {}
    /\ Editor \cap (Remover \cup Closer) = {} /\ Remover \cap Closer = {}
ASSUME FreeAssumption == Free \notin Request
ASSUME BoundAssumption == MaxVersion \in Nat \ {0} /\ MaxAborts \in Nat /\ Patient \in BOOLEAN
ASSUME SlugAssumption == Slug # {}

VARIABLES
    draft,      \* cm_authoring_draft: "unborn", "draft", "published" or "removed"
    content,    \* its payload
    batch,      \* cm_batch: "none", "draft", "published" or "closed"
    links,      \* the questions in cm_batch_problem
    row,        \* row[s]: jol.problem, "none", "hidden" or "open" (defunct)
    tests,      \* tests[s]: the version of all the test files, 0 if some lack
    class,      \* cm_offering: "active", "archived" or "gone"
    wiping,     \* history: the class is being deleted since it was published
    draftLock,  \* the named lock hoj:publish:{id}
    classLock,  \* the named lock hoj:offering:{oid}
    pc,
    doc,        \* the payload a request has read, or is to save
    todo,       \* the questions it has still to write or to remove
    current,    \* the one it is writing
    aborts

course == <<draft, content, batch, links, class, wiping>>
judge == <<row, tests>>
locks == <<draftLock, classLock>>
work == <<doc, todo, current>>
vars == <<course, judge, locks, pc, work, aborts>>

Label ==
    {"begin", "read", "class", "check", "batch", "row", "tests", "hide", "open",
     "commit", "save", "erase", "clean", "drop", "wipe",
     "gone", "done"}

Questions(d) == {<<s, d.version>> : s \in d.slugs}

TypeOK ==
    /\ draft \in {"unborn", "draft", "published", "removed"}
    /\ content \in Document
    /\ batch \in {"none", "draft", "published", "closed"}
    /\ links \in SUBSET Slug
    /\ row \in [Slug -> {"none", "hidden", "open"}]
    /\ tests \in [Slug -> 0..MaxVersion]
    /\ class \in {"active", "archived", "gone"}
    /\ wiping \in BOOLEAN
    /\ draftLock \in Request \cup {Free}
    /\ classLock \in Request \cup {Free}
    /\ pc \in [Request -> Label]
    /\ doc \in [Request -> Document]
    /\ todo \in [Request -> SUBSET Slug]
    /\ current \in [Request -> Slug]
    /\ aborts \in 0..MaxAborts

Init ==
    /\ draft \in {"unborn", "draft"}
    /\ content \in [slugs : (SUBSET Slug) \ {{}}, version : {1}]
    /\ batch = "none"
    /\ links = {}
    /\ row = [s \in Slug |-> "none"]
    /\ tests = [s \in Slug |-> 0]
    /\ class = "active"
    /\ wiping = FALSE
    /\ draftLock = Free
    /\ classLock = Free
    /\ pc = [r \in Request |-> "begin"]
    /\ doc = [r \in Request |-> content]
    /\ todo = [r \in Request |-> {}]
    /\ current = [r \in Request |-> CHOOSE s \in Slug : TRUE]
    /\ aborts = 0

-----------------------------------------------------------------------------
(* Locks.  A request that returns early, fails or is cancelled leaves: the  *)
(* connections that hold its named locks are closed.                        *)

Goto(r, label) == pc' = [pc EXCEPT ![r] = label]

ReleaseLocks(r) ==
    /\ draftLock' = IF draftLock = r THEN Free ELSE draftLock
    /\ classLock' = IF classLock = r THEN Free ELSE classLock

\* Mutant: the lock of the class is not given back.
LeaveWithClass(r) ==
    /\ draftLock' = IF draftLock = r THEN Free ELSE draftLock
    /\ UNCHANGED classLock
    /\ Goto(r, "done")

Leave(r) == ReleaseLocks(r) /\ Goto(r, "done")

\* Other requests know the id of the draft.
Known ==
    /\ draft # "unborn"
    /\ Patient => \A r \in Spreader : pc[r] \in {"begin", "done"}

\* with_lock(hoj:publish:{id}).
TakeDraftLock(r) ==
    /\ r \in Publisher \cup Editor \cup Remover
    /\ pc[r] = "begin"
    /\ Known
    /\ draftLock = Free
    /\ draftLock' = r
    /\ Goto(r, "read")
    /\ UNCHANGED <<course, judge, classLock, work, aborts>>

\* with_lock(hoj:offering:{oid}).
TakeClassLock(r) ==
    /\ pc[r] = "class"
    /\ classLock = Free
    /\ classLock' = r
    /\ Goto(r, "check")
    /\ UNCHANGED <<course, judge, draftLock, work, aborts>>

Abort(r) ==
    /\ pc[r] \notin {"begin", "done"}
    /\ aborts < MaxAborts
    /\ aborts' = aborts + 1
    /\ Leave(r)
    /\ UNCHANGED <<course, judge, work>>

-----------------------------------------------------------------------------
(* A publication (drafts.rs:publish, authoring.rs:publish).                 *)

\* The deletion of the class holds its row in a transaction.
RowHeld == \E r \in Closer : pc[r] \in {"clean", "gone"}

\* insert_draft, in one class of a request that publishes in several; the
\* foreign key waits for the row of the class.
InsertDraft(r) ==
    /\ r \in Spreader
    /\ pc[r] = "begin"
    /\ draft = "unborn"
    /\ class # "gone" /\ ~RowHeld
    /\ \E d \in Document :
        /\ d.version = 1
        /\ content' = d
        /\ doc' = [doc EXCEPT ![r] = d]
    /\ draft' = "draft"
    /\ Goto(r, "class")
    /\ UNCHANGED <<batch, links, class, wiping, judge, locks, todo, current, aborts>>

\* Mutant: a draft that is published is published again.
StillToPublishAny == draft \in {"draft", "published"}

StillToPublish == draft = "draft"

\* get_draft, and the answer of an earlier publication.
ReadDraft(r) ==
    /\ r \in Publisher
    /\ pc[r] = "read"
    /\ IF StillToPublish /\ class = "active"
       THEN /\ doc' = [doc EXCEPT ![r] = content]
            /\ Goto(r, "class")
            /\ UNCHANGED locks
       ELSE Leave(r) /\ UNCHANGED doc
    /\ UNCHANGED <<course, judge, todo, current, aborts>>

CheckClass(r) ==
    /\ r \in Maker
    /\ pc[r] = "check"
    /\ IF class = "active"
       THEN Goto(r, "batch") /\ UNCHANGED locks
       ELSE Leave(r)
    /\ UNCHANGED <<course, judge, work, aborts>>

\* ensure_batch: found by its authoring key, or inserted as a draft.
EnsureBatch(r) ==
    /\ pc[r] = "batch"
    /\ batch' = IF batch = "none" THEN "draft" ELSE batch
    /\ todo' = [todo EXCEPT ![r] = doc[r].slugs]
    /\ Goto(r, "row")
    /\ UNCHANGED <<draft, content, links, class, wiping, judge, locks, doc, current, aborts>>

\* sync_problem: the row is inserted, hidden, or rewritten, and the old test
\* files are deleted.
SyncRow(r) ==
    /\ pc[r] = "row"
    /\ \E s \in todo[r] :
        /\ row' = [row EXCEPT ![s] = IF @ = "none" THEN "hidden" ELSE @]
        /\ tests' = [tests EXCEPT ![s] = 0]
        /\ current' = [current EXCEPT ![r] = s]
    /\ Goto(r, "tests")
    /\ UNCHANGED <<course, locks, doc, todo, aborts>>

\* write_test_files, to the last file.
WriteTests(r) ==
    /\ pc[r] = "tests"
    /\ tests' = [tests EXCEPT ![current[r]] = doc[r].version]
    /\ todo' = [todo EXCEPT ![r] = @ \ {current[r]}]
    /\ Goto(r, IF todo[r] = {current[r]} THEN "hide" ELSE "row")
    /\ UNCHANGED <<course, row, locks, doc, current, aborts>>

\* The questions of this draft that an earlier attempt left and this one lacks.
HideOthers(r) ==
    /\ pc[r] = "hide"
    /\ row' = [s \in Slug |->
                  IF row[s] = "open" /\ s \notin doc[r].slugs THEN "hidden" ELSE row[s]]
    /\ Goto(r, "open")
    /\ UNCHANGED <<course, tests, locks, work, aborts>>

OpenQuestions(r) ==
    /\ pc[r] = "open"
    /\ row' = [s \in Slug |->
                  IF row[s] = "hidden" /\ s \in doc[r].slugs THEN "open" ELSE row[s]]
    /\ Goto(r, "commit")
    /\ UNCHANGED <<course, tests, locks, work, aborts>>

\* The transaction that reads both rows FOR UPDATE, shows the assignment and
\* marks the draft.
Commit(r) ==
    /\ pc[r] = "commit"
    /\ IF class = "active" /\ draft \in {"draft", "published"}
       THEN /\ links' = doc[r].slugs
            /\ batch' = "published"
            /\ draft' = "published"
       ELSE UNCHANGED <<links, batch, draft>>
    /\ Leave(r)
    /\ UNCHANGED <<content, class, wiping, judge, work, aborts>>

-----------------------------------------------------------------------------
(* Saving and removing (drafts.rs:update, remove; assignment_edit.rs:remove) *)

\* Mutant: a document without questions is saved.
ValidAny == SUBSET Slug

\* document::validate.
Valid == (SUBSET Slug) \ {{}}

\* A draft that is published is left to assignment_edit::update.
ReadForSave(r) ==
    /\ r \in Editor
    /\ pc[r] = "read"
    /\ IF draft = "draft" /\ class = "active" /\ content.version < MaxVersion
       THEN /\ \E slugs \in Valid :
                  doc' = [doc EXCEPT ![r] = [slugs |-> slugs, version |-> content.version + 1]]
            /\ Goto(r, "save")
            /\ UNCHANGED locks
       ELSE Leave(r) /\ UNCHANGED doc
    /\ UNCHANGED <<course, judge, todo, current, aborts>>

\* The UPDATE finds no row when the draft was removed with its assignment.
SaveDraft(r) ==
    /\ pc[r] = "save"
    /\ content' = IF draft = "removed" THEN content ELSE doc[r]
    /\ Leave(r)
    /\ UNCHANGED <<draft, batch, links, class, wiping, judge, work, aborts>>

\* DELETE of the draft: its assignment, if there is one, is removed first.
ReadForRemoval(r) ==
    /\ r \in Remover
    /\ pc[r] = "read"
    /\ IF draft = "removed" \/ (batch # "none" /\ class # "active")
       THEN Leave(r)
       ELSE Goto(r, IF batch = "none" THEN "drop" ELSE "class") /\ UNCHANGED locks
    /\ UNCHANGED <<course, judge, work, aborts>>

\* DELETE of the assignment alone.
BeginRemoval(r) ==
    /\ r \in Remover
    /\ pc[r] = "begin"
    /\ Known
    /\ batch # "none" /\ class = "active"
    /\ Goto(r, "class")
    /\ UNCHANGED <<course, judge, locks, work, aborts>>

\* Checked again under the lock; the assignment is closed.
CloseBatch(r) ==
    /\ r \in Remover
    /\ pc[r] = "check"
    /\ IF batch # "none" /\ class = "active"
       THEN /\ batch' = "closed"
            /\ todo' = [todo EXCEPT ![r] = links]
            /\ Goto(r, "erase")
            /\ UNCHANGED locks
       ELSE Leave(r) /\ UNCHANGED <<batch, todo>>
    /\ UNCHANGED <<draft, content, links, class, wiping, judge, doc, current, aborts>>

\* Mutant: the draft of a removed assignment stays.
ErasedDraftKept == draft

\* The draft goes with the assignment it was published as.
ErasedDraft == IF draft = "unborn" THEN draft ELSE "removed"

Erase(r) ==
    /\ pc[r] = "erase"
    /\ links' = {}
    /\ batch' = "none"
    /\ draft' = ErasedDraft
    /\ Goto(r, "clean")
    /\ UNCHANGED <<content, class, wiping, judge, locks, work, aborts>>

\* clean_problem of one question: its test files, then its row.
RemoveTests(r) ==
    /\ pc[r] = "clean"
    /\ \E s \in todo[r] :
        /\ tests' = [tests EXCEPT ![s] = 0]
        /\ current' = [current EXCEPT ![r] = s]
    /\ Goto(r, "gone")
    /\ UNCHANGED <<course, row, locks, doc, todo, aborts>>

RemoveRow(r) ==
    /\ pc[r] = "gone"
    /\ row' = [row EXCEPT ![current[r]] = "none"]
    /\ todo' = [todo EXCEPT ![r] = @ \ {current[r]}]
    /\ Goto(r, "clean")
    /\ UNCHANGED <<course, tests, locks, doc, current, aborts>>

EndRemoval(r) ==
    /\ r \in Remover
    /\ pc[r] = "clean"
    /\ todo[r] = {}
    /\ IF draftLock = r
       THEN Goto(r, "drop") /\ classLock' = Free /\ UNCHANGED draftLock
       ELSE Leave(r)
    /\ UNCHANGED <<course, judge, work, aborts>>

DropDraft(r) ==
    /\ pc[r] = "drop"
    /\ draft' = "removed"
    /\ Leave(r)
    /\ UNCHANGED <<content, batch, links, class, wiping, judge, work, aborts>>

-----------------------------------------------------------------------------
(* The class (course_deletion.rs:remove, offerings.rs:update_offering).     *)

BeginDeletion(r) ==
    /\ r \in Closer
    /\ pc[r] = "begin"
    /\ Goto(r, "class")
    /\ UNCHANGED <<course, judge, locks, work, aborts>>

\* The questions are found by the draft or the assignment they were made for.
ArchiveClass(r) ==
    /\ r \in Closer
    /\ pc[r] = "check"
    /\ IF class = "gone"
       THEN Leave(r) /\ UNCHANGED <<class, todo>>
       ELSE /\ class' = "archived"
            /\ todo' = [todo EXCEPT ![r] =
                   IF draft \in {"draft", "published"} \/ batch # "none"
                   THEN {s \in Slug : row[s] # "none"}
                   ELSE {}]
            /\ Goto(r, "wipe")
            /\ UNCHANGED locks
    /\ UNCHANGED <<draft, content, batch, links, wiping, judge, doc, current, aborts>>

\* From here on the transaction holds the row of the class.
BeginWipe(r) ==
    /\ pc[r] = "wipe"
    /\ wiping' = (wiping \/ batch = "published")
    /\ Goto(r, "clean")
    /\ UNCHANGED <<draft, content, batch, links, class, judge, locks, work, aborts>>

DeleteClass(r) ==
    /\ r \in Closer
    /\ pc[r] = "clean"
    /\ todo[r] = {}
    /\ links' = {}
    /\ batch' = "none"
    /\ draft' = ErasedDraft
    /\ class' = "gone"
    /\ Leave(r)
    /\ UNCHANGED <<content, wiping, judge, work, aborts>>

\* A teacher archives the class or opens it again, without any named lock.
SetStatus ==
    /\ class # "gone"
    /\ ~RowHeld
    /\ class' = IF class = "active" THEN "archived" ELSE "active"
    /\ UNCHANGED <<draft, content, batch, links, wiping, judge, locks, pc, work, aborts>>

-----------------------------------------------------------------------------

Publish(r) ==
    \/ InsertDraft(r) \/ ReadDraft(r) \/ CheckClass(r) \/ EnsureBatch(r)
    \/ SyncRow(r) \/ WriteTests(r) \/ HideOthers(r) \/ OpenQuestions(r) \/ Commit(r)

Remove(r) ==
    \/ ReadForRemoval(r) \/ BeginRemoval(r) \/ CloseBatch(r) \/ Erase(r)
    \/ RemoveTests(r) \/ RemoveRow(r) \/ EndRemoval(r) \/ DropDraft(r)

Step(r) ==
    \/ TakeDraftLock(r) \/ TakeClassLock(r)
    \/ Publish(r)
    \/ ReadForSave(r) \/ SaveDraft(r)
    \/ Remove(r)
    \/ BeginDeletion(r) \/ ArchiveClass(r) \/ BeginWipe(r) \/ DeleteClass(r)

Next ==
    \/ \E r \in Request : Step(r) \/ Abort(r)
    \/ SetStatus

Spec == Init /\ [][Next]_vars

\* While a request that has begun can go on, because its statements return and
\* a free lock is given to somebody, one of them does.
FairSpec == Spec /\ WF_vars(\E r \in Request : pc[r] # "begin" /\ Step(r))

-----------------------------------------------------------------------------
(* Properties.                                                              *)

\* What students can open of the assignment in their class.  A deletion of the
\* class that has begun counts as a withdrawal, whatever becomes of it.
Phase ==
    IF wiping THEN "withdrawn"
    ELSE IF batch = "published" THEN "shown"
    ELSE IF draft \in {"published", "removed"} THEN "withdrawn"
    ELSE "draft"

View ==
    IF Phase = "shown"
    THEN {<<s, tests[s]>> : s \in {x \in links : row[x] = "open"}}
    ELSE {}

\* Students see the assignment appear once, in one step, whole, with the tests
\* and the questions last saved, and unchanged until it is withdrawn, although
\* its questions and their files are written one by one by requests that fail,
\* are repeated and overlap with removals.
PublicationOf ==
    INSTANCE Publication WITH saved <- content, phase <- Phase, view <- View
ImplementsPublication == PublicationOf!Spec

\* "Students never see a half-made product" (authoring.rs:4), for a draft that
\* is published while the request that inserted it is publishing it, without
\* the lock of the draft, because "the id of a new draft is unique"
\* (problem_sets.rs:452).
ShownIsWhole == Phase = "shown" => \A s \in links : row[s] = "open" /\ tests[s] # 0

\* A repeated publication is answered with the assignment of the first one
\* (drafts.rs:170), which must still be there, with questions.
PublishedHasAssignment ==
    draft = "published" => batch \in {"published", "closed"} /\ links # {}

\* The requests that execute statements.
UnderWay == {r \in Request : pc[r] \notin {"begin", "done"}}

\* Its next statement can be executed: it waits for no lock, and there is a
\* question that it has still to write.
Ready(r) ==
    /\ pc[r] = "class" => classLock = Free
    /\ pc[r] = "row" => todo[r] # {}

\* A request that holds the lock of a draft waits for that of the class, and
\* ends anywhere.  Still, while a lock is held or a request is under way, there
\* is one that can go on: nobody waits for a lock whose owner has ended, or
\* waits for him.
NoDeadlock ==
    (UnderWay # {} \/ draftLock # Free \/ classLock # Free) => \E r \in UnderWay : Ready(r)

\* Nobody waits for ever for a lock: every request that has begun ends.
RequestsEnd == []<>(\A r \in Request : pc[r] \in {"begin", "done"})
=============================================================================
