# A verification of HOJ

HOJ is an online-judge platform for programming courses. This directory holds
TLA+ specifications of its two Rust services and of the page where a student
solves a problem, TLC configurations that model-check them on small instances,
and TLAPS proofs of their main theorems.
Every definition is translated from the source; the header of each module names
the files it models, and `PROJECT.json` maps each definition to its lines.

In the paths below, `course/` is `src/backend/src/` and `management/` is
`src/teacher-management/backend/src/`, and `web/` is `src/frontend/src/`.

## The system

Two services share a platform and talk HTTP.

The **course service** (`course/`, axum and sqlx, about 6,800 lines) owns
programming assignments. Its own tables (`codemind_course`) are InnoDB. The judge
HUSTOJ owns the database `jol`, which is MyISAM: no transactions, every
statement is final. The judge also reads test files from a directory that the
service writes. The service serialises its work with MySQL named locks.

The **management service** (`management/`, axum and diesel, about 9,900 lines)
owns courses, rosters, file assignments, uploads, sessions and OAuth. It uses
one InnoDB database, S3 for files and Redis as an optional cache. For some
operations it calls the course service from within a local transaction.

Each has a **front end**: `web/` (React) for the course service, and one of forms
and lists (Vue) for the management service. They share the cookies of a browser.

### Inventory

For each component: its state; its operations; what it interacts with; what is
hard; what makes it correct. The last column says where it is modelled.

| Component | State and operations | Hard behaviour and correctness | Module |
|---|---|---|---|
| Authentication cache (`app/cache.rs`, `identity/auth.rs`, `identity/permissions.rs`) | `cache_revision.auth_revision`; one Redis key with a fill token or an epoch; cached sessions and permissions. Obtain an epoch, read, store, invalidate. | Late or lost Redis commands, fills that overlap mutations, dead fill owners. Nobody is judged by data replaced two seconds ago; a DEL fences fills under way. | `AuthCache`, `AuthFreshness` |
| JSON read cache (`app/cache.rs`, `academic/assignments.rs`) | `cache_revision.revision`; bodies in Redis with deadlines. Look up, recheck, build, store. | Bodies of several SELECTs with commits between, late SETs, the clock passing a due time. A served body is one committed state, in the right phase. | `ReadCache` |
| Uploads (`files/mod.rs`, `files/storage.rs`) | Rows of `file_info`, S3 objects. Touch, upload, finish, clean up. | Cleanup works on S3 outside transactions, beside finishes and submissions. No submitted file is lost, no object orphaned. | `Uploads` |
| File submissions and scores (`academic/submissions.rs`) | Rows of `submissions`. Create, score, list. | Resubmission while a teacher scores. | `Uploads` (create) |
| Submission to the judge (`hustoj.rs`, `routes/batches.rs`, `routes/public_problems.rs`) | `jol.solution`, `source_code`, `cm_submission`. Insert in two phases. | Requests that end half-way; problems removed meanwhile. The judge gets complete work. | `Assignment` |
| Assignment editing (`assignment_edit.rs`, `authoring.rs`) | `cm_batch`, `cm_batch_problem`, problems, tests. Edit, remove, clean problems. | A dozen statements on two databases and a file system under named locks; any may be the last. | `Assignment` |
| Publishing, drafts, library (`authoring.rs`, `routes/drafts.rs`, `routes/teacher_library.rs`, `routes/problem_sets.rs`) | `cm_authoring_draft`, `cm_batch`, questions and tests. Draft, save, publish, deploy, remove. | Statements on two databases and files under two named locks; repeated after a failure; several classes one after the other. Students see an assignment once, whole. | `Publishing`, `Publication` |
| Course deletion (`course_deletion.rs`) | All rows of a class. Back up, archive, delete, retry. | A retry after any failure; locks shared with the above; a class opened again meanwhile. | `Publishing`, `Bridge` |
| Course synchronisation (`identity/hoj.rs`, `academic/courses.rs`, `course/routes/management.rs`) | Courses and rosters in both databases, and the link between them. Create, update, delete, import. | A remote write inside a local transaction: calls that time out and go on. Same rosters, no class without a course. | `Bridge` |
| Page of a problem (`web/components/Platform.tsx`, `PublicProblems.tsx`, `TrialPanel.tsx`, `AppShell.tsx`, `web/lib/`) | The state of a tab; drafts in localStorage. Load, type, submit, poll, try, leave. | Answers late, lost, in any order, of another page; users who change in another tab. Everything shown belongs to this user and page; buttons come back. | `Workspace` |
| Sessions, OAuth, tickets (`identity/`) | Accounts and hashes, sessions, tickets, codes. Log in, renew, change a password, import, deactivate, exchange a ticket. | A hash takes long to verify, a lookup comes before its transaction, a cached session is renewed. No session outlives its password; tickets work once. | `Sessions` |
| Redis connection (`app/cache.rs`) | One shared connection with a generation. | An old failure must not drop a new connection. | not modelled |
| Course accounts, limits; listings; problem bank; statistics and external API; start-up and tools; the other pages of both front ends | Lookups, queries, static data, forms and lists. | Little state of their own. | not modelled |

`PROJECT.json` lists all components with their sources, and every hazard with its
line and the properties that would catch it, or why there is none.

## Modules

| Module | What it is |
|---|---|
| `AuthFreshness` | Abstract: what the authentication cache promises, without Redis. |
| `AuthCache` | The protocol of `app/cache.rs`. |
| `AuthCacheProofs` | Its invariants and the refinement of `AuthFreshness`, proved. |
| `ReadCache`, `ReadCacheProofs` | Cached bodies, and the proofs about them. |
| `Uploads`, `UploadsProofs` | Uploads, submissions and cleanup, and the proofs. |
| `Grading` | Abstract: what an assignment promises to its students and teachers. |
| `Assignment`, `AssignmentProofs` | One published assignment: submissions, judge, editions, removals; the proofs, with the refinement of `Grading`. |
| `Publication` | Abstract: what publishing promises about one draft. |
| `Publishing` | Drafts, their publication, removal and the deletion of the class. |
| `PublishingProofs` | The refinement of `Publication`, proved. |
| `Bridge`, `BridgeProofs` | Courses of the one service and classes of the other, and the proofs. |
| `Sessions`, `SessionsProofs` | Accounts, sessions and mobile tickets, and the proofs. |
| `Workspace`, `WorkspaceProofs` | A tab of the browser, and the proofs. |
| `MC*` | Symmetry sets, views and constants for TLC; they add nothing else. |

Each `*Proofs` module extends its component. Operators marked "Mutant" are the
bugs that the properties were tried against; no specification uses them.

### AuthCache

`revision` counts commits of `auth_revision` (UUIDs in the code); data is named by
the revision that was committed when it was read, so `verdict[r][s]` says how old
the data was by which request `r` was judged, at the stage of its session and
that of its course permissions. `slot` is the one Redis key. `claims`,
`publishes`, `puts` and `deletes` hold the commands that were sent: `Serve*`
executes them whenever it likes or never, whether or not the sender still waits.
`load_auth_epoch` is `EpochHit`, `EpochNone`, `SendClaim`, `ServeClaim`,
`SelectRevision`, `ServePublish`, `GiveUp`, in this order; `auth_get` is `Fetch`
and `Accept`; the database fallback is `Load`; `auth_put` is `Store` and
`ServePut`. A mutation is any handler whose transaction ends with
`invalidate_auth`. `replacedAt`, `fenced` and `floor` are history variables.

The lifetime of a cached value (300 s at most) is not a variable: a value that
has expired is one more case of `Load`.

Clocks: the service and Redis share `now`. The code relies on this (it gives
Redis absolute deadlines).

### ReadCache

One key. `kind` chooses the handler: "list" queries its boundary and rows after
the miss; "detail" has the assignment from an extractor that runs after the
revision was read and before the cache is asked. A body is a *frame*: the due
time, whether it says the assignment is open, the count of submissions and the
deadline. The start time is left out: `next_boundary` and `get_one` treat it as
the due time. A frame may enter Redis by a SET executed any time after it was sent.

### Uploads

`state` is `upload_state`, with "untouched" and "removed" for no row. `Scan` and
`Claim` split the locking SELECT of `claim_cleanup`: its subqueries read what is
committed when it begins and its rows are read when they are locked.
`DeleteObject` deletes the objects of a batch one by one; a cleanup may stop
anywhere, as a failure does. `For` fixes which submission a file is for. References
from grading documents are left out, because nothing in `src/` writes them.

### Assignment

One assignment with one question. Statements on `jol` are actions of their own;
a transaction in `codemind_course` is one action. A submission goes through
`StartHomework` (or `StartPractice` on the public list), `EnterClass`, `Admit`,
`EnterProblem`, `Validate`, `Insert`, `Link`, `SaveSource`, `Queue`; the judge is
`Pick` and `Finish`. A teacher's request is `LoadDocument`, `Begin`,
`EnterClassroom`, `Check`, `Close` and what its `task` needs: "same" and "title"
keep the question, "rewrite" changes it, "replace" puts another one in its place,
"remove" removes the assignment. `Abort` ends a request between two statements and
gives back its locks, as `with_lock` does when a request is cancelled
(`authoring.rs:279`).

`Grading` is the same assignment without problems, locks, stages and half-done
requests: a submission is unsent, pending, judged or dropped, one teacher at a time
is its editor, and the question changes only while nothing is judged by the old one.
The refinement mapping computes its variables from those of `Assignment`: the
`place` of a submission (`Place`) from its link and its result, so that a judged
solution whose row an edition has just moved is pending again; the question it was
judged `by` (`JudgedBy`) from the tests that were there; the `editor` (`Editor`) from
the owner of the lock of the class, once `Check` has let him pass and until his
commit. Practising students are not seen at all. An abort after a commit, or while
the old problem is removed, is a stutter; one before it is `Leave`.

`Ready(x)` says when the next statement of a request can be executed: it waits for no
lock, and a problem it has to make finds a free id. `NoDeadlock` asks that one of the
requests under way is ready.

Left out: statistics, feedback tables, backups, weights and languages, and the
`submit_state` of `cm_submission`, which nothing reads. A statement that is under
way when its request is cancelled counts as done or not done at that moment,
although the work under `with_lock` runs on other connections than the lock's and
might outlive it; the hazards list says so. `revision` stands for the SHA-256 of the
document (`assignment_edit.rs:21`, `:87`): a counter tells two equal documents apart, so an
edition of a document that was changed and changed back, which the code accepts, is
refused here. At its end the code also cleans the problems the edition has linked, and
of a question it kept the problem itself (`assignment_edit.rs:114`, `:116`); these
are referred to, so that `clean_problem` only recounts them, and the model goes on
without (`AfterClean`). The first publication and the deletion of the class are the
subject of `Publishing`.

### Publishing

One draft of one class: drafts share only the lock of their class. `draft`,
`content`, `batch` and `links` are its rows in `codemind_course`; `row[s]` and
`tests[s]` are a question's row in `jol.problem` and its files. Every statement
is a step, a transaction one step, and any request may fail or be cancelled
between two (`Abort`), which gives back its named locks. A *publisher*
(`routes/drafts.rs:publish`) is `TakeDraftLock`, `ReadDraft`, then under the lock of the
class `CheckClass`, `EnsureBatch`, for each question `SyncRow` and `WriteTests`,
`HideOthers`, `OpenQuestions`, `Commit`. A *spreader* is one class of
`publish_to_offerings` or `deploy`: `InsertDraft`, then the same without the draft's
lock. An *editor* saves, a *remover* deletes the draft or its assignment
(`ReadForRemoval` or `BeginRemoval`, `CloseBatch`, `Erase`, `RemoveTests`, `RemoveRow`,
`DropDraft`), a *closer* deletes the class (`ArchiveClass`, `BeginWipe`, the questions,
`DeleteClass`), and `SetStatus` is a teacher who archives the class or opens it
again without any named lock. `wiping` is a history variable: from the moment a
deletion holds the row of the class, what it takes away counts as withdrawn,
although a deletion that fails leaves the assignment there with half of its
questions.

`Patient` is the assumption under which the code keeps its promise: nobody
publishes, saves or removes a draft before the request that inserted it has
ended. The code does not enforce it, and `publishing_overlap` shows what happens
without it. Left out: the submissions, which keep a question alive (in
`Assignment`), editions of a published assignment (there too), and drafts of the
personal library that belong to no class.

### Bridge

A course has a roster in the management service and, when it is linked, a class
with members in the course service. `Create`, `Update` and `Delete` lock the row of
the course, set what they will commit (`body`) and send one call; `handler` says
how far the call is (`Access` or `Find` and `Insert`, then `Replace`; `Archive`, then
`EraseClass`). `CommitRoster` and `CommitDeletion` come after a good answer; `GiveUp` is
a timeout, a lost answer or a failure of the local database, after which the call
goes on unless it is cancelled (`Die`). `Import` stores one class of a snapshot that
`Fetch` took; `OpenClass`, `BeginAdd`, `Add`, `Drop` and `SetStatus` are teachers in
the course service. `EraseClass` may fail and then leaves the class archived.
`home`, `broken`, `disturbed` and `opened` are history variables. `home` is the course
a class was made for or last linked to. `broken` holds the courses of which a
call was given up, lost its result, or was refused after it had made a class
(`NothingMade`). `disturbed` holds those not known to agree with their class,
because a roster was changed apart from an update or may still be changed by
something sent before. An import may link a class to a second course while it
carries the code of the first, which still finds and overwrites it by that code;
`Agreement` exempts such a class and `Deletable` says when there can be one: when
the result of the call that made the class was lost or not known yet, or when a teacher
opened it.

`opened` holds the classes that `create_offering` (`offerings.rs:579`) has put beside
the class of a course, under its `cm_course` and so under its code `MGMT-{id}`. They
are of no course until an import makes one of them. From then on that course cannot be
deleted: `course_deletion.rs:12` compares the code with the id of the course and
refuses, today and for ever, although every call succeeded. `Deletable` exempts these
classes, since nothing in the code keeps it for them. When the course whose code
they carry is deleted they stay, and are orphans only by that code: `NoOrphan` speaks of
classes that were made for a course or linked to one. `Init` has such classes, too.

`ClosedRosterKept` speaks of the calls of the management service. `add_students`
checks the class once and then adds one user after the other, so it may add to a
class archived since; the property exempts it, and the hazards list says so.
Teachers, titles and the validation of accounts are left out; what deletion
removes beside the class is in `Publishing`.

### Sessions

A request reads, works, and then runs one transaction which locks the row of the
user first. `LoginRead` reads the hash; `LoginCommit` compares it again and opens a
session, after verifying for as long as it likes. The callback of the single
sign-on is `FindAccount`, `CreateAccount` (which never brings back an account) and
`Issue`. `ChangeRead` and `ChangeCommit` change a password; `Reset`, `BatchCreate`,
`CreateUser`, `Deactivate`, `Logout` and `CleanAllSessions` are one transaction each.
`Load` and `Renew` are a request that finds its session close to its end, `Bridge`,
`FindTicket` and `Redeem` the ticket of the mobile client. A hash is salted, so no
two are the same and `password` counts them. `made`, `from` and `void` are history
variables: the hash and the ticket behind a session, and the tickets used up.
Left out: the codes and tokens of OAuth, which one transaction each uses up; the
reminder of an expired password; accounts imported from the course service,
whose password is kept there and which cannot log in here (`auth.rs:579`). What
requests see of a session through the cache is in `AuthCache`.

### Workspace

One tab, which shows a page of an assignment, one of the public library, or none
(`Away`); other tabs are `Elsewhere`, which changes the cookie. `net` holds the
requests somebody still waits for. An effect that is cleaned up ignores its
answers (`active` in the code), so `Without` takes its requests out of `net`; the
answers themselves come whenever they like, or fail. `work` is the state of the
mounted `Workspace` or `PublicProblemWorkspace`, `trial` that of `TrialPanel`; `ledger`
is a history of all submissions. A text is known by its author and page, so that
a draft in the wrong place can be told. A verdict is known by its submission's
number. Left out: languages, the AI analysis and hints, and the other routes.

A page that is open while another tab signs in as somebody else works on for its
own user while the server goes by the new cookie. What it asks for then is that
account's, accepted library code included, and `LoadPrevious` (the button is there on a
closed page, too) puts it into the draft of the page's user. `mixed`, a history
variable, holds the pages of a user that were once served to another account, and
`DraftsApart` allows somebody else's library code there and nowhere else; the user's
own library code is allowed on every page. Likewise `by` in the ledger is the user
the page works for, not the account the server wrote the submission to. `Leave` to
the sign-in page does in one step what the code does in two when somebody signs out: it
empties the header and then navigates (`AppShell.tsx:38`), and for a moment between
the two the header names nobody while the page is still there. `ShellAgrees` is not
about that moment.

## What the runs check

| Run | Instance | Shows |
|---|---|---|
| `authcache` | 2 requests, 1 mutation, lease 2, time 0..3 | `FencedSlot`, `FreshAfterDelete`, `ImplementsFreshness` |
| `authcache_live` | 1 request, 2 mutations | `FillEnds` |
| `readcache` | 2 requests, 2 commits, time 0..2, lists and details | `CurrentEntryAccurate`, `HitIsSnapshot`, `HitInPhase` |
| `uploads` | 2 files of 1 submission, 1 finish, 2 cleanups, 2 rounds of 1 file, time 0..3 | `SubmittedKept`, `NoOrphan`, `GraceKept` |
| `assignment` | 2 homework, 1 practice, 2 teachers, 1 abort | `VerdictCurrent`, `QuestionUsable`, `SolutionHasProblem`, `NoDeadlock` |
| `assignment_live` | 1 homework, 1 practice, 2 teachers, no abort | `JudgeIsFed`, `EverySolutionSettles`, `ImplementsGrading` |
| `publishing` | 1 request of each kind, 2 questions, 2 versions, 1 abort, `Patient` | `PublishedHasAssignment`, `ImplementsPublication`, `RequestsEnd` |
| `bridge` | 2 courses, 2 classes, 1 member, 1 creation, 2 updates and 1 deletion of which 3 happen, 1 import or act of a teacher | `Agreement`, `NoOrphan`, `Deletable`, `ClosedRosterKept` |
| `sessions` | 1 user, 1 login, 1 callback, 1 change of password, 1 visit, 2 exchanges, 3 sessions, 2 tickets, 1 new hash each, time 0..3 | `SessionsCurrent`, `TicketOnce`, `NoRevival` |
| `workspace` | 2 users, 1 page of each kind, 2 submissions, 1 repeated poll | `DraftsApart`, `VerdictOwn`, `TrialHonest`, `ShellAgrees`, `OneWait` |
| `assignment_code`, `publishing_overlap` | 2 teachers; 2 publications of a draft | the two findings below |

The first run of each module also checks its `TypeOK`. Deadlock is not checked:
requests are finite in number and the clock is bounded, so every behaviour of
those models ends. `Workspace` is the exception: a tab can always be used, and
its run checks deadlock too. `NoDeadlock` of `Assignment` is the deadlock of a part: it
speaks of requests that have begun, where TLC's check would be content with a teacher
who may still begin; in `publishing` the liveness `RequestsEnd` implies it.

**Why these bounds.** The races are between one actor that works from old data and
one that changes it, so two of a kind, one of them late, reach each of them; the
clock has room for a lease (or a lifetime, or a grace) to run out and something
to happen after it; a revision more than the one a late actor holds is enough to
be out of date, and the second commit of `readcache` lets a body be torn
between two. `uploads` needs two files (the old and the new file of a
resubmission) and two rounds so that the cursor matters. In `assignment` two
teachers are needed for conflicting revisions and for a request that comes
after one that ended half-way, two homework submissions for an edition that
stops between moving one and the other, and a practising student because he does
not take the class's lock. TLC checks `ImplementsGrading` in `assignment_live`, where
no request ends half-way, because with these it takes longer than its run may;
the theorem `Refinement` has them. `publishing` needs two questions, so that a
publication can stop between them and a saved version can drop one, and one
failure, after which any other request may repeat the work. In `bridge` three
requests let a call that was given up meet two later ones; the second course and
class are those an import makes or steals, or a teacher has opened. In `sessions` two exchanges can hold one
ticket or a ticket and its replacement, one change of each hash is enough for a
login or a session to be late, one user is enough because users meet only in
operations that end the sessions of several, and the clock has room for a session to be
renewed, to end and to be past its grace. In `workspace` a page of each kind is
enough because their code differs and pages of one kind differ only by name; the
second submission is the one an old answer can spoil, and one repeated poll
stands for 60 or 80. `bridge` and `workspace` have a view, which takes two states for one
when they differ only in what no action and no property reads any more: what a request
leaves behind that has ended, and whose call has, and where a submission was made
whose number nobody shows or awaits. Each property was tried against a mutant of the code,
listed in `PROJECT.json`, which violates it within the same bounds. The theorems
hold for all bounds.

**Fairness.** `AuthCache!FairSpec` assumes only that time passes and that Redis
removes expired keys; requests may stop anywhere. `Assignment!FairSpec` assumes
that requests which have begun go on, one step at a time, and that the judge
works; weak fairness of a request that waits for a lock is enough in these
instances, since the lock is free for good once its last other user is done,
and it corresponds to the polling loop of `with_lock`, whose deadline of 30
seconds is not modelled. `Publishing!FairSpec` asks less: as long as some request
that has begun can take a step, one of them does, which says that statements
return and that a free lock is given to somebody. Nothing makes a teacher or a student begin a request.

### What the runs that end in a violation show

- `assignment_code`: a removal that ends between deleting the sources and the
  solutions leaves judged solutions without source, and a later edition sends
  them to the judge again, against "judges again with the original code"
  (`deploy/remote/library-workflow-20261006.md:10`).
- `publishing_overlap`: a draft that `publish_to_offerings` has inserted is visible
  before it publishes it, and it does so without the draft's lock "because the id
  of a new draft is unique" (`routes/problem_sets.rs:452`). A second publication of
  the draft rewrites its questions and their tests in place while students can
  open them, against "students never see a half-made product"
  (`authoring.rs:4`).

Three more divergences, seen in the models and not run. `hustoj.rs:99` and
`schema/001_cm_course.sql` speak of a reconciliation task for submissions that
failed half-way; there is none in the repository, such a row keeps result 14,
and `require_idle` then refuses every edit, removal and course deletion. An edition writes back
the status it read before it had the lock (`assignment_edit.rs:83` and `:112`), so
archiving the class meanwhile leaves a published assignment in it, against
`deploy/remote/library-delete-20261006.md:7`; the management service no longer
calls the route that archives without deleting. And a publication that fails
after `OpenQuestions` leaves its questions in the public list, although
`authoring.rs:124` says that students do not see them.

## What is proved

The assumptions are those named `...Assumption` in the modules: bounds are natural
numbers; in `Uploads`, a form lives no longer than the grace (`config.rs:84`), and
each file is for one submission; in `Publishing`, a request has one role and no
owner of a lock is the mark of a free one; in `Bridge` and `Sessions`, a request has
one role and the mark for nothing is none of the values; in `Workspace`, the marks for nobody,
no page and no text are none of the values. Sets of requests, mutations, files,
questions, courses, classes, sessions, users and pages are arbitrary. Each proof module defines
`IInv`, shows `Init => IInv` and `IInv /\ [Next]_vars => IInv'` with one lemma per
conjunct and one step per action, and derives the properties from it.

- **AuthCacheProofs.** `TypeCorrect`, `Fencing`, `ReadsAfterDelete`, `Entries`,
  `Refinement`. None of the properties is inductive. `LeaseInv` says that a deadline
  lies within a lease of now and of the moment its revision was replaced: it is
  fixed before the SELECT, so a revision read later was still current then.
  `FenceInv` says the same of tokens: the owner of the token in the key has not
  read a revision older than the last DEL, because a DEL would have removed the
  token. `ProgressInv` ties `pc` to the commands that may still be under way.
  `FloorInv`, `PutInv` and `FetchInv` carry the lower bounds from the epoch to
  values sent, stored and fetched. The refinement maps every variable of
  `AuthFreshness` to the variable of that name; `Accept` and `Load` map to `Judge`.
- **ReadCacheProofs.** `TypeCorrect`, `StoredAccurate`, `HitsAreSnapshots`,
  `HitsAreInPhase`. `Undisturbed(r)` says what each step of a request has read as
  long as no commit happened since it read the revision; the invariant claims it
  only while `known[r] = revision`. `FutureEmpty` says that nothing lies under a
  revision to come, so a commit starts from an empty entry.
- **UploadsProofs.** `TypeCorrect`, `SubmittedFiles`, `NoOrphans`, `GraceIsKept`.
  `FormInv` says that when cleanup takes a file its form has expired: this is where
  the assumption on the lifetime is needed. `FinishInv` covers a finish between
  the answer of S3 and its UPDATE, `CleanInv` a cleanup between claim and
  deletion. A claimed file never returns to use.
- **AssignmentProofs.** `TypeCorrect`, `VerdictsCurrent`, `QuestionsUsable`,
  `SolutionsHaveProblems`, `EditionsKept`, `JudgeFed`, `CodeKept`, `SomebodyGoesOn`,
  `Refinement`. Each statement of an edition is
  a step and may be its last, so the invariant says of every stage what the
  request that has the lock of the class (`Locked`) finds and has made: `Edition`
  that the submissions it listed are judged, gone or already moved, `Fresh` that
  the new problem is complete before it is linked, `Unused` that the one it removes
  has no solution and gets none. `Stages` and `Current` then give the verdicts: what
  a request that ended has left at 14 is never judged. `JudgeFed` assumes that
  none ends half-way (`MaxAborts = 0`) and adds `Fed`. `Counted` bounds the editions by
  the requests that have committed, with the library's facts on cardinality.
  `CodeKept` has the same assumption: the promise that `assignment_code` sees
  broken is broken only by requests that end half-way.

  The last two need more than `IInv` (`FullInv`). `Holding` is the converse of
  `Locked`: a lock that is taken belongs to a request that is at a statement under
  it. `Numbered` counts: at most as many problems were made as requests are past
  that statement, and one, so a request that needs an id finds one. Then the
  owner of a problem's lock is always ready, the owner of the class's lock is ready
  or waits for such an owner, and everybody else for one of these
  (`ProblemHolderReady`, `ClassHolderReady`, `SomebodyGoesOn`). For `Refinement`,
  `Settled` says that a linked submission is past its link and `Emptied` that a request
  which replaces or removes has listed every submission and, at its commit, left no
  result. One lemma per group of statements (`SubmitView`, `EditView`, ...,
  `AbortView`) names the step of `Grading` it is, or shows that nobody sees it.
  `NoLostEdition` is one conjunct of what `Grading` says of `Edit`, so only the
  refinement is run; `EditionsKept` states it directly.
- **PublishingProofs.** `TypeCorrect`, `Refinement`, `PublishedSafe`, `SomebodyGoesOn`,
  `WholeWhenPatient`; `Refinement` and `WholeWhenPatient` assume `Patient`. `Held` says which locks a request holds at each statement,
  `Alone` that nobody else works on a fresh draft, `Order` that a publication
  under way has the content last saved and that a published batch has a published
  draft, `Made` that the questions written so far have their row and the tests of
  the version that is published. The batch, the row and the tests of a question
  are then what `Commit` needs for the step `Publish` of `Publication`; every other
  step but `SaveDraft`, `Erase`, `CloseBatch` and those of a deletion is a stutter.
  `WholeWhenPatient` shows that what goes wrong in `publishing_overlap` is all that
  goes wrong. `SomebodyGoesOn` rests on `Occupied`, the converse of `Held`: the lock
  of the class has an owner that is at a statement under it and waits for no other
  lock, because the draft's lock is always taken first.
- **BridgeProofs.** `TypeCorrect`, `RostersAgree`, `OrphansAreBroken`,
  `CoursesDeletable`, `ClosedStaysClosed`. A property of a course at rest rests on
  what the request that has locked its row may still commit (`Owners`, `Sent`), and
  on what calls that were given up may still do to a class that another course
  may have by now (`Targets`, `Quiet`). A class belongs (`BelongsTo`) to the course it
  was made for or linked to and, unless a teacher opened it, to the one whose code it
  has. `Homes` says that an open class is linked to the course it belongs to, or is
  about to be by a request that holds the lock, unless the course is broken; `NoOrphan` and `Deletable` follow. `Delivered` says that between a
  good answer and its commit nobody else replaces the roster of the class,
  `Agreed` that afterwards only its own calls do.
- **SessionsProofs.** `TypeCorrect`, `SessionsAreCurrent`, `TicketsOpenOnce`,
  `GoneStaysGone`. Every change of a hash or an account ends the sessions of its
  user in the same transaction, so `SessionsCurrent` needs only that a session is
  opened with the hash read again under the lock. `Pending` says that a ticket in
  its row was never redeemed or replaced and belongs to one live session.
- **WorkspaceProofs.** `TypeCorrect`, `DraftsStayApart`, `VerdictsOwn`, `TrialsHonest`,
  `ShellsAgree`, `WaitsForOne`. What a tab shows is overwritten by answers, so the
  invariant says of each request under way what its answer may find: `Places`
  what can be mounted where and that a page served to another account is in `mixed`, `Single` that a page waits for its identity or its
  data, not both, `Numbers` and `Trials` that a poll is for the submission or the
  trial on display, `Waits` that there is one at a time. One lemma per action.

Only model-checked: the liveness properties (`FillEnds`, `EverySolutionSettles`,
`RequestsEnd`), which need fairness and ENABLED, out of the prover's reach. The
two theorems `SomebodyGoesOn` prove the part of the last two that is safety: a state
in which every request under way waits is never reached, with any number of
requests. `Ready` stands for ENABLED there and is read off the guards; that a request which
is ready does execute its statement, and that requests have finitely many, is what
fairness and the models' runs add. `EntryNotOlder` and `NoLostEdition` are proved
(`Entries`, `EditionsKept`) but not run: what old entries would do to a verdict is what
`FreshAfterDelete` and `ImplementsFreshness` check, and `ImplementsGrading` implies
the other.

## Not modelled, and why

The share of the repository that the modules map is small by lines, because
most of its JavaScript is a vendored editor (`frontend/public/editor/ace`, 33,000
lines), test probes of the management service and pages of forms. Of the
two front ends only the page of a problem has state that several answers
change; the other pages load, show and send one request each, and what these do
is modelled on the server. The codes and tokens of OAuth are used up by one
transaction each; listings, statistics, the problem bank and start-up keep no
state that anything else depends on.

## Plan

Done: the modules above, each with proofs. Next, in this order:

1. Weights and the settings of an assignment in `Assignment`.
2. The cookies a browser shares between tabs, which a late renewal or a late 401
   may set back after a newer login.
3. Scores beside resubmissions, and trial runs with their lock, on the server.
4. The AI analysis of a result in `Workspace`.

None of the modules uses RECURSIVE operators.
