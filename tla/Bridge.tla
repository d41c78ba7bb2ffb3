------------------------------- MODULE Bridge -------------------------------
(***************************************************************************)
(* The courses of the management service and the classes of the course     *)
(* service, kept together by calls from the one to the other inside a      *)
(* local transaction ("there is no distributed transaction between the two *)
(* services", deploy/remote/library-delete-20261006.md:9).  A request of   *)
(* the management service locks the row of its course, sends one call,     *)
(* waits for the answer at most for a while, and commits or rolls back;    *)
(* the call goes on in the course service after the request gave it up.    *)
(* Import copies rosters the other way, from a snapshot, and teachers      *)
(* change rosters, archive classes and open further ones in the course     *)
(* service, these under the code of a course, too.                         *)
(*                                                                         *)
(* A roster is the set of students and assistants; teachers are left out.  *)
(* What a deletion removes beside the class is the subject of Publishing.  *)
(***************************************************************************)
EXTENDS Naturals, FiniteSets

CONSTANTS
    Creator,  \* POST /courses
    Updater,  \* PUT /courses/{id}
    Deleter,  \* DELETE /courses/{id}
    Importer, \* POST /hoj/import
    Adder,    \* POST /api/offerings/{oid}/students
    Course,   \* ids of courses, never used twice
    Class,    \* ids of classes (offering_id), never used twice
    User,     \* students and assistants
    MaxRequests, \* bound on the requests that begin
    MaxEvents, \* bound on the acts of importers and of teachers
    None      \* no request, no course or no class

Request == Creator \cup Updater \cup Deleter
Roster == SUBSET User

ASSUME RolesAssumption ==
    /\ Creator \cap Updater = {} /\ (Creator \cup Updater) \cap Deleter = {}
    /\ None \notin Request \cup Course \cup Class
ASSUME BoundAssumption == MaxRequests \in Nat /\ MaxEvents \in Nat

VARIABLES
    course,    \* "none", "new" (not committed), "live", "deleted" or "void"
    roster,    \* the members of a course, as committed
    link,      \* hoj_offerings: the class of a course, or None
    rowLock,   \* who has locked the row of a course
    class,     \* cm_offering.status: "none", "active", "archived" or "gone"
    code,      \* the course in the code MGMT-{id} of a class, or None
    members,   \* cm_enrollment, the active rows
    pc,        \* "begin", "wait", "commit" or "done"
    on,        \* the course of a request
    body,      \* the roster it commits and sends
    to,        \* the class its call is for, None when the call is to find it
    handler,   \* where its call is
    answer,    \* "none", "ok" or "refused"
    snapshot,  \* what an import has fetched and not yet stored
    adding,    \* the class to which an adder may add, or None
    events,
    home,      \* history: the course a class was made for or last linked to
    broken,    \* history: courses of which a call was given up, lost its result,
               \* or was refused after it had made a class
    disturbed, \* history: courses not known to agree with their class
    opened     \* history: classes that a teacher opened under the code of a course

management == <<course, roster, link, rowLock>>
classes == <<class, code, members>>
requests == <<pc, on, body, to>>
calls == <<handler, answer>>
others == <<snapshot, adding, events>>
history == <<home, broken, disturbed, opened>>
vars == <<management, classes, requests, calls, others, history>>

Handler ==
    {"idle", "access", "find", "insert", "replace", "archive", "erase", "ended"}

TypeOK ==
    /\ course \in [Course -> {"none", "new", "live", "deleted", "void"}]
    /\ roster \in [Course -> Roster]
    /\ link \in [Course -> Class \cup {None}]
    /\ rowLock \in [Course -> Request \cup {None}]
    /\ class \in [Class -> {"none", "active", "archived", "gone"}]
    /\ code \in [Class -> Course \cup {None}]
    /\ members \in [Class -> Roster]
    /\ pc \in [Request -> {"begin", "wait", "commit", "done"}]
    /\ on \in [Request -> Course \cup {None}]
    /\ body \in [Request -> Roster]
    /\ to \in [Request -> Class \cup {None}]
    /\ handler \in [Request -> Handler]
    /\ answer \in [Request -> {"none", "ok", "refused"}]
    /\ snapshot \in [Importer -> SUBSET (Class \X Roster)]
    /\ adding \in [Adder -> Class \cup {None}]
    /\ events \in 0..MaxEvents
    /\ home \in [Class -> Course \cup {None}]
    /\ broken \in SUBSET Course
    /\ disturbed \in SUBSET Course
    /\ opened \in SUBSET Class

\* Some courses exist, some of them linked to their class; other classes were
\* made in the course service, some of them beside the class of a course and so
\* under its code; an import may have made courses of these as well.
Init ==
    /\ course \in [Course -> {"none", "live"}]
    /\ class \in [Class -> {"none", "active"}]
    /\ link \in [Course -> Class \cup {None}]
    /\ \A c \in Course :
          link[c] # None => course[c] = "live" /\ class[link[c]] = "active"
    /\ \A c, d \in Course : link[c] = link[d] => c = d \/ link[c] = None
    /\ home = [o \in Class |->
                  IF \E c \in Course : link[c] = o
                  THEN CHOOSE c \in Course : link[c] = o ELSE None]
    /\ code \in [Class -> Course \cup {None}]
    /\ \A o \in Class :
          code[o] \notin {None, home[o]} =>
              /\ class[o] = "active"
              /\ \E x \in Class : link[code[o]] = x /\ code[x] = code[o]
    /\ opened = {o \in Class : code[o] \notin {None, home[o]}}
    /\ roster = [c \in Course |-> {}]
    /\ members = [o \in Class |-> {}]
    /\ rowLock = [c \in Course |-> None]
    /\ pc = [r \in Request |-> "begin"]
    /\ on = [r \in Request |-> None]
    /\ body = [r \in Request |-> {}]
    /\ to = [r \in Request |-> None]
    /\ handler = [r \in Request |-> "idle"]
    /\ answer = [r \in Request |-> "none"]
    /\ snapshot = [i \in Importer |-> {}]
    /\ adding = [a \in Adder |-> None]
    /\ events = 0
    /\ broken = {}
    /\ disturbed = {}

-----------------------------------------------------------------------------
(* The management service, until the call is sent.                          *)

Live == {"access", "find", "insert", "replace", "archive", "erase"}

\* No call sent earlier for c goes on.
Settled(c) == \A r \in Request : on[r] = c => handler[r] \notin Live

Begin(r) ==
    /\ pc[r] = "begin"
    /\ Cardinality({x \in Request : pc[x] # "begin"}) < MaxRequests

\* sync_course: without the cookie of the course service nothing is sent.
Send(r, c, cookie) ==
    /\ on' = [on EXCEPT ![r] = c]
    /\ to' = [to EXCEPT ![r] = link[c]]
    /\ pc' = [pc EXCEPT ![r] = IF cookie THEN "wait" ELSE "commit"]
    /\ handler' = [handler EXCEPT ![r] =
          IF ~cookie THEN "idle" ELSE IF link[c] = None THEN "find" ELSE "access"]
    /\ disturbed' = IF cookie /\ Settled(c) THEN disturbed \ {c} ELSE disturbed \cup {c}

Create(r) ==
    /\ r \in Creator
    /\ Begin(r)
    /\ \E c \in Course, cookie \in BOOLEAN :
        /\ course[c] = "none"
        /\ course' = [course EXCEPT ![c] = "new"]
        /\ rowLock' = [rowLock EXCEPT ![c] = r]
        /\ Send(r, c, cookie)
    /\ body' \in {[body EXCEPT ![r] = s] : s \in Roster}
    /\ UNCHANGED <<roster, link, classes, answer, others, home, broken, opened>>

\* Mutant: the row is read without a lock.
CanLockAny(c) == course[c] = "live"

\* courses::lock.
CanLock(c) == course[c] = "live" /\ rowLock[c] = None

Update(r) ==
    /\ r \in Updater
    /\ Begin(r)
    /\ \E c \in Course, cookie \in BOOLEAN :
        /\ CanLock(c)
        /\ rowLock' = [rowLock EXCEPT ![c] = r]
        /\ Send(r, c, cookie)
    /\ body' \in {[body EXCEPT ![r] = s] : s \in Roster}
    /\ UNCHANGED <<course, roster, link, classes, answer, others, home, broken, opened>>

\* A course with a class is not deleted without the cookie.
Delete(r) ==
    /\ r \in Deleter
    /\ Begin(r)
    /\ \E c \in Course :
        /\ CanLock(c)
        /\ rowLock' = [rowLock EXCEPT ![c] = r]
        /\ on' = [on EXCEPT ![r] = c]
        /\ to' = [to EXCEPT ![r] = link[c]]
        /\ pc' = [pc EXCEPT ![r] = IF link[c] = None THEN "commit" ELSE "wait"]
        /\ handler' = [handler EXCEPT ![r] = IF link[c] = None THEN "idle" ELSE "archive"]
    /\ UNCHANGED <<course, roster, link, classes, body, answer, others, history>>

-----------------------------------------------------------------------------
(* The course service (management.rs:sync_course, course_deletion.rs).      *)

Answer(r, result) ==
    /\ handler' = [handler EXCEPT ![r] = "ended"]
    /\ answer' = [answer EXCEPT ![r] = result]

Proceed(r, label) == handler' = [handler EXCEPT ![r] = label] /\ UNCHANGED answer

\* offering_access with TEACH_WRITE.
Access(r) ==
    /\ handler[r] = "access"
    /\ IF class[to[r]] = "active" THEN Proceed(r, "replace") ELSE Answer(r, "refused")
    /\ UNCHANGED <<management, classes, requests, others, history>>

MadeFor(c) == {o \in Class : class[o] \in {"active", "archived"} /\ code[o] = c}

Find(r) ==
    /\ handler[r] = "find"
    /\ IF MadeFor(on[r]) = {}
       THEN Proceed(r, "insert") /\ UNCHANGED to
       ELSE \E o \in MadeFor(on[r]) :
                /\ to' = [to EXCEPT ![r] = o]
                /\ IF class[o] = "active" THEN Proceed(r, "replace") ELSE Answer(r, "refused")
    /\ UNCHANGED <<management, classes, pc, on, body, others, history>>

\* cm_course.code is unique, so the first class under a code is made once.
Insert(r) ==
    /\ handler[r] = "insert"
    /\ IF MadeFor(on[r]) = {}
       THEN \E o \in Class :
                /\ class[o] = "none"
                /\ class' = [class EXCEPT ![o] = "active"]
                /\ code' = [code EXCEPT ![o] = on[r]]
                /\ home' = [home EXCEPT ![o] = on[r]]
                /\ to' = [to EXCEPT ![r] = o]
                /\ Proceed(r, "replace")
       ELSE Answer(r, "refused") /\ UNCHANGED <<class, code, home, to>>
    /\ UNCHANGED <<management, members, pc, on, body, others, broken, disturbed,
                   opened>>

\* Mutant: the status is not read again under the lock of the class.
MayReplaceAny(o) == class[o] # "gone"

MayReplace(o) == class[o] = "active"

\* The transaction that replaces the roster, all of it or, when an account is
\* not valid, nothing.
Replace(r) ==
    /\ handler[r] = "replace"
    /\ \/ /\ MayReplace(to[r])
          /\ members' = [members EXCEPT ![to[r]] = body[r]]
          /\ Answer(r, "ok")
       \/ /\ Answer(r, "refused")
          /\ UNCHANGED members
    /\ UNCHANGED <<management, class, code, requests, others, history>>

\* A class that is gone is a success; solutions being judged, and the code of
\* another course, are refused.
Archive(r) ==
    /\ handler[r] = "archive"
    /\ \/ /\ class[to[r]] = "gone"
          /\ Answer(r, "ok")
          /\ UNCHANGED class
       \/ /\ class[to[r]] # "gone"
          /\ Answer(r, "refused")
          /\ UNCHANGED class
       \/ /\ class[to[r]] # "gone"
          /\ code[to[r]] \in {None, on[r]}
          /\ class' = [class EXCEPT ![to[r]] = "archived"]
          /\ Proceed(r, "erase")
    /\ UNCHANGED <<management, code, members, requests, others, history>>

\* The rows go in one transaction; when a step of it fails, the class stays
\* archived.
EraseClass(r) ==
    /\ handler[r] = "erase"
    /\ \/ /\ class' = [class EXCEPT ![to[r]] = "gone"]
          /\ members' = [members EXCEPT ![to[r]] = {}]
          /\ Answer(r, "ok")
       \/ /\ Answer(r, "refused")
          /\ UNCHANGED <<class, members>>
    /\ UNCHANGED <<management, code, requests, others, history>>

\* A call that was given up is cancelled when its connection is closed, or
\* with its service.
Die(r) ==
    /\ pc[r] = "done"
    /\ handler[r] \in Live
    /\ Proceed(r, "ended")
    /\ UNCHANGED <<management, classes, requests, others, history>>

-----------------------------------------------------------------------------
(* The management service, after the call.                                  *)

\* The transaction ends.
End(r) ==
    /\ pc' = [pc EXCEPT ![r] = "done"]
    /\ rowLock' = [rowLock EXCEPT ![on[r]] = None]

\* A call that was refused before it had found or made a class.
NothingMade(r) == answer[r] = "refused" /\ to[r] \in {None, link[on[r]]}

\* What is left of a course whose creation is rolled back is its id.
RollBack(r) ==
    /\ End(r)
    /\ course' = [course EXCEPT ![on[r]] = IF @ = "new" THEN "void" ELSE @]
    /\ broken' = IF NothingMade(r) THEN broken ELSE broken \cup {on[r]}
    /\ disturbed' = IF r \in Deleter /\ NothingMade(r) THEN disturbed
                     ELSE disturbed \cup {on[r]}
    /\ UNCHANGED <<roster, link, classes, on, body, to, calls, others, home, opened>>

\* The timeout of the call, an answer that is lost, or a failure of the
\* database after it.
GiveUp(r) ==
    /\ pc[r] = "wait"
    /\ RollBack(r)

\* Nothing was to be sent, or it was done.
Succeeded(r) == pc[r] = "commit" \/ (pc[r] = "wait" /\ answer[r] = "ok")

Taken(o) == \E c \in Course : link[c] = o

\* Mutant: the class that was found or made is not remembered.
LinkToNone(r) == link[on[r]]

\* Mutant: the id of the course is stored as that of the class.
LinkToCourse(r) == on[r]

LinkTo(r) == to[r]

\* The commit of a creation or an update, with the class it has found or made;
\* a class of another course violates the key of hoj_offerings.
CommitRoster(r) ==
    /\ r \in Creator \cup Updater
    /\ Succeeded(r)
    /\ IF to[r] # None /\ link[on[r]] # to[r] /\ Taken(to[r])
       THEN RollBack(r)
       ELSE /\ End(r)
            /\ course' = [course EXCEPT ![on[r]] = "live"]
            /\ roster' = [roster EXCEPT ![on[r]] = body[r]]
            /\ link' = [link EXCEPT ![on[r]] = LinkTo(r)]
            /\ home' = IF to[r] = None THEN home ELSE [home EXCEPT ![to[r]] = on[r]]
            /\ UNCHANGED <<classes, on, body, to, calls, others, broken,
                           disturbed, opened>>

\* The rows of the course are deleted with it.
CommitDeletion(r) ==
    /\ r \in Deleter
    /\ Succeeded(r)
    /\ End(r)
    /\ course' = [course EXCEPT ![on[r]] = "deleted"]
    /\ roster' = [roster EXCEPT ![on[r]] = {}]
    /\ link' = [link EXCEPT ![on[r]] = None]
    /\ UNCHANGED <<classes, on, body, to, calls, others, history>>

-----------------------------------------------------------------------------
(* Import (hoj.rs:import), and what teachers do in the course service.      *)

Event == events < MaxEvents /\ events' = events + 1

\* management.rs:context: the classes that are active, with their rosters.
Fetch(i) ==
    /\ Event
    /\ snapshot[i] = {}
    /\ snapshot' = [snapshot EXCEPT ![i] =
          {<<o, members[o]>> : o \in {x \in Class : class[x] = "active"}}]
    /\ UNCHANGED <<management, classes, requests, calls, adding, history>>

\* The transaction for one class.  Its rows refer to the row of the course, for
\* whose lock they wait.
Import(i) ==
    /\ \E x \in snapshot[i], c \in Course :
        /\ IF Taken(x[1])
           THEN link[c] = x[1] /\ rowLock[c] = None /\ UNCHANGED course
           ELSE course[c] = "none" /\ course' = [course EXCEPT ![c] = "live"]
        /\ link' = [link EXCEPT ![c] = x[1]]
        /\ roster' = [roster EXCEPT ![c] = x[2]]
        /\ home' = [home EXCEPT ![x[1]] = c]
        /\ disturbed' = disturbed \cup {c}
        /\ snapshot' = [snapshot EXCEPT ![i] = @ \ {x}]
    /\ UNCHANGED <<rowLock, classes, requests, calls, adding, events, broken, opened>>

\* create_offering: a further class of a cm_course, which is there as long as it
\* has a class.  The new class has the code of the cm_course: MGMT-{id}, or one
\* that is of no course.
OpenClass ==
    /\ Event
    /\ \E o \in Class, c \in Course \cup {None} :
        /\ class[o] = "none"
        /\ c # None => MadeFor(c) # {}
        /\ class' = [class EXCEPT ![o] = "active"]
        /\ code' = [code EXCEPT ![o] = c]
        /\ opened' = IF c = None THEN opened ELSE opened \cup {o}
    /\ UNCHANGED <<management, members, requests, calls, snapshot, adding,
                   home, broken, disturbed>>

\* add_students has checked that the class is open, and asks the management
\* service for each account.
BeginAdd(a) ==
    /\ Event
    /\ adding[a] = None
    /\ \E o \in Class :
        /\ class[o] = "active"
        /\ adding' = [adding EXCEPT ![a] = o]
    /\ UNCHANGED <<management, classes, requests, calls, snapshot, history>>

Involved(o) == {c \in Course : link[c] = o \/ code[o] = c}

\* A class that is gone has no rows.
Add(a) ==
    /\ adding[a] # None
    /\ \E u \in User :
        members' = IF class[adding[a]] = "gone" THEN members
                   ELSE [members EXCEPT ![adding[a]] = @ \cup {u}]
    /\ disturbed' = disturbed \cup Involved(adding[a])
    /\ adding' = [adding EXCEPT ![a] = None]
    /\ UNCHANGED <<management, class, code, requests, calls, snapshot, events,
                   home, broken, opened>>

\* drop_student.
Drop ==
    /\ Event
    /\ \E o \in Class :
        /\ class[o] = "active"
        /\ \E u \in members[o] : members' = [members EXCEPT ![o] = @ \ {u}]
        /\ disturbed' = disturbed \cup Involved(o)
    /\ UNCHANGED <<management, class, code, requests, calls, snapshot, adding,
                   home, broken, opened>>

\* update_offering.  The deletion holds the row of the class at its end only.
SetStatus ==
    /\ Event
    /\ \E o \in Class :
        /\ class[o] \in {"active", "archived"}
        /\ class' = [class EXCEPT ![o] = IF @ = "active" THEN "archived" ELSE "active"]
    /\ UNCHANGED <<management, code, members, requests, calls, snapshot, adding, history>>

-----------------------------------------------------------------------------

Call(r) ==
    \/ Access(r) \/ Find(r) \/ Insert(r) \/ Replace(r) \/ Archive(r) \/ EraseClass(r) \/ Die(r)

Finish(r) == GiveUp(r) \/ CommitRoster(r) \/ CommitDeletion(r)

Next ==
    \/ \E r \in Request : Create(r) \/ Update(r) \/ Delete(r) \/ Call(r) \/ Finish(r)
    \/ \E i \in Importer : Fetch(i) \/ Import(i)
    \/ \E a \in Adder : BeginAdd(a) \/ Add(a)
    \/ OpenClass \/ Drop \/ SetStatus

Spec == Init /\ [][Next]_vars

-----------------------------------------------------------------------------
(* Properties.                                                              *)

\* After an update that succeeded the two services have the same roster,
\* although updates, deletions and late calls overlap, unless a call of the
\* course failed or one of the rosters was changed apart since the update
\* began.  A class that an import took from the course whose code it carries is
\* still found, and overwritten, by that code.
Agreement ==
    \A c \in Course :
        course[c] = "live" /\ link[c] # None /\ rowLock[c] = None /\ c \notin disturbed
                /\ code[link[c]] \in {None, c}
            => members[link[c]] = roster[c]

\* A class outlives its course only when a call was given up, lost its result
\* or was refused after it had made the class: else deletions and failed
\* creations take both away, or neither.
NoOrphan ==
    \A o \in Class :
        class[o] \in {"active", "archived"} /\ home[o] # None
                /\ course[home[o]] \in {"deleted", "void"}
            => home[o] \in broken

\* A course can be deleted: its class does not carry the code of another course
\* (which course_deletion.rs:12 refuses), unless an import found the class while
\* the result of the call that made it was lost or not known yet, or a teacher
\* had opened the class under that code (offerings.rs:607).
Deletable ==
    \A c \in Course :
        \A d \in Course \ {c} :
            link[c] \in MadeFor(d) =>
                d \in broken \/ rowLock[d] # None \/ link[c] \in opened

\* Late calls do not bring back the roster of a class that was archived or
\* deleted meanwhile (library-delete-20261006.md:7); only an adder that had
\* checked the class before can.
ClosedRosterKept ==
    [][\A o \in Class :
          class[o] \in {"archived", "gone"} /\ (\A a \in Adder : adding[a] # o)
              => members'[o] \subseteq members[o]]_vars
=============================================================================
