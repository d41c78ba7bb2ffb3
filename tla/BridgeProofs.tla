---------------------------- MODULE BridgeProofs ----------------------------
(***************************************************************************)
(* Theorems about Bridge, for any number of courses, classes, users and    *)
(* requests.                                                               *)
(*                                                                         *)
(* None of the invariants but the type is inductive by itself: a property  *)
(* of a course at rest rests on what the request that has locked it may    *)
(* still commit (Owners, Sent) and on what calls that were given up may    *)
(* still do to a class that is linked to another course by now (Targets,   *)
(* Quiet).                                                                 *)
(***************************************************************************)
EXTENDS Bridge, TLAPS

Syncer == Creator \cup Updater
Open(o) == class[o] \in {"active", "archived"}

\* The lock of a row, and the request that holds it until its end.
Owners ==
    /\ \A r \in Request :
        pc[r] \in {"wait", "commit"} =>
            /\ on[r] \in Course
            /\ rowLock[on[r]] = r
            /\ course[on[r]] = IF r \in Creator THEN "new" ELSE "live"
    /\ \A c \in Course :
        rowLock[c] # None => on[rowLock[c]] = c /\ pc[rowLock[c]] \in {"wait", "commit"}

\* Only courses that exist are linked, each to a class of its own.
Links ==
    /\ \A c \in Course : link[c] # None => course[c] = "live" /\ class[link[c]] # "none"
    /\ \A c, d \in Course : link[c] = link[d] => c = d \/ link[c] = None

\* What is known of a class that does not exist, or not any more.
Classes ==
    /\ \A o \in Class : class[o] = "none" => code[o] = None /\ home[o] = None
    /\ \A o \in Class : class[o] = "gone" => members[o] = {}
    /\ \A o \in Class, d \in Course : d \in {home[o], code[o]} => course[d] # "none"
    /\ \A r \in Request : to[r] # None => class[to[r]] # "none"
    /\ \A r \in Request : on[r] # None => course[on[r]] # "none"
    /\ \A i \in Importer : \A x \in snapshot[i] : class[x[1]] # "none"
    /\ \A a \in Adder : adding[a] # None => class[adding[a]] # "none"

\* The stages of a call.
Calls ==
    \A r \in Request :
        /\ pc[r] = "begin" =>
            on[r] = None /\ to[r] = None /\ handler[r] = "idle" /\ answer[r] = "none"
        /\ pc[r] = "commit" => handler[r] = "idle" /\ answer[r] = "none"
        /\ pc[r] # "begin" => on[r] \in Course
        /\ answer[r] # "none" => handler[r] = "ended"
        /\ handler[r] \in {"access", "find", "insert", "replace"} => r \in Syncer
        /\ handler[r] \in {"archive", "erase"} => r \in Deleter
        /\ handler[r] \in {"access", "replace", "archive", "erase"} => to[r] \in Class
        /\ handler[r] \in {"find", "insert"} => to[r] = None
        /\ handler[r] = "erase" => code[to[r]] \in {None, on[r]}
        /\ answer[r] = "ok" => to[r] \in Class

\* What a request that holds a lock will commit.
Sent ==
    \A r \in Request :
        /\ r \in Syncer /\ pc[r] \in {"wait", "commit"} => link[on[r]] \in {None, to[r]}
        /\ r \in Deleter /\ pc[r] = "wait" => to[r] = link[on[r]] /\ to[r] \in Class
        /\ r \in Deleter /\ pc[r] = "commit" => link[on[r]] = None
        /\ r \in Deleter /\ answer[r] = "ok" => class[to[r]] = "gone"

\* A class is of the course of the call, is linked to it, or is gone.
Targets ==
    \A r \in Request :
        to[r] # None =>
            code[to[r]] = on[r] \/ link[on[r]] = to[r] \/ class[to[r]] = "gone"

\* Where a class belongs.  One that a teacher opened under the code of a course
\* does not belong to that course before it is linked to it.
BelongsTo(o, d) == home[o] = d \/ (code[o] = d /\ o \notin opened)

\* The class o of the course d is linked to it, or about to be.
Kept(o, d) ==
    \/ link[d] = o
    \/ rowLock[d] \in Syncer /\ pc[rowLock[d]] = "wait" /\ to[rowLock[d]] = o

Homes ==
    \A o \in Class, d \in Course :
        Open(o) /\ BelongsTo(o, d) /\ d \notin broken => Kept(o, d)

\* Of a course that is not disturbed, no call goes on that was given up.
Quiet ==
    \A r \in Request :
        /\ handler[r] \in Live /\ pc[r] = "done" => on[r] \in broken \cap disturbed
        /\ r \in Syncer /\ pc[r] = "commit" => on[r] \in disturbed

\* The roster that was sent is that of the class until it is committed, unless
\* the class was linked to another course meanwhile.
Delivered ==
    \A r \in Request :
        r \in Syncer /\ pc[r] = "wait" /\ answer[r] = "ok" /\ on[r] \notin disturbed
                /\ code[to[r]] \in {None, on[r]}
            => /\ class[to[r]] # "gone"
               /\ \/ members[to[r]] = body[r]
                  \/ \E d \in Course \ {on[r]} : link[d] = to[r]

\* Agreement also while a deletion has the lock and has not erased the class.
Agreed ==
    \A c \in Course :
        /\ link[c] # None /\ c \notin disturbed /\ code[link[c]] \in {None, c}
        /\ rowLock[c] # None => rowLock[c] \in Deleter /\ answer[rowLock[c]] # "ok"
        => members[link[c]] = roster[c]

IInv ==
    /\ TypeOK /\ Owners /\ Links /\ Classes /\ Calls /\ Sent /\ Targets
    /\ Homes /\ Quiet /\ Delivered /\ Agreed

-----------------------------------------------------------------------------
\* Every variable keeps its type.
LEMMA TypeOKStep == IInv /\ [Next]_vars => TypeOK'
<1> SUFFICES ASSUME IInv, [Next]_vars PROVE TypeOK'
      OBVIOUS
<1> USE DEF IInv
<1>1. ASSUME NEW r \in Request, Create(r) PROVE TypeOK'
  <2>1. body' \in [Request -> Roster]
        BY <1>1 DEF Create, Roster, TypeOK
  <2>2. /\ course' \in [Course -> {"none", "new", "live", "deleted", "void"}]
        /\ rowLock' \in [Course -> Request \cup {None}]
        BY <1>1 DEF Create, TypeOK
  <2>3. PICK c \in Course, cookie \in BOOLEAN : Send(r, c, cookie)
        BY <1>1 DEF Create
  <2>4. /\ on' \in [Request -> Course \cup {None}]
        /\ to' \in [Request -> Class \cup {None}]
        /\ pc' \in [Request -> {"begin", "wait", "commit", "done"}]
        /\ handler' \in [Request -> Handler]
        /\ disturbed' \in SUBSET Course
        BY <2>3 DEF Send, Handler, TypeOK
  <2> QED
        BY <1>1, <2>1, <2>2, <2>4 DEF Create, classes, others, TypeOK
<1>2. ASSUME NEW r \in Request, Update(r) PROVE TypeOK'
      BY <1>2, BoundAssumption, RolesAssumption
      DEF Update, Begin, Send, CanLock, Settled, Handler, Roster, classes, others,
          TypeOK, Calls
<1>3. ASSUME NEW r \in Request, Delete(r) PROVE TypeOK'
      BY <1>3, BoundAssumption
      DEF Delete, Begin, CanLock, Handler, Roster, classes, others, history, TypeOK
<1>4. ASSUME NEW r \in Request, Access(r) PROVE TypeOK'
      BY <1>4, BoundAssumption
      DEF Access, Proceed, Answer, Handler, Roster, management, classes, requests,
          others, history, TypeOK, Request
<1>5. ASSUME NEW r \in Request, Find(r) PROVE TypeOK'
      BY <1>5, BoundAssumption
      DEF Find, Proceed, Answer, MadeFor, Handler, Roster, management, classes,
          others, history, TypeOK
<1>6. ASSUME NEW r \in Request, Insert(r) PROVE TypeOK'
  <2>1. CASE MadeFor(on[r]) = {}
    <3>1. on[r] \in Course
          BY <1>6 DEF Insert, Calls
    <3> QED
          BY <1>6, <2>1, <3>1 DEF Insert, Proceed, Handler, management, others, TypeOK
  <2>2. CASE MadeFor(on[r]) # {}
        BY <1>6, <2>2 DEF Insert, Answer, Handler, management, others, TypeOK
  <2> QED
        BY <2>1, <2>2
<1>7. ASSUME NEW r \in Request, Replace(r) PROVE TypeOK'
  <2>1. to[r] \in Class /\ body[r] \in Roster
        BY <1>7 DEF Replace, TypeOK, Calls
  <2>2. members' \in [Class -> Roster]
        BY <1>7, <2>1 DEF Replace, TypeOK
  <2>3. handler' \in [Request -> Handler] /\ answer' \in [Request -> {"none", "ok", "refused"}]
        BY <1>7 DEF Replace, Answer, Handler, TypeOK
  <2> QED
        BY <1>7, <2>2, <2>3 DEF Replace, management, requests, others, history, TypeOK
<1>8. ASSUME NEW r \in Request, Archive(r) PROVE TypeOK'
      BY <1>8, BoundAssumption
      DEF Archive, Answer, Proceed, Handler, Roster, management, requests, others,
          history, TypeOK, Request, Owners
<1>9. ASSUME NEW r \in Request, EraseClass(r) PROVE TypeOK'
      BY <1>9, BoundAssumption
      DEF EraseClass, Answer, Handler, Roster, management, requests, others, history,
          TypeOK
<1>10. ASSUME NEW r \in Request, Die(r) PROVE TypeOK'
      BY <1>10, BoundAssumption
      DEF Die, Proceed, Handler, Roster, management, classes, requests, others,
          history, TypeOK
<1>11. ASSUME NEW r \in Request, GiveUp(r) PROVE TypeOK'
      BY <1>11, BoundAssumption
      DEF GiveUp, RollBack, End, NothingMade, Handler, Roster, classes, calls, others,
          TypeOK, Owners
<1>12. ASSUME NEW r \in Request, CommitRoster(r) PROVE TypeOK'
  <2>1. on[r] \in Course /\ to[r] \in Class \cup {None} /\ body[r] \in Roster
        BY <1>12 DEF CommitRoster, Succeeded, TypeOK, Owners
  <2>2. CASE RollBack(r)
        BY <1>12, <2>1, <2>2 DEF RollBack, End, classes, calls, others, TypeOK
  <2>3. CASE ~RollBack(r)
        BY <1>12, <2>1, <2>3
        DEF CommitRoster, End, LinkTo, classes, calls, others, TypeOK
  <2> QED
        BY <2>2, <2>3
<1>13. ASSUME NEW r \in Request, CommitDeletion(r) PROVE TypeOK'
      BY <1>13, BoundAssumption
      DEF CommitDeletion, End, Succeeded, Handler, Roster, classes, calls, others,
          history, TypeOK
<1>14. ASSUME NEW i \in Importer, Fetch(i) PROVE TypeOK'
      BY <1>14, BoundAssumption
      DEF Fetch, Event, Handler, Roster, management, classes, requests, calls,
          history, TypeOK
<1>15. ASSUME NEW i \in Importer, Import(i) PROVE TypeOK'
      BY <1>15, BoundAssumption
      DEF Import, Taken, Handler, Roster, classes, requests, calls, TypeOK
<1>16. ASSUME NEW a \in Adder, BeginAdd(a) PROVE TypeOK'
      BY <1>16, BoundAssumption
      DEF BeginAdd, Event, Handler, Roster, management, classes, requests, calls,
          history, TypeOK
<1>17. ASSUME NEW a \in Adder, Add(a) PROVE TypeOK'
      BY <1>17, BoundAssumption
      DEF Add, Involved, Handler, Roster, management, requests, calls, TypeOK
<1>18. ASSUME Drop PROVE TypeOK'
      BY <1>18, BoundAssumption
      DEF Drop, Event, Involved, Handler, Roster, management, requests, calls, TypeOK
<1>19. ASSUME SetStatus PROVE TypeOK'
      BY <1>19, BoundAssumption
      DEF SetStatus, Event, Handler, Roster, management, requests, calls, history,
          TypeOK
<1>20. ASSUME OpenClass PROVE TypeOK'
      BY <1>20, BoundAssumption, RolesAssumption
      DEF OpenClass, Event, MadeFor, Handler, Roster, management, requests, calls,
         TypeOK
<1>21. ASSUME UNCHANGED vars PROVE TypeOK'
      BY <1>21
      DEF vars, management, classes, requests, calls, others, history, Handler,
          Roster, TypeOK
<1> QED
      BY <1>1, <1>2, <1>3, <1>4, <1>5, <1>6, <1>7, <1>8, <1>9, <1>10, <1>11, <1>12,
         <1>13, <1>14, <1>15, <1>16, <1>17, <1>18, <1>19, <1>20, <1>21
      DEF Next, Call, Finish

\* A row is locked by one request from its first step to its last.
LEMMA OwnersStep == IInv /\ [Next]_vars => Owners'
<1> SUFFICES ASSUME IInv, [Next]_vars PROVE Owners'
      OBVIOUS
<1> USE DEF IInv
<1>1. ASSUME NEW r \in Request, Create(r) PROVE Owners'
      BY <1>1 DEF Create, Begin, Send, Settled, Succeeded, TypeOK, Owners
<1>2. ASSUME NEW r \in Request, Update(r) PROVE Owners'
      BY <1>2, RolesAssumption
      DEF Update, Begin, Send, CanLock, Settled, Succeeded, TypeOK, Owners
<1>3. ASSUME NEW r \in Request, Delete(r) PROVE Owners'
      BY <1>3, RolesAssumption DEF Delete, Begin, CanLock, Succeeded, TypeOK, Owners
<1>4. ASSUME NEW r \in Request, Access(r) PROVE Owners'
      BY <1>4 DEF Access, Proceed, Answer, Succeeded, management, requests, Owners
<1>5. ASSUME NEW r \in Request, Find(r) PROVE Owners'
      BY <1>5 DEF Find, Proceed, Answer, MadeFor, Succeeded, management, Owners
<1>6. ASSUME NEW r \in Request, Insert(r) PROVE Owners'
      BY <1>6 DEF Insert, Proceed, Answer, MadeFor, Succeeded, management, Owners
<1>7. ASSUME NEW r \in Request, Replace(r) PROVE Owners'
      BY <1>7 DEF Replace, Answer, MayReplace, Succeeded, management, requests, Owners
<1>8. ASSUME NEW r \in Request, Archive(r) PROVE Owners'
      BY <1>8 DEF Archive, Answer, Proceed, Succeeded, management, requests, Owners
<1>9. ASSUME NEW r \in Request, EraseClass(r) PROVE Owners'
      BY <1>9 DEF EraseClass, Answer, Succeeded, management, requests, Owners
<1>10. ASSUME NEW r \in Request, Die(r) PROVE Owners'
      BY <1>10 DEF Die, Proceed, Succeeded, management, requests, Owners
<1>11. ASSUME NEW r \in Request, GiveUp(r) PROVE Owners'
      BY <1>11 DEF GiveUp, RollBack, End, NothingMade, Succeeded, TypeOK, Owners
<1>12. ASSUME NEW r \in Request, CommitRoster(r) PROVE Owners'
      BY <1>12
      DEF CommitRoster, RollBack, End, NothingMade, Succeeded, LinkTo, Taken, TypeOK,
          Owners
<1>13. ASSUME NEW r \in Request, CommitDeletion(r) PROVE Owners'
      BY <1>13 DEF CommitDeletion, End, Succeeded, TypeOK, Owners
<1>14. ASSUME NEW i \in Importer, Fetch(i) PROVE Owners'
      BY <1>14 DEF Fetch, Event, Succeeded, management, requests, Owners
<1>15. ASSUME NEW i \in Importer, Import(i) PROVE Owners'
      BY <1>15 DEF Import, Taken, Succeeded, requests, TypeOK, Owners
<1>16. ASSUME NEW a \in Adder, BeginAdd(a) PROVE Owners'
      BY <1>16 DEF BeginAdd, Event, Succeeded, management, requests, Owners
<1>17. ASSUME NEW a \in Adder, Add(a) PROVE Owners'
      BY <1>17 DEF Add, Involved, Succeeded, management, requests, Owners
<1>18. ASSUME Drop PROVE Owners'
      BY <1>18 DEF Drop, Event, Involved, Succeeded, management, requests, Owners
<1>19. ASSUME SetStatus PROVE Owners'
      BY <1>19 DEF SetStatus, Event, Succeeded, management, requests, Owners
<1>20. ASSUME OpenClass PROVE Owners'
      BY <1>20, BoundAssumption, RolesAssumption
      DEF OpenClass, Event, MadeFor, management, requests, Succeeded, Owners
<1>21. ASSUME UNCHANGED vars PROVE Owners'
      BY <1>21
      DEF vars, management, classes, requests, calls, others, history, Succeeded,
          Owners
<1> QED
      BY <1>1, <1>2, <1>3, <1>4, <1>5, <1>6, <1>7, <1>8, <1>9, <1>10, <1>11, <1>12,
         <1>13, <1>14, <1>15, <1>16, <1>17, <1>18, <1>19, <1>20, <1>21
      DEF Next, Call, Finish

\* A link is made by the commit of a roster or by an import, which look for another one.
LEMMA LinksStep == IInv /\ [Next]_vars => Links'
<1> SUFFICES ASSUME IInv, [Next]_vars PROVE Links'
      OBVIOUS
<1> USE DEF IInv
<1>1. ASSUME NEW r \in Request, Create(r) PROVE Links'
      BY <1>1 DEF Create, Begin, Send, Settled, classes, Links
<1>2. ASSUME NEW r \in Request, Update(r) PROVE Links'
      BY <1>2 DEF Update, Begin, Send, CanLock, Settled, classes, Links
<1>3. ASSUME NEW r \in Request, Delete(r) PROVE Links'
      BY <1>3 DEF Delete, Begin, CanLock, classes, Links
<1>4. ASSUME NEW r \in Request, Access(r) PROVE Links'
      BY <1>4 DEF Access, Proceed, Answer, management, classes, Links
<1>5. ASSUME NEW r \in Request, Find(r) PROVE Links'
      BY <1>5 DEF Find, Proceed, Answer, MadeFor, management, classes, Links
<1>6. ASSUME NEW r \in Request, Insert(r) PROVE Links'
      BY <1>6 DEF Insert, Proceed, Answer, MadeFor, management, TypeOK, Links
<1>7. ASSUME NEW r \in Request, Replace(r) PROVE Links'
      BY <1>7 DEF Replace, Answer, MayReplace, management, Links
<1>8. ASSUME NEW r \in Request, Archive(r) PROVE Links'
      BY <1>8 DEF Archive, Answer, Proceed, management, TypeOK, Links
<1>9. ASSUME NEW r \in Request, EraseClass(r) PROVE Links'
      BY <1>9 DEF EraseClass, Answer, management, TypeOK, Links
<1>10. ASSUME NEW r \in Request, Die(r) PROVE Links'
      BY <1>10 DEF Die, Proceed, management, classes, Links
<1>11. ASSUME NEW r \in Request, GiveUp(r) PROVE Links'
      BY <1>11 DEF GiveUp, RollBack, End, NothingMade, classes, Links
<1>12. ASSUME NEW r \in Request, CommitRoster(r) PROVE Links'
      BY <1>12, RolesAssumption
      DEF CommitRoster, RollBack, End, NothingMade, Succeeded, LinkTo, Taken, Links,
          TypeOK, Owners, Classes, Calls, Sent, Request, classes
<1>13. ASSUME NEW r \in Request, CommitDeletion(r) PROVE Links'
      BY <1>13 DEF CommitDeletion, End, Succeeded, classes, TypeOK, Links
<1>14. ASSUME NEW i \in Importer, Fetch(i) PROVE Links'
      BY <1>14 DEF Fetch, Event, management, classes, Links
<1>15. ASSUME NEW i \in Importer, Import(i) PROVE Links'
      BY <1>15 DEF Import, Taken, classes, TypeOK, Links, Classes
<1>16. ASSUME NEW a \in Adder, BeginAdd(a) PROVE Links'
      BY <1>16 DEF BeginAdd, Event, management, classes, Links
<1>17. ASSUME NEW a \in Adder, Add(a) PROVE Links'
      BY <1>17 DEF Add, Involved, management, Links
<1>18. ASSUME Drop PROVE Links'
      BY <1>18 DEF Drop, Event, Involved, management, Links
<1>19. ASSUME SetStatus PROVE Links'
      BY <1>19 DEF SetStatus, Event, management, Links
<1>20. ASSUME OpenClass PROVE Links'
      BY <1>20, BoundAssumption, RolesAssumption
      DEF OpenClass, Event, MadeFor, management, TypeOK, Links
<1>21. ASSUME UNCHANGED vars PROVE Links'
      BY <1>21 DEF vars, management, classes, requests, calls, others, history, Links
<1> QED
      BY <1>1, <1>2, <1>3, <1>4, <1>5, <1>6, <1>7, <1>8, <1>9, <1>10, <1>11, <1>12,
         <1>13, <1>14, <1>15, <1>16, <1>17, <1>18, <1>19, <1>20, <1>21
      DEF Next, Call, Finish

\* Classes and courses are made once and keep what belongs to them.
LEMMA ClassesStep == IInv /\ [Next]_vars => Classes'
<1> SUFFICES ASSUME IInv, [Next]_vars PROVE Classes'
      OBVIOUS
<1> USE DEF IInv
<1>1. ASSUME NEW r \in Request, Create(r) PROVE Classes'
      BY <1>1 DEF Create, Begin, Send, Settled, classes, others, TypeOK, Links, Classes
<1>2. ASSUME NEW r \in Request, Update(r) PROVE Classes'
      BY <1>2 DEF Update, Begin, Send, CanLock, Settled, classes, others, Links, Classes
<1>3. ASSUME NEW r \in Request, Delete(r) PROVE Classes'
      BY <1>3 DEF Delete, Begin, CanLock, classes, others, history, Links, Classes
<1>4. ASSUME NEW r \in Request, Access(r) PROVE Classes'
      BY <1>4
      DEF Access, Proceed, Answer, management, classes, requests, others, history,
          Classes
<1>5. ASSUME NEW r \in Request, Find(r) PROVE Classes'
      BY <1>5
      DEF Find, Proceed, Answer, MadeFor, management, classes, others, history,
          TypeOK, Classes
<1>6. ASSUME NEW r \in Request, Insert(r) PROVE Classes'
  <2>1. on[r] \in Course /\ course[on[r]] # "none"
        BY <1>6, RolesAssumption DEF Insert, Calls, Classes
  <2> QED
        BY <1>6, <2>1, RolesAssumption
        DEF Insert, Answer, Proceed, MadeFor, Classes, TypeOK, management, others
<1>7. ASSUME NEW r \in Request, Replace(r) PROVE Classes'
      BY <1>7
      DEF Replace, MayReplace, Classes, TypeOK, management, requests, others, history
<1>8. ASSUME NEW r \in Request, Archive(r) PROVE Classes'
      BY <1>8 DEF Archive, Classes, TypeOK, management, requests, others, history
<1>9. ASSUME NEW r \in Request, EraseClass(r) PROVE Classes'
      BY <1>9
      DEF EraseClass, Answer, management, requests, others, history, TypeOK, Classes
<1>10. ASSUME NEW r \in Request, Die(r) PROVE Classes'
      BY <1>10 DEF Die, Proceed, management, classes, requests, others, history, Classes
<1>11. ASSUME NEW r \in Request, GiveUp(r) PROVE Classes'
      BY <1>11 DEF GiveUp, RollBack, End, NothingMade, classes, others, Classes
<1>12. ASSUME NEW r \in Request, CommitRoster(r) PROVE Classes'
      BY <1>12
      DEF CommitRoster, RollBack, End, NothingMade, Succeeded, LinkTo, Taken, classes,
          others, TypeOK, Classes
<1>13. ASSUME NEW r \in Request, CommitDeletion(r) PROVE Classes'
      BY <1>13 DEF CommitDeletion, End, Succeeded, classes, others, history, Classes
<1>14. ASSUME NEW i \in Importer, Fetch(i) PROVE Classes'
      BY <1>14 DEF Fetch, Event, management, classes, requests, history, Classes
<1>15. ASSUME NEW i \in Importer, Import(i) PROVE Classes'
      BY <1>15, RolesAssumption
      DEF Import, Taken, classes, requests, TypeOK, Links, Classes
<1>16. ASSUME NEW a \in Adder, BeginAdd(a) PROVE Classes'
      BY <1>16 DEF BeginAdd, Event, management, classes, requests, history, Classes
<1>17. ASSUME NEW a \in Adder, Add(a) PROVE Classes'
      BY <1>17 DEF Add, Involved, management, requests, Classes
<1>18. ASSUME Drop PROVE Classes'
      BY <1>18 DEF Drop, Event, Involved, management, requests, Classes
<1>19. ASSUME SetStatus PROVE Classes'
      BY <1>19 DEF SetStatus, Event, management, requests, history, Classes
<1>20. ASSUME OpenClass PROVE Classes'
      BY <1>20, BoundAssumption, RolesAssumption
      DEF OpenClass, Event, MadeFor, management, requests, TypeOK, Classes, Links
<1>21. ASSUME UNCHANGED vars PROVE Classes'
      BY <1>21 DEF vars, management, classes, requests, calls, others, history, Classes
<1> QED
      BY <1>1, <1>2, <1>3, <1>4, <1>5, <1>6, <1>7, <1>8, <1>9, <1>10, <1>11, <1>12,
         <1>13, <1>14, <1>15, <1>16, <1>17, <1>18, <1>19, <1>20, <1>21
      DEF Next, Call, Finish

\* A call goes through its stages in order.
LEMMA CallsStep == IInv /\ [Next]_vars => Calls'
<1> SUFFICES ASSUME IInv, [Next]_vars PROVE Calls'
      OBVIOUS
<1> USE DEF IInv
<1>1. ASSUME NEW r \in Request, Create(r) PROVE Calls'
  <2>1. PICK c \in Course, cookie \in BOOLEAN : Send(r, c, cookie)
        BY <1>1 DEF Create
  <2>2. handler[r] = "idle" /\ answer[r] = "none" /\ r \in Syncer
        BY <1>1 DEF Create, Begin, Calls, Syncer
  <2>3. UNCHANGED <<answer, code>>
        BY <1>1 DEF Create, classes
  <2> QED
        BY <2>1, <2>2, <2>3 DEF Send, TypeOK, Calls
<1>2. ASSUME NEW r \in Request, Update(r) PROVE Calls'
  <2>1. PICK c \in Course, cookie \in BOOLEAN : Send(r, c, cookie)
        BY <1>2 DEF Update
  <2>2. handler[r] = "idle" /\ answer[r] = "none" /\ r \in Syncer
        BY <1>2 DEF Update, Begin, Calls, Syncer
  <2>3. UNCHANGED <<answer, code>>
        BY <1>2 DEF Update, classes
  <2> QED
        BY <2>1, <2>2, <2>3 DEF Send, TypeOK, Calls
<1>3. ASSUME NEW r \in Request, Delete(r) PROVE Calls'
      BY <1>3 DEF Delete, Begin, CanLock, classes, TypeOK, Calls
<1>4. ASSUME NEW r \in Request, Access(r) PROVE Calls'
      BY <1>4 DEF Access, Proceed, Answer, classes, requests, TypeOK, Calls
<1>5. ASSUME NEW r \in Request, Find(r) PROVE Calls'
      BY <1>5 DEF Find, Proceed, Answer, MadeFor, classes, TypeOK, Calls
<1>6. ASSUME NEW r \in Request, Insert(r) PROVE Calls'
      BY <1>6, RolesAssumption
      DEF Insert, Proceed, Answer, MadeFor, TypeOK, Calls, Classes
<1>7. ASSUME NEW r \in Request, Replace(r) PROVE Calls'
      BY <1>7 DEF Replace, Answer, MayReplace, requests, TypeOK, Calls
<1>8. ASSUME NEW r \in Request, Archive(r) PROVE Calls'
      BY <1>8 DEF Archive, Answer, Proceed, requests, TypeOK, Calls
<1>9. ASSUME NEW r \in Request, EraseClass(r) PROVE Calls'
      BY <1>9 DEF EraseClass, Answer, requests, TypeOK, Calls
<1>10. ASSUME NEW r \in Request, Die(r) PROVE Calls'
  <2>1. handler' = [handler EXCEPT ![r] = "ended"] /\ pc[r] = "done"
        BY <1>10 DEF Die, Proceed
  <2>2. UNCHANGED <<answer, pc, on, to, code>>
        BY <1>10 DEF Die, Proceed, classes, requests
  <2>3. ASSUME NEW x \in Request
        PROVE  handler'[x] = handler[x] \/ (handler'[x] = "ended" /\ pc[x] = "done")
        BY <2>1
  <2> QED
        BY <2>2, <2>3 DEF Calls
<1>11. ASSUME NEW r \in Request, GiveUp(r) PROVE Calls'
      BY <1>11 DEF GiveUp, RollBack, End, NothingMade, classes, calls, Calls
<1>12. ASSUME NEW r \in Request, CommitRoster(r) PROVE Calls'
      BY <1>12
      DEF CommitRoster, RollBack, End, NothingMade, Succeeded, LinkTo, Taken, classes,
          calls, TypeOK, Calls
<1>13. ASSUME NEW r \in Request, CommitDeletion(r) PROVE Calls'
      BY <1>13 DEF CommitDeletion, End, Succeeded, classes, calls, Calls
<1>14. ASSUME NEW i \in Importer, Fetch(i) PROVE Calls'
      BY <1>14 DEF Fetch, Event, classes, requests, calls, Calls
<1>15. ASSUME NEW i \in Importer, Import(i) PROVE Calls'
      BY <1>15 DEF Import, Taken, classes, requests, calls, Calls
<1>16. ASSUME NEW a \in Adder, BeginAdd(a) PROVE Calls'
      BY <1>16 DEF BeginAdd, Event, classes, requests, calls, Calls
<1>17. ASSUME NEW a \in Adder, Add(a) PROVE Calls'
      BY <1>17 DEF Add, Involved, requests, calls, Calls
<1>18. ASSUME Drop PROVE Calls'
      BY <1>18 DEF Drop, Event, Involved, requests, calls, Calls
<1>19. ASSUME SetStatus PROVE Calls'
      BY <1>19 DEF SetStatus, Event, requests, calls, Calls
<1>20. ASSUME OpenClass PROVE Calls'
      BY <1>20, BoundAssumption, RolesAssumption
      DEF OpenClass, Event, MadeFor, requests, calls, TypeOK, Classes, Calls
<1>21. ASSUME UNCHANGED vars PROVE Calls'
      BY <1>21 DEF vars, management, classes, requests, calls, others, history, Calls
<1> QED
      BY <1>1, <1>2, <1>3, <1>4, <1>5, <1>6, <1>7, <1>8, <1>9, <1>10, <1>11, <1>12,
         <1>13, <1>14, <1>15, <1>16, <1>17, <1>18, <1>19, <1>20, <1>21
      DEF Next, Call, Finish

\* A lock keeps the link of its course.
LEMMA SentStep == IInv /\ [Next]_vars => Sent'
<1> SUFFICES ASSUME IInv, [Next]_vars PROVE Sent'
      OBVIOUS
<1> USE DEF IInv
<1>1. ASSUME NEW r \in Request, Create(r) PROVE Sent'
      BY <1>1, RolesAssumption DEF Create, Begin, Send, Settled, classes, TypeOK, Sent
<1>2. ASSUME NEW r \in Request, Update(r) PROVE Sent'
      BY <1>2, RolesAssumption
      DEF Update, Begin, Send, CanLock, Settled, classes, TypeOK, Sent
<1>3. ASSUME NEW r \in Request, Delete(r) PROVE Sent'
      BY <1>3 DEF Delete, Begin, CanLock, classes, TypeOK, Calls, Sent
<1>4. ASSUME NEW r \in Request, Access(r) PROVE Sent'
      BY <1>4 DEF Access, Proceed, Answer, management, classes, requests, TypeOK, Sent
<1>5. ASSUME NEW r \in Request, Find(r) PROVE Sent'
      BY <1>5, RolesAssumption
      DEF Find, Proceed, Answer, MadeFor, management, classes, TypeOK, Calls, Sent
<1>6. ASSUME NEW r \in Request, Insert(r) PROVE Sent'
      BY <1>6, RolesAssumption
      DEF Insert, Proceed, Answer, MadeFor, management, TypeOK, Calls, Sent
<1>7. ASSUME NEW r \in Request, Replace(r) PROVE Sent'
      BY <1>7, RolesAssumption
      DEF Replace, Answer, MayReplace, management, requests, TypeOK, Calls, Sent,
          Syncer
<1>8. ASSUME NEW r \in Request, Archive(r) PROVE Sent'
      BY <1>8 DEF Archive, Answer, Proceed, management, requests, TypeOK, Calls, Sent
<1>9. ASSUME NEW r \in Request, EraseClass(r) PROVE Sent'
      BY <1>9 DEF EraseClass, Answer, management, requests, TypeOK, Calls, Sent
<1>10. ASSUME NEW r \in Request, Die(r) PROVE Sent'
      BY <1>10 DEF Die, Proceed, management, classes, requests, Sent
<1>11. ASSUME NEW r \in Request, GiveUp(r) PROVE Sent'
      BY <1>11 DEF GiveUp, RollBack, End, NothingMade, classes, calls, Sent
<1>12. ASSUME NEW r \in Request, CommitRoster(r) PROVE Sent'
      BY <1>12
      DEF CommitRoster, RollBack, End, NothingMade, Succeeded, LinkTo, Taken, classes,
          calls, TypeOK, Owners, Sent
<1>13. ASSUME NEW r \in Request, CommitDeletion(r) PROVE Sent'
      BY <1>13 DEF CommitDeletion, End, Succeeded, classes, calls, TypeOK, Owners, Sent
<1>14. ASSUME NEW i \in Importer, Fetch(i) PROVE Sent'
      BY <1>14 DEF Fetch, Event, management, classes, requests, calls, Sent
<1>15. ASSUME NEW i \in Importer, Import(i) PROVE Sent'
      BY <1>15 DEF Import, Taken, classes, requests, calls, Owners, Sent
<1>16. ASSUME NEW a \in Adder, BeginAdd(a) PROVE Sent'
      BY <1>16 DEF BeginAdd, Event, management, classes, requests, calls, Sent
<1>17. ASSUME NEW a \in Adder, Add(a) PROVE Sent'
      BY <1>17 DEF Add, Involved, management, requests, calls, Sent
<1>18. ASSUME Drop PROVE Sent'
      BY <1>18 DEF Drop, Event, Involved, management, requests, calls, Sent
<1>19. ASSUME SetStatus PROVE Sent'
      BY <1>19 DEF SetStatus, Event, management, requests, calls, Sent
<1>20. ASSUME OpenClass PROVE Sent'
      BY <1>20, BoundAssumption, RolesAssumption
      DEF OpenClass, Event, MadeFor, management, requests, calls, TypeOK, Sent
<1>21. ASSUME UNCHANGED vars PROVE Sent'
      BY <1>21 DEF vars, management, classes, requests, calls, others, history, Sent
<1> QED
      BY <1>1, <1>2, <1>3, <1>4, <1>5, <1>6, <1>7, <1>8, <1>9, <1>10, <1>11, <1>12,
         <1>13, <1>14, <1>15, <1>16, <1>17, <1>18, <1>19, <1>20, <1>21
      DEF Next, Call, Finish

\* The target of a call is chosen by link or by code; both hold until the class is gone.
LEMMA TargetsStep == IInv /\ [Next]_vars => Targets'
<1> SUFFICES ASSUME IInv, [Next]_vars PROVE Targets'
      OBVIOUS
<1> USE DEF IInv
<1>1. ASSUME NEW r \in Request, Create(r) PROVE Targets'
  <2>1. PICK c \in Course, cookie \in BOOLEAN : course[c] = "none" /\ Send(r, c, cookie)
        BY <1>1 DEF Create
  <2>2. on' = [on EXCEPT ![r] = c] /\ to' = [to EXCEPT ![r] = link[c]]
        BY <2>1 DEF Send
  <2>3. UNCHANGED <<link, class, code>>
        BY <1>1 DEF Create, classes
  <2>4. link[c] = None
        BY <2>1 DEF Links
  <2> QED
        BY <2>2, <2>3, <2>4 DEF TypeOK, Targets
<1>2. ASSUME NEW r \in Request, Update(r) PROVE Targets'
      BY <1>2 DEF Update, Begin, Send, CanLock, Settled, classes, TypeOK, Targets
<1>3. ASSUME NEW r \in Request, Delete(r) PROVE Targets'
      BY <1>3 DEF Delete, Begin, CanLock, classes, TypeOK, Targets
<1>4. ASSUME NEW r \in Request, Access(r) PROVE Targets'
      BY <1>4 DEF Access, Proceed, Answer, management, classes, requests, Targets
<1>5. ASSUME NEW r \in Request, Find(r) PROVE Targets'
      BY <1>5 DEF Find, Proceed, Answer, MadeFor, management, classes, TypeOK, Targets
<1>6. ASSUME NEW r \in Request, Insert(r) PROVE Targets'
      BY <1>6 DEF Insert, Proceed, Answer, MadeFor, management, TypeOK, Classes, Targets
<1>7. ASSUME NEW r \in Request, Replace(r) PROVE Targets'
      BY <1>7 DEF Replace, Answer, MayReplace, management, requests, Targets
<1>8. ASSUME NEW r \in Request, Archive(r) PROVE Targets'
      BY <1>8 DEF Archive, Answer, Proceed, management, requests, TypeOK, Targets
<1>9. ASSUME NEW r \in Request, EraseClass(r) PROVE Targets'
      BY <1>9 DEF EraseClass, Answer, management, requests, TypeOK, Calls, Targets
<1>10. ASSUME NEW r \in Request, Die(r) PROVE Targets'
      BY <1>10 DEF Die, Proceed, management, classes, requests, Targets
<1>11. ASSUME NEW r \in Request, GiveUp(r) PROVE Targets'
      BY <1>11 DEF GiveUp, RollBack, End, NothingMade, classes, Targets
<1>12. ASSUME NEW r \in Request, CommitRoster(r) PROVE Targets'
  <2>1. on[r] \in Course /\ link[on[r]] \in {None, to[r]}
        BY <1>12 DEF CommitRoster, Succeeded, Owners, Sent, Syncer
  <2>2. UNCHANGED <<code, class, to, on>>
        BY <1>12 DEF CommitRoster, RollBack, classes
  <2>3. \A c \in Course : link[c] # None => link'[c] = link[c]
        BY <1>12, <2>1 DEF CommitRoster, RollBack, LinkTo, TypeOK
  <2>4. ASSUME NEW x \in Request, to[x] # None, link[on[x]] = to[x], code[to[x]] # on[x]
        PROVE  link'[on[x]] = to[x]
    <3>1. on[x] \in Course
          BY <2>4 DEF Calls
    <3> QED
          BY <2>3, <2>4, <3>1
  <2> QED
        BY <2>2, <2>4 DEF Targets
<1>13. ASSUME NEW r \in Request, CommitDeletion(r) PROVE Targets'
      BY <1>13 DEF CommitDeletion, End, Succeeded, classes, Sent, Targets
<1>14. ASSUME NEW i \in Importer, Fetch(i) PROVE Targets'
      BY <1>14 DEF Fetch, Event, management, classes, requests, Targets
<1>15. ASSUME NEW i \in Importer, Import(i) PROVE Targets'
      BY <1>15 DEF Import, Taken, classes, requests, Links, Targets
<1>16. ASSUME NEW a \in Adder, BeginAdd(a) PROVE Targets'
      BY <1>16 DEF BeginAdd, Event, management, classes, requests, Targets
<1>17. ASSUME NEW a \in Adder, Add(a) PROVE Targets'
      BY <1>17 DEF Add, Involved, management, requests, Targets
<1>18. ASSUME Drop PROVE Targets'
      BY <1>18 DEF Drop, Event, Involved, management, requests, Targets
<1>19. ASSUME SetStatus PROVE Targets'
      BY <1>19 DEF SetStatus, Event, management, requests, Targets
<1>20. ASSUME OpenClass PROVE Targets'
      BY <1>20, BoundAssumption, RolesAssumption
      DEF OpenClass, Event, MadeFor, management, requests, TypeOK, Classes, Targets
<1>21. ASSUME UNCHANGED vars PROVE Targets'
      BY <1>21 DEF vars, management, classes, requests, calls, others, history, Targets
<1> QED
      BY <1>1, <1>2, <1>3, <1>4, <1>5, <1>6, <1>7, <1>8, <1>9, <1>10, <1>11, <1>12,
         <1>13, <1>14, <1>15, <1>16, <1>17, <1>18, <1>19, <1>20, <1>21
      DEF Next, Call, Finish

\* A class is made by a call somebody waits for, or the course is broken.
LEMMA HomesStep == IInv /\ [Next]_vars => Homes'
<1> SUFFICES ASSUME IInv, [Next]_vars PROVE Homes'
      OBVIOUS
<1> USE DEF IInv
<1>1. ASSUME NEW r \in Request, Create(r) PROVE Homes'
      BY <1>1 DEF Create, Begin, Send, Settled, Homes, BelongsTo, Kept, Open,
         classes, Classes
<1>2. ASSUME NEW r \in Request, Update(r) PROVE Homes'
      BY <1>2, RolesAssumption
      DEF Update, Begin, Send, CanLock, Settled, Homes, BelongsTo, Kept, Open,
         classes, Request,
          Syncer
<1>3. ASSUME NEW r \in Request, Delete(r) PROVE Homes'
      BY <1>3, RolesAssumption
      DEF Delete, Begin, CanLock, Homes, BelongsTo, Kept, Open, classes, history,
         Request, Syncer
<1>4. ASSUME NEW r \in Request, Access(r) PROVE Homes'
      BY <1>4
      DEF Access, Proceed, Answer, Homes, BelongsTo, Kept, Open, management,
         classes, requests,
          history
<1>5. ASSUME NEW r \in Request, Find(r) PROVE Homes'
  <2>1. UNCHANGED <<link, rowLock, pc, class, code, home, broken, opened>>
        BY <1>5 DEF Find, management, classes, history
  <2>2. to[r] = None /\ \A x \in Request \ {r} : to'[x] = to[x]
        BY <1>5 DEF Find, Calls, TypeOK
  <2>3. ASSUME NEW o \in Class, NEW d \in Course, Kept(o, d) PROVE Kept(o, d)'
        BY <2>1, <2>2, <2>3, RolesAssumption DEF Kept, Syncer, Request
  <2> QED
        BY <2>1, <2>3 DEF Homes, BelongsTo, Open
<1>6. ASSUME NEW r \in Request, Insert(r) PROVE Homes'
  <2>1. to[r] = None /\ on[r] \in Course
        BY <1>6 DEF Insert, Calls
  <2>2. UNCHANGED <<link, rowLock, pc, on, broken, opened>>
        BY <1>6 DEF Insert, management
  <2>3. CASE MadeFor(on[r]) # {}
        BY <1>6, <2>2, <2>3 DEF Insert, Homes, BelongsTo, Kept, Open
  <2>4. CASE MadeFor(on[r]) = {}
    <3>1. PICK n \in Class :
              /\ class' = [class EXCEPT ![n] = "active"]
              /\ code' = [code EXCEPT ![n] = on[r]]
              /\ home' = [home EXCEPT ![n] = on[r]]
              /\ to' = [to EXCEPT ![r] = n]
          BY <1>6, <2>4 DEF Insert
    <3>2. on[r] \notin broken => Kept(n, on[r])'
      <4>1. on[r] \notin broken => pc[r] = "wait"
            BY <1>6 DEF Insert, TypeOK, Calls, Quiet, Live
      <4>2. pc[r] = "wait" => rowLock[on[r]] = r /\ r \in Syncer
            BY <1>6 DEF Insert, Calls, Owners
      <4> QED
            BY <2>2, <3>1, <4>1, <4>2 DEF Kept, TypeOK
    <3>3. ASSUME NEW o \in Class \ {n}, NEW d \in Course, Kept(o, d) PROVE Kept(o, d)'
          BY <2>1, <2>2, <3>1, <3>3, RolesAssumption DEF Kept
    <3> QED
          BY <2>2, <3>1, <3>2, <3>3 DEF Homes, BelongsTo, Open, TypeOK
  <2> QED
        BY <2>3, <2>4
<1>7. ASSUME NEW r \in Request, Replace(r) PROVE Homes'
      BY <1>7
      DEF Replace, Answer, MayReplace, Homes, BelongsTo, Kept, Open, management,
         requests,
          history
<1>8. ASSUME NEW r \in Request, Archive(r) PROVE Homes'
      BY <1>8, RolesAssumption
      DEF Archive, Answer, Proceed, Homes, BelongsTo, Kept, Open, management,
         requests, history,
          TypeOK, Classes
<1>9. ASSUME NEW r \in Request, EraseClass(r) PROVE Homes'
      BY <1>9
      DEF EraseClass, Answer, Homes, BelongsTo, Kept, Open, management, requests,
         history,
          TypeOK, Calls
<1>10. ASSUME NEW r \in Request, Die(r) PROVE Homes'
      BY <1>10
      DEF Die, Proceed, Homes, BelongsTo, Kept, Open, management, classes,
         requests, history
<1>11. ASSUME NEW r \in Request, GiveUp(r) PROVE Homes'
      BY <1>11, RolesAssumption
      DEF GiveUp, RollBack, End, NothingMade, Homes, BelongsTo, Kept, Open,
         classes, Owners
<1>12. ASSUME NEW r \in Request, CommitRoster(r) PROVE Homes'
  <2>1. /\ r \in Syncer /\ pc[r] \in {"wait", "commit"} /\ rowLock[on[r]] = r
        /\ on[r] \in Course /\ link[on[r]] \in {None, to[r]}
        /\ to[r] \in Class \cup {None} /\ UNCHANGED <<class, code, on, to, opened>>
        /\ rowLock' = [rowLock EXCEPT ![on[r]] = None] /\ pc' = [pc EXCEPT ![r] = "done"]
        BY <1>12 DEF CommitRoster, RollBack, End, Succeeded, Syncer, Owners, Sent,
           TypeOK, classes
  <2>2. CASE RollBack(r)
        BY <1>12, <2>1, <2>2, RolesAssumption
        DEF CommitRoster, RollBack, End, NothingMade, Succeeded, Homes, BelongsTo,
           TypeOK, Owners,
            Links, Classes, Calls, Sent, Targets, Kept, Open
  <2>3. CASE ~RollBack(r)
    <3>1. /\ link' = [link EXCEPT ![on[r]] = to[r]] /\ broken' = broken
          /\ home' = IF to[r] = None THEN home ELSE [home EXCEPT ![to[r]] = on[r]]
          BY <1>12, <2>3 DEF CommitRoster, LinkTo
    <3>2. ASSUME NEW o \in Class, NEW d \in Course, Open(o), BelongsTo(o, d), d \notin broken
          PROVE  Kept(o, d)'
          BY <2>1, <3>1, <3>2, RolesAssumption DEF Homes, BelongsTo, Kept, Owners,
             TypeOK, Request, Syncer
    <3>3. Kept(to[r], on[r])' \/ to[r] = None
          BY <2>1, <3>1 DEF Kept, TypeOK
    <3> QED
          BY <2>1, <3>1, <3>2, <3>3 DEF Homes, BelongsTo, Open, TypeOK
  <2> QED
        BY <2>2, <2>3
<1>13. ASSUME NEW r \in Request, CommitDeletion(r) PROVE Homes'
      BY <1>13
      DEF CommitDeletion, End, Succeeded, Homes, BelongsTo, Kept, Open, classes,
         history, Owners,
          Sent
<1>14. ASSUME NEW i \in Importer, Fetch(i) PROVE Homes'
      BY <1>14
      DEF Fetch, Event, Homes, BelongsTo, Kept, Open, management, classes,
         requests, history
<1>15. ASSUME NEW i \in Importer, Import(i) PROVE Homes'
      BY <1>15 DEF Import, Taken, Homes, BelongsTo, Kept, Open, classes, requests,
         TypeOK, Classes
<1>16. ASSUME NEW a \in Adder, BeginAdd(a) PROVE Homes'
      BY <1>16
      DEF BeginAdd, Event, Homes, BelongsTo, Kept, Open, management, classes,
         requests, history
<1>17. ASSUME NEW a \in Adder, Add(a) PROVE Homes'
      BY <1>17 DEF Add, Involved, Homes, BelongsTo, Kept, Open, management, requests
<1>18. ASSUME Drop PROVE Homes'
      BY <1>18 DEF Drop, Event, Involved, Homes, BelongsTo, Kept, Open, management,
         requests
<1>19. ASSUME SetStatus PROVE Homes'
      BY <1>19 DEF SetStatus, Event, Homes, BelongsTo, Kept, Open, management,
         requests, history
<1>20. ASSUME OpenClass PROVE Homes'
      BY <1>20, BoundAssumption, RolesAssumption
      DEF OpenClass, Event, MadeFor, Homes, BelongsTo, Kept, Open, management,
         requests, TypeOK, Classes
<1>21. ASSUME UNCHANGED vars PROVE Homes'
      BY <1>21
      DEF vars, management, classes, requests, calls, others, history, Homes,
         BelongsTo, Kept,
          Open
<1> QED
      BY <1>1, <1>2, <1>3, <1>4, <1>5, <1>6, <1>7, <1>8, <1>9, <1>10, <1>11, <1>12,
         <1>13, <1>14, <1>15, <1>16, <1>17, <1>18, <1>19, <1>20, <1>21
      DEF Next, Call, Finish

\* A call that goes on alone was given up, and is remembered until it ends.
LEMMA QuietStep == IInv /\ [Next]_vars => Quiet'
<1> SUFFICES ASSUME IInv, [Next]_vars PROVE Quiet'
      OBVIOUS
<1> USE DEF IInv
<1>1. ASSUME NEW r \in Request, Create(r) PROVE Quiet'
      BY <1>1 DEF Create, Begin, Send, Settled, TypeOK, Owners, Quiet
<1>2. ASSUME NEW r \in Request, Update(r) PROVE Quiet'
      BY <1>2, RolesAssumption
      DEF Update, Begin, Send, CanLock, Settled, TypeOK, Owners, Quiet
<1>3. ASSUME NEW r \in Request, Delete(r) PROVE Quiet'
      BY <1>3, RolesAssumption DEF Delete, Begin, CanLock, history, Syncer, Quiet
<1>4. ASSUME NEW r \in Request, Access(r) PROVE Quiet'
      BY <1>4 DEF Access, Proceed, Answer, requests, history, TypeOK, Quiet, Live
<1>5. ASSUME NEW r \in Request, Find(r) PROVE Quiet'
      BY <1>5 DEF Find, Proceed, Answer, MadeFor, history, TypeOK, Quiet, Live
<1>6. ASSUME NEW r \in Request, Insert(r) PROVE Quiet'
      BY <1>6 DEF Insert, Proceed, Answer, MadeFor, TypeOK, Quiet, Live
<1>7. ASSUME NEW r \in Request, Replace(r) PROVE Quiet'
      BY <1>7 DEF Replace, Answer, MayReplace, requests, history, TypeOK, Quiet, Live
<1>8. ASSUME NEW r \in Request, Archive(r) PROVE Quiet'
      BY <1>8 DEF Archive, Answer, Proceed, requests, history, TypeOK, Quiet, Live
<1>9. ASSUME NEW r \in Request, EraseClass(r) PROVE Quiet'
      BY <1>9 DEF EraseClass, Answer, requests, history, TypeOK, Quiet, Live
<1>10. ASSUME NEW r \in Request, Die(r) PROVE Quiet'
      BY <1>10 DEF Die, Proceed, requests, history, Quiet
<1>11. ASSUME NEW r \in Request, GiveUp(r) PROVE Quiet'
      BY <1>11 DEF GiveUp, RollBack, End, NothingMade, calls, Calls, Quiet, Live
<1>12. ASSUME NEW r \in Request, CommitRoster(r) PROVE Quiet'
      BY <1>12
      DEF CommitRoster, RollBack, End, NothingMade, Succeeded, LinkTo, Taken, calls,
          TypeOK, Calls, Quiet, Live
<1>13. ASSUME NEW r \in Request, CommitDeletion(r) PROVE Quiet'
      BY <1>13 DEF CommitDeletion, End, Succeeded, calls, history, Calls, Quiet, Live
<1>14. ASSUME NEW i \in Importer, Fetch(i) PROVE Quiet'
      BY <1>14 DEF Fetch, Event, requests, calls, history, Quiet
<1>15. ASSUME NEW i \in Importer, Import(i) PROVE Quiet'
      BY <1>15 DEF Import, Taken, requests, calls, Quiet
<1>16. ASSUME NEW a \in Adder, BeginAdd(a) PROVE Quiet'
      BY <1>16 DEF BeginAdd, Event, requests, calls, history, Quiet
<1>17. ASSUME NEW a \in Adder, Add(a) PROVE Quiet'
      BY <1>17 DEF Add, Involved, requests, calls, Quiet
<1>18. ASSUME Drop PROVE Quiet'
      BY <1>18 DEF Drop, Event, Involved, requests, calls, Quiet
<1>19. ASSUME SetStatus PROVE Quiet'
      BY <1>19 DEF SetStatus, Event, requests, calls, history, Quiet
<1>20. ASSUME OpenClass PROVE Quiet'
      BY <1>20, BoundAssumption, RolesAssumption
      DEF OpenClass, Event, MadeFor, requests, calls, Quiet
<1>21. ASSUME UNCHANGED vars PROVE Quiet'
      BY <1>21 DEF vars, management, classes, requests, calls, others, history, Quiet
<1> QED
      BY <1>1, <1>2, <1>3, <1>4, <1>5, <1>6, <1>7, <1>8, <1>9, <1>10, <1>11, <1>12,
         <1>13, <1>14, <1>15, <1>16, <1>17, <1>18, <1>19, <1>20, <1>21
      DEF Next, Call, Finish

\* Nobody else replaces the roster of a class while an answer is on its way.
LEMMA DeliveredStep == IInv /\ [Next]_vars => Delivered'
<1> SUFFICES ASSUME IInv, [Next]_vars PROVE Delivered'
      OBVIOUS
<1> USE DEF IInv
<1>1. ASSUME NEW r \in Request, Create(r) PROVE Delivered'
      BY <1>1, RolesAssumption
      DEF Create, Begin, Send, Settled, Live, Delivered, TypeOK, Owners, Links,
          Classes, Calls, Sent, Targets, Quiet, Request, Syncer, classes
<1>2. ASSUME NEW r \in Request, Update(r) PROVE Delivered'
      BY <1>2, RolesAssumption
      DEF Update, Begin, Send, CanLock, Settled, Delivered, classes, TypeOK, Calls,
          Owners
<1>3. ASSUME NEW r \in Request, Delete(r) PROVE Delivered'
      BY <1>3 DEF Delete, Begin, CanLock, Delivered, classes, history, Calls
<1>4. ASSUME NEW r \in Request, Access(r) PROVE Delivered'
      BY <1>4
      DEF Access, Proceed, Answer, Delivered, management, classes, requests, history,
          TypeOK
<1>5. ASSUME NEW r \in Request, Find(r) PROVE Delivered'
      BY <1>5
      DEF Find, Proceed, Answer, MadeFor, Delivered, management, classes, history,
          TypeOK, Calls
<1>6. ASSUME NEW r \in Request, Insert(r) PROVE Delivered'
  <2>1. UNCHANGED <<link, members, pc, on, body, disturbed>>
        BY <1>6 DEF Insert, management
  <2>2. answer'[r] # "ok" /\ \A x \in Request \ {r} : answer'[x] = answer[x] /\ to'[x] = to[x]
        BY <1>6 DEF Insert, Answer, Proceed, TypeOK, Calls
  <2>3. \A o \in Class : class[o] # "none" => class'[o] = class[o] /\ code'[o] = code[o]
        BY <1>6 DEF Insert, TypeOK
  <2>4. \A x \in Request : answer[x] = "ok" => to[x] \in Class /\ class[to[x]] # "none"
        BY RolesAssumption DEF Calls, Classes
  <2> QED
        BY <2>1, <2>2, <2>3, <2>4 DEF Delivered
<1>7. ASSUME NEW r \in Request, Replace(r) PROVE Delivered'
      BY <1>7, RolesAssumption
      DEF Replace, Answer, MayReplace, Delivered, TypeOK, Owners, Calls, Targets,
          Quiet, Live, management, requests, history
<1>8. ASSUME NEW r \in Request, Archive(r) PROVE Delivered'
      BY <1>8, RolesAssumption
      DEF Archive, Answer, Proceed, Delivered, management, requests, history, TypeOK,
          Calls, Syncer
<1>9. ASSUME NEW r \in Request, EraseClass(r) PROVE Delivered'
      BY <1>9, RolesAssumption
      DEF EraseClass, Answer, Delivered, management, requests, history, TypeOK, Calls,
          Owners, Links, Syncer, Quiet, Targets, Live
<1>10. ASSUME NEW r \in Request, Die(r) PROVE Delivered'
      BY <1>10 DEF Die, Proceed, Delivered, management, classes, requests, history
<1>11. ASSUME NEW r \in Request, GiveUp(r) PROVE Delivered'
      BY <1>11 DEF GiveUp, RollBack, End, NothingMade, Delivered, classes, calls
<1>12. ASSUME NEW r \in Request, CommitRoster(r) PROVE Delivered'
      BY <1>12, RolesAssumption
      DEF CommitRoster, RollBack, End, NothingMade, Succeeded, LinkTo, Taken,
          Delivered, classes, calls, TypeOK, Calls, Sent, Syncer
<1>13. ASSUME NEW r \in Request, CommitDeletion(r) PROVE Delivered'
      BY <1>13
      DEF CommitDeletion, End, Succeeded, Delivered, classes, calls, history, Sent
<1>14. ASSUME NEW i \in Importer, Fetch(i) PROVE Delivered'
      BY <1>14
      DEF Fetch, Event, Delivered, management, classes, requests, calls, history
<1>15. ASSUME NEW i \in Importer, Import(i) PROVE Delivered'
      BY <1>15, RolesAssumption
      DEF Import, Taken, Delivered, classes, requests, calls, Calls, Links
<1>16. ASSUME NEW a \in Adder, BeginAdd(a) PROVE Delivered'
      BY <1>16
      DEF BeginAdd, Event, Delivered, management, classes, requests, calls, history
<1>17. ASSUME NEW a \in Adder, Add(a) PROVE Delivered'
      BY <1>17
      DEF Add, Involved, Delivered, management, requests, calls, Owners, Targets
<1>18. ASSUME Drop PROVE Delivered'
      BY <1>18
      DEF Drop, Event, Involved, Delivered, management, requests, calls, Owners, Sent,
          Targets
<1>19. ASSUME SetStatus PROVE Delivered'
      BY <1>19 DEF SetStatus, Event, Delivered, management, requests, calls, history
<1>20. ASSUME OpenClass PROVE Delivered'
      BY <1>20, BoundAssumption, RolesAssumption
      DEF OpenClass, Event, MadeFor, Delivered, management, requests, calls,
         TypeOK, Calls, Classes
<1>21. ASSUME UNCHANGED vars PROVE Delivered'
      BY <1>21
      DEF vars, management, classes, requests, calls, others, history, Delivered
<1> QED
      BY <1>1, <1>2, <1>3, <1>4, <1>5, <1>6, <1>7, <1>8, <1>9, <1>10, <1>11, <1>12,
         <1>13, <1>14, <1>15, <1>16, <1>17, <1>18, <1>19, <1>20, <1>21
      DEF Next, Call, Finish

\* A roster is committed with the members that were sent, and only its own calls replace these.
LEMMA AgreedStep == IInv /\ [Next]_vars => Agreed'
<1> SUFFICES ASSUME IInv, [Next]_vars PROVE Agreed'
      OBVIOUS
<1> USE DEF IInv
<1>1. ASSUME NEW r \in Request, Create(r) PROVE Agreed'
      BY <1>1 DEF Create, Begin, Send, Settled, Agreed, Delivered, classes, Links
<1>2. ASSUME NEW r \in Request, Update(r) PROVE Agreed'
      BY <1>2, RolesAssumption
      DEF Update, Begin, Send, CanLock, Settled, Agreed, Delivered, classes, TypeOK
<1>3. ASSUME NEW r \in Request, Delete(r) PROVE Agreed'
      BY <1>3 DEF Delete, Begin, CanLock, Agreed, Delivered, classes, history
<1>4. ASSUME NEW r \in Request, Access(r) PROVE Agreed'
      BY <1>4
      DEF Access, Proceed, Answer, Agreed, Delivered, management, classes, history,
          TypeOK, Calls
<1>5. ASSUME NEW r \in Request, Find(r) PROVE Agreed'
      BY <1>5
      DEF Find, Proceed, Answer, MadeFor, Agreed, Delivered, management, classes,
          history, TypeOK, Calls
<1>6. ASSUME NEW r \in Request, Insert(r) PROVE Agreed'
      BY <1>6
      DEF Insert, Proceed, Answer, MadeFor, Agreed, Delivered, management, TypeOK,
          Calls, Classes
<1>7. ASSUME NEW r \in Request, Replace(r) PROVE Agreed'
      BY <1>7, RolesAssumption
      DEF Replace, Answer, MayReplace, Agreed, TypeOK, Owners, Links, Calls, Targets,
          Quiet, Live, management, history
<1>8. ASSUME NEW r \in Request, Archive(r) PROVE Agreed'
      BY <1>8
      DEF Archive, Answer, Proceed, Agreed, Delivered, management, history, TypeOK,
          Sent
<1>9. ASSUME NEW r \in Request, EraseClass(r) PROVE Agreed'
  <2>1. CASE UNCHANGED members
        BY <1>9, <2>1
        DEF EraseClass, Answer, Agreed, management, history, TypeOK, Calls
  <2>2. CASE answer' = [answer EXCEPT ![r] = "ok"]
             /\ members' = [members EXCEPT ![to[r]] = {}]
        BY <1>9, <2>2, RolesAssumption
        DEF EraseClass, Agreed, management, requests, history, TypeOK, Calls, Owners,
            Links, Classes, Quiet, Targets, Live
  <2> QED
        BY <1>9, <2>1, <2>2 DEF EraseClass, Answer
<1>10. ASSUME NEW r \in Request, Die(r) PROVE Agreed'
      BY <1>10 DEF Die, Proceed, Agreed, Delivered, management, classes, history
<1>11. ASSUME NEW r \in Request, GiveUp(r) PROVE Agreed'
      BY <1>11
      DEF GiveUp, RollBack, End, NothingMade, Agreed, Delivered, classes, calls,
          Owners
<1>12. ASSUME NEW r \in Request, CommitRoster(r) PROVE Agreed'
      BY <1>12
      DEF CommitRoster, RollBack, End, NothingMade, Succeeded, LinkTo, Taken, Agreed,
          Delivered, classes, calls, TypeOK, Calls, Links, Syncer, Quiet
<1>13. ASSUME NEW r \in Request, CommitDeletion(r) PROVE Agreed'
      BY <1>13
      DEF CommitDeletion, End, Succeeded, Agreed, Delivered, classes, calls, history,
          TypeOK
<1>14. ASSUME NEW i \in Importer, Fetch(i) PROVE Agreed'
      BY <1>14 DEF Fetch, Event, Agreed, Delivered, management, classes, calls, history
<1>15. ASSUME NEW i \in Importer, Import(i) PROVE Agreed'
      BY <1>15 DEF Import, Taken, Agreed, Delivered, classes, calls
<1>16. ASSUME NEW a \in Adder, BeginAdd(a) PROVE Agreed'
      BY <1>16
      DEF BeginAdd, Event, Agreed, Delivered, management, classes, calls, history
<1>17. ASSUME NEW a \in Adder, Add(a) PROVE Agreed'
      BY <1>17 DEF Add, Involved, Agreed, Delivered, management, calls
<1>18. ASSUME Drop PROVE Agreed'
      BY <1>18 DEF Drop, Event, Involved, Agreed, Delivered, management, calls
<1>19. ASSUME SetStatus PROVE Agreed'
      BY <1>19 DEF SetStatus, Event, Agreed, Delivered, management, calls, history
<1>20. ASSUME OpenClass PROVE Agreed'
      BY <1>20, BoundAssumption, RolesAssumption
      DEF OpenClass, Event, MadeFor, Agreed, management, calls, TypeOK, Links
<1>21. ASSUME UNCHANGED vars PROVE Agreed'
      BY <1>21 DEF vars, management, classes, requests, calls, others, history, Agreed
<1> QED
      BY <1>1, <1>2, <1>3, <1>4, <1>5, <1>6, <1>7, <1>8, <1>9, <1>10, <1>11, <1>12,
         <1>13, <1>14, <1>15, <1>16, <1>17, <1>18, <1>19, <1>20, <1>21
      DEF Next, Call, Finish

LEMMA InitIInv == Init => IInv
<1> SUFFICES ASSUME Init PROVE IInv
    OBVIOUS
<1>1. TypeOK
      BY BoundAssumption DEF Init, Handler, Roster, TypeOK
<1>2. Owners /\ Links /\ Calls /\ Sent /\ Targets /\ Quiet /\ Delivered
      BY DEF Init, Delivered, Calls, Owners, Links, Sent, Quiet, Targets
<1>3. \A o \in Class :
          \/ home[o] = None /\ \A c \in Course : link[c] # o
          \/ home[o] \in Course /\ link[home[o]] = o
      BY DEF Init
<1>4. Classes
  <2>1. \A o \in Class :
            home[o] = None \/ (home[o] \in Course /\ course[home[o]] = "live" /\ class[o] = "active")
        BY <1>3, RolesAssumption DEF Init
  <2>2. \A o \in Class :
            \/ code[o] \in {None, home[o]}
            \/ class[o] = "active" /\ code[o] \in Course /\ course[code[o]] = "live"
        BY RolesAssumption DEF Init
  <2> QED
        BY <2>1, <2>2, RolesAssumption DEF Init, Classes
<1>5. Homes
      BY <1>1, <1>3, RolesAssumption DEF Init, Homes, BelongsTo, Kept
<1>6. Agreed
      BY <1>1 DEF Init, Agreed
<1> QED
      BY <1>1, <1>2, <1>4, <1>5, <1>6 DEF IInv

LEMMA StepIInv == IInv /\ [Next]_vars => IInv'
BY TypeOKStep, OwnersStep, LinksStep, ClassesStep, CallsStep, SentStep, TargetsStep,
   HomesStep, QuietStep, DeliveredStep, AgreedStep
DEF IInv

LEMMA Invariance == Spec => []IInv
<1>1. Init => IInv
      BY InitIInv
<1>2. IInv /\ [Next]_vars => IInv'
      BY StepIInv
<1> QED
      BY <1>1, <1>2, PTL DEF Spec

-----------------------------------------------------------------------------
(* The theorems.                                                            *)

\* Every variable has its type.
THEOREM TypeCorrect == Spec => []TypeOK
<1>1. IInv => TypeOK
      BY DEF IInv
<1> QED
      BY <1>1, Invariance, PTL

\* The two services have the same roster of a course after an update that
\* succeeded.
THEOREM RostersAgree == Spec => []Agreement
<1>1. IInv => Agreement
      BY DEF IInv, Agreed, Agreement
<1> QED
      BY <1>1, Invariance, PTL

\* A class outlives its course only when a call of the course went wrong.
THEOREM OrphansAreBroken == Spec => []NoOrphan
<1>1. ASSUME IInv, NEW o \in Class, Open(o), home[o] \in Course,
             course[home[o]] \in {"deleted", "void"}, home[o] \notin broken
      PROVE  FALSE
  <2>1. Kept(o, home[o])
        BY <1>1 DEF IInv, Homes, BelongsTo
  <2>2. link[home[o]] # o
        BY <1>1, RolesAssumption DEF IInv, Links
  <2>3. LET q == rowLock[home[o]]
        IN  q \in Request /\ on[q] = home[o] /\ pc[q] = "wait"
        BY <1>1, <2>1, <2>2, RolesAssumption DEF IInv, Kept, Request, Owners, Syncer
  <2> QED
        BY <1>1, <2>3 DEF IInv, Owners
<1>2. IInv => NoOrphan
      BY <1>1 DEF NoOrphan, Open, IInv, TypeOK
<1> QED
      BY <1>2, Invariance, PTL

\* A course is stuck with a class that carries the code of another course only
\* while, or after, the result of the call that made the class was not known, or
\* when a teacher opened the class under that code.
THEOREM CoursesDeletable == Spec => []Deletable
<1>1. ASSUME IInv, NEW c \in Course, NEW d \in Course \ {c}, link[c] \in MadeFor(d),
             d \notin broken, rowLock[d] = None, link[c] \notin opened
      PROVE  FALSE
  <2>1. link[c] \in Class /\ Open(link[c]) /\ code[link[c]] = d
        BY <1>1 DEF MadeFor, Open
  <2>2. Kept(link[c], d)
        BY <1>1, <2>1 DEF IInv, Homes, BelongsTo
  <2>3. link[d] = link[c]
        BY <1>1, <2>2, RolesAssumption DEF Kept, Request, Syncer
  <2> QED
        BY <1>1, <2>1, <2>3, RolesAssumption DEF IInv, Links
<1>2. IInv => Deletable
      BY <1>1 DEF Deletable
<1> QED
      BY <1>2, Invariance, PTL

\* Nothing but an addition that had been checked before adds to a class that is
\* closed.
LEMMA ClosedStep ==
    TypeOK /\ [Next]_vars =>
        \A o \in Class :
            class[o] \in {"archived", "gone"} /\ (\A a \in Adder : adding[a] # o)
                => members'[o] \subseteq members[o]
<1> SUFFICES ASSUME TypeOK, [Next]_vars, NEW o \in Class,
                    class[o] \in {"archived", "gone"}, \A a \in Adder : adding[a] # o
             PROVE  members'[o] \subseteq members[o]
    OBVIOUS
<1>1. ASSUME NEW r \in Request, Replace(r) PROVE members'[o] \subseteq members[o]
      BY <1>1 DEF Replace, MayReplace, TypeOK
<1>2. ASSUME NEW r \in Request, EraseClass(r) PROVE members'[o] \subseteq members[o]
      BY <1>2 DEF EraseClass, TypeOK
<1>3. ASSUME NEW a \in Adder, Add(a) PROVE members'[o] \subseteq members[o]
      BY <1>3 DEF Add
<1>4. ASSUME Drop PROVE members'[o] \subseteq members[o]
      BY <1>4 DEF Drop
<1>5. ASSUME NEW r \in Request,
             Create(r) \/ Update(r) \/ Delete(r) \/ Access(r) \/ Find(r) \/ Insert(r)
                 \/ Archive(r) \/ Die(r) \/ Finish(r)
      PROVE  UNCHANGED members
      BY <1>5
      DEF Create, Update, Delete, Access, Find, Insert, Archive, Die, Finish, GiveUp,
          RollBack, CommitRoster, CommitDeletion, classes
<1>6. ASSUME NEW i \in Importer, Fetch(i) \/ Import(i) PROVE UNCHANGED members
      BY <1>6 DEF Fetch, Import, classes
<1>7. ASSUME (\E a \in Adder : BeginAdd(a)) \/ OpenClass \/ SetStatus \/ UNCHANGED vars
      PROVE  UNCHANGED members
      BY <1>7 DEF BeginAdd, OpenClass, SetStatus, vars, classes
<1> QED
      BY <1>1, <1>2, <1>3, <1>4, <1>5, <1>6, <1>7 DEF Next, Call

\* Late calls do not bring back the roster of a closed class.
THEOREM ClosedStaysClosed == Spec => ClosedRosterKept
<1>1. IInv /\ [Next]_vars =>
          [\A o \in Class :
              class[o] \in {"archived", "gone"} /\ (\A a \in Adder : adding[a] # o)
                  => members'[o] \subseteq members[o]]_vars
      BY ClosedStep DEF IInv
<1> QED
      BY <1>1, Invariance, PTL DEF Spec, ClosedRosterKept
=============================================================================
