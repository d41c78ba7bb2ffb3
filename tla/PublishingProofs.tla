-------------------------- MODULE PublishingProofs --------------------------
(***************************************************************************)
(* Publishing implements Publication for every set of requests and every   *)
(* set of questions, provided nobody touches a fresh draft before the      *)
(* request that inserted it has ended (Patient).                           *)
(***************************************************************************)
EXTENDS Publishing, TLAPS

\* What is done under the lock of the class.
InClass ==
    {"check", "batch", "row", "tests", "hide", "open", "commit", "erase", "wipe", "clean", "gone"}

\* A publication that has read the draft.
Working(r) == pc[r] \in {"class", "check", "batch", "row", "tests", "hide", "open", "commit"}

\* Which statements a request of each kind executes.
Roles ==
    /\ \A r \in Maker : Working(r) \/ pc[r] \in {"begin", "read", "done"}
    /\ \A r \in Spreader : pc[r] # "read"
    /\ \A r \in Editor : pc[r] \in {"begin", "read", "save", "done"}
    /\ \A r \in Remover : pc[r] \in {"begin", "read", "class", "check", "erase", "clean",
                                     "gone", "drop", "done"}
    /\ \A r \in Closer : pc[r] \in {"begin", "class", "check", "wipe", "clean", "gone", "done"}

\* The locks are held by those who work under them.
Held ==
    /\ \A r \in Request : pc[r] \in InClass => classLock = r
    /\ \A r \in Publisher \cup Editor : pc[r] \notin {"begin", "done"} => draftLock = r
    /\ \A r \in Remover : pc[r] \in {"read", "drop"} => draftLock = r

\* Nobody else works on a draft that does not exist, or whose first
\* publication has not ended.
Others(q) == (Maker \cup Editor \cup Remover) \ {q}

Alone ==
    /\ draft = "unborn" => \A r \in Maker \cup Editor \cup Remover : pc[r] = "begin"
    /\ \A q \in Spreader : pc[q] \notin {"begin", "done"} => \A r \in Others(q) : pc[r] = "begin"

\* What the phases of Publication rest on: a draft is published with its
\* assignment, and never made a draft again.
Order ==
    /\ batch = "published" => draft = "published"
    /\ wiping => draft \in {"published", "removed"}
    /\ \A r \in Maker : Working(r) => draft \in {"draft", "removed"} /\ doc[r] = content
    /\ \A r \in Editor : pc[r] = "save" => draft \in {"draft", "removed"}
    /\ \A r \in Remover : pc[r] \in {"clean", "gone", "drop"} => batch = "none"
    /\ \A r \in Closer : pc[r] \in {"clean", "gone"} => wiping \/ batch # "published"

\* How far the questions of a publication are.
Written(r, s) == row[s] # "none" /\ tests[s] = doc[r].version

Made ==
    \A r \in Maker :
        /\ pc[r] \in {"row", "tests"} => \A s \in doc[r].slugs \ todo[r] : Written(r, s)
        /\ pc[r] = "tests" => current[r] \in todo[r] /\ row[current[r]] # "none"
        /\ pc[r] \in {"hide", "open", "commit"} => \A s \in doc[r].slugs : Written(r, s)
        /\ pc[r] = "commit" => \A s \in doc[r].slugs : row[s] = "open"

IInv == TypeOK /\ Roles /\ Held /\ Alone /\ Order /\ Made

\* A document has questions and a version.
LEMMA Documents ==
  ASSUME NEW d \in Document
  PROVE  d.slugs \in SUBSET Slug /\ d.slugs # {} /\ d.version \in 1..MaxVersion
  BY DEF Document, Version

\* Every step keeps the types.
LEMMA TypeStep ==
  ASSUME TypeOK, [Next]_vars
  PROVE  TypeOK'
<1> USE RolesAssumption, BoundAssumption, FreeAssumption, Documents DEF TypeOK, Label, vars, course, judge, locks, work
<1>1. ASSUME NEW r \in Request, TakeDraftLock(r)
      PROVE  TypeOK'
  BY <1>1 DEF TakeDraftLock, Known, Goto
<1>2. ASSUME NEW r \in Request, TakeClassLock(r)
      PROVE  TypeOK'
  BY <1>2 DEF TakeClassLock, Goto
<1>3. ASSUME NEW r \in Request, Abort(r)
      PROVE  TypeOK'
  BY <1>3 DEF Abort, Leave, ReleaseLocks, Goto
<1>4. ASSUME NEW r \in Request, InsertDraft(r)
      PROVE  TypeOK'
  BY <1>4 DEF InsertDraft, RowHeld, Goto
<1>5. ASSUME NEW r \in Request, ReadDraft(r)
      PROVE  TypeOK'
  BY <1>5 DEF ReadDraft, StillToPublish, Leave, ReleaseLocks, Goto
<1>6. ASSUME NEW r \in Request, CheckClass(r)
      PROVE  TypeOK'
  BY <1>6 DEF CheckClass, Leave, ReleaseLocks, Goto
<1>7. ASSUME NEW r \in Request, EnsureBatch(r)
      PROVE  TypeOK'
  BY <1>7 DEF EnsureBatch, Goto
<1>8. ASSUME NEW r \in Request, SyncRow(r)
      PROVE  TypeOK'
  BY <1>8 DEF SyncRow, Goto
<1>9. ASSUME NEW r \in Request, WriteTests(r)
      PROVE  TypeOK'
  BY <1>9 DEF WriteTests, Goto
<1>10. ASSUME NEW r \in Request, HideOthers(r)
      PROVE  TypeOK'
  BY <1>10 DEF HideOthers, Goto
<1>11. ASSUME NEW r \in Request, OpenQuestions(r)
      PROVE  TypeOK'
  BY <1>11 DEF OpenQuestions, Goto
<1>12. ASSUME NEW r \in Request, Commit(r)
      PROVE  TypeOK'
  BY <1>12 DEF Commit, Leave, ReleaseLocks, Goto
<1>13. ASSUME NEW r \in Request, ReadForSave(r)
      PROVE  TypeOK'
  <2>1. pc' \in [Request -> Label] /\ UNCHANGED <<course, judge, todo, current, aborts>>
    BY <1>13 DEF ReadForSave, Leave, Goto
  <2>2. draftLock' \in Request \cup {Free} /\ classLock' \in Request \cup {Free}
    BY <1>13 DEF ReadForSave, Leave, ReleaseLocks
  <2>3. ASSUME content.version < MaxVersion, NEW slugs \in (SUBSET Slug) \ {{}}
        PROVE  [slugs |-> slugs, version |-> content.version + 1] \in Document
    BY <2>3 DEF Document, Version
  <2>4. doc' \in [Request -> Document]
    BY <1>13, <2>3 DEF ReadForSave, Valid
  <2> QED
    BY <2>1, <2>2, <2>4
<1>14. ASSUME NEW r \in Request, SaveDraft(r)
      PROVE  TypeOK'
  BY <1>14 DEF SaveDraft, Leave, ReleaseLocks, Goto
<1>15. ASSUME NEW r \in Request, ReadForRemoval(r)
      PROVE  TypeOK'
  BY <1>15 DEF ReadForRemoval, Leave, ReleaseLocks, Goto
<1>16. ASSUME NEW r \in Request, BeginRemoval(r)
      PROVE  TypeOK'
  BY <1>16 DEF BeginRemoval, Known, Goto
<1>17. ASSUME NEW r \in Request, CloseBatch(r)
      PROVE  TypeOK'
  <2>1. pc' \in [Request -> Label] /\ batch' \in {"none", "draft", "published", "closed"}
    BY <1>17 DEF CloseBatch, Leave, Goto
  <2>2. draftLock' \in Request \cup {Free} /\ classLock' \in Request \cup {Free}
    BY <1>17 DEF CloseBatch, Leave, ReleaseLocks
  <2>3. todo' \in [Request -> SUBSET Slug]
    BY <1>17 DEF CloseBatch
  <2> QED
    BY <1>17, <2>1, <2>2, <2>3 DEF CloseBatch
<1>18. ASSUME NEW r \in Request, Erase(r)
      PROVE  TypeOK'
  BY <1>18 DEF Erase, ErasedDraft, Goto
<1>19. ASSUME NEW r \in Request, RemoveTests(r)
      PROVE  TypeOK'
  BY <1>19 DEF RemoveTests, Goto
<1>20. ASSUME NEW r \in Request, RemoveRow(r)
      PROVE  TypeOK'
  BY <1>20 DEF RemoveRow, Goto
<1>21. ASSUME NEW r \in Request, EndRemoval(r)
      PROVE  TypeOK'
  BY <1>21 DEF EndRemoval, Leave, ReleaseLocks, Goto
<1>22. ASSUME NEW r \in Request, DropDraft(r)
      PROVE  TypeOK'
  BY <1>22 DEF DropDraft, Leave, ReleaseLocks, Goto
<1>23. ASSUME NEW r \in Request, BeginDeletion(r)
      PROVE  TypeOK'
  BY <1>23 DEF BeginDeletion, Goto
<1>24. ASSUME NEW r \in Request, ArchiveClass(r)
      PROVE  TypeOK'
  <2>1. pc' \in [Request -> Label] /\ class' \in {"active", "archived", "gone"}
    BY <1>24 DEF ArchiveClass, Leave, Goto
  <2>2. draftLock' \in Request \cup {Free} /\ classLock' \in Request \cup {Free}
    BY <1>24 DEF ArchiveClass, Leave, ReleaseLocks
  <2>3. todo' \in [Request -> SUBSET Slug]
    BY <1>24 DEF ArchiveClass
  <2> QED
    BY <1>24, <2>1, <2>2, <2>3 DEF ArchiveClass
<1>25. ASSUME NEW r \in Request, BeginWipe(r)
      PROVE  TypeOK'
  BY <1>25 DEF BeginWipe, Goto
<1>26. ASSUME NEW r \in Request, DeleteClass(r)
      PROVE  TypeOK'
  BY <1>26 DEF DeleteClass, Leave, ReleaseLocks, ErasedDraft, Goto
<1>27. CASE SetStatus
  BY <1>27 DEF SetStatus
<1>28. CASE UNCHANGED vars
  BY <1>28
<1> QED
  BY <1>1, <1>2, <1>3, <1>4, <1>5, <1>6, <1>7, <1>8, <1>9, <1>10, <1>11,
     <1>12, <1>13, <1>14, <1>15, <1>16, <1>17, <1>18, <1>19, <1>20, <1>21,
     <1>22, <1>23, <1>24, <1>25, <1>26, <1>27, <1>28 DEF Next, Step,
     Publish, Remove

\* A request goes on along its own path.
LEMMA RolesStep ==
  ASSUME TypeOK, Roles, [Next]_vars
  PROVE  Roles'
<1> USE RolesAssumption DEF TypeOK, Roles, Working, Maker, Request, vars, course, judge, locks, work
<1>1. ASSUME NEW r \in Request, TakeDraftLock(r)
      PROVE  Roles'
  BY <1>1 DEF TakeDraftLock, Known, Goto
<1>2. ASSUME NEW r \in Request, TakeClassLock(r)
      PROVE  Roles'
  BY <1>2 DEF TakeClassLock, Goto
<1>3. ASSUME NEW r \in Request, Abort(r)
      PROVE  Roles'
  BY <1>3 DEF Abort, Leave, ReleaseLocks, Goto
<1>4. ASSUME NEW r \in Request, InsertDraft(r)
      PROVE  Roles'
  BY <1>4 DEF InsertDraft, RowHeld, Goto
<1>5. ASSUME NEW r \in Request, ReadDraft(r)
      PROVE  Roles'
  BY <1>5 DEF ReadDraft, StillToPublish, Leave, ReleaseLocks, Goto
<1>6. ASSUME NEW r \in Request, CheckClass(r)
      PROVE  Roles'
  BY <1>6 DEF CheckClass, Leave, ReleaseLocks, Goto
<1>7. ASSUME NEW r \in Request, EnsureBatch(r)
      PROVE  Roles'
  BY <1>7 DEF EnsureBatch, Goto
<1>8. ASSUME NEW r \in Request, SyncRow(r)
      PROVE  Roles'
  BY <1>8 DEF SyncRow, Goto
<1>9. ASSUME NEW r \in Request, WriteTests(r)
      PROVE  Roles'
  BY <1>9 DEF WriteTests, Goto
<1>10. ASSUME NEW r \in Request, HideOthers(r)
      PROVE  Roles'
  BY <1>10 DEF HideOthers, Goto
<1>11. ASSUME NEW r \in Request, OpenQuestions(r)
      PROVE  Roles'
  BY <1>11 DEF OpenQuestions, Goto
<1>12. ASSUME NEW r \in Request, Commit(r)
      PROVE  Roles'
  BY <1>12 DEF Commit, Leave, ReleaseLocks, Goto
<1>13. ASSUME NEW r \in Request, ReadForSave(r)
      PROVE  Roles'
  BY <1>13 DEF ReadForSave, Leave, ReleaseLocks, Goto
<1>14. ASSUME NEW r \in Request, SaveDraft(r)
      PROVE  Roles'
  BY <1>14 DEF SaveDraft, Leave, ReleaseLocks, Goto
<1>15. ASSUME NEW r \in Request, ReadForRemoval(r)
      PROVE  Roles'
  BY <1>15 DEF ReadForRemoval, Leave, ReleaseLocks, Goto
<1>16. ASSUME NEW r \in Request, BeginRemoval(r)
      PROVE  Roles'
  BY <1>16 DEF BeginRemoval, Known, Goto
<1>17. ASSUME NEW r \in Request, CloseBatch(r)
      PROVE  Roles'
  BY <1>17 DEF CloseBatch, Leave, ReleaseLocks, Goto
<1>18. ASSUME NEW r \in Request, Erase(r)
      PROVE  Roles'
  BY <1>18 DEF Erase, ErasedDraft, Goto
<1>19. ASSUME NEW r \in Request, RemoveTests(r)
      PROVE  Roles'
  BY <1>19 DEF RemoveTests, Goto
<1>20. ASSUME NEW r \in Request, RemoveRow(r)
      PROVE  Roles'
  BY <1>20 DEF RemoveRow, Goto
<1>21. ASSUME NEW r \in Request, EndRemoval(r)
      PROVE  Roles'
  BY <1>21 DEF EndRemoval, Leave, ReleaseLocks, Goto
<1>22. ASSUME NEW r \in Request, DropDraft(r)
      PROVE  Roles'
  BY <1>22 DEF DropDraft, Leave, ReleaseLocks, Goto
<1>23. ASSUME NEW r \in Request, BeginDeletion(r)
      PROVE  Roles'
  BY <1>23 DEF BeginDeletion, Goto
<1>24. ASSUME NEW r \in Request, ArchiveClass(r)
      PROVE  Roles'
  BY <1>24 DEF ArchiveClass, Leave, ReleaseLocks, Goto
<1>25. ASSUME NEW r \in Request, BeginWipe(r)
      PROVE  Roles'
  BY <1>25 DEF BeginWipe, Goto
<1>26. ASSUME NEW r \in Request, DeleteClass(r)
      PROVE  Roles'
  BY <1>26 DEF DeleteClass, Leave, ReleaseLocks, ErasedDraft, Goto
<1>27. CASE SetStatus
  BY <1>27 DEF SetStatus
<1>28. CASE UNCHANGED vars
  BY <1>28
<1> QED
  BY <1>1, <1>2, <1>3, <1>4, <1>5, <1>6, <1>7, <1>8, <1>9, <1>10, <1>11,
     <1>12, <1>13, <1>14, <1>15, <1>16, <1>17, <1>18, <1>19, <1>20, <1>21,
     <1>22, <1>23, <1>24, <1>25, <1>26, <1>27, <1>28 DEF Next, Step,
     Publish, Remove

\* A lock is given back only when the work under it has ended.
LEMMA HeldStep ==
  ASSUME TypeOK, Roles, Held, [Next]_vars
  PROVE  Held'
<1> USE RolesAssumption, FreeAssumption DEF TypeOK, Roles, Held, InClass, Working, Maker, Request, vars, course, judge, locks, work
<1>1. ASSUME NEW r \in Request, TakeDraftLock(r)
      PROVE  Held'
  BY <1>1 DEF TakeDraftLock, Known, Goto
<1>2. ASSUME NEW r \in Request, TakeClassLock(r)
      PROVE  Held'
  BY <1>2 DEF TakeClassLock, Goto
<1>3. ASSUME NEW r \in Request, Abort(r)
      PROVE  Held'
  BY <1>3 DEF Abort, Leave, ReleaseLocks, Goto
<1>4. ASSUME NEW r \in Request, InsertDraft(r)
      PROVE  Held'
  BY <1>4 DEF InsertDraft, RowHeld, Goto
<1>5. ASSUME NEW r \in Request, ReadDraft(r)
      PROVE  Held'
  BY <1>5 DEF ReadDraft, StillToPublish, Leave, ReleaseLocks, Goto
<1>6. ASSUME NEW r \in Request, CheckClass(r)
      PROVE  Held'
  BY <1>6 DEF CheckClass, Leave, ReleaseLocks, Goto
<1>7. ASSUME NEW r \in Request, EnsureBatch(r)
      PROVE  Held'
  BY <1>7 DEF EnsureBatch, Goto
<1>8. ASSUME NEW r \in Request, SyncRow(r)
      PROVE  Held'
  BY <1>8 DEF SyncRow, Goto
<1>9. ASSUME NEW r \in Request, WriteTests(r)
      PROVE  Held'
  BY <1>9 DEF WriteTests, Goto
<1>10. ASSUME NEW r \in Request, HideOthers(r)
      PROVE  Held'
  BY <1>10 DEF HideOthers, Goto
<1>11. ASSUME NEW r \in Request, OpenQuestions(r)
      PROVE  Held'
  BY <1>11 DEF OpenQuestions, Goto
<1>12. ASSUME NEW r \in Request, Commit(r)
      PROVE  Held'
  BY <1>12 DEF Commit, Leave, ReleaseLocks, Goto
<1>13. ASSUME NEW r \in Request, ReadForSave(r)
      PROVE  Held'
  BY <1>13 DEF ReadForSave, Leave, ReleaseLocks, Goto
<1>14. ASSUME NEW r \in Request, SaveDraft(r)
      PROVE  Held'
  BY <1>14 DEF SaveDraft, Leave, ReleaseLocks, Goto
<1>15. ASSUME NEW r \in Request, ReadForRemoval(r)
      PROVE  Held'
  BY <1>15 DEF ReadForRemoval, Leave, ReleaseLocks, Goto
<1>16. ASSUME NEW r \in Request, BeginRemoval(r)
      PROVE  Held'
  BY <1>16 DEF BeginRemoval, Known, Goto
<1>17. ASSUME NEW r \in Request, CloseBatch(r)
      PROVE  Held'
  BY <1>17 DEF CloseBatch, Leave, ReleaseLocks, Goto
<1>18. ASSUME NEW r \in Request, Erase(r)
      PROVE  Held'
  BY <1>18 DEF Erase, ErasedDraft, Goto
<1>19. ASSUME NEW r \in Request, RemoveTests(r)
      PROVE  Held'
  BY <1>19 DEF RemoveTests, Goto
<1>20. ASSUME NEW r \in Request, RemoveRow(r)
      PROVE  Held'
  BY <1>20 DEF RemoveRow, Goto
<1>21. ASSUME NEW r \in Request, EndRemoval(r)
      PROVE  Held'
  BY <1>21 DEF EndRemoval, Leave, ReleaseLocks, Goto
<1>22. ASSUME NEW r \in Request, DropDraft(r)
      PROVE  Held'
  BY <1>22 DEF DropDraft, Leave, ReleaseLocks, Goto
<1>23. ASSUME NEW r \in Request, BeginDeletion(r)
      PROVE  Held'
  BY <1>23 DEF BeginDeletion, Goto
<1>24. ASSUME NEW r \in Request, ArchiveClass(r)
      PROVE  Held'
  BY <1>24 DEF ArchiveClass, Leave, ReleaseLocks, Goto
<1>25. ASSUME NEW r \in Request, BeginWipe(r)
      PROVE  Held'
  BY <1>25 DEF BeginWipe, Goto
<1>26. ASSUME NEW r \in Request, DeleteClass(r)
      PROVE  Held'
  BY <1>26 DEF DeleteClass, Leave, ReleaseLocks, ErasedDraft, Goto
<1>27. CASE SetStatus
  BY <1>27 DEF SetStatus
<1>28. CASE UNCHANGED vars
  BY <1>28
<1> QED
  BY <1>1, <1>2, <1>3, <1>4, <1>5, <1>6, <1>7, <1>8, <1>9, <1>10, <1>11,
     <1>12, <1>13, <1>14, <1>15, <1>16, <1>17, <1>18, <1>19, <1>20, <1>21,
     <1>22, <1>23, <1>24, <1>25, <1>26, <1>27, <1>28 DEF Next, Step,
     Publish, Remove

\* A fresh draft is left alone.
LEMMA AloneStep ==
  ASSUME Patient, TypeOK, Roles, Alone, [Next]_vars
  PROVE  Alone'
<1> USE RolesAssumption DEF TypeOK, Roles, Alone, Others, Working, Maker, Request, vars, course, judge, locks, work
<1>1. ASSUME NEW r \in Request, TakeDraftLock(r)
      PROVE  Alone'
  BY <1>1 DEF TakeDraftLock, Known, Goto
<1>2. ASSUME NEW r \in Request, TakeClassLock(r)
      PROVE  Alone'
  BY <1>2 DEF TakeClassLock, Goto
<1>3. ASSUME NEW r \in Request, Abort(r)
      PROVE  Alone'
  BY <1>3 DEF Abort, Leave, ReleaseLocks, Goto
<1>4. ASSUME NEW r \in Request, InsertDraft(r)
      PROVE  Alone'
  BY <1>4 DEF InsertDraft, RowHeld, Goto
<1>5. ASSUME NEW r \in Request, ReadDraft(r)
      PROVE  Alone'
  BY <1>5 DEF ReadDraft, StillToPublish, Leave, ReleaseLocks, Goto
<1>6. ASSUME NEW r \in Request, CheckClass(r)
      PROVE  Alone'
  BY <1>6 DEF CheckClass, Leave, ReleaseLocks, Goto
<1>7. ASSUME NEW r \in Request, EnsureBatch(r)
      PROVE  Alone'
  BY <1>7 DEF EnsureBatch, Goto
<1>8. ASSUME NEW r \in Request, SyncRow(r)
      PROVE  Alone'
  BY <1>8 DEF SyncRow, Goto
<1>9. ASSUME NEW r \in Request, WriteTests(r)
      PROVE  Alone'
  BY <1>9 DEF WriteTests, Goto
<1>10. ASSUME NEW r \in Request, HideOthers(r)
      PROVE  Alone'
  BY <1>10 DEF HideOthers, Goto
<1>11. ASSUME NEW r \in Request, OpenQuestions(r)
      PROVE  Alone'
  BY <1>11 DEF OpenQuestions, Goto
<1>12. ASSUME NEW r \in Request, Commit(r)
      PROVE  Alone'
  BY <1>12 DEF Commit, Leave, ReleaseLocks, Goto
<1>13. ASSUME NEW r \in Request, ReadForSave(r)
      PROVE  Alone'
  BY <1>13 DEF ReadForSave, Leave, ReleaseLocks, Goto
<1>14. ASSUME NEW r \in Request, SaveDraft(r)
      PROVE  Alone'
  BY <1>14 DEF SaveDraft, Leave, ReleaseLocks, Goto
<1>15. ASSUME NEW r \in Request, ReadForRemoval(r)
      PROVE  Alone'
  BY <1>15 DEF ReadForRemoval, Leave, ReleaseLocks, Goto
<1>16. ASSUME NEW r \in Request, BeginRemoval(r)
      PROVE  Alone'
  BY <1>16 DEF BeginRemoval, Known, Goto
<1>17. ASSUME NEW r \in Request, CloseBatch(r)
      PROVE  Alone'
  BY <1>17 DEF CloseBatch, Leave, ReleaseLocks, Goto
<1>18. ASSUME NEW r \in Request, Erase(r)
      PROVE  Alone'
  BY <1>18 DEF Erase, ErasedDraft, Goto
<1>19. ASSUME NEW r \in Request, RemoveTests(r)
      PROVE  Alone'
  BY <1>19 DEF RemoveTests, Goto
<1>20. ASSUME NEW r \in Request, RemoveRow(r)
      PROVE  Alone'
  BY <1>20 DEF RemoveRow, Goto
<1>21. ASSUME NEW r \in Request, EndRemoval(r)
      PROVE  Alone'
  BY <1>21 DEF EndRemoval, Leave, ReleaseLocks, Goto
<1>22. ASSUME NEW r \in Request, DropDraft(r)
      PROVE  Alone'
  BY <1>22 DEF DropDraft, Leave, ReleaseLocks, Goto
<1>23. ASSUME NEW r \in Request, BeginDeletion(r)
      PROVE  Alone'
  BY <1>23 DEF BeginDeletion, Goto
<1>24. ASSUME NEW r \in Request, ArchiveClass(r)
      PROVE  Alone'
  BY <1>24 DEF ArchiveClass, Leave, ReleaseLocks, Goto
<1>25. ASSUME NEW r \in Request, BeginWipe(r)
      PROVE  Alone'
  BY <1>25 DEF BeginWipe, Goto
<1>26. ASSUME NEW r \in Request, DeleteClass(r)
      PROVE  Alone'
  BY <1>26 DEF DeleteClass, Leave, ReleaseLocks, ErasedDraft, Goto
<1>27. CASE SetStatus
  BY <1>27 DEF SetStatus
<1>28. CASE UNCHANGED vars
  BY <1>28
<1> QED
  BY <1>1, <1>2, <1>3, <1>4, <1>5, <1>6, <1>7, <1>8, <1>9, <1>10, <1>11,
     <1>12, <1>13, <1>14, <1>15, <1>16, <1>17, <1>18, <1>19, <1>20, <1>21,
     <1>22, <1>23, <1>24, <1>25, <1>26, <1>27, <1>28 DEF Next, Step,
     Publish, Remove

\* The rows of the class change in the order of Publication.
LEMMA OrderStep ==
  ASSUME Patient, TypeOK, Roles, Held, Alone, Order, [Next]_vars
  PROVE  Order'
<1> USE RolesAssumption, FreeAssumption DEF TypeOK, Roles, Held, Alone, Order, InClass, Working, Others, Maker, Request, vars, course, judge, locks, work
<1>1. ASSUME NEW r \in Request, TakeDraftLock(r)
      PROVE  Order'
  BY <1>1 DEF TakeDraftLock, Known, Goto
<1>2. ASSUME NEW r \in Request, TakeClassLock(r)
      PROVE  Order'
  BY <1>2 DEF TakeClassLock, Goto
<1>3. ASSUME NEW r \in Request, Abort(r)
      PROVE  Order'
  BY <1>3 DEF Abort, Leave, ReleaseLocks, Goto
<1>4. ASSUME NEW r \in Request, InsertDraft(r)
      PROVE  Order'
  BY <1>4 DEF InsertDraft, RowHeld, Goto
<1>5. ASSUME NEW r \in Request, ReadDraft(r)
      PROVE  Order'
  BY <1>5 DEF ReadDraft, StillToPublish, Leave, ReleaseLocks, Goto
<1>6. ASSUME NEW r \in Request, CheckClass(r)
      PROVE  Order'
  BY <1>6 DEF CheckClass, Leave, ReleaseLocks, Goto
<1>7. ASSUME NEW r \in Request, EnsureBatch(r)
      PROVE  Order'
  BY <1>7 DEF EnsureBatch, Goto
<1>8. ASSUME NEW r \in Request, SyncRow(r)
      PROVE  Order'
  BY <1>8 DEF SyncRow, Goto
<1>9. ASSUME NEW r \in Request, WriteTests(r)
      PROVE  Order'
  BY <1>9 DEF WriteTests, Goto
<1>10. ASSUME NEW r \in Request, HideOthers(r)
      PROVE  Order'
  BY <1>10 DEF HideOthers, Goto
<1>11. ASSUME NEW r \in Request, OpenQuestions(r)
      PROVE  Order'
  BY <1>11 DEF OpenQuestions, Goto
<1>12. ASSUME NEW r \in Request, Commit(r)
      PROVE  Order'
  BY <1>12 DEF Commit, Leave, ReleaseLocks, Goto
<1>13. ASSUME NEW r \in Request, ReadForSave(r)
      PROVE  Order'
  BY <1>13 DEF ReadForSave, Leave, ReleaseLocks, Goto
<1>14. ASSUME NEW r \in Request, SaveDraft(r)
      PROVE  Order'
  BY <1>14 DEF SaveDraft, Leave, ReleaseLocks, Goto
<1>15. ASSUME NEW r \in Request, ReadForRemoval(r)
      PROVE  Order'
  BY <1>15 DEF ReadForRemoval, Leave, ReleaseLocks, Goto
<1>16. ASSUME NEW r \in Request, BeginRemoval(r)
      PROVE  Order'
  BY <1>16 DEF BeginRemoval, Known, Goto
<1>17. ASSUME NEW r \in Request, CloseBatch(r)
      PROVE  Order'
  BY <1>17 DEF CloseBatch, Leave, ReleaseLocks, Goto
<1>18. ASSUME NEW r \in Request, Erase(r)
      PROVE  Order'
  BY <1>18 DEF Erase, ErasedDraft, Goto
<1>19. ASSUME NEW r \in Request, RemoveTests(r)
      PROVE  Order'
  BY <1>19 DEF RemoveTests, Goto
<1>20. ASSUME NEW r \in Request, RemoveRow(r)
      PROVE  Order'
  BY <1>20 DEF RemoveRow, Goto
<1>21. ASSUME NEW r \in Request, EndRemoval(r)
      PROVE  Order'
  BY <1>21 DEF EndRemoval, Leave, ReleaseLocks, Goto
<1>22. ASSUME NEW r \in Request, DropDraft(r)
      PROVE  Order'
  BY <1>22 DEF DropDraft, Leave, ReleaseLocks, Goto
<1>23. ASSUME NEW r \in Request, BeginDeletion(r)
      PROVE  Order'
  BY <1>23 DEF BeginDeletion, Goto
<1>24. ASSUME NEW r \in Request, ArchiveClass(r)
      PROVE  Order'
  BY <1>24 DEF ArchiveClass, Leave, ReleaseLocks, Goto
<1>25. ASSUME NEW r \in Request, BeginWipe(r)
      PROVE  Order'
  BY <1>25 DEF BeginWipe, Goto
<1>26. ASSUME NEW r \in Request, DeleteClass(r)
      PROVE  Order'
  BY <1>26 DEF DeleteClass, Leave, ReleaseLocks, ErasedDraft, Goto
<1>27. CASE SetStatus
  BY <1>27 DEF SetStatus
<1>28. CASE UNCHANGED vars
  BY <1>28
<1> QED
  BY <1>1, <1>2, <1>3, <1>4, <1>5, <1>6, <1>7, <1>8, <1>9, <1>10, <1>11,
     <1>12, <1>13, <1>14, <1>15, <1>16, <1>17, <1>18, <1>19, <1>20, <1>21,
     <1>22, <1>23, <1>24, <1>25, <1>26, <1>27, <1>28 DEF Next, Step,
     Publish, Remove

\* The questions of a publication become whole and stay so.
LEMMA MadeStep ==
  ASSUME Patient, TypeOK, Roles, Held, Alone, Order, Made, [Next]_vars
  PROVE  Made'
<1> USE RolesAssumption, FreeAssumption DEF TypeOK, Roles, Held, Alone, Order, Made, Written, InClass, Working, Others, Maker, Request, vars, course, judge, locks, work
<1>1. ASSUME NEW r \in Request, TakeDraftLock(r)
      PROVE  Made'
  BY <1>1 DEF TakeDraftLock, Known, Goto
<1>2. ASSUME NEW r \in Request, TakeClassLock(r)
      PROVE  Made'
  BY <1>2 DEF TakeClassLock, Goto
<1>3. ASSUME NEW r \in Request, Abort(r)
      PROVE  Made'
  BY <1>3 DEF Abort, Leave, ReleaseLocks, Goto
<1>4. ASSUME NEW r \in Request, InsertDraft(r)
      PROVE  Made'
  BY <1>4 DEF InsertDraft, RowHeld, Goto
<1>5. ASSUME NEW r \in Request, ReadDraft(r)
      PROVE  Made'
  BY <1>5 DEF ReadDraft, StillToPublish, Leave, ReleaseLocks, Goto
<1>6. ASSUME NEW r \in Request, CheckClass(r)
      PROVE  Made'
  BY <1>6 DEF CheckClass, Leave, ReleaseLocks, Goto
<1>7. ASSUME NEW r \in Request, EnsureBatch(r)
      PROVE  Made'
  BY <1>7 DEF EnsureBatch, Goto
<1>8. ASSUME NEW r \in Request, SyncRow(r)
      PROVE  Made'
  BY <1>8 DEF SyncRow, Goto
<1>9. ASSUME NEW r \in Request, WriteTests(r)
      PROVE  Made'
  BY <1>9 DEF WriteTests, Goto
<1>10. ASSUME NEW r \in Request, HideOthers(r)
      PROVE  Made'
  <2>1. \A m \in Maker : m # r => pc[m] \notin InClass
    BY <1>10 DEF HideOthers
  <2>2. r \in Maker /\ pc'[r] = "open" /\ \A m \in Maker : m # r => pc'[m] = pc[m]
    BY <1>10 DEF HideOthers, Goto
  <2>3. \A s \in doc'[r].slugs : Written(r, s)'
    BY <1>10 DEF HideOthers, Document
  <2> QED
    BY <2>1, <2>2, <2>3
<1>11. ASSUME NEW r \in Request, OpenQuestions(r)
      PROVE  Made'
  <2>1. \A m \in Maker : m # r => pc[m] \notin InClass
    BY <1>11 DEF OpenQuestions
  <2>2. r \in Maker /\ pc'[r] = "commit" /\ \A m \in Maker : m # r => pc'[m] = pc[m]
    BY <1>11 DEF OpenQuestions, Goto
  <2>3. \A s \in doc'[r].slugs : Written(r, s)' /\ row'[s] = "open"
    BY <1>11 DEF OpenQuestions, Document
  <2> QED
    BY <2>1, <2>2, <2>3
<1>12. ASSUME NEW r \in Request, Commit(r)
      PROVE  Made'
  BY <1>12 DEF Commit, Leave, ReleaseLocks, Goto
<1>13. ASSUME NEW r \in Request, ReadForSave(r)
      PROVE  Made'
  BY <1>13 DEF ReadForSave, Leave, ReleaseLocks, Goto
<1>14. ASSUME NEW r \in Request, SaveDraft(r)
      PROVE  Made'
  BY <1>14 DEF SaveDraft, Leave, ReleaseLocks, Goto
<1>15. ASSUME NEW r \in Request, ReadForRemoval(r)
      PROVE  Made'
  BY <1>15 DEF ReadForRemoval, Leave, ReleaseLocks, Goto
<1>16. ASSUME NEW r \in Request, BeginRemoval(r)
      PROVE  Made'
  BY <1>16 DEF BeginRemoval, Known, Goto
<1>17. ASSUME NEW r \in Request, CloseBatch(r)
      PROVE  Made'
  BY <1>17 DEF CloseBatch, Leave, ReleaseLocks, Goto
<1>18. ASSUME NEW r \in Request, Erase(r)
      PROVE  Made'
  BY <1>18 DEF Erase, ErasedDraft, Goto
<1>19. ASSUME NEW r \in Request, RemoveTests(r)
      PROVE  Made'
  BY <1>19 DEF RemoveTests, Goto
<1>20. ASSUME NEW r \in Request, RemoveRow(r)
      PROVE  Made'
  BY <1>20 DEF RemoveRow, Goto
<1>21. ASSUME NEW r \in Request, EndRemoval(r)
      PROVE  Made'
  BY <1>21 DEF EndRemoval, Leave, ReleaseLocks, Goto
<1>22. ASSUME NEW r \in Request, DropDraft(r)
      PROVE  Made'
  BY <1>22 DEF DropDraft, Leave, ReleaseLocks, Goto
<1>23. ASSUME NEW r \in Request, BeginDeletion(r)
      PROVE  Made'
  BY <1>23 DEF BeginDeletion, Goto
<1>24. ASSUME NEW r \in Request, ArchiveClass(r)
      PROVE  Made'
  BY <1>24 DEF ArchiveClass, Leave, ReleaseLocks, Goto
<1>25. ASSUME NEW r \in Request, BeginWipe(r)
      PROVE  Made'
  BY <1>25 DEF BeginWipe, Goto
<1>26. ASSUME NEW r \in Request, DeleteClass(r)
      PROVE  Made'
  BY <1>26 DEF DeleteClass, Leave, ReleaseLocks, ErasedDraft, Goto
<1>27. CASE SetStatus
  BY <1>27 DEF SetStatus
<1>28. CASE UNCHANGED vars
  BY <1>28
<1> QED
  BY <1>1, <1>2, <1>3, <1>4, <1>5, <1>6, <1>7, <1>8, <1>9, <1>10, <1>11,
     <1>12, <1>13, <1>14, <1>15, <1>16, <1>17, <1>18, <1>19, <1>20, <1>21,
     <1>22, <1>23, <1>24, <1>25, <1>26, <1>27, <1>28 DEF Next, Step,
     Publish, Remove

\* An assignment goes with its draft.
LEMMA PublishedStep ==
  ASSUME TypeOK, PublishedHasAssignment, [Next]_vars
  PROVE  PublishedHasAssignment'
<1> USE Documents DEF TypeOK, PublishedHasAssignment, ErasedDraft, vars, course, judge, locks, work
<1>1. ASSUME NEW r \in Request, TakeDraftLock(r)
      PROVE  PublishedHasAssignment'
  BY <1>1 DEF TakeDraftLock, Known, Goto
<1>2. ASSUME NEW r \in Request, TakeClassLock(r)
      PROVE  PublishedHasAssignment'
  BY <1>2 DEF TakeClassLock, Goto
<1>3. ASSUME NEW r \in Request, Abort(r)
      PROVE  PublishedHasAssignment'
  BY <1>3 DEF Abort, Leave, ReleaseLocks, Goto
<1>4. ASSUME NEW r \in Request, InsertDraft(r)
      PROVE  PublishedHasAssignment'
  BY <1>4 DEF InsertDraft, RowHeld, Goto
<1>5. ASSUME NEW r \in Request, ReadDraft(r)
      PROVE  PublishedHasAssignment'
  BY <1>5 DEF ReadDraft, StillToPublish, Leave, ReleaseLocks, Goto
<1>6. ASSUME NEW r \in Request, CheckClass(r)
      PROVE  PublishedHasAssignment'
  BY <1>6 DEF CheckClass, Leave, ReleaseLocks, Goto
<1>7. ASSUME NEW r \in Request, EnsureBatch(r)
      PROVE  PublishedHasAssignment'
  BY <1>7 DEF EnsureBatch, Goto
<1>8. ASSUME NEW r \in Request, SyncRow(r)
      PROVE  PublishedHasAssignment'
  BY <1>8 DEF SyncRow, Goto
<1>9. ASSUME NEW r \in Request, WriteTests(r)
      PROVE  PublishedHasAssignment'
  BY <1>9 DEF WriteTests, Goto
<1>10. ASSUME NEW r \in Request, HideOthers(r)
      PROVE  PublishedHasAssignment'
  BY <1>10 DEF HideOthers, Goto
<1>11. ASSUME NEW r \in Request, OpenQuestions(r)
      PROVE  PublishedHasAssignment'
  BY <1>11 DEF OpenQuestions, Goto
<1>12. ASSUME NEW r \in Request, Commit(r)
      PROVE  PublishedHasAssignment'
  <2>1. doc[r].slugs # {}
    OBVIOUS
  <2> QED
    BY <1>12, <2>1 DEF Commit
<1>13. ASSUME NEW r \in Request, ReadForSave(r)
      PROVE  PublishedHasAssignment'
  BY <1>13 DEF ReadForSave, Leave, ReleaseLocks, Goto
<1>14. ASSUME NEW r \in Request, SaveDraft(r)
      PROVE  PublishedHasAssignment'
  BY <1>14 DEF SaveDraft, Leave, ReleaseLocks, Goto
<1>15. ASSUME NEW r \in Request, ReadForRemoval(r)
      PROVE  PublishedHasAssignment'
  BY <1>15 DEF ReadForRemoval, Leave, ReleaseLocks, Goto
<1>16. ASSUME NEW r \in Request, BeginRemoval(r)
      PROVE  PublishedHasAssignment'
  BY <1>16 DEF BeginRemoval, Known, Goto
<1>17. ASSUME NEW r \in Request, CloseBatch(r)
      PROVE  PublishedHasAssignment'
  BY <1>17 DEF CloseBatch, Leave, ReleaseLocks, Goto
<1>18. ASSUME NEW r \in Request, Erase(r)
      PROVE  PublishedHasAssignment'
  BY <1>18 DEF Erase, ErasedDraft, Goto
<1>19. ASSUME NEW r \in Request, RemoveTests(r)
      PROVE  PublishedHasAssignment'
  BY <1>19 DEF RemoveTests, Goto
<1>20. ASSUME NEW r \in Request, RemoveRow(r)
      PROVE  PublishedHasAssignment'
  BY <1>20 DEF RemoveRow, Goto
<1>21. ASSUME NEW r \in Request, EndRemoval(r)
      PROVE  PublishedHasAssignment'
  BY <1>21 DEF EndRemoval, Leave, ReleaseLocks, Goto
<1>22. ASSUME NEW r \in Request, DropDraft(r)
      PROVE  PublishedHasAssignment'
  BY <1>22 DEF DropDraft, Leave, ReleaseLocks, Goto
<1>23. ASSUME NEW r \in Request, BeginDeletion(r)
      PROVE  PublishedHasAssignment'
  BY <1>23 DEF BeginDeletion, Goto
<1>24. ASSUME NEW r \in Request, ArchiveClass(r)
      PROVE  PublishedHasAssignment'
  BY <1>24 DEF ArchiveClass, Leave, ReleaseLocks, Goto
<1>25. ASSUME NEW r \in Request, BeginWipe(r)
      PROVE  PublishedHasAssignment'
  BY <1>25 DEF BeginWipe, Goto
<1>26. ASSUME NEW r \in Request, DeleteClass(r)
      PROVE  PublishedHasAssignment'
  BY <1>26 DEF DeleteClass, Leave, ReleaseLocks, ErasedDraft, Goto
<1>27. CASE SetStatus
  BY <1>27 DEF SetStatus
<1>28. CASE UNCHANGED vars
  BY <1>28
<1> QED
  BY <1>1, <1>2, <1>3, <1>4, <1>5, <1>6, <1>7, <1>8, <1>9, <1>10, <1>11,
     <1>12, <1>13, <1>14, <1>15, <1>16, <1>17, <1>18, <1>19, <1>20, <1>21,
     <1>22, <1>23, <1>24, <1>25, <1>26, <1>27, <1>28 DEF Next, Step,
     Publish, Remove

-----------------------------------------------------------------------------
(* The refinement.                                                          *)

LEMMA StepInv ==
  ASSUME Patient, IInv, [Next]_vars
  PROVE  IInv'
  BY TypeStep, RolesStep, HeldStep, AloneStep, OrderStep, MadeStep DEF IInv

LEMMA InitInv == Init => IInv
<1> SUFFICES ASSUME Init PROVE IInv
  OBVIOUS
<1>1. 1 \in Version /\ (CHOOSE s \in Slug : TRUE) \in Slug
  BY BoundAssumption, SlugAssumption DEF Version
<1>2. content \in Document
  BY <1>1 DEF Init, Document
<1>3. TypeOK
  <2>1. current \in [Request -> Slug]
    BY <1>1 DEF Init
  <2>2. doc \in [Request -> Document] /\ todo \in [Request -> SUBSET Slug]
    BY <1>2 DEF Init
  <2>3. /\ row \in [Slug -> {"none", "hidden", "open"}] /\ tests \in [Slug -> 0..MaxVersion]
        /\ pc \in [Request -> Label]
    BY BoundAssumption DEF Init, Label
  <2> QED
    <3>1. draftLock \in Request \cup {Free} /\ classLock \in Request \cup {Free} /\ links \in SUBSET Slug
      BY DEF Init
    <3>2. aborts \in 0..MaxAborts
      BY BoundAssumption DEF Init
    <3> QED
      BY <1>2, <2>1, <2>2, <2>3, <3>1, <3>2 DEF Init, TypeOK
<1>4. \A r \in Request : pc[r] = "begin"
  BY DEF Init
<1>5. Roles /\ Held /\ Alone /\ Made
  BY <1>4 DEF Roles, Held, Alone, Others, Made, InClass, Working, Maker, Request
<1>6. Order
  BY <1>4 DEF Init, Order, Working, Maker, Request
<1> QED
  BY <1>3, <1>5, <1>6 DEF IInv

\* What does not touch the assignment is no step of Publication.
LEMMA Stutter ==
  ASSUME UNCHANGED <<content, batch, draft, links, wiping, row, tests>>
  PROVE  UNCHANGED PublicationOf!vars
  BY DEF PublicationOf!vars, Phase, View

\* Nor are changes of questions that no student sees.
LEMMA Unseen ==
  ASSUME Phase # "shown", UNCHANGED <<content, Phase>>
  PROVE  UNCHANGED PublicationOf!vars
  BY DEF PublicationOf!vars, View

\* The questions of a publication are not seen before its last transaction.
LEMMA MakerUnseen ==
  ASSUME IInv, NEW r \in Maker, Working(r), UNCHANGED <<content, batch, draft, wiping>>
  PROVE  UNCHANGED PublicationOf!vars
<1>1. Phase # "shown" /\ Phase' = Phase
  BY DEF IInv, Order, Phase
<1> QED
  BY <1>1, Unseen

\* The questions that are removed are no longer seen.
LEMMA CleanerUnseen ==
  ASSUME IInv, NEW r \in Request, pc[r] \in {"clean", "gone"},
         UNCHANGED <<content, batch, draft, wiping>>
  PROVE  UNCHANGED PublicationOf!vars
<1>1. r \in Remover \cup Closer
  BY DEF IInv, Roles, Request, Maker, Working
<1>2. Phase # "shown" /\ Phase' = Phase
  BY <1>1 DEF IInv, Order, Phase
<1> QED
  BY <1>2, Unseen

\* A step to the phase "withdrawn" is a withdrawal, or none.
LEMMA Withdrawn ==
  ASSUME IInv, Phase' = "withdrawn", UNCHANGED content
  PROVE  [PublicationOf!Next]_(PublicationOf!vars)
  BY DEF PublicationOf!Next, PublicationOf!Withdraw, PublicationOf!vars, Phase, View

\* A publication shows the questions of the draft as last saved.
LEMMA CommitRefines ==
  ASSUME IInv, NEW r \in Request, Commit(r)
  PROVE  [PublicationOf!Next]_(PublicationOf!vars)
<1>1. r \in Maker /\ Working(r) /\ pc[r] = "commit"
  BY DEF Commit, IInv, Roles, Request, Maker, Working
<1>2. /\ draft \in {"draft", "removed"} /\ doc[r] = content /\ ~(batch = "published")
      /\ wiping => draft = "removed"
  BY <1>1 DEF IInv, Order
<1>3. CASE ~(class = "active" /\ draft \in {"draft", "published"})
  <2>1. UNCHANGED <<content, batch, draft, links, wiping, row, tests>>
    BY <1>3 DEF Commit, judge
  <2> QED
    BY <2>1, Stutter
<1>4. CASE class = "active" /\ draft \in {"draft", "published"}
  <2>1. /\ Phase = "draft" /\ Phase' = "shown" /\ links' = content.slugs
        /\ UNCHANGED <<content, row, tests>>
    BY <1>2, <1>4 DEF Commit, Phase, judge
  <2>2. \A s \in content.slugs : row[s] = "open" /\ tests[s] = content.version
    BY <1>1, <1>2 DEF IInv, Made, Written
  <2>3. View' = {<<s, tests[s]>> : s \in content.slugs}
    BY <2>1, <2>2 DEF View
  <2>4. View' = Questions(content)
    BY <2>2, <2>3 DEF Questions
  <2> QED
    BY <2>1, <2>4 DEF PublicationOf!Next, PublicationOf!Publish
<1> QED
  BY <1>3, <1>4

\* Every step is one of Publication, or none.
LEMMA RefineStep ==
  ASSUME Patient, IInv, IInv', [Next]_vars
  PROVE  [PublicationOf!Next]_(PublicationOf!vars)
<1> USE DEF course, judge, locks, work
<1>1. ASSUME NEW r \in Request,
             \/ TakeDraftLock(r) \/ TakeClassLock(r) \/ Abort(r) \/ ReadDraft(r)
             \/ CheckClass(r) \/ ReadForSave(r) \/ ReadForRemoval(r) \/ BeginRemoval(r)
             \/ EndRemoval(r) \/ BeginDeletion(r) \/ ArchiveClass(r)
      PROVE  UNCHANGED PublicationOf!vars
  <2>1. UNCHANGED <<content, batch, draft, links, wiping, row, tests>>
    BY <1>1 DEF TakeDraftLock, TakeClassLock, Abort, ReadDraft, CheckClass, ReadForSave,
                ReadForRemoval, BeginRemoval, EndRemoval, BeginDeletion, ArchiveClass
  <2> QED
    BY <2>1, Stutter
<1>2. ASSUME NEW r \in Request, InsertDraft(r)
      PROVE  [PublicationOf!Next]_(PublicationOf!vars)
  <2>1. /\ Phase = "draft" /\ Phase' = "draft" /\ content' \in Document
        /\ UNCHANGED <<batch, links, row, tests>>
    BY <1>2 DEF InsertDraft, Phase, IInv, Order, TypeOK
  <2>2. View = {} /\ View' = {}
    BY <2>1 DEF View
  <2> QED
    BY <2>1, <2>2 DEF PublicationOf!Next, PublicationOf!Save
<1>3. ASSUME NEW r \in Request, EnsureBatch(r)
      PROVE  UNCHANGED PublicationOf!vars
  <2>1. (Phase # "shown" /\ UNCHANGED Phase) \/ UNCHANGED batch
    BY <1>3 DEF EnsureBatch, Phase
  <2>2. UNCHANGED <<content, draft, links, wiping, row, tests>>
    BY <1>3 DEF EnsureBatch
  <2> QED
    BY <2>1, <2>2, Stutter, Unseen
<1>4. ASSUME NEW r \in Request,
             SyncRow(r) \/ WriteTests(r) \/ HideOthers(r) \/ OpenQuestions(r)
      PROVE  UNCHANGED PublicationOf!vars
  <2>1. r \in Maker /\ Working(r)
    BY <1>4 DEF SyncRow, WriteTests, HideOthers, OpenQuestions, IInv, Roles, Request, Maker,
                Working
  <2>2. UNCHANGED <<content, batch, draft, wiping>>
    BY <1>4 DEF SyncRow, WriteTests, HideOthers, OpenQuestions
  <2> QED
    BY <2>1, <2>2, MakerUnseen
<1>5. ASSUME NEW r \in Request, SaveDraft(r)
      PROVE  [PublicationOf!Next]_(PublicationOf!vars)
  <2>1. r \in Editor /\ draft \in {"draft", "removed"}
    BY <1>5 DEF SaveDraft, IInv, Roles, Order, Working, Request, Maker
  <2>2. CASE draft = "removed"
    <3>1. UNCHANGED <<content, batch, draft, links, wiping, row, tests>>
      BY <1>5, <2>2 DEF SaveDraft
    <3> QED
      BY <3>1, Stutter
  <2>3. CASE draft = "draft"
    <3>1. /\ Phase = "draft" /\ Phase' = "draft" /\ content' \in Document
          /\ UNCHANGED <<batch, links, row, tests>>
      BY <1>5, <2>3 DEF SaveDraft, Phase, IInv, Order, TypeOK
    <3>2. View = {} /\ View' = {}
      BY <3>1 DEF View
    <3> QED
      BY <3>1, <3>2 DEF PublicationOf!Next, PublicationOf!Save
  <2> QED
    BY <2>1, <2>2, <2>3
<1>6. ASSUME NEW r \in Request, RemoveTests(r) \/ RemoveRow(r)
      PROVE  UNCHANGED PublicationOf!vars
  <2>1. pc[r] \in {"clean", "gone"} /\ UNCHANGED <<content, batch, draft, wiping>>
    BY <1>6 DEF RemoveTests, RemoveRow
  <2> QED
    BY <2>1, CleanerUnseen
<1>7. ASSUME NEW r \in Request, CloseBatch(r)
      PROVE  [PublicationOf!Next]_(PublicationOf!vars)
  <2>1. CASE Phase = "shown" /\ batch' = "closed"
    <3>1. Phase' = "withdrawn" /\ UNCHANGED content
      BY <1>7, <2>1 DEF CloseBatch, Phase, IInv, Order
    <3> QED
      BY <3>1, Withdrawn
  <2>2. CASE Phase # "shown" /\ batch' = "closed"
    <3>1. UNCHANGED <<content, Phase>>
      BY <1>7, <2>2 DEF CloseBatch, Phase, IInv, Order
    <3> QED
      BY <2>2, <3>1, Unseen
  <2>3. CASE UNCHANGED batch
    <3>1. UNCHANGED <<content, batch, draft, links, wiping, row, tests>>
      BY <1>7, <2>3 DEF CloseBatch
    <3> QED
      BY <3>1, Stutter
  <2> QED
    BY <1>7, <2>1, <2>2, <2>3 DEF CloseBatch
<1>8. ASSUME NEW r \in Request, Erase(r)
      PROVE  [PublicationOf!Next]_(PublicationOf!vars)
  <2>1. draft # "unborn"
    <3>1. r \in Remover /\ pc[r] # "begin"
      BY <1>8 DEF Erase, IInv, Roles, Working, Request, Maker
    <3> QED
      BY <3>1 DEF IInv, Alone
  <2>2. Phase' = "withdrawn" /\ UNCHANGED content
    BY <1>8, <2>1 DEF Erase, ErasedDraft, Phase
  <2> QED
    BY <2>2, Withdrawn
<1>9. ASSUME NEW r \in Request, DropDraft(r)
      PROVE  [PublicationOf!Next]_(PublicationOf!vars)
  <2>1. batch # "published"
    BY <1>9 DEF DropDraft, IInv, Roles, Order, Working, Request, Maker
  <2>2. Phase' = "withdrawn" /\ UNCHANGED content
    BY <1>9, <2>1 DEF DropDraft, Phase
  <2> QED
    BY <2>2, Withdrawn
<1>10. ASSUME NEW r \in Request, BeginWipe(r)
       PROVE  [PublicationOf!Next]_(PublicationOf!vars)
  <2>1. CASE batch = "published"
    <3>1. Phase' = "withdrawn" /\ UNCHANGED content
      BY <1>10, <2>1 DEF BeginWipe, Phase
    <3> QED
      BY <3>1, Withdrawn
  <2>2. CASE batch # "published"
    <3>1. UNCHANGED <<content, batch, draft, links, wiping, row, tests>>
      BY <1>10, <2>2 DEF BeginWipe, IInv, TypeOK
    <3> QED
      BY <3>1, Stutter
  <2> QED
    BY <2>1, <2>2
<1>11. ASSUME NEW r \in Request, DeleteClass(r)
       PROVE  [PublicationOf!Next]_(PublicationOf!vars)
  <2>1. CASE draft = "unborn"
    <3>1. Phase = "draft" /\ UNCHANGED <<content, Phase>>
      BY <1>11, <2>1 DEF DeleteClass, ErasedDraft, Phase, IInv, Order
    <3> QED
      BY <3>1, Unseen
  <2>2. CASE draft # "unborn"
    <3>1. Phase' = "withdrawn" /\ UNCHANGED content
      BY <1>11, <2>2 DEF DeleteClass, ErasedDraft, Phase
    <3> QED
      BY <3>1, Withdrawn
  <2> QED
    BY <2>1, <2>2
<1>12. CASE SetStatus \/ UNCHANGED vars
  <2>1. UNCHANGED <<content, batch, draft, links, wiping, row, tests>>
    BY <1>12 DEF SetStatus, vars
  <2> QED
    BY <2>1, Stutter
<1> QED
  BY <1>1, <1>2, <1>3, <1>4, <1>5, <1>6, <1>7, <1>8, <1>9, <1>10, <1>11, <1>12, CommitRefines
     DEF Next, Step, Publish, Remove

\* The draft exists in one of its states, with its questions, whatever
\* requests are cancelled (the types of Publishing).
THEOREM TypeCorrect == Spec => []TypeOK
<1>1. Init => TypeOK
  BY InitInv DEF IInv
<1> QED
  BY <1>1, TypeStep, PTL DEF Spec

\* The publication of a draft implements Publication (authoring.rs:1-4): the
\* assignment appears once, whole and as last saved, and stays the same until
\* it is withdrawn, for every set of requests and of questions, if a fresh
\* draft is left alone.
THEOREM Refinement == ASSUME Patient PROVE Spec => ImplementsPublication
<1>1. Init => PublicationOf!Init
  BY BoundAssumption DEF Init, PublicationOf!Init, Phase, View, Document, Version
<1>2. IInv /\ [Next]_vars => IInv'
  BY StepInv
<1>3. IInv /\ IInv' /\ [Next]_vars => [PublicationOf!Next]_(PublicationOf!vars)
  BY RefineStep
<1> QED
  BY <1>1, <1>2, <1>3, InitInv, PTL DEF Spec, ImplementsPublication, PublicationOf!Spec

\* A published draft has an assignment with questions (drafts.rs:182), whether
\* or not a fresh draft is left alone.
THEOREM PublishedSafe == Spec => []PublishedHasAssignment
<1>1. Init => TypeOK /\ PublishedHasAssignment
  BY InitInv DEF IInv, Init, PublishedHasAssignment
<1> QED
  BY <1>1, TypeStep, PublishedStep, PTL DEF Spec

-----------------------------------------------------------------------------
(* Locks that are held.                                                     *)

\* A lock that is taken belongs to a request that works under it, and who
\* writes questions has one to write.
Occupied ==
    /\ draftLock # Free => draftLock \in UnderWay
    /\ classLock # Free => pc[classLock] \in InClass
    /\ \A r \in Request : pc[r] \in {"row", "tests"} => todo[r] # {}

\* Who ends gives back what he holds.
LEMMA OccupiedStep ==
  ASSUME TypeOK, Occupied, [Next]_vars
  PROVE  Occupied'
<1> USE FreeAssumption DEF TypeOK, Occupied, UnderWay, InClass, vars, course, judge, locks, work
<1>1. ASSUME NEW r \in Request, TakeDraftLock(r)
      PROVE  Occupied'
  BY <1>1 DEF TakeDraftLock, Known, Goto
<1>2. ASSUME NEW r \in Request, TakeClassLock(r)
      PROVE  Occupied'
  BY <1>2 DEF TakeClassLock, Goto
<1>3. ASSUME NEW r \in Request, Abort(r)
      PROVE  Occupied'
  BY <1>3 DEF Abort, Leave, ReleaseLocks, Goto
<1>4. ASSUME NEW r \in Request, InsertDraft(r)
      PROVE  Occupied'
  BY <1>4 DEF InsertDraft, RowHeld, Goto
<1>5. ASSUME NEW r \in Request, ReadDraft(r)
      PROVE  Occupied'
  BY <1>5 DEF ReadDraft, StillToPublish, Leave, ReleaseLocks, Goto
<1>6. ASSUME NEW r \in Request, CheckClass(r)
      PROVE  Occupied'
  BY <1>6 DEF CheckClass, Leave, ReleaseLocks, Goto
<1>7. ASSUME NEW r \in Request, EnsureBatch(r)
      PROVE  Occupied'
  <2>1. doc[r].slugs # {}
    BY Documents
  <2> QED
    BY <1>7, <2>1 DEF EnsureBatch, Goto
<1>8. ASSUME NEW r \in Request, SyncRow(r)
      PROVE  Occupied'
  BY <1>8 DEF SyncRow, Goto
<1>9. ASSUME NEW r \in Request, WriteTests(r)
      PROVE  Occupied'
  BY <1>9 DEF WriteTests, Goto
<1>10. ASSUME NEW r \in Request, HideOthers(r)
      PROVE  Occupied'
  BY <1>10 DEF HideOthers, Goto
<1>11. ASSUME NEW r \in Request, OpenQuestions(r)
      PROVE  Occupied'
  BY <1>11 DEF OpenQuestions, Goto
<1>12. ASSUME NEW r \in Request, Commit(r)
      PROVE  Occupied'
  BY <1>12 DEF Commit, Leave, ReleaseLocks, Goto
<1>13. ASSUME NEW r \in Request, ReadForSave(r)
      PROVE  Occupied'
  BY <1>13 DEF ReadForSave, Leave, ReleaseLocks, Goto
<1>14. ASSUME NEW r \in Request, SaveDraft(r)
      PROVE  Occupied'
  BY <1>14 DEF SaveDraft, Leave, ReleaseLocks, Goto
<1>15. ASSUME NEW r \in Request, ReadForRemoval(r)
      PROVE  Occupied'
  BY <1>15 DEF ReadForRemoval, Leave, ReleaseLocks, Goto
<1>16. ASSUME NEW r \in Request, BeginRemoval(r)
      PROVE  Occupied'
  BY <1>16 DEF BeginRemoval, Goto
<1>17. ASSUME NEW r \in Request, CloseBatch(r)
      PROVE  Occupied'
  BY <1>17 DEF CloseBatch, Leave, ReleaseLocks, Goto
<1>18. ASSUME NEW r \in Request, Erase(r)
      PROVE  Occupied'
  BY <1>18 DEF Erase, Goto
<1>19. ASSUME NEW r \in Request, RemoveTests(r)
      PROVE  Occupied'
  BY <1>19 DEF RemoveTests, Goto
<1>20. ASSUME NEW r \in Request, RemoveRow(r)
      PROVE  Occupied'
  BY <1>20 DEF RemoveRow, Goto
<1>21. ASSUME NEW r \in Request, EndRemoval(r)
      PROVE  Occupied'
  BY <1>21 DEF EndRemoval, Leave, ReleaseLocks, Goto
<1>22. ASSUME NEW r \in Request, DropDraft(r)
      PROVE  Occupied'
  BY <1>22 DEF DropDraft, Leave, ReleaseLocks, Goto
<1>23. ASSUME NEW r \in Request, BeginDeletion(r)
      PROVE  Occupied'
  BY <1>23 DEF BeginDeletion, Goto
<1>24. ASSUME NEW r \in Request, ArchiveClass(r)
      PROVE  Occupied'
  BY <1>24 DEF ArchiveClass, Leave, ReleaseLocks, Goto
<1>25. ASSUME NEW r \in Request, BeginWipe(r)
      PROVE  Occupied'
  BY <1>25 DEF BeginWipe, Goto
<1>26. ASSUME NEW r \in Request, DeleteClass(r)
      PROVE  Occupied'
  BY <1>26 DEF DeleteClass, Leave, ReleaseLocks, Goto
<1>27. CASE SetStatus
  BY <1>27 DEF SetStatus
<1>28. CASE UNCHANGED vars
  BY <1>28
<1> QED
  BY <1>1, <1>2, <1>3, <1>4, <1>5, <1>6, <1>7, <1>8, <1>9, <1>10, <1>11,
     <1>12, <1>13, <1>14, <1>15, <1>16, <1>17, <1>18, <1>19, <1>20, <1>21,
     <1>22, <1>23, <1>24, <1>25, <1>26, <1>27, <1>28 DEF Next, Step,
     Publish, Remove

\* The owner of the lock of the class waits for no lock.
LEMMA OwnerReady ==
  ASSUME TypeOK, Occupied, classLock # Free
  PROVE  classLock \in UnderWay /\ Ready(classLock)
  BY DEF TypeOK, Occupied, UnderWay, Ready, InClass

\* Publications, savings, removals and deletions that hold the locks of a draft
\* and of its class (authoring.rs:with_lock) and end anywhere never wait for
\* each other, for every set of them.
THEOREM SomebodyGoesOn == Spec => []NoDeadlock
<1>1. TypeOK /\ Occupied => NoDeadlock
  <2> SUFFICES ASSUME TypeOK, Occupied, UnderWay # {} \/ draftLock # Free \/ classLock # Free
               PROVE  \E r \in UnderWay : Ready(r)
    BY DEF NoDeadlock
  <2>1. PICK r \in UnderWay : TRUE
    BY OwnerReady DEF Occupied
  <2>2. CASE classLock # Free
    BY <2>2, OwnerReady
  <2>3. CASE classLock = Free
    <3>1. Ready(r)
      BY <2>1, <2>3 DEF Ready, Occupied, UnderWay
    <3> QED
      BY <3>1
  <2> QED
    BY <2>2, <2>3
<1>2. Init => TypeOK /\ Occupied
  BY InitInv DEF IInv, Init, Occupied
<1>3. TypeOK /\ Occupied /\ [Next]_vars => TypeOK' /\ Occupied'
  BY TypeStep, OccupiedStep
<1> QED
  BY <1>1, <1>2, <1>3, PTL DEF Spec

-----------------------------------------------------------------------------

\* A commit shows every question open, with its tests.
LEMMA CommitWhole ==
  ASSUME IInv, ShownIsWhole, NEW r \in Request, Commit(r)
  PROVE  ShownIsWhole'
<1>1. r \in Maker /\ Working(r) /\ pc[r] = "commit"
  BY DEF Commit, IInv, Roles, Request, Maker, Working
<1>2. CASE ~(class = "active" /\ draft \in {"draft", "published"})
  BY <1>2 DEF Commit, judge, ShownIsWhole, Phase
<1>3. CASE class = "active" /\ draft \in {"draft", "published"}
  <2>1. links' = doc[r].slugs /\ UNCHANGED <<row, tests>>
    BY <1>3 DEF Commit, judge
  <2>2. \A s \in doc[r].slugs : row[s] = "open" /\ tests[s] = doc[r].version
    BY <1>1 DEF IInv, Made, Written
  <2>3. doc[r].version # 0
    BY Documents DEF IInv, TypeOK
  <2> QED
    BY <2>1, <2>2, <2>3 DEF ShownIsWhole
<1> QED
  BY <1>2, <1>3

\* Questions are written and removed while the assignment is not shown.
LEMMA WholeStep ==
  ASSUME IInv, ShownIsWhole, [Next]_vars
  PROVE  ShownIsWhole'
<1> USE DEF ShownIsWhole, course, judge, locks, work
<1>1. ASSUME NEW r \in Request,
             \/ TakeDraftLock(r) \/ TakeClassLock(r) \/ Abort(r) \/ ReadDraft(r)
             \/ CheckClass(r) \/ ReadForSave(r) \/ SaveDraft(r) \/ ReadForRemoval(r)
             \/ BeginRemoval(r) \/ EndRemoval(r) \/ BeginDeletion(r) \/ ArchiveClass(r)
      PROVE  ShownIsWhole'
  <2>1. UNCHANGED <<batch, draft, links, wiping, row, tests>>
    BY <1>1 DEF TakeDraftLock, TakeClassLock, Abort, ReadDraft, CheckClass, ReadForSave, SaveDraft,
                ReadForRemoval, BeginRemoval, EndRemoval, BeginDeletion, ArchiveClass
  <2> QED
    BY <2>1 DEF Phase
<1>2. ASSUME NEW r \in Request,
             SyncRow(r) \/ WriteTests(r) \/ HideOthers(r) \/ OpenQuestions(r)
      PROVE  Phase' # "shown"
  <2>1. r \in Maker /\ Working(r)
    BY <1>2 DEF SyncRow, WriteTests, HideOthers, OpenQuestions, IInv, Roles, Request, Maker,
                Working
  <2>2. UNCHANGED <<batch, draft, wiping>>
    BY <1>2 DEF SyncRow, WriteTests, HideOthers, OpenQuestions
  <2> QED
    BY <2>1, <2>2 DEF IInv, Order, Phase
<1>3. ASSUME NEW r \in Request, RemoveTests(r) \/ RemoveRow(r)
      PROVE  Phase' # "shown"
  <2>1. r \in Remover \cup Closer
    BY <1>3 DEF RemoveTests, RemoveRow, IInv, Roles, Request, Maker, Working
  <2>2. pc[r] \in {"clean", "gone"} /\ UNCHANGED <<batch, draft, wiping>>
    BY <1>3 DEF RemoveTests, RemoveRow
  <2> QED
    BY <2>1, <2>2 DEF IInv, Order, Phase
<1>4. ASSUME NEW r \in Request, InsertDraft(r) \/ DropDraft(r) \/ BeginWipe(r)
      PROVE  ShownIsWhole'
  <2>1. UNCHANGED <<batch, links, row, tests>>
    BY <1>4 DEF InsertDraft, DropDraft, BeginWipe
  <2>2. wiping => wiping'
    BY <1>4, Zenon DEF InsertDraft, DropDraft, BeginWipe
  <2> QED
    BY <2>1, <2>2 DEF Phase
<1>5. ASSUME NEW r \in Request, EnsureBatch(r)
      PROVE  ShownIsWhole'
  BY <1>5 DEF EnsureBatch, Phase
<1>6. ASSUME NEW r \in Request, CloseBatch(r) \/ Erase(r) \/ DeleteClass(r)
      PROVE  ShownIsWhole'
  <2>1. batch' \in {"closed", "none"} \/ UNCHANGED <<batch, draft, links, wiping, row, tests>>
    BY <1>6 DEF CloseBatch, Erase, DeleteClass
  <2> QED
    BY <2>1 DEF Phase
<1>7. CASE SetStatus \/ UNCHANGED vars
  BY <1>7 DEF SetStatus, vars, Phase
<1> QED
  BY <1>1, <1>2, <1>3, <1>4, <1>5, <1>6, <1>7, CommitWhole DEF Next, Step, Publish, Remove

\* Students never see a half-made product (authoring.rs:4) when a fresh draft is
\* left alone until its first publication has ended: what goes wrong without
\* that is all that goes wrong.
THEOREM WholeWhenPatient == ASSUME Patient PROVE Spec => []ShownIsWhole
<1>1. Init => ShownIsWhole
  BY DEF Init, ShownIsWhole, Phase
<1> QED
  BY <1>1, InitInv, StepInv, WholeStep, PTL DEF Spec
=============================================================================
