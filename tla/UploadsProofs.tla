---------------------------- MODULE UploadsProofs ----------------------------
(***************************************************************************)
(* Uploads keeps the files of submissions and leaves no orphaned object,   *)
(* for every set of files, submissions and requests and every size of a    *)
(* batch, provided a form lives no longer than the grace (TtlAssumption).  *)
(***************************************************************************)
EXTENDS Uploads, TLAPS

USE DEF RoundsLeft

\* A form expires a lifetime after its file was finished at the latest, and
\* before cleanup takes the file.
FormInv ==
    \A f \in File :
        /\ finished[f] <= now
        /\ expires[f] <= now + Ttl
        /\ state[f] = "untouched" => ~object[f]
        /\ state[f] = "ready" => object[f] /\ expires[f] <= finished[f] + Ttl
        /\ state[f] \in {"deleting", "removed"} => expires[f] <= now
        /\ state[f] = "removed" => ~object[f]

\* An object that a request to finish has seen is still there if its row may
\* still be used.
FinishInv ==
    \A p \in Finish :
        pc[p] \in {"head", "update"} =>
            /\ target[p] \in File
            /\ state[target[p]] # "untouched"
            /\ pc[p] = "update" /\ state[target[p]] \in {"pending", "ready"} =>
                   object[target[p]]

\* A claimed file never returns to use, and its row outlives its object.
CleanInv ==
    \A c \in Cleaner :
        /\ since[c] <= now
        /\ left[c] \subseteq batch[c]
        /\ phase[c] = "rows" => left[c] = {}
        /\ \A f \in batch[c] : state[f] \in {"deleting", "removed"}
        /\ \A f \in batch[c] : f \notin left[c] => ~object[f]

IInv == TypeOK /\ FormInv /\ FinishInv /\ CleanInv /\ SubmittedKept

LEMMA InitInv == Init => IInv
  BY FileAssumption, TtlAssumption, BoundAssumption
     DEF Init, IInv, TypeOK, FormInv, FinishInv, CleanInv, SubmittedKept, Time, State

-----------------------------------------------------------------------------
(* What a claim takes.                                                     *)

\* The files of a claim are unreferenced, and old by the time of the claim.
LEMMA ClaimedFiles ==
  ASSUME TypeOK, NEW c \in Cleaner, NEW f \in Claimed(c)
  PROVE  f \in File /\ Collectable(f, since[c]) /\ Unreferenced(f)
  BY DEF Claimed, Locked, First, TypeOK

LEMMA ClaimStep ==
  ASSUME TypeOK, NEW c \in Cleaner, Claim(c)
  PROVE  /\ phase[c] = "claim"
         /\ state' = [f \in File |-> IF f \in Claimed(c) THEN "deleting" ELSE state[f]]
         /\ batch' = [batch EXCEPT ![c] = Claimed(c)]
         /\ left' = [left EXCEPT ![c] = Claimed(c)]
         /\ phase'[c] \in {"delete", "done"}
         /\ \A d \in Cleaner : d # c => phase'[d] = phase[d]
         /\ UNCHANGED <<now, expires, finished, object, submitted, pc, target, since>>
  BY DEF Claim, Claimed, TypeOK, submissions, finish

\* The form of a file that may be claimed has expired.
LEMMA ClaimedExpired ==
  ASSUME TypeOK, FormInv, CleanInv, NEW c \in Cleaner, NEW f \in Claimed(c)
  PROVE  f \in File /\ expires[f] <= now /\ state[f] \notin {"untouched", "removed"}
<1>1. f \in File /\ Collectable(f, since[c])
  BY ClaimedFiles
<1>2. /\ expires[f] \in Nat /\ finished[f] \in Nat /\ since[c] \in Nat /\ now \in Nat
      /\ since[c] <= now
  BY <1>1, TtlAssumption, BoundAssumption DEF TypeOK, Time, CleanInv
<1> QED
  BY <1>1, <1>2, TtlAssumption DEF Collectable, FormInv

-----------------------------------------------------------------------------
(* The invariant is preserved.                                             *)

LEMMA TypeStep == ASSUME TypeOK, FinishInv, [Next]_vars
                  PROVE  TypeOK'
<1> USE DEF TypeOK, rows, submissions, finish, cleanup
<1>1. ASSUME NEW f \in File, Touch(f)
      PROVE  TypeOK'
  <2>1. now + Ttl \in 0..(MaxTime + Ttl)
    BY TtlAssumption, BoundAssumption DEF Time
  <2> QED
    BY <1>1, <2>1 DEF Touch, State
<1>2. ASSUME NEW f \in File, Upload(f)
      PROVE  TypeOK'
  BY <1>2 DEF Upload
<1>3. ASSUME NEW f \in File, Submit(f)
      PROVE  TypeOK'
  BY <1>3, FileAssumption DEF Submit
<1>4. ASSUME NEW p \in Finish, NEW f \in File, FinishLoad(p, f)
      PROVE  TypeOK'
  BY <1>4 DEF FinishLoad
<1>5. ASSUME NEW p \in Finish, FinishHead(p)
      PROVE  TypeOK'
  BY <1>5 DEF FinishHead
<1>6. ASSUME NEW p \in Finish, FinishUpdate(p)
      PROVE  TypeOK'
  BY <1>6 DEF FinishUpdate, State
<1>7. ASSUME NEW s \in Submission, DropAssignment(s)
      PROVE  TypeOK'
  BY <1>7 DEF DropAssignment
<1>8. ASSUME NEW c \in Cleaner, Scan(c)
      PROVE  TypeOK'
  BY <1>8, BoundAssumption DEF Scan
<1>9. ASSUME NEW c \in Cleaner, Claim(c)
      PROVE  TypeOK'
  <2>1. Claimed(c) \in SUBSET File
    BY ClaimedFiles
  <2>2. state' \in [File -> State] /\ batch' \in [Cleaner -> SUBSET File]
        /\ left' \in [Cleaner -> SUBSET File]
    BY <1>9, <2>1, ClaimStep DEF State
  <2>3. cursor' \in [Cleaner -> File \cup {0}]
    BY <1>9, ClaimedFiles DEF Claim, Claimed
  <2>4. phase' \in [Cleaner -> {"scan", "claim", "delete", "rows", "done"}]
    BY <1>9 DEF Claim
  <2> QED
    BY <1>9, <2>2, <2>3, <2>4 DEF Claim
<1>10. ASSUME NEW c \in Cleaner, NEW f \in File, DeleteObject(c, f)
       PROVE  TypeOK'
  BY <1>10 DEF DeleteObject
<1>11. ASSUME NEW c \in Cleaner, DeleteRows(c)
       PROVE  TypeOK'
  BY <1>11 DEF DeleteRows, State
<1>12. CASE Tick
  BY <1>12, BoundAssumption DEF Tick, Time
<1>13. CASE UNCHANGED vars
  BY <1>13 DEF vars
<1> QED
  BY <1>1, <1>2, <1>3, <1>4, <1>5, <1>6, <1>7, <1>8, <1>9, <1>10, <1>11, <1>12,
     <1>13 DEF Next, Student, Clean

\* Types of what the other invariants compare.
LEMMA Numbers ==
  ASSUME TypeOK
  PROVE  /\ now \in Nat
         /\ \A f \in File : expires[f] \in Nat /\ finished[f] \in Nat
         /\ \A c \in Cleaner : since[c] \in Nat
  BY TtlAssumption, BoundAssumption DEF TypeOK, Time

LEMMA FormStep == ASSUME TypeOK, FormInv, FinishInv, CleanInv, [Next]_vars
                  PROVE  FormInv'
<1> USE Numbers, TtlAssumption DEF TypeOK, rows, submissions, finish, cleanup
<1>1. ASSUME NEW f \in File, Touch(f)
      PROVE  FormInv'
  BY <1>1 DEF Touch, FormInv
<1>2. ASSUME NEW f \in File, Upload(f)
      PROVE  FormInv'
  BY <1>2 DEF Upload, FormInv
<1>3. ASSUME NEW p \in Finish, FinishUpdate(p)
      PROVE  FormInv'
  <2> DEFINE f == target[p]
  <2>1. CASE state[f] \in {"pending", "ready"}
    <3>1. /\ f \in File /\ object[f]
          /\ state' = [state EXCEPT ![f] = "ready"]
          /\ finished' = [finished EXCEPT ![f] = now]
          /\ UNCHANGED <<now, expires, object>>
      BY <1>3, <2>1 DEF FinishUpdate, FinishInv
    <3> HIDE DEF f
    <3> QED
      BY <3>1 DEF FormInv
  <2>2. CASE state[f] \notin {"pending", "ready"}
    BY <1>3, <2>2 DEF FinishUpdate, FormInv
  <2> QED
    BY <2>1, <2>2
<1>4. ASSUME NEW c \in Cleaner, Claim(c)
      PROVE  FormInv'
  <2>1. /\ state' = [f \in File |-> IF f \in Claimed(c) THEN "deleting" ELSE state[f]]
        /\ UNCHANGED <<now, expires, finished, object>>
    BY <1>4, ClaimStep
  <2>2. \A f \in Claimed(c) : expires[f] <= now
    BY ClaimedExpired
  <2> QED
    BY <2>1, <2>2 DEF FormInv
<1>5. ASSUME NEW c \in Cleaner, NEW f \in File, DeleteObject(c, f)
      PROVE  FormInv'
  <2>1. /\ object' = [object EXCEPT ![f] = FALSE]
        /\ state[f] \in {"deleting", "removed"}
        /\ UNCHANGED <<now, state, expires, finished>>
    BY <1>5 DEF DeleteObject, CleanInv
  <2> QED
    BY <2>1 DEF FormInv
<1>6. ASSUME NEW c \in Cleaner, DeleteRows(c)
      PROVE  FormInv'
  <2>1. /\ left[c] = {}
        /\ UNCHANGED <<now, expires, finished, object>>
        /\ state' = [f \in File |->
              IF f \in batch[c] /\ state[f] = "deleting" /\ Unreferenced(f)
              THEN "removed" ELSE state[f]]
    BY <1>6 DEF DeleteRows, CleanInv
  <2>2. \A f \in batch[c] : ~object[f]
    BY <2>1 DEF CleanInv
  <2> QED
    BY <2>1, <2>2 DEF FormInv
<1>7. CASE Tick
  BY <1>7 DEF Tick, FormInv
<1>8. ASSUME UNCHANGED <<now, state, expires, finished, object>>
      PROVE  FormInv'
  BY <1>8 DEF FormInv
<1>9. ASSUME NEW f \in File, NEW p \in Finish,
             Submit(f) \/ FinishLoad(p, f) \/ FinishHead(p)
      PROVE  FormInv'
  BY <1>8, <1>9 DEF Submit, FinishLoad, FinishHead
<1>10. ASSUME NEW s \in Submission, DropAssignment(s)
       PROVE  FormInv'
  BY <1>8, <1>10 DEF DropAssignment
<1>11. ASSUME NEW c \in Cleaner, Scan(c)
       PROVE  FormInv'
  BY <1>8, <1>11 DEF Scan
<1>12. CASE UNCHANGED vars
  BY <1>8, <1>12 DEF vars
<1>13. ASSUME NEW f \in File, Submit(f)
       PROVE  FormInv'
  BY <1>8, <1>13 DEF Submit
<1>14. ASSUME NEW p \in Finish, FinishHead(p)
       PROVE  FormInv'
  BY <1>8, <1>14 DEF FinishHead
<1> QED
  BY <1>1, <1>2, <1>3, <1>4, <1>5, <1>6, <1>7, <1>9, <1>10, <1>11, <1>12, <1>13,
     <1>14 DEF Next, Student, Clean

LEMMA FinishStep == ASSUME TypeOK, FormInv, FinishInv, CleanInv, [Next]_vars
                    PROVE  FinishInv'
<1> USE DEF TypeOK, rows, submissions, finish, cleanup
<1>1. ASSUME NEW f \in File, Touch(f)
      PROVE  FinishInv'
  BY <1>1 DEF Touch, FinishInv
<1>2. ASSUME NEW f \in File, Upload(f)
      PROVE  FinishInv'
  BY <1>2 DEF Upload, FinishInv
<1>3. ASSUME NEW p \in Finish, NEW f \in File, FinishLoad(p, f)
      PROVE  FinishInv'
  BY <1>3 DEF FinishLoad, FinishInv
<1>4. ASSUME NEW p \in Finish, FinishHead(p)
      PROVE  FinishInv'
  BY <1>4 DEF FinishHead, FinishInv
<1>5. ASSUME NEW p \in Finish, FinishUpdate(p)
      PROVE  FinishInv'
  <2> SUFFICES ASSUME NEW q \in Finish, pc'[q] \in {"head", "update"}
               PROVE  /\ target'[q] \in File
                      /\ state'[target'[q]] # "untouched"
                      /\ pc'[q] = "update"
                            /\ state'[target'[q]] \in {"pending", "ready"} =>
                             object'[target'[q]]
    BY DEF FinishInv
  <2>1. q # p /\ pc'[q] = pc[q] /\ target' = target /\ object' = object
    BY <1>5 DEF FinishUpdate
  <2>2. /\ \A f \in File : state'[f] = state[f] \/
              (state[f] \in {"pending", "ready"} /\ state'[f] = "ready")
    BY <1>5 DEF FinishUpdate
  <2> QED
    BY <2>1, <2>2 DEF FinishInv
<1>6. ASSUME NEW c \in Cleaner, Claim(c)
      PROVE  FinishInv'
  <2>1. /\ state' = [f \in File |-> IF f \in Claimed(c) THEN "deleting" ELSE state[f]]
        /\ UNCHANGED <<object, pc, target>>
    BY <1>6, ClaimStep
  <2> QED
    BY <2>1 DEF FinishInv
<1>7. ASSUME NEW c \in Cleaner, NEW f \in File, DeleteObject(c, f)
      PROVE  FinishInv'
  <2>1. /\ object' = [object EXCEPT ![f] = FALSE]
        /\ state[f] \in {"deleting", "removed"}
        /\ UNCHANGED <<state, pc, target>>
    BY <1>7 DEF DeleteObject, CleanInv
  <2> QED
    BY <2>1 DEF FinishInv
<1>8. ASSUME NEW c \in Cleaner, DeleteRows(c)
      PROVE  FinishInv'
  BY <1>8 DEF DeleteRows, FinishInv
<1>9. ASSUME UNCHANGED <<state, object, pc, target>>
      PROVE  FinishInv'
  BY <1>9 DEF FinishInv
<1>10. ASSUME NEW f \in File, Submit(f)
       PROVE  FinishInv'
  BY <1>9, <1>10 DEF Submit
<1>11. ASSUME NEW s \in Submission, DropAssignment(s)
       PROVE  FinishInv'
  BY <1>9, <1>11 DEF DropAssignment
<1>12. ASSUME NEW c \in Cleaner, Scan(c)
       PROVE  FinishInv'
  BY <1>9, <1>12 DEF Scan
<1>13. CASE Tick \/ UNCHANGED vars
  BY <1>9, <1>13 DEF Tick, vars
<1> QED
  BY <1>1, <1>2, <1>3, <1>4, <1>5, <1>6, <1>7, <1>8, <1>10, <1>11, <1>12, <1>13
     DEF Next, Student, Clean

LEMMA CleanStep == ASSUME TypeOK, FormInv, FinishInv, CleanInv, [Next]_vars
                   PROVE  CleanInv'
<1> USE Numbers DEF TypeOK, rows, submissions, finish, cleanup
<1>1. ASSUME NEW f \in File, Touch(f)
      PROVE  CleanInv'
  BY <1>1 DEF Touch, CleanInv
<1>2. ASSUME NEW f \in File, Upload(f)
      PROVE  CleanInv'
  <2>1. /\ object' = [object EXCEPT ![f] = TRUE] /\ now < expires[f]
        /\ UNCHANGED <<now, state, phase, since, batch, left>>
    BY <1>2 DEF Upload
  <2>2. state[f] \notin {"deleting", "removed"}
    BY <2>1 DEF FormInv
  <2> QED
    BY <2>1, <2>2 DEF CleanInv
<1>3. ASSUME NEW p \in Finish, FinishUpdate(p)
      PROVE  CleanInv'
  <2>1. /\ \A f \in File : state'[f] = state[f] \/
              (state[f] \in {"pending", "ready"} /\ state'[f] = "ready")
        /\ UNCHANGED <<now, object, phase, since, batch, left>>
    BY <1>3 DEF FinishUpdate
  <2> QED
    BY <2>1 DEF CleanInv
<1>4. ASSUME NEW c \in Cleaner, Scan(c)
      PROVE  CleanInv'
  BY <1>4 DEF Scan, CleanInv
<1>5. ASSUME NEW c \in Cleaner, Claim(c)
      PROVE  CleanInv'
  <2>1. /\ state' = [f \in File |-> IF f \in Claimed(c) THEN "deleting" ELSE state[f]]
        /\ batch' = [batch EXCEPT ![c] = Claimed(c)]
        /\ left' = [left EXCEPT ![c] = Claimed(c)]
        /\ phase'[c] \in {"delete", "done"}
        /\ \A d \in Cleaner : d # c => phase'[d] = phase[d]
        /\ UNCHANGED <<now, object, since>>
    BY <1>5, ClaimStep
  <2>2. Claimed(c) \subseteq File
    BY ClaimedFiles
  <2> SUFFICES ASSUME NEW d \in Cleaner
               PROVE  /\ since'[d] <= now'
                      /\ left'[d] \subseteq batch'[d]
                      /\ phase'[d] = "rows" => left'[d] = {}
                      /\ \A f \in batch'[d] : state'[f] \in {"deleting", "removed"}
                      /\ \A f \in batch'[d] : f \notin left'[d] => ~object'[f]
    BY DEF CleanInv
  <2>3. CASE d = c
    BY <2>1, <2>2, <2>3 DEF CleanInv
  <2>4. CASE d # c
    BY <2>1, <2>4 DEF CleanInv
  <2> QED
    BY <2>3, <2>4
<1>6. ASSUME NEW c \in Cleaner, NEW f \in File, DeleteObject(c, f)
      PROVE  CleanInv'
  <2>1. /\ phase[c] = "delete" /\ f \in left[c]
        /\ object' = [object EXCEPT ![f] = FALSE]
        /\ left' = [left EXCEPT ![c] = left[c] \ {f}]
        /\ phase' = [phase EXCEPT ![c] = IF left[c] = {f} THEN "rows" ELSE "delete"]
        /\ UNCHANGED <<now, state, since, batch>>
    BY <1>6 DEF DeleteObject
  <2> SUFFICES ASSUME NEW d \in Cleaner
               PROVE  /\ since'[d] <= now'
                      /\ left'[d] \subseteq batch'[d]
                      /\ phase'[d] = "rows" => left'[d] = {}
                      /\ \A g \in batch'[d] : state'[g] \in {"deleting", "removed"}
                      /\ \A g \in batch'[d] : g \notin left'[d] => ~object'[g]
    BY DEF CleanInv
  <2>2. CASE d = c
    BY <2>1, <2>2 DEF CleanInv
  <2>3. CASE d # c
    BY <2>1, <2>3 DEF CleanInv
  <2> QED
    BY <2>2, <2>3
<1>7. ASSUME NEW c \in Cleaner, DeleteRows(c)
      PROVE  CleanInv'
  <2>1. /\ UNCHANGED <<now, object, since, batch, left>>
        /\ \A d \in Cleaner : phase'[d] = "rows" => phase[d] = "rows"
        /\ \A f \in File : state'[f] = state[f] \/ state'[f] = "removed"
    BY <1>7 DEF DeleteRows
  <2> QED
    BY <2>1 DEF CleanInv
<1>8. CASE Tick
  BY <1>8 DEF Tick, CleanInv
<1>9. ASSUME UNCHANGED <<now, state, object, phase, since, batch, left>>
      PROVE  CleanInv'
  BY <1>9 DEF CleanInv
<1>10. ASSUME NEW f \in File, Submit(f)
       PROVE  CleanInv'
  BY <1>9, <1>10 DEF Submit
<1>11. ASSUME NEW p \in Finish, NEW f \in File, FinishLoad(p, f)
       PROVE  CleanInv'
  BY <1>9, <1>11 DEF FinishLoad
<1>12. ASSUME NEW p \in Finish, FinishHead(p)
       PROVE  CleanInv'
  BY <1>9, <1>12 DEF FinishHead
<1>13. ASSUME NEW s \in Submission, DropAssignment(s)
       PROVE  CleanInv'
  BY <1>9, <1>13 DEF DropAssignment
<1>14. CASE UNCHANGED vars
  BY <1>9, <1>14 DEF vars
<1> QED
  BY <1>1, <1>2, <1>3, <1>4, <1>5, <1>6, <1>7, <1>8, <1>10, <1>11, <1>12, <1>13,
     <1>14 DEF Next, Student, Clean

\* A submission's file is locked by its claim only while nothing refers to it.
LEMMA SubmittedStep ==
  ASSUME TypeOK, FormInv, FinishInv, CleanInv, SubmittedKept, [Next]_vars
  PROVE  SubmittedKept'
<1> USE FileAssumption DEF TypeOK, rows, submissions, finish, cleanup
<1>1. ASSUME NEW f \in File, Touch(f)
      PROVE  SubmittedKept'
  BY <1>1 DEF Touch, SubmittedKept
<1>2. ASSUME NEW f \in File, Upload(f)
      PROVE  SubmittedKept'
  BY <1>2 DEF Upload, SubmittedKept
<1>3. ASSUME NEW f \in File, Submit(f)
      PROVE  SubmittedKept'
  BY <1>3 DEF Submit, SubmittedKept, FormInv
<1>4. ASSUME NEW p \in Finish, FinishUpdate(p)
      PROVE  SubmittedKept'
  <2>1. /\ \A f \in File : state'[f] = state[f] \/ state'[f] = "ready"
        /\ UNCHANGED <<object, submitted>>
    BY <1>4 DEF FinishUpdate
  <2> SUFFICES ASSUME NEW s \in Submission, submitted'[s] # 0
               PROVE  state'[submitted'[s]] = "ready" /\ object'[submitted'[s]]
    BY DEF SubmittedKept
  <2>2. submitted[s] \in File /\ state[submitted[s]] = "ready" /\ object[submitted[s]]
    BY <2>1 DEF SubmittedKept
  <2> QED
    BY <2>1, <2>2
<1>5. ASSUME NEW s \in Submission, DropAssignment(s)
      PROVE  SubmittedKept'
  BY <1>5 DEF DropAssignment, SubmittedKept
<1>6. ASSUME NEW c \in Cleaner, Claim(c)
      PROVE  SubmittedKept'
  <2>1. /\ state' = [f \in File |-> IF f \in Claimed(c) THEN "deleting" ELSE state[f]]
        /\ UNCHANGED <<object, submitted>>
    BY <1>6, ClaimStep
  <2>2. \A f \in Claimed(c) : Unreferenced(f)
    BY ClaimedFiles
  <2> QED
    BY <2>1, <2>2 DEF SubmittedKept, Unreferenced
<1>7. ASSUME NEW c \in Cleaner, NEW f \in File, DeleteObject(c, f)
      PROVE  SubmittedKept'
  <2>1. /\ object' = [object EXCEPT ![f] = FALSE]
        /\ state[f] \in {"deleting", "removed"}
        /\ UNCHANGED <<state, submitted>>
    BY <1>7 DEF DeleteObject, CleanInv
  <2> QED
    BY <2>1 DEF SubmittedKept
<1>8. ASSUME NEW c \in Cleaner, DeleteRows(c)
      PROVE  SubmittedKept'
  BY <1>8 DEF DeleteRows, SubmittedKept
<1>9. ASSUME UNCHANGED <<state, object, submitted>>
      PROVE  SubmittedKept'
  BY <1>9 DEF SubmittedKept
<1>10. ASSUME NEW p \in Finish, NEW f \in File, FinishLoad(p, f)
       PROVE  SubmittedKept'
  BY <1>9, <1>10 DEF FinishLoad
<1>11. ASSUME NEW p \in Finish, FinishHead(p)
       PROVE  SubmittedKept'
  BY <1>9, <1>11 DEF FinishHead
<1>12. ASSUME NEW c \in Cleaner, Scan(c)
       PROVE  SubmittedKept'
  BY <1>9, <1>12 DEF Scan
<1>13. CASE Tick \/ UNCHANGED vars
  BY <1>9, <1>13 DEF Tick, vars
<1> QED
  BY <1>1, <1>2, <1>3, <1>4, <1>5, <1>6, <1>7, <1>8, <1>10, <1>11, <1>12, <1>13
     DEF Next, Student, Clean

\* The invariant behind the theorems.
THEOREM Invariance == Spec => []IInv
<1>1. IInv /\ [Next]_vars => IInv'
  BY TypeStep, FormStep, FinishStep, CleanStep, SubmittedStep DEF IInv
<1> QED
  BY InitInv, <1>1, PTL DEF Spec

-----------------------------------------------------------------------------
(* The theorems.                                                           *)

\* Rows, objects and requests keep their types.
THEOREM TypeCorrect == Spec => []TypeOK
  BY Invariance, PTL DEF IInv

\* The file of every submission is finished and its object is there.
THEOREM SubmittedFiles == Spec => []SubmittedKept
  BY Invariance, PTL DEF IInv

\* No object is left without a row.
THEOREM NoOrphans == Spec => []NoOrphan
<1>1. IInv => NoOrphan
  BY DEF IInv, TypeOK, FormInv, NoOrphan
<1> QED
  BY Invariance, <1>1, PTL

\* Cleanup takes no file within the hour after it was last finished.
THEOREM GraceIsKept == Spec => GraceKept
<1>1. IInv /\ [Next]_vars =>
        [\A f \in File :
            state[f] = "ready" /\ state'[f] = "deleting" =>
                finished[f] + Grace < now]_vars
  <2> SUFFICES ASSUME IInv, [Next]_vars, NEW f \in File,
                      state[f] = "ready", state'[f] = "deleting"
               PROVE  finished[f] + Grace < now
    OBVIOUS
  <2>1. ASSUME NEW c \in Cleaner, Claim(c)
        PROVE  finished[f] + Grace < now
    <3>1. f \in Claimed(c)
      BY <2>1, ClaimStep DEF IInv
    <3>2. Collectable(f, since[c])
      BY <3>1, ClaimedFiles DEF IInv
    <3>3. finished[f] + Grace < since[c]
      BY <3>2 DEF Collectable
    <3>4. since[c] <= now /\ since[c] \in Nat /\ now \in Nat /\ finished[f] \in Nat
      BY Numbers DEF IInv, CleanInv
    <3> QED
      BY <3>3, <3>4, TtlAssumption
  <2>2. ASSUME NEW c \in Cleaner, Scan(c) \/ DeleteRows(c)
        PROVE  FALSE
    BY <2>2 DEF Scan, DeleteRows, rows, IInv, TypeOK
  <2>3. ASSUME NEW c \in Cleaner, NEW g \in File, DeleteObject(c, g)
        PROVE  FALSE
    BY <2>3 DEF DeleteObject, rows
  <2>4. ASSUME Student
        PROVE  FALSE
    BY <2>4
       DEF Student, Touch, Upload, Submit, FinishLoad, FinishHead, FinishUpdate,
           rows, IInv, TypeOK
  <2>5. ASSUME NEW s \in Submission, DropAssignment(s)
        PROVE  FALSE
    BY <2>5 DEF DropAssignment, rows
  <2>6. CASE Tick \/ UNCHANGED vars
    BY <2>6 DEF Tick, vars, rows
  <2> QED
    BY <2>1, <2>2, <2>3, <2>4, <2>5, <2>6 DEF Next, Clean
<1> QED
  BY Invariance, <1>1, PTL DEF Spec, GraceKept
=============================================================================
