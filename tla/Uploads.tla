------------------------------ MODULE Uploads ------------------------------
(***************************************************************************)
(* Uploaded files of teacher-management (files/mod.rs, files/storage.rs)   *)
(* and the submissions that refer to them (academic/submissions.rs).       *)
(* A row of file_info and an object in S3 share an identifier.  The owner  *)
(* gets a signed form, uploads with it as often as he likes until it       *)
(* expires, finishes the upload and submits it.  Cleanup removes what no   *)
(* submission refers to; it works on S3 outside any transaction.           *)
(*                                                                         *)
(* A request that fails, is cancelled or dies takes no further step, and a *)
(* deletion it sent to S3 may still be carried out.                        *)
(***************************************************************************)
EXTENDS Naturals, FiniteSets

CONSTANTS
    File,       \* the identifiers that are ever given out, in order of row id
    Submission, \* rows of submissions: one per student and assignment
    For,        \* For[f]: the submission that file f was touched for
    Finish,     \* requests to finish an upload
    Cleaner,    \* requests to clean up
    Ttl,        \* upload_ttl_seconds, the lifetime of a form
    Grace,      \* the hour during which cleanup leaves a file alone
    Batch,      \* files per round of cleanup (250)
    Rounds,     \* rounds of one cleanup (16)
    MaxTime     \* bound on the clock

ASSUME FileAssumption == File \subseteq Nat \ {0} /\ For \in [File -> Submission]
\* config.rs:84 refuses a lifetime of more than an hour.
ASSUME TtlAssumption == Ttl \in Nat /\ Grace \in Nat /\ Ttl <= Grace
ASSUME BoundAssumption == Batch \in Nat /\ Rounds \in Nat /\ MaxTime \in Nat

VARIABLES
    now,        \* the clock
    \* file_info
    state,      \* upload_state; "untouched" and "removed": there is no row
    expires,    \* upload_expires_at, which the form also carries
    finished,   \* upload_finished_at
    \* S3
    object,     \* whether the object exists
    \* submissions
    submitted,  \* submitted[s]: its file_ident, or 0
    dropped,    \* submissions whose assignment has been deleted
    \* Requests to finish an upload.
    pc, target,
    \* Requests to clean up.
    phase,
    round,      \* rounds begun
    cursor,     \* the last row of the previous round
    since,      \* the time the claim is made by
    scanned,    \* files unreferenced when the claim was begun
    batch,      \* files claimed in this round
    left        \* objects of the batch that are still to be deleted

rows == <<state, expires, finished>>
submissions == <<submitted, dropped>>
finish == <<pc, target>>
cleanup == <<phase, round, cursor, since, scanned, batch, left>>
vars == <<now, rows, object, submissions, finish, cleanup>>

Time == 0..MaxTime
State == {"untouched", "pending", "ready", "deleting", "removed"}

TypeOK ==
    /\ now \in Time
    /\ state \in [File -> State]
    /\ expires \in [File -> 0..(MaxTime + Ttl)]
    /\ finished \in [File -> Time]
    /\ object \in [File -> BOOLEAN]
    /\ submitted \in [Submission -> File \cup {0}]
    /\ dropped \in SUBSET Submission
    /\ pc \in [Finish -> {"load", "head", "update"}]
    /\ target \in [Finish -> File \cup {0}]
    /\ phase \in [Cleaner -> {"scan", "claim", "delete", "rows", "done"}]
    /\ round \in [Cleaner -> 0..Rounds]
    /\ cursor \in [Cleaner -> File \cup {0}]
    /\ since \in [Cleaner -> Time]
    /\ scanned \in [Cleaner -> SUBSET File]
    /\ batch \in [Cleaner -> SUBSET File]
    /\ left \in [Cleaner -> SUBSET File]

Init ==
    /\ now = 0
    /\ state = [f \in File |-> "untouched"]
    /\ expires = [f \in File |-> 0]
    /\ finished = [f \in File |-> 0]
    /\ object = [f \in File |-> FALSE]
    /\ submitted = [s \in Submission |-> 0]
    /\ dropped = {}
    /\ pc = [p \in Finish |-> "load"]
    /\ target = [p \in Finish |-> 0]
    /\ phase = [c \in Cleaner |-> "scan"]
    /\ round = [c \in Cleaner |-> 0]
    /\ cursor = [c \in Cleaner |-> 0]
    /\ since = [c \in Cleaner |-> 0]
    /\ scanned = [c \in Cleaner |-> {}]
    /\ batch = [c \in Cleaner |-> {}]
    /\ left = [c \in Cleaner |-> {}]

-----------------------------------------------------------------------------
(* The student.                                                            *)

\* touch: sign a form and insert the row.
Touch(f) ==
    /\ state[f] = "untouched"
    /\ For[f] \notin dropped
    /\ state' = [state EXCEPT ![f] = "pending"]
    /\ expires' = [expires EXCEPT ![f] = now + Ttl]
    /\ UNCHANGED <<now, finished, object, submissions, finish, cleanup>>

\* S3 accepts the form, whatever has become of the row.
Upload(f) ==
    /\ state[f] # "untouched"
    /\ now < expires[f]
    /\ object' = [object EXCEPT ![f] = TRUE]
    /\ UNCHANGED <<now, rows, submissions, finish, cleanup>>

\* finish loads the row; a deleted assignment leaves it without one.
FinishLoad(p, f) ==
    /\ pc[p] = "load"
    /\ state[f] \in {"pending", "ready"}
    /\ For[f] \notin dropped
    /\ target' = [target EXCEPT ![p] = f]
    /\ pc' = [pc EXCEPT ![p] = "head"]
    /\ UNCHANGED <<now, rows, object, submissions, cleanup>>

\* It asks S3 for the object, holding no connection,
FinishHead(p) ==
    /\ pc[p] = "head"
    /\ pc' = [pc EXCEPT ![p] = IF object[target[p]] THEN "update" ELSE "load"]
    /\ UNCHANGED <<now, rows, object, submissions, target, cleanup>>

\* and updates the row if it is still there to be used.
FinishUpdate(p) ==
    /\ pc[p] = "update"
    /\ LET f == target[p] IN
       IF state[f] \in {"pending", "ready"}
       THEN /\ state' = [state EXCEPT ![f] = "ready"]
            /\ finished' = [finished EXCEPT ![f] = now]
       ELSE UNCHANGED <<state, finished>>
    /\ pc' = [pc EXCEPT ![p] = "load"]
    /\ UNCHANGED <<now, expires, object, submissions, target, cleanup>>

\* create: one transaction that locks the file's row and reads its state, then
\* inserts the submission or replaces its file.
Submit(f) ==
    /\ For[f] \notin dropped
    /\ state[f] = "ready"
    /\ submitted' = [submitted EXCEPT ![For[f]] = f]
    /\ UNCHANGED <<now, rows, object, dropped, finish, cleanup>>

\* The assignment is deleted, and with it its submissions (ON DELETE CASCADE);
\* its files lose it (ON DELETE SET NULL).
DropAssignment(s) ==
    /\ s \notin dropped
    /\ dropped' = dropped \cup {s}
    /\ submitted' = [submitted EXCEPT ![s] = 0]
    /\ UNCHANGED <<now, rows, object, finish, cleanup>>

-----------------------------------------------------------------------------
(* Cleanup.                                                                *)

Unreferenced(f) == \A s \in Submission : submitted[s] # f

\* Mutant: the hour is counted from the expiry of the form.
CollectableByForm(f, time) ==
    \/ state[f] = "deleting"
    \/ state[f] \in {"pending", "ready"} /\ expires[f] + Grace < time

\* claim_cleanup's filter on the row, by the time of the claim.
Collectable(f, time) ==
    \/ state[f] = "deleting"
    \/ state[f] = "ready" /\ finished[f] + Grace < time
    \/ state[f] = "pending" /\ expires[f] + Grace < time

\* The first files of a set, up to the LIMIT.
First(files) == {f \in files : Cardinality({g \in files : g <= f}) <= Batch}

\* Mutant: one round too many.
RoundsLeftPlus1(c) == round[c] <= Rounds

RoundsLeft(c) == round[c] < Rounds

\* The claiming SELECT begins.  Its NOT EXISTS subqueries read what is committed
\* now, although the rows themselves are read once they are locked.
Scan(c) ==
    /\ phase[c] = "scan"
    /\ RoundsLeft(c)
    /\ round' = [round EXCEPT ![c] = round[c] + 1]
    /\ since' = [since EXCEPT ![c] = now]
    /\ scanned' = [scanned EXCEPT ![c] = {f \in File : f > cursor[c] /\ Unreferenced(f)}]
    /\ phase' = [phase EXCEPT ![c] = "claim"]
    /\ UNCHANGED <<now, rows, object, submissions, finish, cursor, batch, left>>

\* The files a round selects and locks.
Locked(c) == First({f \in scanned[c] : Collectable(f, since[c])})

\* Mutant: references are not read again once the rows are locked.
ClaimedUnchecked(c) == Locked(c)

Claimed(c) == {f \in Locked(c) : Unreferenced(f)}

\* With the rows locked, references are read again and what has none is marked.
\* A round that claims nothing is the last.
Claim(c) ==
    /\ phase[c] = "claim"
    /\ LET claimed == Claimed(c) IN
        /\ state' = [f \in File |-> IF f \in claimed THEN "deleting" ELSE state[f]]
        /\ batch' = [batch EXCEPT ![c] = claimed]
        /\ left' = [left EXCEPT ![c] = claimed]
        /\ IF claimed = {}
           THEN phase' = [phase EXCEPT ![c] = "done"] /\ UNCHANGED cursor
           ELSE /\ phase' = [phase EXCEPT ![c] = "delete"]
                /\ \E f \in claimed :
                    /\ \A g \in claimed : g <= f
                    /\ cursor' = [cursor EXCEPT ![c] = f]
    /\ UNCHANGED <<now, expires, finished, object, submissions, finish, round,
                   since, scanned>>

\* Mutant: what S3 failed to delete is taken for deleted.
DeleteObjectLax(c, f) ==
    /\ phase[c] = "delete"
    /\ f \in left[c]
    /\ left' = [left EXCEPT ![c] = left[c] \ {f}]
    /\ phase' = [phase EXCEPT ![c] = IF left[c] = {f} THEN "rows" ELSE "delete"]
    /\ UNCHANGED <<now, rows, object, submissions, finish, round, cursor, since,
                   scanned, batch>>

\* delete_batch: S3 deletes the objects one by one; when one fails the whole
\* cleanup does.
DeleteObject(c, f) ==
    /\ phase[c] = "delete"
    /\ f \in left[c]
    /\ object' = [object EXCEPT ![f] = FALSE]
    /\ left' = [left EXCEPT ![c] = left[c] \ {f}]
    /\ phase' = [phase EXCEPT ![c] = IF left[c] = {f} THEN "rows" ELSE "delete"]
    /\ UNCHANGED <<now, rows, submissions, finish, round, cursor, since, scanned,
                   batch>>

\* The rows of a batch whose objects are gone are deleted.
DeleteRows(c) ==
    /\ phase[c] = "rows"
    /\ state' = [f \in File |->
            IF f \in batch[c] /\ state[f] = "deleting" /\ Unreferenced(f)
            THEN "removed" ELSE state[f]]
    /\ phase' = [phase EXCEPT ![c] = IF RoundsLeft(c) THEN "scan" ELSE "done"]
    /\ UNCHANGED <<now, expires, finished, object, submissions, finish, round,
                   cursor, since, scanned, batch, left>>

Tick ==
    /\ now < MaxTime
    /\ now' = now + 1
    /\ UNCHANGED <<rows, object, submissions, finish, cleanup>>

Student ==
    \/ \E f \in File : Touch(f) \/ Upload(f) \/ Submit(f)
    \/ \E p \in Finish :
        \/ \E f \in File : FinishLoad(p, f)
        \/ FinishHead(p)
        \/ FinishUpdate(p)

Clean(c) ==
    \/ Scan(c)
    \/ Claim(c)
    \/ \E f \in File : DeleteObject(c, f)
    \/ DeleteRows(c)

Next ==
    \/ Student
    \/ \E s \in Submission : DropAssignment(s)
    \/ \E c \in Cleaner : Clean(c)
    \/ Tick

Spec == Init /\ [][Next]_vars

-----------------------------------------------------------------------------
(* Properties.                                                             *)

\* The file of a submission is finished and its object is there, however
\* cleanups, finishes and resubmissions interleave (test/probe.ts:1917,
\* "concurrent cleanup/finish/submission preserves referenced objects").
SubmittedKept ==
    \A s \in Submission :
        submitted[s] # 0 => state[submitted[s]] = "ready" /\ object[submitted[s]]

\* No object is left without a row, which no cleanup would ever find again: not
\* by a cleanup that fails half-way, nor by a form used again.
NoOrphan == \A f \in File : object[f] => state[f] \notin {"untouched", "removed"}

\* A finished file is not taken within the hour of grace, counted from the last
\* time it was finished, even if that was after the cleanup began.
GraceKept ==
    [][\A f \in File :
          state[f] = "ready" /\ state'[f] = "deleting" => finished[f] + Grace < now]_vars
=============================================================================
