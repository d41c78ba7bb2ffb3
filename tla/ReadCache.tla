----------------------------- MODULE ReadCache -----------------------------
(***************************************************************************)
(* Cached JSON bodies of teacher-management (app/cache.rs, ReadCache).  A  *)
(* body is stored in Redis under the cache_revision that was committed     *)
(* when its request began, with a deadline.  It is served only while that  *)
(* revision is still committed and the deadline has not passed, because    *)
(* mutations never delete it and time alone may outdate it: an assignment  *)
(* opens and closes by the clock (academic/assignments.rs).                *)
(*                                                                         *)
(* The bodies of one key are modelled, made from an assignment (its due    *)
(* time and whether it accepts submissions) and the number of its          *)
(* submissions.  A body takes several SELECTs, with commits in between.    *)
(* A request that fails or is cancelled takes no further step.             *)
(***************************************************************************)
EXTENDS Naturals

CONSTANTS
    Reader,     \* requests for the cached key
    Ttl,        \* the lifetime of a body
    MaxTime,    \* bound on the clock
    MaxRevision \* bound on the committed mutations

ASSUME TtlAssumption == Ttl \in Nat
ASSUME BoundAssumption == MaxTime \in Nat /\ MaxRevision \in Nat

VARIABLES
    now,        \* the clock
    kind,       \* which handler serves the key, "list" or "detail"
    revision,   \* the committed cache_revision.revision
    rows,       \* the committed assignment and count of submissions
    entry,      \* entry[rev]: the frame in Redis under rev
    sets,       \* SET commands sent and not executed, by their senders
    pc,
    started,    \* when the request began
    known,      \* the revision it read first, or 0 when Redis is down
    at,         \* the time the handler takes for "now" on a miss
    until,      \* the next boundary, valid_until
    frame,      \* the frame the request builds
    held,       \* the frame it got from Redis
    truth       \* history: rows when the request re-read the revision

database == <<revision, rows>>
redis == <<entry, sets>>
answer == <<known, at, until, frame, held, truth>>
vars == <<now, kind, database, redis, pc, started, answer>>

Time == 0..MaxTime
Revision == 1..(MaxRevision + 1)
NoBoundary == MaxTime + 1
Rows == [due : Time, count : 0..MaxRevision]
Frame == [due : Time, open : BOOLEAN, count : 0..MaxRevision, deadline : 0..NoBoundary]
\* A frame whose deadline is 0 is never served: it stands for no frame.
NoFrame == [due |-> 0, open |-> FALSE, count |-> 0, deadline |-> 0]
Label ==
    {"begin", "revision", "authorise", "get", "recheck", "serve", "hit",
     "boundary", "rows", "count", "render", "store", "miss"}

\* Mutant: the boundary does not shorten the lifetime.
EarlierTtl(a, b) == b

Earlier(a, b) == IF a <= b THEN a ELSE b

NextBoundary(due, time) == IF due >= time THEN due ELSE NoBoundary

Goto(r, label) == pc' = [pc EXCEPT ![r] = label]

TypeOK ==
    /\ now \in Time
    /\ kind \in {"list", "detail"}
    /\ revision \in Revision
    /\ rows \in Rows
    /\ entry \in [Revision -> Frame]
    /\ sets \in SUBSET Reader
    /\ pc \in [Reader -> Label]
    /\ started \in [Reader -> Time]
    /\ known \in [Reader -> 0..(MaxRevision + 1)]
    /\ at \in [Reader -> Time]
    /\ until \in [Reader -> 0..NoBoundary]
    /\ frame \in [Reader -> Frame]
    /\ held \in [Reader -> Frame]
    /\ truth \in [Reader -> Rows]

Init ==
    /\ now = 0
    /\ kind \in {"list", "detail"}
    /\ revision = 1
    /\ rows \in [due : Time, count : {0}]
    /\ entry = [v \in Revision |-> NoFrame]
    /\ sets = {}
    /\ pc = [r \in Reader |-> "begin"]
    /\ started = [r \in Reader |-> 0]
    /\ known = [r \in Reader |-> 0]
    /\ at = [r \in Reader |-> 0]
    /\ until = [r \in Reader |-> 0]
    /\ frame = [r \in Reader |-> NoFrame]
    /\ held = [r \in Reader |-> NoFrame]
    /\ truth = [r \in Reader |-> rows]

-----------------------------------------------------------------------------
(* A request, up to the answer from the cache.                             *)

\* The extractor starts the lifetime, before it waits for anything.
Begin(r) ==
    /\ pc[r] = "begin"
    /\ started' = [started EXCEPT ![r] = now]
    /\ Goto(r, "revision")
    /\ UNCHANGED <<now, kind, database, redis, answer>>

\* The revision is read before the resource, and only if Redis is connected.
ReadRevision(r) ==
    /\ pc[r] = "revision"
    /\ \E rev \in {revision, 0} : known' = [known EXCEPT ![r] = rev]
    /\ Goto(r, "authorise")
    /\ UNCHANGED <<now, kind, database, redis, started, at, until, frame, held, truth>>

\* The other extractors.  AssignmentAccess loads the assignment itself.
Authorise(r) ==
    /\ pc[r] = "authorise"
    /\ frame' = IF kind = "detail" THEN [frame EXCEPT ![r].due = rows.due] ELSE frame
    /\ Goto(r, "get")
    /\ UNCHANGED <<now, kind, database, redis, started, known, at, until, held, truth>>

\* The handler goes on without the cache and takes the time.
Miss(r) ==
    /\ at' = [at EXCEPT ![r] = now]
    /\ Goto(r, "boundary")

\* get_entry found a frame whose deadline has not passed.
GetHit(r) ==
    /\ pc[r] = "get"
    /\ known[r] # 0
    /\ now < entry[known[r]].deadline
    /\ held' = [held EXCEPT ![r] = entry[known[r]]]
    /\ Goto(r, "recheck")
    /\ UNCHANGED <<now, kind, database, redis, started, known, at, until, frame, truth>>

\* get_entry found none, found one past its deadline, or Redis failed.
GetMiss(r) ==
    /\ pc[r] = "get"
    /\ Miss(r)
    /\ UNCHANGED <<now, kind, database, redis, started, known, until, frame, held, truth>>

\* Mutant: the revision is read again and not compared.
UnchangedAny(r) == TRUE

Unchanged(r) == known[r] = revision

\* The revision is read again after the frame.
Recheck(r) ==
    /\ pc[r] = "recheck"
    /\ truth' = [truth EXCEPT ![r] = rows]
    /\ IF Unchanged(r)
       THEN Goto(r, "serve") /\ UNCHANGED at
       ELSE Miss(r)
    /\ UNCHANGED <<now, kind, database, redis, started, known, until, frame, held>>

\* Mutant: the deadline is checked only as the frame is read.
AliveAny(r) == TRUE

Alive(r) == now < held[r].deadline

\* And the deadline is checked again after the revision.
Serve(r) ==
    /\ pc[r] = "serve"
    /\ IF Alive(r)
       THEN Goto(r, "hit") /\ UNCHANGED at
       ELSE Miss(r)
    /\ UNCHANGED <<now, kind, database, redis, started, known, until, frame, held, truth>>

-----------------------------------------------------------------------------
(* The handler reads the database and stores what it answers.              *)

\* The first start or due time at or after the handler's time: next_boundary
\* queries it for a list, get_one takes it from the assignment it has.
ReadBoundary(r) ==
    /\ pc[r] = "boundary"
    /\ until' = [until EXCEPT ![r] =
           NextBoundary(IF kind = "list" THEN rows.due ELSE frame[r].due, at[r])]
    /\ Goto(r, IF kind = "list" THEN "rows" ELSE "count")
    /\ UNCHANGED <<now, kind, database, redis, started, known, at, frame, held, truth>>

\* The SELECT of a list.
ReadRows(r) ==
    /\ pc[r] = "rows"
    /\ frame' = [frame EXCEPT ![r].due = rows.due]
    /\ Goto(r, "count")
    /\ UNCHANGED <<now, kind, database, redis, started, known, at, until, held, truth>>

\* The SELECT of the counts.
ReadCount(r) ==
    /\ pc[r] = "count"
    /\ frame' = [frame EXCEPT ![r].count = rows.count]
    /\ Goto(r, "render")
    /\ UNCHANGED <<now, kind, database, redis, started, known, at, until, held, truth>>

\* submit_allowed, by the handler's time for a list, by the clock for a detail.
Render(r) ==
    /\ pc[r] = "render"
    /\ frame' = [frame EXCEPT ![r].open =
                    (IF kind = "list" THEN at[r] ELSE now) < frame[r].due]
    /\ Goto(r, "store")
    /\ UNCHANGED <<now, kind, database, redis, started, known, at, until, held, truth>>

\* json: the frame gets its deadline and is sent to Redis under the revision
\* the request knows, unless the deadline has passed or Redis is down.
Store(r) ==
    /\ pc[r] = "store"
    /\ LET deadline == Earlier(until[r], started[r] + Ttl) IN
        /\ frame' = [frame EXCEPT ![r].deadline = deadline]
        /\ \/ known[r] # 0 /\ now < deadline /\ sets' = sets \cup {r}
           \/ UNCHANGED sets
    /\ Goto(r, "miss")
    /\ UNCHANGED <<now, kind, database, entry, started, known, at, until, held, truth>>

-----------------------------------------------------------------------------
(* Redis, the mutations and the clock.                                     *)

\* Mutant: a frame is stored under the revision committed by then.
SetKeyCurrent(r) == revision

\* The revision a frame is stored under: the one its request read first.
SetKey(r) == known[r]

\* SET may be executed long after it was sent, or never.
ServeSet(r) ==
    /\ r \in sets
    /\ sets' = sets \ {r}
    /\ entry' = [entry EXCEPT ![SetKey(r)] = frame[r]]
    /\ UNCHANGED <<now, kind, database, pc, started, answer>>

\* PX, an eviction or a restart removes a frame.
Remove(v) ==
    /\ entry[v] # NoFrame
    /\ entry' = [entry EXCEPT ![v] = NoFrame]
    /\ UNCHANGED <<now, kind, database, sets, pc, started, answer>>

\* A transaction that edits the assignment or adds a submission commits, with
\* the new revision (invalidate) as its last statement.
Commit(changed) ==
    /\ revision <= MaxRevision
    /\ rows' = changed
    /\ revision' = revision + 1
    /\ UNCHANGED <<now, kind, redis, pc, started, answer>>

EditAssignment == \E due \in Time : Commit([rows EXCEPT !.due = due])

AddSubmission ==
    /\ rows.count < MaxRevision
    /\ Commit([rows EXCEPT !.count = rows.count + 1])

Tick ==
    /\ now < MaxTime
    /\ now' = now + 1
    /\ UNCHANGED <<kind, database, redis, pc, started, answer>>

LookUp(r) ==
    \/ Begin(r) \/ ReadRevision(r) \/ Authorise(r)
    \/ GetHit(r) \/ GetMiss(r) \/ Recheck(r) \/ Serve(r)

Build(r) ==
    ReadBoundary(r) \/ ReadRows(r) \/ ReadCount(r) \/ Render(r) \/ Store(r)

Next ==
    \/ \E r \in Reader : LookUp(r) \/ Build(r) \/ ServeSet(r)
    \/ \E v \in Revision : Remove(v)
    \/ EditAssignment \/ AddSubmission
    \/ Tick

Spec == Init /\ [][Next]_vars

-----------------------------------------------------------------------------
(* Properties.                                                             *)

\* What a frame says of the phase is right from now on and before limit.
InPhase(f, limit) ==
    \A t \in Time : now <= t /\ t < limit => f.open = (t < f.due)

\* A frame agrees with the database now and until its deadline.
Accurate(f) ==
    /\ f.due = rows.due
    /\ f.count = rows.count
    /\ InPhase(f, f.deadline)

\* "This makes it impossible to fill a new revision using a previously loaded
\* old resource" (cache.rs:237): a frame that may still be served under the
\* committed revision is what the database says, not a mixture of two commits,
\* and stays so until its deadline.
CurrentEntryAccurate ==
    now < entry[revision].deadline => Accurate(entry[revision])

\* A body served from Redis is one committed state, current at a moment of the
\* request that is served, however many mutations ran meanwhile.
HitIsSnapshot ==
    \A r \in Reader :
        pc[r] = "hit" => held[r].due = truth[r].due /\ held[r].count = truth[r].count

\* No body is served from Redis that says an assignment is open or closed when
\* the clock has passed that moment.
HitInPhase ==
    [][\A r \in Reader :
          pc[r] = "serve" /\ pc'[r] = "hit" => held[r].open = (now < held[r].due)]_vars
=============================================================================
