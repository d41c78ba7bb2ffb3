--------------------------- MODULE AuthFreshness ---------------------------
(***************************************************************************)
(* What the authentication cache of teacher-management promises, without   *)
(* Redis: every mutation of sessions, users or memberships makes a new     *)
(* committed revision of the authentication data, and a request is judged  *)
(* by a revision that is current or was replaced less than one lease ago.  *)
(* AuthCache instantiates it and states the assumptions on the constants.  *)
(***************************************************************************)
EXTENDS Naturals

CONSTANTS
    Request,    \* the HTTP requests that authenticate
    Stage,      \* what is looked up: the session, then the course permissions
    Lease,      \* AUTH_LEASE_MS, in clock units
    MaxTime,    \* bound on the clock
    MaxRevision \* bound on the committed mutations

VARIABLES
    now,         \* the wall clock
    revision,    \* the committed auth_revision, numbered in commit order
    replacedAt,  \* replacedAt[v]: the moment revision v stopped being current
    judged       \* judged[r][s]: the revision that judged r at stage s, or 0

vars == <<now, revision, replacedAt, judged>>

Revision == 1..(MaxRevision + 1)

\* A revision may still be acted on: it is current, or its lease is running.
Fresh(v) == v = revision \/ (v \in 1..revision /\ now < replacedAt[v] + Lease)

Init ==
    /\ now = 0
    /\ revision = 1
    /\ replacedAt = [v \in Revision |-> 0]
    /\ judged = [r \in Request |-> [s \in Stage |-> 0]]

Tick ==
    /\ now < MaxTime
    /\ now' = now + 1
    /\ UNCHANGED <<revision, replacedAt, judged>>

Commit ==
    /\ revision <= MaxRevision
    /\ revision' = revision + 1
    /\ replacedAt' = [replacedAt EXCEPT ![revision] = now]
    /\ UNCHANGED <<now, judged>>

Judge(r, s) ==
    \E v \in Revision :
        /\ judged[r][s] = 0
        /\ Fresh(v)
        /\ judged' = [judged EXCEPT ![r][s] = v]
        /\ UNCHANGED <<now, revision, replacedAt>>

Next ==
    \/ Tick
    \/ Commit
    \/ \E r \in Request, s \in Stage : Judge(r, s)

Spec == Init /\ [][Next]_vars
=============================================================================
