----------------------------- MODULE AuthCache -----------------------------
(***************************************************************************)
(* Cached authentication of teacher-management (app/cache.rs, identity/    *)
(* auth.rs, identity/permissions.rs).  A request first obtains an epoch, a *)
(* lease on the auth_revision of the database, from one Redis key that     *)
(* holds either the token of a request that is filling it or the epoch.    *)
(* Sessions and permissions are cached under the revision of the epoch.    *)
(* Mutations change auth_revision as the last statement of their           *)
(* transaction and delete the key once their handler has finished.         *)
(*                                                                         *)
(* Every Redis command with an effect may be executed after its caller     *)
(* timed out, was cancelled or died, or never; every Redis read may fail.  *)
(* A request or a mutation that fails, is cancelled or dies is one that    *)
(* takes no further step: nothing in Spec makes it take one.               *)
(* The data a request reads is named by the revision that was committed    *)
(* when it was read.                                                       *)
(***************************************************************************)
EXTENDS Naturals

CONSTANTS
    Request,    \* requests that authenticate and then read course permissions
    Mutation,   \* transactions that end with invalidate_auth
    Lease,      \* AUTH_LEASE_MS, in clock units
    MaxTime,    \* bound on the clock
    MaxRevision \* bound on the committed mutations

ASSUME LeaseAssumption == Lease \in Nat
ASSUME BoundAssumption == MaxTime \in Nat /\ MaxRevision \in Nat

VARIABLES
    \* The database.
    now,        \* the clock the service and Redis share
    revision,   \* the committed cache_revision.auth_revision
    mutation,   \* progress of each mutating request
    \* Redis.
    slot,       \* the key <namespace>:epoch
    entry,      \* entry[s][rev]: the revision of the data cached for s, or 0
    claims,     \* commands sent and not yet executed: SET NX of a fill token,
    publishes,  \*   EVAL of PUBLISH_AUTH_EPOCH,
    puts,       \*   SET of a value,
    deletes,    \*   DEL of the epoch key
    \* The requests.
    pc, stage,
    offer,      \* the epoch a request tries to publish
    epoch,      \* the epoch a request works under
    fetched,    \* the revision of the value that Redis returned, or 0
    verdict,    \* verdict[r][s]: the revision of the data that judged r, or 0
    \* History, read by the properties only.
    replacedAt, \* when each revision stopped being current
    fenced,     \* the revision committed when the key was last deleted
    floor       \* floor[r]: fenced when r arrived

database == <<now, revision, mutation>>
redis == <<slot, entry, claims, publishes, puts, deletes>>
request == <<pc, stage, offer, epoch, fetched, verdict>>
history == <<replacedAt, fenced, floor>>
vars == <<database, redis, request, history>>

Stage == {"session", "permissions"}
Label == {"arrive", "epoch", "claim", "select", "publish", "lookup", "accept",
          "store", "done"}
Progress == {"open", "updated", "finished", "answered"}
Revision == 1..(MaxRevision + 1)
Epoch == [rev : 0..(MaxRevision + 1), exp : 0..MaxTime]
NoEpoch == [rev |-> 0, exp |-> 0]

Absent == [kind |-> "absent"]
Filling(r) == [kind |-> "fill", by |-> r, exp |-> offer[r].exp]
Published(e) == [kind |-> "epoch", rev |-> e.rev, exp |-> e.exp]
Slot ==
    {Absent}
        \cup [kind : {"fill"}, by : Request, exp : 0..MaxTime]
        \cup [kind : {"epoch"}, rev : Revision, exp : 0..MaxTime]

\* Mutant: an epoch is good for ever once it was obtained.
ValidForever(e) == e # NoEpoch

\* AuthEpoch::valid; NoEpoch never is.
Valid(e) == now < e.exp /\ e.exp <= now + Lease

TypeOK ==
    /\ now \in 0..MaxTime
    /\ revision \in Revision
    /\ mutation \in [Mutation -> Progress]
    /\ slot \in Slot
    /\ entry \in [Stage -> [Revision -> 0..(MaxRevision + 1)]]
    /\ claims \in SUBSET Request
    /\ publishes \in SUBSET Request
    /\ puts \in SUBSET (Request \X Stage)
    /\ deletes \in SUBSET Mutation
    /\ pc \in [Request -> Label]
    /\ stage \in [Request -> Stage]
    /\ offer \in [Request -> Epoch]
    /\ epoch \in [Request -> Epoch]
    /\ fetched \in [Request -> 0..(MaxRevision + 1)]
    /\ verdict \in [Request -> [Stage -> 0..(MaxRevision + 1)]]
    /\ replacedAt \in [Revision -> 0..MaxTime]
    /\ fenced \in Revision
    /\ floor \in [Request -> Revision]

Init ==
    /\ now = 0
    /\ revision = 1
    /\ mutation = [m \in Mutation |-> "open"]
    /\ slot = Absent
    /\ entry = [s \in Stage |-> [v \in Revision |-> 0]]
    /\ claims = {} /\ publishes = {} /\ puts = {} /\ deletes = {}
    /\ pc = [r \in Request |-> "arrive"]
    /\ stage = [r \in Request |-> "session"]
    /\ offer = [r \in Request |-> NoEpoch]
    /\ epoch = [r \in Request |-> NoEpoch]
    /\ fetched = [r \in Request |-> 0]
    /\ verdict = [r \in Request |-> [s \in Stage |-> 0]]
    /\ replacedAt = [v \in Revision |-> 0]
    /\ fenced = 1
    /\ floor = [r \in Request |-> 1]

-----------------------------------------------------------------------------
(* A request obtains its epoch.                                            *)

Goto(r, label) == pc' = [pc EXCEPT ![r] = label]

Arrive(r) ==
    /\ pc[r] = "arrive"
    /\ Goto(r, "epoch")
    /\ floor' = [floor EXCEPT ![r] = fenced]
    /\ UNCHANGED <<database, redis, stage, offer, epoch, fetched, verdict, replacedAt, fenced>>

\* GET found an epoch that is valid.
EpochHit(r) ==
    /\ pc[r] = "epoch"
    /\ slot.kind = "epoch"
    /\ LET e == [rev |-> slot.rev, exp |-> slot.exp] IN
        /\ Valid(e)
        /\ epoch' = [epoch EXCEPT ![r] = e]
    /\ Goto(r, "lookup")
    /\ UNCHANGED <<database, redis, stage, offer, fetched, verdict, history>>

\* GET failed, or found another request's fill token or an epoch that is not
\* valid: the request works without the cache.
EpochNone(r) ==
    /\ pc[r] = "epoch"
    /\ Goto(r, "lookup")
    /\ UNCHANGED <<database, redis, stage, offer, epoch, fetched, verdict, history>>

\* GET found nothing: fix the deadline, then claim the key with SET NX PXAT.
SendClaim(r) ==
    /\ pc[r] = "epoch"
    /\ slot = Absent
    /\ now + Lease <= MaxTime
    /\ offer' = [offer EXCEPT ![r].exp = now + Lease]
    /\ claims' = claims \cup {r}
    /\ Goto(r, "claim")
    /\ UNCHANGED <<database, slot, entry, publishes, puts, deletes, stage,
                   epoch, fetched, verdict, history>>

\* Redis executes the claim; the requester hears of it unless it gave up or
\* the reply is lost.
ServeClaim(r) ==
    /\ r \in claims
    /\ claims' = claims \ {r}
    /\ slot' = IF slot = Absent THEN Filling(r) ELSE slot
    /\ \/ /\ pc[r] = "claim"
          /\ Goto(r, IF slot = Absent THEN "select" ELSE "lookup")
       \/ UNCHANGED pc
    /\ UNCHANGED <<database, entry, publishes, puts, deletes, stage, offer,
                   epoch, fetched, verdict, history>>

\* Mutant: the epoch is offered before auth_revision was read.
OfferedUnread(r) == offer[r]

\* The epoch made of the committed auth_revision and the deadline fixed before.
Offered(r) == [offer[r] EXCEPT !.rev = revision]

\* The owner of the token reads auth_revision and offers it for publication.
SelectRevision(r) ==
    /\ pc[r] = "select"
    /\ LET e == Offered(r) IN
        /\ offer' = [offer EXCEPT ![r] = e]
        /\ IF Valid(e)
           THEN publishes' = publishes \cup {r} /\ Goto(r, "publish")
           ELSE UNCHANGED publishes /\ Goto(r, "lookup")
    /\ UNCHANGED <<database, slot, entry, claims, puts, deletes, stage, epoch,
                   fetched, verdict, history>>

\* Mutant: the script does not compare the token with its own.
OwnedByAny(r) == slot.kind = "fill"

\* The key holds the token of this request.
Owned(r) == slot.kind = "fill" /\ slot.by = r

\* PUBLISH_AUTH_EPOCH replaces the token, only if the key still holds it.
ServePublish(r) ==
    /\ r \in publishes
    /\ publishes' = publishes \ {r}
    /\ slot' = IF Owned(r) THEN Published(offer[r]) ELSE slot
    /\ \/ /\ pc[r] = "publish"
          /\ Goto(r, "lookup")
          /\ epoch' = IF Owned(r) /\ Valid(offer[r])
                      THEN [epoch EXCEPT ![r] = offer[r]] ELSE epoch
       \/ UNCHANGED <<pc, epoch>>
    /\ UNCHANGED <<database, entry, claims, puts, deletes, stage, offer,
                   fetched, verdict, history>>

\* The command timed out (it may still be executed): no epoch.
GiveUp(r) ==
    /\ pc[r] \in {"claim", "publish"}
    /\ Goto(r, "lookup")
    /\ UNCHANGED <<database, redis, stage, offer, epoch, fetched, verdict, history>>

-----------------------------------------------------------------------------
(* A request is judged by its session, then by its course permissions.     *)

\* The next read of the request: permissions follow the session.
Advance(r) ==
    IF stage[r] = "session"
    THEN stage' = [stage EXCEPT ![r] = "permissions"] /\ Goto(r, "lookup")
    ELSE stage' = stage /\ Goto(r, "done")

\* Mutant: the key of a value does not name the revision.
CachedUnder1(r) == entry[stage[r]][1]

\* The value under auth_key: the namespace, the revision and the stage.
Cached(r) == entry[stage[r]][epoch[r].rev]

\* auth_get, under an epoch that is valid before the read,
Fetch(r) ==
    /\ pc[r] = "lookup"
    /\ Valid(epoch[r])
    /\ Cached(r) # 0
    /\ fetched' = [fetched EXCEPT ![r] = Cached(r)]
    /\ Goto(r, "accept")
    /\ UNCHANGED <<database, redis, stage, offer, epoch, verdict, history>>

\* and still valid after it.
Accept(r) ==
    /\ pc[r] = "accept"
    /\ Valid(epoch[r])
    /\ verdict' = [verdict EXCEPT ![r][stage[r]] = fetched[r]]
    /\ fetched' = [fetched EXCEPT ![r] = 0]
    /\ Advance(r)
    /\ UNCHANGED <<database, redis, offer, epoch, history>>

\* No epoch, no entry, a Redis failure, a lease that ran out, or a cached session
\* that is due for renewal: load_session, renew_session or permissions::load
\* read the database.
Load(r) ==
    /\ pc[r] \in {"lookup", "accept"}
    /\ verdict' = [verdict EXCEPT ![r][stage[r]] = revision]
    /\ fetched' = [fetched EXCEPT ![r] = 0]
    /\ Goto(r, "store")
    /\ UNCHANGED <<database, redis, stage, offer, epoch, history>>

\* auth_put, under the revision of the epoch, while the epoch is valid.
Store(r) ==
    /\ pc[r] = "store"
    /\ puts' = IF Valid(epoch[r]) THEN puts \cup {<<r, stage[r]>>} ELSE puts
    /\ Advance(r)
    /\ UNCHANGED <<database, slot, entry, claims, publishes, deletes, offer,
                   epoch, fetched, verdict, history>>

\* The revision a value is stored under: that of the epoch it was read under.
PutKey(r) == epoch[r].rev

ServePut(r, s) ==
    /\ <<r, s>> \in puts
    /\ puts' = puts \ {<<r, s>>}
    /\ entry' = [entry EXCEPT ![s][PutKey(r)] = verdict[r][s]]
    /\ UNCHANGED <<database, slot, claims, publishes, deletes, request, history>>

-----------------------------------------------------------------------------
(* Mutations and the environment.                                          *)

SetMutation(m, label) == mutation' = [mutation EXCEPT ![m] = label]

\* invalidate_auth: the UPDATE of the singleton row, whose lock is held until
\* the transaction ends.  AUTH_MUTATED is set from here on.
Update(m) ==
    /\ mutation[m] = "open"
    /\ \A other \in Mutation : mutation[other] # "updated"
    /\ SetMutation(m, "updated")
    /\ UNCHANGED <<now, revision, redis, request, history>>

Commit(m) ==
    /\ mutation[m] = "updated"
    /\ revision <= MaxRevision
    /\ revision' = revision + 1
    /\ replacedAt' = [replacedAt EXCEPT ![revision] = now]
    /\ SetMutation(m, "finished")
    /\ UNCHANGED <<now, redis, request, fenced, floor>>

\* The transaction fails; the marker stays set.
Rollback(m) ==
    /\ mutation[m] = "updated"
    /\ SetMutation(m, "finished")
    /\ UNCHANGED <<now, revision, redis, request, history>>

\* invalidate_auth_response, after the handler and whatever it answered.
SendDelete(m) ==
    /\ mutation[m] = "finished"
    /\ deletes' = deletes \cup {m}
    /\ SetMutation(m, "answered")
    /\ UNCHANGED <<now, revision, slot, entry, claims, publishes, puts,
                   request, history>>

ServeDelete(m) ==
    /\ m \in deletes
    /\ deletes' = deletes \ {m}
    /\ slot' = Absent
    /\ fenced' = revision
    /\ UNCHANGED <<database, entry, claims, publishes, puts, request,
                   replacedAt, floor>>

\* Mutant: only a published epoch carries PXAT.
LapsedEpoch == slot.kind = "epoch" /\ slot.exp <= now

\* PXAT of the token or of the epoch has come.
Lapsed == slot # Absent /\ slot.exp <= now

Expire ==
    /\ Lapsed
    /\ slot' = Absent
    /\ UNCHANGED <<database, entry, claims, publishes, puts, deletes, request, history>>

\* Redis restarts or evicts the key.
Evict ==
    /\ slot # Absent
    /\ slot' = Absent
    /\ UNCHANGED <<database, entry, claims, publishes, puts, deletes, request, history>>

Tick ==
    /\ now < MaxTime
    /\ now' = now + 1
    /\ UNCHANGED <<revision, mutation, redis, request, history>>

RequestStep(r) ==
    \/ Arrive(r) \/ EpochHit(r) \/ EpochNone(r) \/ SendClaim(r)
    \/ SelectRevision(r) \/ GiveUp(r)
    \/ Fetch(r) \/ Accept(r) \/ Load(r) \/ Store(r)

RedisStep ==
    \/ \E r \in Request : ServeClaim(r) \/ ServePublish(r)
    \/ \E r \in Request, s \in Stage : ServePut(r, s)
    \/ \E m \in Mutation : ServeDelete(m)
    \/ Expire
    \/ Evict

MutationStep(m) ==
    Update(m) \/ Commit(m) \/ Rollback(m) \/ SendDelete(m)

Next ==
    \/ \E r \in Request : RequestStep(r)
    \/ \E m \in Mutation : MutationStep(m)
    \/ RedisStep
    \/ Tick

Spec == Init /\ [][Next]_vars

\* Time passes and Redis removes a key some time after its PXAT.  Nothing
\* forces a request to go on or a command to be executed.
FairSpec == Spec /\ WF_vars(Tick) /\ WF_vars(Expire)

-----------------------------------------------------------------------------
(* Properties.                                                             *)

\* The guarantee of the two-second lease: no request is ever judged by data
\* that a commit replaced a lease ago or longer (cache.rs:650, "covered by the
\* two-second DB-bounded lease").
Freshness == INSTANCE AuthFreshness WITH judged <- verdict
ImplementsFreshness == Freshness!Spec

\* "DEL therefore fences every already-started fill" (cache.rs:38): once a DEL
\* is executed, no epoch older than the revision committed at that moment is
\* ever in Redis again, whatever fills were under way.
FencedSlot == slot.kind = "epoch" => slot.rev >= fenced

\* A request that arrives after a DEL is judged by nothing older than what was
\* committed when the DEL was executed: a client whose mutation was answered
\* sees it in its next request, at both stages.
FreshAfterDelete ==
    \A r \in Request, s \in Stage : verdict[r][s] # 0 => verdict[r][s] >= floor[r]

\* A value cached under a revision is never older than that revision, and never
\* from a transaction that did not commit (cache.rs:599).
EntryNotOlder ==
    \A s \in Stage, v \in Revision : entry[s][v] = 0 \/ entry[s][v] \in v..revision

\* A fill whose owner died does not keep the cache closed for ever.
FillEnds == slot.kind = "fill" ~> slot.kind # "fill"
=============================================================================
