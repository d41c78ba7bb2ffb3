-------------------------- MODULE AuthCacheProofs --------------------------
(***************************************************************************)
(* AuthCache keeps its type, its two fencing invariants and the entries'   *)
(* lower bound, and implements AuthFreshness, for every set of requests    *)
(* and mutations, every lease length and every bound.                      *)
(***************************************************************************)
EXTENDS AuthCache, TLAPS

USE DEF Offered, Owned, Cached, PutKey, Lapsed

\* Commits are stamped in order, never in the future.
HistoryInv ==
    /\ \A v \in 1..(revision - 1) : replacedAt[v] <= now
    /\ \A v, w \in 1..(revision - 1) : v < w => replacedAt[v] <= replacedAt[w]
    /\ fenced <= revision
    /\ \A r \in Request : floor[r] <= fenced

\* The deadline of an epoch lies within a lease of now, and within a lease of
\* the moment its revision was replaced.
Bounded(e) ==
    /\ e.exp <= now + Lease
    /\ e.rev <= revision
    /\ e.rev # 0 /\ e.rev < revision => e.exp <= replacedAt[e.rev] + Lease

Leased(r) ==
    /\ Bounded(offer[r])
    /\ Bounded(epoch[r])
    /\ epoch[r].rev = 0 => epoch[r].exp = 0

LeaseInv ==
    /\ slot.kind = "epoch" => Bounded(slot)
    /\ \A r \in Request : Leased(r)

\* How far a request is and which of its commands are under way.
InOrder(r) ==
    /\ pc[r] \in {"arrive", "epoch", "select"} => r \notin claims
    /\ pc[r] \in {"arrive", "epoch", "claim", "select"} =>
           r \notin publishes /\ offer[r].rev = 0
    /\ pc[r] \in {"arrive", "epoch", "claim", "select", "publish"} =>
           epoch[r] = NoEpoch /\ stage[r] = "session"
    /\ r \in claims => offer[r].rev = 0
    /\ r \in publishes => offer[r].rev # 0
    /\ pc[r] \notin {"store", "done"} => verdict[r][stage[r]] = 0
    /\ stage[r] = "session" => verdict[r]["permissions"] = 0
    /\ pc[r] = "store" => verdict[r][stage[r]] # 0 /\ verdict[r][stage[r]] >= epoch[r].rev

ProgressInv == \A r \in Request : InOrder(r)

\* Everything that may reach the key is at least as recent as the last DEL.
FenceInv ==
    /\ slot.kind = "epoch" => slot.rev >= fenced
    /\ slot.kind = "fill" =>
           offer[slot.by].rev = 0 \/ offer[slot.by].rev >= fenced

\* What a request may still use or publish is at least as recent as its floor.
AboveFloor(r) ==
    /\ offer[r].rev = 0 \/ offer[r].rev >= floor[r]
    /\ epoch[r].rev = 0 \/ epoch[r].rev >= floor[r]
    /\ \A s \in Stage : verdict[r][s] = 0 \/ verdict[r][s] \in floor[r]..revision

FloorInv == \A r \in Request : AboveFloor(r)

\* Values on their way to Redis are at least as recent as their epoch.
Carries(r, s) == epoch[r].rev # 0 /\ verdict[r][s] \in epoch[r].rev..revision

PutInv == \A r \in Request, s \in Stage : <<r, s>> \in puts => Carries(r, s)

\* A value that a request got from Redis is no older than its epoch.
FetchInv ==
    \A r \in Request :
        pc[r] = "accept" => epoch[r].rev # 0 /\ fetched[r] \in epoch[r].rev..revision

IInv ==
    /\ TypeOK
    /\ HistoryInv
    /\ LeaseInv
    /\ ProgressInv
    /\ FenceInv
    /\ FloorInv
    /\ PutInv
    /\ FetchInv
    /\ EntryNotOlder

LEMMA InitInv == Init => IInv
  BY LeaseAssumption, BoundAssumption
     DEF Init, IInv, TypeOK, HistoryInv, LeaseInv, Leased, ProgressInv, InOrder,
         FenceInv, FloorInv, AboveFloor, PutInv, Carries, FetchInv, EntryNotOlder, Bounded,
         Slot, Absent, Epoch, NoEpoch, Revision, Stage, Label, Progress

\* The fields of the key, by what it holds.
LEMMA SlotFields ==
  ASSUME TypeOK
  PROVE  /\ slot.kind = "epoch" => slot.rev \in Revision /\ slot.exp \in 0..MaxTime
         /\ slot.kind = "fill" => slot.by \in Request /\ slot.exp \in 0..MaxTime
         /\ slot = Absent <=> slot.kind = "absent"
  BY DEF TypeOK, Slot, Absent

\* Types: an epoch that is published has a revision (ProgressInv), and so has
\* one that is valid (LeaseInv).
LEMMA TypeStep == ASSUME TypeOK, ProgressInv, LeaseInv, [Next]_vars
                  PROVE  TypeOK'
<1>1. ASSUME NEW r \in Request, Arrive(r)
      PROVE  TypeOK'
  <2>1. pc' \in [Request -> Label]
    BY <1>1
       DEF Arrive, Goto, TypeOK, database, redis, request, history, Label
  <2>2. floor' \in [Request -> Revision]
    BY <1>1
       DEF Arrive, Goto, TypeOK, database, redis, request, history
  <2> QED
    BY <1>1, <2>1, <2>2
       DEF Arrive, Goto, TypeOK, database, redis, request, history
<1>2. ASSUME NEW r \in Request, EpochHit(r)
      PROVE  TypeOK'
  <2>1. pc' \in [Request -> Label]
    BY <1>2
       DEF EpochHit, Goto, TypeOK, database, redis, request, history, Label
  <2>2. [rev |-> slot.rev, exp |-> slot.exp] \in Epoch
    <3>1. slot.rev \in Revision /\ slot.exp \in 0..MaxTime
      BY <1>2, SlotFields DEF EpochHit
    <3>2. Revision \subseteq 0..(MaxRevision + 1)
      BY BoundAssumption DEF Revision
    <3> QED
      BY <3>1, <3>2 DEF Epoch
  <2>3. epoch' \in [Request -> Epoch]
    BY <1>2, <2>2
       DEF EpochHit, Goto, TypeOK, database, redis, request, history
  <2> QED
    BY <1>2, <2>1, <2>2, <2>3
       DEF EpochHit, Goto, TypeOK, database, redis, request, history
<1>3. ASSUME NEW r \in Request, SendClaim(r)
      PROVE  TypeOK'
  <2>1. pc' \in [Request -> Label]
    BY <1>3
       DEF SendClaim, Goto, TypeOK, database, redis, request, history, Label
  <2>2. [offer[r] EXCEPT !.exp = now + Lease] \in Epoch
    <3>1. now + Lease \in 0..MaxTime
      BY <1>3, LeaseAssumption, BoundAssumption DEF SendClaim, TypeOK
    <3>2. offer[r] \in Epoch
      BY DEF TypeOK
    <3> QED
      BY <3>1, <3>2 DEF Epoch
  <2>3. offer' \in [Request -> Epoch]
    <3>1. offer' = [offer EXCEPT ![r] = [offer[r] EXCEPT !.exp = now + Lease]]
      BY <1>3 DEF SendClaim
    <3> QED
      BY <3>1, <2>2 DEF TypeOK
  <2> QED
    BY <1>3, <2>1, <2>2, <2>3
       DEF SendClaim, Goto, TypeOK, database, redis, request, history
<1>4. ASSUME NEW r \in Request, SelectRevision(r)
      PROVE  TypeOK'
  <2>1. pc' \in [Request -> Label]
    BY <1>4
       DEF SelectRevision, Goto, TypeOK, database, redis, request, history,
           Label
  <2>2. [offer[r] EXCEPT !.rev = revision] \in Epoch
    <3>1. revision \in 0..(MaxRevision + 1)
      BY BoundAssumption DEF TypeOK, Revision
    <3>2. offer[r] \in Epoch
      BY DEF TypeOK
    <3> QED
      BY <3>1, <3>2 DEF Epoch
  <2>3. offer' \in [Request -> Epoch]
    BY <1>4, <2>2
       DEF SelectRevision, Goto, TypeOK, database, redis, request, history
  <2> QED
    BY <1>4, <2>1, <2>2, <2>3
       DEF SelectRevision, Goto, TypeOK, database, redis, request, history
<1>5. ASSUME NEW r \in Request, GiveUp(r)
      PROVE  TypeOK'
  <2>1. pc' \in [Request -> Label]
    BY <1>5
       DEF GiveUp, Goto, TypeOK, database, redis, request, history, Label
  <2> QED
    BY <1>5, <2>1
       DEF GiveUp, Goto, TypeOK, database, redis, request, history
<1>6. ASSUME NEW r \in Request, EpochNone(r)
      PROVE  TypeOK'
  <2>1. pc' \in [Request -> Label]
    BY <1>6
       DEF EpochNone, Goto, TypeOK, database, redis, request, history, Label
  <2> QED
    BY <1>6, <2>1
       DEF EpochNone, Goto, TypeOK, database, redis, request, history
<1>7. ASSUME NEW r \in Request, Fetch(r) \/ Accept(r)
      PROVE  TypeOK'
  <2>1. pc' \in [Request -> Label]
    BY <1>7
       DEF Fetch, Accept, Advance, Goto, TypeOK, database, redis, request,
           history, Label
  <2>2. stage' \in [Request -> Stage]
    BY <1>7
       DEF Fetch, Accept, Advance, Goto, TypeOK, database, redis, request,
           history, Stage
  <2>3. ASSUME Valid(epoch[r])
        PROVE  Cached(r) \in 0..(MaxRevision + 1)
    <3>1. epoch[r] \in Epoch /\ stage[r] \in Stage
      BY DEF TypeOK
    <3>2. epoch[r].rev \in 0..(MaxRevision + 1) /\ epoch[r].exp \in 0..MaxTime
      BY <3>1 DEF Epoch
    <3>3. epoch[r].rev # 0
      BY <2>3, <3>2 DEF Valid, LeaseInv, Leased, TypeOK
    <3>4. epoch[r].rev \in Revision
      BY <3>2, <3>3, BoundAssumption DEF Revision
    <3> QED
      BY <3>1, <3>4 DEF TypeOK
  <2>4. verdict' \in [Request -> [Stage -> 0..(MaxRevision + 1)]]
    <3>1. CASE Fetch(r)
      BY <3>1 DEF Fetch, TypeOK
    <3>2. CASE Accept(r)
      <4>1. fetched[r] \in 0..(MaxRevision + 1) /\ stage[r] \in Stage
        BY DEF TypeOK
      <4> QED
        BY <3>2, <4>1 DEF Accept, TypeOK
    <3> QED
      BY <1>7, <3>1, <3>2
  <2>5. fetched' \in [Request -> 0..(MaxRevision + 1)]
    <3>1. CASE Fetch(r)
      BY <2>3, <3>1 DEF Fetch, TypeOK
    <3>2. CASE Accept(r)
      BY <3>2, BoundAssumption DEF Accept, TypeOK
    <3> QED
      BY <1>7, <3>1, <3>2
  <2> QED
    BY <1>7, <2>1, <2>2, <2>4, <2>5
       DEF Fetch, Accept, Advance, Goto, TypeOK, database, redis, request,
           history
<1>8. ASSUME NEW r \in Request, Load(r)
      PROVE  TypeOK'
  <2>1. pc' \in [Request -> Label]
    BY <1>8
       DEF Load, Goto, TypeOK, database, redis, request, history, Label
  <2>2. verdict' \in [Request -> [Stage -> 0..(MaxRevision + 1)]]
    BY <1>8
       DEF Load, Goto, TypeOK, database, redis, request, history, Revision
  <2>3. fetched' \in [Request -> 0..(MaxRevision + 1)]
    BY <1>8, BoundAssumption DEF Load, TypeOK
  <2> QED
    BY <1>8, <2>1, <2>2, <2>3
       DEF Load, Goto, TypeOK, database, redis, request, history
<1>9. ASSUME NEW r \in Request, Store(r)
      PROVE  TypeOK'
  <2>1. pc' \in [Request -> Label]
    BY <1>9
       DEF Store, Advance, Goto, TypeOK, database, redis, request, history,
           Label
  <2>2. stage' \in [Request -> Stage]
    BY <1>9
       DEF Store, Advance, Goto, TypeOK, database, redis, request, history,
           Stage
  <2>3. puts' \in SUBSET (Request \X Stage)
    BY <1>9
       DEF Store, Advance, Goto, TypeOK, database, redis, request, history
  <2> QED
    BY <1>9, <2>1, <2>2, <2>3
       DEF Store, Advance, Goto, TypeOK, database, redis, request, history
<1>10. ASSUME NEW r \in Request, ServeClaim(r)
      PROVE  TypeOK'
  <2>1. pc' \in [Request -> Label]
    BY <1>10
       DEF ServeClaim, Goto, TypeOK, database, redis, request, history,
           Label
  <2>2. slot' \in Slot
    BY <1>10
       DEF ServeClaim, Goto, TypeOK, database, redis, request, history,
           Slot, Filling, Epoch
  <2> QED
    BY <1>10, <2>1, <2>2
       DEF ServeClaim, Goto, TypeOK, database, redis, request, history
<1>11. ASSUME NEW r \in Request, ServePublish(r)
      PROVE  TypeOK'
  <2>1. pc' \in [Request -> Label]
    BY <1>11
       DEF ServePublish, Goto, TypeOK, database, redis, request, history,
           Label
  <2>2. slot' \in Slot
    <3>1. r \in publishes /\ (slot' = slot \/ slot' = Published(offer[r]))
      BY <1>11 DEF ServePublish
    <3>2. offer[r].rev \in 0..(MaxRevision + 1) /\ offer[r].exp \in 0..MaxTime
      BY DEF TypeOK, Epoch
    <3>3. offer[r].rev # 0
      BY <3>1 DEF ProgressInv, InOrder
    <3>4. offer[r].rev \in Revision
      BY <3>2, <3>3, BoundAssumption DEF Revision
    <3>5. Published(offer[r]) \in Slot
      BY <3>2, <3>4 DEF Published, Slot
    <3> QED
      BY <3>1, <3>5 DEF TypeOK
  <2>3. epoch' \in [Request -> Epoch]
    BY <1>11
       DEF ServePublish, Goto, TypeOK, database, redis, request, history
  <2> QED
    BY <1>11, <2>1, <2>2, <2>3
       DEF ServePublish, Goto, TypeOK, database, redis, request, history
<1>12. ASSUME NEW r \in Request, NEW s \in Stage, ServePut(r, s)
      PROVE  TypeOK'
  <2>1. [entry[s] EXCEPT ![epoch[r].rev] =
          verdict[r][s]] \in [Revision -> 0..(MaxRevision + 1)]
    <3>1. entry[s] \in [Revision -> 0..(MaxRevision + 1)]
      BY DEF TypeOK
    <3>2. verdict[r][s] \in 0..(MaxRevision + 1)
      BY DEF TypeOK
    <3> QED
      BY <3>1, <3>2
  <2>2. entry' \in [Stage -> [Revision -> 0..(MaxRevision + 1)]]
    <3>1. entry' =
            [entry EXCEPT ![s] = [entry[s] EXCEPT ![epoch[r].rev] = verdict[r][s]]]
      BY <1>12 DEF ServePut
    <3> QED
      BY <3>1, <2>1 DEF TypeOK
  <2> QED
    BY <1>12, <2>1, <2>2
       DEF ServePut, TypeOK, database, redis, request, history
<1>13. ASSUME NEW m \in Mutation, ServeDelete(m)
      PROVE  TypeOK'
  <2>1. slot' \in Slot
    BY <1>13
       DEF ServeDelete, TypeOK, database, redis, request, history, Slot
  <2> QED
    BY <1>13, <2>1
       DEF ServeDelete, TypeOK, database, redis, request, history
<1>14. ASSUME Expire
      PROVE  TypeOK'
  <2>1. slot' \in Slot
    BY <1>14
       DEF Expire, TypeOK, database, redis, request, history, Slot
  <2> QED
    BY <1>14, <2>1
       DEF Expire, TypeOK, database, redis, request, history
<1>15. ASSUME Evict
      PROVE  TypeOK'
  <2>1. slot' \in Slot
    BY <1>15
       DEF Evict, TypeOK, database, redis, request, history, Slot
  <2> QED
    BY <1>15, <2>1
       DEF Evict, TypeOK, database, redis, request, history
<1>16. ASSUME NEW m \in Mutation, Update(m)
      PROVE  TypeOK'
  <2>1. mutation' \in [Mutation -> Progress]
    BY <1>16
       DEF Update, SetMutation, TypeOK, database, redis, request, history,
           Progress
  <2> QED
    BY <1>16, <2>1
       DEF Update, SetMutation, TypeOK, database, redis, request, history
<1>17. ASSUME NEW m \in Mutation, Commit(m)
      PROVE  TypeOK'
  <2>1. revision' \in Revision
    BY <1>17, BoundAssumption
       DEF Commit, SetMutation, TypeOK, database, redis, request, history,
           Revision
  <2>2. mutation' \in [Mutation -> Progress]
    BY <1>17
       DEF Commit, SetMutation, TypeOK, database, redis, request, history,
           Progress
  <2>3. replacedAt' \in [Revision -> 0..MaxTime]
    BY <1>17
       DEF Commit, SetMutation, TypeOK, database, redis, request, history
  <2> QED
    BY <1>17, <2>1, <2>2, <2>3
       DEF Commit, SetMutation, TypeOK, database, redis, request, history
<1>18. ASSUME NEW m \in Mutation, Rollback(m)
      PROVE  TypeOK'
  <2>1. mutation' \in [Mutation -> Progress]
    BY <1>18
       DEF Rollback, SetMutation, TypeOK, database, redis, request, history,
           Progress
  <2> QED
    BY <1>18, <2>1
       DEF Rollback, SetMutation, TypeOK, database, redis, request, history
<1>19. ASSUME NEW m \in Mutation, SendDelete(m)
      PROVE  TypeOK'
  <2>1. mutation' \in [Mutation -> Progress]
    BY <1>19
       DEF SendDelete, SetMutation, TypeOK, database, redis, request,
           history, Progress
  <2> QED
    BY <1>19, <2>1
       DEF SendDelete, SetMutation, TypeOK, database, redis, request,
           history
<1>20. ASSUME Tick
      PROVE  TypeOK'
  <2>1. now' \in 0..MaxTime
    BY <1>20, BoundAssumption
       DEF Tick, TypeOK, database, redis, request, history
  <2> QED
    BY <1>20, <2>1
       DEF Tick, TypeOK, database, redis, request, history
<1>21. CASE UNCHANGED vars
  BY <1>21
     DEF vars, TypeOK, database, redis, request, history
<1> QED
  BY <1>1, <1>2, <1>3, <1>4, <1>5, <1>6, <1>7, <1>8, <1>9, <1>10, <1>11,
     <1>12, <1>13, <1>14, <1>15, <1>16, <1>17, <1>18, <1>19, <1>20, <1>21
     DEF Next, RequestStep, RedisStep, MutationStep

\* Commits are stamped with the clock, which never goes back.
LEMMA HistoryStep == ASSUME TypeOK, HistoryInv, [Next]_vars
                     PROVE  HistoryInv'
<1>1. ASSUME NEW r \in Request, Arrive(r)
      PROVE  HistoryInv'
  BY <1>1, LeaseAssumption, BoundAssumption
     DEF Arrive, Goto, HistoryInv, TypeOK, database, redis, request,
         history, Revision
<1>2. ASSUME NEW m \in Mutation, ServeDelete(m)
      PROVE  HistoryInv'
  BY <1>2, LeaseAssumption, BoundAssumption
     DEF ServeDelete, HistoryInv, TypeOK, database, redis, request, history,
         Revision
<1>3. ASSUME NEW m \in Mutation, Commit(m)
      PROVE  HistoryInv'
  BY <1>3, LeaseAssumption, BoundAssumption
     DEF Commit, SetMutation, HistoryInv, TypeOK, database, redis, request,
         history, Revision
<1>4. ASSUME Tick
      PROVE  HistoryInv'
  BY <1>4, LeaseAssumption, BoundAssumption
     DEF Tick, HistoryInv, TypeOK, database, redis, request, history,
         Revision
<1>5. ASSUME NEW r \in Request, EpochHit(r) \/ EpochNone(r) \/ SendClaim(r) \/
             SelectRevision(r) \/ GiveUp(r) \/ Fetch(r) \/ Accept(r) \/ Load(r) \/
             Store(r) \/ ServeClaim(r) \/ ServePublish(r)
      PROVE  HistoryInv'
  BY <1>5
     DEF EpochHit, Goto, EpochNone, SendClaim, SelectRevision, GiveUp,
         Fetch, Accept, Advance, Load, Store, ServeClaim, ServePublish,
         HistoryInv, database, redis, request, history
<1>6. ASSUME NEW r \in Request, NEW s \in Stage, ServePut(r, s)
      PROVE  HistoryInv'
  BY <1>6
     DEF ServePut, HistoryInv, database, redis, request, history
<1>7. ASSUME NEW m \in Mutation, Update(m) \/ Rollback(m) \/ SendDelete(m)
      PROVE  HistoryInv'
  BY <1>7
     DEF Update, SetMutation, Rollback, SendDelete, HistoryInv, database,
         redis, request, history
<1>8. ASSUME Expire \/ Evict
      PROVE  HistoryInv'
  BY <1>8
     DEF Expire, Evict, HistoryInv, database, redis, request, history
<1>9. CASE UNCHANGED vars
  BY <1>9
     DEF vars, HistoryInv, database, redis, request, history
<1> QED
  BY <1>1, <1>2, <1>3, <1>4, <1>5, <1>6, <1>7, <1>8, <1>9
     DEF Next, RequestStep, RedisStep, MutationStep

\* A deadline is fixed before the revision is read, so a later commit finds
\* it at most one lease ahead.
LEMMA LeaseStep == ASSUME TypeOK, HistoryInv, ProgressInv, LeaseInv,
                          [Next]_vars
                   PROVE  LeaseInv'
<1>1. ASSUME NEW r \in Request, EpochHit(r)
      PROVE  LeaseInv'
  <2>1. slot'.kind = "epoch" => Bounded(slot)'
    BY <1>1
       DEF EpochHit, Goto, LeaseInv, Bounded, database, redis, request,
           history
  <2>2. ASSUME NEW q \in Request
        PROVE  Leased(q)'
    <3>1. CASE q = r
      <4>1. epoch'[r] = [rev |-> slot.rev, exp |-> slot.exp] /\ offer'[r] = offer[r]
        BY <1>1 DEF EpochHit, TypeOK, Valid, request
      <4>2. slot.kind = "epoch" /\ slot.rev # 0
        BY <1>1, SlotFields DEF EpochHit, Revision
      <4> QED
        BY <1>1, <3>1, <4>1, <4>2
           DEF EpochHit, LeaseInv, Leased, Bounded, database, history
    <3>2. CASE q # r
      BY <1>1, <2>2, <3>2
         DEF EpochHit, Goto, LeaseInv, Leased, Bounded, TypeOK, database,
             redis, request, history
    <3> QED
      BY <3>1, <3>2
  <2> QED
    BY <2>1, <2>2 DEF LeaseInv
<1>2. ASSUME NEW r \in Request, SendClaim(r)
      PROVE  LeaseInv'
  <2>1. slot'.kind = "epoch" => Bounded(slot)'
    BY <1>2
       DEF SendClaim, Goto, LeaseInv, Bounded, database, redis, request,
           history
  <2>2. ASSUME NEW q \in Request
        PROVE  Leased(q)'
    <3>1. CASE q = r
      BY <1>2, <2>2, <3>1, LeaseAssumption, BoundAssumption
         DEF SendClaim, Goto, LeaseInv, Leased, Bounded, TypeOK, database,
             redis, request, history, Epoch, ProgressInv, InOrder
    <3>2. CASE q # r
      BY <1>2, <2>2, <3>2
         DEF SendClaim, Goto, LeaseInv, Leased, Bounded, TypeOK, database,
             redis, request, history
    <3> QED
      BY <3>1, <3>2
  <2> QED
    BY <2>1, <2>2 DEF LeaseInv
<1>3. ASSUME NEW r \in Request, SelectRevision(r)
      PROVE  LeaseInv'
  <2>1. slot'.kind = "epoch" => Bounded(slot)'
    BY <1>3
       DEF SelectRevision, Goto, LeaseInv, Bounded, database, redis,
           request, history
  <2>2. ASSUME NEW q \in Request
        PROVE  Leased(q)'
    <3>1. CASE q = r
      <4>1. offer'[r] = [rev |-> revision, exp |-> offer[r].exp] /\ epoch'[r] = epoch[r]
        BY <1>3 DEF SelectRevision, TypeOK, Epoch
      <4>2. UNCHANGED <<now, revision, replacedAt>>
        BY <1>3 DEF SelectRevision, database, history
      <4>3. revision \in Nat /\ Leased(r)
        BY DEF TypeOK, Revision, LeaseInv
      <4>4. Bounded(offer[r])' /\ Bounded(epoch[r])'
        BY <4>1, <4>2, <4>3 DEF Leased, Bounded
      <4> QED
        BY <3>1, <4>1, <4>3, <4>4 DEF Leased
    <3>2. CASE q # r
      BY <1>3, <2>2, <3>2
         DEF SelectRevision, Goto, LeaseInv, Leased, Bounded, TypeOK,
             database, redis, request, history
    <3> QED
      BY <3>1, <3>2
  <2> QED
    BY <2>1, <2>2 DEF LeaseInv
<1>4. ASSUME NEW r \in Request, ServeClaim(r)
      PROVE  LeaseInv'
  <2>1. slot'.kind = "epoch" => Bounded(slot)'
    BY <1>4
       DEF ServeClaim, Goto, LeaseInv, Bounded, database, redis, request,
           history, Filling
  <2>2. ASSUME NEW q \in Request
        PROVE  Leased(q)'
    <3>1. CASE q = r
      BY <1>4, <2>2, <3>1
         DEF ServeClaim, Goto, LeaseInv, Leased, Bounded, TypeOK, database,
             redis, request, history
    <3>2. CASE q # r
      BY <1>4, <2>2, <3>2
         DEF ServeClaim, Goto, LeaseInv, Leased, Bounded, TypeOK, database,
             redis, request, history
    <3> QED
      BY <3>1, <3>2
  <2> QED
    BY <2>1, <2>2 DEF LeaseInv
<1>5. ASSUME NEW r \in Request, ServePublish(r)
      PROVE  LeaseInv'
  <2>1. slot'.kind = "epoch" => Bounded(slot)'
    BY <1>5
       DEF ServePublish, Goto, LeaseInv, Bounded, database, redis, request,
           history, Published, Leased
  <2>2. ASSUME NEW q \in Request
        PROVE  Leased(q)'
    <3>1. CASE q = r
      BY <1>5, <2>2, <3>1
         DEF ServePublish, Goto, LeaseInv, Leased, Bounded, TypeOK,
             database, redis, request, history, ProgressInv, InOrder
    <3>2. CASE q # r
      BY <1>5, <2>2, <3>2
         DEF ServePublish, Goto, LeaseInv, Leased, Bounded, TypeOK,
             database, redis, request, history
    <3> QED
      BY <3>1, <3>2
  <2> QED
    BY <2>1, <2>2 DEF LeaseInv
<1>6. ASSUME NEW m \in Mutation, ServeDelete(m)
      PROVE  LeaseInv'
  BY <1>6 DEF ServeDelete, Absent, LeaseInv, Leased, Bounded, database, request
<1>7. ASSUME Expire
      PROVE  LeaseInv'
  BY <1>7
     DEF Expire, Absent, LeaseInv, Leased, Bounded, database, request, history
<1>8. ASSUME Evict
      PROVE  LeaseInv'
  BY <1>8
     DEF Evict, Absent, LeaseInv, Leased, Bounded, database, request, history
<1>9. ASSUME NEW m \in Mutation, Commit(m)
      PROVE  LeaseInv'
  <2>1. ASSUME NEW e, e.rev \in 0..(MaxRevision + 1), e.exp \in 0..MaxTime, Bounded(e)
        PROVE  Bounded(e)'
    BY <1>9, <2>1, LeaseAssumption, BoundAssumption
       DEF Commit, SetMutation, Bounded, TypeOK, Revision, HistoryInv,
           database, redis, request, history
  <2>2. slot.kind = "epoch" =>
            slot.rev \in 0..(MaxRevision + 1) /\ slot.exp \in 0..MaxTime
    BY SlotFields, BoundAssumption DEF Revision
  <2> QED
    BY <1>9, <2>1, <2>2
       DEF Commit, SetMutation, LeaseInv, Leased, TypeOK, Epoch, database,
           redis, request, history
<1>10. ASSUME Tick
      PROVE  LeaseInv'
  <2>1. ASSUME NEW e, e.rev \in 0..(MaxRevision + 1), e.exp \in 0..MaxTime, Bounded(e)
        PROVE  Bounded(e)'
    BY <1>10, <2>1, LeaseAssumption, BoundAssumption
       DEF Tick, Bounded, TypeOK, Revision, database, redis, request,
           history
  <2>2. slot.kind = "epoch" =>
            slot.rev \in 0..(MaxRevision + 1) /\ slot.exp \in 0..MaxTime
    BY SlotFields, BoundAssumption DEF Revision
  <2> QED
    BY <1>10, <2>1, <2>2
       DEF Tick, LeaseInv, Leased, TypeOK, Epoch, database, redis, request,
           history
<1>11. ASSUME NEW r \in Request, Arrive(r) \/ EpochNone(r) \/ GiveUp(r) \/
             Fetch(r) \/ Accept(r) \/ Load(r) \/ Store(r)
      PROVE  LeaseInv'
  BY <1>11
     DEF Arrive, Goto, EpochNone, GiveUp, Fetch, Accept, Advance, Load, Store,
         LeaseInv, Leased, Bounded, database, redis, request, history
<1>12. ASSUME NEW r \in Request, NEW s \in Stage, ServePut(r, s)
      PROVE  LeaseInv'
  BY <1>12
     DEF ServePut, LeaseInv, Leased, Bounded, database, redis, request,
         history
<1>13. ASSUME NEW m \in Mutation, Update(m) \/ Rollback(m) \/ SendDelete(m)
      PROVE  LeaseInv'
  BY <1>13
     DEF Update, SetMutation, Rollback, SendDelete, LeaseInv, Leased,
         Bounded, database, redis, request, history
<1>14. CASE UNCHANGED vars
  BY <1>14
     DEF vars, LeaseInv, Leased, Bounded, database, redis, request, history
<1> QED
  BY <1>1, <1>2, <1>3, <1>4, <1>5, <1>6, <1>7, <1>8, <1>9, <1>10, <1>11,
     <1>12, <1>13, <1>14
     DEF Next, RequestStep, RedisStep, MutationStep

\* Control: each request claims, selects and publishes at most once.
LEMMA ProgressStep == ASSUME TypeOK, ProgressInv, EntryNotOlder, LeaseInv,
                             FetchInv, [Next]_vars
                      PROVE  ProgressInv'
<1>1. ASSUME NEW r \in Request, Arrive(r)
      PROVE  ProgressInv'
  <2> SUFFICES ASSUME NEW q \in Request
               PROVE  InOrder(q)'
    BY DEF ProgressInv
  <2>1. CASE q = r
    BY <1>1, <2>1
       DEF Arrive, Goto, ProgressInv, InOrder, TypeOK, database, redis,
           request, history
  <2>2. CASE q # r
    BY <1>1, <2>2
       DEF Arrive, Goto, ProgressInv, InOrder, TypeOK, database, redis,
           request, history
  <2> QED
    BY <2>1, <2>2
<1>2. ASSUME NEW r \in Request, EpochHit(r)
      PROVE  ProgressInv'
  <2> SUFFICES ASSUME NEW q \in Request
               PROVE  InOrder(q)'
    BY DEF ProgressInv
  <2>1. CASE q = r
    BY <1>2, <2>1
       DEF EpochHit, Goto, ProgressInv, InOrder, TypeOK, database, redis,
           request, history
  <2>2. CASE q # r
    BY <1>2, <2>2
       DEF EpochHit, Goto, ProgressInv, InOrder, TypeOK, database, redis,
           request, history
  <2> QED
    BY <2>1, <2>2
<1>3. ASSUME NEW r \in Request, EpochNone(r)
      PROVE  ProgressInv'
  <2> SUFFICES ASSUME NEW q \in Request
               PROVE  InOrder(q)'
    BY DEF ProgressInv
  <2>1. CASE q = r
    BY <1>3, <2>1
       DEF EpochNone, Goto, ProgressInv, InOrder, TypeOK, database, redis,
           request, history
  <2>2. CASE q # r
    BY <1>3, <2>2
       DEF EpochNone, Goto, ProgressInv, InOrder, TypeOK, database, redis,
           request, history
  <2> QED
    BY <2>1, <2>2
<1>4. ASSUME NEW r \in Request, SendClaim(r)
      PROVE  ProgressInv'
  <2> SUFFICES ASSUME NEW q \in Request
               PROVE  InOrder(q)'
    BY DEF ProgressInv
  <2>1. CASE q = r
    BY <1>4, <2>1
       DEF SendClaim, Goto, ProgressInv, InOrder, TypeOK, database, redis,
           request, history, Epoch, NoEpoch
  <2>2. CASE q # r
    BY <1>4, <2>2
       DEF SendClaim, Goto, ProgressInv, InOrder, TypeOK, database, redis,
           request, history
  <2> QED
    BY <2>1, <2>2
<1>5. ASSUME NEW r \in Request, SelectRevision(r)
      PROVE  ProgressInv'
  <2> SUFFICES ASSUME NEW q \in Request
               PROVE  InOrder(q)'
    BY DEF ProgressInv
  <2>1. CASE q = r
    <3>1. /\ pc[r] = "select" /\ pc'[r] \in {"publish", "lookup"}
          /\ offer'[r] = [offer[r] EXCEPT !.rev = revision]
          /\ UNCHANGED <<claims, stage, epoch, verdict>>
      BY <1>5 DEF SelectRevision, Goto, TypeOK
    <3>2. offer'[r].rev # 0
      <4>1. revision # 0 /\ offer[r] \in Epoch
        BY DEF TypeOK, Revision
      <4> QED
        BY <3>1, <4>1 DEF Epoch
    <3>3. InOrder(r)
      BY DEF ProgressInv
    <3> QED
      BY <2>1, <3>1, <3>2, <3>3 DEF InOrder
  <2>2. CASE q # r
    BY <1>5, <2>2
       DEF SelectRevision, Goto, ProgressInv, InOrder, TypeOK, database,
           redis, request, history
  <2> QED
    BY <2>1, <2>2
<1>6. ASSUME NEW r \in Request, GiveUp(r)
      PROVE  ProgressInv'
  <2> SUFFICES ASSUME NEW q \in Request
               PROVE  InOrder(q)'
    BY DEF ProgressInv
  <2>1. CASE q = r
    BY <1>6, <2>1
       DEF GiveUp, Goto, ProgressInv, InOrder, TypeOK, database, redis,
           request, history
  <2>2. CASE q # r
    BY <1>6, <2>2
       DEF GiveUp, Goto, ProgressInv, InOrder, TypeOK, database, redis,
           request, history
  <2> QED
    BY <2>1, <2>2
<1>7. ASSUME NEW r \in Request, Fetch(r) \/ Accept(r)
      PROVE  ProgressInv'
  <2> SUFFICES ASSUME NEW q \in Request
               PROVE  InOrder(q)'
    BY DEF ProgressInv
  <2>1. CASE q = r
    BY <1>7, <2>1
       DEF Fetch, Accept, Advance, Goto, ProgressInv, InOrder, TypeOK, database,
           redis, request, history, Stage, FetchInv, Epoch, Revision
  <2>2. CASE q # r
    BY <1>7, <2>2
       DEF Fetch, Accept, Advance, Goto, ProgressInv, InOrder, TypeOK, database,
           redis, request, history
  <2> QED
    BY <2>1, <2>2
<1>8. ASSUME NEW r \in Request, Load(r)
      PROVE  ProgressInv'
  <2> SUFFICES ASSUME NEW q \in Request
               PROVE  InOrder(q)'
    BY DEF ProgressInv
  <2>1. CASE q = r
    BY <1>8, <2>1
       DEF Load, Goto, ProgressInv, InOrder, TypeOK, database, redis,
           request, history, Stage, Revision, LeaseInv, Leased, Bounded,
           Epoch
  <2>2. CASE q # r
    BY <1>8, <2>2
       DEF Load, Goto, ProgressInv, InOrder, TypeOK, database, redis,
           request, history
  <2> QED
    BY <2>1, <2>2
<1>9. ASSUME NEW r \in Request, Store(r)
      PROVE  ProgressInv'
  <2> SUFFICES ASSUME NEW q \in Request
               PROVE  InOrder(q)'
    BY DEF ProgressInv
  <2>1. CASE q = r
    BY <1>9, <2>1
       DEF Store, Advance, Goto, ProgressInv, InOrder, TypeOK, database,
           redis, request, history, Stage
  <2>2. CASE q # r
    BY <1>9, <2>2
       DEF Store, Advance, Goto, ProgressInv, InOrder, TypeOK, database,
           redis, request, history
  <2> QED
    BY <2>1, <2>2
<1>10. ASSUME NEW r \in Request, ServeClaim(r)
      PROVE  ProgressInv'
  <2> SUFFICES ASSUME NEW q \in Request
               PROVE  InOrder(q)'
    BY DEF ProgressInv
  <2>1. CASE q = r
    BY <1>10, <2>1
       DEF ServeClaim, Goto, ProgressInv, InOrder, TypeOK, database, redis,
           request, history
  <2>2. CASE q # r
    BY <1>10, <2>2
       DEF ServeClaim, Goto, ProgressInv, InOrder, TypeOK, database, redis,
           request, history
  <2> QED
    BY <2>1, <2>2
<1>11. ASSUME NEW r \in Request, ServePublish(r)
      PROVE  ProgressInv'
  <2> SUFFICES ASSUME NEW q \in Request
               PROVE  InOrder(q)'
    BY DEF ProgressInv
  <2>1. CASE q = r
    BY <1>11, <2>1
       DEF ServePublish, Goto, ProgressInv, InOrder, TypeOK, database,
           redis, request, history, NoEpoch
  <2>2. CASE q # r
    BY <1>11, <2>2
       DEF ServePublish, Goto, ProgressInv, InOrder, TypeOK, database,
           redis, request, history
  <2> QED
    BY <2>1, <2>2
<1>12. ASSUME NEW r \in Request, NEW s \in Stage, ServePut(r, s)
      PROVE  ProgressInv'
  BY <1>12
     DEF ServePut, ProgressInv, InOrder, TypeOK, database, redis, request,
         history
<1>13. ASSUME NEW m \in Mutation, ServeDelete(m) \/ Update(m) \/ Commit(m) \/
             Rollback(m) \/ SendDelete(m)
      PROVE  ProgressInv'
  BY <1>13
     DEF ServeDelete, Update, SetMutation, Commit, Rollback, SendDelete,
         ProgressInv, InOrder, TypeOK, database, redis, request, history
<1>14. ASSUME Expire \/ Evict \/ Tick
      PROVE  ProgressInv'
  BY <1>14
     DEF Expire, Evict, Tick, ProgressInv, InOrder, TypeOK, database, redis,
         request, history
<1>15. CASE UNCHANGED vars
  BY <1>15
     DEF vars, ProgressInv, InOrder, TypeOK, database, redis, request,
         history
<1> QED
  BY <1>1, <1>2, <1>3, <1>4, <1>5, <1>6, <1>7, <1>8, <1>9, <1>10, <1>11,
     <1>12, <1>13, <1>14, <1>15
     DEF Next, RequestStep, RedisStep, MutationStep

\* A DEL leaves no token, and a token set later is published with a revision
\* that is read later.
LEMMA FenceStep == ASSUME TypeOK, HistoryInv, ProgressInv, FenceInv,
                          [Next]_vars
                   PROVE  FenceInv'
<1>1. ASSUME NEW r \in Request, SendClaim(r)
      PROVE  FenceInv'
  BY <1>1, SlotFields
     DEF SendClaim, Goto, FenceInv, HistoryInv, TypeOK, database, redis,
         request, history, ProgressInv, InOrder, Absent, Epoch
<1>2. ASSUME NEW r \in Request, SelectRevision(r)
      PROVE  FenceInv'
  BY <1>2, SlotFields
     DEF SelectRevision, Goto, FenceInv, HistoryInv, TypeOK, database,
         redis, request, history, Epoch, Revision
<1>3. ASSUME NEW r \in Request, ServeClaim(r)
      PROVE  FenceInv'
  BY <1>3, SlotFields
     DEF ServeClaim, Goto, FenceInv, HistoryInv, TypeOK, database, redis,
         request, history, Filling, ProgressInv, InOrder
<1>4. ASSUME NEW r \in Request, ServePublish(r)
      PROVE  FenceInv'
  BY <1>4, SlotFields
     DEF ServePublish, Goto, FenceInv, HistoryInv, TypeOK, database, redis,
         request, history, Published, ProgressInv, InOrder
<1>5. ASSUME NEW m \in Mutation, ServeDelete(m)
      PROVE  FenceInv'
  BY <1>5, SlotFields
     DEF ServeDelete, FenceInv, HistoryInv, TypeOK, database, redis,
         request, history, Absent
<1>6. ASSUME Expire
      PROVE  FenceInv'
  BY <1>6, SlotFields
     DEF Expire, FenceInv, HistoryInv, TypeOK, database, redis, request,
         history, Absent
<1>7. ASSUME Evict
      PROVE  FenceInv'
  BY <1>7, SlotFields
     DEF Evict, FenceInv, HistoryInv, TypeOK, database, redis, request,
         history, Absent
<1>8. ASSUME NEW r \in Request, Arrive(r) \/ EpochHit(r) \/ EpochNone(r) \/
             GiveUp(r) \/ Fetch(r) \/ Accept(r) \/ Load(r) \/ Store(r)
      PROVE  FenceInv'
  BY <1>8
     DEF Arrive, Goto, EpochHit, EpochNone, GiveUp, Fetch, Accept, Advance,
         Load, Store, FenceInv, database, redis, request, history
<1>9. ASSUME NEW r \in Request, NEW s \in Stage, ServePut(r, s)
      PROVE  FenceInv'
  BY <1>9
     DEF ServePut, FenceInv, database, redis, request, history
<1>10. ASSUME NEW m \in Mutation, Update(m) \/ Commit(m) \/ Rollback(m) \/
             SendDelete(m)
      PROVE  FenceInv'
  BY <1>10
     DEF Update, SetMutation, Commit, Rollback, SendDelete, FenceInv,
         database, redis, request, history
<1>11. ASSUME Tick
      PROVE  FenceInv'
  BY <1>11
     DEF Tick, FenceInv, database, redis, request, history
<1>12. CASE UNCHANGED vars
  BY <1>12
     DEF vars, FenceInv, database, redis, request, history
<1> QED
  BY <1>1, <1>2, <1>3, <1>4, <1>5, <1>6, <1>7, <1>8, <1>9, <1>10, <1>11,
     <1>12
     DEF Next, RequestStep, RedisStep, MutationStep

\* Whatever a request obtains after it arrived is at least as recent.
LEMMA FloorStep == ASSUME TypeOK, HistoryInv, LeaseInv, ProgressInv,
                          FenceInv, FloorInv, FetchInv, EntryNotOlder,
                          [Next]_vars
                   PROVE  FloorInv'
<1>1. ASSUME NEW r \in Request, Arrive(r)
      PROVE  FloorInv'
  <2> SUFFICES ASSUME NEW q \in Request
               PROVE  AboveFloor(q)'
    BY DEF FloorInv
  <2>1. CASE q = r
    BY <1>1, <2>1
       DEF Arrive, Goto, FloorInv, AboveFloor, TypeOK, database, redis,
           request, history, ProgressInv, InOrder, NoEpoch, Stage
  <2>2. CASE q # r
    BY <1>1, <2>2
       DEF Arrive, Goto, FloorInv, AboveFloor, TypeOK, database, redis,
           request, history
  <2> QED
    BY <2>1, <2>2
<1>2. ASSUME NEW r \in Request, EpochHit(r)
      PROVE  FloorInv'
  <2> SUFFICES ASSUME NEW q \in Request
               PROVE  AboveFloor(q)'
    BY DEF FloorInv
  <2>1. CASE q = r
    BY <1>2, <2>1, SlotFields
       DEF EpochHit, Goto, FloorInv, AboveFloor, TypeOK, database, redis,
           request, history, FenceInv, HistoryInv, Revision
  <2>2. CASE q # r
    BY <1>2, <2>2
       DEF EpochHit, Goto, FloorInv, AboveFloor, TypeOK, database, redis,
           request, history
  <2> QED
    BY <2>1, <2>2
<1>3. ASSUME NEW r \in Request, SendClaim(r)
      PROVE  FloorInv'
  <2> SUFFICES ASSUME NEW q \in Request
               PROVE  AboveFloor(q)'
    BY DEF FloorInv
  <2>1. CASE q = r
    BY <1>3, <2>1
       DEF SendClaim, Goto, FloorInv, AboveFloor, TypeOK, database, redis,
           request, history, Epoch
  <2>2. CASE q # r
    BY <1>3, <2>2
       DEF SendClaim, Goto, FloorInv, AboveFloor, TypeOK, database, redis,
           request, history
  <2> QED
    BY <2>1, <2>2
<1>4. ASSUME NEW r \in Request, SelectRevision(r)
      PROVE  FloorInv'
  <2> SUFFICES ASSUME NEW q \in Request
               PROVE  AboveFloor(q)'
    BY DEF FloorInv
  <2>1. CASE q = r
    BY <1>4, <2>1
       DEF SelectRevision, Goto, FloorInv, AboveFloor, TypeOK, database,
           redis, request, history, HistoryInv, Revision, Epoch
  <2>2. CASE q # r
    BY <1>4, <2>2
       DEF SelectRevision, Goto, FloorInv, AboveFloor, TypeOK, database,
           redis, request, history
  <2> QED
    BY <2>1, <2>2
<1>5. ASSUME NEW r \in Request, Accept(r)
      PROVE  FloorInv'
  <2>1. /\ epoch[r].rev # 0 /\ fetched[r] \in epoch[r].rev..revision
        /\ verdict' = [verdict EXCEPT ![r][stage[r]] = fetched[r]]
        /\ UNCHANGED <<offer, epoch, floor, revision>>
    BY <1>5 DEF Accept, FetchInv, database, history
  <2> SUFFICES ASSUME NEW q \in Request
               PROVE  AboveFloor(q)'
    BY DEF FloorInv
  <2>2. CASE q = r
    <3>1. /\ epoch[r].rev \in Nat /\ fetched[r] \in Nat
          /\ floor[r] \in Nat /\ revision \in Nat
      <4>1. epoch[r] \in Epoch /\ fetched[r] \in 0..(MaxRevision + 1)
        BY DEF TypeOK
      <4>2. floor[r] \in Revision /\ revision \in Revision
        BY DEF TypeOK
      <4> QED
        BY <4>1, <4>2, BoundAssumption DEF Revision, Epoch
    <3>2. AboveFloor(r)
      BY DEF FloorInv
    <3>3. fetched[r] \in floor[r]..revision
      BY <2>1, <3>1, <3>2 DEF AboveFloor
    <3>4. ASSUME NEW s \in Stage
          PROVE  verdict'[r][s] = 0 \/ verdict'[r][s] \in floor[r]..revision
      BY <2>1, <3>2, <3>3 DEF AboveFloor, TypeOK
    <3> QED
      BY <2>1, <2>2, <3>2, <3>4 DEF AboveFloor
  <2>3. CASE q # r
    BY <1>5, <2>3
       DEF Accept, FloorInv, AboveFloor, TypeOK, database, redis, request,
           history
  <2> QED
    BY <2>2, <2>3
<1>6. ASSUME NEW r \in Request, Load(r)
      PROVE  FloorInv'
  <2> SUFFICES ASSUME NEW q \in Request
               PROVE  AboveFloor(q)'
    BY DEF FloorInv
  <2>1. CASE q = r
    BY <1>6, <2>1
       DEF Load, Goto, FloorInv, AboveFloor, TypeOK, database, redis,
           request, history, HistoryInv, Revision
  <2>2. CASE q # r
    BY <1>6, <2>2
       DEF Load, Goto, FloorInv, AboveFloor, TypeOK, database, redis,
           request, history
  <2> QED
    BY <2>1, <2>2
<1>7. ASSUME NEW r \in Request, ServePublish(r)
      PROVE  FloorInv'
  <2> SUFFICES ASSUME NEW q \in Request
               PROVE  AboveFloor(q)'
    BY DEF FloorInv
  <2>1. CASE q = r
    BY <1>7, <2>1
       DEF ServePublish, Goto, FloorInv, AboveFloor, TypeOK, database,
           redis, request, history
  <2>2. CASE q # r
    BY <1>7, <2>2
       DEF ServePublish, Goto, FloorInv, AboveFloor, TypeOK, database,
           redis, request, history
  <2> QED
    BY <2>1, <2>2
<1>8. ASSUME NEW m \in Mutation, Commit(m)
      PROVE  FloorInv'
  <2>1. /\ revision' = revision + 1
        /\ UNCHANGED <<offer, epoch, floor, verdict>>
    BY <1>8 DEF Commit, redis, request
  <2>2. revision \in Nat
    BY BoundAssumption DEF TypeOK, Revision
  <2> SUFFICES ASSUME NEW q \in Request
               PROVE  AboveFloor(q)'
    BY DEF FloorInv
  <2>3. AboveFloor(q)
    BY DEF FloorInv
  <2>4. ASSUME NEW s \in Stage
        PROVE  verdict[q][s] = 0 \/ verdict[q][s] \in floor[q]..revision'
    <3>1. floor[q] \in Nat
      BY BoundAssumption DEF TypeOK, Revision
    <3>2. verdict[q][s] = 0 \/ verdict[q][s] \in floor[q]..revision
      BY <2>3 DEF AboveFloor
    <3> QED
      BY <2>1, <2>2, <3>1, <3>2
  <2> QED
    BY <2>1, <2>3, <2>4 DEF AboveFloor
<1>9. ASSUME NEW r \in Request, EpochNone(r) \/ GiveUp(r) \/ Fetch(r) \/
             Store(r) \/ ServeClaim(r)
      PROVE  FloorInv'
  BY <1>9
     DEF EpochNone, Goto, GiveUp, Fetch, Store, Advance, ServeClaim, FloorInv,
         AboveFloor, TypeOK, database, redis, request, history
<1>10. ASSUME NEW r \in Request, NEW s \in Stage, ServePut(r, s)
      PROVE  FloorInv'
  BY <1>10
     DEF ServePut, FloorInv, AboveFloor, TypeOK, database, redis, request,
         history
<1>11. ASSUME NEW m \in Mutation, ServeDelete(m) \/ Update(m) \/
             Rollback(m) \/ SendDelete(m)
      PROVE  FloorInv'
  BY <1>11
     DEF ServeDelete, Update, SetMutation, Rollback, SendDelete, FloorInv,
         AboveFloor, TypeOK, database, redis, request, history
<1>12. ASSUME Expire \/ Evict \/ Tick
      PROVE  FloorInv'
  BY <1>12
     DEF Expire, Evict, Tick, FloorInv, AboveFloor, TypeOK, database, redis,
         request, history
<1>13. CASE UNCHANGED vars
  BY <1>13
     DEF vars, FloorInv, AboveFloor, TypeOK, database, redis, request,
         history
<1> QED
  BY <1>1, <1>2, <1>3, <1>4, <1>5, <1>6, <1>7, <1>8, <1>9, <1>10, <1>11,
     <1>12, <1>13
     DEF Next, RequestStep, RedisStep, MutationStep

\* What is sent to Redis was read under its epoch.
LEMMA PutStep == ASSUME TypeOK, LeaseInv, ProgressInv, FloorInv, PutInv,
                        FetchInv, EntryNotOlder, [Next]_vars
                 PROVE  PutInv'
<1>1. ASSUME NEW r \in Request, EpochHit(r)
      PROVE  PutInv'
  <2> SUFFICES ASSUME NEW q \in Request, NEW t \in Stage
               PROVE  (<<q, t>> \in puts => Carries(q, t))'
    BY DEF PutInv
  <2>1. CASE q = r
    BY <1>1, <2>1, SlotFields
       DEF EpochHit, Goto, PutInv, Carries, TypeOK, database, redis,
           request, history, ProgressInv, InOrder, NoEpoch
  <2>2. CASE q # r
    BY <1>1, <2>2
       DEF EpochHit, Goto, PutInv, Carries, TypeOK, database, redis,
           request, history
  <2> QED
    BY <2>1, <2>2
<1>2. ASSUME NEW r \in Request, Accept(r)
      PROVE  PutInv'
  <2>1. /\ epoch[r].rev # 0 /\ fetched[r] \in epoch[r].rev..revision
        /\ verdict' = [verdict EXCEPT ![r][stage[r]] = fetched[r]]
        /\ UNCHANGED <<puts, epoch, revision>>
    BY <1>2 DEF Accept, FetchInv, database, redis
  <2> SUFFICES ASSUME NEW q \in Request, NEW t \in Stage
               PROVE  (<<q, t>> \in puts => Carries(q, t))'
    BY DEF PutInv
  <2>2. CASE q = r
    <3>1. verdict'[r][t] =
            verdict[r][t] \/ verdict'[r][t] \in epoch[r].rev..revision
      BY <2>1 DEF TypeOK
    <3> QED
      BY <2>1, <2>2, <3>1 DEF PutInv, Carries
  <2>3. CASE q # r
    BY <1>2, <2>3
       DEF Accept, PutInv, Carries, TypeOK, database, redis, request, history
  <2> QED
    BY <2>2, <2>3
<1>3. ASSUME NEW r \in Request, Load(r)
      PROVE  PutInv'
  <2> SUFFICES ASSUME NEW q \in Request, NEW t \in Stage
               PROVE  (<<q, t>> \in puts => Carries(q, t))'
    BY DEF PutInv
  <2>1. CASE q = r
    BY <1>3, <2>1
       DEF Load, Goto, PutInv, Carries, TypeOK, database, redis, request,
           history, LeaseInv, Leased, Bounded, Epoch, Revision
  <2>2. CASE q # r
    BY <1>3, <2>2
       DEF Load, Goto, PutInv, Carries, TypeOK, database, redis, request,
           history
  <2> QED
    BY <2>1, <2>2
<1>4. ASSUME NEW r \in Request, Store(r)
      PROVE  PutInv'
  <2> SUFFICES ASSUME NEW q \in Request, NEW t \in Stage
               PROVE  (<<q, t>> \in puts => Carries(q, t))'
    BY DEF PutInv
  <2>1. CASE q = r
    <3>1. UNCHANGED <<verdict, epoch, revision>>
      BY <1>4 DEF Store, database
    <3>2. \/ <<r, t>> \in puts' => <<r, t>> \in puts
          \/ (Valid(epoch[r]) /\ t = stage[r])
      BY <1>4 DEF Store
    <3>3. ASSUME Valid(epoch[r])
          PROVE  Carries(r, stage[r])
      <4>1. epoch[r] \in Epoch /\ now \in Nat /\ stage[r] \in Stage
        BY DEF TypeOK
      <4>2. epoch[r].rev \in Nat /\ epoch[r].exp \in Nat
        BY <4>1 DEF Epoch
      <4>3. epoch[r].rev # 0
        BY <3>3, <4>1, <4>2 DEF Valid, LeaseInv, Leased
      <4>4. verdict[r][stage[r]] # 0 /\ verdict[r][stage[r]] >= epoch[r].rev
        BY <1>4 DEF Store, ProgressInv, InOrder
      <4>5. verdict[r][stage[r]] \in floor[r]..revision
        BY <4>1, <4>4 DEF FloorInv, AboveFloor
      <4>6. floor[r] \in Nat /\ revision \in Nat
        BY DEF TypeOK, Revision
      <4> QED
        BY <4>2, <4>3, <4>4, <4>5, <4>6 DEF Carries
    <3> QED
      BY <2>1, <3>1, <3>2, <3>3 DEF PutInv, Carries
  <2>2. CASE q # r
    BY <1>4, <2>2
       DEF Store, Advance, Goto, PutInv, Carries, TypeOK, database, redis,
           request, history
  <2> QED
    BY <2>1, <2>2
<1>5. ASSUME NEW r \in Request, ServePublish(r)
      PROVE  PutInv'
  <2> SUFFICES ASSUME NEW q \in Request, NEW t \in Stage
               PROVE  (<<q, t>> \in puts => Carries(q, t))'
    BY DEF PutInv
  <2>1. CASE q = r
    BY <1>5, <2>1
       DEF ServePublish, Goto, PutInv, Carries, TypeOK, database, redis,
           request, history, ProgressInv, InOrder, NoEpoch
  <2>2. CASE q # r
    BY <1>5, <2>2
       DEF ServePublish, Goto, PutInv, Carries, TypeOK, database, redis,
           request, history
  <2> QED
    BY <2>1, <2>2
<1>6. ASSUME NEW r \in Request, NEW s \in Stage, ServePut(r, s)
      PROVE  PutInv'
  BY <1>6
     DEF ServePut, PutInv, Carries, TypeOK, database, redis, request,
         history
<1>7. ASSUME NEW m \in Mutation, Commit(m)
      PROVE  PutInv'
  <2> SUFFICES ASSUME NEW q \in Request, NEW t \in Stage, <<q, t>> \in puts, Carries(q, t)
               PROVE  Carries(q, t)'
    BY <1>7 DEF Commit, PutInv, redis
  <2>1. UNCHANGED <<verdict, epoch>> /\ revision' = revision + 1
    BY <1>7 DEF Commit, request
  <2>2. revision \in Nat /\ epoch[q] \in Epoch
    BY DEF TypeOK, Revision
  <2>3. epoch[q].rev \in Nat
    BY <2>2 DEF Epoch
  <2> QED
    BY <2>1, <2>2, <2>3 DEF Carries
<1>8. ASSUME NEW r \in Request, Arrive(r) \/ EpochNone(r) \/ SendClaim(r) \/
             SelectRevision(r) \/ GiveUp(r) \/ Fetch(r) \/ ServeClaim(r)
      PROVE  PutInv'
  BY <1>8
     DEF Arrive, Goto, EpochNone, SendClaim, SelectRevision, GiveUp, Fetch,
         ServeClaim, PutInv, Carries, TypeOK, database, redis, request,
         history
<1>9. ASSUME NEW m \in Mutation, ServeDelete(m) \/ Update(m) \/ Rollback(m) \/
             SendDelete(m)
      PROVE  PutInv'
  BY <1>9
     DEF ServeDelete, Update, SetMutation, Rollback, SendDelete, PutInv,
         Carries, TypeOK, database, redis, request, history
<1>10. ASSUME Expire \/ Evict \/ Tick
      PROVE  PutInv'
  BY <1>10
     DEF Expire, Evict, Tick, PutInv, Carries, TypeOK, database, redis,
         request, history
<1>11. CASE UNCHANGED vars
  BY <1>11
     DEF vars, PutInv, Carries, TypeOK, database, redis, request, history
<1> QED
  BY <1>1, <1>2, <1>3, <1>4, <1>5, <1>6, <1>7, <1>8, <1>9, <1>10, <1>11
     DEF Next, RequestStep, RedisStep, MutationStep

\* What Redis returned stays between the epoch and the committed revision.
LEMMA FetchStep == ASSUME TypeOK, LeaseInv, ProgressInv, FetchInv,
                          EntryNotOlder, [Next]_vars
                   PROVE  FetchInv'
<1>1. ASSUME NEW r \in Request, Fetch(r)
      PROVE  FetchInv'
  <2>1. /\ now < epoch[r].exp
        /\ Cached(r) # 0
        /\ pc' = [pc EXCEPT ![r] = "accept"]
        /\ fetched' = [fetched EXCEPT ![r] = Cached(r)]
        /\ UNCHANGED <<epoch, revision>>
    BY <1>1 DEF Fetch, Goto, Valid, database
  <2>2. epoch[r].rev \in Revision
    BY <2>1, BoundAssumption DEF LeaseInv, Leased, TypeOK, Epoch, Revision
  <2>3. Cached(r) \in epoch[r].rev..revision /\ epoch[r].rev # 0
    BY <2>1, <2>2 DEF EntryNotOlder, TypeOK, Revision
  <2> QED
    BY <2>1, <2>3 DEF FetchInv, TypeOK
<1>2. ASSUME NEW r \in Request,
             \/ Arrive(r) \/ EpochHit(r) \/ EpochNone(r) \/ SendClaim(r)
             \/ SelectRevision(r) \/ GiveUp(r)
      PROVE  FetchInv'
  BY <1>2
     DEF Arrive, EpochHit, EpochNone, SendClaim, SelectRevision, GiveUp, Goto,
         FetchInv, TypeOK, database, redis
<1>3. ASSUME NEW r \in Request, Accept(r) \/ Load(r) \/ Store(r)
      PROVE  FetchInv'
  BY <1>3 DEF Accept, Load, Store, Advance, Goto, FetchInv, TypeOK, database
<1>4. ASSUME NEW r \in Request, ServeClaim(r) \/ ServePublish(r)
      PROVE  FetchInv'
  BY <1>4 DEF ServeClaim, ServePublish, Goto, FetchInv, TypeOK, database
<1>5. ASSUME NEW r \in Request, NEW s \in Stage, ServePut(r, s)
      PROVE  FetchInv'
  BY <1>5 DEF ServePut, FetchInv, database, request
<1>6. ASSUME NEW m \in Mutation, Commit(m)
      PROVE  FetchInv'
  BY <1>6, BoundAssumption DEF Commit, FetchInv, TypeOK, Epoch, Revision, request
<1>7. ASSUME NEW m \in Mutation,
             Update(m) \/ Rollback(m) \/ SendDelete(m) \/ ServeDelete(m)
      PROVE  FetchInv'
  BY <1>7 DEF Update, Rollback, SendDelete, ServeDelete, FetchInv, request, database
<1>8. ASSUME Expire \/ Evict \/ Tick \/ UNCHANGED vars
      PROVE  FetchInv'
  BY <1>8 DEF Expire, Evict, Tick, vars, FetchInv, request, database
<1> QED
  BY <1>1, <1>2, <1>3, <1>4, <1>5, <1>6, <1>7, <1>8
     DEF Next, RequestStep, RedisStep, MutationStep

\* A value reaches the entries of its epoch's revision only.
LEMMA EntryStep == ASSUME TypeOK, PutInv, EntryNotOlder, [Next]_vars
                   PROVE  EntryNotOlder'
<1>1. ASSUME NEW r \in Request, NEW s \in Stage, ServePut(r, s)
      PROVE  EntryNotOlder'
  BY <1>1, BoundAssumption
     DEF ServePut, PutInv, Carries, EntryNotOlder, TypeOK, Epoch, Revision,
         database, redis, request, history
<1>2. ASSUME NEW m \in Mutation, Commit(m)
      PROVE  EntryNotOlder'
  BY <1>2, BoundAssumption
     DEF Commit, SetMutation, EntryNotOlder, TypeOK, Revision, database,
         redis, request, history
<1>3. ASSUME NEW r \in Request, Arrive(r) \/ EpochHit(r) \/ EpochNone(r) \/
             SendClaim(r) \/ SelectRevision(r) \/ GiveUp(r) \/ Fetch(r) \/ Accept(r) \/
             Load(r) \/ Store(r) \/ ServeClaim(r) \/ ServePublish(r)
      PROVE  EntryNotOlder'
  BY <1>3
     DEF Arrive, Goto, EpochHit, EpochNone, SendClaim, SelectRevision,
         GiveUp, Fetch, Accept, Advance, Load, Store, ServeClaim, ServePublish,
         EntryNotOlder, database, redis, request, history
<1>4. ASSUME NEW m \in Mutation, ServeDelete(m) \/ Update(m) \/ Rollback(m) \/
             SendDelete(m)
      PROVE  EntryNotOlder'
  BY <1>4
     DEF ServeDelete, Update, SetMutation, Rollback, SendDelete,
         EntryNotOlder, database, redis, request, history
<1>5. ASSUME Expire \/ Evict \/ Tick
      PROVE  EntryNotOlder'
  BY <1>5
     DEF Expire, Evict, Tick, EntryNotOlder, database, redis, request,
         history
<1>6. CASE UNCHANGED vars
  BY <1>6
     DEF vars, EntryNotOlder, database, redis, request, history
<1> QED
  BY <1>1, <1>2, <1>3, <1>4, <1>5, <1>6
     DEF Next, RequestStep, RedisStep, MutationStep

\* The invariant behind everything below.
THEOREM Invariance == Spec => []IInv
<1>1. IInv /\ [Next]_vars => IInv'
  BY TypeStep, HistoryStep, LeaseStep, ProgressStep, FenceStep, FloorStep,
     PutStep, FetchStep, EntryStep DEF IInv
<1> QED
  BY InitInv, <1>1, PTL DEF Spec

-----------------------------------------------------------------------------
(* The theorems.                                                           *)

\* The state of the cache, the requests and the mutations keeps its type.
THEOREM TypeCorrect == Spec => []TypeOK
  BY Invariance, PTL DEF IInv

\* No epoch in Redis is older than the last executed DEL (cache.rs:38).
THEOREM Fencing == Spec => []FencedSlot
<1>1. IInv => FencedSlot
  BY DEF IInv, FenceInv, FencedSlot
<1> QED
  BY Invariance, <1>1, PTL

\* A request judged after a DEL sees what was committed before it, whether its
\* data came from Redis or from the database.
THEOREM ReadsAfterDelete == Spec => []FreshAfterDelete
<1>1. IInv => FreshAfterDelete
  <2> SUFFICES ASSUME IInv, NEW r \in Request, NEW s \in Stage, verdict[r][s] # 0
               PROVE  verdict[r][s] >= floor[r]
    BY DEF FreshAfterDelete
  <2>1. verdict[r][s] \in floor[r]..revision
    BY DEF IInv, FloorInv, AboveFloor
  <2>2. floor[r] \in Nat /\ revision \in Nat
    BY DEF IInv, TypeOK, Revision
  <2> QED
    BY <2>1, <2>2
<1> QED
  BY Invariance, <1>1, PTL

\* What is cached under a revision is that revision's data or a later one's.
THEOREM Entries == Spec => []EntryNotOlder
  BY Invariance, PTL DEF IInv

\* A valid epoch names a revision that a request may still act on, and so does
\* every value cached under it.
LEMMA ValidIsFresh ==
  ASSUME IInv, NEW r \in Request, Valid(epoch[r]), NEW v \in epoch[r].rev..revision
  PROVE  v \in Revision /\ Freshness!Fresh(v)
<1>1. /\ now \in Nat /\ revision \in Revision /\ epoch[r] \in Epoch
      /\ replacedAt \in [Revision -> 0..MaxTime]
  BY DEF IInv, TypeOK
<1>2. epoch[r].rev \in Nat /\ epoch[r].exp \in Nat
  BY <1>1 DEF Epoch
<1>3. Leased(r)
  BY DEF IInv, LeaseInv
<1>4. epoch[r].rev # 0
  BY <1>1, <1>2, <1>3 DEF Leased, Valid
<1>5. v \in Revision /\ epoch[r].rev \in Revision
  BY <1>1, <1>2, <1>4, BoundAssumption DEF Revision
<1>6. CASE v = revision
  BY <1>5, <1>6 DEF Freshness!Fresh
<1>7. CASE v < revision
  <2>1. epoch[r].exp <= replacedAt[epoch[r].rev] + Lease
    BY <1>1, <1>2, <1>3, <1>4, <1>7 DEF Leased, Bounded, Revision
  <2>2. replacedAt[epoch[r].rev] <= replacedAt[v]
    BY <1>1, <1>2, <1>4, <1>5, <1>7 DEF IInv, HistoryInv, Revision
  <2>3. replacedAt[v] \in Nat /\ replacedAt[epoch[r].rev] \in Nat
    BY <1>1, <1>5
  <2>4. now < replacedAt[v] + Lease
    BY <1>1, <1>2, <2>1, <2>2, <2>3, LeaseAssumption DEF Valid
  <2> QED
    BY <1>1, <1>2, <1>4, <1>5, <1>7, <2>4 DEF Freshness!Fresh, Revision
<1> QED
  BY <1>1, <1>5, <1>6, <1>7 DEF Revision

\* Every step of the cache is a step of the abstract specification or leaves
\* its variables alone.
LEMMA StepRefines ==
  ASSUME IInv, [Next]_vars
  PROVE  [Freshness!Next]_Freshness!vars
<1>1. ASSUME NEW r \in Request, Accept(r)
      PROVE  Freshness!Judge(r, stage[r])
  <2>1. /\ Valid(epoch[r]) /\ fetched[r] \in epoch[r].rev..revision
        /\ verdict' = [verdict EXCEPT ![r][stage[r]] = fetched[r]]
        /\ UNCHANGED <<now, revision, replacedAt>>
    BY <1>1 DEF Accept, IInv, FetchInv, database, history
  <2>2. fetched[r] \in Revision /\ Freshness!Fresh(fetched[r])
    BY <2>1, ValidIsFresh
  <2>3. verdict[r][stage[r]] = 0
    BY <1>1 DEF Accept, IInv, ProgressInv, InOrder
  <2> QED
    BY <2>1, <2>2, <2>3 DEF Freshness!Judge, Freshness!Revision, Revision
<1>2. ASSUME NEW r \in Request, Load(r)
      PROVE  Freshness!Judge(r, stage[r])
  <2>1. /\ verdict' = [verdict EXCEPT ![r][stage[r]] = revision]
        /\ UNCHANGED <<now, revision, replacedAt>>
    BY <1>2 DEF Load, database, history
  <2>2. verdict[r][stage[r]] = 0
    BY <1>2 DEF Load, IInv, ProgressInv, InOrder
  <2>3. revision \in Revision
    BY DEF IInv, TypeOK
  <2> QED
    BY <2>1, <2>2, <2>3
       DEF Freshness!Judge, Freshness!Fresh, Freshness!Revision, Revision
<1>3. ASSUME NEW m \in Mutation, Commit(m)
      PROVE  Freshness!Commit
  BY <1>3 DEF Commit, Freshness!Commit, request
<1>4. ASSUME Tick
      PROVE  Freshness!Tick
  BY <1>4 DEF Tick, Freshness!Tick, request, history
<1>5. ASSUME NEW r \in Request,
             \/ Arrive(r) \/ EpochHit(r) \/ EpochNone(r) \/ SendClaim(r)
             \/ SelectRevision(r) \/ GiveUp(r) \/ Fetch(r) \/ Store(r)
             \/ ServeClaim(r) \/ ServePublish(r)
      PROVE  UNCHANGED Freshness!vars
  BY <1>5
     DEF Arrive, EpochHit, EpochNone, SendClaim, SelectRevision, GiveUp, Fetch, Store,
         ServeClaim, ServePublish, Freshness!vars, database, history, request
<1>6. ASSUME NEW r \in Request, NEW s \in Stage, ServePut(r, s)
      PROVE  UNCHANGED Freshness!vars
  BY <1>6 DEF ServePut, Freshness!vars, database, history, request
<1>7. ASSUME NEW m \in Mutation,
             Update(m) \/ Rollback(m) \/ SendDelete(m) \/ ServeDelete(m)
      PROVE  UNCHANGED Freshness!vars
  BY <1>7
     DEF Update, Rollback, SendDelete, ServeDelete, Freshness!vars, database,
         history, request
<1>8. ASSUME Expire \/ Evict \/ UNCHANGED vars
      PROVE  UNCHANGED Freshness!vars
  BY <1>8
     DEF Expire, Evict, vars, Freshness!vars, database, history, request
<1>9. \A r \in Request : stage[r] \in Stage
  BY DEF IInv, TypeOK
<1> QED
  BY <1>1, <1>2, <1>3, <1>4, <1>5, <1>6, <1>7, <1>8, <1>9
     DEF Next, RequestStep, RedisStep, MutationStep, Freshness!Next

\* The lease protocol implements its promise: every verdict is by a revision
\* that is current or was replaced less than one lease before.
THEOREM Refinement == Spec => ImplementsFreshness
<1>1. Init => Freshness!Init
  BY DEF Init, Freshness!Init, Freshness!Revision, Revision
<1> QED
  BY <1>1, StepRefines, Invariance, PTL
     DEF Spec, ImplementsFreshness, Freshness!Spec
=============================================================================
