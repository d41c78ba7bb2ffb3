--------------------------- MODULE ReadCacheProofs ---------------------------
(***************************************************************************)
(* ReadCache keeps its type, stores nothing inaccurate under the committed *)
(* revision and serves snapshots in the phase of the clock, for every set  *)
(* of requests, every lifetime and every bound, whichever handler it is.   *)
(***************************************************************************)
EXTENDS ReadCache, TLAPS

USE DEF Unchanged, Alive, SetKey

\* What a request has read, if no mutation committed since it began.
Undisturbed(r) ==
    /\ pc[r] \in {"count", "render", "store", "miss"} => frame[r].due = rows.due
    /\ kind = "detail" /\ pc[r] \in {"get", "recheck", "serve", "boundary"} =>
           frame[r].due = rows.due
    /\ pc[r] \in {"render", "store", "miss"} => frame[r].count = rows.count
    /\ pc[r] \in {"rows", "count", "render", "store"} =>
           until[r] = NextBoundary(rows.due, at[r])
    /\ pc[r] = "store" => InPhase(frame[r], until[r])
    /\ pc[r] = "miss" => InPhase(frame[r], frame[r].deadline)
    /\ pc[r] = "recheck" /\ now < held[r].deadline => Accurate(held[r])

\* The frame of a request that is about to serve it is a snapshot.
Snapshot(r) == held[r].due = truth[r].due /\ held[r].count = truth[r].count

ReaderInv(r) ==
    /\ known[r] <= revision
    /\ at[r] <= now
    /\ known[r] = revision => Undisturbed(r)
    /\ pc[r] = "serve" /\ now < held[r].deadline =>
           Snapshot(r) /\ InPhase(held[r], held[r].deadline)
    /\ pc[r] = "hit" => Snapshot(r)
    /\ r \in sets => pc[r] = "miss" /\ known[r] # 0

\* No frame lies under a revision that is still to come.
FutureEmpty == \A v \in Revision : v > revision => entry[v].deadline = 0

IInv ==
    /\ TypeOK
    /\ \A r \in Reader : ReaderInv(r)
    /\ FutureEmpty
    /\ CurrentEntryAccurate

LEMMA InitInv == Init => IInv
  BY BoundAssumption
     DEF Init, IInv, TypeOK, ReaderInv, Undisturbed, FutureEmpty,
         CurrentEntryAccurate, Accurate, InPhase, NoFrame, Frame, Rows, Label,
         Time, Revision, NoBoundary

\* A deadline never lies after the next boundary.
LEMMA EarlierBound ==
  ASSUME NEW a \in Nat, NEW b \in Nat
  PROVE  Earlier(a, b) \in Nat /\ Earlier(a, b) <= a
  BY DEF Earlier

\* What the mutations commit.
LEMMA CommitRows ==
  ASSUME TypeOK
  PROVE  /\ \A due \in Time : [rows EXCEPT !.due = due] \in Rows
         /\ rows.count < MaxRevision => [rows EXCEPT !.count = rows.count + 1] \in Rows
<1>1. rows \in Rows
  BY DEF TypeOK
<1>2. rows.count < MaxRevision => rows.count + 1 \in 0..MaxRevision
  BY <1>1, BoundAssumption DEF Rows
<1> QED
  BY <1>1, <1>2 DEF Rows

LEMMA TypeStep ==
  ASSUME TypeOK, \A r \in Reader : r \in sets => known[r] # 0, [Next]_vars
  PROVE  TypeOK'
<1> USE BoundAssumption
<1>1. ASSUME NEW r \in Reader, Begin(r)
      PROVE  TypeOK'
  <2>1. pc' \in [Reader -> Label]
    BY <1>1 DEF Begin, Goto, TypeOK, Label
  <2>2. started' \in [Reader -> Time]
    BY <1>1 DEF Begin, TypeOK, database
  <2> QED
    BY <1>1, <2>1, <2>2 DEF Begin, TypeOK, database, redis, answer
<1>2. ASSUME NEW r \in Reader, ReadRevision(r)
      PROVE  TypeOK'
  <2>1. pc' \in [Reader -> Label]
    BY <1>2 DEF ReadRevision, Goto, TypeOK, Label
  <2>2. known' \in [Reader -> 0..(MaxRevision + 1)]
    BY <1>2 DEF ReadRevision, Revision, TypeOK, database
  <2> QED
    BY <1>2, <2>1, <2>2 DEF ReadRevision, TypeOK, database, redis, answer
<1>3. ASSUME NEW r \in Reader, Authorise(r)
      PROVE  TypeOK'
  <2>1. pc' \in [Reader -> Label]
    BY <1>3 DEF Authorise, Goto, TypeOK, Label
  <2>2. frame' \in [Reader -> Frame]
    <3>1. frame[r] \in Frame /\ rows \in Rows
      BY DEF TypeOK
    <3>2. rows.due \in Time
      BY <3>1 DEF Rows
    <3>3. [frame[r] EXCEPT !.due = rows.due] \in Frame
      BY <3>1, <3>2 DEF Frame
    <3>4. \/ frame' = frame
          \/ frame' = [frame EXCEPT ![r] = [frame[r] EXCEPT !.due = rows.due]]
      BY <1>3 DEF Authorise
    <3> QED
      BY <3>3, <3>4 DEF TypeOK
  <2> QED
    BY <1>3, <2>1, <2>2 DEF Authorise, TypeOK, database, redis, answer
<1>4. ASSUME NEW r \in Reader, GetHit(r)
      PROVE  TypeOK'
  <2>1. pc' \in [Reader -> Label]
    BY <1>4 DEF GetHit, Goto, TypeOK, Label
  <2>2. held' \in [Reader -> Frame]
    <3>1. known[r] \in Revision
      BY <1>4 DEF GetHit, TypeOK, Revision
    <3> QED
      BY <1>4, <3>1 DEF GetHit, TypeOK
  <2> QED
    BY <1>4, <2>1, <2>2 DEF GetHit, TypeOK, database, redis, answer
<1>5. ASSUME NEW r \in Reader, GetMiss(r)
      PROVE  TypeOK'
  <2>1. pc' \in [Reader -> Label]
    BY <1>5 DEF GetMiss, Miss, Goto, TypeOK, Label
  <2>2. at' \in [Reader -> Time]
    BY <1>5 DEF GetMiss, Miss, TypeOK, database
  <2> QED
    BY <1>5, <2>1, <2>2 DEF GetMiss, Miss, TypeOK, database, redis, answer
<1>6. ASSUME NEW r \in Reader, Recheck(r)
      PROVE  TypeOK'
  <2>1. pc' \in [Reader -> Label]
    BY <1>6 DEF Recheck, Miss, Goto, TypeOK, Label
  <2>2. at' \in [Reader -> Time]
    BY <1>6 DEF Recheck, Miss, TypeOK, database
  <2>3. truth' \in [Reader -> Rows]
    BY <1>6 DEF Recheck, Miss, TypeOK, database
  <2> QED
    BY <1>6, <2>1, <2>2, <2>3 DEF Recheck, Miss, TypeOK, database, redis, answer
<1>7. ASSUME NEW r \in Reader, Serve(r)
      PROVE  TypeOK'
  <2>1. pc' \in [Reader -> Label]
    BY <1>7 DEF Serve, Miss, Goto, TypeOK, Label
  <2>2. at' \in [Reader -> Time]
    BY <1>7 DEF Serve, Miss, TypeOK, database
  <2> QED
    BY <1>7, <2>1, <2>2 DEF Serve, Miss, TypeOK, database, redis, answer
<1>8. ASSUME NEW r \in Reader, ReadBoundary(r)
      PROVE  TypeOK'
  <2>1. pc' \in [Reader -> Label]
    BY <1>8 DEF ReadBoundary, Goto, TypeOK, Label
  <2>2. until' \in [Reader -> 0..NoBoundary]
    <3>1. rows.due \in Time /\ frame[r].due \in Time
      BY DEF TypeOK, Rows, Frame
    <3> QED
      BY <1>8, <3>1 DEF ReadBoundary, NextBoundary, TypeOK, Time, NoBoundary
  <2> QED
    BY <1>8, <2>1, <2>2 DEF ReadBoundary, TypeOK, database, redis, answer
<1>9. ASSUME NEW r \in Reader, ReadRows(r)
      PROVE  TypeOK'
  <2>1. pc' \in [Reader -> Label]
    BY <1>9 DEF ReadRows, Goto, TypeOK, Label
  <2>2. frame' \in [Reader -> Frame]
    <3>1. frame[r] \in Frame /\ rows \in Rows
      BY DEF TypeOK
    <3>2. rows.due \in Time
      BY <3>1 DEF Rows
    <3>3. [frame[r] EXCEPT !.due = rows.due] \in Frame
      BY <3>1, <3>2 DEF Frame
    <3>4. frame' = [frame EXCEPT ![r] = [frame[r] EXCEPT !.due = rows.due]]
      BY <1>9 DEF ReadRows
    <3> QED
      BY <3>3, <3>4 DEF TypeOK
  <2> QED
    BY <1>9, <2>1, <2>2 DEF ReadRows, TypeOK, database, redis, answer
<1>10. ASSUME NEW r \in Reader, ReadCount(r)
      PROVE  TypeOK'
  <2>1. pc' \in [Reader -> Label]
    BY <1>10 DEF ReadCount, Goto, TypeOK, Label
  <2>2. frame' \in [Reader -> Frame]
    <3>1. frame[r] \in Frame /\ rows \in Rows
      BY DEF TypeOK
    <3>2. rows.count \in 0..MaxRevision
      BY <3>1 DEF Rows
    <3>3. [frame[r] EXCEPT !.count = rows.count] \in Frame
      BY <3>1, <3>2 DEF Frame
    <3>4. frame' = [frame EXCEPT ![r] = [frame[r] EXCEPT !.count = rows.count]]
      BY <1>10 DEF ReadCount
    <3> QED
      BY <3>3, <3>4 DEF TypeOK
  <2> QED
    BY <1>10, <2>1, <2>2 DEF ReadCount, TypeOK, database, redis, answer
<1>11. ASSUME NEW r \in Reader, Render(r)
      PROVE  TypeOK'
  <2>1. pc' \in [Reader -> Label]
    BY <1>11 DEF Render, Goto, TypeOK, Label
  <2>2. frame' \in [Reader -> Frame]
    <3>1. frame[r] \in Frame /\ rows \in Rows
      BY DEF TypeOK
    <3>2. ((IF kind = "list" THEN at[r] ELSE now) < frame[r].due) \in BOOLEAN
      OBVIOUS
    <3>3. [frame[r] EXCEPT !.open =
            ((IF kind = "list" THEN at[r] ELSE now) < frame[r].due)] \in Frame
      BY <3>1, <3>2 DEF Frame
    <3>4. frame' =
            [frame EXCEPT ![r] = [frame[r] EXCEPT !.open =
                ((IF kind = "list" THEN at[r] ELSE now) < frame[r].due)]]
      BY <1>11 DEF Render
    <3> QED
      BY <3>3, <3>4 DEF TypeOK
  <2> QED
    BY <1>11, <2>1, <2>2 DEF Render, TypeOK, database, redis, answer
<1>12. ASSUME NEW r \in Reader, Store(r)
      PROVE  TypeOK'
  <2>1. pc' \in [Reader -> Label]
    BY <1>12 DEF Store, Goto, TypeOK, Label
  <2>2. frame' \in [Reader -> Frame]
    <3>1. frame[r] \in Frame /\ rows \in Rows
      BY DEF TypeOK
    <3>2. Earlier(until[r], started[r] + Ttl) \in 0..NoBoundary
      <4>1. /\ until[r] \in 0..NoBoundary /\ started[r] + Ttl \in Nat
            /\ NoBoundary \in Nat
        BY TtlAssumption, BoundAssumption DEF TypeOK, NoBoundary, Time
      <4> QED
        BY <4>1 DEF Earlier
    <3>3. [frame[r] EXCEPT !.deadline =
            Earlier(until[r], started[r] + Ttl)] \in Frame
      BY <3>1, <3>2 DEF Frame
    <3>4. frame' =
            [frame EXCEPT ![r] = [frame[r] EXCEPT !.deadline =
                Earlier(until[r], started[r] + Ttl)]]
      BY <1>12 DEF Store
    <3> QED
      BY <3>3, <3>4 DEF TypeOK
  <2>3. sets' \in SUBSET Reader
    BY <1>12 DEF Store, TypeOK, database
  <2> QED
    BY <1>12, <2>1, <2>2, <2>3 DEF Store, TypeOK, database, redis, answer
<1>13. ASSUME NEW r \in Reader, ServeSet(r)
      PROVE  TypeOK'
  <2>1. entry' \in [Revision -> Frame]
    BY <1>13 DEF ServeSet, TypeOK
  <2> QED
    BY <1>13, <2>1 DEF ServeSet, TypeOK, database, redis, answer
<1>14. ASSUME NEW v \in Revision, Remove(v)
      PROVE  TypeOK'
  <2>1. NoFrame \in Frame
    BY BoundAssumption DEF NoFrame, Frame, Time, NoBoundary
  <2> QED
    BY <1>14, <2>1 DEF Remove, TypeOK, database, answer
<1>15. ASSUME NEW changed \in Rows, Commit(changed)
      PROVE  TypeOK'
  BY <1>15 DEF Commit, TypeOK, Revision, redis, answer
<1>16. CASE Tick
  BY <1>16 DEF Tick, TypeOK, Time, database, redis, answer
<1>17. CASE UNCHANGED vars
  BY <1>17 DEF vars, TypeOK, database, redis, answer
<1>18. CASE EditAssignment
  BY <1>18, <1>15, CommitRows DEF EditAssignment
<1>19. CASE AddSubmission
  BY <1>19, <1>15, CommitRows DEF AddSubmission
<1> QED
  BY <1>1, <1>2, <1>3, <1>4, <1>5, <1>6, <1>7, <1>8, <1>9, <1>10, <1>11, <1>12,
     <1>13, <1>14, <1>15, <1>16, <1>17, <1>18, <1>19
     DEF Next, LookUp, Build

\* A request keeps its invariant while others step.
LEMMA Others ==
  ASSUME NEW q \in Reader, ReaderInv(q), q \in sets' => q \in sets,
         UNCHANGED <<now, kind, revision, rows>>,
         UNCHANGED <<pc[q], known[q], at[q], until[q], frame[q], held[q], truth[q]>>
  PROVE  ReaderInv(q)'
  BY DEF ReaderInv, Undisturbed, Snapshot, Accurate, InPhase

\* A frame that is accurate, or in phase, remains so while neither it nor the
\* database nor the clock changes; here for the steps of one request.
LEMMA ReaderStep ==
  ASSUME TypeOK, TypeOK', \A r \in Reader : ReaderInv(r), CurrentEntryAccurate,
         [Next]_vars, NEW q \in Reader
  PROVE  ReaderInv(q)'
<1> USE BoundAssumption
<1>1. ASSUME NEW r \in Reader, Begin(r)
      PROVE  ReaderInv(q)'
  <2>1. CASE q # r
    <3>1. /\ UNCHANGED <<now, kind, revision, rows>> /\ (q \in sets' => q \in sets)
          /\ UNCHANGED <<pc[q], known[q], at[q], until[q], frame[q], held[q], truth[q]>>
      BY <1>1, <2>1 DEF Begin, Goto, TypeOK, database, redis, answer
    <3> QED
      BY <3>1, Others
  <2>2. CASE q = r
    BY <1>1, <2>2
       DEF Begin, Goto, ReaderInv, Undisturbed, Snapshot, TypeOK, database,
           redis, answer, Label
  <2> QED
    BY <2>1, <2>2
<1>2. ASSUME NEW r \in Reader, ReadRevision(r)
      PROVE  ReaderInv(q)'
  <2>1. CASE q # r
    <3>1. /\ UNCHANGED <<now, kind, revision, rows>> /\ (q \in sets' => q \in sets)
          /\ UNCHANGED <<pc[q], known[q], at[q], until[q], frame[q], held[q], truth[q]>>
      BY <1>2, <2>1 DEF ReadRevision, Goto, TypeOK, database, redis, answer
    <3> QED
      BY <3>1, Others
  <2>2. CASE q = r
    BY <1>2, <2>2
       DEF ReadRevision, Goto, ReaderInv, Undisturbed, Snapshot, TypeOK,
           database, redis, answer, Revision
  <2> QED
    BY <2>1, <2>2
<1>3. ASSUME NEW r \in Reader, Authorise(r)
      PROVE  ReaderInv(q)'
  <2>1. CASE q # r
    <3>1. /\ UNCHANGED <<now, kind, revision, rows>> /\ (q \in sets' => q \in sets)
          /\ UNCHANGED <<pc[q], known[q], at[q], until[q], frame[q], held[q], truth[q]>>
      BY <1>3, <2>1 DEF Authorise, Goto, TypeOK, database, redis, answer
    <3> QED
      BY <3>1, Others
  <2>2. CASE q = r
    BY <1>3, <2>2
       DEF Authorise, Goto, ReaderInv, Undisturbed, Snapshot, TypeOK, database,
           redis, answer
  <2> QED
    BY <2>1, <2>2
<1>4. ASSUME NEW r \in Reader, GetHit(r)
      PROVE  ReaderInv(q)'
  <2>1. CASE q # r
    <3>1. /\ UNCHANGED <<now, kind, revision, rows>> /\ (q \in sets' => q \in sets)
          /\ UNCHANGED <<pc[q], known[q], at[q], until[q], frame[q], held[q], truth[q]>>
      BY <1>4, <2>1 DEF GetHit, Goto, TypeOK, database, redis, answer
    <3> QED
      BY <3>1, Others
  <2>2. CASE q = r
    <3>1. /\ pc'[r] = "recheck" /\ held'[r] = entry[known[r]]
          /\ UNCHANGED <<now, kind, revision, rows, sets, known, at, frame, truth>>
          /\ pc[r] = "get" /\ r \notin sets
      BY <1>4 DEF GetHit, Goto, TypeOK, database, redis, ReaderInv
    <3>2. known[r] = revision /\ now < entry[revision].deadline => Accurate(entry[revision])
      BY DEF CurrentEntryAccurate
    <3>3. known[r] = revision /\ now < held'[r].deadline => Accurate(held[r])'
      BY <3>1, <3>2 DEF Accurate, InPhase
    <3> QED
      BY <2>2, <3>1, <3>3 DEF ReaderInv, Undisturbed
  <2> QED
    BY <2>1, <2>2
<1>5. ASSUME NEW r \in Reader, GetMiss(r)
      PROVE  ReaderInv(q)'
  <2>1. CASE q # r
    <3>1. /\ UNCHANGED <<now, kind, revision, rows>> /\ (q \in sets' => q \in sets)
          /\ UNCHANGED <<pc[q], known[q], at[q], until[q], frame[q], held[q], truth[q]>>
      BY <1>5, <2>1 DEF GetMiss, Miss, Goto, TypeOK, database, redis, answer
    <3> QED
      BY <3>1, Others
  <2>2. CASE q = r
    <3>1. /\ pc[r] = "get" /\ pc'[r] = "boundary" /\ at'[r] = now
          /\ UNCHANGED <<now, kind, revision, rows, sets, known, frame>>
      BY <1>5 DEF GetMiss, Miss, Goto, TypeOK, database, redis
    <3> QED
      BY <2>2, <3>1 DEF ReaderInv, Undisturbed, TypeOK, Time
  <2> QED
    BY <2>1, <2>2
<1>6. ASSUME NEW r \in Reader, Recheck(r)
      PROVE  ReaderInv(q)'
  <2>1. CASE q # r
    <3>1. /\ UNCHANGED <<now, kind, revision, rows>> /\ (q \in sets' => q \in sets)
          /\ UNCHANGED <<pc[q], known[q], at[q], until[q], frame[q], held[q], truth[q]>>
      BY <1>6, <2>1 DEF Recheck, Miss, Goto, TypeOK, database, redis, answer
    <3> QED
      BY <3>1, Others
  <2>2. CASE q = r
    <3>1. /\ pc[r] = "recheck" /\ truth'[r] = rows
          /\ UNCHANGED <<now, kind, revision, rows, sets, known, frame, held>>
      BY <1>6 DEF Recheck, TypeOK, database, redis
    <3>2. CASE known[r] = revision
      <4>1. pc'[r] = "serve" /\ UNCHANGED at
        BY <1>6, <3>2 DEF Recheck, Goto, TypeOK
      <4>2. now < held[r].deadline =>
                Snapshot(r)' /\ InPhase(held[r], held[r].deadline)'
        BY <3>1, <3>2 DEF ReaderInv, Undisturbed, Accurate, Snapshot, InPhase
      <4> QED
        BY <2>2, <3>1, <4>1, <4>2 DEF ReaderInv, Undisturbed
    <3>3. CASE known[r] # revision
      <4>1. pc'[r] = "boundary" /\ at'[r] = now
        BY <1>6, <3>3 DEF Recheck, Miss, Goto, TypeOK
      <4> QED
        BY <2>2, <3>1, <3>3, <4>1 DEF ReaderInv, Undisturbed, TypeOK, Time
    <3> QED
      BY <3>2, <3>3
  <2> QED
    BY <2>1, <2>2
<1>7. ASSUME NEW r \in Reader, Serve(r)
      PROVE  ReaderInv(q)'
  <2>1. CASE q # r
    <3>1. /\ UNCHANGED <<now, kind, revision, rows>> /\ (q \in sets' => q \in sets)
          /\ UNCHANGED <<pc[q], known[q], at[q], until[q], frame[q], held[q], truth[q]>>
      BY <1>7, <2>1 DEF Serve, Miss, Goto, TypeOK, database, redis, answer
    <3> QED
      BY <3>1, Others
  <2>2. CASE q = r
    <3>1. /\ pc[r] = "serve"
          /\ UNCHANGED <<now, kind, revision, rows, sets, known, frame, held, truth>>
      BY <1>7 DEF Serve, TypeOK, database, redis
    <3>2. CASE now < held[r].deadline
      <4>1. pc'[r] = "hit" /\ UNCHANGED at
        BY <1>7, <3>2 DEF Serve, Goto, TypeOK
      <4> QED
        BY <2>2, <3>1, <3>2, <4>1 DEF ReaderInv, Undisturbed, Snapshot
    <3>3. CASE ~(now < held[r].deadline)
      <4>1. pc'[r] = "boundary" /\ at'[r] = now
        BY <1>7, <3>3 DEF Serve, Miss, Goto, TypeOK
      <4> QED
        BY <2>2, <3>1, <4>1 DEF ReaderInv, Undisturbed, TypeOK, Time
    <3> QED
      BY <3>2, <3>3
  <2> QED
    BY <2>1, <2>2
<1>8. ASSUME NEW r \in Reader, ReadBoundary(r)
      PROVE  ReaderInv(q)'
  <2>1. CASE q # r
    <3>1. /\ UNCHANGED <<now, kind, revision, rows>> /\ (q \in sets' => q \in sets)
          /\ UNCHANGED <<pc[q], known[q], at[q], until[q], frame[q], held[q], truth[q]>>
      BY <1>8, <2>1 DEF ReadBoundary, Goto, TypeOK, database, redis, answer
    <3> QED
      BY <3>1, Others
  <2>2. CASE q = r
    <3>1. /\ pc[r] = "boundary" /\ pc'[r] \in {"rows", "count"}
          /\ pc'[r] = "count" => kind = "detail"
          /\ UNCHANGED <<now, kind, revision, rows, sets, known, at, frame>>
      BY <1>8 DEF ReadBoundary, Goto, TypeOK, database, redis
    <3>2. until'[r] =
            NextBoundary(IF kind = "list" THEN rows.due ELSE frame[r].due, at[r])
      BY <1>8 DEF ReadBoundary, TypeOK
    <3>3. kind \in {"list", "detail"}
      BY DEF TypeOK
    <3> QED
      BY <2>2, <3>1, <3>2, <3>3 DEF ReaderInv, Undisturbed, NextBoundary
  <2> QED
    BY <2>1, <2>2
<1>9. ASSUME NEW r \in Reader, ReadRows(r)
      PROVE  ReaderInv(q)'
  <2>1. CASE q # r
    <3>1. /\ UNCHANGED <<now, kind, revision, rows>> /\ (q \in sets' => q \in sets)
          /\ UNCHANGED <<pc[q], known[q], at[q], until[q], frame[q], held[q], truth[q]>>
      BY <1>9, <2>1 DEF ReadRows, Goto, TypeOK, database, redis, answer
    <3> QED
      BY <3>1, Others
  <2>2. CASE q = r
    <3>1. /\ pc[r] = "rows" /\ pc'[r] = "count"
          /\ UNCHANGED <<now, kind, revision, rows, sets, known, at, until>>
      BY <1>9 DEF ReadRows, Goto, TypeOK, database, redis
    <3>2. frame'[r].due = rows.due
      <4>1. frame[r] \in Frame
        BY DEF TypeOK
      <4> QED
        BY <1>9, <4>1 DEF ReadRows, Frame, TypeOK
    <3>3. kind \in {"list", "detail"}
      BY DEF TypeOK
    <3> QED
      BY <2>2, <3>1, <3>2, <3>3 DEF ReaderInv, Undisturbed, NextBoundary
  <2> QED
    BY <2>1, <2>2
<1>10. ASSUME NEW r \in Reader, ReadCount(r)
      PROVE  ReaderInv(q)'
  <2>1. CASE q # r
    <3>1. /\ UNCHANGED <<now, kind, revision, rows>> /\ (q \in sets' => q \in sets)
          /\ UNCHANGED <<pc[q], known[q], at[q], until[q], frame[q], held[q], truth[q]>>
      BY <1>10, <2>1 DEF ReadCount, Goto, TypeOK, database, redis, answer
    <3> QED
      BY <3>1, Others
  <2>2. CASE q = r
    <3>1. /\ pc[r] = "count" /\ pc'[r] = "render"
          /\ UNCHANGED <<now, kind, revision, rows, sets, known, at, until>>
      BY <1>10 DEF ReadCount, Goto, TypeOK, database, redis
    <3>2. frame'[r].count = rows.count /\ frame'[r].due = frame[r].due
      <4>1. frame[r] \in Frame
        BY DEF TypeOK
      <4> QED
        BY <1>10, <4>1 DEF ReadCount, Frame, TypeOK
    <3>3. kind \in {"list", "detail"}
      BY DEF TypeOK
    <3> QED
      BY <2>2, <3>1, <3>2, <3>3 DEF ReaderInv, Undisturbed, NextBoundary
  <2> QED
    BY <2>1, <2>2
<1>11. ASSUME NEW r \in Reader, Render(r)
      PROVE  ReaderInv(q)'
  <2>1. CASE q # r
    <3>1. /\ UNCHANGED <<now, kind, revision, rows>> /\ (q \in sets' => q \in sets)
          /\ UNCHANGED <<pc[q], known[q], at[q], until[q], frame[q], held[q], truth[q]>>
      BY <1>11, <2>1 DEF Render, Goto, TypeOK, database, redis, answer
    <3> QED
      BY <3>1, Others
  <2>2. CASE q = r
    <3>1. /\ pc[r] = "render" /\ pc'[r] = "store"
          /\ UNCHANGED <<now, kind, revision, rows, sets, known, at, until>>
      BY <1>11 DEF Render, Goto, TypeOK, database, redis
    <3>2. /\ frame'[r].due = frame[r].due /\ frame'[r].count = frame[r].count
          /\ frame'[r].open = ((IF kind = "list" THEN at[r] ELSE now) < frame[r].due)
      <4>1. frame[r] \in Frame
        BY DEF TypeOK
      <4> QED
        BY <1>11, <4>1 DEF Render, Frame, TypeOK
    <3>3. frame[r].due \in Nat /\ at[r] \in Nat /\ at[r] <= now /\ now \in Nat
      BY DEF TypeOK, Frame, Time, ReaderInv
    <3>4. known[r] = revision =>
            frame[r].due = rows.due /\ until[r] = NextBoundary(rows.due, at[r])
      BY <3>1 DEF ReaderInv, Undisturbed
    <3>5. known[r] = revision => InPhase(frame[r], until[r])'
      <4> SUFFICES ASSUME known[r] = revision, NEW t \in Time, now <= t, t < until[r]
                   PROVE  frame'[r].open = (t < frame[r].due)
        BY <3>1, <3>2 DEF InPhase
      <4>1. CASE frame[r].due >= at[r]
        BY <3>2, <3>3, <3>4, <4>1 DEF NextBoundary, Time
      <4>2. CASE frame[r].due < at[r]
        BY <3>2, <3>3, <4>2 DEF Time
      <4> QED
        BY <3>3, <4>1, <4>2
    <3> QED
      BY <2>2, <3>1, <3>2, <3>4, <3>5 DEF ReaderInv, Undisturbed, NextBoundary
  <2> QED
    BY <2>1, <2>2
<1>12. ASSUME NEW r \in Reader, Store(r)
      PROVE  ReaderInv(q)'
  <2>1. CASE q # r
    <3>1. /\ UNCHANGED <<now, kind, revision, rows>> /\ (q \in sets' => q \in sets)
          /\ UNCHANGED <<pc[q], known[q], at[q], until[q], frame[q], held[q], truth[q]>>
      BY <1>12, <2>1 DEF Store, Goto, TypeOK, database, redis, answer
    <3> QED
      BY <3>1, Others
  <2>2. CASE q = r
    <3> DEFINE deadline == Earlier(until[r], started[r] + Ttl)
    <3>1. /\ pc[r] = "store" /\ pc'[r] = "miss"
          /\ UNCHANGED <<now, kind, revision, rows, known, at, until>>
          /\ r \in sets' => known[r] # 0
      BY <1>12 DEF Store, Goto, TypeOK, database, ReaderInv
    <3>2. /\ frame'[r].due = frame[r].due /\ frame'[r].count = frame[r].count
          /\ frame'[r].open = frame[r].open /\ frame'[r].deadline = deadline
      <4>1. frame[r] \in Frame
        BY DEF TypeOK
      <4> QED
        BY <1>12, <4>1 DEF Store, Frame, TypeOK
    <3>3. until[r] \in Nat /\ deadline \in Nat /\ deadline <= until[r]
      <4>1. until[r] \in Nat /\ started[r] + Ttl \in Nat
        BY TtlAssumption DEF TypeOK, NoBoundary, Time
      <4> QED
        BY <4>1, EarlierBound
    <3>4. known[r] = revision => InPhase(frame[r], until[r])
      BY <3>1 DEF ReaderInv, Undisturbed
    <3>5. known[r] = revision => InPhase(frame[r], frame[r].deadline)'
      BY <3>1, <3>2, <3>3, <3>4 DEF InPhase, Time
    <3> HIDE DEF deadline
    <3> QED
      BY <2>2, <3>1, <3>2, <3>5 DEF ReaderInv, Undisturbed
  <2> QED
    BY <2>1, <2>2
<1>13. ASSUME NEW r \in Reader, ServeSet(r)
      PROVE  ReaderInv(q)'
  BY <1>13, Others DEF ServeSet, database, answer
<1>14. ASSUME NEW v \in Revision, Remove(v)
      PROVE  ReaderInv(q)'
  BY <1>14, Others DEF Remove, database, answer
<1>15. ASSUME NEW changed, Commit(changed)
      PROVE  ReaderInv(q)'
  <2>1. /\ revision' = revision + 1
        /\ UNCHANGED <<now, kind, sets, pc, known, at, held, truth>>
    BY <1>15 DEF Commit, redis, answer
  <2>2. known[q] \in Nat /\ revision \in Nat
    BY DEF TypeOK, Revision
  <2>3. known'[q] # revision'
    BY <2>1, <2>2 DEF ReaderInv
  <2> QED
    BY <2>1, <2>2, <2>3 DEF ReaderInv, Snapshot, InPhase
<1>16. CASE Tick
  <2>1. /\ now' = now + 1 /\ now \in Nat /\ at[q] \in Nat
        /\ UNCHANGED <<kind, revision, rows, sets, pc, known, at, until, frame, held, truth>>
    BY <1>16 DEF Tick, TypeOK, Time, database, redis, answer
  <2>3. /\ until[q] \in Nat /\ frame[q] \in Frame /\ held[q] \in Frame
        /\ frame[q].deadline \in Nat /\ held[q].deadline \in Nat
    BY DEF TypeOK, Frame, NoBoundary
  <2>4. InPhase(frame[q], until[q]) => InPhase(frame[q], until[q])'
    BY <2>1, <2>3 DEF InPhase, Time
  <2>5. InPhase(frame[q], frame[q].deadline) => InPhase(frame[q], frame[q].deadline)'
    BY <2>1, <2>3 DEF InPhase, Time
  <2>6. InPhase(held[q], held[q].deadline) => InPhase(held[q], held[q].deadline)'
    BY <2>1, <2>3 DEF InPhase, Time
  <2>7. Undisturbed(q) => Undisturbed(q)'
    BY <2>1, <2>3, <2>4, <2>5, <2>6 DEF Undisturbed, Accurate, NextBoundary
  <2> QED
    BY <2>1, <2>3, <2>6, <2>7 DEF ReaderInv, Snapshot
<1>17. CASE UNCHANGED vars
  BY <1>17, Others DEF vars, database, redis, answer
<1> QED
  BY <1>1, <1>2, <1>3, <1>4, <1>5, <1>6, <1>7, <1>8, <1>9, <1>10, <1>11, <1>12,
     <1>13, <1>14, <1>15, <1>16, <1>17
     DEF Next, LookUp, Build, EditAssignment, AddSubmission

\* A frame reaches the revision it was read under and no later one.
LEMMA EntryStep ==
  ASSUME TypeOK, TypeOK', \A r \in Reader : ReaderInv(r), FutureEmpty,
         CurrentEntryAccurate, [Next]_vars
  PROVE  FutureEmpty' /\ CurrentEntryAccurate'
<1> USE BoundAssumption
<1>1. ASSUME NEW r \in Reader, ServeSet(r)
      PROVE  FutureEmpty' /\ CurrentEntryAccurate'
  <2>1. /\ UNCHANGED <<now, kind, revision, rows, frame>>
        /\ entry' = [entry EXCEPT ![known[r]] = frame[r]]
        /\ pc[r] = "miss" /\ known[r] <= revision /\ known[r] # 0
    BY <1>1 DEF ServeSet, ReaderInv, database, answer
  <2>2. known[r] \in Revision /\ revision \in Revision
    BY <2>1 DEF TypeOK, Revision
  <2>3. FutureEmpty'
    BY <2>1, <2>2 DEF FutureEmpty, TypeOK, Revision
  <2>4. CASE known[r] = revision
    <3>1. Accurate(frame[r])
      BY <2>1, <2>4 DEF ReaderInv, Undisturbed, Accurate
    <3>2. entry'[revision] = frame[r]
      BY <2>1, <2>2, <2>4 DEF TypeOK
    <3> QED
      BY <2>1, <2>3, <3>1, <3>2 DEF CurrentEntryAccurate, Accurate, InPhase
  <2>5. CASE known[r] # revision
    <3>1. entry'[revision] = entry[revision]
      BY <2>1, <2>2, <2>5 DEF TypeOK
    <3> QED
      BY <2>1, <2>3, <3>1 DEF CurrentEntryAccurate, Accurate, InPhase
  <2> QED
    BY <2>4, <2>5
<1>2. ASSUME NEW v \in Revision, Remove(v)
      PROVE  FutureEmpty' /\ CurrentEntryAccurate'
  <2>1. /\ UNCHANGED <<now, kind, revision, rows>> /\ revision \in Revision /\ now \in Nat
        /\ \A w \in Revision : entry'[w] = entry[w] \/ entry'[w] = NoFrame
    BY <1>2 DEF Remove, TypeOK, Time, database
  <2>2. FutureEmpty'
    BY <2>1 DEF FutureEmpty, NoFrame
  <2>3. CASE entry'[revision] = entry[revision]
    BY <2>1, <2>2, <2>3 DEF CurrentEntryAccurate, Accurate, InPhase
  <2>4. CASE entry'[revision] = NoFrame
    BY <2>1, <2>2, <2>4 DEF CurrentEntryAccurate, NoFrame
  <2> QED
    BY <2>1, <2>3, <2>4
<1>3. ASSUME NEW changed, Commit(changed)
      PROVE  FutureEmpty' /\ CurrentEntryAccurate'
  <2>1. /\ revision' = revision + 1 /\ UNCHANGED <<now, kind, entry>>
        /\ revision \in Nat /\ revision' \in Revision /\ now \in Nat
    BY <1>3 DEF Commit, TypeOK, Revision, Time, redis
  <2>2. entry'[revision'].deadline = 0
    BY <2>1 DEF FutureEmpty
  <2> QED
    BY <2>1, <2>2 DEF FutureEmpty, CurrentEntryAccurate, Revision
<1>4. CASE Tick
  <2>1. /\ now' = now + 1 /\ now \in Nat /\ revision \in Revision
        /\ UNCHANGED <<revision, rows, entry>>
    BY <1>4 DEF Tick, TypeOK, Time, database, redis
  <2>2. entry[revision].deadline \in Nat
    BY <2>1 DEF TypeOK, Frame
  <2> QED
    BY <2>1, <2>2 DEF FutureEmpty, CurrentEntryAccurate, Accurate, InPhase, Time
<1>5. ASSUME UNCHANGED <<now, kind, revision, rows, entry>>
      PROVE  FutureEmpty' /\ CurrentEntryAccurate'
  BY <1>5 DEF FutureEmpty, CurrentEntryAccurate, Accurate, InPhase
<1>6. ASSUME NEW r \in Reader, LookUp(r) \/ Build(r)
      PROVE  UNCHANGED <<now, kind, revision, rows, entry>>
  BY <1>6
     DEF LookUp, Build, Begin, ReadRevision, Authorise, GetHit, GetMiss, Recheck,
         Serve, ReadBoundary, ReadRows, ReadCount, Render, Store, database, redis
<1>7. CASE UNCHANGED vars
  BY <1>5, <1>7 DEF vars, database, redis
<1> QED
  BY <1>1, <1>2, <1>3, <1>4, <1>5, <1>6, <1>7
     DEF Next, EditAssignment, AddSubmission

\* The invariant behind the theorems.
THEOREM Invariance == Spec => []IInv
<1>1. IInv /\ [Next]_vars => IInv'
  <2> SUFFICES ASSUME IInv, [Next]_vars
               PROVE  IInv'
    OBVIOUS
  <2>1. \A r \in Reader : r \in sets => known[r] # 0
    BY DEF IInv, ReaderInv
  <2>2. TypeOK'
    BY <2>1, TypeStep DEF IInv
  <2>3. \A q \in Reader : ReaderInv(q)'
    BY <2>2, ReaderStep DEF IInv
  <2>4. FutureEmpty' /\ CurrentEntryAccurate'
    BY <2>2, EntryStep DEF IInv
  <2> QED
    BY <2>2, <2>3, <2>4 DEF IInv
<1> QED
  BY InitInv, <1>1, PTL DEF Spec

-----------------------------------------------------------------------------
(* The theorems.                                                           *)

\* The state of the requests and of Redis keeps its type.
THEOREM TypeCorrect == Spec => []TypeOK
  BY Invariance, PTL DEF IInv

\* A frame that may be served under the committed revision is what the database
\* says, and its phase stays right until its deadline (cache.rs:237).
THEOREM StoredAccurate == Spec => []CurrentEntryAccurate
  BY Invariance, PTL DEF IInv

\* A body served from Redis is one committed state, current during the request.
THEOREM HitsAreSnapshots == Spec => []HitIsSnapshot
<1>1. IInv => HitIsSnapshot
  BY DEF IInv, ReaderInv, Snapshot, HitIsSnapshot
<1> QED
  BY Invariance, <1>1, PTL

\* A body served from Redis has the assignment open exactly if it is.
THEOREM HitsAreInPhase == Spec => HitInPhase
<1>1. IInv /\ [Next]_vars =>
        [\A r \in Reader :
            pc[r] = "serve" /\ pc'[r] = "hit" => held[r].open = (now < held[r].due)]_vars
  <2> SUFFICES ASSUME IInv, [Next]_vars, NEW r \in Reader,
                      pc[r] = "serve", pc'[r] = "hit"
               PROVE  held[r].open = (now < held[r].due)
    OBVIOUS
  <2>1. now < held[r].deadline
    <3>1. ASSUME NEW q \in Reader, LookUp(q)
          PROVE  now < held[r].deadline
      BY <3>1
         DEF LookUp, Begin, ReadRevision, Authorise, GetHit, GetMiss, Recheck,
             Serve, Miss, Goto, IInv, TypeOK
    <3>2. ASSUME NEW q \in Reader, Build(q)
          PROVE  FALSE
      BY <3>2
         DEF Build, ReadBoundary, ReadRows, ReadCount, Render, Store, Goto,
             IInv, TypeOK
    <3>3. pc' # pc
      OBVIOUS
    <3> QED
      BY <3>1, <3>2, <3>3
         DEF Next, ServeSet, Remove, EditAssignment, AddSubmission, Commit, Tick, vars
  <2>2. InPhase(held[r], held[r].deadline)
    BY <2>1 DEF IInv, ReaderInv
  <2>3. now \in Time /\ now <= now
    BY BoundAssumption DEF IInv, TypeOK, Time
  <2> QED
    BY <2>1, <2>2, <2>3 DEF InPhase
<1> QED
  BY Invariance, <1>1, PTL DEF Spec, HitInPhase

=============================================================================
