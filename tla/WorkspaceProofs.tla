---------------------------- MODULE WorkspaceProofs ----------------------------
(***************************************************************************)
(* Theorems about Workspace, for any users and pages and any number of     *)
(* polls and submissions.                                                  *)
(*                                                                         *)
(* None of the invariants is inductive by itself.  What a page shows is    *)
(* overwritten by answers, so the invariant says of every request under    *)
(* way what its answer may find: of which mounted page it is (Places,      *)
(* Single), which submission or trial it asks for (Numbers, Trials) and    *)
(* that there is only one of its kind (Waits).                             *)
(***************************************************************************)
EXTENDS Workspace, TLAPS

\* What can be mounted where.
Places ==
  /\ path = Away => me = Nobody /\ data = "none" /\ net = {}
  /\ me = Nobody => data \in {"none", "failed"}
  /\ data \in {"open", "closed"} => served # Nobody
  /\ data \in {"open", "closed"} /\ path \in CoursePage =>
       served = me \/ <<me, path>> \in mixed
  /\ data # "open" => /\ work.sid = 0 /\ work.result = 0 /\ ~work.busy
                      /\ trial = NoTrial

\* A page waits for its identity or for its data, not for both.
Single ==
  /\ \A q, r \in net : q.kind \in {"me", "data"} /\ r.kind \in {"me", "data"} => q = r
  /\ \A q \in net : q.kind = "me" => me = Nobody
  /\ \A q \in net : q.kind = "data" => me # Nobody
  /\ \A q \in net : q.kind \in {"me", "data"} => data = "none"

Header == me # Nobody => heard /\ shell = me

WorkKinds == {"submit", "poll"}
TrialKinds == {"run", "trial"}

\* OneWait, taken apart.
Waits ==
  /\ \A q \in net : q.kind \in WorkKinds => work.busy
  /\ work.busy => \E q \in net : q.kind \in WorkKinds
  /\ \A q, r \in net : q.kind \in WorkKinds /\ r.kind \in WorkKinds => q = r
  /\ \A q \in net : q.kind \in TrialKinds => trial.busy
  /\ trial.busy => \E q \in net : q.kind \in TrialKinds
  /\ \A q, r \in net : q.kind \in TrialKinds /\ r.kind \in TrialKinds => q = r

\* The submissions of this page and the answers it waits for.
Numbers ==
  /\ work.sid <= Len(ledger) /\ work.result <= work.sid
  /\ \A q \in net : q.kind = "submit" =>
       /\ q.sid > work.sid /\ q.sid <= Len(ledger)
       /\ ledger[q.sid] = [by |-> me, page |-> path]
       /\ path \in CoursePage \/ work.result = 0
  /\ \A q \in net : q.kind = "poll" => q.sid = work.sid

\* All that is known of a trial is of the text it was started with.
Trials ==
  /\ {trial.run, trial.result} \subseteq {NoText, trial.source}
  /\ \A q \in net : q.kind \in TrialKinds => q.text = trial.source

IInv == TypeOK /\ Places /\ Single /\ Header /\ Waits /\ Numbers /\ Trials
          /\ DraftsApart /\ VerdictOwn

-------------------------------------------------------------------------------
\* What the requests carry.
LEMMA Fields ==
  ASSUME NEW q \in Request
  PROVE  /\ q.kind \in {"me", "shell", "data", "submit", "poll", "run", "trial"}
         /\ q.kind \in {"me", "shell", "data"} => q.as \in User \cup {Nobody}
         /\ q.kind \in WorkKinds => q.sid \in 1..MaxSubmissions
         /\ q.kind = "poll" => q.n \in 0..MaxPolls
         /\ q.kind \in TrialKinds => q.text \in Text
         /\ q.kind = "trial" => q.n \in 0..MaxPolls
  BY DEF Request, WorkKinds, TrialKinds

\* The requests that are sent are of their type.
LEMMA Made ==
  /\ \A u \in User \cup {Nobody} :
       /\ [kind |-> "me", as |-> u] \in Request
       /\ [kind |-> "shell", as |-> u] \in Request
       /\ [kind |-> "data", as |-> u] \in Request
  /\ \A s \in 1..MaxSubmissions :
       /\ [kind |-> "submit", sid |-> s] \in Request
       /\ \A n \in 0..MaxPolls : [kind |-> "poll", sid |-> s, n |-> n] \in Request
  /\ \A t \in Text :
       /\ [kind |-> "run", text |-> t] \in Request
       /\ \A n \in 0..MaxPolls : [kind |-> "trial", text |-> t, n |-> n] \in Request
  BY DEF Request

LEMMA OpenStep ==
  ASSUME IInv, NEW p \in Page, Open(p)
  PROVE  IInv'
<1> USE DEF IInv
<1>b. work' \in WorkState /\ trial' \in TrialState
  BY Made, ConstantsAssumption, NoTextAssumption DEF Open, Mounted, NoTrial,
     Without, OfPage, TypeOK, WorkState, TrialState
<1>s. net' \subseteq Request
  BY Made DEF Open, Mounted, NoTrial, Without, OfPage, TypeOK
<1>1. TypeOK'
  BY <1>b, <1>s, ConstantsAssumption
   DEF Open, Mounted, NoTrial, Without, OfPage, TypeOK
<1>2. Places'
  BY <1>b, Made, ConstantsAssumption, NoTextAssumption
   DEF Open, Mounted, NoTrial, Without, OfPage, TypeOK, Places, Single, Waits
<1>3. Single'
  BY <1>b, Made, ConstantsAssumption, NoTextAssumption
   DEF Open, Mounted, NoTrial, Without, OfPage, TypeOK, Places, Single
<1>4. Header'
  BY <1>b, Made, ConstantsAssumption, NoTextAssumption
   DEF Open, Mounted, NoTrial, Without, OfPage, TypeOK, Header, Single, Places
<1>5. Waits'
  BY <1>b, Made, ConstantsAssumption, NoTextAssumption
   DEF Open, Mounted, NoTrial, Without, OfPage, TypeOK, Places, Single, Waits,
      WorkKinds, TrialKinds
<1>6. Numbers'
  BY <1>b, Made, ConstantsAssumption, NoTextAssumption
   DEF Open, Mounted, NoTrial, Without, OfPage, TypeOK, Places, Numbers, Waits,
      Single, WorkKinds, TrialKinds
<1>7. Trials'
  BY <1>b, Made, ConstantsAssumption, NoTextAssumption
   DEF Open, Mounted, NoTrial, Without, OfPage, TypeOK, Places, Trials, WorkKinds,
      TrialKinds, Waits
<1>8. DraftsApart'
  BY <1>b, Made, ConstantsAssumption, NoTextAssumption
   DEF Open, Mounted, NoTrial, Without, OfPage, TypeOK, Places, DraftsApart,
      MayHold, Single
<1>9. VerdictOwn'
  BY <1>b, Made, ConstantsAssumption, NoTextAssumption
   DEF Open, Mounted, NoTrial, Without, OfPage, TypeOK, Places, VerdictOwn,
      Numbers, Waits, WorkKinds
<1> QED
  BY <1>1, <1>2, <1>3, <1>4, <1>5, <1>6, <1>7, <1>8, <1>9

LEMMA LeaveStep ==
  ASSUME IInv, Leave
  PROVE  IInv'
<1> USE DEF IInv
<1>b. work' \in WorkState /\ trial' \in TrialState
  BY Made, ConstantsAssumption, NoTextAssumption DEF Leave, Mounted, NoTrial,
     TypeOK, WorkState, TrialState
<1>s. net' \subseteq Request
  BY Made DEF Leave, Mounted, NoTrial, TypeOK
<1>1. TypeOK'
  BY <1>b, <1>s, ConstantsAssumption
   DEF Leave, Mounted, NoTrial, TypeOK
<1>2. Places'
  BY <1>b, Made, ConstantsAssumption, NoTextAssumption
   DEF Leave, Mounted, NoTrial, TypeOK, Places, Single, Waits
<1>3. Single'
  BY <1>b, Made, ConstantsAssumption, NoTextAssumption
   DEF Leave, Mounted, NoTrial, TypeOK, Places, Single
<1>4. Header'
  BY <1>b, Made, ConstantsAssumption, NoTextAssumption
   DEF Leave, Mounted, NoTrial, TypeOK, Header, Single, Places
<1>5. Waits'
  BY <1>b, Made, ConstantsAssumption, NoTextAssumption
   DEF Leave, Mounted, NoTrial, TypeOK, Places, Single, Waits, WorkKinds, TrialKinds
<1>6. Numbers'
  BY <1>b, Made, ConstantsAssumption, NoTextAssumption
   DEF Leave, Mounted, NoTrial, TypeOK, Places, Numbers, Waits, Single, WorkKinds,
      TrialKinds
<1>7. Trials'
  BY <1>b, Made, ConstantsAssumption, NoTextAssumption
   DEF Leave, Mounted, NoTrial, TypeOK, Places, Trials, WorkKinds, TrialKinds, Waits
<1>8. DraftsApart'
  BY <1>b, Made, ConstantsAssumption, NoTextAssumption
   DEF Leave, Mounted, NoTrial, TypeOK, Places, DraftsApart, MayHold, Single
<1>9. VerdictOwn'
  BY <1>b, Made, ConstantsAssumption, NoTextAssumption
   DEF Leave, Mounted, NoTrial, TypeOK, Places, VerdictOwn, Numbers, Waits, WorkKinds
<1> QED
  BY <1>1, <1>2, <1>3, <1>4, <1>5, <1>6, <1>7, <1>8, <1>9

LEMMA LandStep ==
  ASSUME IInv, NEW u \in User, NEW p \in Page, Land(u, p)
  PROVE  IInv'
<1> USE DEF IInv
<1>1. TypeOK'
  BY Made, ConstantsAssumption, NoTextAssumption
   DEF Land, identity, TypeOK, WorkState, TrialState
<1>2. Places'
  BY Made, ConstantsAssumption, NoTextAssumption
   DEF Land, identity, TypeOK, Places, Single, Waits
<1>3. Single'
  BY Made, ConstantsAssumption, NoTextAssumption
   DEF Land, identity, TypeOK, Places, Single
<1>4. Header'
  BY Made, ConstantsAssumption, NoTextAssumption
   DEF Land, identity, TypeOK, Header, Single, Places
<1>5. Waits'
  BY Made, ConstantsAssumption, NoTextAssumption
   DEF Land, identity, TypeOK, Places, Single, Waits, WorkKinds, TrialKinds, NoTrial
<1>6. Numbers'
  BY Made, ConstantsAssumption, NoTextAssumption
   DEF Land, identity, TypeOK, Places, Numbers, Waits, Single, WorkKinds, TrialKinds
<1>7. Trials'
  BY Made, ConstantsAssumption, NoTextAssumption
   DEF Land, identity, TypeOK, Places, Trials, NoTrial, WorkKinds, TrialKinds, Waits
<1>8. DraftsApart'
  BY Made, ConstantsAssumption, NoTextAssumption
   DEF Land, identity, TypeOK, Places, DraftsApart, MayHold, Single
<1>9. VerdictOwn'
  BY Made, ConstantsAssumption, NoTextAssumption
   DEF Land, identity, TypeOK, Places, VerdictOwn, Numbers, Waits, WorkKinds
<1> QED
  BY <1>1, <1>2, <1>3, <1>4, <1>5, <1>6, <1>7, <1>8, <1>9

LEMMA ElsewhereStep ==
  ASSUME IInv, NEW u \in User \cup {Nobody}, Elsewhere(u)
  PROVE  IInv'
<1> USE DEF IInv
<1>1. TypeOK'
  BY Made, ConstantsAssumption, NoTextAssumption
   DEF Elsewhere, identity, TypeOK, WorkState, TrialState
<1>2. Places'
  BY Made, ConstantsAssumption, NoTextAssumption
   DEF Elsewhere, identity, TypeOK, Places, Single, Waits
<1>3. Single'
  BY Made, ConstantsAssumption, NoTextAssumption
   DEF Elsewhere, identity, TypeOK, Places, Single
<1>4. Header'
  BY Made, ConstantsAssumption, NoTextAssumption
   DEF Elsewhere, identity, TypeOK, Header, Single, Places
<1>5. Waits'
  BY Made, ConstantsAssumption, NoTextAssumption
   DEF Elsewhere, identity, TypeOK, Places, Single, Waits, WorkKinds, TrialKinds,
      NoTrial
<1>6. Numbers'
  BY Made, ConstantsAssumption, NoTextAssumption
   DEF Elsewhere, identity, TypeOK, Places, Numbers, Waits, Single, WorkKinds,
      TrialKinds
<1>7. Trials'
  BY Made, ConstantsAssumption, NoTextAssumption
   DEF Elsewhere, identity, TypeOK, Places, Trials, NoTrial, WorkKinds, TrialKinds,
      Waits
<1>8. DraftsApart'
  BY Made, ConstantsAssumption, NoTextAssumption
   DEF Elsewhere, identity, TypeOK, Places, DraftsApart, MayHold, Single
<1>9. VerdictOwn'
  BY Made, ConstantsAssumption, NoTextAssumption
   DEF Elsewhere, identity, TypeOK, Places, VerdictOwn, Numbers, Waits, WorkKinds
<1> QED
  BY <1>1, <1>2, <1>3, <1>4, <1>5, <1>6, <1>7, <1>8, <1>9

LEMMA ReloadStep ==
  ASSUME IInv, Reload
  PROVE  IInv'
<1> USE DEF IInv
<1>b. work' \in WorkState /\ trial' \in TrialState
  BY Made, ConstantsAssumption, NoTextAssumption DEF Reload, Mounted, Without,
     OfPage, TypeOK, WorkState, TrialState
<1>s. net' \subseteq Request
  BY Made DEF Reload, Mounted, Without, OfPage, TypeOK
<1>1. TypeOK'
  BY <1>b, <1>s, ConstantsAssumption
   DEF Reload, Mounted, Without, OfPage, TypeOK
<1>2. Places'
  BY <1>b, Made, ConstantsAssumption, NoTextAssumption
   DEF Reload, Mounted, Without, OfPage, TypeOK, Places, Single, Waits
<1>3. Single'
  BY <1>b, Made, ConstantsAssumption, NoTextAssumption
   DEF Reload, Mounted, Without, OfPage, TypeOK, Places, Single
<1>4. Header'
  BY <1>b, Made, ConstantsAssumption, NoTextAssumption
   DEF Reload, Mounted, Without, OfPage, TypeOK, Header, Single, Places
<1>5. Waits'
  BY <1>b, Made, ConstantsAssumption, NoTextAssumption
   DEF Reload, Mounted, Without, OfPage, TypeOK, Places, Single, Waits, WorkKinds,
      TrialKinds, NoTrial
<1>6. Numbers'
  BY <1>b, Made, ConstantsAssumption, NoTextAssumption
   DEF Reload, Mounted, Without, OfPage, TypeOK, Places, Numbers, Waits, Single,
      WorkKinds, TrialKinds
<1>7. Trials'
  BY <1>b, Made, ConstantsAssumption, NoTextAssumption
   DEF Reload, Mounted, Without, OfPage, TypeOK, Places, Trials, NoTrial,
      WorkKinds, TrialKinds, Waits
<1>8. DraftsApart'
  BY <1>b, Made, ConstantsAssumption, NoTextAssumption
   DEF Reload, Mounted, Without, OfPage, TypeOK, Places, DraftsApart, MayHold, Single
<1>9. VerdictOwn'
  BY <1>b, Made, ConstantsAssumption, NoTextAssumption
   DEF Reload, Mounted, Without, OfPage, TypeOK, Places, VerdictOwn, Numbers,
      Waits, WorkKinds
<1> QED
  BY <1>1, <1>2, <1>3, <1>4, <1>5, <1>6, <1>7, <1>8, <1>9

LEMMA MeKnownStep ==
  ASSUME IInv, NEW q \in net, q.kind = "me", MeKnown(q)
  PROVE  IInv'
<1> USE DEF IInv
<1> q \in Request
  BY DEF TypeOK
<1> USE Fields
<1>x. q.as \in User /\ path \in Page /\ drafts[<<q.as, path>>] \in Text \cup {NoText}
  BY ConstantsAssumption, NoTextAssumption DEF TypeOK, Places, MeKnown
<1>b. work' \in WorkState /\ trial' \in TrialState
  BY <1>x, Made, ConstantsAssumption, NoTextAssumption DEF MeKnown, Broadcast,
     Mounted, DraftKey, TypeOK, WorkState, TrialState, Places, Page
<1>s. net' \subseteq Request
  BY Made DEF MeKnown, Broadcast, Mounted, DraftKey, TypeOK
<1>1. TypeOK'
  BY <1>x, <1>b, <1>s, ConstantsAssumption
   DEF MeKnown, Broadcast, Mounted, DraftKey, TypeOK
<1>2. Places'
  BY <1>x, <1>b, Made, ConstantsAssumption, NoTextAssumption
   DEF MeKnown, Broadcast, Mounted, DraftKey, TypeOK, Places, Single, Waits
<1>3. Single'
  BY <1>x, <1>b, Made, ConstantsAssumption, NoTextAssumption
   DEF MeKnown, Broadcast, Mounted, DraftKey, TypeOK, Places, Single
<1>4. Header'
  BY <1>x, <1>b, Made, ConstantsAssumption, NoTextAssumption
   DEF MeKnown, Broadcast, Mounted, DraftKey, TypeOK, Header, Single, Places
<1>5. Waits'
  BY <1>x, <1>b, Made, ConstantsAssumption, NoTextAssumption
   DEF MeKnown, Broadcast, Mounted, DraftKey, TypeOK, Places, Single, Waits,
      WorkKinds, TrialKinds, NoTrial
<1>6. Numbers'
  BY <1>x, <1>b, Made, ConstantsAssumption, NoTextAssumption
   DEF MeKnown, Broadcast, Mounted, DraftKey, TypeOK, Places, Numbers, Waits,
      Single, WorkKinds, TrialKinds
<1>7. Trials'
  BY <1>x, <1>b, Made, ConstantsAssumption, NoTextAssumption
   DEF MeKnown, Broadcast, Mounted, DraftKey, TypeOK, Places, Trials, NoTrial,
      WorkKinds, TrialKinds, Waits
<1>8. DraftsApart'
  BY <1>x, <1>b, Made, ConstantsAssumption, NoTextAssumption
   DEF MeKnown, Broadcast, Mounted, DraftKey, TypeOK, Places, DraftsApart, MayHold,
      Single
<1>9. VerdictOwn'
  BY <1>x, <1>b, Made, ConstantsAssumption, NoTextAssumption
   DEF MeKnown, Broadcast, Mounted, DraftKey, TypeOK, Places, VerdictOwn, Numbers,
      Waits, WorkKinds
<1> QED
  BY <1>1, <1>2, <1>3, <1>4, <1>5, <1>6, <1>7, <1>8, <1>9

LEMMA MeFailsStep ==
  ASSUME IInv, NEW q \in net, q.kind = "me", MeFails(q)
  PROVE  IInv'
<1> USE DEF IInv
<1> q \in Request
  BY DEF TypeOK
<1> USE Fields
<1>1. TypeOK'
  BY Made, ConstantsAssumption, NoTextAssumption
   DEF MeFails, Broadcast, TypeOK, WorkState, TrialState
<1>2. Places'
  BY Made, ConstantsAssumption, NoTextAssumption
   DEF MeFails, Broadcast, TypeOK, Places, Single, Waits
<1>3. Single'
  BY Made, ConstantsAssumption, NoTextAssumption
   DEF MeFails, Broadcast, TypeOK, Places, Single
<1>4. Header'
  BY Made, ConstantsAssumption, NoTextAssumption
   DEF MeFails, Broadcast, TypeOK, Header, Single, Places
<1>5. Waits'
  BY Made, ConstantsAssumption, NoTextAssumption
   DEF MeFails, Broadcast, TypeOK, Places, Single, Waits, WorkKinds, TrialKinds, NoTrial
<1>6. Numbers'
  BY Made, ConstantsAssumption, NoTextAssumption
   DEF MeFails, Broadcast, TypeOK, Places, Numbers, Waits, Single, WorkKinds, TrialKinds
<1>7. Trials'
  BY Made, ConstantsAssumption, NoTextAssumption
   DEF MeFails, Broadcast, TypeOK, Places, Trials, NoTrial, WorkKinds, TrialKinds, Waits
<1>8. DraftsApart'
  BY Made, ConstantsAssumption, NoTextAssumption
   DEF MeFails, Broadcast, TypeOK, Places, DraftsApart, MayHold, Single
<1>9. VerdictOwn'
  BY Made, ConstantsAssumption, NoTextAssumption
   DEF MeFails, Broadcast, TypeOK, Places, VerdictOwn, Numbers, Waits, WorkKinds
<1> QED
  BY <1>1, <1>2, <1>3, <1>4, <1>5, <1>6, <1>7, <1>8, <1>9

LEMMA ShellToldStep ==
  ASSUME IInv, NEW q \in net, q.kind = "shell", NEW u \in {q.as, Nobody}, ShellTold(q, u)
  PROVE  IInv'
<1> USE DEF IInv
<1> q \in Request
  BY DEF TypeOK
<1> USE Fields
<1>1. TypeOK'
  BY Made, ConstantsAssumption, NoTextAssumption
   DEF ShellTold, TypeOK, WorkState, TrialState
<1>2. Places'
  BY Made, ConstantsAssumption, NoTextAssumption
   DEF ShellTold, TypeOK, Places, Single, Waits
<1>3. Single'
  BY Made, ConstantsAssumption, NoTextAssumption
   DEF ShellTold, TypeOK, Places, Single
<1>4. Header'
  BY Made, ConstantsAssumption, NoTextAssumption
   DEF ShellTold, TypeOK, Header, Single, Places
<1>5. Waits'
  BY Made, ConstantsAssumption, NoTextAssumption
   DEF ShellTold, TypeOK, Places, Single, Waits, WorkKinds, TrialKinds, NoTrial
<1>6. Numbers'
  BY Made, ConstantsAssumption, NoTextAssumption
   DEF ShellTold, TypeOK, Places, Numbers, Waits, Single, WorkKinds, TrialKinds
<1>7. Trials'
  BY Made, ConstantsAssumption, NoTextAssumption
   DEF ShellTold, TypeOK, Places, Trials, NoTrial, WorkKinds, TrialKinds, Waits
<1>8. DraftsApart'
  BY Made, ConstantsAssumption, NoTextAssumption
   DEF ShellTold, TypeOK, Places, DraftsApart, MayHold, Single
<1>9. VerdictOwn'
  BY Made, ConstantsAssumption, NoTextAssumption
   DEF ShellTold, TypeOK, Places, VerdictOwn, Numbers, Waits, WorkKinds
<1> QED
  BY <1>1, <1>2, <1>3, <1>4, <1>5, <1>6, <1>7, <1>8, <1>9

LEMMA DataComesStep ==
  ASSUME IInv, NEW q \in net, q.kind = "data", DataComes(q)
  PROVE  IInv'
<1> USE DEF IInv
<1> q \in Request
  BY DEF TypeOK
<1> USE Fields
<1>x. me \in User /\ path \in Page /\ q.as \in User /\ drafts[<<me, path>>] \in Text \cup {NoText}
  BY ConstantsAssumption, NoTextAssumption DEF TypeOK, Single, Places, DataComes
<1>b. work' \in WorkState /\ trial' \in TrialState
  BY <1>x, Made, ConstantsAssumption, NoTextAssumption DEF DataComes, Mounted,
     DraftKey, TypeOK, WorkState, TrialState, Places, Page
<1>s. net' \subseteq Request
  BY Made DEF DataComes, Mounted, DraftKey, TypeOK
<1>1. TypeOK'
  BY <1>x, <1>b, <1>s, ConstantsAssumption
   DEF DataComes, Mounted, DraftKey, TypeOK
<1>2. Places'
  BY <1>x, <1>b, Made, ConstantsAssumption, NoTextAssumption
   DEF DataComes, Mounted, DraftKey, TypeOK, Places, Single, Waits
<1>3. Single'
  BY <1>x, <1>b, Made, ConstantsAssumption, NoTextAssumption
   DEF DataComes, Mounted, DraftKey, TypeOK, Places, Single
<1>4. Header'
  BY <1>x, <1>b, Made, ConstantsAssumption, NoTextAssumption
   DEF DataComes, Mounted, DraftKey, TypeOK, Header, Single, Places
<1>5. Waits'
  BY <1>x, <1>b, Made, ConstantsAssumption, NoTextAssumption
   DEF DataComes, Mounted, DraftKey, TypeOK, Places, Single, Waits, WorkKinds,
      TrialKinds, NoTrial
<1>6. Numbers'
  BY <1>x, <1>b, Made, ConstantsAssumption, NoTextAssumption
   DEF DataComes, Mounted, DraftKey, TypeOK, Places, Numbers, Waits, Single,
      WorkKinds, TrialKinds
<1>7. Trials'
  BY <1>x, <1>b, Made, ConstantsAssumption, NoTextAssumption
   DEF DataComes, Mounted, DraftKey, TypeOK, Places, Trials, NoTrial, WorkKinds,
      TrialKinds, Waits
<1>8. DraftsApart'
  BY <1>x, <1>b, Made, ConstantsAssumption, NoTextAssumption
   DEF DataComes, Mounted, DraftKey, TypeOK, Places, DraftsApart, MayHold, Single
<1>9. VerdictOwn'
  BY <1>x, <1>b, Made, ConstantsAssumption, NoTextAssumption
   DEF DataComes, Mounted, DraftKey, TypeOK, Places, VerdictOwn, Numbers, Waits,
      WorkKinds
<1> QED
  BY <1>1, <1>2, <1>3, <1>4, <1>5, <1>6, <1>7, <1>8, <1>9

LEMMA DataFailsStep ==
  ASSUME IInv, NEW q \in net, q.kind = "data", DataFails(q)
  PROVE  IInv'
<1> USE DEF IInv
<1> q \in Request
  BY DEF TypeOK
<1> USE Fields
<1>1. TypeOK'
  BY Made, ConstantsAssumption, NoTextAssumption
   DEF DataFails, TypeOK, WorkState, TrialState
<1>2. Places'
  BY Made, ConstantsAssumption, NoTextAssumption
   DEF DataFails, TypeOK, Places, Single, Waits
<1>3. Single'
  BY Made, ConstantsAssumption, NoTextAssumption
   DEF DataFails, TypeOK, Places, Single
<1>4. Header'
  BY Made, ConstantsAssumption, NoTextAssumption
   DEF DataFails, TypeOK, Header, Single, Places
<1>5. Waits'
  BY Made, ConstantsAssumption, NoTextAssumption
   DEF DataFails, TypeOK, Places, Single, Waits, WorkKinds, TrialKinds, NoTrial
<1>6. Numbers'
  BY Made, ConstantsAssumption, NoTextAssumption
   DEF DataFails, TypeOK, Places, Numbers, Waits, Single, WorkKinds, TrialKinds
<1>7. Trials'
  BY Made, ConstantsAssumption, NoTextAssumption
   DEF DataFails, TypeOK, Places, Trials, NoTrial, WorkKinds, TrialKinds, Waits
<1>8. DraftsApart'
  BY Made, ConstantsAssumption, NoTextAssumption
   DEF DataFails, TypeOK, Places, DraftsApart, MayHold, Single
<1>9. VerdictOwn'
  BY Made, ConstantsAssumption, NoTextAssumption
   DEF DataFails, TypeOK, Places, VerdictOwn, Numbers, Waits, WorkKinds
<1> QED
  BY <1>1, <1>2, <1>3, <1>4, <1>5, <1>6, <1>7, <1>8, <1>9

LEMMA WriteStep ==
  ASSUME IInv, data \in {"open", "closed"}, NEW t \in Text \cup {NoText},
         MayHold(t, me, path), Write(t)
  PROVE  IInv'
<1> USE DEF IInv
<1>x. me \in User /\ path \in Page
  BY ConstantsAssumption, NoTextAssumption DEF TypeOK, Places
<1>b. work' \in WorkState /\ work'.code = t
  BY <1>x DEF Write, TypeOK, WorkState
<1>k. \A k \in User \X Page : drafts'[k] = IF k = <<me, path>> THEN t ELSE drafts[k]
  BY <1>x DEF Write, DraftKey, TypeOK
<1>1. TypeOK'
  BY <1>x, <1>b, <1>k, ConstantsAssumption
   DEF Write, DraftKey, Tab, identity, TypeOK
<1>2. Places'
  BY <1>x, <1>b, <1>k, Made, ConstantsAssumption, NoTextAssumption
   DEF Write, DraftKey, Tab, identity, TypeOK, Places, Single, Waits
<1>3. Single'
  BY <1>x, <1>b, <1>k, Made, ConstantsAssumption, NoTextAssumption
   DEF Write, DraftKey, Tab, identity, TypeOK, Places, Single
<1>4. Header'
  BY <1>x, <1>b, <1>k, Made, ConstantsAssumption, NoTextAssumption
   DEF Write, DraftKey, Tab, identity, TypeOK, Header, Single, Places
<1>5. Waits'
  BY <1>x, <1>b, <1>k, Made, ConstantsAssumption, NoTextAssumption
   DEF Write, DraftKey, Tab, identity, TypeOK, Places, Single, Waits, WorkKinds,
      TrialKinds, NoTrial
<1>6. Numbers'
  BY <1>x, <1>b, <1>k, Made, ConstantsAssumption, NoTextAssumption
   DEF Write, DraftKey, Tab, identity, TypeOK, Places, Numbers, Waits, Single,
      WorkKinds, TrialKinds
<1>7. Trials'
  BY <1>x, <1>b, <1>k, Made, ConstantsAssumption, NoTextAssumption
   DEF Write, DraftKey, Tab, identity, TypeOK, Places, Trials, NoTrial, WorkKinds,
      TrialKinds, Waits
<1>8. DraftsApart'
  BY <1>x, <1>b, <1>k DEF DraftsApart, MayHold, Write, Tab, identity
<1>9. VerdictOwn'
  BY <1>x, <1>b, <1>k, Made, ConstantsAssumption, NoTextAssumption
   DEF Write, DraftKey, Tab, identity, TypeOK, Places, VerdictOwn, Numbers, Waits,
      WorkKinds
<1> QED
  BY <1>1, <1>2, <1>3, <1>4, <1>5, <1>6, <1>7, <1>8, <1>9

LEMMA SubmitStep ==
  ASSUME IInv, Submit
  PROVE  IInv'
<1> USE DEF IInv
<1>x. Len(ledger) + 1 \in 1..MaxSubmissions /\ data = "open" /\ path # Away /\ me \in User /\ path \in Page
  BY ConstantsAssumption, NoTextAssumption DEF Submit, TypeOK, Places
<1> DEFINE new == [kind |-> "submit", sid |-> Len(ledger) + 1]
<1>s. new \in Request
  BY <1>x, Made
<1>e. net' = net \cup {new}
  BY DEF Submit, Tab, identity
<1>w. /\ new \in net' /\ new.kind = "submit"
      /\ \A r \in net' : r = new \/ (r \in net)
      /\ \A r \in net : r \in net'
  BY <1>e
<1>d. /\ work.result \in 0..MaxSubmissions /\ work.code \in Text \cup {NoText} /\ work.sid \in 0..MaxSubmissions
      /\ work' = [code |-> work.code, sid |-> work.sid,
                   result |-> IF path \in PublicPage THEN 0 ELSE work.result,
                   busy |-> TRUE, error |-> FALSE]
  BY DEF Submit, TypeOK, WorkState
<1>b. work' \in WorkState
  BY <1>d, ConstantsAssumption DEF WorkState
<1>c. /\ Len(ledger') = Len(ledger) + 1 /\ ledger' \in Seq([by : User, page : Page])
      /\ ledger'[Len(ledger) + 1] = [by |-> me, page |-> path]
      /\ \A s \in 1..Len(ledger) : ledger'[s] = ledger[s]
  BY DEF Submit, TypeOK, Places
<1> HIDE DEF new
<1>1. TypeOK'
  BY <1>x, <1>w, <1>d, <1>b, <1>c, <1>s, ConstantsAssumption
   DEF Submit, Tab, identity, TypeOK
<1>2. Places'
  BY <1>x, <1>w, <1>d, <1>b, <1>c, Made, ConstantsAssumption, NoTextAssumption
   DEF Submit, Tab, identity, TypeOK, Places, Single, Waits, WorkState
<1>3. Single'
  BY <1>x, <1>w, <1>d, <1>b, <1>c, Made, ConstantsAssumption, NoTextAssumption
   DEF Submit, Tab, identity, TypeOK, Places, Single, WorkState
<1>4. Header'
  BY <1>x, <1>w, <1>d, <1>b, <1>c, Made, ConstantsAssumption, NoTextAssumption
   DEF Submit, Tab, identity, TypeOK, Header, Single, Places, WorkState
<1>5. Waits'
  BY <1>x, <1>w, <1>d, <1>b, <1>c, Made, ConstantsAssumption, NoTextAssumption
   DEF Submit, Tab, identity, TypeOK, Places, Single, Waits, WorkKinds, TrialKinds,
      NoTrial, WorkState
<1>6. Numbers'
  <2>1. \A r \in net' : r.kind \in WorkKinds => r = new
      BY <1>w DEF Submit, Waits
    <2>2. new.sid = Len(ledger) + 1 /\ new.kind # "poll"
      BY DEF new
    <2>3. work'.sid = work.sid /\ work'.result \in {0, work.result}
            /\ (path \in CoursePage \/ work'.result = 0)
      BY <1>x, <1>d DEF Page
    <2>4. path' = path /\ me' = me
      BY DEF Submit, Tab, identity
    <2>5. Len(ledger) \in Nat
      BY DEF TypeOK
    <2>6. work'.sid <= Len(ledger') /\ work'.result <= work'.sid
      BY <1>c, <1>d, <2>3, <2>5, ConstantsAssumption DEF Numbers
    <2> QED
      BY <1>c, <1>d, <2>1, <2>2, <2>3, <2>4, <2>5, <2>6 DEF Numbers, WorkKinds
<1>7. Trials'
  BY <1>x, <1>w, <1>d, <1>b, <1>c, Made, ConstantsAssumption, NoTextAssumption
   DEF Submit, Tab, identity, TypeOK, Places, Trials, NoTrial, WorkKinds,
      TrialKinds, Waits, WorkState, new
<1>8. DraftsApart'
  BY <1>d DEF DraftsApart, MayHold, Submit, Tab, identity
<1>9. VerdictOwn'
  BY <1>x, <1>w, <1>d, <1>b, <1>c, Made, ConstantsAssumption, NoTextAssumption
   DEF Submit, Tab, identity, TypeOK, Places, VerdictOwn, Numbers, Waits,
      WorkKinds, WorkState, new
<1> QED
  BY <1>1, <1>2, <1>3, <1>4, <1>5, <1>6, <1>7, <1>8, <1>9

LEMMA SubmittedStep ==
  ASSUME IInv, NEW q \in net, q.kind = "submit", Submitted(q), UNCHANGED <<Tab, drafts, trial, ledger, mixed>>
  PROVE  IInv'
<1> USE DEF IInv
<1> q \in Request
  BY DEF TypeOK
<1> USE Fields
<1>a. data = "open"
  BY DEF Places, Waits, WorkKinds, TrialKinds, NoTrial
<1>x. q.sid \in 1..MaxSubmissions /\ 0 \in 0..MaxPolls
  BY ConstantsAssumption, NoTextAssumption DEF WorkKinds
<1> DEFINE new == [kind |-> "poll", sid |-> q.sid, n |-> 0]
<1>s. new \in Request
  BY <1>x, Made
<1>e. net' = ({u \in net : u.kind # "poll"} \ {q}) \cup {new}
  BY DEF Submitted, Without, Tab, identity
<1>f. new.kind = "poll" /\ q.kind # "poll"
  OBVIOUS
<1> HIDE DEF new
<1>w. /\ new \in net' /\ new.kind = "poll"
      /\ \A r \in net' : r = new \/ (r \in net /\ r # q /\ r.kind # "poll")
      /\ \A r \in net : r \in net' \/ r = q \/ r.kind = "poll"
  <2>1. new \in net' /\ new.kind = "poll"
    BY <1>e, <1>f
  <2>2. \A r \in net' : r = new \/ (r \in net /\ r # q /\ r.kind # "poll")
    BY <1>e
  <2>3. \A r \in net : r \in net' \/ r = q \/ r.kind = "poll"
    <3> TAKE r \in net
    <3>1. CASE r = q \/ r.kind = "poll"
      BY <3>1
    <3>2. CASE r # q /\ r.kind # "poll"
      BY <1>e, <3>2
    <3> QED
      BY <3>1, <3>2
  <2> QED
    BY <2>1, <2>2, <2>3
<1>b. work' \in WorkState
  BY <1>x, Made, ConstantsAssumption DEF Submitted, Without, Tab, identity, TypeOK,
     WorkState, WorkKinds
<1> HIDE DEF new
<1>1. TypeOK'
  BY <1>a, <1>x, <1>w, <1>b, <1>s, ConstantsAssumption
   DEF Submitted, Without, Tab, identity, TypeOK
<1>2. Places'
  BY <1>a, <1>x, <1>w, <1>b, Made, ConstantsAssumption, NoTextAssumption
   DEF Submitted, Without, Tab, identity, TypeOK, Places, Single, Waits, WorkState
<1>3. Single'
  BY <1>a, <1>x, <1>w, <1>b, Made, ConstantsAssumption, NoTextAssumption
   DEF Submitted, Tab, identity, TypeOK, Places, Single, WorkState
<1>4. Header'
  BY <1>a, <1>x, <1>w, <1>b, Made, ConstantsAssumption, NoTextAssumption
   DEF Submitted, Without, Tab, identity, TypeOK, Header, Single, Places, WorkState
<1>5. Waits'
  <2>1. work.busy /\ work'.busy = work.busy /\ trial' = trial
      BY DEF Submitted, TypeOK, WorkState, Waits, WorkKinds
    <2>2. \A r \in net' : r.kind \in WorkKinds => r = new
      BY <1>w DEF Waits, WorkKinds
    <2>3. \A r \in net' : r.kind \in TrialKinds => r \in net
      BY <1>w DEF TrialKinds
    <2>4. \A r \in net : r.kind \in TrialKinds => r \in net'
      BY <1>w DEF TrialKinds
    <2> QED
      BY <1>w, <2>1, <2>2, <2>3, <2>4 DEF Waits, WorkKinds
<1>6. Numbers'
  BY <1>a, <1>x, <1>w, <1>b, Made, ConstantsAssumption, NoTextAssumption
   DEF Submitted, Without, Tab, identity, TypeOK, Places, Numbers, Waits, Single,
      WorkKinds, TrialKinds, WorkState, new
<1>7. Trials'
  BY <1>a, <1>x, <1>w, <1>b, Made, ConstantsAssumption, NoTextAssumption
   DEF Submitted, Without, Tab, identity, TypeOK, Places, Trials, NoTrial,
      WorkKinds, TrialKinds, Waits, WorkState, new
<1>8. DraftsApart'
  BY <1>a, <1>x, <1>w, <1>b, Made, ConstantsAssumption, NoTextAssumption
   DEF Submitted, Without, Tab, identity, TypeOK, Places, DraftsApart, MayHold,
      Single, WorkState
<1>9. VerdictOwn'
  BY <1>a, <1>x, <1>w, <1>b, Made, ConstantsAssumption, NoTextAssumption
   DEF Submitted, Without, Tab, identity, TypeOK, Places, VerdictOwn, Numbers,
      Waits, WorkKinds, WorkState, new
<1> QED
  BY <1>1, <1>2, <1>3, <1>4, <1>5, <1>6, <1>7, <1>8, <1>9

LEMMA WorkFailsStep ==
  ASSUME IInv, NEW q \in net, q.kind \in WorkKinds, WorkFails(q), UNCHANGED <<Tab, drafts, trial, ledger, mixed>>
  PROVE  IInv'
<1> USE DEF IInv
<1> q \in Request
  BY DEF TypeOK
<1> USE Fields
<1>a. data = "open"
  BY DEF Places, Waits, WorkKinds, TrialKinds, NoTrial
<1>b. work' \in WorkState
  BY Made, ConstantsAssumption DEF WorkFails, Tab, identity, TypeOK, WorkState,
     WorkKinds
<1>1. TypeOK'
  BY <1>a, <1>b, ConstantsAssumption
   DEF WorkFails, Tab, identity, TypeOK
<1>2. Places'
  BY <1>a, <1>b, Made, ConstantsAssumption, NoTextAssumption
   DEF WorkFails, Tab, identity, TypeOK, Places, Single, Waits, WorkState
<1>3. Single'
  BY <1>a, <1>b, Made, ConstantsAssumption, NoTextAssumption
   DEF WorkFails, Tab, identity, TypeOK, Places, Single, WorkState
<1>4. Header'
  BY <1>a, <1>b, Made, ConstantsAssumption, NoTextAssumption
   DEF WorkFails, Tab, identity, TypeOK, Header, Single, Places, WorkState
<1>5. Waits'
  BY <1>a, <1>b, Made, ConstantsAssumption, NoTextAssumption
   DEF WorkFails, Tab, identity, TypeOK, Places, Single, Waits, WorkKinds,
      TrialKinds, NoTrial, WorkState
<1>6. Numbers'
  BY <1>a, <1>b, Made, ConstantsAssumption, NoTextAssumption
   DEF WorkFails, Tab, identity, TypeOK, Places, Numbers, Waits, Single, WorkKinds,
      TrialKinds, WorkState
<1>7. Trials'
  BY <1>a, <1>b, Made, ConstantsAssumption, NoTextAssumption
   DEF WorkFails, Tab, identity, TypeOK, Places, Trials, NoTrial, WorkKinds,
      TrialKinds, Waits, WorkState
<1>8. DraftsApart'
  BY <1>a, <1>b, Made, ConstantsAssumption, NoTextAssumption
   DEF WorkFails, Tab, identity, TypeOK, Places, DraftsApart, MayHold, Single, WorkState
<1>9. VerdictOwn'
  BY <1>a, <1>b, Made, ConstantsAssumption, NoTextAssumption
   DEF WorkFails, Tab, identity, TypeOK, Places, VerdictOwn, Numbers, Waits,
      WorkKinds, WorkState
<1> QED
  BY <1>1, <1>2, <1>3, <1>4, <1>5, <1>6, <1>7, <1>8, <1>9

LEMMA PendingStep ==
  ASSUME IInv, NEW q \in net, q.kind = "poll", Pending(q), UNCHANGED <<Tab, drafts, trial, ledger, mixed>>
  PROVE  IInv'
<1> USE DEF IInv
<1> q \in Request
  BY DEF TypeOK
<1> USE Fields
<1>a. data = "open"
  BY DEF Places, Waits, WorkKinds, TrialKinds, NoTrial
<1>x. q.sid \in 1..MaxSubmissions /\ q.n + 1 \in 0..MaxPolls
  BY ConstantsAssumption, NoTextAssumption DEF WorkKinds, Pending
<1> DEFINE new == [kind |-> "poll", sid |-> q.sid, n |-> q.n + 1]
<1>s. new \in Request
  BY <1>x, Made
<1>e. net' = (net \ {q}) \cup {new}
  BY DEF Pending, Tab, identity
<1>w. /\ new \in net' /\ new.kind = "poll"
      /\ \A r \in net' : r = new \/ (r \in net /\ r # q)
      /\ \A r \in net : r \in net' \/ r = q
  BY <1>e
<1>v. work \in WorkState /\ work' = [work EXCEPT !.result = q.sid]
  BY DEF Pending, TypeOK
<1>y. q.sid \in 0..MaxSubmissions
  BY <1>x, ConstantsAssumption
<1>b. work' \in WorkState
  BY <1>v, <1>y DEF WorkState
<1> HIDE DEF new
<1>1. TypeOK'
  BY <1>a, <1>x, <1>w, <1>b, <1>s, ConstantsAssumption
   DEF Pending, Tab, identity, TypeOK
<1>2. Places'
  BY <1>a, <1>x, <1>w, <1>b, Made, ConstantsAssumption, NoTextAssumption
   DEF Pending, Tab, identity, TypeOK, Places, Single, Waits, WorkState
<1>3. Single'
  BY <1>a, <1>x, <1>w, <1>b, Made, ConstantsAssumption, NoTextAssumption
   DEF Pending, Tab, identity, TypeOK, Places, Single, WorkState
<1>4. Header'
  BY <1>a, <1>x, <1>w, <1>b, Made, ConstantsAssumption, NoTextAssumption
   DEF Pending, Tab, identity, TypeOK, Header, Single, Places, WorkState
<1>5. Waits'
  BY <1>a, <1>x, <1>w, <1>b, Made, ConstantsAssumption, NoTextAssumption
   DEF Pending, Tab, identity, TypeOK, Places, Single, Waits, WorkKinds,
      TrialKinds, NoTrial, WorkState
<1>6. Numbers'
  BY <1>a, <1>x, <1>w, <1>b, Made, ConstantsAssumption, NoTextAssumption
   DEF Pending, Tab, identity, TypeOK, Places, Numbers, Waits, Single, WorkKinds,
      TrialKinds, WorkState, new
<1>7. Trials'
  BY <1>a, <1>x, <1>w, <1>b, Made, ConstantsAssumption, NoTextAssumption
   DEF Pending, Tab, identity, TypeOK, Places, Trials, NoTrial, WorkKinds,
      TrialKinds, Waits, WorkState, new
<1>8. DraftsApart'
  BY <1>a, <1>x, <1>w, <1>b, Made, ConstantsAssumption, NoTextAssumption
   DEF Pending, Tab, identity, TypeOK, Places, DraftsApart, MayHold, Single, WorkState
<1>9. VerdictOwn'
  BY <1>a, <1>x, <1>w, <1>b, Made, ConstantsAssumption, NoTextAssumption
   DEF Pending, Tab, identity, TypeOK, Places, VerdictOwn, Numbers, Waits,
      WorkKinds, WorkState, new
<1> QED
  BY <1>1, <1>2, <1>3, <1>4, <1>5, <1>6, <1>7, <1>8, <1>9

LEMMA SettledStep ==
  ASSUME IInv, NEW q \in net, q.kind = "poll", Settled(q), UNCHANGED <<Tab, drafts, trial, ledger, mixed>>
  PROVE  IInv'
<1> USE DEF IInv
<1> q \in Request
  BY DEF TypeOK
<1> USE Fields
<1>a. data = "open"
  BY DEF Places, Waits, WorkKinds, TrialKinds, NoTrial
<1>x. q.sid \in 0..MaxSubmissions /\ (q.n = MaxPolls) \in BOOLEAN
  BY ConstantsAssumption, NoTextAssumption DEF WorkKinds
<1>b. work' \in WorkState
  BY <1>x, Made, ConstantsAssumption DEF Settled, Tab, identity, TypeOK, WorkState,
     WorkKinds
<1>1. TypeOK'
  BY <1>a, <1>x, <1>b, ConstantsAssumption
   DEF Settled, Tab, identity, TypeOK
<1>2. Places'
  BY <1>a, <1>x, <1>b, Made, ConstantsAssumption, NoTextAssumption
   DEF Settled, Tab, identity, TypeOK, Places, Single, Waits, WorkState
<1>3. Single'
  BY <1>a, <1>x, <1>b, Made, ConstantsAssumption, NoTextAssumption
   DEF Settled, Tab, identity, TypeOK, Places, Single, WorkState
<1>4. Header'
  BY <1>a, <1>x, <1>b, Made, ConstantsAssumption, NoTextAssumption
   DEF Settled, Tab, identity, TypeOK, Header, Single, Places, WorkState
<1>5. Waits'
  BY <1>a, <1>x, <1>b, Made, ConstantsAssumption, NoTextAssumption
   DEF Settled, Tab, identity, TypeOK, Places, Single, Waits, WorkKinds,
      TrialKinds, NoTrial, WorkState
<1>6. Numbers'
  BY <1>a, <1>x, <1>b, Made, ConstantsAssumption, NoTextAssumption
   DEF Settled, Tab, identity, TypeOK, Places, Numbers, Waits, Single, WorkKinds,
      TrialKinds, WorkState
<1>7. Trials'
  BY <1>a, <1>x, <1>b, Made, ConstantsAssumption, NoTextAssumption
   DEF Settled, Tab, identity, TypeOK, Places, Trials, NoTrial, WorkKinds,
      TrialKinds, Waits, WorkState
<1>8. DraftsApart'
  BY <1>a, <1>x, <1>b, Made, ConstantsAssumption, NoTextAssumption
   DEF Settled, Tab, identity, TypeOK, Places, DraftsApart, MayHold, Single, WorkState
<1>9. VerdictOwn'
  BY <1>a, <1>x, <1>b, Made, ConstantsAssumption, NoTextAssumption
   DEF Settled, Tab, identity, TypeOK, Places, VerdictOwn, Numbers, Waits,
      WorkKinds, WorkState
<1> QED
  BY <1>1, <1>2, <1>3, <1>4, <1>5, <1>6, <1>7, <1>8, <1>9

LEMMA RunStep ==
  ASSUME IInv, Run
  PROVE  IInv'
<1> USE DEF IInv
<1>x. work.code \in Text
  BY ConstantsAssumption, NoTextAssumption DEF Run, MayRun, TypeOK, WorkState
<1> DEFINE new == [kind |-> "run", text |-> work.code]
<1>s. new \in Request
  BY <1>x, Made
<1>e. net' = net \cup {new}
  BY DEF Run, MayRun, Tab, identity
<1>w. /\ new \in net' /\ new.kind = "run"
      /\ \A r \in net' : r = new \/ (r \in net)
      /\ \A r \in net : r \in net'
  BY <1>e
<1>b. trial' \in TrialState
  BY <1>x, Made, ConstantsAssumption DEF Run, MayRun, Tab, identity, TypeOK,
     TrialState, WorkState, TrialKinds
<1> HIDE DEF new
<1>1. TypeOK'
  BY <1>x, <1>w, <1>b, <1>s, ConstantsAssumption
   DEF Run, MayRun, Tab, identity, TypeOK
<1>2. Places'
  BY <1>x, <1>w, <1>b, Made, ConstantsAssumption, NoTextAssumption
   DEF Run, MayRun, Tab, identity, TypeOK, Places, Single, Waits, TrialState
<1>3. Single'
  BY <1>x, <1>w, <1>b, Made, ConstantsAssumption, NoTextAssumption
   DEF Run, MayRun, Tab, identity, TypeOK, Places, Single, TrialState
<1>4. Header'
  BY <1>x, <1>w, <1>b, Made, ConstantsAssumption, NoTextAssumption
   DEF Run, MayRun, Tab, identity, TypeOK, Header, Single, Places, TrialState
<1>5. Waits'
  BY <1>x, <1>w, <1>b, Made, ConstantsAssumption, NoTextAssumption
   DEF Run, MayRun, Tab, identity, TypeOK, Places, Single, Waits, WorkKinds,
      TrialKinds, NoTrial, TrialState
<1>6. Numbers'
  BY <1>x, <1>w, <1>b, Made, ConstantsAssumption, NoTextAssumption
   DEF Run, MayRun, Tab, identity, TypeOK, Places, Numbers, Waits, Single,
      WorkKinds, TrialKinds, TrialState, new
<1>7. Trials'
  BY <1>x, <1>w, <1>b, Made, ConstantsAssumption, NoTextAssumption
   DEF Run, MayRun, Tab, identity, TypeOK, Places, Trials, NoTrial, WorkKinds,
      TrialKinds, Waits, TrialState, new
<1>8. DraftsApart'
  BY <1>x, <1>w, <1>b, Made, ConstantsAssumption, NoTextAssumption
   DEF Run, MayRun, Tab, identity, TypeOK, Places, DraftsApart, MayHold, Single,
      TrialState
<1>9. VerdictOwn'
  BY <1>x, <1>w, <1>b, Made, ConstantsAssumption, NoTextAssumption
   DEF Run, MayRun, Tab, identity, TypeOK, Places, VerdictOwn, Numbers, Waits,
      WorkKinds, TrialState, new
<1> QED
  BY <1>1, <1>2, <1>3, <1>4, <1>5, <1>6, <1>7, <1>8, <1>9

LEMMA RefreshStep ==
  ASSUME IInv, Refresh
  PROVE  IInv'
<1> USE DEF IInv
<1>a. data = "open"
  BY NoTextAssumption DEF Refresh, Places, NoTrial
<1>x. trial.run \in Text /\ 0 \in 0..MaxPolls
  BY ConstantsAssumption, NoTextAssumption DEF Refresh, TypeOK, TrialState
<1> DEFINE new == [kind |-> "trial", text |-> trial.run, n |-> 0]
<1>s. new \in Request
  BY <1>x, Made
<1>e. net' = net \cup {new}
  BY DEF Refresh, Tab, identity
<1>w. /\ new \in net' /\ new.kind = "trial"
      /\ \A r \in net' : r = new \/ (r \in net)
      /\ \A r \in net : r \in net'
  BY <1>e
<1>b. trial' \in TrialState
  BY <1>x, Made, ConstantsAssumption DEF Refresh, Tab, identity, TypeOK,
     TrialState, WorkState, TrialKinds
<1> HIDE DEF new
<1>1. TypeOK'
  BY <1>a, <1>x, <1>w, <1>b, <1>s, ConstantsAssumption
   DEF Refresh, Tab, identity, TypeOK
<1>2. Places'
  BY <1>a, <1>x, <1>w, <1>b, Made, ConstantsAssumption, NoTextAssumption
   DEF Refresh, Tab, identity, TypeOK, Places, Single, Waits, TrialState
<1>3. Single'
  BY <1>a, <1>x, <1>w, <1>b, Made, ConstantsAssumption, NoTextAssumption
   DEF Refresh, Tab, identity, TypeOK, Places, Single, TrialState
<1>4. Header'
  BY <1>a, <1>x, <1>w, <1>b, Made, ConstantsAssumption, NoTextAssumption
   DEF Refresh, Tab, identity, TypeOK, Header, Single, Places, TrialState
<1>5. Waits'
  BY <1>a, <1>x, <1>w, <1>b, Made, ConstantsAssumption, NoTextAssumption
   DEF Refresh, Tab, identity, TypeOK, Places, Single, Waits, WorkKinds,
      TrialKinds, NoTrial, TrialState
<1>6. Numbers'
  BY <1>a, <1>x, <1>w, <1>b, Made, ConstantsAssumption, NoTextAssumption
   DEF Refresh, Tab, identity, TypeOK, Places, Numbers, Waits, Single, WorkKinds,
      TrialKinds, TrialState, new
<1>7. Trials'
  BY <1>a, <1>x, <1>w, <1>b, Made, ConstantsAssumption, NoTextAssumption
   DEF Refresh, Tab, identity, TypeOK, Places, Trials, NoTrial, WorkKinds,
      TrialKinds, Waits, TrialState, new
<1>8. DraftsApart'
  BY <1>a, <1>x, <1>w, <1>b, Made, ConstantsAssumption, NoTextAssumption
   DEF Refresh, Tab, identity, TypeOK, Places, DraftsApart, MayHold, Single, TrialState
<1>9. VerdictOwn'
  BY <1>a, <1>x, <1>w, <1>b, Made, ConstantsAssumption, NoTextAssumption
   DEF Refresh, Tab, identity, TypeOK, Places, VerdictOwn, Numbers, Waits,
      WorkKinds, TrialState, new
<1> QED
  BY <1>1, <1>2, <1>3, <1>4, <1>5, <1>6, <1>7, <1>8, <1>9

LEMMA StartedStep ==
  ASSUME IInv, NEW q \in net, q.kind = "run", Started(q), UNCHANGED <<Tab, drafts, work, ledger, mixed>>
  PROVE  IInv'
<1> USE DEF IInv
<1> q \in Request
  BY DEF TypeOK
<1> USE Fields
<1>a. data = "open"
  BY DEF Places, Waits, WorkKinds, TrialKinds, NoTrial
<1>x. q.text \in Text /\ 0 \in 0..MaxPolls
  BY ConstantsAssumption, NoTextAssumption DEF TrialKinds
<1> DEFINE new == [kind |-> "trial", text |-> q.text, n |-> 0]
<1>s. new \in Request
  BY <1>x, Made
<1>e. net' = (net \ {q}) \cup {new}
  BY DEF Started, Tab, identity
<1>w. /\ new \in net' /\ new.kind = "trial"
      /\ \A r \in net' : r = new \/ (r \in net /\ r # q)
      /\ \A r \in net : r \in net' \/ r = q
  BY <1>e
<1>b. trial' \in TrialState
  BY <1>x, Made, ConstantsAssumption DEF Started, Tab, identity, TypeOK,
     TrialState, WorkState, TrialKinds
<1> HIDE DEF new
<1>1. TypeOK'
  BY <1>a, <1>x, <1>w, <1>b, <1>s, ConstantsAssumption
   DEF Started, Tab, identity, TypeOK
<1>2. Places'
  BY <1>a, <1>x, <1>w, <1>b, Made, ConstantsAssumption, NoTextAssumption
   DEF Started, Tab, identity, TypeOK, Places, Single, Waits, TrialState
<1>3. Single'
  BY <1>a, <1>x, <1>w, <1>b, Made, ConstantsAssumption, NoTextAssumption
   DEF Started, Tab, identity, TypeOK, Places, Single, TrialState
<1>4. Header'
  BY <1>a, <1>x, <1>w, <1>b, Made, ConstantsAssumption, NoTextAssumption
   DEF Started, Tab, identity, TypeOK, Header, Single, Places, TrialState
<1>5. Waits'
  BY <1>a, <1>x, <1>w, <1>b, Made, ConstantsAssumption, NoTextAssumption
   DEF Started, Tab, identity, TypeOK, Places, Single, Waits, WorkKinds,
      TrialKinds, NoTrial, TrialState
<1>6. Numbers'
  BY <1>a, <1>x, <1>w, <1>b, Made, ConstantsAssumption, NoTextAssumption
   DEF Started, Tab, identity, TypeOK, Places, Numbers, Waits, Single, WorkKinds,
      TrialKinds, TrialState, new
<1>7. Trials'
  BY <1>a, <1>x, <1>w, <1>b, Made, ConstantsAssumption, NoTextAssumption
   DEF Started, Tab, identity, TypeOK, Places, Trials, NoTrial, WorkKinds,
      TrialKinds, Waits, TrialState, new
<1>8. DraftsApart'
  BY <1>a, <1>x, <1>w, <1>b, Made, ConstantsAssumption, NoTextAssumption
   DEF Started, Tab, identity, TypeOK, Places, DraftsApart, MayHold, Single, TrialState
<1>9. VerdictOwn'
  BY <1>a, <1>x, <1>w, <1>b, Made, ConstantsAssumption, NoTextAssumption
   DEF Started, Tab, identity, TypeOK, Places, VerdictOwn, Numbers, Waits,
      WorkKinds, TrialState, new
<1> QED
  BY <1>1, <1>2, <1>3, <1>4, <1>5, <1>6, <1>7, <1>8, <1>9

LEMMA TrialFailsStep ==
  ASSUME IInv, NEW q \in net, q.kind \in TrialKinds, TrialFails(q), UNCHANGED <<Tab, drafts, work, ledger, mixed>>
  PROVE  IInv'
<1> USE DEF IInv
<1> q \in Request
  BY DEF TypeOK
<1> USE Fields
<1>a. data = "open"
  BY DEF Places, Waits, WorkKinds, TrialKinds, NoTrial
<1>b. trial' \in TrialState
  BY Made, ConstantsAssumption DEF TrialFails, Tab, identity, TypeOK, TrialState,
     WorkState, TrialKinds
<1>1. TypeOK'
  BY <1>a, <1>b, ConstantsAssumption
   DEF TrialFails, Tab, identity, TypeOK
<1>2. Places'
  BY <1>a, <1>b, Made, ConstantsAssumption, NoTextAssumption
   DEF TrialFails, Tab, identity, TypeOK, Places, Single, Waits, TrialState
<1>3. Single'
  BY <1>a, <1>b, Made, ConstantsAssumption, NoTextAssumption
   DEF TrialFails, Tab, identity, TypeOK, Places, Single, TrialState
<1>4. Header'
  BY <1>a, <1>b, Made, ConstantsAssumption, NoTextAssumption
   DEF TrialFails, Tab, identity, TypeOK, Header, Single, Places, TrialState
<1>5. Waits'
  BY <1>a, <1>b, Made, ConstantsAssumption, NoTextAssumption
   DEF TrialFails, Tab, identity, TypeOK, Places, Single, Waits, WorkKinds,
      TrialKinds, NoTrial, TrialState
<1>6. Numbers'
  BY <1>a, <1>b, Made, ConstantsAssumption, NoTextAssumption
   DEF TrialFails, Tab, identity, TypeOK, Places, Numbers, Waits, Single,
      WorkKinds, TrialKinds, TrialState
<1>7. Trials'
  BY <1>a, <1>b, Made, ConstantsAssumption, NoTextAssumption
   DEF TrialFails, Tab, identity, TypeOK, Places, Trials, NoTrial, WorkKinds,
      TrialKinds, Waits, TrialState
<1>8. DraftsApart'
  BY <1>a, <1>b, Made, ConstantsAssumption, NoTextAssumption
   DEF TrialFails, Tab, identity, TypeOK, Places, DraftsApart, MayHold, Single,
      TrialState
<1>9. VerdictOwn'
  BY <1>a, <1>b, Made, ConstantsAssumption, NoTextAssumption
   DEF TrialFails, Tab, identity, TypeOK, Places, VerdictOwn, Numbers, Waits,
      WorkKinds, TrialState
<1> QED
  BY <1>1, <1>2, <1>3, <1>4, <1>5, <1>6, <1>7, <1>8, <1>9

LEMMA RunningStep ==
  ASSUME IInv, NEW q \in net, q.kind = "trial", Running(q), UNCHANGED <<Tab, drafts, work, ledger, mixed>>
  PROVE  IInv'
<1> USE DEF IInv
<1> q \in Request
  BY DEF TypeOK
<1> USE Fields
<1>a. data = "open"
  BY DEF Places, Waits, WorkKinds, TrialKinds, NoTrial
<1>x. q.text \in Text /\ q.n + 1 \in 0..MaxPolls
  BY ConstantsAssumption, NoTextAssumption DEF TrialKinds, Running
<1> DEFINE new == [kind |-> "trial", text |-> q.text, n |-> q.n + 1]
<1>s. new \in Request
  BY <1>x, Made
<1>e. net' = (net \ {q}) \cup {new}
  BY DEF Running, Tab, identity
<1>w. /\ new \in net' /\ new.kind = "trial"
      /\ \A r \in net' : r = new \/ (r \in net /\ r # q)
      /\ \A r \in net : r \in net' \/ r = q
  BY <1>e
<1>b. trial' \in TrialState
  BY <1>x, Made, ConstantsAssumption DEF Running, Tab, identity, TypeOK,
     TrialState, WorkState, TrialKinds
<1> HIDE DEF new
<1>1. TypeOK'
  BY <1>a, <1>x, <1>w, <1>b, <1>s, ConstantsAssumption
   DEF Running, Tab, identity, TypeOK
<1>2. Places'
  BY <1>a, <1>x, <1>w, <1>b, Made, ConstantsAssumption, NoTextAssumption
   DEF Running, Tab, identity, TypeOK, Places, Single, Waits, TrialState
<1>3. Single'
  BY <1>a, <1>x, <1>w, <1>b, Made, ConstantsAssumption, NoTextAssumption
   DEF Running, Tab, identity, TypeOK, Places, Single, TrialState
<1>4. Header'
  BY <1>a, <1>x, <1>w, <1>b, Made, ConstantsAssumption, NoTextAssumption
   DEF Running, Tab, identity, TypeOK, Header, Single, Places, TrialState
<1>5. Waits'
  BY <1>a, <1>x, <1>w, <1>b, Made, ConstantsAssumption, NoTextAssumption
   DEF Running, Tab, identity, TypeOK, Places, Single, Waits, WorkKinds,
      TrialKinds, NoTrial, TrialState
<1>6. Numbers'
  BY <1>a, <1>x, <1>w, <1>b, Made, ConstantsAssumption, NoTextAssumption
   DEF Running, Tab, identity, TypeOK, Places, Numbers, Waits, Single, WorkKinds,
      TrialKinds, TrialState, new
<1>7. Trials'
  BY <1>a, <1>x, <1>w, <1>b, Made, ConstantsAssumption, NoTextAssumption
   DEF Running, Tab, identity, TypeOK, Places, Trials, NoTrial, WorkKinds,
      TrialKinds, Waits, TrialState, new
<1>8. DraftsApart'
  BY <1>a, <1>x, <1>w, <1>b, Made, ConstantsAssumption, NoTextAssumption
   DEF Running, Tab, identity, TypeOK, Places, DraftsApart, MayHold, Single, TrialState
<1>9. VerdictOwn'
  BY <1>a, <1>x, <1>w, <1>b, Made, ConstantsAssumption, NoTextAssumption
   DEF Running, Tab, identity, TypeOK, Places, VerdictOwn, Numbers, Waits,
      WorkKinds, TrialState, new
<1> QED
  BY <1>1, <1>2, <1>3, <1>4, <1>5, <1>6, <1>7, <1>8, <1>9

LEMMA FinishedStep ==
  ASSUME IInv, NEW q \in net, q.kind = "trial", Finished(q), UNCHANGED <<Tab, drafts, work, ledger, mixed>>
  PROVE  IInv'
<1> USE DEF IInv
<1> q \in Request
  BY DEF TypeOK
<1> USE Fields
<1>a. data = "open"
  BY DEF Places, Waits, WorkKinds, TrialKinds, NoTrial
<1>b. trial' \in TrialState
  BY Made, ConstantsAssumption DEF Finished, Tab, identity, TypeOK, TrialState,
     WorkState, TrialKinds
<1>1. TypeOK'
  BY <1>a, <1>b, ConstantsAssumption
   DEF Finished, Tab, identity, TypeOK
<1>2. Places'
  BY <1>a, <1>b, Made, ConstantsAssumption, NoTextAssumption
   DEF Finished, Tab, identity, TypeOK, Places, Single, Waits, TrialState
<1>3. Single'
  BY <1>a, <1>b, Made, ConstantsAssumption, NoTextAssumption
   DEF Finished, Tab, identity, TypeOK, Places, Single, TrialState
<1>4. Header'
  BY <1>a, <1>b, Made, ConstantsAssumption, NoTextAssumption
   DEF Finished, Tab, identity, TypeOK, Header, Single, Places, TrialState
<1>5. Waits'
  BY <1>a, <1>b, Made, ConstantsAssumption, NoTextAssumption
   DEF Finished, Tab, identity, TypeOK, Places, Single, Waits, WorkKinds,
      TrialKinds, NoTrial, TrialState
<1>6. Numbers'
  BY <1>a, <1>b, Made, ConstantsAssumption, NoTextAssumption
   DEF Finished, Tab, identity, TypeOK, Places, Numbers, Waits, Single, WorkKinds,
      TrialKinds, TrialState
<1>7. Trials'
  BY <1>a, <1>b, Made, ConstantsAssumption, NoTextAssumption
   DEF Finished, Tab, identity, TypeOK, Places, Trials, NoTrial, WorkKinds,
      TrialKinds, Waits, TrialState
<1>8. DraftsApart'
  BY <1>a, <1>b, Made, ConstantsAssumption, NoTextAssumption
   DEF Finished, Tab, identity, TypeOK, Places, DraftsApart, MayHold, Single, TrialState
<1>9. VerdictOwn'
  BY <1>a, <1>b, Made, ConstantsAssumption, NoTextAssumption
   DEF Finished, Tab, identity, TypeOK, Places, VerdictOwn, Numbers, Waits,
      WorkKinds, TrialState
<1> QED
  BY <1>1, <1>2, <1>3, <1>4, <1>5, <1>6, <1>7, <1>8, <1>9

-------------------------------------------------------------------------------
LEMMA InitInv == Init => IInv
<1> SUFFICES ASSUME Init PROVE IInv
  OBVIOUS
<1> USE DEF Init
<1>1. /\ work = [code |-> NoText, sid |-> 0, result |-> 0, busy |-> FALSE, error |-> FALSE]
      /\ trial = [source |-> NoText, result |-> NoText, run |-> NoText, busy |-> FALSE,
                  error |-> FALSE]
      /\ ledger \in Seq([by : User, page : Page]) /\ Len(ledger) = 0
  BY DEF Mounted, NoTrial
<1>2. work \in WorkState /\ trial \in TrialState
  BY <1>1, ConstantsAssumption DEF WorkState, TrialState
<1>3. TypeOK
  <2>1. /\ {cookie, me, served, shell} \subseteq User \cup {Nobody}
        /\ path \in Page \cup {Away} /\ data \in {"none", "open", "closed", "failed"}
        /\ heard \in BOOLEAN /\ net \subseteq Request
    OBVIOUS
  <2>2. drafts \in [User \X Page -> Text \cup {NoText}]
    OBVIOUS
  <2> QED
    BY <1>1, <1>2, <2>1, <2>2, ConstantsAssumption DEF TypeOK
<1>4. Places /\ Single /\ Header /\ Waits
  BY <1>1 DEF Places, Single, Header, Waits, WorkKinds, TrialKinds, NoTrial
<1>5. Numbers /\ Trials /\ VerdictOwn
  BY <1>1 DEF Numbers, Trials, VerdictOwn
<1>6. DraftsApart
  BY <1>1 DEF DraftsApart, MayHold
<1> QED
  BY <1>3, <1>4, <1>5, <1>6 DEF IInv

LEMMA Stutter == ASSUME IInv, UNCHANGED vars PROVE IInv'
<1> USE DEF IInv, vars
<1>1. TypeOK' BY DEF TypeOK
<1>2. Places' BY DEF Places
<1>3. Single' BY DEF Single
<1>4. Header' BY DEF Header
<1>5. Waits' BY DEF Waits
<1>6. Numbers' BY DEF Numbers
<1>7. Trials' BY DEF Trials
<1>8. DraftsApart' BY DEF DraftsApart, MayHold
<1>9. VerdictOwn' BY DEF VerdictOwn
<1> QED
  BY <1>1, <1>2, <1>3, <1>4, <1>5, <1>6, <1>7, <1>8, <1>9

LEMMA AnswerStep == ASSUME IInv, Answer PROVE IInv'
<1> PICK q \in net : IdentityAnswer(q) \/ WorkAnswer(q) \/ TrialAnswer(q)
  BY DEF Answer
<1>1. CASE IdentityAnswer(q)
  <2>1. CASE q.kind = "me" /\ (MeKnown(q) \/ MeFails(q) \/ Leave)
    BY <2>1, MeKnownStep, MeFailsStep, LeaveStep
  <2>2. CASE q.kind = "shell" /\ \E u \in {q.as, Nobody} : ShellTold(q, u)
    BY <2>2, ShellToldStep
  <2>3. CASE q.kind = "data" /\ (DataComes(q) \/ DataFails(q))
    BY <2>3, DataComesStep, DataFailsStep
  <2>4. CASE q.kind = "data" /\ path \in CoursePage /\ Leave
    BY <2>4, LeaveStep
  <2> QED
    BY <1>1, <2>1, <2>2, <2>3, <2>4 DEF IdentityAnswer
<1>2. CASE WorkAnswer(q)
  <2>1. UNCHANGED <<Tab, drafts, trial, ledger, mixed>>
    BY <1>2 DEF WorkAnswer
  <2>2. CASE q.kind = "submit" /\ Submitted(q)
    BY <2>1, <2>2, SubmittedStep
  <2>3. CASE q.kind = "poll" /\ (Pending(q) \/ Settled(q))
    BY <2>1, <2>3, PendingStep, SettledStep
  <2>4. CASE q.kind \in {"submit", "poll"} /\ WorkFails(q)
    BY <2>1, <2>4, WorkFailsStep DEF WorkKinds
  <2> QED
    BY <1>2, <2>2, <2>3, <2>4 DEF WorkAnswer
<1>3. CASE TrialAnswer(q)
  <2>1. UNCHANGED <<Tab, drafts, work, ledger, mixed>>
    BY <1>3 DEF TrialAnswer
  <2>2. CASE q.kind = "run" /\ Started(q)
    BY <2>1, <2>2, StartedStep
  <2>3. CASE q.kind = "trial" /\ (Running(q) \/ Finished(q))
    BY <2>1, <2>3, RunningStep, FinishedStep
  <2>4. CASE q.kind \in {"run", "trial"} /\ TrialFails(q)
    BY <2>1, <2>4, TrialFailsStep DEF TrialKinds
  <2> QED
    BY <1>3, <2>2, <2>3, <2>4 DEF TrialAnswer
<1> QED
  BY <1>1, <1>2, <1>3

\* The two ways to change the code: by hand, and from the library.
LEMMA TypeStep == ASSUME IInv, Type PROVE IInv'
<1> PICK t \in {<<me, path>>, NoText} : Write(t)
  BY DEF Type
<1>1. data = "open" /\ me \in User /\ path \in Page
  BY DEF Type, IInv, TypeOK, Places
<1>2. t \in Text \cup {NoText}
  BY <1>1 DEF Text
<1>3. MayHold(t, me, path)
  BY DEF MayHold
<1> QED
  BY <1>1, <1>2, <1>3, WriteStep

LEMMA LoadPreviousStep == ASSUME IInv, LoadPrevious PROVE IInv'
<1> DEFINE t == <<served, Bank>>
<1>1. Write(t) /\ data \in {"open", "closed"} /\ path \in CoursePage
  BY DEF LoadPrevious
<1>2. served \in User /\ (served = me \/ <<me, path>> \in mixed)
  BY <1>1 DEF IInv, TypeOK, Places
<1>3. t \in Text \cup {NoText}
  BY <1>2 DEF Text
<1>4. MayHold(t, me, path)
  BY <1>2 DEF MayHold
<1> HIDE DEF t
<1> QED
  BY <1>1, <1>3, <1>4, WriteStep

LEMMA StepInv == ASSUME IInv, [Next]_vars PROVE IInv'
<1>1. ASSUME NEW p \in Page, Open(p) PROVE IInv'
  BY <1>1, OpenStep
<1>2. ASSUME NEW u \in User, NEW p \in Page, Land(u, p) PROVE IInv'
  BY <1>2, LandStep
<1>3. ASSUME NEW u \in User \cup {Nobody}, Elsewhere(u) PROVE IInv'
  BY <1>3, ElsewhereStep
<1>4. ASSUME Leave \/ Reload \/ Type \/ LoadPrevious PROVE IInv'
  BY <1>4, LeaveStep, ReloadStep, TypeStep, LoadPreviousStep
<1>5. ASSUME Submit \/ Run \/ Refresh \/ Answer PROVE IInv'
  BY <1>5, SubmitStep, RunStep, RefreshStep, AnswerStep
<1>6. ASSUME UNCHANGED vars PROVE IInv'
  BY <1>6, Stutter
<1> QED
  BY <1>1, <1>2, <1>3, <1>4, <1>5, <1>6 DEF Next

LEMMA Invariant == Spec => []IInv
  BY InitInv, StepInv, PTL DEF Spec

\* Every variable keeps its type (TypeOK).
THEOREM TypeCorrect == Spec => []TypeOK
<1>1. IInv => TypeOK
  BY DEF IInv
<1> QED
  BY <1>1, Invariant, PTL

\* A draft, and the text in the editor, was written by its user on its page, or
\* is library code of that user; where the page was once served to another
\* account it may be library code of that account.  For any number of users and
\* pages (lib/routes.ts:72, Platform.tsx:101).
THEOREM DraftsStayApart == Spec => []DraftsApart
<1>1. IInv => DraftsApart
  BY DEF IInv
<1> QED
  BY <1>1, Invariant, PTL

\* The verdict shown under a number is its own, with the exception VerdictOwn
\* names (the polls of Workspace and PublicProblemWorkspace).
THEOREM VerdictsOwn == Spec => []VerdictOwn
<1>1. IInv => VerdictOwn
  BY DEF IInv
<1> QED
  BY <1>1, Invariant, PTL

\* No trial is shown as one of another text (TrialPanel.tsx).
THEOREM TrialsHonest == Spec => []TrialHonest
<1>1. IInv => TrialHonest
  BY DEF IInv, Trials, TrialHonest
<1> QED
  BY <1>1, Invariant, PTL

\* The header and the page agree on who is signed in (Platform.tsx,
\* AppShell.tsx).
THEOREM ShellsAgree == Spec => []ShellAgrees
<1>1. IInv => ShellAgrees
  BY DEF IInv, Header, ShellAgrees
<1> QED
  BY <1>1, Invariant, PTL

\* A disabled button waits for exactly one answer, an enabled one for none.
THEOREM WaitsForOne == Spec => []OneWait
<1>1. IInv => OneWait
  <2>1. TypeOK /\ Waits => OneWait
    BY DEF OneWait, Waits, WorkKinds, TrialKinds, TypeOK, WorkState, TrialState
  <2> QED
    BY <2>1 DEF IInv
<1> QED
  BY <1>1, Invariant, PTL

===============================================================================
