------------------------------ MODULE MCWorkspace ------------------------------
(* Instances of Workspace for TLC. *)
EXTENDS Workspace, TLC

Symmetry == Permutations(User)

\* The submissions whose number is shown or awaited, of another page or user;
\* where the others were made is read by nothing any more.
Foreign ==
  {s \in 1..Len(ledger) :
     /\ ledger[s] # [by |-> me, page |-> path]
     /\ s \in {work.sid, work.result} \/ [kind |-> "submit", sid |-> s] \in net}

\* Two states that differ in what nothing reads any more are one: the number of
\* a trial is read until it has ended without a remark.
View ==
  <<cookie, path, me, data, IF path \in CoursePage THEN served ELSE Nobody,
    shell, heard, drafts, work,
    IF trial.busy \/ trial.error THEN trial.run ELSE NoText,
    trial.source, trial.result, trial.busy, trial.error,
    net, mixed, Len(ledger), Foreign>>
===============================================================================
