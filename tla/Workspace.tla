------------------------------- MODULE Workspace -------------------------------
(***************************************************************************)
(* One browser tab on the pages where a student solves a problem: the page *)
(* of an assignment (Platform.tsx, Workspace and TrialPanel) and that of   *)
(* the public library (PublicProblems.tsx), under the shell that shows who *)
(* is signed in (AppShell.tsx).  Other tabs of the browser share its       *)
(* cookie and may sign in as somebody else.                                *)
(*                                                                         *)
(* A request carries the cookie of the moment it is sent and is answered   *)
(* at any later moment.  An effect that is cleaned up ignores the answers  *)
(* it still waits for ("active" in the code): they leave `net'.            *)
(*                                                                         *)
(* A text is known by whose it is and where it was written.                *)
(***************************************************************************)
EXTENDS Naturals, Sequences

CONSTANTS
  User, Nobody,
  CoursePage, PublicPage,
  Away,             \* the tab shows none of these pages
  Bank,             \* where code accepted before the assignment comes from
  NoText,
  MaxPolls,         \* 60 polls of a verdict and 80 of a trial in the code
  MaxSubmissions    \* bound of the model

Page == CoursePage \cup PublicPage

ASSUME ConstantsAssumption ==
  /\ Nobody \notin User
  /\ Away \notin Page
  /\ MaxPolls \in Nat /\ MaxSubmissions \in Nat

Text == User \X (Page \cup {Bank})

ASSUME NoTextAssumption == NoText \notin Text

VARIABLES
  cookie,     \* who the browser is signed in as
  path,       \* the page the tab shows
  me,         \* PlatformPage: the identity it works for
  data,       \* PlatformPage: what became of the page's data
  served,     \* PlatformPage: to whom the server gave it
  shell,      \* AppShell: the identity in the header
  heard,      \* AppShell: broadcastReceived
  drafts,     \* localStorage, by user and page
  work,       \* the state of the mounted Workspace
  trial,      \* the state of the mounted TrialPanel
  net,        \* the requests somebody still waits for
  ledger,     \* every submission: for whom and where the button was pressed
  mixed       \* history: whose page, and which, was served to another account

vars ==
  <<cookie, path, me, data, served, shell, heard, drafts, work, trial, net, ledger, mixed>>
identity == <<me, data, served, shell, heard>>

Request ==
  [kind : {"me", "shell", "data"}, as : User \cup {Nobody}]
    \cup [kind : {"submit"}, sid : 1..MaxSubmissions]
    \cup [kind : {"poll"}, sid : 1..MaxSubmissions, n : 0..MaxPolls]
    \cup [kind : {"run"}, text : Text]
    \cup [kind : {"trial"}, text : Text, n : 0..MaxPolls]

WorkState ==
  [code : Text \cup {NoText}, sid : 0..MaxSubmissions, result : 0..MaxSubmissions,
   busy : BOOLEAN, error : BOOLEAN]

TrialState ==
  [source : Text \cup {NoText}, result : Text \cup {NoText}, run : Text \cup {NoText},
   busy : BOOLEAN, error : BOOLEAN]

\* Type invariant: the state of the tab is made of these values.
TypeOK ==
  /\ {cookie, me, served, shell} \subseteq User \cup {Nobody}
  /\ path \in Page \cup {Away}
  /\ data \in {"none", "open", "closed", "failed"}
  /\ heard \in BOOLEAN
  /\ drafts \in [User \X Page -> Text \cup {NoText}]
  /\ work \in WorkState
  /\ trial \in TrialState
  /\ net \subseteq Request
  /\ ledger \in Seq([by : User, page : Page]) /\ Len(ledger) <= MaxSubmissions
  /\ mixed \subseteq User \X CoursePage

(***************************************************************************)
(* Pages and drafts.                                                       *)
(***************************************************************************)
\* Mutant: one draft for everybody who uses the browser.
DraftKeyShared(u, p) == <<CHOOSE v \in User : TRUE, p>>

\* Where the draft of a user for a page is kept: his own key for each page.
DraftKey(u, p) == <<u, p>>

\* A workspace as it is mounted, with what this user left in the browser.
Mounted(text) == [code |-> text, sid |-> 0, result |-> 0, busy |-> FALSE, error |-> FALSE]

NoTrial == [source |-> NoText, result |-> NoText, run |-> NoText, busy |-> FALSE, error |-> FALSE]

\* The answers of these kinds will be ignored: their effect was cleaned up.
Without(kinds) == {q \in net : q.kind \notin kinds}

\* Everything a page of PlatformPage waits for.
OfPage == {"me", "data", "submit", "poll", "run", "trial"}

\* The tab goes to another page of the site: PlatformPage is keyed by its path
\* and mounted anew, the shell stays and asks again.
Open(p) ==
  /\ path \notin {Away, p}
  /\ path' = p
  /\ me' = Nobody /\ data' = "none" /\ served' = Nobody
  /\ work' = Mounted(NoText) /\ trial' = NoTrial
  /\ heard' = FALSE
  /\ net' = Without(OfPage \cup {"shell"})
              \cup {[kind |-> "me", as |-> cookie], [kind |-> "shell", as |-> cookie]}
  /\ UNCHANGED <<cookie, shell, drafts, ledger, mixed>>

\* The document is left, by the student or for the sign-in page; only
\* localStorage stays.  Signing out empties the header just before it navigates
\* (AppShell.tsx:38); the two are one step here.
Leave ==
  /\ path' = Away
  /\ me' = Nobody /\ data' = "none" /\ served' = Nobody
  /\ shell' = Nobody /\ heard' = FALSE
  /\ work' = Mounted(NoText) /\ trial' = NoTrial
  /\ net' = {}
  /\ UNCHANGED <<cookie, drafts, ledger, mixed>>

\* A page is loaded for somebody who is, or now has, signed in.
Land(u, p) ==
  /\ path = Away
  /\ cookie' = u /\ path' = p
  /\ net' = {[kind |-> "me", as |-> u], [kind |-> "shell", as |-> u]}
  /\ UNCHANGED <<identity, drafts, work, trial, ledger, mixed>>

\* Another tab signs in as somebody else, or out.
Elsewhere(u) ==
  /\ u # cookie
  /\ cookie' = u
  /\ UNCHANGED <<path, identity, drafts, work, trial, net, ledger, mixed>>

\* The button of a page that could not be loaded.  A public page has none.
Reload ==
  /\ data = "failed"
  /\ path \in CoursePage \/ me = Nobody
  /\ me' = Nobody /\ data' = "none" /\ served' = Nobody
  /\ work' = Mounted(NoText)
  /\ net' = Without(OfPage) \cup {[kind |-> "me", as |-> cookie]}
  /\ UNCHANGED <<cookie, path, shell, heard, drafts, trial, ledger, mixed>>

(***************************************************************************)
(* Answers about the identity and the page.                                *)
(***************************************************************************)
Broadcast(u) == shell' = u /\ heard' = TRUE

\* The identity is known: the page asks for its data.  A public page is mounted
\* at once, with the user's draft.
MeKnown(q) ==
  /\ q.as # Nobody
  /\ me' = q.as
  /\ Broadcast(q.as)
  /\ work' = Mounted(IF path \in PublicPage THEN drafts[DraftKey(q.as, path)] ELSE NoText)
  /\ net' = (net \ {q}) \cup {[kind |-> "data", as |-> cookie]}
  /\ UNCHANGED <<cookie, path, data, served, drafts, trial, ledger, mixed>>

\* It could not be found out.
MeFails(q) ==
  /\ data' = "failed"
  /\ Broadcast(Nobody)
  /\ net' = net \ {q}
  /\ UNCHANGED <<cookie, path, me, served, drafts, work, trial, ledger, mixed>>

\* Mutant: it counts whenever it comes.
ShellToldLate(q, u) ==
  /\ shell' = u
  /\ net' = net \ {q}
  /\ UNCHANGED <<cookie, path, me, data, served, heard, drafts, work, trial, ledger, mixed>>

\* The shell's own answer counts until the page has told it better.
ShellTold(q, u) ==
  /\ shell' = IF heard THEN shell ELSE u
  /\ net' = net \ {q}
  /\ UNCHANGED <<cookie, path, me, data, served, heard, drafts, work, trial, ledger, mixed>>

\* The data come: the workspace of a course page is mounted, with the draft.
DataComes(q) ==
  /\ q.as # Nobody
  /\ data' \in IF path \in CoursePage THEN {"open", "closed"} ELSE {"open"}
  /\ served' = q.as
  /\ mixed' = IF path \in CoursePage /\ q.as # me THEN mixed \cup {<<me, path>>} ELSE mixed
  /\ work' = IF path \in CoursePage THEN Mounted(drafts[DraftKey(me, path)]) ELSE work
  /\ net' = net \ {q}
  /\ UNCHANGED <<cookie, path, me, shell, heard, drafts, trial, ledger>>

DataFails(q) ==
  /\ data' = "failed"
  /\ net' = net \ {q}
  /\ UNCHANGED <<cookie, path, me, served, shell, heard, drafts, work, trial, ledger, mixed>>

IdentityAnswer(q) ==
  \/ q.kind = "me" /\ (MeKnown(q) \/ MeFails(q) \/ Leave)
  \/ q.kind = "shell" /\ \E u \in {q.as, Nobody} : ShellTold(q, u)
  \/ q.kind = "data" /\ (DataComes(q) \/ DataFails(q))
  \/ q.kind = "data" /\ path \in CoursePage /\ Leave

(***************************************************************************)
(* The editor, the submission and its verdict.                             *)
(***************************************************************************)
\* The editor and the trial leave these alone.
Tab == <<cookie, path, identity>>

\* The code changes and the draft with it.
Write(text) ==
  /\ work' = [work EXCEPT !.code = text]
  /\ drafts' = [drafts EXCEPT ![DraftKey(me, path)] = text]
  /\ UNCHANGED <<Tab, trial, net, ledger, mixed>>

\* The editor of a page that is closed is read-only.
Type == data = "open" /\ \E text \in {<<me, path>>, NoText} : Write(text)

\* The student takes over the code the public library accepted before, of the
\* account the page was served to.  The button is there on a closed page, too.
LoadPrevious ==
  /\ path \in CoursePage /\ data \in {"open", "closed"}
  /\ Write(<<served, Bank>>)

\* The public page forgets the verdict it shows; that of a course does not.
\* It also refuses an empty text.
Submit ==
  LET s == Len(ledger) + 1 IN
  /\ data = "open" /\ ~work.busy
  /\ path \in CoursePage \/ work.code # NoText
  /\ s <= MaxSubmissions
  /\ ledger' = Append(ledger, [by |-> me, page |-> path])
  /\ work' = [work EXCEPT !.busy = TRUE, !.error = FALSE,
                          !.result = IF path \in PublicPage THEN 0 ELSE @]
  /\ net' = net \cup {[kind |-> "submit", sid |-> s]}
  /\ UNCHANGED <<Tab, drafts, trial, mixed>>

\* Mutant: the number is shown with the verdict there is, on every page.
SubmittedEarly(q) ==
  /\ work' = [work EXCEPT !.sid = q.sid, !.busy = FALSE]
  /\ net' = (Without({"poll"}) \ {q}) \cup {[kind |-> "poll", sid |-> q.sid, n |-> 0]}

\* The server took the submission: the effect of the old number is cleaned up,
\* that of the new one begins to poll.
Submitted(q) ==
  /\ work' = [work EXCEPT !.sid = q.sid]
  /\ net' = (Without({"poll"}) \ {q}) \cup {[kind |-> "poll", sid |-> q.sid, n |-> 0]}

\* Mutant: a failure leaves the button disabled.
WorkFailsSilently(q) ==
  /\ work' = [work EXCEPT !.error = TRUE]
  /\ net' = net \ {q}

\* The server refused it, or a poll failed.
WorkFails(q) ==
  /\ work' = [work EXCEPT !.busy = FALSE, !.error = TRUE]
  /\ net' = net \ {q}

\* Mutant: one poll more.
PendingOnceMore(q) ==
  /\ q.n <= MaxPolls
  /\ work' = [work EXCEPT !.result = q.sid]
  /\ net' = (net \ {q}) \cup {[kind |-> "poll", sid |-> q.sid, n |-> q.n + 1]}

\* The verdict is not there yet: another poll while there are any left.
Pending(q) ==
  /\ q.n < MaxPolls
  /\ work' = [work EXCEPT !.result = q.sid]
  /\ net' = (net \ {q}) \cup {[kind |-> "poll", sid |-> q.sid, n |-> q.n + 1]}

\* The verdict is there, or the last poll was used.
Settled(q) ==
  /\ work' = [work EXCEPT !.result = q.sid, !.busy = FALSE,
                          !.error = @ \/ q.n = MaxPolls]
  /\ net' = net \ {q}

WorkAnswer(q) ==
  /\ \/ q.kind = "submit" /\ Submitted(q)
     \/ q.kind = "poll" /\ (Pending(q) \/ Settled(q))
     \/ q.kind \in {"submit", "poll"} /\ WorkFails(q)
  /\ UNCHANGED <<Tab, drafts, trial, ledger, mixed>>

(***************************************************************************)
(* A trial of the code on the sample.                                      *)
(***************************************************************************)
\* Mutant: a trial may be started while another one is awaited.
MayRunAgain == work.code # NoText

MayRun == ~trial.busy /\ work.code # NoText

Run ==
  /\ data = "open" /\ path \in CoursePage
  /\ MayRun
  /\ trial' = [source |-> work.code, result |-> NoText, run |-> NoText,
               busy |-> TRUE, error |-> FALSE]
  /\ net' = net \cup {[kind |-> "run", text |-> work.code]}
  /\ UNCHANGED <<Tab, drafts, work, ledger, mixed>>

\* The answer of the last poll did not come, or came too early: ask again.
Refresh ==
  /\ trial.error /\ ~trial.busy /\ trial.run # NoText
  /\ trial' = [trial EXCEPT !.error = FALSE, !.busy = TRUE]
  /\ net' = net \cup {[kind |-> "trial", text |-> trial.run, n |-> 0]}
  /\ UNCHANGED <<Tab, drafts, work, ledger, mixed>>

Started(q) ==
  /\ trial' = [trial EXCEPT !.run = q.text]
  /\ net' = (net \ {q}) \cup {[kind |-> "trial", text |-> q.text, n |-> 0]}

TrialFails(q) ==
  /\ trial' = [trial EXCEPT !.busy = FALSE, !.error = TRUE]
  /\ net' = net \ {q}

Running(q) ==
  /\ q.n < MaxPolls
  /\ trial' = [trial EXCEPT !.result = q.text]
  /\ net' = (net \ {q}) \cup {[kind |-> "trial", text |-> q.text, n |-> q.n + 1]}

\* The trial is over, or the last poll found it running.
Finished(q) ==
  /\ \E late \in {FALSE, q.n = MaxPolls} :
       trial' = [trial EXCEPT !.result = q.text, !.busy = FALSE, !.error = @ \/ late]
  /\ net' = net \ {q}

TrialAnswer(q) ==
  /\ \/ q.kind = "run" /\ Started(q)
     \/ q.kind = "trial" /\ (Running(q) \/ Finished(q))
     \/ q.kind \in {"run", "trial"} /\ TrialFails(q)
  /\ UNCHANGED <<Tab, drafts, work, ledger, mixed>>

-------------------------------------------------------------------------------
Init ==
  /\ cookie = Nobody /\ path = Away
  /\ me = Nobody /\ data = "none" /\ served = Nobody
  /\ shell = Nobody /\ heard = FALSE
  /\ drafts = [k \in User \X Page |-> NoText]
  /\ work = Mounted(NoText) /\ trial = NoTrial
  /\ net = {} /\ ledger = <<>> /\ mixed = {}

Answer == \E q \in net : IdentityAnswer(q) \/ WorkAnswer(q) \/ TrialAnswer(q)

Next ==
  \/ \E p \in Page : Open(p)
  \/ \E u \in User, p \in Page : Land(u, p)
  \/ \E u \in User \cup {Nobody} : Elsewhere(u)
  \/ path # Away /\ Leave
  \/ Reload \/ Type \/ LoadPrevious \/ Submit \/ Run \/ Refresh
  \/ Answer

Spec == Init /\ [][Next]_vars

-------------------------------------------------------------------------------
\* What a user may have in the editor and as a draft of a page: what he wrote
\* there and his own library code; library code of somebody else only where this
\* page of his was once served to another account.
MayHold(text, u, p) ==
  \/ text \in {NoText, <<u, p>>, <<u, Bank>>}
  \/ text[2] = Bank /\ <<u, p>> \in mixed

\* What is in the editor and under a key of localStorage was written by that
\* user on that page, or is code of that user which the library accepted,
\* whoever signs in here or in another tab (lib/routes.ts:72, readDraft and
\* writeDraft).  Only where the cookie had changed before the page asked for its
\* data, so that they are another account's, may the button that takes over
\* accepted code (Platform.tsx:101) have put somebody else's there.
DraftsApart ==
  /\ \A u \in User, p \in Page : MayHold(drafts[<<u, p>>], u, p)
  /\ me # Nobody => MayHold(work.code, me, path)

\* The verdict under a number is that of the submission with this number, made
\* on this page.  Only while a course page says that it is judging, or shows an
\* error, may it still be that of the submission before.
VerdictOwn ==
  /\ \A s \in {work.sid, work.result} \ {0} :
       ledger[s] = [by |-> me, page |-> path]
  /\ work.result # 0 /\ work.result # work.sid =>
       path \in CoursePage /\ work.result < work.sid /\ (work.busy \/ work.error)

\* The output of a trial that is shown without the remark that the code has
\* changed was produced by the code in the editor (TrialPanel.tsx:32).
TrialHonest ==
  trial.result # NoText /\ trial.source = work.code => trial.result = work.code

\* Once the page works for somebody, the header names the same person, whatever
\* the order in which the answers came (broadcastPortal, AppShell.tsx), until he
\* signs out or leaves.
ShellAgrees == me # Nobody => shell = me

\* A disabled button waits for one request that will enable it again; while it
\* is enabled no answer is on its way that could overwrite what is shown (busy
\* in Workspace, busy and posting in TrialPanel).
OneWait ==
  LET Awaited(kinds) == {q \in net : q.kind \in kinds}
      One(kinds, busy) ==
        /\ busy <=> Awaited(kinds) # {}
        /\ \A q, r \in Awaited(kinds) : q = r
  IN  One({"submit", "poll"}, work.busy) /\ One({"run", "trial"}, trial.busy)
===============================================================================
