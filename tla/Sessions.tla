------------------------------ MODULE Sessions ------------------------------
(***************************************************************************)
(* Accounts, sessions and mobile tickets of the management service         *)
(* (identity/auth.rs, auth/mobile.rs, sso.rs and users.rs).                *)
(*                                                                         *)
(* A request reads an account, a session or a ticket, works on it (a       *)
(* password takes its time to verify) and then runs one transaction, in    *)
(* which it locks the row of the user first; until then anything may       *)
(* happen to what it has read.  A hash carries a random salt, so that no   *)
(* two are the same: password[u] counts the hashes of a user.              *)
(*                                                                         *)
(* What requests see of a session through the cache is the subject of      *)
(* AuthCache.  Accounts imported from the course service log in there, and *)
(* the hash they have here guards nothing.                                 *)
(***************************************************************************)
EXTENDS Naturals

CONSTANTS
    Login,    \* POST /auth/login
    Callback, \* GET /auth/callback, of the single sign-on
    Change,   \* POST /auth/change_password
    Visit,    \* any request with the cookie of a session
    Exchange, \* POST /auth/mobile_exchange
    User,
    Key,      \* session_key, never used twice
    Ticket,   \* mobile tickets, never used twice
    Life,     \* of a session, 7 days
    Renewal,  \* what is left when a session is renewed, 1 day
    Grace,    \* session_refresh_grace_seconds
    TicketLife, \* 60 s
    MaxTime,  \* bound on the clock
    MaxHash,  \* bound on the hashes of a user
    None      \* no user, no session or no ticket

Request == Login \cup Callback \cup Change \cup Visit \cup Exchange

ASSUME TimeAssumption ==
    /\ Life \in Nat /\ Renewal \in Nat /\ Grace \in Nat /\ TicketLife \in Nat
    /\ MaxTime \in Nat /\ MaxHash \in Nat
ASSUME RolesAssumption ==
    /\ Login \cap (Callback \cup Change \cup Visit \cup Exchange) = {}
    /\ Callback \cap (Change \cup Visit \cup Exchange) = {}
    /\ Change \cap (Visit \cup Exchange) = {} /\ Visit \cap Exchange = {}
ASSUME NoneAssumption == None \notin User \cup Key \cup Ticket

VARIABLES
    now,
    account,  \* "none", "active" or "inactive"
    password, \* the hash of a user
    session,  \* user_sessions: "none", "live" or "gone"
    owner,    \* its user
    expires,  \* its expires_at
    ticket,   \* mobile_sso_tickets: the ticket of a session, or None
    ends,     \* the expires_at of a ticket
    pc,       \* "begin", "create", "commit" or "done"
    who,      \* the user a request is about
    stored,   \* the hash it has read, and found to match what was typed
    with,     \* the session it is about
    shown,    \* the ticket it was given
    made,     \* history: the hash that was current when a session was opened
    from,     \* history: the ticket it was opened with
    void      \* history: tickets redeemed, replaced, or of a session that is gone

accounts == <<account, password>>
sessions == <<session, owner, expires>>
tickets == <<ticket, ends>>
requests == <<pc, who, stored, with, shown>>
history == <<made, from, void>>
vars == <<now, accounts, sessions, tickets, requests, history>>

TypeOK ==
    /\ now \in 0..MaxTime
    /\ account \in [User -> {"none", "active", "inactive"}]
    /\ password \in [User -> 0..MaxHash]
    /\ session \in [Key -> {"none", "live", "gone"}]
    /\ owner \in [Key -> User \cup {None}]
    /\ expires \in [Key -> 0..MaxTime + Life]
    /\ ticket \in [Key -> Ticket \cup {None}]
    /\ ends \in [Ticket -> 0..MaxTime + TicketLife]
    /\ pc \in [Request -> {"begin", "create", "commit", "done"}]
    /\ who \in [Request -> User \cup {None}]
    /\ stored \in [Request -> 0..MaxHash]
    /\ with \in [Request -> Key \cup {None}]
    /\ shown \in [Request -> Ticket \cup {None}]
    /\ made \in [Key -> 0..MaxHash]
    /\ from \in [Key -> Ticket \cup {None}]
    /\ void \in SUBSET Ticket

Init ==
    /\ now = 0
    /\ account \in [User -> {"none", "active", "inactive"}]
    /\ password = [u \in User |-> 0]
    /\ session = [k \in Key |-> "none"]
    /\ owner = [k \in Key |-> None]
    /\ expires = [k \in Key |-> 0]
    /\ ticket = [k \in Key |-> None]
    /\ ends = [t \in Ticket |-> 0]
    /\ pc = [r \in Request |-> "begin"]
    /\ who = [r \in Request |-> None]
    /\ stored = [r \in Request |-> 0]
    /\ with = [r \in Request |-> None]
    /\ shown = [r \in Request |-> None]
    /\ made = [k \in Key |-> 0]
    /\ from = [k \in Key |-> None]
    /\ void = {}

-----------------------------------------------------------------------------

Goto(r, label) == pc' = [pc EXCEPT ![r] = label]

\* A request ends, and its variables with it.
Finish(r) ==
    /\ Goto(r, "done")
    /\ who' = [who EXCEPT ![r] = None]
    /\ stored' = [stored EXCEPT ![r] = 0]
    /\ with' = [with EXCEPT ![r] = None]
    /\ shown' = [shown EXCEPT ![r] = None]

\* insert_session: a new session of u, who has shown to know the hash m.
Open(u, m, t) ==
    \E k \in Key :
        /\ session[k] = "none"
        /\ session' = [session EXCEPT ![k] = "live"]
        /\ owner' = [owner EXCEPT ![k] = u]
        /\ expires' = [expires EXCEPT ![k] = now + Life]
        /\ made' = [made EXCEPT ![k] = m]
        /\ from' = [from EXCEPT ![k] = t]

SessionsOf(S) == {k \in Key : session[k] = "live" /\ owner[k] \in S}

\* Sessions are deleted, and their tickets with them (ON DELETE CASCADE).
End(K) ==
    /\ session' = [k \in Key |-> IF k \in K THEN "gone" ELSE session[k]]
    /\ ticket' = [k \in Key |-> IF k \in K THEN None ELSE ticket[k]]
    /\ void' = void \cup ({ticket[k] : k \in K} \ {None})
    /\ UNCHANGED <<owner, expires, ends, made, from>>

-----------------------------------------------------------------------------
(* login: the hash is read and verified, then the transaction.              *)

ReadHash(r) ==
    /\ pc[r] = "begin"
    /\ \E u \in User :
        /\ account[u] = "active"
        /\ who' = [who EXCEPT ![r] = u]
        /\ stored' = [stored EXCEPT ![r] = password[u]]
    /\ Goto(r, "commit")
    /\ UNCHANGED <<now, accounts, sessions, tickets, with, shown, history>>

LoginRead(r) == r \in Login /\ ReadHash(r)

\* Mutant: the transaction does not compare the hash again.
StillValidAny(r) == account[who[r]] = "active"

StillValid(r) == account[who[r]] = "active" /\ password[who[r]] = stored[r]

LoginCommit(r) ==
    /\ r \in Login
    /\ pc[r] = "commit"
    /\ IF StillValid(r) THEN Open(who[r], stored[r], None)
       ELSE UNCHANGED <<sessions, made, from>>
    /\ Finish(r)
    /\ UNCHANGED <<now, accounts, tickets, void>>

-----------------------------------------------------------------------------
(* The callback of the single sign-on, whose profile names a user.          *)

\* ensure_sso, before its transaction.
FindAccount(r) ==
    /\ r \in Callback
    /\ pc[r] = "begin"
    /\ \E u \in User :
        /\ who' = [who EXCEPT ![r] = u]
        /\ Goto(r, IF account[u] = "active" THEN "commit" ELSE "create")
    /\ UNCHANGED <<now, accounts, sessions, tickets, stored, with, shown, history>>

\* Its transaction never brings back an account.
CreateAccount(r) ==
    /\ r \in Callback
    /\ pc[r] = "create"
    /\ account' = [account EXCEPT ![who[r]] = IF @ = "none" THEN "active" ELSE @]
    /\ Goto(r, IF account[who[r]] = "inactive" THEN "done" ELSE "commit")
    /\ UNCHANGED <<now, password, sessions, tickets, who, stored, with, shown, history>>

\* issue_session.
Issue(r) ==
    /\ r \in Callback
    /\ pc[r] = "commit"
    /\ IF account[who[r]] = "active" THEN Open(who[r], password[who[r]], None)
       ELSE UNCHANGED <<sessions, made, from>>
    /\ Finish(r)
    /\ UNCHANGED <<now, accounts, tickets, void>>

-----------------------------------------------------------------------------
(* Passwords and accounts.                                                  *)

\* The users S get another hash, and lose their sessions (invalidate_sessions).
NewPassword(S) ==
    /\ \A u \in S : password[u] < MaxHash
    /\ password' = [u \in User |-> IF u \in S THEN password[u] + 1 ELSE password[u]]
    /\ End(SessionsOf(S))

\* change_password: the session by which it came may be gone, for it was
\* perhaps found in the cache.
ChangeRead(r) ==
    /\ r \in Change
    /\ ReadHash(r)
    /\ \E k \in Key : session[k] # "none" /\ owner[k] = who'[r]

ChangeCommit(r) ==
    /\ r \in Change
    /\ pc[r] = "commit"
    /\ IF StillValid(r) THEN NewPassword({who[r]})
       ELSE UNCHANGED <<password, sessions, tickets, history>>
    /\ Finish(r)
    /\ UNCHANGED <<now, account>>

\* admin_change_password.
Reset ==
    /\ \E u \in User : account[u] = "active" /\ NewPassword({u})
    /\ UNCHANGED <<now, account, requests>>

\* batch_create_users: existing accounts are overwritten and activated.
BatchCreate ==
    /\ \E S \in SUBSET User \ {{}} :
        /\ NewPassword(S)
        /\ account' = [u \in User |-> IF u \in S THEN "active" ELSE account[u]]
    /\ UNCHANGED <<now, requests>>

\* create_user.
CreateUser ==
    /\ \E u \in User :
        /\ account[u] = "none"
        /\ account' = [account EXCEPT ![u] = "active"]
    /\ UNCHANGED <<now, password, sessions, tickets, requests, history>>

Deactivate ==
    /\ \E u \in User :
        /\ account[u] = "active"
        /\ account' = [account EXCEPT ![u] = "inactive"]
        /\ End(SessionsOf({u}))
    /\ UNCHANGED <<now, password, requests>>

Logout ==
    /\ \E k \in Key : session[k] = "live" /\ End({k})
    /\ UNCHANGED <<now, accounts, requests>>

CleanAllSessions ==
    /\ End({k \in Key : session[k] = "live"})
    /\ UNCHANGED <<now, accounts, requests>>

-----------------------------------------------------------------------------
(* Renewal (authenticate).                                                  *)

InGrace(k) == expires[k] + Grace > now

Due(k) == expires[k] < now + Renewal

\* load_session, or what the cache remembers of it.
Load(r) ==
    /\ r \in Visit
    /\ pc[r] = "begin"
    /\ \E k \in Key :
        /\ session[k] = "live" /\ account[owner[k]] = "active" /\ InGrace(k)
        /\ with' = [with EXCEPT ![r] = k]
        /\ Goto(r, IF Due(k) THEN "commit" ELSE "done")
    /\ UNCHANGED <<now, accounts, sessions, tickets, who, stored, shown, history>>

\* Mutant: the session is put back instead of being read again.
RenewableAny(k) == session[k] # "none"

Renewable(k) == session[k] = "live" /\ account[owner[k]] = "active" /\ InGrace(k)

\* Mutant: the session is prolonged from its old end.
ProlongedFurther(k) == expires[k] + Life

Prolonged(k) == now + Life

\* renew_session.
Renew(r) ==
    /\ r \in Visit
    /\ pc[r] = "commit"
    /\ IF Renewable(with[r]) /\ Due(with[r])
       THEN /\ expires' = [expires EXCEPT ![with[r]] = Prolonged(with[r])]
            /\ session' = [session EXCEPT ![with[r]] = "live"]
       ELSE UNCHANGED <<expires, session>>
    /\ Finish(r)
    /\ UNCHANGED <<now, accounts, owner, tickets, history>>

-----------------------------------------------------------------------------
(* Tickets (auth/mobile.rs): a browser gives its session to the mobile      *)
(* client, which opens one of its own.                                      *)

Unexpired(k) == session[k] = "live" /\ account[owner[k]] = "active" /\ expires[k] > now

\* bridge: a session has one ticket at a time.
Bridge ==
    /\ \E k \in Key, t \in Ticket :
        /\ Unexpired(k)
        /\ t \notin void /\ \A x \in Key : ticket[x] # t
        /\ ticket' = [ticket EXCEPT ![k] = t]
        /\ ends' = [ends EXCEPT ![t] = now + TicketLife]
        /\ void' = void \cup ({ticket[k]} \ {None})
    /\ UNCHANGED <<now, accounts, sessions, requests, made, from>>

\* exchange, before its transaction.
FindTicket(r) ==
    /\ r \in Exchange
    /\ pc[r] = "begin"
    /\ \E k \in Key :
        /\ ticket[k] # None
        /\ ends[ticket[k]] > now
        /\ with' = [with EXCEPT ![r] = k]
        /\ shown' = [shown EXCEPT ![r] = ticket[k]]
    /\ Goto(r, "commit")
    /\ UNCHANGED <<now, accounts, sessions, tickets, who, stored, history>>

\* Mutant: any ticket of the session is consumed.
ConsumableAny(r) == ticket[with[r]] # None

Consumable(r) == ticket[with[r]] = shown[r] /\ ends[shown[r]] > now

Redeem(r) ==
    /\ r \in Exchange
    /\ pc[r] = "commit"
    /\ IF Unexpired(with[r]) /\ Consumable(r)
       THEN /\ Open(owner[with[r]], made[with[r]], shown[r])
            /\ ticket' = [ticket EXCEPT ![with[r]] = None]
            /\ void' = void \cup {ticket[with[r]]}
       ELSE UNCHANGED <<sessions, ticket, made, from, void>>
    /\ Finish(r)
    /\ UNCHANGED <<now, accounts, ends>>

-----------------------------------------------------------------------------

Tick ==
    /\ now < MaxTime
    /\ now' = now + 1
    /\ UNCHANGED <<accounts, sessions, tickets, requests, history>>

Step(r) ==
    \/ LoginRead(r) \/ LoginCommit(r)
    \/ FindAccount(r) \/ CreateAccount(r) \/ Issue(r)
    \/ ChangeRead(r) \/ ChangeCommit(r)
    \/ Load(r) \/ Renew(r)
    \/ FindTicket(r) \/ Redeem(r)

Next ==
    \/ \E r \in Request : Step(r)
    \/ Reset \/ BatchCreate \/ CreateUser \/ Deactivate \/ Logout \/ CleanAllSessions
    \/ Bridge \/ Tick

Spec == Init /\ [][Next]_vars

-----------------------------------------------------------------------------
(* Properties.                                                              *)

\* No session outlives what it was opened with: its user is active, and his
\* password is the one that was verified for it, or for the session whose
\* ticket opened it, although verifying takes longer than a change of password,
\* a deactivation or an import that activates the account again.
SessionsCurrent ==
    \A k \in Key :
        session[k] = "live" =>
            /\ account[owner[k]] = "active"
            /\ made[k] = password[owner[k]]

\* A ticket opens one session, while the session that asked for it is there and
\* has not asked for another one, and in its time.
TicketOnce ==
    [][\A k \in Key :
          from'[k] # from[k] => from'[k] \notin void /\ ends[from'[k]] > now]_vars

\* "Never recreate a deleted session" (auth.rs:246), nor prolong one whose
\* grace is over, however long ago a renewal began.
NoRevival ==
    [][\A k \in Key :
          /\ session[k] = "gone" => session'[k] = "gone"
          /\ session[k] = "live" /\ ~InGrace(k) => expires'[k] = expires[k]]_vars
=============================================================================
