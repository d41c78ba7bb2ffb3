--------------------------- MODULE SessionsProofs ---------------------------
(***************************************************************************)
(* Proofs about Sessions, for any number of users, sessions and requests.  *)
(***************************************************************************)
EXTENDS Sessions, TLAPS

\* A request that has begun its work knows what it works on.
Busy ==
    \A r \in Request :
        pc[r] \in {"create", "commit"} =>
            /\ r \in Login \cup Callback \cup Change => who[r] \in User
            /\ r \in Visit \cup Exchange => with[r] \in Key
            /\ r \in Exchange => shown[r] \in Ticket

\* Sessions that were opened have a user; the others have no past.
Owned ==
    \A k \in Key :
        /\ session[k] # "none" => owner[k] \in User
        /\ session[k] = "none" => from[k] = None

\* A ticket belongs to one session, and was neither redeemed nor replaced.
Pending ==
    \A k \in Key :
        ticket[k] # None =>
            /\ ticket[k] \notin void
            /\ session[k] = "live"
            /\ \A x \in Key : ticket[x] = ticket[k] => x = k

IInv == TypeOK /\ Busy /\ Owned /\ Pending /\ SessionsCurrent

-----------------------------------------------------------------------------
(* The helpers.                                                             *)

\* A new session takes a key that was never used.
LEMMA OpenFacts ==
    ASSUME TypeOK, NEW u \in User, NEW m \in 0..MaxHash, NEW t \in Ticket \cup {None},
           Open(u, m, t)
    PROVE  /\ session' \in [Key -> {"none", "live", "gone"}]
           /\ owner' \in [Key -> User \cup {None}]
           /\ expires' \in [Key -> 0..MaxTime + Life]
           /\ made' \in [Key -> 0..MaxHash]
           /\ from' \in [Key -> Ticket \cup {None}]
           /\ \E n \in Key :
                /\ session[n] = "none" /\ session'[n] = "live"
                /\ owner'[n] = u /\ made'[n] = m /\ from'[n] = t
                /\ \A k \in Key \ {n} :
                    /\ session'[k] = session[k] /\ owner'[k] = owner[k]
                    /\ expires'[k] = expires[k]
                    /\ made'[k] = made[k] /\ from'[k] = from[k]
<1>1. PICK n \in Key :
          /\ session[n] = "none"
          /\ session' = [session EXCEPT ![n] = "live"]
          /\ owner' = [owner EXCEPT ![n] = u]
          /\ expires' = [expires EXCEPT ![n] = now + Life]
          /\ made' = [made EXCEPT ![n] = m]
          /\ from' = [from EXCEPT ![n] = t]
      BY DEF Open
<1>2. now + Life \in 0..MaxTime + Life
      BY TimeAssumption DEF TypeOK
<1> QED
      BY <1>1, <1>2 DEF TypeOK

\* Sessions that end are live ones in all uses, but this holds for any set.
LEMMA EndFacts ==
    ASSUME TypeOK, NEW K \in SUBSET Key, End(K)
    PROVE  /\ session' \in [Key -> {"none", "live", "gone"}]
           /\ ticket' \in [Key -> Ticket \cup {None}]
           /\ void' \in SUBSET Ticket
           /\ void \subseteq void'
           /\ \A k \in K : session'[k] = "gone" /\ ticket'[k] = None
           /\ \A k \in Key \ K : session'[k] = session[k] /\ ticket'[k] = ticket[k]
           /\ \A t \in void' \ void : \E k \in K : ticket[k] = t
           /\ UNCHANGED <<owner, expires, ends, made, from>>
BY DEF End, TypeOK

-----------------------------------------------------------------------------
(* Every step keeps the invariant.                                          *)

\* TypeOK is kept by every step.
LEMMA TypeStep == IInv /\ [Next]_vars => TypeOK'
<1> SUFFICES ASSUME IInv, [Next]_vars PROVE TypeOK'
      OBVIOUS
<1> USE DEF IInv
<1>1. ASSUME NEW r \in Request, LoginRead(r) PROVE TypeOK'
      BY <1>1
      DEF LoginRead, ReadHash, Goto, TypeOK, sessions, history, tickets, accounts
<1>2. ASSUME NEW r \in Request, LoginCommit(r) PROVE TypeOK'
      BY <1>2, OpenFacts, TimeAssumption
      DEF LoginCommit, StillValid, Finish, Goto, TypeOK, sessions, tickets, accounts,
          Busy
<1>3. ASSUME NEW r \in Request, FindAccount(r) PROVE TypeOK'
      BY <1>3 DEF FindAccount, Goto, TypeOK, sessions, history, tickets, accounts
<1>4. ASSUME NEW r \in Request, CreateAccount(r) PROVE TypeOK'
      BY <1>4 DEF CreateAccount, Goto, TypeOK, sessions, history, tickets
<1>5. ASSUME NEW r \in Request, Issue(r) PROVE TypeOK'
      BY <1>5, OpenFacts, TimeAssumption
      DEF Issue, Finish, Goto, TypeOK, sessions, tickets, accounts, Busy
<1>6. ASSUME NEW r \in Request, ChangeRead(r) PROVE TypeOK'
      BY <1>6
      DEF ChangeRead, ReadHash, Goto, TypeOK, sessions, history, tickets, accounts
<1>7. ASSUME NEW r \in Request, ChangeCommit(r) PROVE TypeOK'
  <2>1. CASE StillValid(r)
    <3>1. who[r] \in User /\ SessionsOf({who[r]}) \in SUBSET Key
          BY <1>7 DEF ChangeCommit, SessionsOf, Busy
    <3>2. /\ password[who[r]] < MaxHash
          /\ password' = [u \in User |-> IF u \in {who[r]} THEN password[u] + 1 ELSE password[u]]
          /\ End(SessionsOf({who[r]}))
          BY <1>7, <2>1, <3>1 DEF ChangeCommit, NewPassword
    <3> QED
          BY <1>7, <3>1, <3>2, EndFacts, TimeAssumption
          DEF ChangeCommit, Finish, Goto, SessionsOf, TypeOK
  <2>2. CASE ~StillValid(r)
        BY <1>7, <2>2, TimeAssumption
        DEF ChangeCommit, Finish, Goto, TypeOK, sessions, history, tickets
  <2> QED
        BY <2>1, <2>2
<1>8. ASSUME NEW r \in Request, Load(r) PROVE TypeOK'
      BY <1>8 DEF Load, Goto, TypeOK, sessions, history, tickets, accounts
<1>9. ASSUME NEW r \in Request, Renew(r) PROVE TypeOK'
      BY <1>9, TimeAssumption
      DEF Renew, Renewable, InGrace, Due, Prolonged, Finish, Goto, TypeOK, history,
          tickets, accounts
<1>10. ASSUME NEW r \in Request, FindTicket(r) PROVE TypeOK'
      BY <1>10 DEF FindTicket, Goto, TypeOK, sessions, history, tickets, accounts
<1>11. ASSUME NEW r \in Request, Redeem(r) PROVE TypeOK'
      BY <1>11, OpenFacts, TimeAssumption, NoneAssumption, RolesAssumption
      DEF Redeem, Unexpired, Consumable, Finish, Goto, TypeOK, sessions, Owned,
          accounts, Pending, Busy, Request
<1>12. ASSUME Reset PROVE TypeOK'
      BY <1>12, EndFacts, TimeAssumption
      DEF Reset, NewPassword, SessionsOf, TypeOK, requests
<1>13. ASSUME BatchCreate PROVE TypeOK'
      BY <1>13, EndFacts, TimeAssumption
      DEF BatchCreate, NewPassword, SessionsOf, TypeOK, requests
<1>14. ASSUME CreateUser PROVE TypeOK'
      BY <1>14 DEF CreateUser, SessionsOf, TypeOK, sessions, history, tickets, requests
<1>15. ASSUME Deactivate PROVE TypeOK'
      BY <1>15, EndFacts DEF Deactivate, SessionsOf, TypeOK, requests
<1>16. ASSUME Logout PROVE TypeOK'
      BY <1>16, EndFacts DEF Logout, SessionsOf, TypeOK, accounts, requests
<1>17. ASSUME CleanAllSessions PROVE TypeOK'
      BY <1>17, EndFacts DEF CleanAllSessions, SessionsOf, TypeOK, accounts, requests
<1>18. ASSUME Bridge PROVE TypeOK'
      BY <1>18, TimeAssumption
      DEF Bridge, Unexpired, SessionsOf, TypeOK, sessions, accounts, requests
<1>19. ASSUME Tick PROVE TypeOK'
      BY <1>19, TimeAssumption
      DEF Tick, SessionsOf, TypeOK, sessions, history, tickets, accounts, requests
<1>20. ASSUME UNCHANGED vars PROVE TypeOK'
      BY <1>20 DEF vars, TypeOK, sessions, history, tickets, accounts, requests
<1> QED
      BY <1>1, <1>2, <1>3, <1>4, <1>5, <1>6, <1>7, <1>8, <1>9, <1>10, <1>11, <1>12,
         <1>13, <1>14, <1>15, <1>16, <1>17, <1>18, <1>19, <1>20
      DEF Next, Step

\* What a request works on is fixed when it begins its work.
LEMMA BusyStep == IInv /\ [Next]_vars => Busy'
<1> SUFFICES ASSUME IInv, [Next]_vars PROVE Busy'
      OBVIOUS
<1> USE DEF IInv
<1>1. ASSUME NEW r \in Request, LoginRead(r) PROVE Busy'
      BY <1>1, RolesAssumption DEF LoginRead, ReadHash, Goto, TypeOK, Busy
<1>2. ASSUME NEW r \in Request, LoginCommit(r) PROVE Busy'
      BY <1>2, OpenFacts DEF LoginCommit, StillValid, Finish, Goto, TypeOK, Busy
<1>3. ASSUME NEW r \in Request, FindAccount(r) PROVE Busy'
      BY <1>3, RolesAssumption DEF FindAccount, Goto, TypeOK, Busy
<1>4. ASSUME NEW r \in Request, CreateAccount(r) PROVE Busy'
      BY <1>4 DEF CreateAccount, Goto, Busy
<1>5. ASSUME NEW r \in Request, Issue(r) PROVE Busy'
      BY <1>5, OpenFacts DEF Issue, Finish, Goto, TypeOK, Busy
<1>6. ASSUME NEW r \in Request, ChangeRead(r) PROVE Busy'
      BY <1>6, RolesAssumption DEF ChangeRead, ReadHash, Goto, Owned, Busy
<1>7. ASSUME NEW r \in Request, ChangeCommit(r) PROVE Busy'
      BY <1>7, EndFacts
      DEF ChangeCommit, NewPassword, StillValid, Finish, Goto, TypeOK, Busy
<1>8. ASSUME NEW r \in Request, Load(r) PROVE Busy'
      BY <1>8, RolesAssumption DEF Load, Goto, TypeOK, Busy
<1>9. ASSUME NEW r \in Request, Renew(r) PROVE Busy'
      BY <1>9 DEF Renew, Renewable, InGrace, Due, Prolonged, Finish, Goto, TypeOK, Busy
<1>10. ASSUME NEW r \in Request, FindTicket(r) PROVE Busy'
      BY <1>10, RolesAssumption DEF FindTicket, Goto, TypeOK, Busy
<1>11. ASSUME NEW r \in Request, Redeem(r) PROVE Busy'
      BY <1>11, OpenFacts DEF Redeem, Unexpired, Consumable, Finish, Goto, TypeOK, Busy
<1>12. ASSUME Reset PROVE Busy'
      BY <1>12, EndFacts DEF Reset, NewPassword, SessionsOf, requests, Busy
<1>13. ASSUME BatchCreate PROVE Busy'
      BY <1>13, EndFacts DEF BatchCreate, NewPassword, SessionsOf, requests, Busy
<1>14. ASSUME CreateUser PROVE Busy'
      BY <1>14 DEF CreateUser, SessionsOf, requests, Busy
<1>15. ASSUME Deactivate PROVE Busy'
      BY <1>15, EndFacts DEF Deactivate, SessionsOf, requests, Busy
<1>16. ASSUME Logout PROVE Busy'
      BY <1>16, EndFacts DEF Logout, SessionsOf, requests, Busy
<1>17. ASSUME CleanAllSessions PROVE Busy'
      BY <1>17, EndFacts DEF CleanAllSessions, SessionsOf, requests, Busy
<1>18. ASSUME Bridge PROVE Busy'
      BY <1>18 DEF Bridge, Unexpired, SessionsOf, requests, Busy
<1>19. ASSUME Tick PROVE Busy'
      BY <1>19 DEF Tick, SessionsOf, requests, Busy
<1>20. ASSUME UNCHANGED vars PROVE Busy'
      BY <1>20 DEF vars, requests, Busy
<1> QED
      BY <1>1, <1>2, <1>3, <1>4, <1>5, <1>6, <1>7, <1>8, <1>9, <1>10, <1>11, <1>12,
         <1>13, <1>14, <1>15, <1>16, <1>17, <1>18, <1>19, <1>20
      DEF Next, Step

\* Keys are used once, by a user.
LEMMA OwnedStep == IInv /\ [Next]_vars => Owned'
<1> SUFFICES ASSUME IInv, [Next]_vars PROVE Owned'
      OBVIOUS
<1> USE DEF IInv
<1>1. ASSUME NEW r \in Request, LoginRead(r) PROVE Owned'
      BY <1>1 DEF LoginRead, ReadHash, Goto, sessions, history, Owned
<1>2. ASSUME NEW r \in Request, LoginCommit(r) PROVE Owned'
      BY <1>2, OpenFacts, TimeAssumption, RolesAssumption
      DEF LoginCommit, StillValid, Finish, Goto, TypeOK, sessions, Owned, Busy
<1>3. ASSUME NEW r \in Request, FindAccount(r) PROVE Owned'
      BY <1>3 DEF FindAccount, Goto, sessions, history, Owned
<1>4. ASSUME NEW r \in Request, CreateAccount(r) PROVE Owned'
      BY <1>4 DEF CreateAccount, Goto, sessions, history, Owned
<1>5. ASSUME NEW r \in Request, Issue(r) PROVE Owned'
      BY <1>5, OpenFacts DEF Issue, Finish, Goto, TypeOK, sessions, Owned, Busy, Request
<1>6. ASSUME NEW r \in Request, ChangeRead(r) PROVE Owned'
      BY <1>6 DEF ChangeRead, ReadHash, Goto, sessions, history, Owned
<1>7. ASSUME NEW r \in Request, ChangeCommit(r) PROVE Owned'
  <2>1. CASE StillValid(r)
    <3>1. who[r] \in User /\ SessionsOf({who[r]}) \in SUBSET Key
          BY <1>7 DEF ChangeCommit, SessionsOf, Busy
    <3>2. /\ password[who[r]] < MaxHash
          /\ password' = [u \in User |-> IF u \in {who[r]} THEN password[u] + 1 ELSE password[u]]
          /\ End(SessionsOf({who[r]}))
          BY <1>7, <2>1, <3>1 DEF ChangeCommit, NewPassword
    <3> QED
          BY <1>7, <3>1, <3>2, EndFacts
          DEF ChangeCommit, Finish, Goto, SessionsOf, Owned
  <2>2. CASE ~StillValid(r)
        BY <1>7, <2>2 DEF ChangeCommit, Finish, Goto, sessions, history, Owned
  <2> QED
        BY <2>1, <2>2
<1>8. ASSUME NEW r \in Request, Load(r) PROVE Owned'
      BY <1>8 DEF Load, Goto, sessions, history, Owned
<1>9. ASSUME NEW r \in Request, Renew(r) PROVE Owned'
      BY <1>9
      DEF Renew, Renewable, InGrace, Due, Prolonged, Finish, Goto, TypeOK, history,
          Owned
<1>10. ASSUME NEW r \in Request, FindTicket(r) PROVE Owned'
      BY <1>10 DEF FindTicket, Goto, sessions, history, Owned
<1>11. ASSUME NEW r \in Request, Redeem(r) PROVE Owned'
      BY <1>11, OpenFacts
      DEF Redeem, Unexpired, Consumable, Finish, Goto, TypeOK, sessions, Owned,
          Pending, Busy
<1>12. ASSUME Reset PROVE Owned'
      BY <1>12, EndFacts DEF Reset, NewPassword, SessionsOf, Owned
<1>13. ASSUME BatchCreate PROVE Owned'
      BY <1>13, EndFacts DEF BatchCreate, NewPassword, SessionsOf, Owned
<1>14. ASSUME CreateUser PROVE Owned'
      BY <1>14 DEF CreateUser, SessionsOf, sessions, history, Owned
<1>15. ASSUME Deactivate PROVE Owned'
      BY <1>15, EndFacts DEF Deactivate, SessionsOf, Owned
<1>16. ASSUME Logout PROVE Owned'
      BY <1>16, EndFacts DEF Logout, SessionsOf, Owned
<1>17. ASSUME CleanAllSessions PROVE Owned'
      BY <1>17, EndFacts DEF CleanAllSessions, SessionsOf, Owned
<1>18. ASSUME Bridge PROVE Owned'
      BY <1>18 DEF Bridge, Unexpired, SessionsOf, sessions, Owned
<1>19. ASSUME Tick PROVE Owned'
      BY <1>19 DEF Tick, SessionsOf, sessions, history, Owned
<1>20. ASSUME UNCHANGED vars PROVE Owned'
      BY <1>20 DEF vars, sessions, history, Owned
<1> QED
      BY <1>1, <1>2, <1>3, <1>4, <1>5, <1>6, <1>7, <1>8, <1>9, <1>10, <1>11, <1>12,
         <1>13, <1>14, <1>15, <1>16, <1>17, <1>18, <1>19, <1>20
      DEF Next, Step

\* A ticket leaves its row when it becomes void, or when its session ends.
LEMMA PendingStep == IInv /\ [Next]_vars => Pending'
<1> SUFFICES ASSUME IInv, [Next]_vars PROVE Pending'
      OBVIOUS
<1> USE DEF IInv
<1>1. ASSUME NEW r \in Request, LoginRead(r) PROVE Pending'
      BY <1>1 DEF LoginRead, ReadHash, Goto, sessions, history, tickets, Pending
<1>2. ASSUME NEW r \in Request, LoginCommit(r) PROVE Pending'
      BY <1>2, OpenFacts
      DEF LoginCommit, StillValid, Finish, Goto, TypeOK, sessions, tickets, Pending,
          Busy
<1>3. ASSUME NEW r \in Request, FindAccount(r) PROVE Pending'
      BY <1>3 DEF FindAccount, Goto, sessions, history, tickets, Pending
<1>4. ASSUME NEW r \in Request, CreateAccount(r) PROVE Pending'
      BY <1>4 DEF CreateAccount, Goto, sessions, history, tickets, Pending
<1>5. ASSUME NEW r \in Request, Issue(r) PROVE Pending'
      BY <1>5, OpenFacts
      DEF Issue, Finish, Goto, TypeOK, sessions, tickets, Pending, Busy
<1>6. ASSUME NEW r \in Request, ChangeRead(r) PROVE Pending'
      BY <1>6 DEF ChangeRead, ReadHash, Goto, sessions, history, tickets, Pending
<1>7. ASSUME NEW r \in Request, ChangeCommit(r) PROVE Pending'
  <2>1. CASE StillValid(r)
    <3>1. who[r] \in User /\ SessionsOf({who[r]}) \in SUBSET Key
          BY <1>7 DEF ChangeCommit, SessionsOf, Busy
    <3>2. /\ password[who[r]] < MaxHash
          /\ password' = [u \in User |-> IF u \in {who[r]} THEN password[u] + 1 ELSE password[u]]
          /\ End(SessionsOf({who[r]}))
          BY <1>7, <2>1, <3>1 DEF ChangeCommit, NewPassword
    <3> QED
          BY <1>7, <3>1, <3>2, EndFacts
          DEF ChangeCommit, Finish, Goto, SessionsOf, Pending
  <2>2. CASE ~StillValid(r)
        BY <1>7, <2>2
        DEF ChangeCommit, Finish, Goto, sessions, history, tickets, Pending
  <2> QED
        BY <2>1, <2>2
<1>8. ASSUME NEW r \in Request, Load(r) PROVE Pending'
      BY <1>8 DEF Load, Goto, sessions, history, tickets, Pending
<1>9. ASSUME NEW r \in Request, Renew(r) PROVE Pending'
      BY <1>9
      DEF Renew, Renewable, InGrace, Due, Prolonged, Finish, Goto, TypeOK, history,
          tickets, Pending
<1>10. ASSUME NEW r \in Request, FindTicket(r) PROVE Pending'
      BY <1>10 DEF FindTicket, Goto, sessions, history, tickets, Pending
<1>11. ASSUME NEW r \in Request, Redeem(r) PROVE Pending'
      BY <1>11, OpenFacts
      DEF Redeem, Unexpired, Consumable, Finish, Goto, TypeOK, sessions, Owned,
          Pending, Busy
<1>12. ASSUME Reset PROVE Pending'
      BY <1>12, EndFacts DEF Reset, NewPassword, SessionsOf, Pending
<1>13. ASSUME BatchCreate PROVE Pending'
      BY <1>13, EndFacts DEF BatchCreate, NewPassword, SessionsOf, Pending
<1>14. ASSUME CreateUser PROVE Pending'
      BY <1>14 DEF CreateUser, SessionsOf, sessions, history, tickets, Pending
<1>15. ASSUME Deactivate PROVE Pending'
      BY <1>15, EndFacts DEF Deactivate, SessionsOf, Pending
<1>16. ASSUME Logout PROVE Pending'
      BY <1>16, EndFacts DEF Logout, SessionsOf, Pending
<1>17. ASSUME CleanAllSessions PROVE Pending'
      BY <1>17, EndFacts DEF CleanAllSessions, SessionsOf, Pending
<1>18. ASSUME Bridge PROVE Pending'
      BY <1>18 DEF Bridge, Unexpired, SessionsOf, TypeOK, sessions, Pending
<1>19. ASSUME Tick PROVE Pending'
      BY <1>19 DEF Tick, SessionsOf, sessions, history, tickets, Pending
<1>20. ASSUME UNCHANGED vars PROVE Pending'
      BY <1>20 DEF vars, sessions, history, tickets, Pending
<1> QED
      BY <1>1, <1>2, <1>3, <1>4, <1>5, <1>6, <1>7, <1>8, <1>9, <1>10, <1>11, <1>12,
         <1>13, <1>14, <1>15, <1>16, <1>17, <1>18, <1>19, <1>20
      DEF Next, Step

\* A session is opened under the lock of the row by which every change of it ends the sessions.
LEMMA CurrentStep == IInv /\ [Next]_vars => SessionsCurrent'
<1> SUFFICES ASSUME IInv, [Next]_vars PROVE SessionsCurrent'
      OBVIOUS
<1> USE DEF IInv
<1>1. ASSUME NEW r \in Request, LoginRead(r) PROVE SessionsCurrent'
      BY <1>1
      DEF LoginRead, ReadHash, Goto, sessions, history, SessionsCurrent, accounts
<1>2. ASSUME NEW r \in Request, LoginCommit(r) PROVE SessionsCurrent'
      BY <1>2, OpenFacts
      DEF LoginCommit, StillValid, SessionsCurrent, TypeOK, accounts, sessions,
          tickets, Busy, Owned
<1>3. ASSUME NEW r \in Request, FindAccount(r) PROVE SessionsCurrent'
      BY <1>3 DEF FindAccount, Goto, sessions, history, SessionsCurrent, accounts
<1>4. ASSUME NEW r \in Request, CreateAccount(r) PROVE SessionsCurrent'
      BY <1>4 DEF CreateAccount, Goto, sessions, history, SessionsCurrent
<1>5. ASSUME NEW r \in Request, Issue(r) PROVE SessionsCurrent'
      BY <1>5, OpenFacts
      DEF Issue, Finish, Goto, TypeOK, sessions, tickets, SessionsCurrent, accounts,
          Busy, Request
<1>6. ASSUME NEW r \in Request, ChangeRead(r) PROVE SessionsCurrent'
      BY <1>6
      DEF ChangeRead, ReadHash, Goto, sessions, history, SessionsCurrent, accounts
<1>7. ASSUME NEW r \in Request, ChangeCommit(r) PROVE SessionsCurrent'
  <2>1. CASE StillValid(r)
    <3>1. who[r] \in User /\ SessionsOf({who[r]}) \in SUBSET Key
          BY <1>7 DEF ChangeCommit, SessionsOf, Busy
    <3>2. /\ password[who[r]] < MaxHash
          /\ password' = [u \in User |-> IF u \in {who[r]} THEN password[u] + 1 ELSE password[u]]
          /\ End(SessionsOf({who[r]}))
          BY <1>7, <2>1, <3>1 DEF ChangeCommit, NewPassword
    <3>3. /\ \A k \in SessionsOf({who[r]}) : session'[k] = "gone"
          /\ \A k \in Key \ SessionsOf({who[r]}) : session'[k] = session[k]
          /\ UNCHANGED <<account, owner, made>>
          BY <1>7, <3>1, <3>2, EndFacts DEF ChangeCommit
    <3>4. \A u \in User \ {who[r]} : password'[u] = password[u]
          BY <3>2
    <3> QED
          BY <3>3, <3>4 DEF SessionsOf, Owned, SessionsCurrent
  <2>2. CASE ~StillValid(r)
        BY <1>7, <2>2 DEF ChangeCommit, Finish, Goto, sessions, history, SessionsCurrent
  <2> QED
        BY <2>1, <2>2
<1>8. ASSUME NEW r \in Request, Load(r) PROVE SessionsCurrent'
      BY <1>8 DEF Load, Goto, sessions, history, SessionsCurrent, accounts
<1>9. ASSUME NEW r \in Request, Renew(r) PROVE SessionsCurrent'
      BY <1>9
      DEF Renew, Renewable, InGrace, Due, Prolonged, Finish, Goto, TypeOK, history,
          SessionsCurrent, accounts
<1>10. ASSUME NEW r \in Request, FindTicket(r) PROVE SessionsCurrent'
      BY <1>10 DEF FindTicket, Goto, sessions, history, SessionsCurrent, accounts
<1>11. ASSUME NEW r \in Request, Redeem(r) PROVE SessionsCurrent'
      BY <1>11, OpenFacts
      DEF Redeem, Unexpired, Consumable, Finish, Goto, TypeOK, sessions, Owned,
          SessionsCurrent, accounts, Busy
<1>12. ASSUME Reset PROVE SessionsCurrent'
      BY <1>12, EndFacts DEF Reset, NewPassword, SessionsOf, Owned, SessionsCurrent
<1>13. ASSUME BatchCreate PROVE SessionsCurrent'
      BY <1>13, EndFacts
      DEF BatchCreate, NewPassword, SessionsOf, Owned, SessionsCurrent
<1>14. ASSUME CreateUser PROVE SessionsCurrent'
      BY <1>14 DEF CreateUser, SessionsOf, sessions, history, SessionsCurrent
<1>15. ASSUME Deactivate PROVE SessionsCurrent'
      BY <1>15, EndFacts DEF Deactivate, SessionsOf, SessionsCurrent
<1>16. ASSUME Logout PROVE SessionsCurrent'
      BY <1>16, EndFacts DEF Logout, SessionsOf, SessionsCurrent, accounts
<1>17. ASSUME CleanAllSessions PROVE SessionsCurrent'
      BY <1>17, EndFacts DEF CleanAllSessions, SessionsOf, SessionsCurrent
<1>18. ASSUME Bridge PROVE SessionsCurrent'
      BY <1>18 DEF Bridge, Unexpired, SessionsOf, sessions, SessionsCurrent, accounts
<1>19. ASSUME Tick PROVE SessionsCurrent'
      BY <1>19 DEF Tick, SessionsOf, sessions, history, SessionsCurrent, accounts
<1>20. ASSUME UNCHANGED vars PROVE SessionsCurrent'
      BY <1>20 DEF vars, SessionsCurrent, sessions, history, accounts
<1> QED
      BY <1>1, <1>2, <1>3, <1>4, <1>5, <1>6, <1>7, <1>8, <1>9, <1>10, <1>11, <1>12,
         <1>13, <1>14, <1>15, <1>16, <1>17, <1>18, <1>19, <1>20
      DEF Next, Step

LEMMA InitIInv == Init => IInv
BY TimeAssumption DEF Init, IInv, TypeOK, Owned, SessionsCurrent, Pending, Busy

LEMMA StepIInv == IInv /\ [Next]_vars => IInv'
BY TypeStep, BusyStep, OwnedStep, PendingStep, CurrentStep DEF IInv

LEMMA Invariance == Spec => []IInv
<1>1. Init => IInv
      BY InitIInv
<1>2. IInv /\ [Next]_vars => IInv'
      BY StepIInv
<1> QED
      BY <1>1, <1>2, PTL DEF Spec

-----------------------------------------------------------------------------
(* The theorems.                                                            *)

\* Every variable has its type.
THEOREM TypeCorrect == Spec => []TypeOK
<1>1. IInv => TypeOK
      BY DEF IInv
<1> QED
      BY <1>1, Invariance, PTL

\* No session outlives the password it was opened with, or its user's account.
THEOREM SessionsAreCurrent == Spec => []SessionsCurrent
<1>1. IInv => SessionsCurrent
      BY DEF IInv
<1> QED
      BY <1>1, Invariance, PTL

\* A step that opens a session with a ticket is Redeem, and the ticket is then
\* the one its session holds.
LEMMA OpenedByRedeem ==
    IInv /\ [Next]_vars =>
        \A k \in Key : from'[k] # from[k] => from'[k] \notin void /\ ends[from'[k]] > now
<1> SUFFICES ASSUME IInv, [Next]_vars, NEW k \in Key, from'[k] # from[k]
             PROVE  from'[k] \notin void /\ ends[from'[k]] > now
    OBVIOUS
<1> USE DEF IInv
<1>1. ASSUME NEW r \in Request, LoginCommit(r) PROVE FALSE
  <2>1. StillValid(r) => who[r] \in User /\ stored[r] \in 0..MaxHash
        BY <1>1 DEF LoginCommit, TypeOK, Busy
  <2> QED
      BY <1>1, <2>1, OpenFacts DEF LoginCommit, Owned
<1>2. ASSUME NEW r \in Request, Issue(r) PROVE FALSE
  <2>1. who[r] \in User /\ password[who[r]] \in 0..MaxHash
        BY <1>2 DEF Issue, TypeOK, Busy
  <2> QED
      BY <1>2, <2>1, OpenFacts DEF Issue, Owned
<1>3. ASSUME NEW r \in Request, Redeem(r) PROVE from'[k] \notin void /\ ends[from'[k]] > now
  <2>1. with[r] \in Key /\ shown[r] \in Ticket
        BY <1>3 DEF Redeem, Busy
  <2>2. CASE Unexpired(with[r]) /\ Consumable(r)
    <3>1. /\ owner[with[r]] \in User /\ made[with[r]] \in 0..MaxHash
          /\ shown[r] \notin void /\ ends[shown[r]] > now
          BY <2>1, <2>2, NoneAssumption
          DEF Unexpired, Consumable, TypeOK, Owned, Pending
    <3> QED
          BY <1>3, <2>1, <2>2, <3>1, OpenFacts DEF Redeem
  <2>3. CASE ~(Unexpired(with[r]) /\ Consumable(r))
        BY <1>3, <2>3 DEF Redeem
  <2> QED
      BY <2>2, <2>3
<1>4. ASSUME UNCHANGED from PROVE FALSE
      BY <1>4
<1>5. ASSUME NEW r \in Request,
             LoginRead(r) \/ FindAccount(r) \/ CreateAccount(r) \/ ChangeRead(r)
                 \/ ChangeCommit(r) \/ Load(r) \/ Renew(r) \/ FindTicket(r)
      PROVE  UNCHANGED from
      BY <1>5
      DEF LoginRead, ReadHash, FindAccount, CreateAccount, ChangeRead, ChangeCommit,
          NewPassword, End, Load, Renew, FindTicket, history
<1>6. ASSUME Reset \/ BatchCreate \/ CreateUser \/ Deactivate \/ Logout \/ CleanAllSessions
                 \/ Bridge \/ Tick \/ UNCHANGED vars
      PROVE  UNCHANGED from
      BY <1>6
      DEF Reset, BatchCreate, NewPassword, CreateUser, Deactivate, Logout,
          CleanAllSessions, End, Bridge, Tick, vars, history
<1> QED
      BY <1>1, <1>2, <1>3, <1>4, <1>5, <1>6 DEF Next, Step

\* A ticket opens one session, in its time.
THEOREM TicketsOpenOnce == Spec => TicketOnce
<1>1. IInv /\ [Next]_vars =>
          [\A k \in Key :
              from'[k] # from[k] => from'[k] \notin void /\ ends[from'[k]] > now]_vars
      BY OpenedByRedeem
<1> QED
      BY <1>1, Invariance, PTL DEF Spec, TicketOnce

\* What a renewal may do to a session.
LEMMA RenewalBound ==
    IInv /\ [Next]_vars =>
        \A k \in Key :
            /\ session[k] = "gone" => session'[k] = "gone"
            /\ session[k] = "live" /\ ~InGrace(k) => expires'[k] = expires[k]
<1> SUFFICES ASSUME IInv, [Next]_vars, NEW k \in Key
             PROVE  /\ session[k] = "gone" => session'[k] = "gone"
                    /\ session[k] = "live" /\ ~InGrace(k) => expires'[k] = expires[k]
    OBVIOUS
<1> USE DEF IInv
<1> DEFINE Kept == /\ session[k] = "gone" => session'[k] = "gone"
                   /\ session[k] = "live" /\ ~InGrace(k) => expires'[k] = expires[k]
<1>1. ASSUME NEW r \in Request, LoginCommit(r) PROVE Kept
  <2>1. StillValid(r) => who[r] \in User /\ stored[r] \in 0..MaxHash
        BY <1>1 DEF LoginCommit, TypeOK, Busy
  <2> QED
      BY <1>1, <2>1, OpenFacts DEF LoginCommit, sessions
<1>2. ASSUME NEW r \in Request, Issue(r) PROVE Kept
  <2>1. who[r] \in User /\ password[who[r]] \in 0..MaxHash
        BY <1>2 DEF Issue, TypeOK, Busy
  <2> QED
      BY <1>2, <2>1, OpenFacts DEF Issue, sessions
<1>3. ASSUME NEW r \in Request, Redeem(r) PROVE Kept
  <2>1. with[r] \in Key /\ shown[r] \in Ticket
        BY <1>3 DEF Redeem, Busy
  <2>2. Unexpired(with[r]) => owner[with[r]] \in User /\ made[with[r]] \in 0..MaxHash
        BY <2>1 DEF Unexpired, TypeOK, Owned
  <2> QED
      BY <1>3, <2>1, <2>2, OpenFacts DEF Redeem, sessions
<1>4. ASSUME NEW r \in Request, Renew(r) PROVE Kept
  <2>1. with[r] \in Key
        BY <1>4 DEF Renew, Busy
  <2>2. CASE Renewable(with[r]) /\ Due(with[r])
        BY <1>4, <2>1, <2>2 DEF Renew, Renewable, TypeOK
  <2>3. CASE ~(Renewable(with[r]) /\ Due(with[r]))
        BY <1>4, <2>3 DEF Renew
  <2> QED
      BY <2>2, <2>3
<1>5. ASSUME NEW K \in SUBSET Key, End(K) PROVE Kept
      BY <1>5, EndFacts
<1>6. ASSUME NEW r \in Request, ChangeCommit(r) PROVE Kept
      BY <1>6, <1>5 DEF ChangeCommit, NewPassword, SessionsOf, sessions
<1>7. ASSUME Reset \/ BatchCreate \/ Deactivate \/ Logout \/ CleanAllSessions PROVE Kept
      BY <1>7, <1>5
      DEF Reset, BatchCreate, NewPassword, Deactivate, Logout, CleanAllSessions,
          SessionsOf
<1>8. ASSUME UNCHANGED sessions PROVE Kept
      BY <1>8 DEF sessions
<1>9. ASSUME NEW r \in Request,
             LoginRead(r) \/ FindAccount(r) \/ CreateAccount(r) \/ ChangeRead(r)
                 \/ Load(r) \/ FindTicket(r)
      PROVE  UNCHANGED sessions
      BY <1>9
      DEF LoginRead, ReadHash, FindAccount, CreateAccount, ChangeRead, Load,
          FindTicket
<1>10. ASSUME CreateUser \/ Bridge \/ Tick \/ UNCHANGED vars PROVE UNCHANGED sessions
      BY <1>10 DEF CreateUser, Bridge, Tick, vars
<1> QED
      BY <1>1, <1>2, <1>3, <1>4, <1>6, <1>7, <1>8, <1>9, <1>10 DEF Next, Step

\* A session that is gone stays so, and one whose grace is over is not renewed.
THEOREM GoneStaysGone == Spec => NoRevival
<1>1. IInv /\ [Next]_vars =>
          [\A k \in Key :
              /\ session[k] = "gone" => session'[k] = "gone"
              /\ session[k] = "live" /\ ~InGrace(k) => expires'[k] = expires[k]]_vars
      BY RenewalBound
<1> QED
      BY <1>1, Invariance, PTL DEF Spec, NoRevival
=============================================================================
