------------------------ MODULE FrontendSession_proofs ------------------------
(***************************************************************************)
(* What holds of FrontendSession for any accounts and any number of        *)
(* requests: types, that whoever waits has a refresh to wait for, and that *)
(* cached data belongs to the account that is signed in.                   *)
(***************************************************************************)
EXTENDS FrontendSession, TLAPS

-----------------------------------------------------------------------------
(* Types. *)

LEMMA TypeInit == Init => TypeOK
  <1> SUFFICES ASSUME Init PROVE TypeOK
    OBVIOUS
  <1>1. call \in Call
    BY DEF Init, MountCall, Call
  <1>2. req \in [Requests -> Request \cup {None}]
    BY DEF Init
  <1>. QED
    BY <1>1, <1>2 DEF Init, TypeOK, Someone

LEMMA SentTyped == TypeOK => \A f \in {"query", "health", "other"} : Sent(f) \in Request
  BY DEF TypeOK, Sent, Request

LEMMA IssueTyped ==
  ASSUME TypeOK, NEW r \in Requests, NEW f \in {"query", "health", "other"}, Issue(r, f),
         shell' \in {"connecting", "up", "rejected", "down"}
  PROVE  TypeOK'
  <1>1. req' \in [Requests -> Request \cup {None}]
    BY SentTyped DEF Issue, TypeOK
  <1>. QED
    BY <1>1 DEF Issue, TypeOK

\* A request that is sent or waiting is a full record.
LEMMA ReqTyped ==
  ASSUME TypeOK, NEW r \in Requests, req[r] # None
  PROVE  req[r] \in Request
  BY DEF TypeOK

LEMMA ResentTyped ==
  ASSUME TypeOK, NEW r \in Requests, refresh # None
  PROVE  Resent(r) \in Request \cup {None}
  BY DEF TypeOK, Resent, Waiting, Request, Refresh

LEMMA OrphanedTyped ==
  ASSUME TypeOK, NEW r \in Requests
  PROVE  Orphaned(r) \in Request \cup {None}
  BY DEF TypeOK, Orphaned, Request

LEMMA LoadTyped ==
  ASSUME TypeOK, NEW to \in {"login", "checking"}, Load(to)
  PROVE  TypeOK'
  <1>1. cookie' \in Someone
    BY DEF Load, Kept, TypeOK, Call, Someone
  <1>2. call' \in Call \cup {None}
    BY <1>1 DEF Load, MountCall, Call
  <1>. QED
    BY <1>1, <1>2 DEF Load, TypeOK, Someone

LEMMA SignInTyped ==
  ASSUME TypeOK, NEW a \in Someone, NEW to \in {"login", "checking", "app"}, SignIn(a, to),
         cookie' \in Someone
  PROVE  TypeOK'
  <1>1. shell' \in {"connecting", "up", "rejected", "down"}
    BY DEF SignIn, Mounted
  <1>. QED
    BY <1>1 DEF SignIn, TypeOK, Mixes

LEMMA CallTyped ==
  ASSUME TypeOK, NEW k, Is(k)
  PROVE  call.acc \in Someone
  BY DEF TypeOK, Is, Call

LEMMA TypeNext == TypeOK /\ [Next]_vars => TypeOK'
  <1> SUFFICES ASSUME TypeOK, [Next]_vars PROVE TypeOK'
    OBVIOUS
  <1>1. ASSUME NEW r \in Requests, IssueQuery(r) \/ IssueMutation(r) PROVE TypeOK'
    BY <1>1, IssueTyped DEF IssueQuery, IssueMutation, TypeOK
  <1>2. ASSUME NEW r \in Requests, IssueHealth(r) PROVE TypeOK'
    BY <1>2, IssueTyped DEF IssueHealth
  <1>3. ASSUME NEW r \in Requests, AnswerOk(r) PROVE TypeOK'
    <2>1. req[r].token \in Someone
      BY <1>3, ReqTyped DEF AnswerOk, IsSent, Request
    <2>2. shell' \in {"connecting", "up", "rejected", "down"}
      BY <1>3 DEF AnswerOk, Shown, TypeOK
    <2>. QED
      BY <1>3, <2>1, <2>2 DEF AnswerOk, TypeOK
  <1>4. ASSUME NEW r \in Requests, AnswerError(r) PROVE TypeOK'
    <2>1. shell' \in {"connecting", "up", "rejected", "down"}
      BY <1>4 DEF AnswerError, Shown, TypeOK
    <2>. QED
      BY <1>4, <2>1 DEF AnswerError, TypeOK
  <1>5. ASSUME NEW r \in Requests, Answer401(r) PROVE TypeOK'
    <2>1. req[r] \in Request
      BY <1>5, ReqTyped DEF Answer401, IsSent
    <2>2. /\ [req[r] EXCEPT !.pc = "refreshing", !.again = TRUE] \in Request
          /\ [req[r] EXCEPT !.pc = "queued", !.again = TRUE] \in Request
      BY <2>1 DEF Request
    <2>3. req' \in [Requests -> Request \cup {None}]
      BY <1>5, <2>2 DEF Answer401, Joins, TypeOK
    <2>4. refresh' \in Refresh \cup {None}
      BY <1>5 DEF Answer401, Joins, TypeOK, Refresh
    <2>. QED
      BY <1>5, <2>3, <2>4 DEF Answer401, TypeOK
  <1>6. CASE RefreshOk
    <2>1. req' \in [Requests -> Request \cup {None}]
      BY <1>6, ResentTyped DEF RefreshOk
    <2>2. token' \in Someone /\ mixed' \in BOOLEAN
      BY <1>6 DEF RefreshOk, TypeOK, Refresh, Mixes
    <2>. QED
      BY <1>6, <2>1, <2>2 DEF RefreshOk, TypeOK
  <1>7. CASE RefreshFails
    <2>1. req' \in [Requests -> Request \cup {None}]
      BY <1>7, OrphanedTyped DEF RefreshFails
    <2>. QED
      BY <1>7, <2>1 DEF RefreshFails, TypeOK, Someone
  <1>8. CASE Leave \/ Reload
    BY <1>8, LoadTyped DEF Leave, Reload
  <1>9. CASE VisitAnonymous
    <2>1. call' \in Call
      BY <1>9 DEF VisitAnonymous, MountCall, Call, TypeOK
    <2>. QED
      BY <1>9, <2>1 DEF VisitAnonymous, TypeOK
  <1>10. CASE VisitSignedIn
    BY <1>10 DEF VisitSignedIn, Mounted, TypeOK
  <1>11. CASE GoToLogin
    BY <1>11 DEF GoToLogin, TypeOK
  <1>12. ASSUME NEW a \in Accounts, SubmitLogin(a) PROVE TypeOK'
    <2>1. call' \in Call
      BY <1>12 DEF SubmitLogin, Call, Someone
    <2>. QED
      BY <1>12, <2>1 DEF SubmitLogin, TypeOK
  <1>13. CASE SubmitLogout
    <2>1. call' \in Call
      BY <1>13 DEF SubmitLogout, Call, Someone
    <2>. QED
      BY <1>13, <2>1 DEF SubmitLogout, TypeOK
  <1>14. CASE MountOk
    BY <1>14, SignInTyped, CallTyped DEF MountOk, TypeOK
  <1>15. CASE MountFails
    BY <1>15 DEF MountFails, TypeOK
  <1>16. CASE LoginOk
    BY <1>16, SignInTyped, CallTyped DEF LoginOk
  <1>17. CASE LoginFails
    BY <1>17 DEF LoginFails, TypeOK
  <1>18. CASE LogoutDone
    <2>1. req' \in [Requests -> Request \cup {None}]
      BY <1>18, OrphanedTyped DEF LogoutDone
    <2>. QED
      BY <1>18, <2>1 DEF LogoutDone, TypeOK, Someone
  <1>19. CASE UNCHANGED vars
    BY <1>19 DEF vars, TypeOK
  <1>. QED
    BY <1>1, <1>2, <1>3, <1>4, <1>5, <1>6, <1>7, <1>8, <1>9, <1>10, <1>11, <1>12, <1>13, <1>14,
       <1>15, <1>16, <1>17, <1>18, <1>19 DEF Next, Answer, CallEnds

\* client.ts:55-101, authStore.ts:30-32: requests, refresh, calls and the stores keep their
\* shape, for any set of accounts and any number of requests under way.
THEOREM TypeCorrect == Spec => []TypeOK
  <1>. QED
    BY TypeInit, TypeNext, PTL DEF Spec

-----------------------------------------------------------------------------
(* The queue behind the refresh. *)

\* What an action may do to a request and to the refresh without breaking the queue.
Settles == refresh' = None /\ \A r \in Requests : req'[r] = None \/ req'[r].pc = "sent"

LEMMA SettledIsFine == ASSUME Settles PROVE WaitersHaveRefresh'
  BY DEF Settles, WaitersHaveRefresh, Waiting

\* Requests keep their place in the queue, or are new, or answered.
LEMMA KeptIsFine ==
  ASSUME WaitersHaveRefresh, UNCHANGED refresh,
         \A r \in Requests :
            \/ req'[r] = req[r]
            \/ /\ req[r] = None \/ req[r].pc = "sent"
               /\ req'[r] = None \/ req'[r].pc = "sent"
            \/ req[r] # None /\ req'[r] # None /\ req'[r].pc = req[r].pc
  PROVE  WaitersHaveRefresh'
  BY DEF WaitersHaveRefresh, Waiting

LEMMA OrphanedKeepsPlace ==
  ASSUME TypeOK, NEW r \in Requests
  PROVE  \/ req[r] = None /\ Orphaned(r) = None
         \/ req[r] # None /\ Orphaned(r) # None /\ Orphaned(r).pc = req[r].pc
  <1>1. CASE req[r] = None
    BY <1>1 DEF Orphaned
  <1>2. CASE req[r] # None
    <2>1. req[r] \in Request
      BY <1>2, ReqTyped
    <2>2. Orphaned(r) \in Request /\ Orphaned(r).pc = req[r].pc
      BY <1>2, <2>1 DEF Orphaned, Request
    <2>3. None \notin Request
      BY NoRecordAssumption
    <2>. QED
      BY <1>2, <2>2, <2>3
  <1>. QED
    BY <1>1, <1>2

LEMMA WaitersNext == TypeOK /\ WaitersHaveRefresh /\ [Next]_vars => WaitersHaveRefresh'
  <1> SUFFICES ASSUME TypeOK, WaitersHaveRefresh, [Next]_vars PROVE WaitersHaveRefresh'
    OBVIOUS
  <1>1. ASSUME NEW r \in Requests, IssueQuery(r) \/ IssueMutation(r) \/ IssueHealth(r)
        PROVE  WaitersHaveRefresh'
    BY <1>1, KeptIsFine DEF IssueQuery, IssueMutation, IssueHealth, Issue, Sent, TypeOK
  <1>2. ASSUME NEW r \in Requests, AnswerOk(r) \/ AnswerError(r) PROVE WaitersHaveRefresh'
    BY <1>2, KeptIsFine DEF AnswerOk, AnswerError, IsSent, TypeOK
  <1>3. ASSUME NEW r \in Requests, Answer401(r) PROVE WaitersHaveRefresh'
    <2>1. req[r] \in Request /\ req[r].pc = "sent"
      BY <1>3, ReqTyped DEF Answer401, IsSent
    <2>2. PICK pc \in {"refreshing", "queued"} :
            /\ req' = [req EXCEPT ![r].pc = pc, ![r].again = TRUE]
            /\ pc = "refreshing" => refresh = None /\ refresh' = [by |-> r, acc |-> cookie]
            /\ pc = "queued" => refresh # None /\ refresh' = refresh
      BY <1>3 DEF Answer401, Joins
    <2>3. req'[r] \in Request /\ req'[r].pc = pc
      BY <2>1, <2>2 DEF TypeOK, Request
    <2>4. \A s \in Requests \ {r} : req'[s] = req[s]
      BY <2>2 DEF TypeOK
    <2>5. None \notin Request /\ None \notin Refresh
      BY NoRecordAssumption
    <2>6. CASE pc = "refreshing"
      <3>1. refresh' \in Refresh /\ refresh'.by = r
        BY <2>2, <2>6 DEF TypeOK, Refresh
      <3>2. \A s \in Requests : req[s] # None => req[s].pc # "refreshing"
        BY <2>2, <2>6 DEF WaitersHaveRefresh
      <3>. QED
        BY <2>3, <2>4, <2>5, <2>6, <3>1, <3>2 DEF WaitersHaveRefresh, Waiting
    <2>7. CASE pc = "queued"
      BY <2>1, <2>2, <2>3, <2>4, <2>5, <2>7 DEF WaitersHaveRefresh, Waiting
    <2>. QED
      BY <2>2, <2>6, <2>7
  <1>4. CASE RefreshOk
    <2>1. \A r \in Requests : Resent(r) = None \/ Resent(r).pc = "sent"
      <3> SUFFICES ASSUME NEW r \in Requests, req[r] # None PROVE Resent(r).pc = "sent"
        BY DEF Resent, Waiting
      <3>1. req[r] \in Request
        BY ReqTyped
      <3>. QED
        BY <3>1 DEF Resent, Waiting, Request
    <2>. QED
      BY <1>4, <2>1, SettledIsFine DEF RefreshOk, Settles
  <1>5. CASE RefreshFails
    <2>1. \A r \in Requests : ~Waiting(r) => Orphaned(r) = None \/ Orphaned(r).pc = "sent"
      BY OrphanedKeepsPlace DEF Waiting
    <2>. QED
      BY <1>5, <2>1, SettledIsFine DEF RefreshFails, Settles
  <1>6. CASE Leave \/ Reload
    BY <1>6, SettledIsFine DEF Leave, Reload, Load, Settles
  <1>7. CASE LogoutDone
    BY <1>7, OrphanedKeepsPlace, KeptIsFine DEF LogoutDone
  <1>8. CASE UNCHANGED <<req, refresh>>
    BY <1>8, KeptIsFine
  <1>9. ASSUME \/ VisitAnonymous \/ VisitSignedIn \/ GoToLogin \/ SubmitLogout
               \/ (\E a \in Accounts : SubmitLogin(a))
               \/ MountOk \/ MountFails \/ LoginOk \/ LoginFails \/ UNCHANGED vars
        PROVE  UNCHANGED <<req, refresh>>
    BY <1>9 DEF VisitAnonymous, VisitSignedIn, GoToLogin, SubmitLogout, SubmitLogin, MountOk,
       MountFails, LoginOk, LoginFails, SignIn, vars
  <1>. QED
    BY <1>1, <1>2, <1>3, <1>4, <1>5, <1>6, <1>7, <1>8, <1>9 DEF Next, Answer, CallEnds

\* client.ts:55-61, 80-95: for any number of requests, whoever waits has one refresh to wait
\* for, started by the one request outside the queue, and whatever ends it settles them all.
THEOREM WaitersAlwaysHaveRefresh == Spec => []WaitersHaveRefresh
  <1>1. Init => TypeOK /\ WaitersHaveRefresh
    BY TypeInit DEF Init, WaitersHaveRefresh, Waiting
  <1>2. TypeOK /\ WaitersHaveRefresh /\ [Next]_vars => TypeOK' /\ WaitersHaveRefresh'
    BY TypeNext, WaitersNext
  <1>. QED
    BY <1>1, <1>2, PTL DEF Spec

-----------------------------------------------------------------------------
(* Whose data is cached. *)

\* The application is there only for somebody, and the queries of a session that no late
\* answer has mixed carry its own token.
QueriesOwn ==
  \A r \in Requests : req[r] # None /\ req[r].for = "query" =>
    user # None /\ (req[r].pc = "sent" => req[r].token = user)

SessionInv ==
  /\ page = "app" => user # None
  /\ ~mixed => (user # None => token = user) /\ QueriesOwn /\ (cache # None => cache = user)

\* A session ends: nothing of it stays in the store, and no query in the cache.
LEMMA EndedIsFine ==
  ASSUME cache' = None, user' = None, page' # "app",
         \A r \in Requests : req'[r] = None \/ req'[r].for # "query"
  PROVE  SessionInv'
  BY DEF SessionInv, QueriesOwn

LEMMA OrphanedIsNoQuery ==
  ASSUME TypeOK, NEW r \in Requests
  PROVE  Orphaned(r) = None \/ Orphaned(r).for # "query"
  BY DEF TypeOK, Orphaned, Request

LEMMA SignInIsFine ==
  ASSUME SessionInv, NEW a \in Someone, NEW to, SignIn(a, to), a # None
  PROVE  SessionInv'
  BY DEF SessionInv, QueriesOwn, SignIn, Mixes

\* A request that is not a query says nothing of the cache.
LEMMA IssueIsFine ==
  ASSUME TypeOK, SessionInv, NEW r \in Requests, NEW f, Issue(r, f)
  PROVE  SessionInv'
  <1>1. UNCHANGED <<user, token, page, cache, mixed>> /\ user # None
    BY DEF Issue, SessionInv
  <1>2. \A s \in Requests : req'[s] = req[s] \/ req'[s].token = token
    BY DEF Issue, Sent, TypeOK
  <1>. QED
    BY <1>1, <1>2 DEF SessionInv, QueriesOwn

\* Whoever signs in has a name: the login form never stores an empty session.
LoginNamed == Is("login") => call.acc # None

LEMMA LoginNext == LoginNamed /\ [Next]_vars => LoginNamed'
  <1> SUFFICES ASSUME LoginNamed, [Next]_vars PROVE LoginNamed'
    OBVIOUS
  <1>1. CASE UNCHANGED call
    BY <1>1 DEF LoginNamed, Is
  <1>2. ASSUME NEW a \in Accounts, SubmitLogin(a) PROVE LoginNamed'
    BY <1>2, NoneAssumption DEF SubmitLogin, LoginNamed, Is
  <1>3. CASE call' = None \/ call'.kind # "login"
    BY <1>3 DEF LoginNamed, Is
  <1>4. ASSUME Leave \/ Reload \/ VisitAnonymous \/ SubmitLogout \/ CallEnds
        PROVE  call' = None \/ call'.kind # "login"
    BY <1>4 DEF Leave, Reload, Load, MountCall, VisitAnonymous, SubmitLogout, CallEnds, MountOk,
       MountFails, LoginOk, LoginFails, LogoutDone, SignIn
  <1>5. ASSUME NEW r \in Requests,
               IssueQuery(r) \/ IssueMutation(r) \/ IssueHealth(r) \/ Answer(r)
        PROVE  UNCHANGED call
    BY <1>5 DEF IssueQuery, IssueMutation, IssueHealth, Issue, Answer, AnswerOk, AnswerError,
       Answer401
  <1>6. ASSUME RefreshOk \/ RefreshFails \/ VisitSignedIn \/ GoToLogin \/ UNCHANGED vars
        PROVE  UNCHANGED call
    BY <1>6 DEF RefreshOk, RefreshFails, VisitSignedIn, GoToLogin, vars
  <1>. QED
    BY <1>1, <1>2, <1>3, <1>4, <1>5, <1>6 DEF Next

LEMMA SessionNext == TypeOK /\ LoginNamed /\ SessionInv /\ [Next]_vars => SessionInv'
  <1> SUFFICES ASSUME TypeOK, LoginNamed, SessionInv, [Next]_vars PROVE SessionInv'
    OBVIOUS
  <1>1. ASSUME NEW r \in Requests, IssueQuery(r) \/ IssueMutation(r) \/ IssueHealth(r)
        PROVE  SessionInv'
    BY <1>1, IssueIsFine DEF IssueQuery, IssueMutation, IssueHealth
  <1>2. ASSUME NEW r \in Requests, AnswerOk(r) PROVE SessionInv'
    <2>1. \A s \in Requests : req'[s] = req[s] \/ req'[s] = None
      BY <1>2 DEF AnswerOk, TypeOK
    <2>2. ~mixed /\ cache' # None => cache' = user
      BY <1>2 DEF AnswerOk, IsSent, SessionInv, QueriesOwn
    <2>. QED
      BY <1>2, <2>1, <2>2 DEF AnswerOk, SessionInv, QueriesOwn
  <1>3. ASSUME NEW r \in Requests, AnswerError(r) PROVE SessionInv'
    <2>1. \A s \in Requests : req'[s] = req[s] \/ req'[s] = None
      BY <1>3 DEF AnswerError, TypeOK
    <2>. QED
      BY <1>3, <2>1 DEF AnswerError, SessionInv, QueriesOwn
  <1>4. ASSUME NEW r \in Requests, Answer401(r) PROVE SessionInv'
    <2>1. req[r] \in Request
      BY <1>4, ReqTyped DEF Answer401, IsSent
    <2>2. req[r] # None
      BY <1>4 DEF Answer401, IsSent
    <2>3. req'[r].for = req[r].for /\ req'[r].pc # "sent"
      BY <1>4, <2>1 DEF Answer401, Joins, TypeOK, Request
    <2>4. \A s \in Requests \ {r} : req'[s] = req[s]
      BY <1>4 DEF Answer401, Joins, TypeOK
    <2>. QED
      BY <1>4, <2>2, <2>3, <2>4 DEF Answer401, SessionInv, QueriesOwn
  <1>5. CASE RefreshOk
    <2>1. \A r \in Requests : req[r] # None =>
            Resent(r).for = req[r].for /\ (Resent(r) = req[r] \/ Resent(r).token = refresh.acc)
      BY ReqTyped DEF Resent, Request
    <2>2. \A r \in Requests : req[r] = None => Resent(r) = None
      BY DEF Resent, Waiting
    <2>3. \A r \in Requests : req'[r] = Resent(r)
      BY <1>5 DEF RefreshOk
    <2>. QED
      BY <1>5, <2>1, <2>2, <2>3 DEF RefreshOk, SessionInv, QueriesOwn, Mixes
  <1>6. CASE RefreshFails
    BY <1>6, OrphanedIsNoQuery, EndedIsFine DEF RefreshFails
  <1>7. ASSUME NEW to \in {"login", "checking"}, Load(to) PROVE SessionInv'
    BY <1>7, EndedIsFine DEF Load
  <1>8. CASE LogoutDone
    BY <1>8, OrphanedIsNoQuery, EndedIsFine DEF LogoutDone
  <1>9. CASE MountOk
    BY <1>9, SignInIsFine, CallTyped DEF MountOk
  <1>10. CASE LoginOk
    <2>1. call.acc # None
      BY <1>10 DEF LoginOk, LoginNamed
    <2>. QED
      BY <1>10, <2>1, SignInIsFine, CallTyped DEF LoginOk
  <1>11. ASSUME \/ VisitAnonymous \/ VisitSignedIn \/ GoToLogin \/ SubmitLogout
                \/ (\E a \in Accounts : SubmitLogin(a))
                \/ MountFails \/ LoginFails \/ UNCHANGED vars
         PROVE  UNCHANGED <<user, token, req, cache, mixed>> /\ (page' = "app" => user # None)
    BY <1>11 DEF VisitAnonymous, VisitSignedIn, GoToLogin, SubmitLogout, SubmitLogin, MountFails,
       LoginFails, SessionInv, vars
  <1>12. CASE UNCHANGED <<user, token, req, cache, mixed>> /\ (page' = "app" => user # None)
    BY <1>12 DEF SessionInv, QueriesOwn
  <1>. QED
    BY <1>1, <1>2, <1>3, <1>4, <1>5, <1>6, <1>7, <1>8, <1>9, <1>10, <1>11, <1>12
       DEF Next, Answer, CallEnds, Leave, Reload

\* queryClient.ts:3-4, client.ts:90-91, TopBar.tsx:47-48: for any accounts and any number of
\* requests, answered as late as can be, the cache holds the data of whoever is signed in.
THEOREM OwnDataAlways == Spec => []OwnDataOnly
  <1>1. Init => TypeOK /\ LoginNamed /\ SessionInv
    BY TypeInit DEF Init, MountCall, LoginNamed, Is, SessionInv, QueriesOwn
  <1>2. TypeOK /\ LoginNamed /\ SessionInv /\ [Next]_vars
          => TypeOK' /\ LoginNamed' /\ SessionInv'
    BY TypeNext, LoginNext, SessionNext
  <1>3. SessionInv => OwnDataOnly
    BY DEF SessionInv, OwnDataOnly
  <1>. QED
    BY <1>1, <1>2, <1>3, PTL DEF Spec
=============================================================================
