--------------------------- MODULE FrontendSession ---------------------------
(***************************************************************************)
(* One browser tab: who is signed in, the requests under way through the   *)
(* API client, the single refresh of the access token they share, and the  *)
(* query cache they fill.                                                  *)
(*                                                                         *)
(* The client answers a 401 by refreshing the token once for all requests  *)
(* and sending each of them again.  Three calls work on the refresh cookie *)
(* without going through the client: the refresh RequireAuth makes when it *)
(* is mounted, signing in and signing out.  Nothing orders their answers   *)
(* and that of the client's refresh.  A token is represented by the        *)
(* account it names; it may expire any time.  The cluster a request goes   *)
(* to is the business of ClusterPages.                                     *)
(***************************************************************************)

CONSTANTS
  Accounts,   \* login accounts
  Requests,   \* slots for requests under way through the client
  None

ASSUME NoneAssumption == None \notin Accounts /\ None \notin Requests

VARIABLES
  cookie,      \* the account of the refresh cookie, or None
  user, token, \* the auth store: who is signed in, and the access token
  page,        \* the route that is mounted: login, checking (RequireAuth), app
  shell,       \* Layout: connecting, up, rejected or down
  leaving,     \* window.location has been assigned
  req,         \* req[r]: the request in slot r
  refresh,     \* isRefreshing: the refresh under way, or None
  call,        \* the call on the cookie that is under way, or None
  cache,       \* the account the cached data was fetched for, or None
  mixed        \* history: an answer changed the account of a session that was not cleared

vars == <<cookie, user, token, page, shell, leaving, req, refresh, call, cache, mixed>>

Someone == Accounts \cup {None}

\* for: a query of a page, Layout's health check, or neither: a mutation, or a
\* query that has left the cache.
Request == [pc: {"sent", "queued", "refreshing"}, for: {"query", "health", "other"},
            token: Someone, again: BOOLEAN]

\* The refresh carries the cookie as it was when it was sent.
Refresh == [by: Requests, acc: Someone]

\* RequireAuth's refresh (mount), authApi.login and authApi.logout.
Call == [kind: {"mount", "login", "logout"}, acc: Someone]

ASSUME NoRecordAssumption == None \notin Request /\ None \notin Refresh /\ None \notin Call

TypeOK ==
  /\ cookie \in Someone /\ user \in Someone /\ token \in Someone
  /\ page \in {"login", "checking", "app"}
  /\ shell \in {"connecting", "up", "rejected", "down"}
  /\ leaving \in BOOLEAN
  /\ req \in [Requests -> Request \cup {None}]
  /\ refresh \in Refresh \cup {None}
  /\ call \in Call \cup {None}
  /\ cache \in Someone
  /\ mixed \in BOOLEAN

MountCall(c) == [kind |-> "mount", acc |-> c]

Init ==
  /\ cookie \in Someone
  /\ user = None /\ token = None
  /\ page = "checking" /\ shell = "connecting" /\ leaving = FALSE
  /\ req = [r \in Requests |-> None]
  /\ refresh = None
  /\ call = MountCall(cookie)
  /\ cache = None
  /\ mixed = FALSE

-----------------------------------------------------------------------------
(* Sending: the request interceptor adds the token that is stored. *)

Sent(f) == [pc |-> "sent", for |-> f, token |-> token, again |-> FALSE]

Issue(r, f) ==
  /\ page = "app" /\ req[r] = None
  /\ req' = [req EXCEPT ![r] = Sent(f)]
  /\ UNCHANGED <<cookie, user, token, page, leaving, refresh, call, cache, mixed>>

\* A query that is under way is not fetched a second time.
Fetching(f) == \E r \in Requests : req[r] # None /\ req[r].for = f

\* Layout renders the pages once it has an answer of the backend.
PagesShown == page = "app" /\ shell \in {"up", "rejected"}

IssueQuery(r) == PagesShown /\ ~Fetching("query") /\ Issue(r, "query") /\ UNCHANGED shell

IssueMutation(r) == PagesShown /\ Issue(r, "other") /\ UNCHANGED shell

\* useBackendHealth: asked when Layout is mounted, and when the window gets the
\* focus.  A check that never succeeded is pending while it is repeated.
IssueHealth(r) ==
  /\ shell # "up" /\ ~Fetching("health")
  /\ Issue(r, "health")
  /\ shell' = "connecting"

-----------------------------------------------------------------------------
(* Answers. *)

\* Mutant: only a successful check ends the wait.
Shown_NeedsData(r, a) ==
  IF req[r].for = "health" /\ a = "up" THEN a ELSE shell

\* What Layout shows after the answer a to the request in slot r.
Shown(r, a) == IF req[r].for = "health" THEN a ELSE shell

IsSent(r) == req[r] # None /\ req[r].pc = "sent"

\* The backend accepts no request without a token.
AnswerOk(r) ==
  /\ IsSent(r) /\ req[r].token # None
  /\ cache' = IF req[r].for = "query" THEN req[r].token ELSE cache
  /\ shell' = Shown(r, "up")
  /\ req' = [req EXCEPT ![r] = None]
  /\ UNCHANGED <<cookie, user, token, page, leaving, refresh, call, mixed>>

\* Another error, or a second 401: formatApiError and reject.  Only a health
\* check without any response makes the backend unreachable.
AnswerError(r) ==
  /\ IsSent(r)
  /\ \E a \in {"rejected", "down"} : shell' = Shown(r, a)
  /\ req' = [req EXCEPT ![r] = None]
  /\ UNCHANGED <<cookie, user, token, page, leaving, refresh, call, cache, mixed>>

\* Mutant: every 401 starts a refresh of its own.
Joins_Never(r) ==
  /\ refresh' = [by |-> r, acc |-> cookie]
  /\ req' = [req EXCEPT ![r].pc = "refreshing", ![r].again = TRUE]

\* Start the refresh, or wait for the one under way.
Joins(r) ==
  \/ /\ refresh = None
     /\ refresh' = [by |-> r, acc |-> cookie]
     /\ req' = [req EXCEPT ![r].pc = "refreshing", ![r].again = TRUE]
  \/ /\ refresh # None
     /\ req' = [req EXCEPT ![r].pc = "queued", ![r].again = TRUE]
     /\ UNCHANGED refresh

\* Only the first 401 of a request.
Answer401(r) ==
  /\ IsSent(r) /\ ~req[r].again
  /\ Joins(r)
  /\ UNCHANGED <<cookie, user, token, page, shell, leaving, call, cache, mixed>>

Waiting(r) == req[r] # None /\ req[r].pc # "sent"

\* Mutant: only the request that refreshed is sent again.
Resent_OnlyOriginal(r) ==
  IF req[r] # None /\ req[r].pc = "refreshing"
  THEN [req[r] EXCEPT !.pc = "sent", !.token = refresh.acc]
  ELSE req[r]

\* drainQueue and the original: sent again with the new token.
Resent(r) ==
  IF Waiting(r) THEN [req[r] EXCEPT !.pc = "sent", !.token = refresh.acc] ELSE req[r]

\* An answer for account a is stored while somebody else is signed in.
Mixes(a) == user # None /\ user # a

\* setAccessToken replaces the token and leaves the user.
RefreshOk ==
  /\ refresh # None /\ refresh.acc # None
  /\ token' = refresh.acc
  /\ mixed' = (mixed \/ Mixes(refresh.acc))
  /\ req' = [r \in Requests |-> Resent(r)]
  /\ refresh' = None
  /\ UNCHANGED <<cookie, user, page, shell, leaving, call, cache>>

\* Mutant: queries under way keep their place in the cache.
Orphaned_Kept(r) == req[r]

\* queryClient.clear() takes the queries out of the cache and drops their
\* answers; the requests themselves go on.
Orphaned(r) == IF req[r] = None THEN None ELSE [req[r] EXCEPT !.for = "other"]

\* Any failure, not only a refusal.  Waiting requests are rejected.  The backend
\* deletes the cookie if the account is gone.  RequireAuth shows /login at once,
\* and then the document is left.
RefreshFails ==
  /\ refresh # None
  /\ cookie' \in {cookie, None}
  /\ user' = None /\ token' = None
  /\ page' = "login" /\ shell' = "connecting" /\ leaving' = TRUE
  /\ req' = [r \in Requests |-> IF Waiting(r) THEN None ELSE Orphaned(r)]
  /\ refresh' = None
  /\ cache' = None /\ mixed' = FALSE
  /\ UNCHANGED call

-----------------------------------------------------------------------------
(* Signing in and out, and moving between the routes. *)

\* What is left of the cookie: a call that is cut off may have changed it.
Kept ==
  {cookie} \cup (IF call = None THEN {}
                 ELSE IF call.kind = "login" THEN {call.acc}
                 ELSE IF call.kind = "logout" THEN {None} ELSE {})

\* A document is loaded: all that is kept is the cookie.
Load(to) ==
  /\ cookie' \in Kept
  /\ user' = None /\ token' = None
  /\ page' = to /\ shell' = "connecting" /\ leaving' = FALSE
  /\ req' = [r \in Requests |-> None]
  /\ refresh' = None
  /\ call' = IF to = "checking" THEN MountCall(cookie') ELSE None
  /\ cache' = None /\ mixed' = FALSE

\* window.location.href = '/login' takes effect.
Leave == leaving /\ Load("login")

\* The user reloads, or presses Retry when the backend is unreachable.
Reload == ~leaving /\ \E to \in {"login", "checking"} : Load(to)

\* Layout is mounted: a health check without data is pending again.
Mounted == IF shell = "up" THEN "up" ELSE "connecting"

\* Back from /login: RequireAuth is mounted, and refreshes if there is no user.
VisitAnonymous ==
  /\ page = "login" /\ ~leaving
  /\ user = None /\ call = None
  /\ page' = "checking" /\ call' = MountCall(cookie)
  /\ UNCHANGED <<cookie, user, token, shell, leaving, req, refresh, cache, mixed>>

VisitSignedIn ==
  /\ page = "login" /\ ~leaving
  /\ user # None
  /\ page' = "app" /\ shell' = Mounted
  /\ UNCHANGED <<cookie, user, token, leaving, req, refresh, call, cache, mixed>>

\* Forward to /login.
GoToLogin ==
  /\ page # "login"
  /\ page' = "login"
  /\ UNCHANGED <<cookie, user, token, shell, leaving, req, refresh, call, cache, mixed>>

Is(kind) == call # None /\ call.kind = kind

\* setAuth and the route that follows.
SignIn(a, to) ==
  /\ user' = a /\ token' = a
  /\ mixed' = (mixed \/ Mixes(a))
  /\ page' = to /\ shell' = Mounted
  /\ call' = None
  /\ UNCHANGED <<leaving, req, refresh, cache>>

\* RequireAuth's promise stores its answer even after RequireAuth is gone.
MountOk ==
  /\ Is("mount") /\ call.acc # None
  /\ SignIn(call.acc, IF page = "checking" THEN "app" ELSE page)
  /\ UNCHANGED cookie

MountFails ==
  /\ Is("mount")
  /\ call' = None
  /\ page' = IF page = "checking" THEN "login" ELSE page
  /\ UNCHANGED <<cookie, user, token, shell, leaving, req, refresh, cache, mixed>>

\* Bound: one call on the cookie at a time (the button is disabled while a
\* sign-in is under way).
SubmitLogin(a) ==
  /\ page = "login" /\ call = None
  /\ call' = [kind |-> "login", acc |-> a]
  /\ UNCHANGED <<cookie, user, token, page, shell, leaving, req, refresh, cache, mixed>>

LoginOk ==
  /\ Is("login")
  /\ cookie' = call.acc
  /\ SignIn(call.acc, "app")

LoginFails ==
  /\ Is("login")
  /\ call' = None
  /\ UNCHANGED <<cookie, user, token, page, shell, leaving, req, refresh, cache, mixed>>

\* The confirmation in TopBar.
SubmitLogout ==
  /\ PagesShown /\ call = None
  /\ call' = [kind |-> "logout", acc |-> None]
  /\ UNCHANGED <<cookie, user, token, page, shell, leaving, req, refresh, cache, mixed>>

\* The answer deletes the cookie; without one the cookie stays, and the session
\* in memory ends all the same.
LogoutDone ==
  /\ Is("logout")
  /\ cookie' \in {cookie, None}
  /\ user' = None /\ token' = None
  /\ page' = "login" /\ shell' = "connecting"
  /\ req' = [r \in Requests |-> Orphaned(r)]
  /\ call' = None
  /\ cache' = None /\ mixed' = FALSE
  /\ UNCHANGED <<leaving, refresh>>

-----------------------------------------------------------------------------
Answer(r) == AnswerOk(r) \/ AnswerError(r) \/ Answer401(r)

CallEnds == MountOk \/ MountFails \/ LoginOk \/ LoginFails \/ LogoutDone

Next ==
  \/ \E r \in Requests : IssueQuery(r) \/ IssueMutation(r) \/ IssueHealth(r) \/ Answer(r)
  \/ RefreshOk \/ RefreshFails
  \/ Leave \/ Reload \/ VisitAnonymous \/ VisitSignedIn \/ GoToLogin
  \/ \E a \in Accounts : SubmitLogin(a)
  \/ SubmitLogout
  \/ CallEnds

Spec == Init /\ [][Next]_vars

\* The browser gives every call an answer or an error in the end and carries out
\* a navigation, and a Layout that is mounted asks for the health of the backend.
\* Nobody has to use the page.
Fairness ==
  /\ \A r \in Requests : WF_vars(Answer(r))
  /\ WF_vars(\E r \in Requests : IssueHealth(r))
  /\ WF_vars(RefreshOk \/ RefreshFails)
  /\ WF_vars(CallEnds)
  /\ WF_vars(Leave)

FairSpec == Spec /\ Fairness

-----------------------------------------------------------------------------
(* Correctness. *)

\* client.ts:55-61, 80-95: requests wait only while a refresh is under way, and
\* that refresh was started by the one request that is not in the queue: whatever its
\* outcome, it settles all of them, and no second refresh runs beside it.
WaitersHaveRefresh ==
  \A r \in Requests :
    /\ Waiting(r) => refresh # None
    /\ (refresh # None /\ refresh.by = r) <=> (req[r] # None /\ req[r].pc = "refreshing")

\* queryClient.ts:3-4, client.ts:90-91, TopBar.tsx:47-48: cached data does not
\* leak across sessions.  What is cached was fetched for the account that is
\* signed in, however late answers arrive, unless an answer on the cookie has changed
\* the account of a session that was not cleared.
OwnDataOnly == ~mixed /\ cache # None => cache = user

\* client.ts:63-101: every request is settled in the end.  None is left in the
\* queue, and none goes round between a 401 and a refresh for ever.
RequestsSettle == \A r \in Requests : req[r] # None ~> req[r] = None

\* Layout.tsx:11-21: once the application is mounted, it does not stay at
\* "Connecting..." for ever.
ShellSettles == page = "app" ~> shell # "connecting" \/ page # "app"
=============================================================================
