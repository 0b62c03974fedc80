----------------------------- MODULE ClusterPages -----------------------------
(***************************************************************************)
(* One browser tab working on several clusters: the active cluster, the    *)
(* list of a page as the query cache keeps it for each cluster, and the    *)
(* changes confirmed in the dialogs of that page.                          *)
(*                                                                         *)
(* The page is TokensPage, and of its tabs the one of the token Secrets,   *)
(* which every cluster has its own of.  (The other tab, the history, is    *)
(* one table of the backend, whatever cluster is active.)  The key of a    *)
(* cached list is the cluster that is active when the page is rendered,    *)
(* while the cluster a request goes to is set by the request interceptor,  *)
(* once more when the request is repeated after a 401 (FrontendSession has *)
(* the refresh).  What the query library does is modelled as the pages use *)
(* it.                                                                     *)
(***************************************************************************)
EXTENDS Naturals

CONSTANTS
  Clusters,
  Local,     \* the cluster that is always there
  Writable,  \* the clusters on which the signed-in account is operator
  Tokens,    \* names of token Secrets; the same name may exist on every cluster
  MaxChanges, \* bound: changes of the registry
  None

ASSUME ConstantsAssumption ==
  /\ Local \in Clusters /\ Writable \subseteq Clusters /\ None \notin Clusters \cup Tokens
  /\ MaxChanges \in Nat

VARIABLES
  registry,       \* the clusters that are registered
  changed,        \* bound: changes of the registry so far
  there,          \* there[c][t]: token t on cluster c
  clusters,       \* the registered clusters as this tab knows them
  activeCluster,
  page,           \* the page that is mounted
  cache,          \* cache[c]: the list kept under the key of cluster c, or None
  fetch,          \* fetch[c]: the request under way for that list, or None
  dialog,         \* the change to be confirmed, or None
  change,         \* the change under way, or None
  token,          \* the access token: valid, expired or renewed
  known           \* history: known[c][t], what this tab was told it has made of t

vars == <<registry, changed, there, clusters, activeCluster, page, cache, fetch, dialog,
          change, token, known>>

backend == <<registry, changed, there>>

\* A token is replaced and deleted, never the other way.
States == {"created", "rotated", "revoked"}
Rank == [s \in States |-> IF s = "created" THEN 0 ELSE IF s = "rotated" THEN 1 ELSE 2]
Contents == [Tokens -> States]

\* got: what the backend answers, or None as long as it has not read.
Request(Answers) == [to: Clusters, pc: {"sent", "waiting"}, got: Answers \cup {None}]
Outcomes == {"ok", "error"}
List == [from: Clusters, items: Contents, fresh: BOOLEAN]

\* What is to be made of which token: it is rotated or revoked (deleted).
Dialog == [make: {"rotated", "revoked"}, of: Tokens]

\* on: the cluster it was confirmed on; key: that of the render its onSuccess was
\* made in, once the page is gone, or None.
Change == [what: Dialog, on: Clusters, key: Clusters \cup {None}, call: Request(Outcomes)]

ASSUME NoRecordAssumption ==
  /\ None \notin Contents \cup Outcomes
  /\ None \notin List \cup Request(Contents) \cup Request(Outcomes) \cup Dialog \cup Change

TypeOK ==
  /\ registry \subseteq Clusters /\ clusters \subseteq Clusters /\ changed \in 0..MaxChanges
  /\ there \in [Clusters -> Contents] /\ known \in [Clusters -> Contents]
  /\ activeCluster \in Clusters
  /\ page \in {"tokens", "clusters"}
  /\ cache \in [Clusters -> List \cup {None}]
  /\ fetch \in [Clusters -> Request(Contents) \cup {None}]
  /\ dialog \in Dialog \cup {None}
  /\ change \in Change \cup {None}
  /\ token \in {"valid", "expired", "renewed"}

Untouched == [t \in Tokens |-> "created"]

\* The active cluster is kept in the browser: it may be one that has gone since.
Init ==
  /\ registry \in {r \in SUBSET Clusters : Local \in r}
  /\ changed = 0 /\ there = [c \in Clusters |-> Untouched] /\ known = there
  /\ clusters = {} /\ activeCluster \in Clusters
  /\ page = "clusters"
  /\ cache = [c \in Clusters |-> None] /\ fetch = [c \in Clusters |-> None]
  /\ dialog = None /\ change = None /\ token = "valid"

-----------------------------------------------------------------------------
(* Requests *)

Sent == [to |-> activeCluster', pc |-> "sent", got |-> None]

Stale(c) == cache[c] # None => ~cache[c].fresh

\* The page shows the list of c: fetched if that is stale and not under way.
Shows(c) ==
  fetch' = IF page' = "tokens" /\ Stale(c) /\ fetch[c] = None
           THEN [fetch EXCEPT ![c] = Sent] ELSE fetch

\* Mutant: the request takes the cluster that is active by now, local included.
Redirected_Exactly(to) == activeCluster

\* The interceptor, run again, sets the parameter unless local is active.
Redirected(to) == IF activeCluster = Local THEN to ELSE activeCluster

IsSent(r) == r # None /\ r.pc = "sent" /\ r.got = None

\* The backend has a look at the token before anything else.
Admitted(r) == IsSent(r) /\ token # "expired" /\ r.to \in registry

Repeated(r) == IF r # None /\ r.pc = "waiting"
               THEN [r EXCEPT !.pc = "sent", !.to = Redirected(r.to)] ELSE r

\* The backend knows the clusters that are registered, and reads the list.
ReadList(c) ==
  /\ Admitted(fetch[c])
  /\ fetch' = [fetch EXCEPT ![c].got = there[fetch[c].to]]
  /\ UNCHANGED <<backend, clusters, activeCluster, page, cache, dialog, change, token, known>>

\* Bound: the token expires once.
TokenExpires ==
  /\ token = "valid" /\ token' = "expired"
  /\ UNCHANGED <<backend, clusters, activeCluster, page, cache, fetch, dialog, change, known>>

\* A 401: the request waits for the new token.
FetchRefused(c) ==
  /\ token = "expired" /\ IsSent(fetch[c])
  /\ fetch' = [fetch EXCEPT ![c].pc = "waiting"]
  /\ UNCHANGED <<backend, clusters, activeCluster, page, cache, dialog, change, token, known>>

ChangeRefused ==
  /\ token = "expired" /\ change # None /\ IsSent(change.call)
  /\ change' = [change EXCEPT !.call.pc = "waiting"]
  /\ UNCHANGED <<backend, clusters, activeCluster, page, cache, fetch, dialog, token, known>>

Waiting(r) == r # None /\ r.pc = "waiting"

\* Every request that waits is sent again.
TokenRefreshed ==
  /\ (\E c \in Clusters : Waiting(fetch[c])) \/ (change # None /\ Waiting(change.call))
  /\ token' = "renewed"
  /\ fetch' = [c \in Clusters |-> Repeated(fetch[c])]
  /\ change' = IF change = None THEN None ELSE [change EXCEPT !.call = Repeated(@)]
  /\ UNCHANGED <<backend, clusters, activeCluster, page, cache, dialog, known>>

\* The answer is kept under the key it was fetched for.
FetchOk(c) ==
  /\ fetch[c] # None /\ fetch[c].got # None
  /\ cache' = [cache EXCEPT ![c] = [from |-> fetch[c].to, items |-> fetch[c].got, fresh |-> TRUE]]
  /\ fetch' = [fetch EXCEPT ![c] = None]
  /\ UNCHANGED <<backend, clusters, activeCluster, page, dialog, change, token, known>>

\* An error, or an answer that is lost.
FetchFails(c) ==
  /\ fetch[c] # None /\ fetch[c].pc # "waiting"
  /\ fetch' = [fetch EXCEPT ![c] = None]
  /\ UNCHANGED <<backend, clusters, activeCluster, page, cache, dialog, change, token, known>>

-----------------------------------------------------------------------------
(* The page and its dialogs *)

OpenTokens ==
  /\ page = "clusters" /\ page' = "tokens"
  /\ UNCHANGED <<backend, clusters, activeCluster, cache, dialog, change, token, known>>
  /\ Shows(activeCluster)

\* The dialog is lost with the page; a change under way goes on without it.
LeaveTokens ==
  /\ page = "tokens" /\ page' = "clusters"
  /\ dialog' = None
  /\ change' = IF change # None /\ change.key = None
               THEN [change EXCEPT !.key = activeCluster] ELSE change
  /\ UNCHANGED <<backend, clusters, activeCluster, cache, fetch, token, known>>

\* The window gets the focus.
Focus ==
  /\ page = "tokens" /\ fetch[activeCluster] = None /\ Stale(activeCluster)
  /\ UNCHANGED <<backend, clusters, activeCluster, page, cache, dialog, change, token, known>>
  /\ Shows(activeCluster)

\* staleTime has passed.
GrowsStale(c) ==
  /\ cache[c] # None /\ cache[c].fresh
  /\ cache' = [cache EXCEPT ![c].fresh = FALSE]
  /\ UNCHANGED <<backend, clusters, activeCluster, page, fetch, dialog, change, token, known>>

\* The rows with their buttons.
OpenDialog(make, t) ==
  /\ page = "tokens" /\ dialog = None /\ activeCluster \in Writable
  /\ cache[activeCluster] # None /\ cache[activeCluster].items[t] # "revoked"
  /\ dialog' = [make |-> make, of |-> t]
  /\ UNCHANGED <<backend, clusters, activeCluster, page, cache, fetch, change, token, known>>

CloseDialog ==
  /\ dialog # None /\ dialog' = None
  /\ UNCHANGED <<backend, clusters, activeCluster, page, cache, fetch, change, token, known>>

\* Bound: one change at a time (each dialog's button waits for its own).
Confirm ==
  /\ dialog # None /\ change = None
  /\ change' = [what |-> dialog, on |-> activeCluster, key |-> None,
                call |-> [to |-> activeCluster, pc |-> "sent", got |-> None]]
  /\ UNCHANGED <<backend, clusters, activeCluster, page, cache, fetch, dialog, token, known>>

\* What the tokens i become.
Applied(what, i) == [i EXCEPT ![what.of] = what.make]

Acts(made, outcome) ==
  /\ there' = [there EXCEPT ![change.call.to] = Applied(made, @)]
  /\ change' = [change EXCEPT !.call.got = outcome]

\* What is gone is not found.  A rotation deletes the token and creates it again, and the
\* second may fail.  Bound: a token is rotated once.
ChangeActs ==
  /\ change # None /\ Admitted(change.call)
  /\ there[change.call.to][change.what.of] # "revoked"
  /\ \/ Acts(change.what, "ok")
     \/ change.what.make = "rotated" /\ Acts([change.what EXCEPT !.make = "revoked"], "error")
  /\ UNCHANGED <<registry, changed, clusters, activeCluster, page, cache, fetch, dialog, token, known>>

\* Mutant: a fetch that is under way is as good as a new one.
Refetched_Joins(c) == IF fetch[c] = None THEN [fetch EXCEPT ![c] = Sent] ELSE fetch

\* invalidateQueries drops the answer of a fetch that is under way, unless it is
\* the first one of that list.
Refetched(c) == IF fetch[c] = None \/ cache[c] # None THEN [fetch EXCEPT ![c] = Sent] ELSE fetch

\* Only the list that is displayed is fetched again at once.
Invalidate(keys) ==
  /\ cache' = [c \in Clusters |->
                 IF c \in keys /\ cache[c] # None THEN [cache[c] EXCEPT !.fresh = FALSE] ELSE cache[c]]
  /\ fetch' = IF page = "tokens" /\ activeCluster \in keys THEN Refetched(activeCluster) ELSE fetch

\* The button in the header invalidates the lists of all clusters.
RefreshClick ==
  /\ page = "tokens" /\ dialog = None
  /\ UNCHANGED <<backend, clusters, activeCluster, page, dialog, change, token, known>>
  /\ Invalidate(Clusters)

\* onSuccess is that of the last render, so it invalidates the list of the cluster
\* that is active by now, and closes whatever dialog is open by now.
ChangeOk ==
  /\ change # None /\ change.call.got = "ok"
  /\ change' = None
  /\ IF change.key = None
     THEN /\ dialog' = None
          /\ known' = IF activeCluster = change.on /\ change.call.to = change.on /\ cache[change.on] # None
                      THEN [known EXCEPT ![change.on] = Applied(change.what, @)] ELSE known
     ELSE UNCHANGED <<dialog, token, known>>
  /\ UNCHANGED <<backend, clusters, activeCluster, page, token>>
  /\ Invalidate({IF change.key = None THEN activeCluster ELSE change.key})

\* An error, or an answer that is lost: a message, and nothing is invalidated.
ChangeFails ==
  /\ change # None /\ change.call.pc # "waiting"
  /\ change' = None
  /\ UNCHANGED <<backend, clusters, activeCluster, page, cache, fetch, dialog, token, known>>

-----------------------------------------------------------------------------
(* The clusters *)

\* The switcher in TopBar (below an open dialog), or a row of ClustersPage.
SwitchCluster(c) ==
  /\ c \in clusters \ {activeCluster} /\ dialog = None
  /\ activeCluster' = c
  /\ UNCHANGED <<backend, clusters, page, cache, dialog, change, token, known>>
  /\ Shows(c)

\* Mutant: the cluster stays active whether it is listed or not.
Fallback_Never(listed) == activeCluster

\* TopBar's effect.
Fallback(listed) == IF activeCluster \in listed THEN activeCluster ELSE Local

\* The list of clusters is fetched again: on focus, or after a change of it.
ClustersArrive ==
  /\ clusters' = registry
  /\ activeCluster' = Fallback(registry)
  /\ UNCHANGED <<backend, page, cache, dialog, change, token, known>>
  /\ IF activeCluster' # activeCluster THEN Shows(activeCluster') ELSE UNCHANGED fetch

\* AddClusterModal, in this or another session.  The list of clusters is fetched
\* again later (ClustersArrive).
AddCluster(c) ==
  /\ c \notin registry
  /\ registry' = registry \cup {c}
  /\ changed < MaxChanges /\ changed' = changed + 1
  /\ UNCHANGED <<there, clusters, activeCluster, page, cache, fetch, dialog, change, token, known>>

\* Another session removes a cluster.
RemovedElsewhere(c) ==
  /\ c \in registry \ {Local}
  /\ registry' = registry \ {c}
  /\ changed < MaxChanges /\ changed' = changed + 1
  /\ UNCHANGED <<there, clusters, activeCluster, page, cache, fetch, dialog, change, token, known>>

\* The rows of ClustersPage with a Delete button, and the dialog it opens.
Removable(c) == page = "clusters" /\ c \in clusters \ {Local}

\* Bound: nothing else happens before the dialog is answered.
RemoveCluster(c) ==
  /\ Removable(c) /\ c \in registry
  /\ registry' = registry \ {c}
  /\ changed < MaxChanges /\ changed' = changed + 1
  /\ activeCluster' = IF c = activeCluster THEN Local ELSE activeCluster
  /\ UNCHANGED <<there, clusters, page, cache, fetch, dialog, change, token, known>>

-----------------------------------------------------------------------------
Next ==
  \/ \E c \in Clusters :
       \/ ReadList(c) \/ FetchRefused(c) \/ FetchOk(c) \/ FetchFails(c)
       \/ GrowsStale(c) \/ SwitchCluster(c)
       \/ AddCluster(c) \/ RemoveCluster(c) \/ RemovedElsewhere(c)
  \/ TokenExpires \/ TokenRefreshed \/ OpenTokens \/ LeaveTokens \/ Focus
  \/ \E t \in Tokens, make \in {"rotated", "revoked"} : OpenDialog(make, t)
  \/ CloseDialog \/ Confirm \/ ChangeActs \/ ChangeRefused \/ ChangeOk \/ ChangeFails
  \/ RefreshClick
  \/ ClustersArrive

Spec == Init /\ [][Next]_vars

-----------------------------------------------------------------------------
(* Correctness. *)

\* TopBar.tsx:33-40, useCluster.ts:41: once the clusters are listed, requests go to a
\* cluster that is listed: neither a removal nor a list that comes late leaves the tab
\* at another one.
ActiveIsListed == clusters # {} => activeCluster \in clusters

\* client.ts:43-46, useTokens.ts:43-82: however the user switches between clusters while
\* requests wait for a new token, the list of a remote cluster's token Secrets never shows
\* those of the local one, and a rotation or revocation confirmed on a remote cluster never
\* acts on the local one.
RemoteStaysRemote ==
  /\ \A c \in Clusters \ {Local} : cache[c] # None => cache[c].from # Local
  /\ change # None /\ change.on # Local => change.call.to # Local

\* useTokens.ts:43-82: after a change has succeeded with the list of its cluster displayed,
\* a list of that cluster that counts as fresh is not older than the change, whatever
\* fetches were under way, and also after switching away and back.
FreshKnows ==
  \A c \in Clusters : cache[c] # None /\ cache[c].fresh /\ cache[c].from = c =>
    \A t \in Tokens : Rank[cache[c].items[t]] >= Rank[known[c][t]]
=============================================================================
