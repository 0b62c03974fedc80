# ClusterVision: a verification development

ClusterVision is a web application for managing people's access to Kubernetes
clusters. A FastAPI backend keeps its own data in PostgreSQL and acts on one
local and any number of remote Kubernetes clusters; a React frontend talks to
it; a CronJob cleans up what has expired. This directory holds TLA+ models of
the parts whose correctness depends on the order of things, the TLC
configurations that check them, and machine-checked proofs about all ten models. All paths below are relative to the repository.

## 1. Inventory

| Component | State | Operations | Interacts with |
|---|---|---|---|
| **JIT access requests** `backend/app/services/access_request_service.py`, `routers/access_requests.py` | tables `access_requests`, `jit_role_policies` | create, approve, deny, revoke, set/delete policy, list, export | creates and deletes bindings through the RBAC service while it holds the row lock; shares its rows with the CronJob |
| **JIT cleanup CronJob** `backend/app/jobs/expire_access_bindings.py`, `helm/.../cronjob.yaml` | none of its own | reconcile every cluster: list bindings with the JIT label, delete those past their annotation; then mark rows `expired` | Kubernetes API of each cluster, `access_requests` |
| **Accounts, sessions and gates** `services/auth_service.py`, `core/auth.py`, `core/dependencies.py`, `routers/auth.py`, `routers/permissions.py` | tables `login_users`, `user_scope_roles`; roles carried in access tokens; refresh tokens carry the name only | login (local, LDAP), refresh, change password, add/delete account, set role, set/remove scope role, link and unlink | every router, through the gates |
| **Login rate limit** `services/auth_service.py:29` | table `login_attempts` | prune, count, insert | all replicas share the table |
| **Managed users** `core/registry.py`, `services/certificate_service.py`, `services/service_account_service.py`, `routers/users.py` | registry rows, CSRs, ServiceAccounts, secrets | create, delete, import, renew | Kubernetes, links of login accounts |
| **RBAC service** `services/rbac_service.py`, `routers/rbac.py` | (Cluster)RoleBindings | assign, remove, delete all bindings of a user | used by JIT access and by user deletion |
| **Kubeconfig and token secrets** `services/kubeconfig_service.py`, `services/token_service.py` | token secrets and their history | generate, rotate, revoke | Kubernetes secrets |
| **Vault configuration** `services/vault_service.py`, `routers/vault_admin.py` | one row, and a copy per worker | get, set, disable | re-read at most every 30 s |
| **Cluster registry and clients** `services/cluster_service.py`, `routers/cluster.py` | table `clusters`; one client cache per worker | add, remove, list, get client | every service |
| **Audit log** `core/audit_middleware.py`, `services/audit_service.py` | table `audit_entries` | append after the handler, list | every mutating request |
| **Frontend session** `frontend/src/api/client.ts`, `store/authStore.ts`, `lib/queryClient.ts`, `components/auth/RequireAuth.tsx`, `components/layout/Layout.tsx` | user and access token, refresh in flight and its queue, query cache | request, refresh on 401, retry, sign in, sign out, health check | backend; every page |
| **Cluster selection, token page** `store/clusterStore.ts`, `hooks/useCluster.ts`, `hooks/useTokens.ts`, `pages/TokensPage.tsx`, `pages/ClustersPage.tsx`, `components/layout/TopBar.tsx` | active cluster, one list per cluster, dialogs | switch, fall back, list, rotate, revoke; clear the history | the request interceptor adds the cluster |
| **User wizard** `components/users/CreateUserWizard.tsx` | three steps, the only copy of a private key | name, tick, create, assign, confirm, close | users, RBAC and kubeconfig APIs |
| **Kubeconfig panel** `components/kubeconfig/KubeconfigPanel.tsx` | selection, key, a timer | select, paste, upload, generate by click or after 1.5 s | kubeconfig API |
| **Access requests** `pages/AccessRequestsPage.tsx`, `components/access/RequestAccessModal.tsx`, `hooks/useAccessRequests.ts` | polled queue, dialogs, form | poll, approve, deny, revoke, ask | JIT access |
| **Roles** `pages/RbacPage.tsx`, `components/rbac/RoleEditorModal.tsx`, `hooks/useRbac.ts` | lists per namespace and of ClusterRoles, editor, dialog | list, create, copy, edit, delete | RBAC service |
| Start-up, logging, exceptions, migrations, Helm, the other pages | wiring | | |

### What is hard about it

* Handlers run in a pool of threads, in several replicas. What serialises them
  is PostgreSQL (row locks, unique keys), and only where a handler asks for it.
* A review holds a row lock across a Kubernetes call: the database can roll
  back, the cluster cannot.
* The cleanup job deletes by name what an earlier listing returned, and updates
  rows an earlier SELECT returned, without locks.
* A request does not say on which cluster its binding was created.
* Tokens and per-process caches carry copies of state that others change.
* The browser is a concurrent program, too: answers arrive in any order, after
  the page that asked has gone, after another user has signed in or another
  cluster was selected; callbacks and timers read the values of the render they
  were made in, or of the last one, and which it is matters.

### What makes each component correct

* JIT access: one decision and one end per request; nobody approves his own
  request; no grant outlives the duration asked for; the registry agrees with
  the clusters; a revoked request has no binding; what is past is deleted.
* Cleanup: deletes only what is past; deletes it eventually; marks only
  approved rows.
* Accounts and gates: a gate opens only for somebody who has the role; somebody
  can always administer the instance; deleting an account ends its access.
* Rate limit: no more attempts than the limit in any window, over all replicas.
* Managed users: a registry row belongs to exactly one live identity; one
  user's key is never paired with another's certificate; deleting a user
  removes that user's bindings and nobody else's.
* Token secrets: a revoked token is dead; a rotation never leaves its user
  without a token.
* Vault configuration and cluster clients: a worker's copy is never older than
  its limit.
* Audit: one entry for every change made.
* Frontend session: one refresh at a time, every waiting request settled;
  cached data belongs to whoever is signed in.
* Frontend pages: what is confirmed is done to the object, and on the cluster,
  that was displayed; a list that counts as fresh knows what the page announced;
  a late answer or an old timer does nothing in the name of another user; no key
  is lost.

## 2. Plan

Modules, in order of importance (those marked * exist):

1. * `TimeBoxedAccess`: what JIT access promises, abstractly.
2. * `JitAccess`: requests, reviews, bindings, policies and the cleanup job,
   shown to implement 1; * `JitAccess_proofs`.
3. * `ManagedUsers`: registry, CSRs, ServiceAccounts, key pairs, bindings and
   links of the Kubernetes users; * `Users_proofs`, shared with `UserWizard`.
4. * `ClusterClients`: the cluster table and the API clients every process caches;
   * `ClusterClients_proofs`.
5. * `VaultConfig`: the configuration row and the copy every process keeps;
   * `Vault_proofs`, shared with `KubeconfigPanel`.
6. * `FrontendSession`: the single refresh in flight, the queue behind it, signing in and out.
7. * `ClusterPages`: the active cluster, the lists kept for each cluster, and 6's repetition
   of requests.
8. * `UserWizard`, * `KubeconfigPanel`, * `AccessReviews`, * `RbacPages`: the pages with state
   of their own. 6, 7, `AccessReviews` and `RbacPages` have a * `..._proofs` each.
9. `Accounts`: login accounts, scope roles, the roles a token carries, LDAP
   resynchronisation; with the login rate limit (count, then insert).
10. `TokenSecrets` and `AuditLog`, if they turn out to say more than one step.

Abstract specifications worth stating besides 1: a registry of users in which an
operation takes effect at one moment (for 3), and "who may do what now" (for 9).

Every safety property a run checks is stated by a theorem. Worth proving next:
that `ManagedUsers` implements the registry in which an operation takes effect at
one moment, for one handler at a time, and the safety half of the liveness
properties (that what a helpful step needs stays true until it is taken).

## 3. Modules and code

A variable is a table, a set of Kubernetes objects, the memory of a process or
the progress of a handler; an action is what happens between two points at which
somebody else can act. PostgreSQL runs at its default, READ COMMITTED: every
statement sees what was committed before it. Sessions use weak identity maps, so
`db.get` of an object nobody holds any more is a SELECT.

### `JitAccess`

| Model | Code |
|---|---|
| `req[r]`, `policy[k]` | rows of `access_requests`, `jit_role_policies` |
| `bindings[c][r]` | the (Cluster)RoleBinding `clustervision-jit-r` on cluster `c`, by its expiry annotation |
| `txn[w]` | a review: `SELECT ... FOR UPDATE` and the checks (`ApproveCheck`, `RevokeCheck`), the Kubernetes call (`ApproveBind`, `RevokeUnbind`), the commit; `ReviewCallFails` and `ReviewDies` end it early |
| `Locked(r)` | the row lock, held while `txn[w].pc # "idle"`; whoever finds it waits, which is a guard |
| `job` | one run of `expire_access_bindings.main`; `concurrencyPolicy: Forbid` makes it one at a time |
| `up` | the clusters that are registered and answer |

`create_request` and `deny_request` make no outside call and are one step each.
The namespace that an approval creates when it is missing is left out: nothing
depends on it. Durations are small numbers instead of minutes.

### `ManagedUsers`

`registry` is the table `managed_users` by its key (name, namespace); `csr`, `sa`
and `bindings` are the Kubernetes objects of every cluster, `vault` the stored key
pairs, `links` the shortcuts from login accounts. `op[w]` is the handler of
worker `w`: the request it serves and the next call it makes. A certificate
creation goes through `CreateCert`, `SubmitCsr` (or `CsrExists`,
`DeleteStaleCsr`, `SubmitCsr`), `ReadCsr`, `ApproveCsr`, `GetCertificate`,
`StoreKey` and `_update_registry`; the ServiceAccount operations and the two
deletions likewise. `_update_registry` is three steps: `LoadRegistry` (the
SELECT and `mutate`), `ReadRows` (the DELETE and every `db.get`), `Commit` or
`CommitFails` (flush, unique keys, rows that have gone). A DELETE locks its rows
until the commit (`RowsLocked`). `CsrRaises`, `StoreFails`, `AlreadyExists` and
`Abort` are the early ends. Keys stand for RSA key pairs: a CSR and a
certificate carry the public half. All `db.get` of one transaction are one step.
Namespaces exist, and a Kubernetes name is one name.

`UserNamespaces` declares what `ManagedUsers` and `UserWizard` share: the set of
namespaces and the value for nothing.

External: the signer and the collector of CSRs (`SignCsr`, `CollectCsr`) and
somebody with kubectl (`ForeignAccount`).

### `ClusterClients`

`table` is the table `clusters`; `clients`, `reload` and `get` are `_clients` with
the settings each client was built from, `_last_reload`, and the
`get_api_client` that holds `_cache_lock`. Handing out a trusted client changes
nothing; otherwise `GetRead` reads the table and `GetBuild` does the rest up to the release
of the lock. `AddCluster`/`RemoveCluster`, `GetRows`, `Commit` and
`DropClient` are `_update_configs` and what surrounds it; only `DropClient`
takes the lock. `left` and `gone` are history: they record when a setting was
replaced and what a process has removed, and no action reads them.

### `VaultConfig`

`row` is the only row of `vault_config`, `svc`, `synced` and `lock` are
`_vault_svc`, `_last_sync` and `_lock` of every process. `SyncStart` takes the
lock and sets `_last_sync`; `SyncRead` or `SyncFails` follows. An edit is
`PutConfig`, `PutKeepToken` or `DeleteConfig`, then (for an empty token)
`KeepToken`, which reads the copy in a critical section of its own, then `EditRead`,
`EditCommit` and `EditApply` under the lock. SQLAlchemy's UPDATE sets the
columns that differ from what the transaction read, so two processes may merge their
edits (`Merged`). The specification is `VaultSpec`. All columns but the token are one `place`. `written` and `last` are history.

### `FrontendSession`

One tab. `user` and `token` are the auth store, `cookie` the refresh cookie of the
browser, `page` the mounted route, `shell` what `Layout` shows, `cache` the account
whose data the query cache holds. `req[r]` is a request through `apiClient`: sent,
waiting in `failedQueue` (`queued`), or the one that runs the refresh. `refresh`
is `isRefreshing` and the call it stands for; `call` is one of the calls that go
past the client: the refresh of `RequireAuth` (`mount`), login, logout. `Answer401` is
the response interceptor with its three branches, `RefreshOk` and `RefreshFails` its
`try` and `catch`. A token is the account it names; that it has expired is the 401.
`mixed` is history: an answer gave a session with data or requests another
account.

### `ClusterPages`

`activeCluster` and the fallback of `TopBar` (`Fallback`), the list of token Secrets for each
cluster in the query cache (`cache`, `fetch`), the dialogs of `TokensPage` that rotate or
revoke one of them (`dialog`) and the mutation they start (`change`). The key of a list comes from the render, the cluster of
a request from the interceptor: `Redirected` is that interceptor when a request is
repeated after a 401, where `local` leaves the parameter as it is. `Refetched` is
`invalidateQueries`: it cancels and restarts a fetch, unless it is the first of its list.
`ChangeOk` runs the `onSuccess` of the last render. The backend's side is `registry`
and `there`, the Secrets of every cluster; a rotation deletes and creates, and the second may
fail (`ChangeActs`). The page's other tab, the history of generated kubeconfigs, is not in the
model: it is one table whatever cluster is active (section 7). `known` is history: what the tab was told of.

### `UserWizard`

The specification is `WizardSpec`. The variables are the states of `CreateUserWizard`; `Retick` is what
`handleStep1Next` does to the ticks. That depends on when React runs the updater of
`setSelectedNs`, which reads a ref that the handler overwrites right after queuing it: at once,
with the old value, or with the next render, with the new one. Which it is depends on updates
that are still queued, so the action allows both. `handleCreate` starts `createUser` (`create`);
`CreateOk` is its `onSuccess`, which reads the form as it is by then; `roles` are the
`assignRole` calls of `Promise.all`, answered one by one (`AssignOk`, `AssignFails`,
`AssignEnds`). The wizard is hidden when closed, not unmounted: `handleClose` resets what the
code resets and nothing else. `Refetch` is `useNamespaces`. `touched` is history.

### `KubeconfigPanel`

`debounce` is the closure of the armed timer: the user, namespace and key of the render
whose effect armed it. `Becomes` is a change of `selectedKey` with its two effects in
their order, `Debounce` the effect that clears and arms the timer, `generate` the
mutation as `useMutation` shows it. `Listed` is a list of users that arrives, with the
preselection from the URL. A private key is the user it belongs to.

### `AccessReviews`

The page of a reviewer beside the other side of `JitAccess`: `rows` are the
requests as recorded, `Elsewhere` is what others do to them, `list` and `fetch` are the polled
query, `confirm` and `review` the dialog and its mutation, `deny` the denials, `form` is
`RequestAccessModal` with its creation `create`. `ReviewActs`, `DenyActs` and `CreateActs` are the
backend's handlers, `...Ok` and `...Fails` the callbacks.

### `RbacPages`

`roles` are the Roles and ClusterRoles in Kubernetes, `cache` and `fetch` the lists per
namespace and of ClusterRoles (with and without system roles: two keys under one
prefix), `editor` and `dialog` the modals, `save` and `deletion` their mutations. `InUse` are the
queries that are mounted and enabled: the list of the namespace always, the
ClusterRoles only on their tab. `owed` is history: the lists a change that was
announced is missing from. It is taken from the fetches the model itself drops and restarts, so
`FreshKnows` is about which keys are invalidated, not about switching while a list is fetched.

## 4. Runs

All with two TLC workers; each takes about a minute at most.

| Run | Instance | Shows |
|---|---|---|
| `jit_reviews` | 2 requests, 2 approvers who also ask, 2 workers, 1 cluster, durations of 1, clock 0..1, 1 failure, 1 binding removed by hand | the row lock protects what a review relied on; time box; four eyes; registry and bindings agree; a revoked request is unbound; cleanup spares what still runs; refinement of `TimeBoxedAccess` |
| `jit_liveness` | 1 request, 1 worker, 2 clusters, durations 1 and 2, clock 0..1, 1 failure | past bindings are deleted, on whatever cluster; a tightened policy holds |
| `users_alone` | 1 name, 2 namespaces, 1 worker that may end anywhere, 4 key pairs | a creation never pairs its key with an earlier certificate; a ServiceAccount is forgotten only when its token is gone |
| `users_race` | 2 names, 2 workers whose calls may fail, 1 key pair | transactions on the registry do not lose each other's rows; who is registered has a key in Vault |
| `clients_one` | 1 cluster, 2 settings, 2 processes, 2 handlers, interval 1, reads up to 1, clock 0..2 | bounded trust in a wrong client; the remover forgets |
| `vault_two` | 2 processes, 2 edits, 2 tokens, interval 1, lock up to 1, clock 0..2 | every worker converges |
| `session` | 2 accounts, 2 requests | no request waits without a refresh; cached data stays with its account; every request settles; nobody is left at "Connecting..." |
| `pages` | the local and a remote cluster, 1 token | requests go to a listed cluster; a rotation or revocation meant for a remote cluster is not done on the local one; fresh lists know what was announced |
| `wizard` | 2 namespaces, one of which may go | only renaming in step 1 hides a tick; what was ordered is done; no key is lost |
| `kubeconfig` | 2 certificate users and a ServiceAccount, 2 namespaces, 2 clusters, one of them writable | timer and preview are of the selected user; ServiceAccounts need no click |
| `reviews` | one request of the reviewer's own, one of somebody else, 2 namespaces | an announced verdict is seen; a dialog that closes by itself has done its work; a Role is asked for in its namespace; the queue catches up |
| `roles` | 2 namespaces, 1 name in each and cluster-wide | fresh lists know what was announced; only what was opened for editing is replaced |

**Why the bounds are enough.** Two workers are what a race needs, and all that
can be in each other's way over one request or name: a third waits for the same
lock or repeats the part of the second. Two names show what one
transaction does to the row of another. In `jit_reviews` the longest duration
is one unit and the clock ends there, so a grant is seen running and past. In
`clients_one` and `vault_two` the clock ends when a copy that was wrong from the
start of the run must have been replaced, which is the first moment a bound can
be missed; longer intervals are left to the
theorems. `PrivateKeys` bounds the key pairs that something still refers to, not
the creations over time; with four, a worker's own key, one in Vault and two in left-over
objects differ. `users_race` has one, so there one certificate is issued in a
behaviour; races over a CSR need two and are section 7's. Its handlers do not end
at any step either, only where a call fails: what the others would leave behind is
there from failed calls, `CollectCsr` and `ForeignAccount`, and the theorems about this
run's properties hold for any `MayAbort`. `Grantees`,
`MayAbort`, `MaxFailures`, `MaxRemovals`, `MaxRead` and `MaxHold` are
bounds too, each explained where it is declared.

In the browser the actors are the user, the answers and the timers. Two requests are what the
queue behind a refresh needs (one refreshes, one waits), two accounts what a
session can be mistaken for, two clusters or namespaces what a list can be mistaken for, and one token or role
name per place is enough to see whether a list is older than a change. Bounds in
the guards, each named there ("Bound:"):

* `session`: one call on the cookie at a time, two requests under way, one
  tab; the roles in the store, which only hide buttons, are left out.
* `pages`: the access token expires once, one change at a time, a token is rotated
  once and nobody else touches it,
  nothing else happens while the removal of a cluster is confirmed; clusters are
  registered and removed twice in all (`MaxChanges`), which is a cluster that goes and
  comes back, or one that replaces another.
* `wizard`: `Doomed`, the namespaces that may go from the list.
* `kubeconfig`: one file is read at a time; what is pasted or chosen belongs to
  the user displayed.
* `reviews`: one review, one denial per request, one creation under way, and no
  creation beside a review or a denial; the page stays mounted. The form's
  target and reason are left out.
* `roles`: rules, YAML and the system roles themselves are left out; one change at a time: no editor is opened while a
  role is being deleted, no deletion dialog while one is being saved; of the lists that are not
  in use, that of one namespace at most is being fetched; one cluster, and the page stays mounted.

All theorems of section 6 hold without the numbers in this table. Where a bound is a guard of
the module, it holds for the theorems as well.

Deadlock is checked in every run: some step (a binding assigned, a policy set, a process
replaced, a page reloaded, a list fetched) is always possible, and progress is the business of
the liveness properties. The type invariants of the frontend modules are
proved (`TypeCorrect` of each, `WizardTypeCorrect`) and not in the runs.

**Symmetry** is used for sets whose members nothing tells apart, and only in runs
without liveness properties.

## 5. Fairness

Four runs assume any, each in the `FairSpec` of its module.

`jit_liveness`: a review that was started runs on
(`WF` of its own steps): a thread makes its next call or
fails. The CronJob starts for ever and its pod runs on (`WF` of the job's
steps). Its last step waits for row locks; PostgreSQL serves lock waiters in
turn, so reviews cannot overtake it for ever (`SF` of `MarkUpdate`). Nobody is obliged to ask, to review, to
change a policy, and no cluster is obliged to answer: `ExpiredGrantsEnd` assumes of its own
clusters that they do from some time on, and includes the local one, because `main` reconciles
it first and outside any `try`.

`session`: the browser ends every call with an answer or an error and carries out a
navigation that was assigned to `window.location` (`WF` of `Answer(r)`, of the end of the
refresh, of `CallEnds`, of `Leave`), and a mounted `Layout` asks for the health of the backend
(`WF` of `IssueHealth`: `useBackendHealth` is a query, so mounting fetches). Nobody has to use the page or
to sign in, and every call may fail every time.

`kubeconfig`: `WF` of `TimerFires`. A timer that is armed fires after 1.5 s unless an effect clears it;
what weak fairness excludes is that something re-arms it every 1.5 s for ever: the action
stays enabled, because clearing and arming are one step.

`reviews`: `WF` of `Poll` (`refetchInterval` runs while the page is mounted), `SF` of `ReadRows`
and `FetchOk`: polls and their answers do not fail for ever, and are not for ever
dropped for newer ones. Statuses only move on, so the queue catches up although no answer is
guaranteed to be the newest.

## 6. Proofs

`JitAccess_proofs` proves, for any sets of requests, users, workers, clusters and roles and
any durations that satisfy `ConstantsAssumption`:

* `TypeCorrect`: `TypeOK` is inductive.
* `RowLockHolds`: `Spec => []ReviewedStatusStable`. The property is not inductive on its
  own. The invariant adds that a request is locked by one worker at most, that the
  reviewer of a review under way is an approver and, for an approval, not the requester,
  and that the rows the job is about to mark were approved when it read them.
* `GrantsAreTimeBoxed`: `Spec => []TimeBoxed`. Besides the bound itself the
  invariant says that a request has a duration from the permitted range once it exists, and
  that the expiry a review computed before its Kubernetes call keeps the bound while the
  clock runs on.
* `FourEyesHold`: `Spec => []FourEyes`, from the invariant of `RowLockHolds` and one more:
  while nothing has died, what is bound was granted or is about to be.
* `Refinement`: `Spec => Abstract!Spec`. Each action maps to a step of `TimeBoxedAccess` or
  a stutter; `ApproveCommit` needs that the row is still pending and `RevokeCommit`
  that it is still approved, which is `RowLockHolds`.

* `CleanupSpares`: `Spec => CleanupSparesLiveGrants`. The job deletes by name what it
  listed earlier, so `ListedInv` says that what it has listed is still past, or gone and
  granted before: a name that is free again belongs to a request that is not pending, and
  no review binds it once more.
* `GrantsAreLive`: `Spec => []ApprovedGrantIsLive`. `GrantInv` follows the expiry from the
  Kubernetes call of an approval (`bound`) to its commit, and a revocation from its call
  (`unbound`) to its commit; that the job takes nothing away is `ListedInv`.
* `RevokedIsUnboundAlone`: `Spec => []RevokedMeansUnbound` if the local cluster is the only
  one. `UnboundInv` says that a revocation that has made its call has left no binding. With
  two clusters the property is false (section 7).
* `TightenedPolicyHeld`: `Spec => TightenedPolicyHolds`, a property of whole behaviours, by
  the temporal rule for an invariant under a condition that holds for ever: as long as the
  policy forbids it, a request that waits goes on waiting or is denied (`Waits`,
  `WaitsNext`), and `ApproveCheck` is the only step out of that.

The nested updates of `bindings[c][r]` are dealt with once, in lemmas about the effect of an
action on a request; the steps of the invariants cite those.

`ClusterClients_proofs` proves, for any sets of clusters, settings, processes and handlers:

* `TypeCorrect`: `TypeOK` is inductive.
* `RemoverHasForgotten`: `Spec => []RemoverForgets`. The invariant `GoneInv` adds that a
  cluster the process removed is not in the table and that no read under way in that
  process has found it. The second part holds because `DropClient` waits for
  `_cache_lock`: without the lock a read that began before the removal builds the client
  again.
* `TrustIsBoundedAlone`: `Spec => []TrustIsBounded` if there is one remote cluster. The
  invariant `TrustInv` says that a read began at most `MaxRead` ago and before the table
  ceased to hold what it found, and that a client that differs from the table was last
  confirmed by such a read. The assumption is needed in one place, `GetBuild`: the time
  it stores belongs to the process, and with two clusters it also vouches for the client
  of the other.

The first half of `Users_proofs` is about `ManagedUsers`, for any names, namespaces, clusters,
keys and workers, with and without Vault, whether or not handlers may end at any step. Its
constants need, besides `ConstantsAssumption`, that the value for nothing is no row and no key
pair (`NoneAssumption`).

* `UsersTypeCorrect`: `TypeOK` is not inductive on its own. `Equipped` adds that an operation
  under way has what its next step uses, and that it is on the route of its kind.
* `RowsOfOthersSurvive`: `Spec => RowsSurviveOthers`. A commit writes back rows of an
  old copy; what keeps it from undoing the work of others is that a row it deletes is its own
  user's (`GoneInv`) and that it inserts only where it found none.
* `KeysAreStored`: `Spec => []RegisteredKeyStored`. `StoredInv` says that the key of every
  certificate in the registry, in every copy a handler has loaded and of every creation that has
  reached the registry is in Vault, where keys are never deleted (`VaultGrows`). It needs
  the copies: a commit can bring back a row that has been deleted meanwhile.
* `KeysMatchAlone`: `Spec => []KeyMatchesCertificate` if one handler runs at a time. `MatchInv`:
  between submitting its CSR and taking the certificate, a creation finds its own CSR or none,
  whatever earlier ones have left behind. With two handlers it is false (section 7).
* `ForgottenIsGoneAlone`: `Spec => ForgottenOnlyWhenGone` if one handler runs at a time, on one
  cluster. `KnowsInv` says what such a handler knows in `_update_registry`: the token is gone
  when a ServiceAccount user is to be removed, and the registry is still what it has loaded.
  Both assumptions are needed (section 7): two handlers that both found the name free may
  register it twice, and the row of the second replaces that of the first.

These lean on a few lemmas about how an operation goes on: every step of a handler starts
afresh (`Fresh`), moves along its route without touching its copies (`Moves`, `Elsewhere`), or is
one of the three steps of `_update_registry`, of which only `Commit` writes the registry
(`CommitWrites`, `RegistryStays`).

The first half of `Vault_proofs` is about `VaultConfig`, for any processes, edits, tokens and
places, and any interval and hold.

* `VaultTypeCorrect`: `VaultTypeOK` is inductive with what the steps of an edit have at hand.
* `WorkersConverge`: `VaultSpec => []Converges`. `Holds` says that who writes the row or a copy
  has the lock of its process, and for how long at most; `Edited` that the row is what an
  edit has seen or written unless it has changed since the edit took the lock; `Copied` that a
  copy that differs from the row is younger than the row by one hold at most. So a copy that
  is still trusted when the row has been left alone for the interval and a hold does not differ.

The rest is about the six modules of the frontend, and holds for any accounts,
requests, clusters, tokens, users, namespaces and names; in each module `TypeCorrect`
(`WizardTypeCorrect`) says that the type invariant is inductive.

* `FrontendSession_proofs`. `WaitersAlwaysHaveRefresh`: the property is inductive with the type
  invariant; an action either leaves the queue and its refresh as they are
  (`KeptIsFine`) or ends the refresh and settles everybody (`SettledIsFine`).
  `OwnDataAlways`: a cached answer was sent with a token, so the invariant `SessionInv` says which
  token: the application is mounted only with a user, and as long as no late answer has mixed
  the session, the store and all its queries carry the token of that user. That a login
  carries a name (`LoginNamed`) is needed first.
* `ClusterPages_proofs`. `ActiveIsAlwaysListed`: `ListedInv` adds that the local cluster is always
  registered, which is where a tab falls back. `RemoteAlwaysStaysRemote`: `RemoteInv` follows the
  requests: none for the list of a remote cluster is on its way to the local one, also
  after a repetition. `FreshAlwaysKnows`: `KnowInv` follows a change from
  Kubernetes to the answer, and every read from Kubernetes to the cache;
  `ShapeInv` says which changes and requests there can be. The step that needs it is
  `ChangeOk`: it restarts the fetch of the list displayed, and the first fetch of a list, which cannot
  be restarted, is no list yet.
* `Users_proofs`, second half. `OnlyRenamingEverHidesTicks`: `TickedInv` says that in step 2 the
  namespace step 1 ticked by itself is the one that is still named there, so what step 2 lists is all
  that a step but `handleStep1Next` can tick. That every tick is shown is false (section 7). `OrderedIsAlwaysDone` and `KeyAlwaysKept`
  share `OneAtATime` (while a user is created nothing of an earlier one is left, and its
  credentials stay until the wizard is closed) and `Ordered` (an untouched form still says what
  the creation and the assignments under way were sent with).
* `Vault_proofs`, second half. `TimerAlwaysCurrent`: every change of the user, the namespace, the list or the cluster runs
  the effect.
  `PreviewAlwaysOfSelected` follows from it: only the timer and the button send, and
  both for who is selected.
* `AccessReviews_proofs`. `SaidIsAlwaysSeen`: `MarksInv` says what a call that is done has left in the
  row, and that rows only move on (`RowsMoveOn`), so a list read later is at least
  that far. `ClosedIsAlwaysDone`: `DialogInv` adds that the open dialog is the one its call was confirmed
  in unless it was closed meanwhile. `AskedAlwaysWhereItIs`: `FormInv`.
* `RbacPages_proofs`. `FreshAlwaysKnows`: `OwedInv` adds that no answer that was read before
  the change is on its way to a list that owes it. `OnlyOpenedReplaced`: `SaveInv` says that a
  save that replaces is about the role its editor was opened on.

Only model-checked: liveness (`ExpiredGrantsEnd`, `RequestsSettle`, `ShellSettles`,
`AutoGenerates`, `QueueCatchesUp`), which needs `ENABLED` and fairness and is out of the proof
system's reach. Where a theorem assumes one handler, one cluster or one remote cluster,
the property is false without it, and section 7 says what happens then.

## 7. Where code and documentation disagree

No run of the project ends in a violation. What follows was met while modelling; the first
list was reproduced with these modules, on other instances or for stronger properties, which are
not kept as runs.

Backend:

* `access_request_service.py:212`: a revoke deletes the binding on the cluster the
  caller has selected; the request does not say where it was granted. With another
  cluster selected the 404 is ignored, the request is "revoked" and its binding lives on until
  it expires, although `routers/access_requests.py:197` promises that access ends
  (`RevokedMeansUnbound` with two clusters);
* `registry.py:54`: a registry transaction inserts again the rows of its copy
  that another one has deleted since, although the docstring at `:28` says that unrelated writes do not race each other
  away;
* `rbac_service.py:416`: deleting `bob` deletes the role bindings of `bob-ci`: names are
  compared by prefix, while the docstring at `:415` speaks of this user's;
* `cluster_service.py:162`: reading the table for one cluster prolongs the trust in the cached clients
  of all (`TrustIsBounded` with two remote clusters);
* `vault_service.py:192`: a worker that knows Vault is disabled enables it from the
  environment when it cannot read the row, against the comment at `:191` ("Keep the current state");
* two creations of one certificate user at once: on 409 the second deletes the CSR of
  the first, which then may take the second's certificate (`KeyMatchesCertificate`
  with two workers);
* deleting a ServiceAccount user with another cluster selected forgets it and leaves its token
  alive (`ForgottenOnlyWhenGone` with two clusters);
* a certificate user is imported while a ServiceAccount user of that name is created: both find the
  name free, and the later transaction overwrites the row of the other (`registry.py:53-58`), so the
  ServiceAccount and its token stay, unknown (`ForgottenOnlyWhenGone` with two workers);
* a deletion that falls back on the only namespace of a ServiceAccount clears the links of the namespace it was called
  with, so the links to the deleted user survive (`ClearLinks` uses `asked`, not `ns`);
* `mark_expired` reads without a lock and may overwrite a revocation with "expired";
* a request whose binding is deleted by hand, or by a run of the job that dies
  before `mark_expired`, stays approved;
* an edit of the Vault configuration with an empty token restores a token that another worker has
  replaced within the last interval;
* two registrations of one cluster name can both succeed.

Frontend, shared:

* after a logout and the login of somebody else, the late answer to a refresh stores the
  first account's token under the second user's name (`mixed`), and the 401 of an old mutation repeats it
  with the second user's token;
* `client.ts:43-46`: a list fetched for the local cluster, repeated after a 401 once a remote
  one is active, is that remote list under the key of the local one; a change
  confirmed on local can be repeated on the remote cluster likewise;
* invalidation does not restart the first fetch of a list, nor the fetch of one that is not
  displayed, so such a list can miss a change until it is stale;
* a mutation's late success closes whatever dialog or editor is open by then
  (`TokensPage`, `AccessRequestsPage`, `RbacPage`), and `useAccessRequests.ts:35` the form that was
  opened again. On `TokensPage` it invalidates the list of the cluster that is active by then.
* `useTokens.ts:6-8` says that the token history lives inside the cluster. It is one table without
  a cluster (`db/models.py:156-165`): "Clear all" confirmed on a remote cluster deletes what is shown
  for every cluster, and the lists kept under the other clusters' keys show it until they are stale.

Pages:

* `KubeconfigPanel.tsx:73-77, 95-105`: after a switch from `alice` to `bob` the timer's closure may
  still hold the key pasted for `alice` and sends it for `bob`, although `:76` clears the key and
  `:90` says that no key is needed then. A file chosen for `alice` and read
  after the switch is sent for `bob`. A key pasted while the timer is armed is not
  used by it. `:100`: a certificate user whose namespace differs from the one in
  the field is never generated without a click, unlike `:90-91` says. The preview of one cluster stays
  displayed after a switch to another;
* `CreateUserWizard.tsx:93-96` says that a renamed or dropped namespace does not linger among the
  ticks, invisible. `:174-181` reads `lastAutoAddedNsRef` in an updater and `:182` overwrites it: when
  the updater is not run at once, "foo", Next, Back, "bar", Next leaves both ticked and shows
  `bar` (`step = 2 => selectedNs \subseteq Visible \cup Doomed` fails in `UserWizard` in seven
  states), and both get the role;
* `CreateUserWizard.tsx`: closing, going back or editing while a creation is under way assigns
  the roles of the form as it is by then, and can lose the key; a ticked namespace that is
  deleted elsewhere stays ticked and is shown no more;
* `TopBar.tsx:33-40`: a confirmation that is open when the active cluster disappears acts on the local
  one;
* `RequestAccessModal.tsx:52, 88`: switching the scope from namespace to cluster keeps a
  Role that is no longer offered; the form can be submitted and the backend refuses it;
* a review that is refused does not refresh the list that made it look possible;
* `JitPolicyModal` closes on a click beside it, `Modal.tsx:10-11` says forms do not;
* `RoleEditorModal.tsx:103-126`: cancelling an import does not stop the parse, whose late
  answer fills the editor; an edit replaces what others changed since the list was
  read;
* `UserPermissionsPanel`: with scope "Namespace" and none chosen the binding is made in
  `default`; the password typed in `AdminPage`'s dialog is still there for the next user.

## 8. Not modelled

* **Login accounts, tokens and gates, the login rate limit, rotation of token secrets, the
  audit log**: planned (section 2). Their hazards are listed in `PROJECT.json`; most are a stale
  role in a token or a count without a lock.
* **RBAC service**: bindings of `JitAccess` and `ManagedUsers` and the roles of `RbacPages` are
  modelled, assignment by hand and custom policies are written straight to Kubernetes.
* **Token history** (the first tab of `TokensPage`): one list, deletions of its entries, no cluster.
* **Other pages** (`AdminPage`, `JitPolicyModal`, `UserPermissionsPanel`, dashboard, audit, the tabs
  "Who has access" and "Test permissions" of `RbacPage`): each shows what one query returns
  and sends one mutation at a time; what is hard about the queries is in
  `ClusterPages` and `RbacPages`.
* **Start-up, logging, exceptions, migrations, manifests** other than the CronJob's, and the CSV exports keep
  no state whose order matters.
