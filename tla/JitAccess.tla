------------------------------ MODULE JitAccess ------------------------------
(***************************************************************************)
(* Just-in-time access: the request registry (table access_requests), the  *)
(* role policies (table jit_role_policies), the bindings on every cluster, *)
(* the reviews served by the backend's worker threads, and the cleanup     *)
(* CronJob.                                                                *)
(*                                                                         *)
(* A review (approve or revoke) is a database transaction that holds the   *)
(* row lock of its request across a Kubernetes call, so it is three steps: *)
(* lock and check, call, commit.  Any of them may be the last one.  The    *)
(* cleanup job takes no lock until its final UPDATE.                       *)
(***************************************************************************)
EXTENDS Naturals

CONSTANTS
  Requests,        \* request ids (uuid4); also names the binding of the request
  Users,           \* login accounts
  Approvers,       \* accounts whose instance role is admin or approver
  Workers,         \* threads that serve reviews, over all pods
  Clusters,        \* the local cluster and the remote ones
  Local,           \* the in-cluster connection
  Roles,           \* roles that can be requested
  NamespacedRoles, \* those of kind "Role", which need a namespace
  None,            \* the absent value (NULL)
  MinTtl, MaxTtl,  \* MIN_TTL_MINUTES and MAX_TTL_MINUTES
  MaxTime,         \* bound: the clock stops there
  MaxFailures,     \* bound: crashes and lost commits
  MaxRemovals      \* bound: bindings removed by hand

ASSUME ConstantsAssumption ==
  /\ Approvers \subseteq Users
  /\ NamespacedRoles \subseteq Roles
  /\ Local \in Clusters
  /\ None \notin Requests \cup Users \cup Roles
  /\ MinTtl \in Nat \ {0} /\ MaxTtl \in Nat /\ MinTtl <= MaxTtl
  /\ MaxTime \in Nat /\ MaxFailures \in Nat /\ MaxRemovals \in Nat

VARIABLES
  clock,     \* minutes since the start
  policy,    \* policy[k]: the override row of role k, or None
  req,       \* req[r]: the row of request r
  bindings,  \* bindings[c][r]: expires-at of binding clustervision-jit-r on c, 0 if absent
  txn,       \* txn[w]: the review worker w is in
  job,       \* the cleanup job
  up,        \* clusters that are registered and answer
  failures,  \* crashes so far
  removals   \* bindings removed by hand so far

vars == <<clock, policy, req, bindings, txn, job, up, failures, removals>>

-----------------------------------------------------------------------------
(* Rows and records. *)

Ttls == MinTtl..MaxTtl

Statuses == {"none", "pending", "approved", "denied", "revoked", "expired"}

\* A row of access_requests; "none" is a row not inserted yet.
Row == [status: Statuses, requester: Users \cup {None}, role: Roles \cup {None},
        ns: BOOLEAN, ttl: Ttls \cup {0}, reviewer: Users \cup {None}, expires: Nat]

\* Mutant: the NULL expiry reaches comparisons.
NoRow_NullExpiry == [status |-> "none", requester |-> None, role |-> None,
  ns |-> FALSE, ttl |-> 0, reviewer |-> None, expires |-> None]

NoRow == [status |-> "none", requester |-> None, role |-> None, ns |-> FALSE,
          ttl |-> 0, reviewer |-> None, expires |-> 0]

\* A row of jit_role_policies; max_ttl 0 stands for NULL.
PolicyRow == [eligible: BOOLEAN, max: Ttls \cup {0}]

\* A review in progress: the row lock is held while pc is not "idle".
Txn == [pc: {"idle", "bind", "bound", "unbind", "unbound"},
        r: Requests \cup {None}, by: Users \cup {None},
        c: Clusters, expires: Nat]

Idle == [pc |-> "idle", r |-> None, by |-> None, c |-> Local, expires |-> 0]

\* The cleanup job: where it is, the cluster being reconciled, `now` of that
\* reconciliation, the clusters left, the bindings (later: rows) found, and
\* whether this reconciliation and the whole run deleted something.
Job == [pc: {"idle", "listcrb", "delcrb", "delrb", "clusters", "update"},
        now: Nat, c: Clusters, todo: SUBSET Clusters,
        found: SUBSET Requests, count: BOOLEAN, total: BOOLEAN]

NoJob == [pc |-> "idle", now |-> 0, c |-> Local, todo |-> {},
          found |-> {}, count |-> FALSE, total |-> FALSE]

TypeOK ==
  /\ clock \in Nat
  /\ policy \in [Roles -> PolicyRow \cup {None}]
  /\ req \in [Requests -> Row]
  /\ bindings \in [Clusters -> [Requests -> Nat]]
  /\ txn \in [Workers -> Txn]
  /\ job \in Job
  /\ up \subseteq Clusters
  /\ failures \in Nat /\ removals \in Nat

Init ==
  /\ clock = 0
  /\ policy = [k \in Roles |-> None]
  /\ req = [r \in Requests |-> NoRow]
  /\ bindings = [c \in Clusters |-> [r \in Requests |-> 0]]
  /\ txn = [w \in Workers |-> Idle]
  /\ job = NoJob
  /\ up = Clusters
  /\ failures = 0 /\ removals = 0

Status(r) == req[r].status
Bound(c, r) == bindings[c][r] # 0

\* The row lock of SELECT ... FOR UPDATE, held from the check to the commit.
\* Mutant: the row is read without with_for_update().
Locked_Never(r) == FALSE
Locked(r) == \E w \in Workers : txn[w].pc # "idle" /\ txn[w].r = r

-----------------------------------------------------------------------------
(* Role policies. *)

\* No row means eligible up to MaxTtl; a row can forbid or cap.
PolicyAllows(k, ttl) ==
  IF policy[k] = None THEN ttl <= MaxTtl
  ELSE /\ policy[k].eligible
       /\ ttl <= (IF policy[k].max # 0 THEN policy[k].max ELSE MaxTtl)

SetPolicy(k) ==
  /\ \E p \in PolicyRow : policy' = [policy EXCEPT ![k] = p]
  /\ UNCHANGED <<clock, req, bindings, txn, job, up, failures, removals>>

DeletePolicy(k) ==
  /\ policy' = [policy EXCEPT ![k] = None]
  /\ UNCHANGED <<clock, req, bindings, txn, job, up, failures, removals>>

-----------------------------------------------------------------------------
(* Requests and reviews. *)

CreateRequest(u, r) ==
  /\ Status(r) = "none"
  /\ \E k \in Roles, ttl \in Ttls, ns \in BOOLEAN :
       /\ k \in NamespacedRoles => ns
       /\ PolicyAllows(k, ttl)
       /\ req' = [req EXCEPT ![r] = [NoRow EXCEPT !.status = "pending",
                    !.requester = u, !.role = k, !.ns = ns, !.ttl = ttl]]
  /\ UNCHANGED <<clock, policy, bindings, txn, job, up, failures, removals>>

\* Mutant: one may approve one's own request.
MayApprove_Anyone(u, r) == TRUE
MayApprove(u, r) == req[r].requester # u

\* Mutant: the policy is only checked when the request is created.
PolicyStillAllows_Unchecked(r) == TRUE
PolicyStillAllows(r) == PolicyAllows(req[r].role, req[r].ttl)

\* Mutant: the duration is rounded up to the next unit.
ExpiryOf_RoundedUp(r) == clock + req[r].ttl + 1
ExpiryOf(r) == clock + req[r].ttl

\* approve_request up to the Kubernetes call: SELECT ... FOR UPDATE, the
\* checks, `now` and `expires_at`.  A caller that finds the row locked waits.
ApproveCheck(w, u, r, c) ==
  /\ txn[w].pc = "idle" /\ ~Locked(r)
  /\ Status(r) = "pending"
  /\ MayApprove(u, r)
  /\ PolicyStillAllows(r)
  /\ txn' = [txn EXCEPT ![w] = [pc |-> "bind", r |-> r, by |-> u, c |-> c,
                                expires |-> ExpiryOf(r)]]
  /\ UNCHANGED <<clock, policy, req, bindings, job, up, failures, removals>>

\* The create call succeeds: the cluster answers and has no such binding.
ApproveBind(w) ==
  LET t == txn[w] IN
  /\ t.pc = "bind"
  /\ t.c \in up /\ ~Bound(t.c, t.r)
  /\ bindings' = [bindings EXCEPT ![t.c][t.r] = t.expires]
  /\ txn' = [txn EXCEPT ![w].pc = "bound"]
  /\ UNCHANGED <<clock, policy, req, job, up, failures, removals>>

ApproveCommit(w) ==
  LET t == txn[w] IN
  /\ t.pc = "bound"
  /\ req' = [req EXCEPT ![t.r] = [@ EXCEPT !.status = "approved",
                                          !.reviewer = t.by, !.expires = t.expires]]
  /\ txn' = [txn EXCEPT ![w] = Idle]
  /\ UNCHANGED <<clock, policy, bindings, job, up, failures, removals>>

\* deny_request makes no outside call: one transaction.
DenyRequest(u, r) ==
  /\ ~Locked(r)
  /\ Status(r) = "pending"
  /\ req' = [req EXCEPT ![r] = [@ EXCEPT !.status = "denied", !.reviewer = u]]
  /\ UNCHANGED <<clock, policy, bindings, txn, job, up, failures, removals>>

\* revoke_request up to the Kubernetes call.  The cluster is the one named by
\* the caller's query string: the row does not say where the binding is.
RevokeCheck(w, u, r, c) ==
  /\ txn[w].pc = "idle" /\ ~Locked(r)
  /\ Status(r) = "approved"
  /\ txn' = [txn EXCEPT ![w] = [pc |-> "unbind", r |-> r, by |-> u, c |-> c,
                                expires |-> 0]]
  /\ UNCHANGED <<clock, policy, req, bindings, job, up, failures, removals>>

\* Mutant: every error of the delete call is ignored, not only 404.
RevokeUnbind_IgnoresErrors(w) ==
  LET t == txn[w] IN
  /\ t.pc = "unbind"
  /\ bindings' = IF t.c \in up THEN [bindings EXCEPT ![t.c][t.r] = 0] ELSE bindings
  /\ txn' = [txn EXCEPT ![w].pc = "unbound"]
  /\ UNCHANGED <<clock, policy, req, job, up, failures, removals>>

\* The delete call succeeds, or answers 404, which is ignored.
RevokeUnbind(w) ==
  LET t == txn[w] IN
  /\ t.pc = "unbind"
  /\ t.c \in up
  /\ bindings' = [bindings EXCEPT ![t.c][t.r] = 0]
  /\ txn' = [txn EXCEPT ![w].pc = "unbound"]
  /\ UNCHANGED <<clock, policy, req, job, up, failures, removals>>

RevokeCommit(w) ==
  LET t == txn[w] IN
  /\ t.pc = "unbound"
  /\ req' = [req EXCEPT ![t.r].status = "revoked"]
  /\ txn' = [txn EXCEPT ![w] = Idle]
  /\ UNCHANGED <<clock, policy, bindings, job, up, failures, removals>>

\* The Kubernetes call raises without effect (unreachable, refused, name
\* taken): the exception leaves the handler and the session rolls back.
ReviewCallFails(w) ==
  /\ txn[w].pc \in {"bind", "unbind"}
  /\ txn' = [txn EXCEPT ![w] = Idle]
  /\ UNCHANGED <<clock, policy, req, bindings, job, up, failures, removals>>

\* The call took effect but the transaction never commits: the pod dies, the
\* commit fails, or the reply is lost.  The database rolls back; the cluster
\* does not.
ReviewDies(w) ==
  /\ failures < MaxFailures
  /\ txn[w].pc \in {"bound", "unbound"}
  /\ txn' = [txn EXCEPT ![w] = Idle]
  /\ failures' = failures + 1
  /\ UNCHANGED <<clock, policy, req, bindings, job, up, removals>>

-----------------------------------------------------------------------------
(* The cleanup job.  concurrencyPolicy: Forbid, so there is one at a time. *)

JobStart ==
  /\ job.pc = "idle"
  /\ job' = [NoJob EXCEPT !.pc = "listcrb", !.now = clock]
  /\ UNCHANGED <<clock, policy, req, bindings, txn, up, failures, removals>>

\* Mutant: the annotation is compared with the end of the current unit.
ExpiredBindings_Early(ns) ==
  {r \in Requests : Bound(job.c, r) /\ bindings[job.c][r] <= job.now + 1 /\ req[r].ns = ns}

\* The bindings of one kind on the job's cluster whose annotation is past.
ExpiredBindings(ns) ==
  {r \in Requests : /\ Bound(job.c, r) /\ bindings[job.c][r] <= job.now
                    /\ req[r].ns = ns}

ListClusterRoleBindings ==
  /\ job.pc = "listcrb" /\ job.c \in up
  /\ job' = [job EXCEPT !.pc = "delcrb", !.found = ExpiredBindings(FALSE)]
  /\ UNCHANGED <<clock, policy, req, bindings, txn, up, failures, removals>>

ListRoleBindings ==
  /\ job.pc = "delcrb" /\ job.found = {} /\ job.c \in up
  /\ job' = [job EXCEPT !.pc = "delrb", !.found = ExpiredBindings(TRUE)]
  /\ UNCHANGED <<clock, policy, req, bindings, txn, up, failures, removals>>

\* Delete by name one of the bindings found earlier; a 404 is not counted.
DeleteExpired(r) ==
  /\ job.pc \in {"delcrb", "delrb"} /\ r \in job.found /\ job.c \in up
  /\ bindings' = [bindings EXCEPT ![job.c][r] = 0]
  /\ job' = [job EXCEPT !.found = @ \ {r}, !.count = @ \/ Bound(job.c, r)]
  /\ UNCHANGED <<clock, policy, req, txn, up, failures, removals>>

\* list_clusters: the registered remote clusters.
\* Mutant: only the local cluster is reconciled.
RemoteClusters_Forgotten == {}
RemoteClusters == Clusters \ {Local}

\* _reconcile returns: its count is added, and after the local cluster the
\* list of remote ones is read.
ReconcileReturns ==
  /\ job.pc = "delrb" /\ job.found = {}
  /\ job' = [job EXCEPT !.pc = "clusters", !.count = FALSE,
               !.total = @ \/ job.count,
               !.todo = IF job.c = Local THEN RemoteClusters ELSE @]
  /\ UNCHANGED <<clock, policy, req, bindings, txn, up, failures, removals>>

\* A call of _reconcile raises: fatal on the local cluster, swallowed (with
\* the count of what it had deleted) on a remote one.
ReconcileRaises ==
  /\ job.pc \in {"listcrb", "delcrb"} \/ (job.pc = "delrb" /\ job.found # {})
  /\ job.c \notin up
  /\ job' = IF job.c = Local THEN NoJob
            ELSE [job EXCEPT !.pc = "clusters", !.count = FALSE, !.found = {}]
  /\ UNCHANGED <<clock, policy, req, bindings, txn, up, failures, removals>>

NextCluster(c) ==
  /\ job.pc = "clusters" /\ c \in job.todo
  /\ job' = [job EXCEPT !.pc = "listcrb", !.c = c, !.now = clock, !.todo = @ \ {c}]
  /\ UNCHANGED <<clock, policy, req, bindings, txn, up, failures, removals>>

\* Nothing was deleted: main() ends without touching the registry.
NothingRevoked ==
  /\ job.pc = "clusters" /\ job.todo = {} /\ ~job.total
  /\ job' = NoJob
  /\ UNCHANGED <<clock, policy, req, bindings, txn, up, failures, removals>>

\* mark_expired reads the approved rows that are past, without locking them...
MarkSelect ==
  /\ job.pc = "clusters" /\ job.todo = {} /\ job.total
  /\ job' = [job EXCEPT !.pc = "update",
               !.found = {r \in Requests : Status(r) = "approved" /\ req[r].expires <= clock}]
  /\ UNCHANGED <<clock, policy, req, bindings, txn, up, failures, removals>>

\* ... and updates them by primary key, waiting for each row's lock.
MarkUpdate ==
  /\ job.pc = "update"
  /\ \A r \in job.found : ~Locked(r)
  /\ req' = [r \in Requests |->
               IF r \in job.found THEN [req[r] EXCEPT !.status = "expired"] ELSE req[r]]
  /\ job' = NoJob
  /\ UNCHANGED <<clock, policy, bindings, txn, up, failures, removals>>

\* The job's pod is killed; the CronJob starts another one later.
JobDies ==
  /\ failures < MaxFailures
  /\ job.pc # "idle"
  /\ job' = NoJob
  /\ failures' = failures + 1
  /\ UNCHANGED <<clock, policy, req, bindings, txn, up, removals>>

-----------------------------------------------------------------------------
(* The surroundings. *)

Tick ==
  /\ clock < MaxTime
  /\ clock' = clock + 1
  /\ UNCHANGED <<policy, req, bindings, txn, job, up, failures, removals>>

\* A cluster is unregistered or stops answering, or comes back.
Disconnect(c) ==
  /\ c \in up
  /\ up' = up \ {c}
  /\ UNCHANGED <<clock, policy, req, bindings, txn, job, failures, removals>>

Reconnect(c) ==
  /\ c \notin up
  /\ up' = up \cup {c}
  /\ UNCHANGED <<clock, policy, req, bindings, txn, job, failures, removals>>

\* An admin deletes the binding on the RBAC page (or with kubectl).
DeleteBinding(c, r) ==
  /\ removals < MaxRemovals
  /\ c \in up /\ Bound(c, r)
  /\ bindings' = [bindings EXCEPT ![c][r] = 0]
  /\ removals' = removals + 1
  /\ UNCHANGED <<clock, policy, req, txn, job, up, failures>>

-----------------------------------------------------------------------------

Review(w) ==
  \/ ApproveBind(w) \/ ApproveCommit(w)
  \/ RevokeUnbind(w) \/ RevokeCommit(w)
  \/ ReviewCallFails(w)

JobStep ==
  \/ JobStart \/ ListClusterRoleBindings \/ ListRoleBindings
  \/ \E r \in Requests : DeleteExpired(r)
  \/ ReconcileReturns \/ ReconcileRaises
  \/ \E c \in Clusters : NextCluster(c)
  \/ NothingRevoked \/ MarkSelect

Next ==
  \/ \E k \in Roles : SetPolicy(k) \/ DeletePolicy(k)
  \/ \E u \in Users, r \in Requests : CreateRequest(u, r)
  \/ \E u \in Approvers, r \in Requests : DenyRequest(u, r)
  \/ \E w \in Workers, u \in Approvers, r \in Requests, c \in Clusters :
       ApproveCheck(w, u, r, c) \/ RevokeCheck(w, u, r, c)
  \/ \E w \in Workers : Review(w) \/ ReviewDies(w)
  \/ JobStep \/ MarkUpdate \/ JobDies
  \/ Tick
  \/ \E c \in Clusters : Disconnect(c) \/ Reconnect(c)
  \/ \E c \in Clusters, r \in Requests : DeleteBinding(c, r)

\* A handler that was started runs on; the CronJob is scheduled for ever and
\* its pod runs on; PostgreSQL queues lock waiters, so the UPDATE of the job is
\* not overtaken for ever.  Nobody is obliged to ask, review or tick.
Fairness ==
  /\ \A w \in Workers : WF_vars(Review(w))
  /\ WF_vars(JobStep)
  /\ SF_vars(MarkUpdate)

Spec == Init /\ [][Next]_vars
FairSpec == Spec /\ Fairness
-----------------------------------------------------------------------------
(* Properties. *)

\* No status changes under a reviewer's feet: from the check to the commit of
\* approve_request the row stays pending, and of revoke_request approved,
\* whatever the other reviewers, deny_request and the job's mark_expired do.
\* This is what the row lock of _get_or_404 is for.
ReviewedStatusStable ==
  \A w \in Workers :
    /\ txn[w].pc \in {"bind", "bound"} => Status(txn[w].r) = "pending"
    /\ txn[w].pc \in {"unbind", "unbound"} => Status(txn[w].r) = "approved"

\* Time box: every binding, those a dead review left behind included, and
\* every recorded expiry is due within the duration that was asked for, and
\* that is never more than MAX_TTL_MINUTES (approve_request, _check_policy).
TimeBoxed ==
  \A r \in Requests :
    /\ req[r].ttl <= MaxTtl
    /\ req[r].expires <= clock + req[r].ttl
    /\ \A c \in Clusters : bindings[c][r] <= clock + req[r].ttl

\* Four eyes: whatever is bound or approved was decided, or is being decided,
\* by an approver who did not ask for it.  A binding left by a dead review is
\* the one exception, and there is none while nothing has died.
FourEyes ==
  \A r \in Requests :
    /\ Status(r) \in {"approved", "revoked", "expired"} =>
         req[r].reviewer \in Approvers \ {req[r].requester}
    /\ failures = 0 /\ (\E c \in Clusters : Bound(c, r)) =>
         \/ Status(r) \in {"approved", "revoked", "expired"}
         \/ \E w \in Workers : /\ txn[w].pc = "bound" /\ txn[w].r = r
                               /\ txn[w].by \in Approvers \ {req[r].requester}

\* The registry does not promise more than the clusters give: as long as
\* nothing dies and nobody deletes bindings by hand, a request that is approved,
\* not past and not being revoked has its binding, with the recorded expiry.
ApprovedGrantIsLive ==
  failures = 0 /\ removals = 0 =>
    \A r \in Requests :
      Status(r) = "approved" /\ req[r].expires > clock /\ ~Locked(r) =>
        \E c \in Clusters : bindings[c][r] = req[r].expires

\* A revoked request has no binding anywhere (revoke_request "deletes the
\* binding immediately").  True when there is one cluster, crashes included;
\* false as soon as there are two.
RevokedMeansUnbound ==
  \A r \in Requests, c \in Clusters : Status(r) = "revoked" => ~Bound(c, r)

\* The cleanup job only deletes bindings that are past at that moment, although
\* it deletes by name what an earlier listing returned.  Deleting a binding by
\* hand is excluded: approving its request again would reuse the name.
CleanupSparesLiveGrants ==
  [][removals = 0 =>
       \A c \in Clusters, r \in Requests :
         Bound(c, r) /\ ~Bound(c, r)' /\ job' # job => bindings[c][r] <= clock]_vars

\* Requests are decided once and closed once, grants appear only for undecided
\* requests and are never prolonged: JitAccess implements TimeBoxedAccess.
Abstract == INSTANCE TimeBoxedAccess WITH
  now <- clock,
  stage <- [r \in Requests |-> req[r].status],
  box <- [r \in Requests |-> req[r].ttl],
  grants <- bindings

ImplementsTimeBoxedAccess == Abstract!Spec

\* Automatic expiry: a binding past its expiry is deleted, provided its cluster
\* and the local one are registered and answer from some time on.  The local
\* cluster matters because main() reconciles it first and outside any try.
ExpiredGrantsEnd ==
  \A c \in Clusters, r \in Requests :
    <>[](c \in up /\ Local \in up) =>
      []((Bound(c, r) /\ bindings[c][r] <= clock) => <>~Bound(c, r))

\* A policy that is tightened while a request waits, and stays so, keeps the
\* request from ever being approved: approve_request checks the policy again.
TightenedPolicyHolds ==
  \A r \in Requests, k \in Roles, ttl \in Ttls :
    [](( /\ Status(r) = "pending" /\ req[r].role = k /\ req[r].ttl = ttl
         /\ ~Locked(r)
         /\ []~PolicyAllows(k, ttl)) => []~(Status(r) = "approved"))
=============================================================================
