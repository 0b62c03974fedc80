--------------------------- MODULE JitAccess_proofs ---------------------------
(***************************************************************************)
(* Proofs about JitAccess, for every number of requests, accounts, workers *)
(* and clusters, every duration and every amount of crashes.               *)
(***************************************************************************)
EXTENDS JitAccess, TLAPS

\* A worker that is in a review has a request and a reviewer.
TxnOK ==
  \A w \in Workers : txn[w].pc # "idle" => txn[w].r \in Requests /\ txn[w].by \in Approvers

TypeInv == TypeOK /\ TxnOK

USE ConstantsAssumption DEF ConstantsAssumption

\* Every variable keeps its type: the base of all that follows.
LEMMA TypeInit == Init => TypeInv
  <1> SUFFICES ASSUME Init PROVE TypeInv
    OBVIOUS
  <1> USE DEF Init
  <1>1. policy \in [Roles -> PolicyRow \cup {None}]
    OBVIOUS
  <1>2. NoRow \in Row
    BY DEF NoRow, Row, Statuses
  <1>3. Idle \in Txn /\ NoJob \in Job
    BY DEF Idle, Txn, NoJob, Job
  <1>4. TypeOK
    BY <1>1, <1>2, <1>3 DEF TypeOK
  <1>5. TxnOK
    BY DEF TxnOK, Idle
  <1>. QED
    BY <1>4, <1>5 DEF TypeInv

LEMMA RowStep ==
  ASSUME NEW row \in Row, NEW s \in Statuses, NEW v \in Users \cup {None}, NEW e \in Nat
  PROVE  /\ [row EXCEPT !.status = s] \in Row
         /\ [row EXCEPT !.status = s, !.reviewer = v] \in Row
         /\ [row EXCEPT !.status = s, !.reviewer = v, !.expires = e] \in Row
  BY DEF Row

LEMMA TypeNext == TypeInv /\ [Next]_vars => TypeInv'
  <1> SUFFICES ASSUME TypeInv, [Next]_vars PROVE TypeInv'
    OBVIOUS
  <1> USE DEF TypeInv, TypeOK, TxnOK
  <1>a. NoRow \in Row /\ Idle \in Txn /\ NoJob \in Job
    BY DEF NoRow, Row, Statuses, Idle, Txn, NoJob, Job
  <1>1. ASSUME NEW k \in Roles, SetPolicy(k) PROVE TypeInv'
    BY <1>1 DEF SetPolicy
  <1>2. ASSUME NEW k \in Roles, DeletePolicy(k) PROVE TypeInv'
    BY <1>2 DEF DeletePolicy
  <1>3. ASSUME NEW u \in Users, NEW r \in Requests, CreateRequest(u, r) PROVE TypeInv'
    <2>1. PICK k \in Roles, ttl \in Ttls, ns \in BOOLEAN :
            req' = [req EXCEPT ![r] = [NoRow EXCEPT !.status = "pending",
                      !.requester = u, !.role = k, !.ns = ns, !.ttl = ttl]]
      BY <1>3 DEF CreateRequest
    <2>2. req'[r] \in Row
      BY <2>1 DEF Row, NoRow, Statuses
    <2>3. req' \in [Requests -> Row]
      BY <2>1, <2>2
    <2>. QED
      BY <1>3, <2>3 DEF CreateRequest
  <1>4. ASSUME NEW u \in Approvers, NEW r \in Requests, DenyRequest(u, r) PROVE TypeInv'
    <2>1. req'[r] \in Row
      <3>1. req'[r] = [req[r] EXCEPT !.status = "denied", !.reviewer = u]
        BY <1>4 DEF DenyRequest
      <3>2. [req[r] EXCEPT !.status = "denied", !.reviewer = u] \in Row
        BY RowStep DEF Statuses
      <3>. QED
        BY <3>1, <3>2
    <2>. QED
      BY <1>4, <2>1 DEF DenyRequest
  <1>5. ASSUME NEW w \in Workers, NEW u \in Approvers, NEW r \in Requests, NEW c \in Clusters,
               ApproveCheck(w, u, r, c) PROVE TypeInv'
    <2>1. ExpiryOf(r) \in Nat
      BY DEF ExpiryOf, Row, Ttls
    <2>. QED
      BY <1>5, <2>1 DEF ApproveCheck, Txn
  <1>6. ASSUME NEW w \in Workers, NEW u \in Approvers, NEW r \in Requests, NEW c \in Clusters,
               RevokeCheck(w, u, r, c) PROVE TypeInv'
    BY <1>6 DEF RevokeCheck, Txn
  <1>7. ASSUME NEW w \in Workers, ApproveBind(w) PROVE TypeInv'
    BY <1>7 DEF ApproveBind, Txn
  <1>8. ASSUME NEW w \in Workers, ApproveCommit(w) PROVE TypeInv'
    <2>1. PICK r \in Requests, u \in Users, e \in Nat :
            req' = [req EXCEPT ![r] = [req[r] EXCEPT !.status = "approved",
                      !.reviewer = u, !.expires = e]]
      BY <1>8 DEF ApproveCommit, Txn
    <2>2. req'[r] \in Row
      BY <2>1, RowStep DEF Statuses
    <2>3. req' \in [Requests -> Row]
      BY <2>1, <2>2
    <2>4. txn' \in [Workers -> Txn] /\ TxnOK'
      BY <1>8, <1>a DEF ApproveCommit, Idle
    <2>. QED
      BY <1>8, <2>3, <2>4 DEF ApproveCommit
  <1>9. ASSUME NEW w \in Workers, RevokeUnbind(w) PROVE TypeInv'
    BY <1>9 DEF RevokeUnbind, Txn
  <1>10. ASSUME NEW w \in Workers, RevokeCommit(w) PROVE TypeInv'
    <2>1. PICK r \in Requests : req' = [req EXCEPT ![r] = [req[r] EXCEPT !.status = "revoked"]]
      BY <1>10 DEF RevokeCommit, Txn
    <2>2. [req[r] EXCEPT !.status = "revoked"] \in Row
      BY RowStep DEF Statuses
    <2>3. req' \in [Requests -> Row]
      BY <2>1, <2>2
    <2>4. txn' \in [Workers -> Txn] /\ TxnOK'
      BY <1>10, <1>a DEF RevokeCommit, Idle
    <2>. QED
      BY <1>10, <2>3, <2>4 DEF RevokeCommit
  <1>11. ASSUME NEW w \in Workers, ReviewCallFails(w) \/ ReviewDies(w) PROVE TypeInv'
    BY <1>11, <1>a DEF ReviewCallFails, ReviewDies, Idle
  <1>12. CASE JobStep
    <2>1. CASE JobStart
      BY <2>1, <1>a DEF JobStart, Job, NoJob
    <2>2. CASE ListClusterRoleBindings \/ ListRoleBindings
      <3>1. PICK pc \in {"delcrb", "delrb"}, R \in SUBSET Requests :
              job' = [job EXCEPT !.pc = pc, !.found = R]
        BY <2>2 DEF ListClusterRoleBindings, ListRoleBindings, ExpiredBindings
      <3>2. job' \in Job
        BY <3>1 DEF Job
      <3>. QED
        BY <2>2, <3>2 DEF ListClusterRoleBindings, ListRoleBindings
    <2>3. ASSUME NEW r \in Requests, DeleteExpired(r) PROVE TypeInv'
      BY <2>3 DEF DeleteExpired, Job, Bound
    <2>4. CASE ReconcileReturns
      BY <2>4 DEF ReconcileReturns, Job, RemoteClusters
    <2>5. CASE ReconcileRaises
      BY <2>5, <1>a DEF ReconcileRaises, Job
    <2>6. ASSUME NEW c \in Clusters, NextCluster(c) PROVE TypeInv'
      BY <2>6 DEF NextCluster, Job
    <2>7. CASE NothingRevoked
      BY <2>7, <1>a DEF NothingRevoked
    <2>8. CASE MarkSelect
      BY <2>8 DEF MarkSelect, Job
    <2>. QED
      BY <1>12, <2>1, <2>2, <2>3, <2>4, <2>5, <2>6, <2>7, <2>8 DEF JobStep
  <1>13. CASE MarkUpdate
    <2>1. \A r \in Requests : [req[r] EXCEPT !.status = "expired"] \in Row
      BY RowStep DEF Statuses
    <2>2. req' \in [Requests -> Row]
      BY <1>13, <2>1 DEF MarkUpdate
    <2>. QED
      BY <1>13, <1>a, <2>2 DEF MarkUpdate
  <1>14. CASE JobDies
    BY <1>14, <1>a DEF JobDies
  <1>15. CASE Tick
    BY <1>15 DEF Tick
  <1>16. ASSUME NEW c \in Clusters, Disconnect(c) \/ Reconnect(c) PROVE TypeInv'
    BY <1>16 DEF Disconnect, Reconnect
  <1>17. ASSUME NEW c \in Clusters, NEW r \in Requests, DeleteBinding(c, r) PROVE TypeInv'
    BY <1>17 DEF DeleteBinding
  <1>18. CASE UNCHANGED vars
    BY <1>18 DEF vars
  <1>. QED
    BY <1>1, <1>2, <1>3, <1>4, <1>5, <1>6, <1>7, <1>8, <1>9, <1>10, <1>11, <1>12, <1>13,
       <1>14, <1>15, <1>16, <1>17, <1>18 DEF Next, Review

\* Type correctness: what the variables hold in every reachable state.
THEOREM TypeCorrect == Spec => []TypeOK
  <1>1. TypeInv => TypeOK
    BY DEF TypeInv
  <1>. QED
    BY TypeInit, TypeNext, <1>1, PTL DEF Spec

-----------------------------------------------------------------------------
(* What the actions with nested updates do, field by field. *)

LEMMA CreateEffect ==
  ASSUME NEW u \in Users, NEW r \in Requests, CreateRequest(u, r), TypeInv
  PROVE  /\ Status(r) = "none" /\ req'[r].status = "pending"
         /\ req'[r].ttl \in Ttls /\ req'[r].expires = 0
         /\ \A q \in Requests \ {r} : req'[q] = req[q]
         /\ UNCHANGED <<clock, bindings, txn, job, failures, removals>>
  <1>1. PICK k \in Roles, ttl \in Ttls, ns \in BOOLEAN :
          req' = [req EXCEPT ![r] = [NoRow EXCEPT !.status = "pending",
                    !.requester = u, !.role = k, !.ns = ns, !.ttl = ttl]]
    BY DEF CreateRequest
  <1>. QED
    BY <1>1 DEF CreateRequest, NoRow, TypeInv, TypeOK

LEMMA CallEffect ==
  ASSUME NEW w \in Workers, ApproveBind(w) \/ RevokeUnbind(w), TypeInv
  PROVE  /\ \/ txn[w].pc = "bind" /\ txn'[w].pc = "bound"
            \/ txn[w].pc = "unbind" /\ txn'[w].pc = "unbound"
         /\ \A v \in Workers : /\ txn'[v].r = txn[v].r /\ txn'[v].by = txn[v].by
                              /\ txn'[v].c = txn[v].c /\ txn'[v].expires = txn[v].expires
         /\ \A v \in Workers \ {w} : txn'[v] = txn[v]
         /\ UNCHANGED <<clock, req, job, failures, removals>>
  <1> USE DEF TypeInv, TypeOK, Txn
  <1>1. CASE ApproveBind(w)
    <2>1. txn' = [txn EXCEPT ![w] = [txn[w] EXCEPT !.pc = "bound"]]
      BY <1>1 DEF ApproveBind
    <2>. QED
      BY <1>1, <2>1 DEF ApproveBind
  <1>2. CASE RevokeUnbind(w)
    <2>1. txn' = [txn EXCEPT ![w] = [txn[w] EXCEPT !.pc = "unbound"]]
      BY <1>2 DEF RevokeUnbind
    <2>. QED
      BY <1>2, <2>1 DEF RevokeUnbind
  <1>. QED
    BY <1>1, <1>2

-----------------------------------------------------------------------------
(* Reviews exclude one another. *)

\* At most one review per request holds its row lock.
LockExclusive ==
  \A v, w \in Workers :
    txn[v].pc # "idle" /\ txn[w].pc # "idle" /\ txn[v].r = txn[w].r => v = w

\* Who is approving, or has approved, did not ask.
ReviewersDiffer ==
  /\ \A w \in Workers : txn[w].pc \in {"bind", "bound"} =>
                            txn[w].by # req[txn[w].r].requester
  /\ \A r \in Requests : Status(r) \in {"approved", "revoked", "expired"} =>
                            req[r].reviewer \in Approvers \ {req[r].requester}

\* What mark_expired is about to update was approved when it looked, and can
\* only have been revoked since.
MarkedWereApproved ==
  job.pc = "update" => \A r \in job.found : Status(r) \in {"approved", "revoked"}

ReviewInv ==
  LockExclusive /\ ReviewedStatusStable /\ ReviewersDiffer /\ MarkedWereApproved

LEMMA ReviewInit == Init => ReviewInv
  BY DEF Init, ReviewInv, LockExclusive, ReviewedStatusStable, ReviewersDiffer,
         MarkedWereApproved, Status, NoRow, Idle, NoJob

\* Steps of the job that leave the registry alone: what they may mark.
LEMMA JobStepMarks ==
  ASSUME TypeInv, JobStep \/ JobDies
  PROVE  /\ UNCHANGED <<req, txn>>
         /\ job'.pc = "update" => \A r \in job'.found : Status(r) = "approved"
  <1> USE DEF TypeInv, TypeOK, Job
  <1>1. CASE JobStart
    BY <1>1 DEF JobStart, NoJob
  <1>2. CASE ListClusterRoleBindings \/ ListRoleBindings
    BY <1>2 DEF ListClusterRoleBindings, ListRoleBindings
  <1>3. ASSUME NEW r \in Requests, DeleteExpired(r)
        PROVE  UNCHANGED <<req, txn>> /\ job'.pc # "update"
    BY <1>3 DEF DeleteExpired
  <1>4. CASE ReconcileReturns
    BY <1>4 DEF ReconcileReturns
  <1>4a. CASE ReconcileRaises
    <2>1. job'.pc \in {"idle", "clusters"}
      BY <1>4a DEF ReconcileRaises, NoJob
    <2>. QED
      BY <1>4a, <2>1 DEF ReconcileRaises
  <1>5. ASSUME NEW c \in Clusters, NextCluster(c)
        PROVE  UNCHANGED <<req, txn>> /\ job'.pc # "update"
    BY <1>5 DEF NextCluster
  <1>6. CASE NothingRevoked \/ JobDies
    BY <1>6 DEF NothingRevoked, JobDies, NoJob
  <1>7. CASE MarkSelect
    BY <1>7 DEF MarkSelect
  <1>. QED
    BY <1>1, <1>2, <1>3, <1>4, <1>4a, <1>5, <1>6, <1>7 DEF JobStep

LEMMA ReviewNext == TypeInv /\ ReviewInv /\ [Next]_vars => ReviewInv'
  <1> SUFFICES ASSUME TypeInv, ReviewInv, [Next]_vars PROVE ReviewInv'
    OBVIOUS
  <1> USE DEF TypeInv, TypeOK, TxnOK, ReviewInv, LockExclusive, ReviewedStatusStable,
              ReviewersDiffer, MarkedWereApproved, Status
  <1>1. CASE UNCHANGED <<req, txn, job>>
    BY <1>1
  <1>2. ASSUME NEW u \in Users, NEW r \in Requests, CreateRequest(u, r) PROVE ReviewInv'
    BY <1>2, CreateEffect, SMTT(30) DEF Job
  <1>3. ASSUME NEW u \in Approvers, NEW r \in Requests, DenyRequest(u, r) PROVE ReviewInv'
    BY <1>3 DEF DenyRequest, Locked, Row, Job
  <1>4. ASSUME NEW w \in Workers, NEW u \in Approvers, NEW r \in Requests, NEW c \in Clusters,
               ApproveCheck(w, u, r, c) PROVE ReviewInv'
    BY <1>4 DEF ApproveCheck, Locked, MayApprove
  <1>5. ASSUME NEW w \in Workers, NEW u \in Approvers, NEW r \in Requests, NEW c \in Clusters,
               RevokeCheck(w, u, r, c) PROVE ReviewInv'
    BY <1>5 DEF RevokeCheck, Locked
  <1>6. ASSUME NEW w \in Workers, ApproveBind(w) \/ RevokeUnbind(w) PROVE ReviewInv'
    BY <1>6, CallEffect
  <1>7. ASSUME NEW w \in Workers, ApproveCommit(w) PROVE ReviewInv'
    BY <1>7 DEF ApproveCommit, Txn, Idle, Row, Job
  <1>8. ASSUME NEW w \in Workers, RevokeCommit(w) PROVE ReviewInv'
    BY <1>8 DEF RevokeCommit, Txn, Idle, Row, Job
  <1>9. ASSUME NEW w \in Workers, ReviewCallFails(w) \/ ReviewDies(w) PROVE ReviewInv'
    <2>1. /\ UNCHANGED <<req, job>>
          /\ txn'[w].pc = "idle"
          /\ \A v \in Workers \ {w} : txn'[v] = txn[v]
      BY <1>9 DEF ReviewCallFails, ReviewDies, Idle
    <2>. QED
      BY <2>1
  <1>10. CASE JobStep \/ JobDies
    BY <1>10, JobStepMarks
  <1>11. CASE MarkUpdate
    BY <1>11 DEF MarkUpdate, Locked, NoJob, Row, Job
  <1>. QED
    BY <1>1, <1>2, <1>3, <1>4, <1>5, <1>6, <1>7, <1>8, <1>9, <1>10, <1>11
    DEF Next, Review, vars, SetPolicy, DeletePolicy, Tick, Disconnect, Reconnect, DeleteBinding

\* No request changes status while it is under review: the row lock works.
THEOREM RowLockHolds == Spec => []ReviewedStatusStable
  <1>1. ReviewInv => ReviewedStatusStable
    BY DEF ReviewInv
  <1>. QED
    BY TypeInit, TypeNext, ReviewInit, ReviewNext, <1>1, PTL DEF Spec

-----------------------------------------------------------------------------
(* The time box. *)

BoxInv ==
  /\ TimeBoxed
  /\ \A r \in Requests : IF Status(r) = "none" THEN req[r].ttl = 0 ELSE req[r].ttl \in Ttls
  /\ \A w \in Workers : txn[w].pc \in {"bind", "bound"} =>
                            txn[w].expires \in 1..(clock + req[txn[w].r].ttl)

LEMMA BoxInit == Init => BoxInv
  BY DEF Init, BoxInv, TimeBoxed, Status, NoRow, Idle

LEMMA BoxNext == TypeInv /\ ReviewInv /\ BoxInv /\ [Next]_vars => BoxInv'
  <1> SUFFICES ASSUME TypeInv, ReviewInv, BoxInv, [Next]_vars PROVE BoxInv'
    OBVIOUS
  <1> USE DEF TypeInv, TypeOK, TxnOK, BoxInv, TimeBoxed, Status, Row, Ttls
  <1>a. ReviewedStatusStable /\ MarkedWereApproved
    BY DEF ReviewInv
  <1>1. CASE UNCHANGED <<clock, req, bindings, txn>>
    BY <1>1
  <1>2. ASSUME NEW u \in Users, NEW r \in Requests, CreateRequest(u, r) PROVE BoxInv'
    <2>1. /\ req'[r].ttl \in Ttls /\ req'[r].expires = 0 /\ req'[r].status = "pending"
          /\ req[r].status = "none"
          /\ \A q \in Requests \ {r} : req'[q] = req[q]
          /\ UNCHANGED <<clock, bindings, txn>>
      BY <1>2, CreateEffect
    <2>2. \A q \in Requests : req[q].ttl <= req'[q].ttl /\ req'[q].expires <= req[q].expires
      BY <2>1
    <2>3. \A q \in Requests : req'[q].ttl \in Nat /\ req'[q].ttl <= MaxTtl
      BY <2>1
    <2>4. TimeBoxed'
      BY <2>1, <2>2, <2>3
    <2>5. ASSUME NEW w \in Workers, txn[w].pc \in {"bind", "bound"}
          PROVE  txn[w].expires \in 1..(clock + req'[txn[w].r].ttl)
      <3>1. txn[w].r \in Requests /\ txn[w].expires \in 1..(clock + req[txn[w].r].ttl)
        BY <2>5
      <3>. QED
        BY <2>2, <2>3, <3>1
    <2>. QED
      BY <2>1, <2>4, <2>5
  <1>3. ASSUME NEW u \in Approvers, NEW r \in Requests, DenyRequest(u, r) PROVE BoxInv'
    BY <1>3 DEF DenyRequest
  <1>4. ASSUME NEW w \in Workers, NEW u \in Approvers, NEW r \in Requests, NEW c \in Clusters,
               ApproveCheck(w, u, r, c) PROVE BoxInv'
    <2>1. ExpiryOf(r) \in 1..(clock + req[r].ttl)
      BY <1>4 DEF ApproveCheck, ExpiryOf
    <2>. QED
      BY <1>4, <2>1 DEF ApproveCheck
  <1>5. ASSUME NEW w \in Workers, NEW u \in Approvers, NEW r \in Requests, NEW c \in Clusters,
               RevokeCheck(w, u, r, c) PROVE BoxInv'
    BY <1>5 DEF RevokeCheck
  <1>6. ASSUME NEW w \in Workers, ApproveBind(w) PROVE BoxInv'
    <2>1. bindings' = [bindings EXCEPT ![txn[w].c][txn[w].r] = txn[w].expires]
      BY <1>6 DEF ApproveBind
    <2>2. txn[w].pc = "bind" /\ txn[w].expires \in 1..(clock + req[txn[w].r].ttl)
      BY <1>6 DEF ApproveBind
    <2>3. \A c \in Clusters, r \in Requests : bindings'[c][r] <= clock + req[r].ttl
      BY <2>1, <2>2
    <2>. QED
      BY <1>6, CallEffect, <2>3
  <1>7. ASSUME NEW w \in Workers, RevokeUnbind(w) PROVE BoxInv'
    <2>1. bindings' = [bindings EXCEPT ![txn[w].c][txn[w].r] = 0]
      BY <1>7 DEF RevokeUnbind
    <2>2. \A c \in Clusters, r \in Requests : bindings'[c][r] <= clock + req[r].ttl
      BY <2>1
    <2>. QED
      BY <1>7, CallEffect, <2>2
  <1>8. ASSUME NEW w \in Workers, ApproveCommit(w) PROVE BoxInv'
    <2>1. txn[w].pc = "bound" /\ txn[w].expires \in 1..(clock + req[txn[w].r].ttl)
      BY <1>8 DEF ApproveCommit
    <2>2. /\ UNCHANGED <<clock, bindings>>
          /\ \A r \in Requests : req'[r].ttl = req[r].ttl
          /\ \A r \in Requests \ {txn[w].r} : req'[r] = req[r]
          /\ req'[txn[w].r].expires = txn[w].expires /\ req'[txn[w].r].status = "approved"
          /\ txn' = [txn EXCEPT ![w] = Idle]
      BY <1>8, <2>1 DEF ApproveCommit
    <2>3. Status(txn[w].r) = "pending"
      BY <1>a, <2>1 DEF ReviewedStatusStable
    <2>4. txn[w].r \in Requests /\ TimeBoxed'
      BY <2>1, <2>2
    <2>5. \A v \in Workers : txn'[v].pc \in {"bind", "bound"} => txn'[v] = txn[v]
      BY <2>2 DEF Idle
    <2>6. \A r \in Requests : IF req'[r].status = "none" THEN req'[r].ttl = 0 ELSE req'[r].ttl \in Ttls
      BY <2>2, <2>3
    <2>7. \A v \in Workers : txn'[v].pc \in {"bind", "bound"} =>
            txn'[v].expires \in 1..(clock' + req'[txn'[v].r].ttl)
      BY <2>2, <2>5
    <2>. QED
      BY <2>4, <2>6, <2>7
  <1>9. ASSUME NEW w \in Workers, RevokeCommit(w) PROVE BoxInv'
    <2>1. \A r \in Requests : /\ req'[r].ttl = req[r].ttl /\ req'[r].expires = req[r].expires
                             /\ \/ req'[r].status # "none" /\ req[r].status # "none"
                                \/ req'[r] = req[r]
      BY <1>9, <1>a DEF RevokeCommit, ReviewedStatusStable
    <2>. QED
      BY <1>9, <2>1 DEF RevokeCommit, Idle
  <1>10. ASSUME NEW w \in Workers, ReviewCallFails(w) \/ ReviewDies(w) PROVE BoxInv'
    BY <1>10 DEF ReviewCallFails, ReviewDies, Idle
  <1>11. ASSUME NEW r \in Requests, DeleteExpired(r) PROVE BoxInv'
    BY <1>11 DEF DeleteExpired, Job
  <1>12. CASE MarkUpdate
    <2>1. \A r \in Requests : /\ req'[r].ttl = req[r].ttl /\ req'[r].expires = req[r].expires
                             /\ \/ req'[r].status # "none" /\ req[r].status # "none"
                                \/ req'[r] = req[r]
      BY <1>12, <1>a DEF MarkUpdate, MarkedWereApproved, Job
    <2>. QED
      BY <1>12, <2>1 DEF MarkUpdate
  <1>13. CASE Tick
    <2>1. clock' = clock + 1 /\ UNCHANGED <<req, bindings, txn>>
      BY <1>13 DEF Tick
    <2>2. \A r \in Requests : req[r].ttl \in Nat /\ req[r].expires \in Nat
      OBVIOUS
    <2>. QED
      BY <2>1, <2>2
  <1>14. ASSUME NEW c \in Clusters, NEW r \in Requests, DeleteBinding(c, r) PROVE BoxInv'
    BY <1>14 DEF DeleteBinding
  <1>15. CASE JobStep /\ ~(\E r \in Requests : DeleteExpired(r))
    BY <1>1, <1>15 DEF JobStep, JobStart, ListClusterRoleBindings, ListRoleBindings,
       ReconcileReturns, ReconcileRaises, NextCluster, NothingRevoked, MarkSelect
  <1>. QED
    BY <1>1, <1>2, <1>3, <1>4, <1>5, <1>6, <1>7, <1>8, <1>9, <1>10, <1>11, <1>12, <1>13,
       <1>14, <1>15
    DEF Next, Review, vars, SetPolicy, DeletePolicy, Disconnect, Reconnect, JobDies

\* No grant, not even one left behind by a dead review, is due later than the
\* duration asked for, which is at most MAX_TTL_MINUTES.
THEOREM GrantsAreTimeBoxed == Spec => []TimeBoxed
  <1>1. BoxInv => TimeBoxed
    BY DEF BoxInv
  <1>. QED
    BY TypeInit, TypeNext, ReviewInit, ReviewNext, BoxInit, BoxNext, <1>1, PTL DEF Spec

-----------------------------------------------------------------------------
(* JitAccess implements TimeBoxedAccess. *)

LEMMA TtlRange == \A t \in Ttls : t \in 1..MaxTtl
  BY DEF Ttls

\* Witnesses of the abstract next-state relation.
LEMMA AbstractSteps ==
  /\ \A r \in Requests : Abstract!Decide(r) \/ Abstract!Revoke(r) \/ Abstract!Ask(r) => Abstract!Next
  /\ \A R \in SUBSET Requests : Abstract!Lapse(R) => Abstract!Next
  /\ \A c \in Clusters, r \in Requests :
       Abstract!Issue(c, r) \/ Abstract!End(c, r) => Abstract!Next
  /\ Abstract!Tick => Abstract!Next
  BY Zenon DEF Abstract!Next

LEMMA AbstractInit == Init => Abstract!Init
  BY DEF Init, Abstract!Init, NoRow

LEMMA AbstractNext ==
  TypeInv /\ ReviewInv /\ BoxInv /\ [Next]_vars => [Abstract!Next]_(Abstract!vars)
  <1> SUFFICES ASSUME TypeInv, ReviewInv, BoxInv, [Next]_vars
               PROVE  Abstract!Next \/ UNCHANGED Abstract!vars
    BY DEF Abstract!vars
  <1> DEFINE stage == [r \in Requests |-> req[r].status]
             box == [r \in Requests |-> req[r].ttl]
  <1> USE DEF TypeInv, TypeOK, TxnOK
  <1>a. ReviewedStatusStable /\ MarkedWereApproved
    BY DEF ReviewInv
  <1>1. CASE UNCHANGED <<clock, req, bindings>>
    BY <1>1 DEF Abstract!vars
  <1>2. ASSUME NEW u \in Users, NEW r \in Requests, CreateRequest(u, r) PROVE Abstract!Ask(r)
    <2>1. /\ Status(r) = "none" /\ req'[r].status = "pending" /\ req'[r].ttl \in Ttls
          /\ \A q \in Requests \ {r} : req'[q] = req[q]
          /\ UNCHANGED <<clock, bindings>>
      BY <1>2, CreateEffect
    <2>2. req'[r].ttl \in 1..MaxTtl
      BY <2>1, TtlRange
    <2>3. stage[r] = "none" /\ stage' = [stage EXCEPT ![r] = "pending"]
      BY <2>1 DEF Status
    <2>4. box' = [box EXCEPT ![r] = req'[r].ttl]
      BY <2>1
    <2>. QED
      BY <2>1, <2>2, <2>3, <2>4 DEF Abstract!Ask
  <1>3. ASSUME NEW r \in Requests, Status(r) = "pending", req'[r].status \in {"approved", "denied"},
               req'[r].ttl = req[r].ttl, \A q \in Requests \ {r} : req'[q] = req[q],
               UNCHANGED <<clock, bindings>>
        PROVE  Abstract!Next
    <2>1. stage[r] = "pending" /\ stage' = [stage EXCEPT ![r] = req'[r].status] /\ box' = box
      BY <1>3 DEF Status
    <2>2. Abstract!Decide(r)
      BY <1>3, <2>1 DEF Abstract!Decide
    <2>. QED
      BY <2>2, AbstractSteps
  <1>4. ASSUME NEW u \in Approvers, NEW r \in Requests, DenyRequest(u, r) PROVE Abstract!Next
    BY <1>3, <1>4 DEF DenyRequest, Row
  <1>5. ASSUME NEW w \in Workers, ApproveCommit(w) PROVE Abstract!Next
    <2>1. PICK r \in Requests : r = txn[w].r
      BY <1>5 DEF ApproveCommit
    <2>2. Status(r) = "pending"
      BY <1>5, <1>a, <2>1 DEF ApproveCommit, ReviewedStatusStable
    <2>3. /\ req'[r].status = "approved" /\ req'[r].ttl = req[r].ttl
          /\ \A q \in Requests \ {r} : req'[q] = req[q]
          /\ UNCHANGED <<clock, bindings>>
      BY <1>5, <2>1 DEF ApproveCommit, Row
    <2>. QED
      BY <1>3, <2>2, <2>3
  <1>6. ASSUME NEW w \in Workers, RevokeCommit(w) PROVE Abstract!Next
    <2>1. PICK r \in Requests : r = txn[w].r
      BY <1>6 DEF RevokeCommit
    <2>2. Status(r) = "approved" /\ req' = [req EXCEPT ![r].status = "revoked"]
          /\ UNCHANGED <<clock, bindings>>
      BY <1>6, <1>a, <2>1 DEF RevokeCommit, ReviewedStatusStable
    <2>3. stage[r] = "approved" /\ stage' = [stage EXCEPT ![r] = "revoked"] /\ box' = box
      BY <2>1, <2>2 DEF Status, Row
    <2>4. Abstract!Revoke(r)
      BY <2>2, <2>3 DEF Abstract!Revoke
    <2>. QED
      BY <2>4, AbstractSteps
  <1>7. CASE MarkUpdate
    <2>1. PICK R \in SUBSET Requests : R = job.found
      BY DEF Job
    <2>2. \A r \in R : stage[r] \in {"approved", "revoked"}
      BY <1>7, <1>a, <2>1 DEF MarkUpdate, MarkedWereApproved, Status
    <2>3. /\ stage' = [r \in Requests |-> IF r \in R THEN "expired" ELSE stage[r]]
          /\ box' = box
      BY <1>7, <2>1 DEF MarkUpdate, Row
    <2>4. Abstract!Lapse(R)
      BY <1>7, <2>2, <2>3 DEF MarkUpdate, Abstract!Lapse
    <2>. QED
      BY <2>4, AbstractSteps
  <1>8. ASSUME NEW w \in Workers, ApproveBind(w) PROVE Abstract!Next
    <2>1. PICK r \in Requests, c \in Clusters, e \in Nat :
            r = txn[w].r /\ c = txn[w].c /\ e = txn[w].expires
      BY <1>8 DEF ApproveBind, Txn
    <2>2. Status(r) = "pending" /\ e \in 1..(clock + box[r])
      BY <1>8, <1>a, <2>1 DEF ApproveBind, ReviewedStatusStable, BoxInv
    <2>3. stage[r] = "pending" /\ stage' = stage /\ box' = box
      BY <1>8, <2>2 DEF ApproveBind, Status
    <2>4. Abstract!Issue(c, r)
      BY <1>8, <2>1, <2>2, <2>3 DEF ApproveBind, Bound, Abstract!Issue
    <2>. QED
      BY <2>4, AbstractSteps
  <1>9. ASSUME NEW c \in Clusters, NEW r \in Requests, UNCHANGED <<clock, req>>,
               bindings' = [bindings EXCEPT ![c][r] = 0]
        PROVE  Abstract!Next \/ UNCHANGED Abstract!vars
    <2>1. CASE bindings[c][r] = 0
      <3>1. bindings' = bindings
        BY <1>9, <2>1
      <3>. QED
        BY <1>9, <3>1 DEF Abstract!vars
    <2>2. CASE bindings[c][r] # 0
      <3>1. Abstract!End(c, r)
        BY <1>9, <2>2 DEF Abstract!End
      <3>. QED
        BY <3>1, AbstractSteps
    <2>. QED
      BY <2>1, <2>2
  <1>10. ASSUME NEW w \in Workers, RevokeUnbind(w) PROVE Abstract!Next \/ UNCHANGED Abstract!vars
    <2>1. PICK r \in Requests, c \in Clusters : r = txn[w].r /\ c = txn[w].c
      BY <1>10 DEF RevokeUnbind, Txn
    <2>. QED
      BY <1>9, <1>10, <2>1 DEF RevokeUnbind
  <1>11. ASSUME NEW r \in Requests, DeleteExpired(r) PROVE Abstract!Next \/ UNCHANGED Abstract!vars
    <2>1. PICK c \in Clusters : c = job.c
      BY DEF Job
    <2>. QED
      BY <1>9, <1>11, <2>1 DEF DeleteExpired
  <1>12. ASSUME NEW c \in Clusters, NEW r \in Requests, DeleteBinding(c, r)
         PROVE  Abstract!Next \/ UNCHANGED Abstract!vars
    BY <1>9, <1>12 DEF DeleteBinding
  <1>13. CASE Tick
    <2>1. Abstract!Tick
      BY <1>13 DEF Tick, Abstract!Tick
    <2>. QED
      BY <2>1, AbstractSteps
  <1>15. ASSUME NEW w \in Workers, Review(w) \/ ReviewDies(w)
         PROVE  Abstract!Next \/ UNCHANGED Abstract!vars
    <2>1. CASE ReviewCallFails(w) \/ ReviewDies(w)
      BY <1>1, <2>1 DEF ReviewCallFails, ReviewDies
    <2>. QED
      BY <1>5, <1>6, <1>8, <1>10, <1>15, <2>1 DEF Review
  <1>16. CASE JobStep
    <2>1. CASE \E r \in Requests : DeleteExpired(r)
      BY <1>11, <2>1
    <2>2. CASE ~(\E r \in Requests : DeleteExpired(r))
      BY <1>1, <1>16, <2>2 DEF JobStep, JobStart, ListClusterRoleBindings, ListRoleBindings,
         ReconcileReturns, ReconcileRaises, NextCluster, NothingRevoked, MarkSelect
    <2>. QED
      BY <2>1, <2>2
  <1>. QED
    BY <1>1, <1>2, <1>4, <1>7, <1>12, <1>13, <1>15, <1>16, AbstractSteps
    DEF Next, vars, SetPolicy, DeletePolicy, ApproveCheck, RevokeCheck, Disconnect, Reconnect, JobDies

\* Just-in-time access does what TimeBoxedAccess promises: one decision and one
\* end per request, grants only before the decision and within the time box.
THEOREM Refinement == Spec => ImplementsTimeBoxedAccess
  BY TypeInit, TypeNext, ReviewInit, ReviewNext, BoxInit, BoxNext, AbstractInit, AbstractNext, PTL
  DEF Spec, ImplementsTimeBoxedAccess, Abstract!Spec

-----------------------------------------------------------------------------
(* Four eyes. *)

\* Statuses of a request that was approved once.
Granted == {"approved", "revoked", "expired"}

\* While nothing has died, what is bound is granted or about to be.
BoundInv ==
  failures = 0 =>
    \A r \in Requests, c \in Clusters :
      Bound(c, r) => \/ Status(r) \in Granted
                     \/ \E w \in Workers : txn[w].pc = "bound" /\ txn[w].r = r

LEMMA BoundInit == Init => BoundInv
  BY DEF Init, BoundInv, Bound

LEMMA BoundNext == TypeInv /\ ReviewInv /\ BoundInv /\ [Next]_vars => BoundInv'
  <1> SUFFICES ASSUME TypeInv, ReviewInv, BoundInv, [Next]_vars, failures' = 0,
                      NEW r \in Requests, NEW c \in Clusters, Bound(c, r)'
               PROVE  \/ req'[r].status \in Granted
                      \/ \E w \in Workers : txn'[w].pc = "bound" /\ txn'[w].r = r
    BY DEF BoundInv, Status
  <1> DEFINE Goal == \/ req'[r].status \in Granted
                     \/ \E w \in Workers : txn'[w].pc = "bound" /\ txn'[w].r = r
  <1> USE DEF TypeInv, TypeOK, TxnOK, Bound, Status
  <1>a. LockExclusive /\ ReviewedStatusStable
    BY DEF ReviewInv
  <1>b. ASSUME failures = 0, Bound(c, r), req'[r].status = req[r].status, UNCHANGED txn PROVE Goal
    BY <1>b DEF BoundInv
  <1>1. ASSUME NEW u \in Users, NEW q \in Requests, CreateRequest(u, q) PROVE Goal
    <2>1. failures = 0 /\ Bound(c, r) /\ UNCHANGED txn /\ Status(q) = "none"
          /\ \A x \in Requests \ {q} : req'[x] = req[x]
      BY <1>1, CreateEffect
    <2>2. r # q
      BY <1>a, <2>1 DEF BoundInv, Granted, ReviewedStatusStable
    <2>. QED
      BY <1>b, <2>1, <2>2
  <1>2. ASSUME NEW u \in Approvers, NEW q \in Requests, DenyRequest(u, q) PROVE Goal
    <2>1. failures = 0 /\ Bound(c, r) /\ UNCHANGED txn /\ Status(q) = "pending" /\ ~Locked(q)
          /\ \A x \in Requests \ {q} : req'[x] = req[x]
      BY <1>2 DEF DenyRequest
    <2>2. r # q
      BY <2>1 DEF BoundInv, Granted, Locked
    <2>. QED
      BY <1>b, <2>1, <2>2
  <1>3. ASSUME NEW w \in Workers, NEW u \in Approvers, NEW q \in Requests, NEW d \in Clusters,
               ApproveCheck(w, u, q, d) \/ RevokeCheck(w, u, q, d) PROVE Goal
    <2>1. failures = 0 /\ Bound(c, r) /\ UNCHANGED req /\ txn[w].pc = "idle"
          /\ \A v \in Workers \ {w} : txn'[v] = txn[v]
      BY <1>3 DEF ApproveCheck, RevokeCheck
    <2>. QED
      BY <2>1 DEF BoundInv
  <1>4. ASSUME NEW w \in Workers, ApproveBind(w) PROVE Goal
    <2>1. CASE txn[w].r = r
      BY <1>4, <2>1, CallEffect DEF ApproveBind
    <2>2. CASE txn[w].r # r
      <3>1. failures = 0 /\ Bound(c, r) /\ UNCHANGED req
        BY <1>4, <2>2 DEF ApproveBind
      <3>2. \A v \in Workers : txn[v].pc = "bound" => txn'[v].pc = "bound" /\ txn'[v].r = txn[v].r
        BY <1>4, CallEffect
      <3>. QED
        BY <3>1, <3>2 DEF BoundInv
    <2>. QED
      BY <2>1, <2>2
  <1>5. ASSUME NEW w \in Workers, RevokeUnbind(w) PROVE Goal
    <2>1. failures = 0 /\ Bound(c, r) /\ UNCHANGED req
      BY <1>5 DEF RevokeUnbind, Txn
    <2>2. \A v \in Workers : txn[v].pc = "bound" => txn'[v].pc = "bound" /\ txn'[v].r = txn[v].r
      BY <1>5, CallEffect DEF RevokeUnbind
    <2>. QED
      BY <2>1, <2>2 DEF BoundInv
  <1>6. ASSUME NEW w \in Workers, ApproveCommit(w) \/ RevokeCommit(w) PROVE Goal
    <2>1. failures = 0 /\ Bound(c, r)
          /\ \A x \in Requests \ {txn[w].r} : req'[x] = req[x]
          /\ \A v \in Workers \ {w} : txn'[v] = txn[v]
      BY <1>6 DEF ApproveCommit, RevokeCommit
    <2>2. CASE txn[w].r = r
      <3>1. req[r] \in Row
        OBVIOUS
      <3>2. CASE ApproveCommit(w)
        <4>1. req'[r] = [req[r] EXCEPT !.status = "approved", !.reviewer = txn[w].by,
                                       !.expires = txn[w].expires]
          BY <2>2, <3>2 DEF ApproveCommit
        <4>2. req'[r].status = "approved"
          BY <3>1, <4>1 DEF Row
        <4>. QED
          BY <4>2 DEF Granted
      <3>3. CASE RevokeCommit(w)
        <4>1. req'[r].status = "revoked"
          BY <2>2, <3>1, <3>3 DEF RevokeCommit, Row
        <4>. QED
          BY <4>1 DEF Granted
      <3>. QED
        BY <1>6, <3>2, <3>3
    <2>3. CASE txn[w].r # r
      BY <2>1, <2>3 DEF BoundInv
    <2>. QED
      BY <2>2, <2>3
  <1>7. ASSUME NEW w \in Workers, ReviewCallFails(w) PROVE Goal
    <2>1. failures = 0 /\ Bound(c, r) /\ UNCHANGED req /\ txn[w].pc # "bound"
          /\ \A v \in Workers \ {w} : txn'[v] = txn[v]
      BY <1>7 DEF ReviewCallFails
    <2>. QED
      BY <2>1 DEF BoundInv
  <1>8. ASSUME NEW w \in Workers, ReviewDies(w) PROVE Goal
    BY <1>8 DEF ReviewDies
  <1>9. CASE JobStep
    <2>1. ASSUME NEW q \in Requests, DeleteExpired(q) PROVE failures = 0 /\ Bound(c, r) /\ UNCHANGED <<req, txn>>
      BY <2>1 DEF DeleteExpired, Job
    <2>2. failures = 0 /\ Bound(c, r) /\ UNCHANGED <<req, txn>>
      BY <1>9, <2>1 DEF JobStep, JobStart, ListClusterRoleBindings, ListRoleBindings,
         ReconcileReturns, ReconcileRaises, NextCluster, NothingRevoked, MarkSelect
    <2>. QED
      BY <1>b, <2>2
  <1>10. CASE MarkUpdate
    BY <1>10 DEF MarkUpdate, BoundInv, Granted, Row
  <1>11. CASE JobDies
    BY <1>11 DEF JobDies
  <1>12. ASSUME NEW d \in Clusters, NEW q \in Requests, DeleteBinding(d, q) PROVE Goal
    BY <1>b, <1>12 DEF DeleteBinding
  <1>13. CASE UNCHANGED <<failures, bindings, req, txn>>
    BY <1>b, <1>13
  <1>. QED
    BY <1>1, <1>2, <1>3, <1>4, <1>5, <1>6, <1>7, <1>8, <1>9, <1>10, <1>11, <1>12, <1>13
    DEF Next, Review, vars, SetPolicy, DeletePolicy, Tick, Disconnect, Reconnect

\* Nobody's own request is granted by himself.
THEOREM FourEyesHold == Spec => []FourEyes
  <1>1. TypeInv /\ ReviewInv /\ BoundInv => FourEyes
    <2> SUFFICES ASSUME TypeInv, ReviewInv, BoundInv, NEW r \in Requests
                 PROVE  /\ Status(r) \in Granted =>
                             req[r].reviewer \in Approvers \ {req[r].requester}
                        /\ failures = 0 /\ (\E c \in Clusters : Bound(c, r)) =>
                             \/ Status(r) \in Granted
                             \/ \E w \in Workers : /\ txn[w].pc = "bound" /\ txn[w].r = r
                                                   /\ txn[w].by \in Approvers \ {req[r].requester}
      BY DEF FourEyes, Granted
    <2>1. Status(r) \in Granted => req[r].reviewer \in Approvers \ {req[r].requester}
      BY DEF ReviewInv, ReviewersDiffer, Granted, Status
    <2>2. ASSUME failures = 0, NEW c \in Clusters, Bound(c, r), Status(r) \notin Granted
          PROVE \E w \in Workers : /\ txn[w].pc = "bound" /\ txn[w].r = r
                                   /\ txn[w].by \in Approvers \ {req[r].requester}
      <3>1. PICK w \in Workers : txn[w].pc = "bound" /\ txn[w].r = r
        BY <2>2 DEF BoundInv
      <3>2. txn[w].by \in Approvers \ {req[r].requester}
        BY <3>1 DEF TypeInv, TxnOK, ReviewInv, ReviewersDiffer
      <3>. QED
        BY <3>1, <3>2
    <2>. QED
      BY <2>1, <2>2
  <1>. QED
    BY TypeInit, TypeNext, ReviewInit, ReviewNext, BoundInit, BoundNext, <1>1, PTL DEF Spec

-----------------------------------------------------------------------------
(* What the cleanup job is about to delete. *)

\* Unless somebody deletes bindings by hand, a binding that was listed as past is still that
\* binding, or its request has been decided and nothing is bound in its place.
ListedInv ==
  /\ job.now <= clock
  /\ removals = 0 /\ job.pc \in {"delcrb", "delrb"} =>
       \A r \in job.found : /\ bindings[job.c][r] <= clock
                            /\ Bound(job.c, r) \/ Status(r) \notin {"none", "pending"}

LEMMA ListedInit == Init => ListedInv
  BY DEF Init, ListedInv, NoJob

LEMMA ListedNext == TypeInv /\ ReviewInv /\ ListedInv /\ [Next]_vars => ListedInv'
  <1> SUFFICES ASSUME TypeInv, ReviewInv, ListedInv, [Next]_vars PROVE ListedInv'
    OBVIOUS
  <1> USE DEF TypeInv, TypeOK, TxnOK, ListedInv, Bound, Status
  <1>a. ReviewedStatusStable
    BY DEF ReviewInv
  <1>b. job \in Job
    OBVIOUS
  <1>1. CASE UNCHANGED <<clock, req, bindings, job, removals>>
    BY <1>1
  <1>2. ASSUME NEW u \in Users, NEW q \in Requests, CreateRequest(u, q) PROVE ListedInv'
    <2>1. /\ Status(q) = "none" /\ \A r \in Requests \ {q} : req'[r] = req[r]
          /\ UNCHANGED <<clock, bindings, job, removals>>
      BY <1>2, CreateEffect
    <2>. QED
      BY <2>1, <1>b DEF Job
  <1>3. ASSUME NEW u \in Approvers, NEW q \in Requests, DenyRequest(u, q) PROVE ListedInv'
    BY <1>3, <1>b DEF DenyRequest, Row, Job
  <1>4. ASSUME NEW w \in Workers, ApproveBind(w) PROVE ListedInv'
    <2>1. /\ txn[w].pc = "bind" /\ txn[w].r \in Requests /\ txn[w].c \in Clusters
          /\ ~Bound(txn[w].c, txn[w].r) /\ Status(txn[w].r) = "pending"
          /\ bindings' = [bindings EXCEPT ![txn[w].c][txn[w].r] = txn[w].expires]
          /\ UNCHANGED <<clock, req, job, removals>>
      BY <1>4, <1>a DEF ApproveBind, ReviewedStatusStable, Txn
    <2>2. \A r \in job.found : removals = 0 /\ job.pc \in {"delcrb", "delrb"} =>
                                 ~(job.c = txn[w].c /\ r = txn[w].r)
      BY <2>1, <1>b DEF Job
    <2>3. job.c \in Clusters /\ job.found \subseteq Requests
      BY <1>b DEF Job
    <2>. QED
      BY <2>1, <2>2, <2>3
  <1>5. ASSUME NEW w \in Workers, RevokeUnbind(w) PROVE ListedInv'
    <2>1. /\ txn[w].r \in Requests /\ txn[w].c \in Clusters /\ Status(txn[w].r) = "approved"
          /\ bindings' = [bindings EXCEPT ![txn[w].c][txn[w].r] = 0]
          /\ UNCHANGED <<clock, req, job, removals>>
      BY <1>5, <1>a DEF RevokeUnbind, ReviewedStatusStable, Txn
    <2>2. job.c \in Clusters /\ job.found \subseteq Requests
      BY <1>b DEF Job
    <2>. QED
      BY <2>1, <2>2
  <1>6. ASSUME NEW w \in Workers, ApproveCommit(w) \/ RevokeCommit(w) PROVE ListedInv'
    <2>1. /\ UNCHANGED <<clock, bindings, job, removals>> /\ txn[w].r \in Requests
          /\ \A r \in Requests \ {txn[w].r} : req'[r] = req[r]
      BY <1>6 DEF ApproveCommit, RevokeCommit
    <2>3. req'[txn[w].r].status \notin {"none", "pending"}
      <3>1. req[txn[w].r] \in Row
        BY <2>1
      <3>2. ApproveCommit(w) => req'[txn[w].r] = [req[txn[w].r] EXCEPT !.status = "approved",
                                    !.reviewer = txn[w].by, !.expires = txn[w].expires]
        BY <2>1 DEF ApproveCommit
      <3>3. RevokeCommit(w) => req'[txn[w].r] = [req[txn[w].r] EXCEPT !.status = "revoked"]
        BY <2>1 DEF RevokeCommit
      <3>. QED
        BY <1>6, <3>1, <3>2, <3>3 DEF Row
    <2>2. job.found \subseteq Requests
      BY <1>b DEF Job
    <2>. QED
      BY <2>1, <2>2, <2>3
  <1>7. CASE JobStep
    <2>1. UNCHANGED <<clock, req, removals>>
      BY <1>7, JobStepMarks DEF JobStep, JobStart, ListClusterRoleBindings, ListRoleBindings,
         DeleteExpired, ReconcileReturns, ReconcileRaises, NextCluster, NothingRevoked, MarkSelect
    <2>2. CASE ListClusterRoleBindings \/ ListRoleBindings
      <3>a. PICK pc \in {"delcrb", "delrb"}, ns \in BOOLEAN :
              job' = [job EXCEPT !.pc = pc, !.found = ExpiredBindings(ns)] /\ UNCHANGED bindings
        BY <2>2 DEF ListClusterRoleBindings, ListRoleBindings
      <3>b. ExpiredBindings(ns) \subseteq {r \in Requests : Bound(job.c, r) /\ bindings[job.c][r] <= job.now}
        BY DEF ExpiredBindings
      <3>1. PICK R \in SUBSET Requests :
              /\ \A r \in R : Bound(job.c, r) /\ bindings[job.c][r] <= job.now
              /\ job'.found = R /\ job'.c = job.c /\ job'.now = job.now
              /\ UNCHANGED bindings
        BY <3>a, <3>b, <1>b DEF Job
      <3>2. job.c \in Clusters /\ job.now \in Nat
        BY <1>b DEF Job
      <3>3. \A r \in R : bindings[job.c][r] \in Nat
        BY <3>2
      <3>. QED
        BY <2>1, <3>1, <3>2, <3>3
    <2>3. ASSUME NEW r \in Requests, DeleteExpired(r) PROVE ListedInv'
      <3>1. /\ bindings' = [bindings EXCEPT ![job.c][r] = 0]
            /\ job'.found = job.found \ {r} /\ job'.c = job.c /\ job'.now = job.now
            /\ job'.pc = job.pc
        BY <2>3, <1>b DEF DeleteExpired, Job
      <3>2. job.c \in Clusters /\ job.found \subseteq Requests
        BY <1>b DEF Job
      <3>. QED
        BY <2>1, <3>1, <3>2
    <2>4. CASE JobStart
      <3>1. job'.pc = "listcrb" /\ job'.now = clock
        BY <2>4 DEF JobStart, NoJob
      <3>. QED
        BY <2>1, <3>1
    <2>8. CASE NothingRevoked
      <3>1. job'.pc = "idle" /\ job'.now = 0
        BY <2>8 DEF NothingRevoked, NoJob
      <3>. QED
        BY <2>1, <3>1
    <2>5. CASE ReconcileReturns \/ MarkSelect
      BY <2>1, <2>5, <1>b DEF ReconcileReturns, MarkSelect, Job
    <2>6. CASE ReconcileRaises
      <3>1. job'.pc \in {"idle", "clusters"} /\ job'.now \in {0, job.now}
        BY <2>6, <1>b DEF ReconcileRaises, NoJob, Job
      <3>. QED
        BY <2>1, <3>1
    <2>7. ASSUME NEW c \in Clusters, NextCluster(c) PROVE ListedInv'
      BY <2>1, <2>7, <1>b DEF NextCluster, Job
    <2>. QED
      BY <1>7, <2>2, <2>3, <2>4, <2>5, <2>6, <2>7, <2>8 DEF JobStep
  <1>8. CASE MarkUpdate \/ JobDies
    BY <1>8 DEF MarkUpdate, JobDies, NoJob
  <1>9. CASE Tick
    <2>1. clock' = clock + 1 /\ UNCHANGED <<req, bindings, job, removals>>
      BY <1>9 DEF Tick
    <2>2. job.now \in Nat /\ job.c \in Clusters /\ job.found \subseteq Requests
      BY <1>b DEF Job
    <2>. QED
      BY <2>1, <2>2
  <1>10. ASSUME NEW c \in Clusters, NEW r \in Requests, DeleteBinding(c, r) PROVE ListedInv'
    BY <1>10 DEF DeleteBinding
  <1>. QED
    BY <1>1, <1>2, <1>3, <1>4, <1>5, <1>6, <1>7, <1>8, <1>9, <1>10
    DEF Next, Review, vars, SetPolicy, DeletePolicy, ApproveCheck, RevokeCheck, ReviewCallFails,
        ReviewDies, Disconnect, Reconnect

\* The job deletes by name what an earlier listing returned, and reviewers approve, revoke and
\* die meanwhile: it still only ends grants that are past, for any number of clusters.
THEOREM CleanupSpares == Spec => CleanupSparesLiveGrants
  <1>1. TypeInv /\ ListedInv /\ [Next]_vars =>
          [removals = 0 =>
             \A c \in Clusters, r \in Requests :
               Bound(c, r) /\ ~Bound(c, r)' /\ job' # job => bindings[c][r] <= clock]_vars
    <2> SUFFICES ASSUME TypeInv, ListedInv, [Next]_vars, removals = 0,
                        NEW c \in Clusters, NEW r \in Requests,
                        Bound(c, r), ~Bound(c, r)', job' # job
                 PROVE  bindings[c][r] <= clock
      OBVIOUS
    <2>1. PICK q \in Requests : DeleteExpired(q)
      BY DEF Next, Review, vars, SetPolicy, DeletePolicy, CreateRequest, DenyRequest, ApproveCheck,
         RevokeCheck, ApproveBind, ApproveCommit, RevokeUnbind, RevokeCommit, ReviewCallFails,
         ReviewDies, JobStep, JobStart, ListClusterRoleBindings, ListRoleBindings, ReconcileReturns,
         ReconcileRaises, NextCluster, NothingRevoked, MarkSelect, MarkUpdate, JobDies, Tick,
         Disconnect, Reconnect, DeleteBinding, Bound
    <2>2. c = job.c /\ r = q
      BY <2>1 DEF DeleteExpired, Bound, TypeInv, TypeOK, Job
    <2>. QED
      BY <2>1, <2>2 DEF DeleteExpired, ListedInv
  <1>. QED
    BY TypeInit, TypeNext, ReviewInit, ReviewNext, ListedInit, ListedNext, <1>1, PTL
    DEF Spec, CleanupSparesLiveGrants

-----------------------------------------------------------------------------
(* Revocation. *)

\* Only an approval binds, and only a revocation makes a request revoked.
LEMMA OnlyApprovalBinds ==
  ASSUME TypeInv, [Next]_vars, NEW c \in Clusters, NEW r \in Requests, ~Bound(c, r), Bound(c, r)'
  PROVE  /\ \E w \in Workers : txn[w].pc = "bind" /\ txn[w].r = r /\ txn'[w].pc = "bound"
         /\ \A w \in Workers : txn'[w].pc = "unbound" => txn'[w] = txn[w]
         /\ UNCHANGED req
  <1>a. ASSUME NEW d \in Clusters, NEW q \in Requests, bindings' = [bindings EXCEPT ![d][q] = 0]
        PROVE  FALSE
    BY <1>a DEF Bound, TypeInv, TypeOK
  <1>b. ASSUME NEW w \in Workers, RevokeUnbind(w) PROVE FALSE
    BY <1>a, <1>b DEF RevokeUnbind, TypeInv, TypeOK, TxnOK, Txn
  <1>c. ASSUME NEW q \in Requests, DeleteExpired(q) PROVE FALSE
    BY <1>a, <1>c DEF DeleteExpired, TypeInv, TypeOK, Job
  <1>d. ASSUME NEW d \in Clusters, NEW q \in Requests, DeleteBinding(d, q) PROVE FALSE
    BY <1>a, <1>d DEF DeleteBinding
  <1>e. bindings' # bindings
    BY DEF Bound
  <1>1. PICK w \in Workers : ApproveBind(w)
    BY <1>b, <1>c, <1>d, <1>e DEF Next, Review, vars, SetPolicy, DeletePolicy, CreateRequest,
       DenyRequest, ApproveCheck, RevokeCheck, ApproveCommit, RevokeCommit, ReviewCallFails,
       ReviewDies, JobStep, JobStart, ListClusterRoleBindings, ListRoleBindings, ReconcileReturns,
       ReconcileRaises, NextCluster, NothingRevoked, MarkSelect, MarkUpdate, JobDies, Tick,
       Disconnect, Reconnect
  <1>2. txn[w].r = r /\ txn[w].pc = "bind"
    BY <1>1 DEF ApproveBind, Bound, TypeInv, TypeOK, Txn
  <1>. QED
    BY <1>1, <1>2, CallEffect

LEMMA OnlyRevocationRevokes ==
  ASSUME TypeInv, [Next]_vars, NEW r \in Requests, Status(r) # "revoked", Status(r)' = "revoked"
  PROVE  /\ \E w \in Workers : txn[w].pc = "unbound" /\ txn[w].r = r
         /\ UNCHANGED bindings
  <1> USE DEF TypeInv, TypeOK, Status
  <1>1. ASSUME NEW u \in Users, NEW q \in Requests, CreateRequest(u, q) PROVE FALSE
    BY <1>1, CreateEffect
  <1>2. ASSUME NEW u \in Approvers, NEW q \in Requests, DenyRequest(u, q) PROVE FALSE
    BY <1>2 DEF DenyRequest, Row
  <1>3. ASSUME NEW w \in Workers, ApproveCommit(w) PROVE FALSE
    <2>1. r = txn[w].r
      BY <1>3 DEF ApproveCommit
    <2>2. req'[r] = [req[r] EXCEPT !.status = "approved", !.reviewer = txn[w].by,
                                   !.expires = txn[w].expires]
      BY <1>3, <2>1 DEF ApproveCommit
    <2>. QED
      BY <2>2 DEF Row
  <1>4. ~MarkUpdate
    BY DEF MarkUpdate, Row
  <1>5. ~JobStep /\ ~JobDies
    BY JobStepMarks
  <1>6. ASSUME NEW w \in Workers, ApproveBind(w) \/ RevokeUnbind(w) PROVE FALSE
    BY <1>6, CallEffect
  <1>7. PICK w \in Workers : RevokeCommit(w)
    BY <1>1, <1>2, <1>3, <1>4, <1>5, <1>6 DEF Next, Review, vars, SetPolicy, DeletePolicy,
       ApproveCheck, RevokeCheck, ReviewCallFails, ReviewDies, Tick, Disconnect, Reconnect,
       DeleteBinding
  <1>. QED
    BY <1>7 DEF RevokeCommit

\* Between the delete call of a revocation and its commit nothing is bound again on the
\* cluster it was asked for, however many there are.
UnboundInv ==
  \A w \in Workers : txn[w].pc = "unbound" => ~Bound(txn[w].c, txn[w].r)

LEMMA UnboundInit == Init => UnboundInv
  BY DEF Init, UnboundInv, Idle

LEMMA UnboundNext == TypeInv /\ ReviewInv /\ UnboundInv /\ [Next]_vars => UnboundInv'
  <1> SUFFICES ASSUME TypeInv, ReviewInv, UnboundInv, [Next]_vars,
                      NEW w \in Workers, txn'[w].pc = "unbound",
                      NEW r \in Requests, NEW c \in Clusters,
                      r = txn'[w].r, c = txn'[w].c, Bound(c, r)'
               PROVE  FALSE
    <2>1. TypeInv /\ [Next]_vars => TypeInv'
      BY TypeNext
    <2>. QED
      BY <2>1 DEF UnboundInv, Bound, TypeInv, TxnOK, TypeOK, Txn
  <1> USE DEF TypeInv, TypeOK, TxnOK
  <1>1. CASE txn'[w] = txn[w]
    <2>1. ~Bound(c, r)
      BY <1>1 DEF UnboundInv
    <2>2. PICK v \in Workers : txn[v].pc = "bind" /\ txn[v].r = r
      BY <2>1, OnlyApprovalBinds
    <2>. QED
      BY <1>1, <2>2 DEF ReviewInv, LockExclusive
  <1>2. CASE txn'[w] # txn[w]
    <2>1. RevokeUnbind(w)
      <3>1. ASSUME NEW v \in Workers, ApproveBind(v) PROVE FALSE
        BY <1>2, <3>1, CallEffect DEF ApproveBind
      <3>2. ASSUME NEW v \in Workers, RevokeUnbind(v), v # w PROVE FALSE
        BY <1>2, <3>2, CallEffect
      <3>3. ~JobStep /\ ~JobDies
        BY <1>2, JobStepMarks
      <3>4. ASSUME NEW u \in Users, NEW q \in Requests, CreateRequest(u, q) PROVE FALSE
        BY <1>2, <3>4, CreateEffect
      <3>5. ASSUME NEW v \in Workers, NEW u \in Approvers, NEW q \in Requests, NEW d \in Clusters,
                   ApproveCheck(v, u, q, d) \/ RevokeCheck(v, u, q, d) PROVE FALSE
        BY <1>2, <3>5 DEF ApproveCheck, RevokeCheck
      <3>6. ASSUME NEW v \in Workers, ApproveCommit(v) \/ RevokeCommit(v) \/ ReviewCallFails(v)
                                        \/ ReviewDies(v) PROVE FALSE
        BY <1>2, <3>6 DEF ApproveCommit, RevokeCommit, ReviewCallFails, ReviewDies, Idle
      <3>. QED
        BY <1>2, <3>1, <3>2, <3>3, <3>4, <3>5, <3>6 DEF Next, Review, vars, SetPolicy, DeletePolicy,
           DenyRequest, MarkUpdate, Tick, Disconnect, Reconnect, DeleteBinding
    <2>2. txn'[w].r = txn[w].r /\ txn'[w].c = txn[w].c
      BY <2>1, CallEffect
    <2>3. bindings' = [bindings EXCEPT ![c][r] = 0]
      BY <2>1, <2>2 DEF RevokeUnbind
    <2>. QED
      BY <2>3 DEF Bound
  <1>. QED
    BY <1>1, <1>2

LEMMA RevokedNext ==
  ASSUME \A c \in Clusters : c = Local,
         TypeInv, ReviewInv, UnboundInv, RevokedMeansUnbound, [Next]_vars
  PROVE  RevokedMeansUnbound'
  <1> SUFFICES ASSUME NEW r \in Requests, NEW c \in Clusters, Status(r)' = "revoked", Bound(c, r)'
               PROVE  FALSE
    BY DEF RevokedMeansUnbound, Status, Bound
  <1>1. CASE ~Bound(c, r)
    <2>1. PICK w \in Workers : txn[w].pc = "bind" /\ txn[w].r = r /\ UNCHANGED req
      BY <1>1, OnlyApprovalBinds
    <2>2. Status(r) = "pending"
      BY <2>1 DEF ReviewInv, ReviewedStatusStable
    <2>. QED
      BY <2>1, <2>2 DEF Status
  <1>2. CASE Bound(c, r)
    <2>1. Status(r) # "revoked"
      BY <1>2 DEF RevokedMeansUnbound
    <2>2. PICK w \in Workers : txn[w].pc = "unbound" /\ txn[w].r = r
      BY <2>1, OnlyRevocationRevokes
    <2>3. txn[w].c = c
      BY DEF TypeInv, TypeOK, Txn
    <2>. QED
      BY <1>2, <2>2, <2>3 DEF UnboundInv
  <1>. QED
    BY <1>1, <1>2

\* With one cluster a revoked request has no binding, whatever has crashed between the delete
\* call and the commit and whoever reviews what at the same time.  With two, the caller names
\* the cluster and the request is revoked even if its binding is on the other one.
THEOREM RevokedIsUnboundAlone ==
  ASSUME \A c \in Clusters : c = Local
  PROVE  Spec => []RevokedMeansUnbound
  <1>1. Init => RevokedMeansUnbound
    BY DEF Init, RevokedMeansUnbound, Bound
  <1>2. TypeInv /\ ReviewInv /\ UnboundInv /\ RevokedMeansUnbound /\ [Next]_vars
          => RevokedMeansUnbound'
    BY RevokedNext
  <1>. QED
    BY TypeInit, TypeNext, ReviewInit, ReviewNext, UnboundInit, UnboundNext, <1>1, <1>2, PTL DEF Spec

-----------------------------------------------------------------------------
(* What the registry promises. *)

\* As long as nothing dies and nobody deletes bindings by hand: what an approval has bound is
\* still there when it commits, unless it is past, and what is approved is bound until a
\* revocation under way has deleted it.
GrantInv ==
  failures = 0 /\ removals = 0 =>
    /\ \A w \in Workers : txn[w].pc = "bound" /\ txn[w].expires > clock =>
                              bindings[txn[w].c][txn[w].r] = txn[w].expires
    /\ \A r \in Requests : Status(r) = "approved" /\ req[r].expires > clock =>
         \/ \E c \in Clusters : bindings[c][r] = req[r].expires
         \/ \E w \in Workers : txn[w].pc = "unbound" /\ txn[w].r = r

LEMMA GrantInit == Init => GrantInv
  BY DEF Init, GrantInv, Status, NoRow, Idle

LEMMA GrantNext == TypeInv /\ ReviewInv /\ ListedInv /\ GrantInv /\ [Next]_vars => GrantInv'
  <1> SUFFICES ASSUME TypeInv, ReviewInv, ListedInv, GrantInv, [Next]_vars,
                      failures' = 0, removals' = 0
               PROVE  GrantInv'
    BY DEF GrantInv
  <1> USE DEF TypeInv, TypeOK, TxnOK, Status
  <1>a. LockExclusive /\ ReviewedStatusStable
    BY DEF ReviewInv
  <1>b. ASSUME failures = 0, removals = 0 PROVE
          /\ \A w \in Workers : txn[w].pc = "bound" /\ txn[w].expires > clock =>
                              bindings[txn[w].c][txn[w].r] = txn[w].expires
          /\ \A r \in Requests : req[r].status = "approved" /\ req[r].expires > clock =>
               \/ \E c \in Clusters : bindings[c][r] = req[r].expires
               \/ \E w \in Workers : txn[w].pc = "unbound" /\ txn[w].r = r
    BY <1>b DEF GrantInv
  <1>c. \A w \in Workers : txn[w].expires \in Nat /\ txn[w].c \in Clusters
    BY DEF Txn
  <1>d. \A r \in Requests : req[r].expires \in Nat
    BY DEF Row
  \* Requests whose row changes are not approved afterwards.
  <1>1. ASSUME UNCHANGED <<clock, bindings, txn, failures, removals>>,
               \A r \in Requests : req'[r] = req[r] \/ req'[r].status # "approved"
        PROVE  GrantInv'
    BY <1>1, <1>b DEF GrantInv
  <1>2. ASSUME NEW u \in Users, NEW q \in Requests, CreateRequest(u, q) PROVE GrantInv'
    BY <1>1, <1>2, CreateEffect
  <1>3. ASSUME NEW u \in Approvers, NEW q \in Requests, DenyRequest(u, q) PROVE GrantInv'
    BY <1>1, <1>3 DEF DenyRequest, Row
  <1>4. CASE MarkUpdate
    BY <1>1, <1>4 DEF MarkUpdate, Row
  <1>5. ASSUME NEW w \in Workers, NEW u \in Approvers, NEW q \in Requests, NEW d \in Clusters,
               ApproveCheck(w, u, q, d) \/ RevokeCheck(w, u, q, d) PROVE GrantInv'
    <2>1. /\ UNCHANGED <<clock, bindings, req, failures, removals>>
          /\ txn[w].pc = "idle" /\ txn'[w].pc \in {"bind", "unbind"}
          /\ \A v \in Workers \ {w} : txn'[v] = txn[v]
      BY <1>5 DEF ApproveCheck, RevokeCheck
    <2>. QED
      BY <2>1, <1>b DEF GrantInv
  <1>6. ASSUME NEW w \in Workers, ApproveBind(w) PROVE GrantInv'
    <2>1. /\ UNCHANGED <<clock, req, failures, removals>>
          /\ txn[w].pc = "bind" /\ req[txn[w].r].status = "pending" /\ txn[w].r \in Requests
          /\ bindings' = [bindings EXCEPT ![txn[w].c][txn[w].r] = txn[w].expires]
      BY <1>6, <1>a DEF ApproveBind, ReviewedStatusStable
    <2>2. \A v \in Workers \ {w} : txn[v].pc = "bound" => txn[v].r # txn[w].r
      BY <2>1, <1>a DEF LockExclusive
    <2>3. \A v \in Workers : /\ txn'[v].r = txn[v].r /\ txn'[v].c = txn[v].c
                             /\ txn'[v].expires = txn[v].expires
                             /\ v # w => txn'[v].pc = txn[v].pc
      BY <1>6, CallEffect
    <2>4. \A r \in Requests \ {txn[w].r}, c \in Clusters : bindings'[c][r] = bindings[c][r]
      BY <2>1
    <2>5. bindings'[txn[w].c][txn[w].r] = txn[w].expires
      BY <2>1, <1>c
    <2>6. \A v \in Workers : txn'[v].pc = "bound" /\ txn'[v].expires > clock =>
                              bindings'[txn'[v].c][txn'[v].r] = txn'[v].expires
      BY <1>b, <1>c, <2>1, <2>2, <2>3, <2>4, <2>5
    <2>7. \A r \in Requests : req[r].status = "approved" /\ req[r].expires > clock =>
               \/ \E c \in Clusters : bindings'[c][r] = req[r].expires
               \/ \E v \in Workers : txn'[v].pc = "unbound" /\ txn'[v].r = r
      BY <1>b, <2>1, <2>3, <2>4
    <2>. QED
      BY <2>1, <2>6, <2>7 DEF GrantInv
  <1>7. ASSUME NEW w \in Workers, RevokeUnbind(w) PROVE GrantInv'
    <2>1. /\ UNCHANGED <<clock, req, failures, removals>>
          /\ txn[w].pc = "unbind" /\ txn[w].r \in Requests
          /\ bindings' = [bindings EXCEPT ![txn[w].c][txn[w].r] = 0]
      BY <1>7 DEF RevokeUnbind
    <2>2. \A v \in Workers \ {w} : txn[v].pc = "bound" => txn[v].r # txn[w].r
      BY <2>1, <1>a DEF LockExclusive
    <2>3. \A v \in Workers : /\ txn'[v].r = txn[v].r /\ txn'[v].c = txn[v].c
                             /\ txn'[v].expires = txn[v].expires
                             /\ v # w => txn'[v].pc = txn[v].pc
      BY <1>7, CallEffect
    <2>4. txn'[w].pc = "unbound"
      BY <2>1, <1>7, CallEffect
    <2>5. \A r \in Requests \ {txn[w].r}, c \in Clusters : bindings'[c][r] = bindings[c][r]
      BY <2>1
    <2>6. \A v \in Workers : txn'[v].pc = "bound" /\ txn'[v].expires > clock =>
                              bindings'[txn'[v].c][txn'[v].r] = txn'[v].expires
      BY <1>b, <1>c, <2>1, <2>2, <2>3, <2>4, <2>5
    <2>7. \A r \in Requests : req[r].status = "approved" /\ req[r].expires > clock =>
               \/ \E c \in Clusters : bindings'[c][r] = req[r].expires
               \/ \E v \in Workers : txn'[v].pc = "unbound" /\ txn'[v].r = r
      BY <1>b, <2>1, <2>3, <2>4, <2>5
    <2>. QED
      BY <2>1, <2>6, <2>7 DEF GrantInv
  <1>8. ASSUME NEW w \in Workers, ApproveCommit(w) PROVE GrantInv'
    <2>1. /\ UNCHANGED <<clock, bindings, failures, removals>>
          /\ txn[w].pc = "bound" /\ txn[w].r \in Requests
          /\ \A r \in Requests \ {txn[w].r} : req'[r] = req[r]
          /\ req'[txn[w].r].expires = txn[w].expires
          /\ txn'[w].pc = "idle" /\ \A v \in Workers \ {w} : txn'[v] = txn[v]
      BY <1>8 DEF ApproveCommit, Idle
    <2>2. \A r \in Requests \ {txn[w].r} :
            req'[r].status = "approved" /\ req'[r].expires > clock =>
              \/ \E c \in Clusters : bindings[c][r] = req'[r].expires
              \/ \E v \in Workers : txn'[v].pc = "unbound" /\ txn'[v].r = r
      BY <1>b, <2>1
    <2>3. req'[txn[w].r].expires > clock => bindings[txn[w].c][txn[w].r] = req'[txn[w].r].expires
      BY <1>b, <2>1
    <2>. QED
      BY <1>b, <1>c, <2>1, <2>2, <2>3 DEF GrantInv
  <1>9. ASSUME NEW w \in Workers, RevokeCommit(w) PROVE GrantInv'
    <2>1. /\ UNCHANGED <<clock, bindings, failures, removals>>
          /\ \A r \in Requests \ {txn[w].r} : req'[r] = req[r]
          /\ txn[w].r \in Requests /\ req'[txn[w].r].status = "revoked"
          /\ txn'[w].pc = "idle" /\ \A v \in Workers \ {w} : txn'[v] = txn[v]
      BY <1>9 DEF RevokeCommit, Idle, Row
    <2>. QED
      BY <1>b, <2>1 DEF GrantInv
  <1>10. ASSUME NEW w \in Workers, ReviewCallFails(w) PROVE GrantInv'
    <2>1. /\ UNCHANGED <<clock, bindings, req, failures, removals>>
          /\ txn[w].pc \in {"bind", "unbind"} /\ txn'[w].pc = "idle"
          /\ \A v \in Workers \ {w} : txn'[v] = txn[v]
      BY <1>10 DEF ReviewCallFails, Idle
    <2>. QED
      BY <1>b, <2>1 DEF GrantInv
  <1>11. ASSUME NEW q \in Requests, DeleteExpired(q) PROVE GrantInv'
    <2>1. /\ UNCHANGED <<clock, req, txn, failures, removals>>
          /\ job.c \in Clusters /\ bindings[job.c][q] <= clock
          /\ bindings' = [bindings EXCEPT ![job.c][q] = 0]
      BY <1>11 DEF DeleteExpired, ListedInv, Job
    <2>2. \A r \in Requests, c \in Clusters : bindings[c][r] > clock => bindings'[c][r] = bindings[c][r]
      BY <2>1
    <2>. QED
      BY <1>b, <1>c, <2>1, <2>2 DEF GrantInv
  <1>12. CASE Tick
    <2>1. clock' = clock + 1 /\ UNCHANGED <<req, bindings, txn, failures, removals>>
      BY <1>12 DEF Tick
    <2>2. \A n \in Nat : n > clock' => n > clock
      BY <2>1
    <2>. QED
      BY <1>b, <1>c, <1>d, <2>1, <2>2 DEF GrantInv
  <1>13. ASSUME NEW w \in Workers, ReviewDies(w) PROVE FALSE
    BY <1>13 DEF ReviewDies
  <1>14. ~JobDies /\ \A c \in Clusters, r \in Requests : ~DeleteBinding(c, r)
    BY DEF JobDies, DeleteBinding
  <1>15. CASE UNCHANGED <<clock, req, bindings, txn, failures, removals>>
    BY <1>1, <1>15
  <1>16. CASE JobStep /\ ~(\E r \in Requests : DeleteExpired(r))
    BY <1>15, <1>16 DEF JobStep, JobStart, ListClusterRoleBindings, ListRoleBindings,
       ReconcileReturns, ReconcileRaises, NextCluster, NothingRevoked, MarkSelect
  <1>. QED
    BY <1>2, <1>3, <1>4, <1>5, <1>6, <1>7, <1>8, <1>9, <1>10, <1>11, <1>12, <1>13, <1>14, <1>15,
       <1>16
    DEF Next, Review, vars, SetPolicy, DeletePolicy, Disconnect, Reconnect

\* The registry does not promise more than the clusters give: an approved request that is not
\* past and not being revoked is bound with the expiry on record, for any number of clusters,
\* reviewers and requests.
THEOREM GrantsAreLive == Spec => []ApprovedGrantIsLive
  <1>1. GrantInv => ApprovedGrantIsLive
    BY DEF GrantInv, ApprovedGrantIsLive, Locked
  <1>. QED
    BY TypeInit, TypeNext, ReviewInit, ReviewNext, ListedInit, ListedNext, GrantInit, GrantNext,
       <1>1, PTL DEF Spec

-----------------------------------------------------------------------------
(* Policies. *)

\* A request that was made for role k and duration ttl, and is neither approved nor about
\* to be.
Waits(r, k, ttl) ==
  /\ req[r].role = k /\ req[r].ttl = ttl
  /\ Status(r) \in {"pending", "denied"}
  /\ \A w \in Workers : txn[w].pc # "idle" => txn[w].r # r

\* Only a check that the policy passes ends the wait.
LEMMA WaitsNext ==
  ASSUME NEW r \in Requests, NEW k \in Roles, NEW ttl \in Ttls,
         TypeInv, ReviewInv, Waits(r, k, ttl), ~PolicyAllows(k, ttl), [Next]_vars
  PROVE  Waits(r, k, ttl)'
  <1> USE DEF TypeInv, TypeOK, TxnOK, Waits, Status
  <1>a. MarkedWereApproved
    BY DEF ReviewInv
  <1>1. CASE UNCHANGED <<req, txn>>
    BY <1>1
  <1>2. ASSUME NEW u \in Users, NEW q \in Requests, CreateRequest(u, q) PROVE Waits(r, k, ttl)'
    BY <1>2, CreateEffect
  <1>3. ASSUME NEW u \in Approvers, NEW q \in Requests, DenyRequest(u, q) PROVE Waits(r, k, ttl)'
    BY <1>3 DEF DenyRequest, Row
  <1>4. ASSUME NEW w \in Workers, NEW u \in Approvers, NEW q \in Requests, NEW d \in Clusters,
               ApproveCheck(w, u, q, d) PROVE Waits(r, k, ttl)'
    BY <1>4 DEF ApproveCheck, PolicyStillAllows
  <1>5. ASSUME NEW w \in Workers, NEW u \in Approvers, NEW q \in Requests, NEW d \in Clusters,
               RevokeCheck(w, u, q, d) PROVE Waits(r, k, ttl)'
    BY <1>5 DEF RevokeCheck
  <1>6. ASSUME NEW w \in Workers, ApproveBind(w) \/ RevokeUnbind(w) PROVE Waits(r, k, ttl)'
    BY <1>6, CallEffect
  <1>7. ASSUME NEW w \in Workers, ApproveCommit(w) \/ RevokeCommit(w) PROVE Waits(r, k, ttl)'
    <2>1. txn[w].r # r
      BY <1>7 DEF ApproveCommit, RevokeCommit
    <2>. QED
      BY <1>7, <2>1 DEF ApproveCommit, RevokeCommit, Idle
  <1>8. ASSUME NEW w \in Workers, ReviewCallFails(w) \/ ReviewDies(w) PROVE Waits(r, k, ttl)'
    BY <1>8 DEF ReviewCallFails, ReviewDies, Idle
  <1>9. CASE JobStep \/ JobDies
    BY <1>1, <1>9, JobStepMarks
  <1>10. CASE MarkUpdate
    BY <1>10, <1>a DEF MarkUpdate, MarkedWereApproved
  <1>. QED
    BY <1>1, <1>2, <1>3, <1>4, <1>5, <1>6, <1>7, <1>8, <1>9, <1>10
    DEF Next, Review, vars, SetPolicy, DeletePolicy, Tick, Disconnect, Reconnect, DeleteBinding

\* approve_request looks at the policy again: a request is not approved any more from the
\* moment its policy forbids it for good, unless a review had passed that check before.
THEOREM TightenedPolicyHeld == Spec => TightenedPolicyHolds
  <1>1. ASSUME NEW r \in Requests, NEW k \in Roles, NEW ttl \in Ttls
        PROVE  Spec => [](( /\ Status(r) = "pending" /\ req[r].role = k /\ req[r].ttl = ttl
                            /\ ~Locked(r)
                            /\ []~PolicyAllows(k, ttl)) => []~(Status(r) = "approved"))
    <2>1. /\ Status(r) = "pending" /\ req[r].role = k /\ req[r].ttl = ttl
          /\ ~Locked(r)
          => Waits(r, k, ttl)
      BY DEF Waits, Locked
    <2>2. TypeInv /\ ReviewInv /\ Waits(r, k, ttl) /\ ~PolicyAllows(k, ttl) /\ [Next]_vars
            => Waits(r, k, ttl)'
      BY WaitsNext
    <2>3. Waits(r, k, ttl) => ~(Status(r) = "approved")
      BY DEF Waits
    <2>. QED
      BY TypeInit, TypeNext, ReviewInit, ReviewNext, <2>1, <2>2, <2>3, PTL DEF Spec
  <1>. QED
    BY <1>1 DEF TightenedPolicyHolds
=============================================================================
