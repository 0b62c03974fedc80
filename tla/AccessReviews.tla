---------------------------- MODULE AccessReviews ----------------------------
(***************************************************************************)
(* AccessRequestsPage in the tab of a reviewer: the queue of access        *)
(* requests as the tab lists it, the dialog that confirms an approval or a *)
(* revocation, and the form that asks for access.                          *)
(*                                                                         *)
(* Others review the same requests and the cleanup job lets grants lapse   *)
(* (JitAccess has that side); the tab learns of it from a list it polls.   *)
(* A dialog keeps the request as it was listed when it was opened, and the *)
(* buttons that close a dialog work while its call is under way.  The page *)
(* stays mounted; the cluster in the key of its list is the business of    *)
(* ClusterPages.                                                           *)
(***************************************************************************)
EXTENDS Naturals

CONSTANTS
  Requests,     \* ids of access requests
  Own,          \* those of the signed-in account
  Namespaces,   \* as roles: namespace n stands for a Role listed in n
  ClusterRole,
  None

ASSUME ConstantsAssumption ==
  Own \subseteq Requests /\ ClusterRole \notin Namespaces
    /\ None \notin Namespaces \cup {ClusterRole}

VARIABLES
  rows,     \* rows[q]: the status of request q, as recorded
  list,     \* the requests as listed, or None while they are loading
  fetch,    \* the request for the list under way, or None
  confirm,  \* the approval or revocation to be confirmed, or None
  review,   \* the approval or revocation under way, or None
  deny,     \* deny[q]: the denial of q: none, sent or done (and not answered)
  form,     \* RequestAccessModal, or None
  create,   \* the creation under way, or None
  said      \* history: said[q], the verdict this tab last announced as its own

vars == <<rows, list, fetch, confirm, review, deny, form, create, said>>

dialogs == <<confirm, form>>
calls == <<review, deny, create>>

\* The order in which a request passes through its states.
Rank == [none |-> 0, pending |-> 1, approved |-> 2, denied |-> 2, revoked |-> 3, expired |-> 3]
Statuses == [Requests -> DOMAIN Rank]

\* What Approve and Revoke need, and what they make of it.
Needs == [approve |-> "pending", revoke |-> "approved"]
Makes == [approve |-> "approved", revoke |-> "revoked"]

Confirmation == [action: DOMAIN Makes, of: Requests]

\* left: the dialog it was sent from has been closed.
Review == [what: Confirmation, done: BOOLEAN, left: BOOLEAN]

\* The request for the list: what the backend has read for it, if it has.
Answer == [got: Statuses \cup {None}]

\* The target and the reason, which a submission needs too, are left out.
Form == [scope: {"cluster", "namespace"}, namespace: Namespaces \cup {None}, role: Namespaces \cup {ClusterRole, None}]

Creation == [role: Namespaces \cup {ClusterRole}, namespace: Namespaces \cup {None},
             done: BOOLEAN]

ASSUME NoRecordAssumption ==
  None \notin Statuses \cup Answer \cup Confirmation \cup Review \cup Form \cup Creation

TypeOK ==
  /\ rows \in Statuses
  /\ list \in Statuses \cup {None}
  /\ fetch \in Answer \cup {None}
  /\ confirm \in Confirmation \cup {None}
  /\ review \in Review \cup {None}
  /\ deny \in [Requests -> {"none", "sent", "done"}]
  /\ form \in Form \cup {None}
  /\ create \in Creation \cup {None}
  /\ said \in Statuses

Fetch == [got |-> None]

Init ==
  /\ rows \in [Requests -> {"none", "pending"}]
  /\ list = None /\ fetch = Fetch
  /\ confirm = None /\ review = None
  /\ deny = [q \in Requests |-> "none"]
  /\ form = None /\ create = None
  /\ said = [q \in Requests |-> "none"]

-----------------------------------------------------------------------------
(* The list *)

\* Mutant: the list is fetched when the page is opened, and never again.
Poll_Once ==
  /\ list = None /\ fetch = None /\ fetch' = Fetch
  /\ UNCHANGED <<rows, list, dialogs, calls, said>>

\* The interval of the query, the button in the header and the focus.
Poll ==
  /\ fetch = None /\ fetch' = Fetch
  /\ UNCHANGED <<rows, list, dialogs, calls, said>>

ReadRows ==
  /\ fetch # None /\ fetch.got = None
  /\ fetch' = [got |-> rows]
  /\ UNCHANGED <<rows, list, dialogs, calls, said>>

FetchOk ==
  /\ fetch # None /\ fetch.got # None
  /\ list' = fetch.got /\ fetch' = None
  /\ UNCHANGED <<rows, dialogs, calls, said>>

FetchFails ==
  /\ fetch # None /\ fetch' = None
  /\ UNCHANGED <<rows, list, dialogs, calls, said>>

\* Mutant: a fetch that is under way is as good as a new one.
Refetched_Joins == IF fetch = None THEN Fetch ELSE fetch

\* invalidateQueries: a fetch under way gives way to a new one, unless it is the
\* first.
Refetched == IF list = None /\ fetch # None THEN fetch ELSE Fetch

-----------------------------------------------------------------------------
(* Reviewing *)

\* No dialog covers the page.
Uncovered == confirm = None /\ form = None

\* The buttons of the row of q.
MayConfirm(action, q) ==
  /\ list[q] = Needs[action]
  /\ action = "approve" => q \notin Own

\* Bound: no review is begun while a creation is under way.
OpenConfirm(action, q) ==
  /\ Uncovered /\ list # None /\ create = None
  /\ MayConfirm(action, q)
  /\ confirm' = [action |-> action, of |-> q]
  /\ UNCHANGED <<rows, list, fetch, calls, form, said>>

\* Cancel, Escape, the cross or a click beside the dialog.
CloseConfirm ==
  /\ confirm # None /\ confirm' = None
  /\ review' = IF review = None THEN None ELSE [review EXCEPT !.left = TRUE]
  /\ UNCHANGED <<rows, list, fetch, deny, form, create, said>>

\* The button waits for an approval or a revocation under way.
handleConfirm ==
  /\ confirm # None /\ review = None
  /\ review' = [what |-> confirm, done |-> FALSE, left |-> FALSE]
  /\ UNCHANGED <<rows, list, fetch, deny, create, dialogs, said>>

\* Denying needs no confirmation.  Bound: one denial of a request under way, and again
\* none is sent while a creation is.
Deny(q) ==
  /\ Uncovered /\ list # None
  /\ list[q] = "pending" /\ deny[q] = "none" /\ create = None
  /\ deny' = [deny EXCEPT ![q] = "sent"]
  /\ UNCHANGED <<rows, list, fetch, review, create, dialogs, said>>

\* The backend looks at the status of the request by then.
ReviewActs ==
  /\ review # None /\ ~review.done
  /\ rows[review.what.of] = Needs[review.what.action]
  /\ rows' = [rows EXCEPT ![review.what.of] = Makes[review.what.action]]
  /\ review' = [review EXCEPT !.done = TRUE]
  /\ UNCHANGED <<list, fetch, deny, create, dialogs, said>>

DenyActs(q) ==
  /\ deny[q] = "sent" /\ rows[q] = "pending"
  /\ rows' = [rows EXCEPT ![q] = "denied"]
  /\ deny' = [deny EXCEPT ![q] = "done"]
  /\ UNCHANGED <<list, fetch, review, create, dialogs, said>>

\* The list is invalidated, "Access granted" or "Access revoked" is announced, and
\* whatever dialog is open by now is closed.
ReviewOk ==
  /\ review # None /\ review.done
  /\ fetch' = Refetched
  /\ said' = [said EXCEPT ![review.what.of] = Makes[review.what.action]]
  /\ confirm' = None /\ review' = None
  /\ UNCHANGED <<rows, list, deny, form, create>>

DenyOk(q) ==
  /\ deny[q] = "done"
  /\ fetch' = Refetched
  /\ said' = [said EXCEPT ![q] = "denied"]
  /\ deny' = [deny EXCEPT ![q] = "none"]
  /\ UNCHANGED <<rows, list, review, create, dialogs>>

\* Mutant: the dialog is closed when the call has ended.
ReviewFails_Closes ==
  /\ review # None
  /\ review' = None /\ confirm' = None
  /\ UNCHANGED <<rows, list, fetch, deny, form, create, said>>

\* Refused, or the answer is lost: the dialog stays as it is, and so does the list.
ReviewFails ==
  /\ review # None /\ review' = None
  /\ UNCHANGED <<rows, list, fetch, deny, create, dialogs, said>>

DenyFails(q) ==
  /\ deny[q] # "none"
  /\ deny' = [deny EXCEPT ![q] = "none"]
  /\ UNCHANGED <<rows, list, fetch, review, create, dialogs, said>>

-----------------------------------------------------------------------------
(* Asking for access *)

\* Bound: no review is under way while access is asked for.
OpenForm ==
  /\ Uncovered /\ review = None /\ \A q \in Requests : deny[q] = "none"
  /\ form' = [scope |-> "cluster", namespace |-> None, role |-> None]
  /\ UNCHANGED <<rows, list, fetch, confirm, calls, said>>

\* A creation under way goes on.
CloseForm ==
  /\ form # None /\ form' = None
  /\ UNCHANGED <<rows, list, fetch, confirm, calls, said>>

Becomes(f) == form' = f /\ UNCHANGED <<rows, list, fetch, confirm, calls, said>>

\* The role stays chosen.
SetScope(s) == form # None /\ Becomes([form EXCEPT !.scope = s])

\* Mutant: the role stays chosen.
WithNamespace_KeepsRole(n) == [form EXCEPT !.namespace = n]

\* The Roles of another namespace are other roles.
WithNamespace(n) == [form EXCEPT !.namespace = n, !.role = None]

SetNamespace(n) == form # None /\ form.scope = "namespace" /\ Becomes(WithNamespace(n))

roleOptions ==
  {ClusterRole} \cup (IF form.scope = "namespace" THEN {form.namespace} \ {None} ELSE {})

SetRole(r) == form # None /\ r \in roleOptions \cup {None} /\ Becomes([form EXCEPT !.role = r])

canSubmit == form.role # None /\ (form.scope = "cluster" \/ form.namespace # None)

\* Bound: one creation under way (the button of a form waits for its own).
handleSubmit ==
  /\ form # None /\ create = None
  /\ canSubmit
  /\ create' = [role |-> form.role, done |-> FALSE,
                namespace |-> IF form.scope = "namespace" THEN form.namespace ELSE None]
  /\ UNCHANGED <<rows, list, fetch, review, deny, dialogs, said>>

\* A Role needs a namespace.
Acceptable == create.role # ClusterRole => create.namespace # None

CreateActs ==
  /\ create # None /\ ~create.done
  /\ Acceptable
  /\ \E q \in Own : rows[q] = "none" /\ rows' = [rows EXCEPT ![q] = "pending"]
  /\ create' = [create EXCEPT !.done = TRUE]
  /\ UNCHANGED <<list, fetch, review, deny, dialogs, said>>

\* onClose closes the form that is open by now.
CreateOk ==
  /\ create # None /\ create.done
  /\ fetch' = Refetched
  /\ form' = None /\ create' = None
  /\ UNCHANGED <<rows, list, confirm, review, deny, said>>

CreateFails ==
  /\ create # None /\ create' = None
  /\ UNCHANGED <<rows, list, fetch, review, deny, dialogs, said>>

-----------------------------------------------------------------------------
(* Others: requesters, reviewers and the cleanup job (JitAccess has them).  For
   this tab a grant that is revoked elsewhere is like one that has expired. *)

Steps == {<<"none", "pending">>, <<"pending", "approved">>, <<"pending", "denied">>,
          <<"approved", "expired">>}

Elsewhere(q) ==
  /\ \E s \in DOMAIN Rank : <<rows[q], s>> \in Steps /\ rows' = [rows EXCEPT ![q] = s]
  /\ UNCHANGED <<list, fetch, calls, dialogs, said>>

-----------------------------------------------------------------------------
Next ==
  \/ Poll \/ ReadRows \/ FetchOk \/ FetchFails
  \/ \E q \in Requests :
       \/ \E action \in DOMAIN Makes : OpenConfirm(action, q)
       \/ Deny(q) \/ DenyActs(q) \/ DenyOk(q) \/ DenyFails(q)
       \/ Elsewhere(q)
  \/ CloseConfirm \/ handleConfirm \/ ReviewActs \/ ReviewOk \/ ReviewFails
  \/ OpenForm \/ CloseForm
  \/ \E s \in {"cluster", "namespace"} : SetScope(s)
  \/ \E n \in Namespaces \cup {None} : SetNamespace(n)
  \/ \E r \in Namespaces \cup {ClusterRole, None} : SetRole(r)
  \/ handleSubmit \/ CreateActs \/ CreateOk \/ CreateFails

Spec == Init /\ [][Next]_vars

\* The query polls while the page is open, and its requests and their answers do
\* not fail for ever.
Fairness == WF_vars(Poll) /\ SF_vars(ReadRows) /\ SF_vars(FetchOk)

FairSpec == Spec /\ Fairness

-----------------------------------------------------------------------------
(* Correctness. *)

\* useAccessRequests.ts:20-23: the queue does not stay stale while the page is open.
\* Again and again it shows every request as it is recorded, whoever changed it and
\* however many answers are dropped for newer ones.
QueueCatchesUp == []<>(list = rows)

\* useAccessRequests.ts:46-76: once the tab has announced a verdict, no list that
\* arrives later shows the request as it was before, whatever polls were under way.
SaidIsSeen ==
  \A q \in Requests :
    fetch # None /\ fetch.got # None => Rank[fetch.got[q]] >= Rank[said[q]]

\* AccessRequestsPage.tsx:55-59: a dialog that closes without a click has done what it
\* asked for, to the request it named, however the list has changed below it; unless
\* the call was confirmed in an earlier dialog that was closed before the answer.
ClosedIsDone ==
  [][confirm # None /\ confirm' = None /\ review # None /\ review' = None
       => review.left \/ (rows[confirm.of] # Needs[confirm.action]
                            /\ said'[confirm.of] = Makes[confirm.action])]_vars

\* RequestAccessModal.tsx:54-67, 88, 96, 108: however scope, namespace and role are
\* switched back and forth, no request is recorded for a Role of another namespace than
\* the one it names, or of none.
AskedWhereItIs ==
  create # None /\ create.done => create.role \in {ClusterRole, create.namespace}
=============================================================================
