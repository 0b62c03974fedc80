------------------------------- MODULE RbacPages -------------------------------
(***************************************************************************)
(* RbacPage: the Roles of a namespace and the ClusterRoles of one cluster, *)
(* the lists the query cache keeps of them, and the editor and the         *)
(* deletion dialog that change them.                                       *)
(*                                                                         *)
(* A role is changed in Kubernetes by the backend, which keeps nothing.    *)
(* The active cluster stays the same here (ClusterPages has the switch),   *)
(* and system roles, which have no buttons but Copy, are left out; the     *)
(* list that includes them is a list of its own all the same.              *)
(* What the query library does is modelled as the page uses it.            *)
(***************************************************************************)

CONSTANTS
  Namespaces,
  ClusterWide,   \* the scope of a ClusterRole
  Names,         \* names of roles
  None

ASSUME ConstantsAssumption == ClusterWide \notin Namespaces

VARIABLES
  roles,       \* roles[s]: the names of the roles of scope s in Kubernetes
  tab,         \* the tab of the page
  namespace,   \* the namespace selected on the Roles tab
  showSystem,
  cache,       \* cache[k]: whether a list is kept under key k, and counts as fresh
  fetch,       \* fetch[k]: whether it is being fetched, and has been read by the backend
  editor,      \* RoleEditorModal, or None
  save,        \* its request under way, or None
  dialog,      \* deleteTarget: the role to be deleted, or None
  deletion,    \* the deletion under way, or None
  owed         \* history: keys of lists a change this page was told of is missing from

vars == <<roles, tab, namespace, showSystem, cache, fetch, editor, save, dialog, deletion, owed>>
view == <<tab, namespace, showSystem>>

Scopes == Namespaces \cup {ClusterWide}
Roles == [scope: Scopes, name: Names]

\* The keys of the two queries: a namespace, or whether system roles are included.
ClusterLists == {"custom", "all"}
Keys == Namespaces \cup ClusterLists

\* of: the role it was opened to edit, or None; cluster: whether it makes ClusterRoles.
Editor == [of: Roles \cup {None}, cluster: BOOLEAN]

\* done: Kubernetes has the change.
Save == [of: Roles \cup {None}, role: Roles, done: BOOLEAN]
Deletion == [role: Roles, done: BOOLEAN]

TypeOK ==
  /\ roles \in [Scopes -> SUBSET Names]
  /\ tab \in {"roles", "clusterroles"} /\ namespace \in Namespaces /\ showSystem \in BOOLEAN
  /\ cache \in [Keys -> {"none", "stale", "fresh"}]
  /\ fetch \in [Keys -> {"none", "sent", "read"}]
  /\ editor \in Editor \cup {None} /\ save \in Save \cup {None}
  /\ dialog \in Roles \cup {None} /\ deletion \in Deletion \cup {None}
  /\ owed \subseteq Keys

\* The list of the namespace is fetched as the page is mounted.
Init ==
  /\ roles \in [Scopes -> SUBSET Names]
  /\ tab = "roles" /\ namespace \in Namespaces /\ showSystem = FALSE
  /\ cache = [k \in Keys |-> "none"]
  /\ fetch = [k \in Keys |-> IF k = namespace THEN "sent" ELSE "none"]
  /\ editor = None /\ save = None /\ dialog = None /\ deletion = None
  /\ owed = {}

-----------------------------------------------------------------------------
(* The lists *)

\* The key of the cluster roles, of the query of the Roles tab and of all in use: those of
\* the Cluster Roles tab are only fetched while it is displayed.
ClusterKey(sys) == IF sys THEN "all" ELSE "custom"
InUse(t, ns, sys) == {ns} \cup (IF t = "clusterroles" THEN {ClusterKey(sys)} ELSE {})
Displayed == IF tab = "roles" THEN namespace ELSE ClusterKey(showSystem)

Stale(k) == cache[k] # "fresh"

\* What the list holds is not followed: a row that is displayed may be old.
ReadList(k) ==
  /\ fetch[k] = "sent"
  /\ fetch' = [fetch EXCEPT ![k] = "read"]
  /\ owed' = owed \ {k}
  /\ UNCHANGED <<roles, view, cache, editor, save, dialog, deletion>>

FetchOk(k) ==
  /\ fetch[k] = "read"
  /\ cache' = [cache EXCEPT ![k] = "fresh"]
  /\ fetch' = [fetch EXCEPT ![k] = "none"]
  /\ UNCHANGED <<roles, view, editor, save, dialog, deletion, owed>>

\* An error, or an answer that is lost.
FetchFails(k) ==
  /\ fetch[k] # "none"
  /\ fetch' = [fetch EXCEPT ![k] = "none"]
  /\ UNCHANGED <<roles, view, cache, editor, save, dialog, deletion, owed>>

\* staleTime has passed.
GrowsStale(k) ==
  /\ cache[k] = "fresh"
  /\ cache' = [cache EXCEPT ![k] = "stale"]
  /\ UNCHANGED <<roles, view, fetch, editor, save, dialog, deletion, owed>>

\* Nothing covers the page.
Uncovered == editor = None /\ dialog = None

\* Another tab, namespace or choice of system roles is displayed: a list that is in use
\* from now on is fetched if it is stale and not under way.  Bound: of the lists that are
\* not in use, that of one namespace at most is still being fetched.
Shows(t, ns, sys) ==
  /\ \E one \in Namespaces : \A k \in Keys \ (InUse(t, ns, sys) \cup {one}) : fetch[k] = "none"
  /\ tab' = t /\ namespace' = ns /\ showSystem' = sys
  /\ fetch' = [k \in Keys |->
       IF k \in InUse(t, ns, sys) \ InUse(tab, namespace, showSystem) /\ Stale(k) /\ fetch[k] = "none"
       THEN "sent" ELSE fetch[k]]
  /\ UNCHANGED <<roles, cache, editor, save, dialog, deletion, owed>>

SetTab(t) == Uncovered /\ t # tab /\ Shows(t, namespace, showSystem)

SetNamespace(ns) ==
  Uncovered /\ tab = "roles" /\ ns # namespace /\ Shows(tab, ns, showSystem)

ToggleSystem == Uncovered /\ Shows(tab, namespace, ~showSystem)

\* The window gets the focus, or Retry is clicked.
Focus ==
  /\ fetch' = [k \in Keys |->
       IF k \in InUse(tab, namespace, showSystem) /\ Stale(k) /\ fetch[k] = "none"
       THEN "sent" ELSE fetch[k]]
  /\ fetch' # fetch
  /\ UNCHANGED <<roles, view, cache, editor, save, dialog, deletion, owed>>

\* invalidateQueries restarts the fetch of a list in use, unless it is the first one of
\* that list, and leaves the others to whatever is under way.
Restarted(k) ==
  k \in InUse(tab, namespace, showSystem) /\ (fetch[k] = "none" \/ cache[k] # "none")

Invalidate(K) ==
  /\ cache' = [k \in Keys |->
       IF k \in K /\ cache[k] # "none" THEN "stale" ELSE cache[k]]
  /\ fetch' = [k \in Keys |-> IF k \in K /\ Restarted(k) THEN "sent" ELSE fetch[k]]

RefreshClick ==
  /\ Uncovered /\ Invalidate(Keys)
  /\ UNCHANGED <<roles, view, editor, save, dialog, deletion, owed>>

-----------------------------------------------------------------------------
(* The editor *)

\* A row of the list displayed.  A refetch that failed hides the rows too, which only takes
\* clicks away.
Row(n) == [scope |-> IF tab = "roles" THEN namespace ELSE ClusterWide, name |-> n]
IsLoaded == cache[Displayed] # "none"

\* Bound: one change at a time, so no editor is opened while a role is being deleted, and
\* the deletion dialog is not opened while one is being saved.
Open(of) ==
  /\ Uncovered /\ deletion = None
  /\ editor' = [of |-> of, cluster |-> tab = "clusterroles"]
  /\ UNCHANGED <<roles, view, cache, fetch, save, dialog, deletion, owed>>

\* "Create", and the button that copies the rules of a row.
CreateClick == Open(None)
CopyClick == IsLoaded /\ Open(None)
EditClick(n) == IsLoaded /\ Open(Row(n))

\* The roles the form may name: the fields are fixed when a role is edited.
Named(e) == IF e.of # None THEN {e.of} ELSE {r \in Roles : r.scope = ClusterWide <=> e.cluster}

CloseEditor ==
  /\ editor # None /\ editor' = None
  /\ UNCHANGED <<roles, view, cache, fetch, save, dialog, deletion, owed>>

\* The form is filled in and saved; its button waits for any save under way.
handleSave(r) ==
  /\ editor # None /\ save = None
  /\ r \in Named(editor)
  /\ save' = [of |-> editor.of, role |-> r, done |-> FALSE]
  /\ UNCHANGED <<roles, view, cache, fetch, editor, dialog, deletion, owed>>

Exists(r) == r.name \in roles[r.scope]

\* Mutant: saving creates the role or replaces it, as "apply" does.
Accepts_Any(s) == TRUE

\* PATCH replaces the rules of a role that exists (404), POST creates one (409).
Accepts(s) == IF s.of # None THEN Exists(s.role) ELSE ~Exists(s.role)

SaveActs ==
  /\ save # None /\ ~save.done /\ Accepts(save)
  /\ roles' = [roles EXCEPT ![save.role.scope] = @ \cup {save.role.name}]
  /\ save' = [save EXCEPT !.done = TRUE]
  /\ UNCHANGED <<view, cache, fetch, editor, dialog, deletion, owed>>

\* Mutant: the list of the namespace that is selected is invalidated.
Invalidated_Selected(r) == IF r.scope = ClusterWide THEN ClusterLists ELSE {namespace}

\* ['cluster-roles', cluster] is a prefix of both keys.
Invalidated(r) == IF r.scope = ClusterWide THEN ClusterLists ELSE {r.scope}

\* The lists r is in, save those whose fetch under way goes on as it is.
OwedBy(r) ==
  {k \in Keys : /\ k = r.scope \/ (r.scope = ClusterWide /\ k \in ClusterLists)
                /\ fetch[k] = "none" \/ Restarted(k)}

\* onSuccess closes whatever editor is open by now.
SaveOk ==
  /\ save # None /\ save.done
  /\ Invalidate(Invalidated(save.role))
  /\ owed' = owed \cup OwedBy(save.role)
  /\ save' = None /\ editor' = None
  /\ UNCHANGED <<roles, view, dialog, deletion>>

\* Refused, or the answer is lost.
SaveFails ==
  /\ save # None /\ save' = None
  /\ UNCHANGED <<roles, view, cache, fetch, editor, dialog, deletion, owed>>

-----------------------------------------------------------------------------
(* Deletion *)

DeleteClick(n) ==
  /\ Uncovered /\ IsLoaded /\ save = None
  /\ dialog' = Row(n)
  /\ UNCHANGED <<roles, view, cache, fetch, editor, save, deletion, owed>>

CancelDelete ==
  /\ dialog # None /\ dialog' = None
  /\ UNCHANGED <<roles, view, cache, fetch, editor, save, deletion, owed>>

\* The button waits for a deletion under way; the dialog is closed.
confirmDelete ==
  /\ dialog # None /\ deletion = None
  /\ deletion' = [role |-> dialog, done |-> FALSE]
  /\ dialog' = None
  /\ UNCHANGED <<roles, view, cache, fetch, editor, save, owed>>

DeleteActs ==
  /\ deletion # None /\ ~deletion.done /\ Exists(deletion.role)
  /\ roles' = [roles EXCEPT ![deletion.role.scope] = @ \ {deletion.role.name}]
  /\ deletion' = [deletion EXCEPT !.done = TRUE]
  /\ UNCHANGED <<view, cache, fetch, editor, save, dialog, owed>>

DeleteOk ==
  /\ deletion # None /\ deletion.done
  /\ Invalidate(Invalidated(deletion.role))
  /\ owed' = owed \cup OwedBy(deletion.role)
  /\ deletion' = None
  /\ UNCHANGED <<roles, view, editor, save, dialog>>

DeleteFails ==
  /\ deletion # None /\ deletion' = None
  /\ UNCHANGED <<roles, view, cache, fetch, editor, save, dialog, owed>>

-----------------------------------------------------------------------------
Lists ==
  \/ \E k \in Keys : ReadList(k) \/ FetchOk(k) \/ FetchFails(k) \/ GrowsStale(k)
  \/ \E t \in {"roles", "clusterroles"} : SetTab(t)
  \/ \E ns \in Namespaces : SetNamespace(ns)
  \/ ToggleSystem \/ Focus \/ RefreshClick

Edits ==
  \/ CreateClick \/ CopyClick \/ CloseEditor
  \/ \E n \in Names : EditClick(n)
  \/ \E r \in Roles : handleSave(r)
  \/ SaveActs \/ SaveOk \/ SaveFails

Deletes ==
  \/ \E n \in Names : DeleteClick(n)
  \/ CancelDelete \/ confirmDelete \/ DeleteActs \/ DeleteOk \/ DeleteFails

Next == Lists \/ Edits \/ Deletes

Spec == Init /\ [][Next]_vars

-----------------------------------------------------------------------------
(* Correctness. *)

\* useRbac.ts:69-149: after this page was told that a role is saved or deleted, no list
\* that counts as fresh was read before the change, whatever tab, namespace or choice of
\* system roles is displayed by then and will be later; but for a fetch that the library
\* cannot restart (the first one of a list, and one of a list that is not in use).
FreshKnows == \A k \in owed : Stale(k)

\* RoleEditorModal.tsx:149,159: whatever is typed in the editor, and whatever else is under
\* way, the rules of a role that exists are replaced only after Edit was clicked on its own
\* row: creating and copying replace nothing, and an edit does not move to another role.
OnlyOpenedIsReplaced ==
  [][save # None /\ save' # None /\ save'.done /\ ~save.done /\ Exists(save.role)
       => save.of = save.role]_vars
=============================================================================
