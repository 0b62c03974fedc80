----------------------------- MODULE UserWizard -----------------------------
(***************************************************************************)
(* The three steps of CreateUserWizard: identity, permissions, done.       *)
(*                                                                         *)
(* Creating the user and assigning its roles are calls to the backend; the *)
(* form stays usable while they are under way, and what runs when the      *)
(* creation is answered reads the form as it is then.  The wizard stays    *)
(* mounted when it is closed.  The private key of a certificate user that  *)
(* is not kept in Vault exists only in `credentials'.                      *)
(***************************************************************************)
EXTENDS Naturals, UserNamespaces

CONSTANTS
  Role,        \* the role of a preset other than "none"
  New,         \* the option __new__ of the namespace field
  Doomed       \* bound: the namespaces that may go from the list

ASSUME WizardAssumption ==
  /\ New \notin Namespaces /\ None \notin Namespaces \cup {Role}
  /\ Doomed \subseteq Namespaces

VARIABLES
  open, step,
  userType, saNamespace, newNamespace,       \* step 1
  preset, scope, selectedNs, extraNs,        \* step 2
  lastAutoAdded,   \* the namespace step 1 ticked in step 2
  credentials, confirmed, kubeconfig,        \* step 3
  namespaces,      \* the namespaces the backend listed last
  create,          \* the creation under way: the type of the user, or None
  roles,           \* the role assignments made for the user just created, or None
  touched          \* history: the form was used before the creation had ended

identity == <<userType, saNamespace, newNamespace>>
permissions == <<preset, scope, selectedNs, extraNs, lastAutoAdded>>
result == <<credentials, confirmed, kubeconfig>>
calls == <<create, roles>>
wizardVars == <<open, step, identity, permissions, result, calls, namespaces,
          touched>>

Types == {"certificate", "service_account"}
Credentials == [type: Types, inline: BOOLEAN]
Assignments == [as: Types, left: SUBSET (Namespaces \cup {"cluster"}),
                got: SUBSET (Namespaces \cup {"cluster"}), pc: {"assigning", "done", "failed"}]

ASSUME NoRecordAssumption ==
  None \notin Types /\ None \notin Credentials /\ None \notin Assignments

WizardTypeOK ==
  /\ open \in BOOLEAN /\ step \in 1..3
  /\ userType \in Types
  /\ saNamespace \in Namespaces \cup {New} /\ newNamespace \in Namespaces \cup {None}
  /\ preset \in {Role, None} /\ scope \in {"cluster", "namespace"}
  /\ selectedNs \subseteq Namespaces /\ extraNs \subseteq Namespaces
  /\ lastAutoAdded \in Namespaces \cup {None}
  /\ credentials \in Credentials \cup {None}
  /\ credentials # None /\ credentials.inline => credentials.type = "certificate"
  /\ confirmed \in BOOLEAN /\ kubeconfig \in {"none", "pending", "ready"}
  /\ namespaces \subseteq Namespaces
  /\ create \in Types \cup {None}
  /\ roles \in Assignments \cup {None}
  /\ touched \in BOOLEAN

WizardInit ==
  /\ open = FALSE
  /\ step = 1 /\ userType = "service_account"
  /\ saNamespace = New /\ newNamespace = None
  /\ preset = Role /\ scope = "namespace"
  /\ selectedNs = {} /\ extraNs = {} /\ lastAutoAdded = None
  /\ credentials = None /\ confirmed = FALSE /\ kubeconfig = "none"
  /\ namespaces \in SUBSET Namespaces
  /\ create = None /\ roles = None
  /\ touched = FALSE

Assigning == roles # None /\ roles.pc = "assigning"

\* createUser.isPending || assigning
Busy == create # None \/ Assigning

\* Every use of the form or its buttons.
Use == open /\ touched' = (touched \/ Busy)

-----------------------------------------------------------------------------
(* Step 1 *)

pendingNs == IF saNamespace = New THEN newNamespace ELSE None

\* The checkboxes of step 2: namespacesWithPending.
Visible == namespaces \cup extraNs \cup ({pendingNs} \ {None})

SetType(t) ==
  /\ Use /\ step = 1
  /\ userType' = t
  /\ UNCHANGED <<open, step, saNamespace, newNamespace, permissions, result,
                 calls, namespaces>>

\* Choosing from the list clears the name of the new namespace.
SetNamespace(n) ==
  /\ Use /\ step = 1 /\ userType = "service_account"
  /\ saNamespace' = n /\ newNamespace' = None
  /\ UNCHANGED <<open, step, userType, permissions, result, calls, namespaces>>

TypeNamespace(n) ==
  /\ Use /\ step = 1 /\ userType = "service_account" /\ saNamespace = New
  /\ newNamespace' = n
  /\ UNCHANGED <<open, step, userType, saNamespace, permissions, result, calls,
                 namespaces>>

\* A new namespace needs a name; the certificate form does not show it.
validateStep1 ==
  userType = "service_account" /\ saNamespace = New => newNamespace # None

\* What handleStep1Next makes of the ticks when lastAutoAddedNsRef reads as last.
Retick(prev, last) ==
  (prev \ (IF last # pendingNs THEN {last} ELSE {})) \cup ({pendingNs} \ {None})

\* The ref is read in the updater of setSelectedNs.  React runs that at once or, when an
\* update of the wizard is still queued, with the next render, after the ref was set.
handleStep1Next ==
  /\ Use /\ step = 1 /\ validateStep1
  /\ \E last \in {lastAutoAdded, pendingNs} : selectedNs' = Retick(selectedNs, last)
  /\ lastAutoAdded' = pendingNs
  /\ step' = 2
  /\ UNCHANGED <<open, identity, preset, scope, extraNs, result, calls, namespaces>>

-----------------------------------------------------------------------------
(* Step 2 *)

Step2 == Use /\ step = 2

SetPreset(p) ==
  /\ Step2 /\ preset' = p
  /\ UNCHANGED <<open, step, identity, scope, selectedNs, extraNs, lastAutoAdded,
                 result, calls, namespaces>>

SetScope(s) ==
  /\ Step2 /\ preset # None /\ scope' = s
  /\ UNCHANGED <<open, step, identity, preset, selectedNs, extraNs, lastAutoAdded,
                 result, calls, namespaces>>

NamespaceList == Step2 /\ preset # None /\ scope = "namespace"

toggleNs(n) ==
  /\ NamespaceList /\ n \in Visible
  /\ selectedNs' = IF n \in selectedNs THEN selectedNs \ {n} ELSE selectedNs \cup {n}
  /\ UNCHANGED <<open, step, identity, preset, scope, extraNs, lastAutoAdded,
                 result, calls, namespaces>>

addInlineNs(n) ==
  /\ NamespaceList
  /\ extraNs' = extraNs \cup {n} /\ selectedNs' = selectedNs \cup {n}
  /\ UNCHANGED <<open, step, identity, preset, scope, lastAutoAdded, result,
                 calls, namespaces>>

\* The button is never disabled.
Back ==
  /\ Step2 /\ step' = 1
  /\ UNCHANGED <<open, identity, permissions, result, calls, namespaces>>

\* The button is disabled while loading, and without a namespace where one is needed.
CanCreate ==
  open /\ step = 2 /\ ~Busy /\ ~(preset # None /\ scope = "namespace" /\ selectedNs = {})

handleCreate ==
  /\ CanCreate /\ validateStep1
  /\ create' = userType
  /\ touched' = FALSE /\ roles' = None
  /\ UNCHANGED <<open, step, identity, permissions, result, namespaces>>

-----------------------------------------------------------------------------
(* The creation is answered.  Nothing of the form was kept with the request. *)

Targets == IF scope = "cluster" THEN {"cluster"} ELSE selectedNs

\* With a preset, the assignments start; Promise.all of none has ended.
Assign == IF preset = None THEN None
          ELSE [as |-> userType, left |-> Targets, got |-> {}, pc |-> "assigning"]

\* A certificate comes with its key, unless the key has gone to Vault.
CreateOk ==
  /\ create # None
  /\ \E inline \in BOOLEAN :
       /\ inline => create = "certificate"
       /\ credentials' = [type |-> create, inline |-> inline]
  /\ create' = None
  /\ roles' = Assign
  /\ IF roles' = None THEN step' = 3 /\ kubeconfig' = "pending"
                      ELSE UNCHANGED <<step, kubeconfig>>
  /\ UNCHANGED <<open, touched, identity, permissions, confirmed, namespaces>>

CreateFails ==
  /\ create # None
  /\ create' = None /\ touched' = FALSE
  /\ UNCHANGED <<open, step, identity, permissions, result, roles, namespaces>>

AssignOk(t) ==
  /\ roles # None /\ t \in roles.left
  /\ roles' = [roles EXCEPT !.left = @ \ {t}, !.got = @ \cup {t}]
  /\ UNCHANGED <<open, step, touched, identity, permissions, result, create,
                 namespaces>>

\* Promise.all has rejected: the other calls go on and nobody waits for them.
AssignFails(t) ==
  /\ roles # None /\ t \in roles.left
  /\ roles' = [roles EXCEPT !.left = @ \ {t}, !.pc = "failed"]
  /\ IF Assigning THEN step' = 3 /\ kubeconfig' = "pending"
                  ELSE UNCHANGED <<step, kubeconfig>>
  /\ UNCHANGED <<open, touched, identity, permissions, credentials, confirmed,
                 create, namespaces>>

\* Mutant: the first answer is enough.
AllAssigned_Any == roles.got # {} \/ roles.left = {}

\* Promise.all resolves.
AllAssigned == roles.left = {}

AssignEnds ==
  /\ Assigning /\ AllAssigned
  /\ roles' = [roles EXCEPT !.pc = "done"]
  /\ step' = 3 /\ kubeconfig' = "pending"
  /\ UNCHANGED <<open, touched, identity, permissions, credentials, confirmed,
                 create, namespaces>>

KubeconfigEnds ==
  /\ kubeconfig = "pending"
  /\ kubeconfig' \in {"none", "ready"}
  /\ UNCHANGED <<open, step, touched, identity, permissions, credentials,
                 confirmed, calls, namespaces>>

-----------------------------------------------------------------------------
(* Step 3, opening and closing *)

InVault == credentials # None /\ credentials.type = "certificate" /\ ~credentials.inline

KeyDisplayed ==
  step = 3 /\ userType = "certificate" /\ credentials # None /\ credentials.inline

Confirm ==
  /\ open /\ step = 3 /\ userType = "certificate" /\ ~InVault
  /\ confirmed' = ~confirmed
  /\ UNCHANGED <<open, step, touched, identity, permissions, credentials,
                 kubeconfig, calls, namespaces>>

\* Mutant: a key that is displayed does not keep the wizard open.
canClose_Displayed == step # 3 \/ credentials # None \/ confirmed

canClose == step # 3 \/ userType # "certificate" \/ confirmed \/ InVault

\* Mutant: the ticks of one user are still there for the next.
Reset_KeepsTicks ==
  /\ step' = 1 /\ userType' = "service_account"
  /\ saNamespace' = New /\ newNamespace' = None
  /\ preset' = Role /\ scope' = "namespace"
  /\ UNCHANGED selectedNs /\ extraNs' = {} /\ lastAutoAdded' = None
  /\ credentials' = None /\ confirmed' = FALSE /\ kubeconfig' = "none"

Reset ==
  /\ step' = 1 /\ userType' = "service_account"
  /\ saNamespace' = New /\ newNamespace' = None
  /\ preset' = Role /\ scope' = "namespace"
  /\ selectedNs' = {} /\ extraNs' = {} /\ lastAutoAdded' = None
  /\ credentials' = None /\ confirmed' = FALSE /\ kubeconfig' = "none"

\* Assignments nobody waits for are of no more interest.
handleClose ==
  /\ open /\ canClose
  /\ open' = FALSE
  /\ Reset
  /\ touched' = Busy
  /\ roles' = IF Assigning THEN roles ELSE None
  /\ UNCHANGED <<create, namespaces>>

OpenWizard ==
  /\ ~open /\ open' = TRUE
  /\ UNCHANGED <<step, touched, identity, permissions, result, calls, namespaces>>

\* useNamespaces is refetched.
Refetch(ns) ==
  /\ namespaces \subseteq ns \cup Doomed
  /\ namespaces' = ns
  /\ UNCHANGED <<open, step, touched, identity, permissions, result, calls>>

-----------------------------------------------------------------------------
RoleCall(t) == AssignOk(t) \/ AssignFails(t)

WizardNext ==
  \/ \E t \in Types : SetType(t)
  \/ \E n \in namespaces \cup {New} : SetNamespace(n)
  \/ \E n \in Namespaces \cup {None} : TypeNamespace(n)
  \/ handleStep1Next
  \/ \E p \in {Role, None} : SetPreset(p)
  \/ \E s \in {"cluster", "namespace"} : SetScope(s)
  \/ \E n \in Namespaces : toggleNs(n) \/ addInlineNs(n)
  \/ Back \/ handleCreate
  \/ CreateOk \/ CreateFails
  \/ \E t \in Namespaces \cup {"cluster"} : RoleCall(t)
  \/ AssignEnds \/ KubeconfigEnds
  \/ Confirm \/ handleClose \/ OpenWizard
  \/ \E ns \in SUBSET Namespaces : Refetch(ns)

WizardSpec == WizardInit /\ [][WizardNext]_wizardVars

-----------------------------------------------------------------------------
(* Correctness. *)

\* Ticked, but neither listed nor added in step 2 nor what step 1 ticked last.
Unaccounted == selectedNs \ (namespaces \cup extraNs \cup {lastAutoAdded})

\* CreateUserWizard.tsx:93-96, 138-148, 172-184: a namespace gets ticked without being shown
\* by nothing but renaming or dropping it in step 1 (or by going from the backend's list),
\* and then only the name that step 1 had ticked last; step 2 shows all other ticks.  The
\* wizard is only hidden when it is closed: no tick of one user is left for the next.
OnlyRenamingHidesTicks ==
  [][/\ Unaccounted' \subseteq Unaccounted \cup Doomed
           \cup (IF step = 1 /\ step' = 2 THEN {lastAutoAdded} ELSE {})
     /\ step' = 2 => selectedNs' \ Visible' = Unaccounted']_wizardVars

\* CreateUserWizard.tsx:99-136, 246: when the wizard shows step 3 and has not reported a
\* failed assignment, the user has exactly the roles that were ticked when Create was
\* pressed, shown or not, under its own kind, and its key is displayed if it has one, unless
\* the form was used meanwhile.
OrderedIsDone ==
  step = 3 /\ ~touched =>
    /\ credentials # None /\ credentials.type = userType
    /\ credentials.inline => KeyDisplayed
    /\ IF preset = None THEN roles = None
       ELSE roles # None /\ roles.as = userType
            /\ (roles.pc = "failed" \/ roles.got = Targets)

\* CreateUserWizard.tsx:246-252, 452-476, 512-528: a private key that exists nowhere
\* else is given up only after the user has confirmed that it is saved, unless the form
\* was used while the creation was under way.
KeyKept ==
  [][credentials # None /\ credentials.inline /\ credentials' # credentials
       => confirmed \/ touched \/ touched']_wizardVars
=============================================================================
