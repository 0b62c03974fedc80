---------------------------- MODULE KubeconfigPanel ----------------------------
(***************************************************************************)
(* The panel of KubeconfigPage: a user, a namespace and perhaps a private  *)
(* key are chosen, and the kubeconfig is generated 1.5 s later without a   *)
(* click.                                                                  *)
(*                                                                         *)
(* The effect that arms the timer runs when the selection, the namespace,  *)
(* the list of users or the state of Vault has changed, never for a key.   *)
(* The timer holds the values of the render it was armed in (its closure), *)
(* while the cluster is read when the request is sent.  A private key is   *)
(* represented by the user it belongs to.                                  *)
(***************************************************************************)
CONSTANTS
  Users,       \* managed users: a name and a namespace
  Certs,       \* the certificate users among them
  NsOf,        \* the namespace of each user
  Namespaces,
  Clusters,
  Writable,    \* the clusters on which the signed-in account is operator
  Named,       \* the users with the name in ?user=
  NamedNs,     \* the namespace in ?namespace=, or None
  None

ASSUME ConstantsAssumption ==
  /\ Certs \subseteq Users /\ Named \subseteq Users /\ Writable \subseteq Clusters
  /\ NsOf \in [Users -> Namespaces] /\ NamedNs \in Namespaces \cup {None}
  /\ None \notin Users /\ None \notin Namespaces

VARIABLES
  cluster,     \* the active cluster
  users,       \* the users listed: none while the list is loading
  vaultEnabled,
  selected, namespace, privateKey,   \* the form
  preselectionDone,
  upload,      \* the file being read, or None
  debounce,    \* the closure the timer will call, or None
  generate     \* the last request since it was reset, as useMutation shows it

vars == <<cluster, users, vaultEnabled, selected, namespace, privateKey,
          preselectionDone, upload, debounce, generate>>

form == <<selected, namespace, privateKey, preselectionDone, upload>>
answers == <<cluster, users, vaultEnabled>>

Chosen == [user: Users, ns: Namespaces \cup {None}, key: Users \cup {None}]

Idle == [pc |-> "idle", of |-> None, on |-> None]

TypeOK ==
  /\ cluster \in Clusters /\ users \subseteq Users
  /\ vaultEnabled \in BOOLEAN /\ preselectionDone \in BOOLEAN
  /\ selected \in Users \cup {None}
  /\ namespace \in Namespaces \cup {None}
  /\ privateKey \in Users \cup {None} /\ upload \in Users \cup {None}
  /\ debounce \in Chosen \cup {None}
  /\ \/ generate = Idle
     \/ generate \in [pc: {"pending", "done", "failed"}, of: Chosen, on: Clusters]

Init ==
  /\ cluster \in Clusters /\ users = {} /\ vaultEnabled = FALSE
  /\ selected = None /\ namespace = NamedNs /\ privateKey = None
  /\ preselectionDone = (Named = {}) /\ upload = None
  /\ debounce = None /\ generate = Idle

-----------------------------------------------------------------------------
(* Generating *)

\* canGenerate with the key k.
CanGenerate(k) ==
  /\ cluster \in Writable /\ selected \in users
  /\ selected \in Certs => k # None \/ vaultEnabled

\* What generates without a click: a certificate user needs Vault.
AutoGenerated == cluster \in Writable /\ selected \in users
                   /\ (selected \in Certs => vaultEnabled)

\* Mutant: nobody's kubeconfig follows the namespace.
SkipsNamespace_All == TRUE

\* Only certificate users have the button for a change of the namespace.
SkipsNamespace == selected \in Certs

\* Mutant: the timer is cleared only when it is armed again.
Unarmed_Keeps == debounce

\* The clean-up of the effect's last run.
Unarmed == None

\* What is sent for u.  No key is sent for a ServiceAccount.
Choice(u, k, n) == [user |-> u, ns |-> n, key |-> IF u \in Certs THEN k ELSE None]

\* The effect, run with the key k and the namespace n of the render.
Debounce(k, n, nsOnly) ==
  debounce' = IF AutoGenerated' /\ ~(nsOnly /\ SkipsNamespace')
              THEN Choice(selected', k, n) ELSE Unarmed

\* The interceptor adds the cluster that is active when the request is sent.
Pending(choice) == [pc |-> "pending", of |-> choice, on |-> cluster]

TimerFires ==
  /\ debounce # None
  /\ generate' = Pending(debounce)
  /\ debounce' = None
  /\ UNCHANGED <<form, answers>>

\* The button is there for certificate users.
GenerateClick ==
  /\ selected \in Certs /\ CanGenerate(privateKey)
  /\ generate.pc # "pending"
  /\ generate' = Pending(Choice(selected, privateKey, namespace))
  /\ UNCHANGED <<form, answers, debounce>>

GenerateEnds ==
  /\ generate.pc = "pending"
  /\ \E pc \in {"done", "failed"} : generate' = [generate EXCEPT !.pc = pc]
  /\ UNCHANGED <<form, answers, debounce>>

-----------------------------------------------------------------------------
(* The form *)

\* Mutant: what was generated stays displayed.
Forget_KeepsPreview == privateKey' = None /\ UNCHANGED generate

\* generate.reset() takes the answer under way off the panel, too.
Forget == privateKey' = None /\ generate' = Idle

\* selectedKey has changed to u.  The effect of the selection sets the user's
\* namespace and clears the key, and the effect of the timer runs before that is
\* rendered; it runs again only if the namespace is another one.
Becomes(u) ==
  /\ selected' = u
  /\ namespace' = IF u \in users' THEN NsOf[u] ELSE namespace
  /\ Forget
  /\ IF namespace' = namespace THEN Debounce(privateKey, namespace, FALSE)
                               ELSE Debounce(None, namespace', TRUE)

Select(u) ==
  /\ u # selected
  /\ UNCHANGED <<answers, preselectionDone, upload>>
  /\ Becomes(u)

SetNamespace(n) ==
  /\ n # namespace /\ namespace' = n
  /\ UNCHANGED <<answers, selected, privateKey, preselectionDone, upload, generate>>
  /\ Debounce(privateKey, n, TRUE)

\* The user pastes the key of the user displayed, or clears the field.
TypeKey(k) ==
  /\ selected \in users \cap Certs
  /\ k # privateKey /\ privateKey' = k
  /\ UNCHANGED <<answers, selected, namespace, preselectionDone, upload, debounce, generate>>

\* Bound: one file at a time, holding the key of the user displayed.
UploadFile ==
  /\ selected \in users \cap Certs /\ upload = None
  /\ upload' = selected
  /\ UNCHANGED <<answers, selected, namespace, privateKey, preselectionDone, debounce, generate>>

\* The FileReader does not know what is selected by then.
FileRead ==
  /\ upload # None
  /\ privateKey' = upload /\ upload' = None
  /\ UNCHANGED <<answers, selected, namespace, preselectionDone, debounce, generate>>

-----------------------------------------------------------------------------
(* Answers of the backend, and the cluster *)

\* The users an ambiguous ?user= may stand for among those listed.
Matches(listed) ==
  LET inNs == {u \in Named \cap listed : NsOf[u] = NamedNs}
  IN IF inNs # {} THEN inNs ELSE Named \cap listed

\* The users are listed.  The first list that is not empty resolves ?user=.
Listed(us) ==
  /\ users' = us
  /\ UNCHANGED <<vaultEnabled, upload>>
  /\ IF preselectionDone \/ us = {}
     THEN /\ UNCHANGED <<selected, namespace, privateKey, preselectionDone, generate>>
          /\ Debounce(privateKey, namespace, FALSE)
     ELSE /\ preselectionDone' = TRUE
          /\ IF Matches(us) # {} THEN \E u \in Matches(us) : Becomes(u)
             ELSE /\ UNCHANGED <<selected, namespace, privateKey, generate>>
                  /\ Debounce(privateKey, namespace, FALSE)

\* A refetch that brings the same users does not run the effect.
UsersArrive(us) == us # users /\ us # {} /\ UNCHANGED cluster /\ Listed(us)

\* The list of another cluster: in the cache, or not loaded.
SwitchCluster(c, us) == c # cluster /\ cluster' = c /\ Listed(us)

VaultStatusArrives ==
  /\ vaultEnabled' = ~vaultEnabled
  /\ UNCHANGED <<cluster, users, form, generate>>
  /\ Debounce(privateKey, namespace, FALSE)

-----------------------------------------------------------------------------
Next ==
  \/ TimerFires \/ GenerateClick \/ GenerateEnds
  \/ \E u \in users \cup {None} : Select(u)
  \/ \E n \in Namespaces \cup {None} : SetNamespace(n)
  \/ \E k \in {selected, None} : TypeKey(k)
  \/ UploadFile \/ FileRead
  \/ \E us \in SUBSET Users : UsersArrive(us) \/ \E c \in Clusters : SwitchCluster(c, us)
  \/ VaultStatusArrives

Spec == Init /\ [][Next]_vars

\* The timer fires, though a change may arm it again.
FairSpec == Spec /\ WF_vars(TimerFires)

-----------------------------------------------------------------------------
(* Correctness. *)

\* KubeconfigPanel.tsx:84-106: however the selection, the list, Vault and the cluster
\* change in those 1.5 s, the timer never generates for a user or a namespace that is
\* no longer chosen, for a user the list has lost, or where the account may not.
TimerIsCurrent ==
  debounce # None => /\ debounce.user = selected /\ debounce.ns = namespace
                     /\ AutoGenerated

\* KubeconfigPanel.tsx:73-77, 114-117: what is displayed, and saved in a file named
\* after the selected user, is that user's kubeconfig, however late it was answered.
PreviewIsOfSelected == generate # Idle => generate.of.user = selected

\* KubeconfigPanel.tsx:90-91: the kubeconfig of a ServiceAccount is generated without
\* a click, for the namespace that is chosen, whatever is changed meanwhile.
AutoGenerates ==
  \A u \in Users \ Certs :
    selected = u /\ AutoGenerated
      ~> \/ selected # u \/ ~AutoGenerated
         \/ generate # Idle /\ generate.of.ns = namespace
=============================================================================
