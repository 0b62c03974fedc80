---------------------------- MODULE ManagedUsers ----------------------------
(***************************************************************************)
(* The Kubernetes users ClusterVision manages: the registry (table         *)
(* managed_users), the CertificateSigningRequests and ServiceAccounts on   *)
(* the clusters, the private keys in Vault, the role bindings named after  *)
(* a user, and the links from login accounts.                              *)
(*                                                                         *)
(* Every operation is a handler in a thread of its own that makes several  *)
(* Kubernetes calls and then rewrites the registry in a READ COMMITTED     *)
(* transaction: it loads all rows, compares, looks each row up again and   *)
(* commits.  A handler may end at any of its steps.                        *)
(***************************************************************************)
EXTENDS UserNamespaces

CONSTANTS
  Names, Clusters,
  Default,       \* namespace of every certificate user
  Accounts,      \* login accounts that can be linked to a managed user
  Workers,       \* handlers under way, over all pods
  Extending,     \* Extending[n]: n and the names "n-..." that extend it
  Grantees,      \* bound: the names whose role assignments are followed
  VaultEnabled,
  PrivateKeys,   \* bound: key pairs that something still refers to
  MayAbort       \* bound: whether handlers may end early

ASSUME ConstantsAssumption ==
  /\ Default \in Namespaces
  /\ Extending \in [Names -> SUBSET Names] /\ \A n \in Names : n \in Extending[n]
  /\ Grantees \subseteq Names
  /\ VaultEnabled \in BOOLEAN
  /\ None \notin PrivateKeys
  /\ MayAbort \in BOOLEAN

VARIABLES
  registry,   \* registry[<<n, ns>>]: the row, or None
  csr,        \* csr[c][n]: the CSR object clustervision:n, or None
  sa,         \* sa[c][<<n, ns>>]: which of the ServiceAccount and its token exist
  vault,      \* vault[n]: the key pair stored for n, or None
  bindings,   \* bindings[c]: names n that have a binding clustervision-n-...
  links,      \* links[a]: the managed user account a is linked to, or None
  op          \* op[w]: the operation of worker w

vars == <<registry, csr, sa, vault, bindings, links, op>>

Keys == Names \X Namespaces

\* Kinds of rows; an imported certificate user has no CSR.
CertRows == {"certificate", "imported"}
Rows == CertRows \cup {"service_account", None}

\* A CSR carries a public key: that of the operation that made it.
Csr == [key: PrivateKeys, state: {"pending", "approved", "signed"}] \cup {None}

KeyPair == [key: PrivateKeys, cert: PrivateKeys] \cup {None}

ASSUME NoneAssumption ==
  /\ None \notin CertRows \cup {"service_account"}
  /\ None \notin [key: PrivateKeys, cert: PrivateKeys]

Kinds == {"create_cert", "import_cert", "delete_cert", "create_sa", "import_sa", "delete_sa"}

\* An operation: asked is the namespace of the call, ns the one it resolves to;
\* before, missing and gone belong to _update_registry.
Op == [kind: Kinds \cup {None},
       pc: {"idle", "csr", "delcsr", "recsr", "read", "approve", "wait", "store", "dropcsr",
            "account", "token", "dropaccount", "droptoken", "load", "get", "commit",
            "list", "unbind"},
       c: Clusters \cup {None}, name: Names \cup {None}, ns: Namespaces, asked: Namespaces,
       key: PrivateKeys \cup {None}, cert: PrivateKeys \cup {None}, seen: Csr,
       before: [Keys -> Rows], missing: SUBSET Keys, gone: SUBSET Keys,
       found: SUBSET Names]

Empty == [k \in Keys |-> None]

Idle == [kind |-> None, pc |-> "idle", c |-> None, name |-> None, ns |-> Default,
         asked |-> Default, key |-> None, cert |-> None, seen |-> None,
         before |-> Empty, missing |-> {}, gone |-> {}, found |-> {}]

TypeOK ==
  /\ registry \in [Keys -> Rows]
  /\ csr \in [Clusters -> [Names -> Csr]]
  /\ sa \in [Clusters -> [Keys -> SUBSET {"account", "token"}]]
  /\ vault \in [Names -> KeyPair]
  /\ bindings \in [Clusters -> SUBSET Names]
  /\ links \in [Accounts -> Keys \cup {None}]
  /\ op \in [Workers -> Op]

Init ==
  /\ registry = Empty
  /\ csr = [c \in Clusters |-> [n \in Names |-> None]]
  /\ sa = [c \in Clusters |-> [k \in Keys |-> {}]]
  /\ vault = [n \in Names |-> None]
  /\ bindings = [c \in Clusters |-> {}]
  /\ links = [a \in Accounts |-> None]
  /\ op = [w \in Workers |-> Idle]

\* Worker w, so far idle, starts the operation o.
Begin(w, o) ==
  /\ op[w].pc = "idle"
  /\ op' = [op EXCEPT ![w] = o]
  /\ UNCHANGED <<registry, csr, sa, vault, bindings, links>>

Goto(w, pc) == op' = [op EXCEPT ![w].pc = pc]

-----------------------------------------------------------------------------
(* Certificate users: CertificateService.create_user. *)

UsedKeys ==
  UNION {{csr[c][n].key : n \in {m \in Names : csr[c][m] # None}} : c \in Clusters}
  \cup UNION {{vault[n].key, vault[n].cert} : n \in {m \in Names : vault[m] # None}}
  \cup UNION {{op[w].key, op[w].cert} : w \in Workers}

\* The first look at the registry: no user of that name in any namespace.  Then
\* a private key is generated.
CreateCert(w, c, n) ==
  /\ \A ns \in Namespaces : registry[<<n, ns>>] = None
  /\ \E key \in PrivateKeys \ UsedKeys :
       Begin(w, [Idle EXCEPT !.kind = "create_cert", !.pc = "csr", !.c = c, !.name = n,
                             !.key = key])

SubmitCsr(w) ==
  LET o == op[w] IN
  /\ o.pc \in {"csr", "recsr"} /\ csr[o.c][o.name] = None
  /\ csr' = [csr EXCEPT ![o.c][o.name] = [key |-> o.key, state |-> "pending"]]
  /\ Goto(w, "read")
  /\ UNCHANGED <<registry, sa, vault, bindings, links>>

\* Mutant: on 409 the existing CSR is used as it is.
CsrExists_Reused(w) ==
  LET o == op[w] IN
  /\ o.pc = "csr" /\ csr[o.c][o.name] # None
  /\ Goto(w, "read")
  /\ UNCHANGED <<registry, csr, sa, vault, bindings, links>>

\* 409: "CSR exists from a previous incomplete creation -- delete and retry".
CsrExists(w) ==
  LET o == op[w] IN
  /\ o.pc = "csr" /\ csr[o.c][o.name] # None
  /\ Goto(w, "delcsr")
  /\ UNCHANGED <<registry, csr, sa, vault, bindings, links>>

DeleteStaleCsr(w) ==
  LET o == op[w] IN
  /\ o.pc = "delcsr" /\ csr[o.c][o.name] # None
  /\ csr' = [csr EXCEPT ![o.c][o.name] = None]
  /\ Goto(w, "recsr")
  /\ UNCHANGED <<registry, sa, vault, bindings, links>>

ReadCsr(w) ==
  LET o == op[w] IN
  /\ o.pc = "read" /\ csr[o.c][o.name] # None
  /\ op' = [op EXCEPT ![w] = [@ EXCEPT !.pc = "approve", !.seen = csr[o.c][o.name]]]
  /\ UNCHANGED <<registry, csr, sa, vault, bindings, links>>

\* The PUT carries the resource version that was read: it fails if the object
\* changed.  It replaces the conditions only, never an issued certificate.
ApproveCsr(w) ==
  LET o == op[w] IN
  /\ o.pc = "approve" /\ csr[o.c][o.name] = o.seen
  /\ csr' = [csr EXCEPT ![o.c][o.name].state = IF @ = "signed" THEN @ ELSE "approved"]
  /\ op' = [op EXCEPT ![w] = [@ EXCEPT !.pc = "wait", !.seen = None]]
  /\ UNCHANGED <<registry, sa, vault, bindings, links>>

\* _wait_for_certificate polls by name and takes the first certificate it sees.
GetCertificate(w) ==
  LET o == op[w] IN
  /\ o.pc = "wait" /\ csr[o.c][o.name] # None /\ csr[o.c][o.name].state = "signed"
  /\ op' = [op EXCEPT ![w] = [@ EXCEPT !.pc = "store", !.cert = csr[o.c][o.name].key]]
  /\ UNCHANGED <<registry, csr, sa, vault, bindings, links>>

\* A call finds no object, one too many, or one that has changed: 404 or 409.
CsrRaises(w) ==
  LET o == op[w] IN
  /\ \/ o.pc \in {"delcsr", "read", "wait"} /\ csr[o.c][o.name] = None
     \/ o.pc = "recsr" /\ csr[o.c][o.name] # None
     \/ o.pc = "approve" /\ csr[o.c][o.name] # o.seen
  /\ op' = [op EXCEPT ![w] = Idle]
  /\ UNCHANGED <<registry, csr, sa, vault, bindings, links>>

\* Mutant: the user is registered before its key is stored.
StoreKey_Later(w) ==
  /\ op[w].pc = "store"
  /\ Goto(w, "load")
  /\ UNCHANGED <<registry, csr, sa, vault, bindings, links>>

StoreKey(w) ==
  LET o == op[w] IN
  /\ o.pc = "store"
  /\ vault' = IF VaultEnabled
              THEN [vault EXCEPT ![o.name] = [key |-> o.key, cert |-> o.cert]] ELSE vault
  /\ Goto(w, "load")
  /\ UNCHANGED <<registry, csr, sa, bindings, links>>

\* The Vault call fails, with or without effect: the CSR is deleted if it can be.
StoreFails(w) ==
  LET o == op[w] IN
  /\ VaultEnabled /\ o.pc = "store"
  /\ vault' \in {vault, [vault EXCEPT ![o.name] = [key |-> o.key, cert |-> o.cert]]}
  /\ csr' \in {csr, [csr EXCEPT ![o.c][o.name] = None]}
  /\ op' = [op EXCEPT ![w] = Idle]
  /\ UNCHANGED <<registry, sa, bindings, links>>

ImportCert(w, n) ==
  Begin(w, [Idle EXCEPT !.kind = "import_cert", !.pc = "load", !.name = n])

\* CertificateService.delete_user; an imported user has no CSR to delete.
DeleteCert(w, c, n) ==
  /\ registry[<<n, Default>>] \in CertRows
  /\ Begin(w, [Idle EXCEPT !.kind = "delete_cert", !.c = c, !.name = n,
                 !.pc = IF registry[<<n, Default>>] = "certificate" THEN "dropcsr" ELSE "load"])

DropCsr(w) ==
  LET o == op[w] IN
  /\ o.pc = "dropcsr"
  /\ csr' = [csr EXCEPT ![o.c][o.name] = None]
  /\ Goto(w, "load")
  /\ UNCHANGED <<registry, sa, vault, bindings, links>>

-----------------------------------------------------------------------------
(* ServiceAccount users: ServiceAccountService. *)

CreateSa(w, c, n, ns) ==
  /\ registry[<<n, ns>>] = None
  /\ Begin(w, [Idle EXCEPT !.kind = "create_sa", !.pc = "account", !.c = c, !.name = n,
                           !.ns = ns, !.asked = ns])

\* The two create calls; 409 is ignored.
CreateAccount(w) ==
  LET o == op[w] IN
  /\ o.pc = "account"
  /\ sa' = [sa EXCEPT ![o.c][<<o.name, o.ns>>] = @ \cup {"account"}]
  /\ Goto(w, "token")
  /\ UNCHANGED <<registry, csr, vault, bindings, links>>

CreateToken(w) ==
  LET o == op[w] IN
  /\ o.pc = "token"
  /\ sa' = [sa EXCEPT ![o.c][<<o.name, o.ns>>] = @ \cup {"token"}]
  /\ Goto(w, "load")
  /\ UNCHANGED <<registry, csr, vault, bindings, links>>

ImportSa(w, c, n, ns) ==
  /\ "account" \in sa[c][<<n, ns>>]
  /\ Begin(w, [Idle EXCEPT !.kind = "import_sa", !.pc = "load", !.c = c, !.name = n,
                           !.ns = ns, !.asked = ns])

Homonyms(n) == {ns \in Namespaces : registry[<<n, ns>>] = "service_account"}

\* The namespace a deletion means: the one it was given, or that of the only
\* user of that name.
Resolved(n, asked) ==
  {ns \in Homonyms(n) : asked \in Homonyms(n) => ns = asked}

DeleteSa(w, c, n, asked) ==
  \E ns \in Resolved(n, asked) :
    /\ Resolved(n, asked) = {ns}
    /\ Begin(w, [Idle EXCEPT !.kind = "delete_sa", !.pc = "dropaccount", !.c = c, !.name = n,
                             !.ns = ns, !.asked = asked])

\* The two delete calls; 404 is ignored.
DropAccount(w) ==
  LET o == op[w] IN
  /\ o.pc = "dropaccount"
  /\ sa' = [sa EXCEPT ![o.c][<<o.name, o.ns>>] = @ \ {"account"}]
  /\ Goto(w, "droptoken")
  /\ UNCHANGED <<registry, csr, vault, bindings, links>>

DropToken(w) ==
  LET o == op[w] IN
  /\ o.pc = "droptoken"
  /\ sa' = [sa EXCEPT ![o.c][<<o.name, o.ns>>] = @ \ {"token"}]
  /\ Goto(w, "load")
  /\ UNCHANGED <<registry, csr, vault, bindings, links>>

-----------------------------------------------------------------------------
(* RegistryMixin._update_registry. *)

Deletes(o) == o.kind \in {"delete_cert", "delete_sa"}
Own(o) == <<o.name, o.ns>>

\* The check of mutate(current); a violated one raises UserAlreadyExistsError.
Admitted(o) ==
  CASE o.kind \in {"create_cert", "import_cert"} ->
         \A ns \in Namespaces : registry[<<o.name, ns>>] = None
    [] o.kind = "create_sa" -> registry[Own(o)] = None
    [] o.kind = "import_sa" -> Homonyms(o.name) = {}
    [] OTHER -> TRUE

\* Mutant: the type is misspelt when a ServiceAccount is registered.
NewRow_Misspelt(o) ==
  CASE o.kind = "create_cert" -> "certificate"
    [] o.kind = "import_cert" -> "imported"
    [] OTHER -> "serviceaccount"

\* The row mutate(current) appends.
NewRow(o) ==
  CASE o.kind = "create_cert" -> "certificate"
    [] o.kind = "import_cert" -> "imported"
    [] OTHER -> "service_account"

\* Mutant: the filter of a ServiceAccount's deletion ignores the namespace.
Removed_Homonyms(o) ==
  {k \in Keys : /\ k[1] = o.name
                /\ \/ o.kind = "delete_cert" /\ o.before[k] \in CertRows
                   \/ o.kind = "delete_sa" /\ o.before[k] = "service_account"}

\* The keys mutate(current) filters out.
Removed(o) ==
  {k \in {Own(o)} : \/ o.kind = "delete_cert" /\ o.before[k] \in CertRows
                    \/ o.kind = "delete_sa" /\ o.before[k] = "service_account"}

\* mutate(before).
After(o) ==
  [k \in Keys |-> IF k \in Removed(o) THEN None
                  ELSE IF k = Own(o) /\ ~Deletes(o) THEN NewRow(o)
                  ELSE o.before[k]]

AlreadyExists(w) ==
  /\ op[w].pc = "load" /\ ~Admitted(op[w])
  /\ op' = [op EXCEPT ![w] = Idle]
  /\ UNCHANGED <<registry, csr, sa, vault, bindings, links>>

\* SELECT of all rows, and mutate.
LoadRegistry(w) ==
  /\ op[w].pc = "load" /\ Admitted(op[w])
  /\ op' = [op EXCEPT ![w] = [@ EXCEPT !.pc = "get", !.before = registry]]
  /\ UNCHANGED <<registry, csr, sa, vault, bindings, links>>

\* A row another transaction has deleted without having committed yet.
RowsLocked(w, K) == \E v \in Workers \ {w} : op[v].gone \cap K # {}

\* DELETE of the removed rows, which locks them, and db.get of all the others.
ReadRows(w) ==
  LET o == op[w] IN
  /\ o.pc = "get" /\ ~RowsLocked(w, Removed(o))
  /\ op' = [op EXCEPT ![w] = [@ EXCEPT !.pc = "commit",
              !.gone = {k \in Removed(o) : registry[k] # None},
              !.missing = {k \in Keys : After(o)[k] # None /\ registry[k] = None}]]
  /\ UNCHANGED <<registry, csr, sa, vault, bindings, links>>

\* Mutant: the whole table is replaced, as the ConfigMap was.
Written_All(o) == Keys

\* The rows this transaction inserts, updates or has deleted.
Written(o) == o.missing \cup o.gone \cup (IF Deletes(o) THEN {} ELSE {Own(o)})

\* An INSERT meets a row, or an UPDATE finds none.
Conflicts(o) ==
  \/ \E k \in o.missing : registry[k] # None
  \/ ~Deletes(o) /\ Own(o) \notin o.missing /\ registry[Own(o)] = None

CommitFails(w) ==
  LET o == op[w] IN
  /\ o.pc = "commit" /\ ~RowsLocked(w, Written(o)) /\ Conflicts(o)
  /\ op' = [op EXCEPT ![w] = Idle]
  /\ UNCHANGED <<registry, csr, sa, vault, bindings, links>>

\* Flush and commit.  A deletion goes on to the bindings and the links.
Commit(w) ==
  LET o == op[w] IN
  /\ o.pc = "commit" /\ ~RowsLocked(w, Written(o)) /\ ~Conflicts(o)
  /\ registry' = [k \in Keys |-> IF k \in Written(o) THEN After(o)[k] ELSE registry[k]]
  /\ op' = [op EXCEPT ![w] = IF Deletes(o)
              THEN [@ EXCEPT !.pc = "list", !.before = Empty, !.missing = {}, !.gone = {}]
              ELSE Idle]
  /\ UNCHANGED <<csr, sa, vault, bindings, links>>

-----------------------------------------------------------------------------
(* The rest of DELETE /users/{username}. *)

\* delete_user_bindings lists the bindings whose name starts with
\* clustervision-{username}- ...
ListBindings(w) ==
  LET o == op[w] IN
  /\ o.pc = "list"
  /\ op' = [op EXCEPT ![w] = [@ EXCEPT !.pc = "unbind",
              !.found = bindings[o.c] \cap Extending[o.name]]]
  /\ UNCHANGED <<registry, csr, sa, vault, bindings, links>>

\* ... and deletes them one by one.
DeleteBinding(w, m) ==
  LET o == op[w] IN
  /\ o.pc = "unbind" /\ m \in o.found
  /\ bindings' = [bindings EXCEPT ![o.c] = @ \ {m}]
  /\ op' = [op EXCEPT ![w].found = @ \ {m}]
  /\ UNCHANGED <<registry, csr, sa, vault, links>>

\* clear_links_to(username, namespace): the namespace of the call.
ClearLinks(w) ==
  LET o == op[w] IN
  /\ o.pc = "unbind" /\ o.found = {}
  /\ links' = [a \in Accounts |-> IF links[a] = <<o.name, o.asked>> THEN None ELSE links[a]]
  /\ op' = [op EXCEPT ![w] = Idle]
  /\ UNCHANGED <<registry, csr, sa, vault, bindings>>

\* The handler ends early: a call is refused or unanswered, the wait for the
\* certificate times out, or the pod dies.  The database rolls back; the
\* cluster and Vault do not.
Abort(w) ==
  /\ op[w].pc # "idle" /\ MayAbort
  /\ op' = [op EXCEPT ![w] = Idle]
  /\ UNCHANGED <<registry, csr, sa, vault, bindings, links>>

-----------------------------------------------------------------------------
(* The surroundings. *)

AssignRole(c, n) ==
  /\ n \in Grantees \ bindings[c]
  /\ bindings' = [bindings EXCEPT ![c] = @ \cup {n}]
  /\ UNCHANGED <<registry, csr, sa, vault, links, op>>

RevokeRole(c, n) ==
  /\ n \in bindings[c]
  /\ bindings' = [bindings EXCEPT ![c] = @ \ {n}]
  /\ UNCHANGED <<registry, csr, sa, vault, links, op>>

SetLink(a, k) ==
  /\ registry[k] # None
  /\ links' = [links EXCEPT ![a] = k]
  /\ UNCHANGED <<registry, csr, sa, vault, bindings, op>>

ClearLink(a) ==
  /\ links[a] # None
  /\ links' = [links EXCEPT ![a] = None]
  /\ UNCHANGED <<registry, csr, sa, vault, bindings, op>>

\* Kubernetes signs approved CSRs, and collects them after an hour.
SignCsr(c, n) ==
  /\ csr[c][n] # None /\ csr[c][n].state = "approved"
  /\ csr' = [csr EXCEPT ![c][n].state = "signed"]
  /\ UNCHANGED <<registry, sa, vault, bindings, links, op>>

CollectCsr(c, n) ==
  /\ csr[c][n] # None /\ csr[c][n].state = "signed"
  /\ csr' = [csr EXCEPT ![c][n] = None]
  /\ UNCHANGED <<registry, sa, vault, bindings, links, op>>

\* Somebody creates a ServiceAccount with kubectl.
ForeignAccount(c, k) ==
  /\ sa[c][k] = {}
  /\ sa' = [sa EXCEPT ![c][k] = {"account"}]
  /\ UNCHANGED <<registry, csr, vault, bindings, links, op>>

-----------------------------------------------------------------------------

Certificates(w) ==
  \/ SubmitCsr(w) \/ CsrExists(w) \/ DeleteStaleCsr(w) \/ ReadCsr(w) \/ ApproveCsr(w)
  \/ GetCertificate(w) \/ CsrRaises(w) \/ StoreKey(w) \/ StoreFails(w) \/ DropCsr(w)

ServiceAccounts(w) ==
  CreateAccount(w) \/ CreateToken(w) \/ DropAccount(w) \/ DropToken(w)

UpdateRegistry(w) ==
  AlreadyExists(w) \/ LoadRegistry(w) \/ ReadRows(w) \/ CommitFails(w) \/ Commit(w)

Cleanup(w) ==
  ListBindings(w) \/ (\E m \in Names : DeleteBinding(w, m)) \/ ClearLinks(w)

Next ==
  \/ \E w \in Workers, c \in Clusters, n \in Names : CreateCert(w, c, n) \/ DeleteCert(w, c, n)
  \/ \E w \in Workers, n \in Names : ImportCert(w, n)
  \/ \E w \in Workers, c \in Clusters, n \in Names, ns \in Namespaces :
       CreateSa(w, c, n, ns) \/ ImportSa(w, c, n, ns) \/ DeleteSa(w, c, n, ns)
  \/ \E w \in Workers :
       Certificates(w) \/ ServiceAccounts(w) \/ UpdateRegistry(w) \/ Cleanup(w) \/ Abort(w)
  \/ \E c \in Clusters, n \in Names :
       AssignRole(c, n) \/ RevokeRole(c, n) \/ SignCsr(c, n) \/ CollectCsr(c, n)
  \/ \E c \in Clusters, k \in Keys : ForeignAccount(c, k)
  \/ \E a \in Accounts, k \in Keys : SetLink(a, k)
  \/ \E a \in Accounts : ClearLink(a)

Spec == Init /\ [][Next]_vars

-----------------------------------------------------------------------------
(* Properties. *)

\* Concurrent writers never lose each other's rows: a row that is there changes
\* or goes only through a transaction about that very name, although every
\* transaction computes a complete new registry from an old copy
\* (_update_registry writes differences, it does not replace the table).
RowsSurviveOthers ==
  [][\A k \in Keys : registry[k] # None /\ registry'[k] # registry[k] =>
       \E w \in Workers : op[w].pc = "commit" /\ op'[w] # op[w] /\ op[w].name = k[1]]_vars

\* create_user pairs a private key with the certificate for that key, whatever
\* CSRs earlier creations have left under the same name.
KeyMatchesCertificate ==
  \A w \in Workers : op[w].kind = "create_cert" /\ op[w].cert # None => op[w].cert = op[w].key

\* With Vault enabled a user with a certificate of ours has its key in Vault: it
\* is stored before the user is registered, and failing that nobody is.
RegisteredKeyStored ==
  VaultEnabled => \A n \in Names : registry[<<n, Default>>] = "certificate" => vault[n] # None

\* The registry forgets a ServiceAccount user only when its token is gone from
\* every cluster (DELETE /users/{username}: "deletes the ServiceAccount and its
\* token Secret (access revoked immediately)"): a deletion that fails half way
\* can be tried again, and the namespace it fell back on is the one it cleans.
ForgottenOnlyWhenGone ==
  [][\A k \in Keys : registry[k] = "service_account" /\ registry'[k] # "service_account" =>
       \A c \in Clusters : "token" \notin sa[c][k]]_vars
=============================================================================
