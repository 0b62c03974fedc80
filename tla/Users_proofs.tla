--------------------------- MODULE Users_proofs ---------------------------
(***************************************************************************)
(* What holds of ManagedUsers for any clusters, names, namespaces and      *)
(* handlers at work: types; a row of the registry goes only through a      *)
(* transaction about that name; the key of a registered user is in Vault.  *)
(* And what holds where one handler runs at a time: the key in Vault fits  *)
(* the certificate, and no ServiceAccount user is forgotten while its      *)
(* token exists.                                                           *)
(*                                                                         *)
(* What holds of UserWizard for any namespaces, however the form is used:  *)
(* types, that only a renaming hides a tick, that what was ordered is      *)
(* done, and that no key is lost.                                          *)
(***************************************************************************)
EXTENDS ManagedUsers, UserWizard, TLAPS

-----------------------------------------------------------------------------
(* ManagedUsers: types.  An operation under way has what its next step uses. *)

CsrSteps == {"csr", "delcsr", "recsr", "read", "approve", "wait", "store"}
RegistrySteps == {"load", "get", "commit"}

\* The steps that an operation takes.
Route(kind, pc) ==
  \/ kind = "create_cert" /\ pc \in CsrSteps
  \/ kind = "delete_cert" /\ pc \in {"dropcsr", "list", "unbind"}
  \/ kind = "create_sa" /\ pc \in {"account", "token"}
  \/ kind = "delete_sa" /\ pc \in {"dropaccount", "droptoken", "list", "unbind"}
  \/ kind \in Kinds /\ pc \in RegistrySteps

Equipped(o) ==
  /\ o.name \in Names /\ Route(o.kind, o.pc)
  /\ o.kind # "import_cert" => o.c \in Clusters
  /\ o.kind = "create_cert" => o.key \in PrivateKeys
  /\ o.pc = "approve" => o.seen # None
  /\ o.pc = "store" => o.cert \in PrivateKeys

OpOk(o) == o \in Op /\ (o.pc # "idle" => Equipped(o))

UsersTyped == TypeOK /\ \A w \in Workers : OpOk(op[w])

LEMMA EmptyTyped == Empty \in [Keys -> Rows]
  BY DEF Empty, Rows

LEMMA IdleOk == OpOk(Idle)
  BY EmptyTyped, ConstantsAssumption DEF OpOk, Idle, Op, Csr

LEMMA OpStep ==
  ASSUME UsersTyped, NEW w \in Workers, NEW o, OpOk(o), op' = [op EXCEPT ![w] = o]
  PROVE  op' \in [Workers -> Op] /\ \A v \in Workers : OpOk(op'[v])
  BY DEF UsersTyped, TypeOK, OpOk

\* An operation goes on to a step that asks for nothing new.
LEMMA GotoOk ==
  ASSUME NEW o, OpOk(o), o.pc # "idle", NEW pc, pc \notin {"approve", "store"},
         Route(o.kind, pc)
  PROVE  OpOk([o EXCEPT !.pc = pc])
  <1>1. [o EXCEPT !.pc = pc] \in Op
    BY DEF OpOk, Op, Route, CsrSteps, RegistrySteps
  <1>. QED
    BY <1>1 DEF OpOk, Op, Equipped

LEMMA GotoTyped ==
  ASSUME UsersTyped, NEW w \in Workers, op[w].pc # "idle",
         NEW pc, pc \notin {"approve", "store"}, Goto(w, pc), Route(op[w].kind, pc)
  PROVE  op' \in [Workers -> Op] /\ \A v \in Workers : OpOk(op'[v])
  <1>1. OpOk([op[w] EXCEPT !.pc = pc])
    BY GotoOk DEF UsersTyped
  <1>. QED
    BY <1>1, OpStep DEF Goto, UsersTyped, TypeOK

LEMMA EndTyped ==
  ASSUME UsersTyped, NEW w \in Workers, op' = [op EXCEPT ![w] = Idle]
  PROVE  op' \in [Workers -> Op] /\ \A v \in Workers : OpOk(op'[v])
  BY IdleOk, OpStep

LEMMA BeginTyped ==
  ASSUME UsersTyped, NEW w \in Workers, NEW o, OpOk(o), Begin(w, o)
  PROVE  UsersTyped'
  <1>1. op' \in [Workers -> Op] /\ \A v \in Workers : OpOk(op'[v])
    BY OpStep DEF Begin
  <1>. QED
    BY <1>1 DEF Begin, UsersTyped, TypeOK

LEMMA UsersTypeInit == Init => UsersTyped
  BY IdleOk, EmptyTyped DEF Init, UsersTyped, TypeOK, Csr, KeyPair, OpOk

\* The operations that begin.
Begins(w) ==
  \/ \E n \in Names : ImportCert(w, n)
  \/ \E c \in Clusters, n \in Names : CreateCert(w, c, n) \/ DeleteCert(w, c, n)
  \/ \E c \in Clusters, n \in Names, ns \in Namespaces :
       CreateSa(w, c, n, ns) \/ ImportSa(w, c, n, ns) \/ DeleteSa(w, c, n, ns)

\* They have read nothing yet.
Fresh(o) ==
  /\ o.before = Empty /\ o.gone = {} /\ o.missing = {} /\ o.cert = None
  /\ o.pc \in {"idle", "csr", "load", "dropcsr", "account", "dropaccount"}
  /\ o.pc = "load" => o.kind # "create_cert" /\ o.kind # "delete_sa"

LEMMA BeginsWith ==
  ASSUME NEW w, Begins(w)
  PROVE  \E o : Begin(w, o) /\ OpOk(o) /\ Fresh(o)
  <1>. USE IdleOk DEF OpOk, Op, Equipped, Route, Kinds, CsrSteps, RegistrySteps, Idle, Fresh
  <1>1. ASSUME NEW c \in Clusters, NEW n \in Names, CreateCert(w, c, n)
        PROVE  \E o : Begin(w, o) /\ OpOk(o) /\ Fresh(o)
    <2> DEFINE O(x) == [Idle EXCEPT !.kind = "create_cert", !.pc = "csr", !.c = c,
                                     !.name = n, !.key = x]
    <2>1. PICK key \in PrivateKeys : Begin(w, O(key))
      BY <1>1 DEF CreateCert
    <2>2. OpOk(O(key)) /\ Fresh(O(key))
      OBVIOUS
    <2>. QED
      BY <2>1, <2>2
  <1>2. ASSUME NEW c \in Clusters, NEW n \in Names, DeleteCert(w, c, n)
        PROVE  \E o : Begin(w, o) /\ OpOk(o) /\ Fresh(o)
    <2> DEFINE O(x) == [Idle EXCEPT !.kind = "delete_cert", !.c = c, !.name = n, !.pc = x]
    <2>1. PICK pc \in {"dropcsr", "load"} : Begin(w, O(pc))
      BY <1>2 DEF DeleteCert
    <2>2. OpOk(O(pc)) /\ Fresh(O(pc))
      OBVIOUS
    <2>. QED
      BY <2>1, <2>2
  <1>3. ASSUME NEW n \in Names, ImportCert(w, n)
        PROVE  \E o : Begin(w, o) /\ OpOk(o) /\ Fresh(o)
    <2> DEFINE O == [Idle EXCEPT !.kind = "import_cert", !.pc = "load", !.name = n]
    <2>1. Begin(w, O)
      BY <1>3 DEF ImportCert
    <2>2. OpOk(O) /\ Fresh(O)
      OBVIOUS
    <2>. QED
      BY <2>1, <2>2
  <1>4. ASSUME NEW c \in Clusters, NEW n \in Names, NEW ns \in Namespaces, CreateSa(w, c, n, ns)
        PROVE  \E o : Begin(w, o) /\ OpOk(o) /\ Fresh(o)
    <2> DEFINE O == [Idle EXCEPT !.kind = "create_sa", !.pc = "account", !.c = c, !.name = n,
                              !.ns = ns, !.asked = ns]
    <2>1. Begin(w, O)
      BY <1>4 DEF CreateSa
    <2>2. OpOk(O) /\ Fresh(O)
      OBVIOUS
    <2>. QED
      BY <2>1, <2>2
  <1>5. ASSUME NEW c \in Clusters, NEW n \in Names, NEW ns \in Namespaces, ImportSa(w, c, n, ns)
        PROVE  \E o : Begin(w, o) /\ OpOk(o) /\ Fresh(o)
    <2> DEFINE O == [Idle EXCEPT !.kind = "import_sa", !.pc = "load", !.c = c, !.name = n,
                              !.ns = ns, !.asked = ns]
    <2>1. Begin(w, O)
      BY <1>5 DEF ImportSa
    <2>2. OpOk(O) /\ Fresh(O)
      OBVIOUS
    <2>. QED
      BY <2>1, <2>2
  <1>6. ASSUME NEW c \in Clusters, NEW n \in Names, NEW asked \in Namespaces,
               DeleteSa(w, c, n, asked)
        PROVE  \E o : Begin(w, o) /\ OpOk(o) /\ Fresh(o)
    <2> DEFINE O(x) == [Idle EXCEPT !.kind = "delete_sa", !.pc = "dropaccount", !.c = c,
                                 !.name = n, !.ns = x, !.asked = asked]
    <2>1. PICK ns \in Namespaces : Begin(w, O(ns))
      BY <1>6 DEF DeleteSa, Resolved, Homonyms
    <2>2. OpOk(O(ns)) /\ Fresh(O(ns))
      OBVIOUS
    <2>. QED
      BY <2>1, <2>2
  <1>. QED
    BY <1>1, <1>2, <1>3, <1>4, <1>5, <1>6 DEF Begins

LEMMA BeginsFresh ==
  ASSUME UsersTyped, NEW w \in Workers, Begins(w)
  PROVE  /\ UsersTyped' /\ Fresh(op'[w]) /\ \A v \in Workers \ {w} : op'[v] = op[v]
         /\ UNCHANGED <<registry, csr, sa, vault, bindings, links>>
  <1>1. PICK o : Begin(w, o) /\ OpOk(o) /\ Fresh(o)
    BY BeginsWith
  <1>2. UsersTyped'
    BY <1>1, BeginTyped
  <1>. QED
    BY <1>1, <1>2 DEF Begin, UsersTyped, TypeOK

\* The objects on the clusters and in Vault.
LEMMA CsrTyped ==
  ASSUME TypeOK, NEW c, NEW n, NEW new \in Csr, csr' = [csr EXCEPT ![c][n] = new]
  PROVE  csr' \in [Clusters -> [Names -> Csr]]
  BY DEF TypeOK

LEMMA CertificatesTyped ==
  ASSUME UsersTyped, NEW w \in Workers, Certificates(w)
  PROVE  UsersTyped'
  <1> DEFINE o == op[w]
  <1>0. OpOk(o) /\ o \in Op
    BY DEF UsersTyped, OpOk
  <1> USE DEF UsersTyped
  <1>1. CASE SubmitCsr(w)
    <2>1. o.kind = "create_cert" /\ o.key \in PrivateKeys
      BY <1>0, <1>1 DEF SubmitCsr, OpOk, Equipped, Route, CsrSteps, RegistrySteps
    <2>2. op' \in [Workers -> Op] /\ \A v \in Workers : OpOk(op'[v])
      BY <1>1, <2>1, GotoTyped DEF SubmitCsr, Route, Kinds, CsrSteps
    <2>3. [key |-> o.key, state |-> "pending"] \in Csr
      BY <2>1 DEF Csr
    <2>. QED
      BY <1>1, <2>2, <2>3, CsrTyped DEF SubmitCsr, TypeOK
  <1>2. CASE CsrExists(w)
    <2>1. o.kind = "create_cert"
      BY <1>0, <1>2 DEF CsrExists, OpOk, Equipped, Route, CsrSteps, RegistrySteps
    <2>2. op' \in [Workers -> Op] /\ \A v \in Workers : OpOk(op'[v])
      BY <1>2, <2>1, GotoTyped DEF CsrExists, Route, Kinds, CsrSteps
    <2>. QED
      BY <1>2, <2>2 DEF CsrExists, TypeOK
  <1>3. CASE DeleteStaleCsr(w)
    <2>1. o.kind = "create_cert"
      BY <1>0, <1>3 DEF DeleteStaleCsr, OpOk, Equipped, Route, CsrSteps, RegistrySteps
    <2>2. op' \in [Workers -> Op] /\ \A v \in Workers : OpOk(op'[v])
      BY <1>3, <2>1, GotoTyped DEF DeleteStaleCsr, Route, Kinds, CsrSteps
    <2>. QED
      BY <1>3, <2>2, CsrTyped DEF DeleteStaleCsr, TypeOK, Csr
  <1>4. CASE ReadCsr(w)
    <2> DEFINE new == [o EXCEPT !.pc = "approve", !.seen = csr[o.c][o.name]]
    <2>1. o.kind = "create_cert" /\ o.name \in Names /\ o.c \in Clusters
      BY <1>0, <1>4 DEF ReadCsr, OpOk, Equipped, Route, CsrSteps, RegistrySteps
    <2>2. csr[o.c][o.name] \in Csr /\ csr[o.c][o.name] # None
      BY <1>4, <2>1 DEF ReadCsr, TypeOK
    <2>3. new \in Op
      BY <1>0, <2>2 DEF Op
    <2>4. OpOk(new)
      BY <1>0, <1>4, <2>1, <2>2, <2>3 DEF ReadCsr, OpOk, Op, Equipped, Route, CsrSteps,
         RegistrySteps
    <2>5. op' = [op EXCEPT ![w] = new]
      BY <1>4 DEF ReadCsr
    <2>6. op' \in [Workers -> Op] /\ \A v \in Workers : OpOk(op'[v])
      BY <2>4, <2>5, OpStep
    <2>. QED
      BY <1>4, <2>6 DEF ReadCsr, TypeOK
  <1>5. CASE ApproveCsr(w)
    <2> DEFINE new == [o EXCEPT !.pc = "wait", !.seen = None]
               now == csr[o.c][o.name]
    <2>1. o.kind = "create_cert" /\ o.name \in Names /\ o.c \in Clusters /\ now # None
      BY <1>0, <1>5 DEF ApproveCsr, OpOk, Equipped, Route, CsrSteps, RegistrySteps
    <2>2. new \in Op
      BY <1>0 DEF Op, Csr
    <2>3. OpOk(new)
      BY <1>0, <1>5, <2>1, <2>2 DEF ApproveCsr, OpOk, Op, Equipped, Route, CsrSteps, RegistrySteps
    <2>4. op' = [op EXCEPT ![w] = new]
      BY <1>5 DEF ApproveCsr
    <2>5. op' \in [Workers -> Op] /\ \A v \in Workers : OpOk(op'[v])
      BY <2>3, <2>4, OpStep
    <2>6. [now EXCEPT !.state = IF @ = "signed" THEN @ ELSE "approved"] \in Csr
      <3>1. now \in [key: PrivateKeys, state: {"pending", "approved", "signed"}]
        BY <2>1 DEF TypeOK, Csr
      <3>. QED
        BY <3>1 DEF Csr
    <2>7. csr' = [csr EXCEPT ![o.c][o.name] =
                    [now EXCEPT !.state = IF @ = "signed" THEN @ ELSE "approved"]]
      BY <1>5 DEF ApproveCsr
    <2>8. csr' \in [Clusters -> [Names -> Csr]]
      BY <2>6, <2>7, CsrTyped
    <2>. QED
      BY <1>5, <2>5, <2>8 DEF ApproveCsr, TypeOK
  <1>6. CASE GetCertificate(w)
    <2> DEFINE new == [o EXCEPT !.pc = "store", !.cert = csr[o.c][o.name].key]
    <2>1. o.kind = "create_cert" /\ o.name \in Names /\ o.c \in Clusters
      BY <1>0, <1>6 DEF GetCertificate, OpOk, Equipped, Route, CsrSteps, RegistrySteps
    <2>2. csr[o.c][o.name].key \in PrivateKeys
      BY <1>6, <2>1 DEF GetCertificate, TypeOK, Csr
    <2>3. new \in Op
      BY <1>0, <2>2 DEF Op
    <2>4. OpOk(new)
      BY <1>0, <1>6, <2>1, <2>2, <2>3 DEF GetCertificate, OpOk, Op, Equipped, Route, CsrSteps,
         RegistrySteps
    <2>5. op' = [op EXCEPT ![w] = new]
      BY <1>6 DEF GetCertificate
    <2>6. op' \in [Workers -> Op] /\ \A v \in Workers : OpOk(op'[v])
      BY <2>4, <2>5, OpStep
    <2>. QED
      BY <1>6, <2>6 DEF GetCertificate, TypeOK
  <1>7. CASE CsrRaises(w)
    BY <1>7, EndTyped DEF CsrRaises, TypeOK
  <1>8. CASE StoreKey(w) \/ StoreFails(w)
    <2>1. o.pc = "store" /\ o.kind = "create_cert" /\ o.key \in PrivateKeys /\ o.cert \in PrivateKeys
      BY <1>0, <1>8 DEF StoreKey, StoreFails, OpOk, Equipped, Route, CsrSteps, RegistrySteps
    <2>2. vault' \in [Names -> KeyPair]
      <3>1. [key |-> o.key, cert |-> o.cert] \in KeyPair
        BY <2>1 DEF KeyPair
      <3>. QED
        BY <1>8, <3>1 DEF StoreKey, StoreFails, TypeOK
    <2>3. op' \in [Workers -> Op] /\ \A v \in Workers : OpOk(op'[v])
      BY <1>8, <2>1, GotoTyped, EndTyped
         DEF StoreKey, StoreFails, Route, Kinds, CsrSteps, RegistrySteps
    <2>4. csr' \in [Clusters -> [Names -> Csr]]
      BY <1>8, CsrTyped DEF StoreKey, StoreFails, TypeOK, Csr
    <2>. QED
      BY <1>8, <2>2, <2>3, <2>4 DEF StoreKey, StoreFails, TypeOK
  <1>9. CASE DropCsr(w)
    <2>1. op[w].pc # "idle" /\ Route(op[w].kind, "load") /\ Goto(w, "load")
      BY <1>0, <1>9 DEF DropCsr, OpOk, Equipped, Route, Kinds, CsrSteps, RegistrySteps
    <2>2. op' \in [Workers -> Op] /\ \A v \in Workers : OpOk(op'[v])
      BY <2>1, GotoTyped
    <2>. QED
      BY <1>9, <2>2, CsrTyped DEF DropCsr, TypeOK, Csr
  <1>. QED
    BY <1>1, <1>2, <1>3, <1>4, <1>5, <1>6, <1>7, <1>8, <1>9 DEF Certificates

LEMMA ServiceAccountsTyped ==
  ASSUME UsersTyped, NEW w \in Workers, ServiceAccounts(w)
  PROVE  UsersTyped'
  <1> DEFINE o == op[w]
  <1>1. OpOk(o) /\ o.pc \in {"account", "token", "dropaccount", "droptoken"}
    BY DEF UsersTyped, ServiceAccounts, CreateAccount, CreateToken, DropAccount, DropToken
  <1>2. o.kind # "import_cert"
    BY <1>1 DEF OpOk, Equipped, Route, CsrSteps, RegistrySteps
  <1>3. PICK pc \in {"token", "droptoken", "load"} : Goto(w, pc) /\ Route(o.kind, pc)
    BY <1>1 DEF ServiceAccounts, CreateAccount, CreateToken, DropAccount, DropToken,
       OpOk, Equipped, Route, Kinds, CsrSteps, RegistrySteps
  <1>4. op' \in [Workers -> Op] /\ \A v \in Workers : OpOk(op'[v])
    BY <1>1, <1>3, GotoTyped
  <1>5. sa' \in [Clusters -> [Keys -> SUBSET {"account", "token"}]]
    <2>1. /\ sa[o.c][Own(o)] \in SUBSET {"account", "token"}
          /\ sa \in [Clusters -> [Keys -> SUBSET {"account", "token"}]]
      BY <1>1, <1>2 DEF UsersTyped, TypeOK, OpOk, Op, Equipped, Route, Own, Keys
    <2>2. PICK S \in SUBSET {"account", "token"} : sa' = [sa EXCEPT ![o.c][Own(o)] = S]
      BY <2>1 DEF ServiceAccounts, CreateAccount, CreateToken, DropAccount, DropToken, Own
    <2>. QED
      BY <2>1, <2>2
  <1>6. UNCHANGED <<registry, csr, vault, bindings, links>>
    BY DEF ServiceAccounts, CreateAccount, CreateToken, DropAccount, DropToken
  <1>. QED
    BY <1>4, <1>5, <1>6 DEF UsersTyped, TypeOK

LEMMA AfterTyped ==
  ASSUME NEW o, OpOk(o)
  PROVE  After(o) \in [Keys -> Rows]
  <1>1. NewRow(o) \in Rows
    BY DEF NewRow, Rows, CertRows
  <1>. QED
    BY <1>1 DEF After, OpOk, Op, Rows

LEMMA UpdateRegistryTyped ==
  ASSUME UsersTyped, NEW w \in Workers, UpdateRegistry(w)
  PROVE  UsersTyped'
  <1> DEFINE o == op[w]
  <1>0. OpOk(o) /\ o \in Op
    BY DEF UsersTyped, OpOk
  <1> USE DEF UsersTyped
  <1>1. CASE AlreadyExists(w) \/ CommitFails(w)
    BY <1>1, EndTyped DEF AlreadyExists, CommitFails, TypeOK
  <1>2. CASE LoadRegistry(w)
    <2> DEFINE new == [o EXCEPT !.pc = "get", !.before = registry]
    <2>1. new \in Op
      BY <1>0 DEF Op, TypeOK
    <2>2. OpOk(new)
      BY <1>0, <1>2, <2>1 DEF LoadRegistry, OpOk, Op, Equipped, Route, CsrSteps, RegistrySteps
    <2>3. op' = [op EXCEPT ![w] = new]
      BY <1>2 DEF LoadRegistry
    <2>4. op' \in [Workers -> Op] /\ \A v \in Workers : OpOk(op'[v])
      BY <2>2, <2>3, OpStep
    <2>. QED
      BY <1>2, <2>4 DEF LoadRegistry, TypeOK
  <1>3. CASE ReadRows(w)
    <2> DEFINE gone == {k \in Removed(o) : registry[k] # None}
               missing == {k \in Keys : After(o)[k] # None /\ registry[k] = None}
               new == [o EXCEPT !.pc = "commit", !.gone = gone, !.missing = missing]
    <2>1. gone \in SUBSET Keys
      BY <1>0, <1>3 DEF ReadRows, OpOk, Equipped, Route, Removed, Own, Keys, Op
    <2>2. missing \in SUBSET Keys
      OBVIOUS
    <2>3. new \in Op
      BY <1>0, <2>1, <2>2 DEF Op
    <2>4. OpOk(new)
      BY <1>0, <1>3, <2>3 DEF ReadRows, OpOk, Op, Equipped, Route, CsrSteps, RegistrySteps
    <2>5. op' = [op EXCEPT ![w] = new]
      BY <1>3 DEF ReadRows
    <2>6. op' \in [Workers -> Op] /\ \A v \in Workers : OpOk(op'[v])
      BY <2>4, <2>5, OpStep
    <2>. QED
      BY <1>3, <2>6 DEF ReadRows, TypeOK
  <1>4. CASE Commit(w)
    <2> DEFINE new == [o EXCEPT !.pc = "list", !.before = Empty, !.missing = {}, !.gone = {}]
    <2>1. new \in Op
      BY <1>0, EmptyTyped DEF Op
    <2>2. Deletes(o) => OpOk(new)
      BY <1>0, <1>4, <2>1 DEF Commit, Deletes, OpOk, Op, Equipped, Route, CsrSteps, RegistrySteps
    <2>3. op' = [op EXCEPT ![w] = IF Deletes(o) THEN new ELSE Idle]
      BY <1>4 DEF Commit
    <2>4. op' \in [Workers -> Op] /\ \A v \in Workers : OpOk(op'[v])
      BY <2>2, <2>3, OpStep, EndTyped
    <2>5. registry' \in [Keys -> Rows]
      BY <1>0, <1>4, AfterTyped DEF Commit, TypeOK
    <2>. QED
      BY <1>4, <2>4, <2>5 DEF Commit, TypeOK
  <1>. QED
    BY <1>1, <1>2, <1>3, <1>4 DEF UpdateRegistry

LEMMA CleanupTyped ==
  ASSUME UsersTyped, NEW w \in Workers, Cleanup(w)
  PROVE  UsersTyped'
  <1> DEFINE o == op[w]
  <1>0. OpOk(o) /\ o \in Op
    BY DEF UsersTyped, OpOk
  <1> USE DEF UsersTyped
  <1>1. CASE ListBindings(w)
    <2> DEFINE new == [o EXCEPT !.pc = "unbind", !.found = bindings[o.c] \cap Extending[o.name]]
    <2>1. o.kind # "import_cert" /\ o.c \in Clusters /\ o.name \in Names
      BY <1>0, <1>1 DEF ListBindings, OpOk, Equipped, Route, CsrSteps, RegistrySteps
    <2>2. bindings[o.c] \cap Extending[o.name] \in SUBSET Names
      BY <2>1 DEF TypeOK
    <2>3. new \in Op
      BY <1>0, <2>2 DEF Op
    <2>4. OpOk(new)
      BY <1>0, <1>1, <2>1, <2>3 DEF ListBindings, OpOk, Op, Equipped, Route, CsrSteps, RegistrySteps
    <2>5. op' = [op EXCEPT ![w] = new]
      BY <1>1 DEF ListBindings
    <2>6. op' \in [Workers -> Op] /\ \A v \in Workers : OpOk(op'[v])
      BY <2>4, <2>5, OpStep
    <2>. QED
      BY <1>1, <2>6 DEF ListBindings, TypeOK
  <1>2. ASSUME NEW m \in Names, DeleteBinding(w, m) PROVE UsersTyped'
    <2> DEFINE new == [o EXCEPT !.found = @ \ {m}]
    <2>1. new \in Op
      BY <1>0 DEF Op
    <2>2. OpOk(new)
      BY <1>0, <2>1 DEF OpOk, Op, Equipped
    <2>3. op' = [op EXCEPT ![w] = new]
      BY <1>2 DEF DeleteBinding
    <2>4. op' \in [Workers -> Op] /\ \A v \in Workers : OpOk(op'[v])
      BY <2>2, <2>3, OpStep
    <2>. QED
      BY <1>2, <2>4 DEF DeleteBinding, TypeOK
  <1>3. CASE ClearLinks(w)
    BY <1>3, EndTyped DEF ClearLinks, TypeOK
  <1>. QED
    BY <1>1, <1>2, <1>3 DEF Cleanup

Surroundings ==
  \/ \E c \in Clusters, n \in Names :
       AssignRole(c, n) \/ RevokeRole(c, n) \/ SignCsr(c, n) \/ CollectCsr(c, n)
  \/ \E c \in Clusters, k \in Keys : ForeignAccount(c, k)
  \/ \E a \in Accounts, k \in Keys : SetLink(a, k)
  \/ \E a \in Accounts : ClearLink(a)

LEMMA SurroundingsTyped ==
  ASSUME UsersTyped, Surroundings
  PROVE  UsersTyped'
  <1>1. op' = op /\ registry' = registry /\ vault' = vault
    BY DEF Surroundings, AssignRole, RevokeRole, SignCsr, CollectCsr, ForeignAccount,
           SetLink, ClearLink
  <1>2. csr' \in [Clusters -> [Names -> Csr]]
    <2>1. ASSUME NEW c \in Clusters, NEW n \in Names, SignCsr(c, n)
          PROVE  csr' \in [Clusters -> [Names -> Csr]]
      <3>1. [csr[c][n] EXCEPT !.state = "signed"] \in Csr
        BY <2>1 DEF SignCsr, UsersTyped, TypeOK, Csr
      <3>2. csr' = [csr EXCEPT ![c][n] = [csr[c][n] EXCEPT !.state = "signed"]]
        BY <2>1 DEF SignCsr
      <3>. QED
        BY <3>1, <3>2, CsrTyped DEF UsersTyped
    <2>2. ASSUME NEW c \in Clusters, NEW n \in Names, CollectCsr(c, n)
          PROVE  csr' \in [Clusters -> [Names -> Csr]]
      BY <2>2, CsrTyped DEF CollectCsr, UsersTyped, Csr
    <2>. QED
      BY <2>1, <2>2 DEF Surroundings, AssignRole, RevokeRole, ForeignAccount,
         SetLink, ClearLink, UsersTyped, TypeOK
  <1>3. sa' \in [Clusters -> [Keys -> SUBSET {"account", "token"}]]
    <2>1. ASSUME NEW c \in Clusters, NEW k \in Keys, ForeignAccount(c, k)
          PROVE  sa' \in [Clusters -> [Keys -> SUBSET {"account", "token"}]]
      BY <2>1 DEF ForeignAccount, UsersTyped, TypeOK
    <2>. QED
      BY <2>1 DEF Surroundings, AssignRole, RevokeRole, SignCsr, CollectCsr, SetLink, ClearLink,
         UsersTyped, TypeOK
  <1>4. bindings' \in [Clusters -> SUBSET Names]
    <2>1. ASSUME NEW c \in Clusters, NEW n \in Names, AssignRole(c, n) \/ RevokeRole(c, n)
          PROVE  bindings' \in [Clusters -> SUBSET Names]
      BY <2>1 DEF AssignRole, RevokeRole, UsersTyped, TypeOK
    <2>. QED
      BY <2>1 DEF Surroundings, SignCsr, CollectCsr, ForeignAccount, SetLink, ClearLink,
         UsersTyped, TypeOK
  <1>5. links' \in [Accounts -> Keys \cup {None}]
    BY DEF Surroundings, AssignRole, RevokeRole, SignCsr, CollectCsr, ForeignAccount,
           SetLink, ClearLink, UsersTyped, TypeOK
  <1>. QED
    BY <1>1, <1>2, <1>3, <1>4, <1>5 DEF UsersTyped, TypeOK

\* The steps by the part of the backend, or of its surroundings, that takes them.
LEMMA UsersNextCases ==
  ASSUME [Next]_vars
  PROVE  \/ \E w \in Workers : \/ Begins(w) \/ Certificates(w) \/ ServiceAccounts(w)
                               \/ UpdateRegistry(w) \/ Cleanup(w) \/ Abort(w)
         \/ Surroundings
         \/ UNCHANGED vars
  BY DEF Next, Begins, Surroundings

LEMMA UsersTypeNext == UsersTyped /\ [Next]_vars => UsersTyped'
  <1> SUFFICES ASSUME UsersTyped, [Next]_vars PROVE UsersTyped'
    OBVIOUS
  <1>1. ASSUME NEW w \in Workers, Begins(w) PROVE UsersTyped'
    BY <1>1, BeginsFresh
  <1>2. ASSUME NEW w \in Workers, Abort(w) PROVE UsersTyped'
    BY <1>2, EndTyped DEF Abort, UsersTyped, TypeOK
  <1>3. CASE UNCHANGED vars
    BY <1>3 DEF vars, UsersTyped, TypeOK
  <1>. QED
    BY <1>1, <1>2, <1>3, UsersNextCases, CertificatesTyped, ServiceAccountsTyped,
       UpdateRegistryTyped, CleanupTyped, SurroundingsTyped

\* ManagedUsers, core/registry.py and certificate_service.py: the registry, the
\* objects on the clusters and the operations keep their shape, for any names, clusters and
\* number of handlers; every step finds in its operation what it uses.
THEOREM UsersTypeCorrect == Spec => []TypeOK
  <1>1. UsersTyped => TypeOK
    BY DEF UsersTyped
  <1>. QED
    BY <1>1, UsersTypeInit, UsersTypeNext, PTL DEF Spec

-----------------------------------------------------------------------------
(* ManagedUsers: how operations go on. *)

LEMMA IdleFresh == Fresh(Idle)
  BY DEF Fresh, Idle

\* How the operation of w moves on: a new one, none any more, or the same with the next step.
Moves(w) ==
  /\ op[w].pc # "idle"
  /\ op'[w].kind = op[w].kind /\ op'[w].c = op[w].c /\ op'[w].key = op[w].key
  /\ op'[w].name = op[w].name /\ op'[w].ns = op[w].ns

\* A step outside _update_registry.
Elsewhere(w) ==
  /\ op'[w].before = op[w].before /\ op'[w].gone = op[w].gone
  /\ op'[w].pc \notin {"get", "commit"}

LEMMA CertificatesMove ==
  ASSUME UsersTyped, NEW w \in Workers, Certificates(w)
  PROVE  /\ Fresh(op'[w]) \/ (Moves(w) /\ Elsewhere(w))
         /\ op'[w].pc = "load" => StoreKey(w) \/ DropCsr(w)
         /\ \A v \in Workers \ {w} : op'[v] = op[v]
  <1>1. op[w] \in Op /\ op \in [Workers -> Op]
    BY DEF UsersTyped, TypeOK
  <1>2. CASE StoreFails(w) \/ CsrRaises(w)
    <2>1. op' = [op EXCEPT ![w] = Idle]
      BY <1>2 DEF StoreFails, CsrRaises
    <2>. QED
      BY <1>1, <2>1, IdleFresh DEF Idle
  <1>3. CASE SubmitCsr(w) \/ CsrExists(w) \/ DeleteStaleCsr(w) \/ StoreKey(w) \/ DropCsr(w)
    <2>1. PICK pc \in {"read", "delcsr", "recsr", "load"} :
            /\ op' = [op EXCEPT ![w] = [op[w] EXCEPT !.pc = pc]] /\ op[w].pc # "idle"
            /\ pc = "load" => StoreKey(w) \/ DropCsr(w)
      BY <1>3 DEF SubmitCsr, CsrExists, DeleteStaleCsr, StoreKey, DropCsr, Goto
    <2>. QED
      BY <1>1, <2>1 DEF Op, Moves, Elsewhere
  <1>4. CASE ReadCsr(w)
    <2>1. op' = [op EXCEPT ![w] = [op[w] EXCEPT !.pc = "approve",
                                                !.seen = csr[op[w].c][op[w].name]]]
      BY <1>4 DEF ReadCsr
    <2>. QED
      BY <1>1, <1>4, <2>1 DEF ReadCsr, Op, Moves, Elsewhere
  <1>5. CASE ApproveCsr(w)
    <2>1. op' = [op EXCEPT ![w] = [op[w] EXCEPT !.pc = "wait", !.seen = None]]
      BY <1>5 DEF ApproveCsr
    <2>. QED
      BY <1>1, <1>5, <2>1 DEF ApproveCsr, Op, Moves, Elsewhere
  <1>6. CASE GetCertificate(w)
    <2>1. op' = [op EXCEPT ![w] = [op[w] EXCEPT !.pc = "store",
                                                !.cert = csr[op[w].c][op[w].name].key]]
      BY <1>6 DEF GetCertificate
    <2>. QED
      BY <1>1, <1>6, <2>1 DEF GetCertificate, Op, Moves, Elsewhere
  <1>. QED
    BY <1>2, <1>3, <1>4, <1>5, <1>6 DEF Certificates

\* The other steps keep the certificate, too.
LEMMA OtherStepsMove ==
  ASSUME UsersTyped, NEW w \in Workers, ServiceAccounts(w) \/ Cleanup(w) \/ Abort(w)
  PROVE  /\ Fresh(op'[w]) \/ (Moves(w) /\ Elsewhere(w) /\ op'[w].cert = op[w].cert)
         /\ \A v \in Workers \ {w} : op'[v] = op[v]
  <1>1. op[w] \in Op /\ op \in [Workers -> Op]
    BY DEF UsersTyped, TypeOK
  <1>2. CASE ServiceAccounts(w)
    <2>1. PICK pc \in {"token", "droptoken", "load"} :
            op' = [op EXCEPT ![w] = [op[w] EXCEPT !.pc = pc]] /\ op[w].pc # "idle"
      BY <1>2 DEF ServiceAccounts, CreateAccount, CreateToken, DropAccount, DropToken, Goto
    <2>. QED
      BY <1>1, <2>1 DEF Op, Moves, Elsewhere
  <1>3. CASE ListBindings(w)
    <2>1. op' = [op EXCEPT ![w] = [op[w] EXCEPT !.pc = "unbind",
                   !.found = bindings[op[w].c] \cap Extending[op[w].name]]]
      BY <1>3 DEF ListBindings
    <2>. QED
      BY <1>1, <1>3, <2>1 DEF ListBindings, Op, Moves, Elsewhere
  <1>4. ASSUME NEW m, DeleteBinding(w, m)
        PROVE  /\ Moves(w) /\ Elsewhere(w) /\ op'[w].cert = op[w].cert
               /\ \A v \in Workers \ {w} : op'[v] = op[v]
    <2>1. op' = [op EXCEPT ![w] = [op[w] EXCEPT !.found = @ \ {m}]] /\ op[w].pc = "unbind"
      BY <1>4 DEF DeleteBinding
    <2>. QED
      BY <1>1, <2>1 DEF Op, Moves, Elsewhere
  <1>5. CASE ClearLinks(w) \/ Abort(w)
    BY <1>1, <1>5, IdleFresh DEF ClearLinks, Abort
  <1>. QED
    BY <1>2, <1>3, <1>4, <1>5 DEF Cleanup

LEMMA UpdateMoves ==
  ASSUME UsersTyped, NEW w \in Workers, UpdateRegistry(w)
  PROVE  /\ Fresh(op'[w]) \/ (Moves(w) /\ op'[w].cert = op[w].cert)
         /\ op'[w].pc \notin CsrSteps
         /\ op'[w].before \in {op[w].before, registry, Empty}
         /\ \A v \in Workers \ {w} : op'[v] = op[v]
  <1>1. op[w] \in Op /\ op \in [Workers -> Op]
    BY DEF UsersTyped, TypeOK
  <1>2. CASE AlreadyExists(w) \/ CommitFails(w)
    BY <1>1, <1>2, IdleFresh DEF AlreadyExists, CommitFails, Idle, CsrSteps
  <1>3. CASE LoadRegistry(w)
    <2>1. op' = [op EXCEPT ![w] = [op[w] EXCEPT !.pc = "get", !.before = registry]]
      BY <1>3 DEF LoadRegistry
    <2>. QED
      BY <1>1, <1>3, <2>1 DEF LoadRegistry, Op, Moves, CsrSteps
  <1>4. CASE ReadRows(w)
    <2>1. PICK gone, missing :
            op' = [op EXCEPT ![w] = [op[w] EXCEPT !.pc = "commit", !.gone = gone,
                                                  !.missing = missing]]
      BY <1>4 DEF ReadRows
    <2>. QED
      BY <1>1, <1>4, <2>1 DEF ReadRows, Op, Moves, CsrSteps
  <1>5. CASE Commit(w)
    <2>1. op' = [op EXCEPT ![w] = IF Deletes(op[w])
            THEN [op[w] EXCEPT !.pc = "list", !.before = Empty, !.missing = {}, !.gone = {}]
            ELSE Idle]
      BY <1>5 DEF Commit
    <2>2. CASE Deletes(op[w])
      BY <1>1, <1>5, <2>1, <2>2 DEF Commit, Op, Moves, CsrSteps
    <2>3. CASE ~Deletes(op[w])
      BY <1>1, <2>1, <2>3, IdleFresh DEF Idle, CsrSteps
    <2>. QED
      BY <2>2, <2>3
  <1>. QED
    BY <1>2, <1>3, <1>4, <1>5 DEF UpdateRegistry

LEMMA SurroundingsWait == Surroundings => op' = op /\ vault' = vault /\ registry' = registry
  BY DEF Surroundings, AssignRole, RevokeRole, SignCsr, CollectCsr, ForeignAccount,
     SetLink, ClearLink

\* What becomes of the operation of w in any step.
LEMMA Fates ==
  ASSUME UsersTyped, [Next]_vars, NEW w \in Workers
  PROVE  \/ op'[w] = op[w]
         \/ Fresh(op'[w])
         \/ Moves(w) /\ Elsewhere(w)
              /\ (Certificates(w) \/ ServiceAccounts(w) \/ Cleanup(w))
         \/ Moves(w) /\ UpdateRegistry(w)
  <1>1. ASSUME NEW v \in Workers, Begins(v) \/ Certificates(v) \/ ServiceAccounts(v)
                                  \/ UpdateRegistry(v) \/ Cleanup(v) \/ Abort(v)
        PROVE  v = w \/ op'[w] = op[w]
    BY <1>1, BeginsFresh, CertificatesMove, OtherStepsMove, UpdateMoves
  <1>2. CASE Begins(w) \/ Certificates(w) \/ ServiceAccounts(w)
               \/ UpdateRegistry(w) \/ Cleanup(w) \/ Abort(w)
    <2>1. CASE Abort(w)
      BY <2>1, IdleFresh DEF Abort, UsersTyped, TypeOK
    <2>. QED
      BY <1>2, <2>1, BeginsFresh, CertificatesMove, OtherStepsMove, UpdateMoves
  <1>. QED
    BY <1>1, <1>2, UsersNextCases, SurroundingsWait DEF vars

-----------------------------------------------------------------------------
(* ManagedUsers: the rows of others survive. *)

\* Only a commit touches the registry.
LEMMA RegistryStays ==
  ASSUME UsersTyped, [Next]_vars
  PROVE  registry' = registry \/ \E w \in Workers : Commit(w)
  <1>2. ASSUME NEW w, Certificates(w) PROVE registry' = registry
    BY <1>2 DEF Certificates, SubmitCsr, CsrExists, DeleteStaleCsr, ReadCsr, ApproveCsr,
       GetCertificate, CsrRaises, StoreKey, StoreFails, DropCsr
  <1>3. ASSUME NEW w, ServiceAccounts(w) \/ Cleanup(w) \/ Abort(w) PROVE registry' = registry
    BY <1>3 DEF ServiceAccounts, CreateAccount, CreateToken, DropAccount, DropToken,
       Cleanup, ListBindings, DeleteBinding, ClearLinks, Abort
  <1>4. ASSUME NEW w, UpdateRegistry(w), ~Commit(w) PROVE registry' = registry
    BY <1>4 DEF UpdateRegistry, AlreadyExists, LoadRegistry, ReadRows, CommitFails
  <1>. QED
    BY <1>2, <1>3, <1>4, BeginsFresh, SurroundingsWait, UsersNextCases DEF vars

\* A transaction deletes no row but that of its own user.
GoneInv == \A w \in Workers : op[w].gone \subseteq {Own(op[w])}

LEMMA GoneNext == UsersTyped /\ GoneInv /\ [Next]_vars => GoneInv'
  <1> SUFFICES ASSUME UsersTyped, GoneInv, [Next]_vars, NEW w \in Workers
               PROVE  op'[w].gone \subseteq {Own(op'[w])}
    BY DEF GoneInv, Own
  <1>0. op[w].gone \subseteq {Own(op[w])} /\ op[w] \in Op /\ op \in [Workers -> Op]
    BY DEF GoneInv, UsersTyped, TypeOK
  <1>1. CASE op'[w] = op[w] \/ Fresh(op'[w]) \/ (Moves(w) /\ Elsewhere(w))
    BY <1>0, <1>1 DEF Fresh, Moves, Elsewhere, Own
  <1>2. CASE Moves(w) /\ UpdateRegistry(w)
    <2>1. CASE AlreadyExists(w) \/ CommitFails(w)
      BY <1>0, <2>1 DEF AlreadyExists, CommitFails, Idle
    <2>2. CASE LoadRegistry(w)
      BY <1>0, <1>2, <2>2 DEF LoadRegistry, Moves, Own, Op
    <2>3. CASE ReadRows(w)
      <3>1. op'[w].gone = {k \in Removed(op[w]) : registry[k] # None}
        BY <1>0, <2>3 DEF ReadRows, Op
      <3>. QED
        BY <1>2, <3>1 DEF Removed, Moves, Own
    <2>4. CASE Commit(w)
      <3>1. op'[w].gone = {}
        BY <1>0, <2>4 DEF Commit, Idle, Op
      <3>. QED
        BY <3>1
    <2>. QED
      BY <1>2, <2>1, <2>2, <2>3, <2>4 DEF UpdateRegistry
  <1>. QED
    BY <1>1, <1>2, Fates

LEMMA CommitWrites ==
  ASSUME UsersTyped, GoneInv, NEW w \in Workers, Commit(w), NEW k \in Keys,
         registry[k] # None, registry'[k] # registry[k]
  PROVE  /\ k = Own(op[w]) /\ op[w].pc = "commit" /\ op'[w] # op[w]
         /\ registry'[k] = After(op[w])[k]
  <1>1. k \in Written(op[w]) /\ registry'[k] = After(op[w])[k] /\ ~Conflicts(op[w])
    BY DEF Commit, UsersTyped, TypeOK
  <1>2. k \notin op[w].missing
    BY <1>1 DEF Conflicts
  <1>3. k = Own(op[w])
    BY <1>1, <1>2 DEF Written, GoneInv
  <1>4. op[w].pc = "commit" /\ op'[w].pc \in {"list", "idle"}
    BY DEF Commit, Idle, UsersTyped, TypeOK, Op
  <1>. QED
    BY <1>1, <1>3, <1>4

\* core/registry.py:21-60: with any number of handlers rewriting the registry from
\* old copies, a row that is there changes or goes only through a transaction about that name.
THEOREM RowsOfOthersSurvive == Spec => RowsSurviveOthers
  <1> DEFINE Step == \A k \in Keys : registry[k] # None /\ registry'[k] # registry[k] =>
                \E w \in Workers : op[w].pc = "commit" /\ op'[w] # op[w] /\ op[w].name = k[1]
  <1>1. Init => UsersTyped /\ GoneInv
    BY UsersTypeInit DEF Init, GoneInv, Idle
  <1>2. UsersTyped /\ GoneInv /\ [Next]_vars => UsersTyped' /\ GoneInv'
    BY UsersTypeNext, GoneNext
  <1>3. UsersTyped /\ GoneInv /\ [Next]_vars => Step
    <2> SUFFICES ASSUME UsersTyped, GoneInv, [Next]_vars, NEW k \in Keys,
                        registry[k] # None, registry'[k] # registry[k]
                 PROVE  \E w \in Workers :
                          op[w].pc = "commit" /\ op'[w] # op[w] /\ op[w].name = k[1]
      OBVIOUS
    <2>1. PICK w \in Workers : Commit(w)
      BY RegistryStays
    <2>2. k = Own(op[w]) /\ op[w].pc = "commit" /\ op'[w] # op[w]
      BY <2>1, CommitWrites
    <2>. QED
      BY <2>2 DEF Own
  <1>. QED
    BY <1>1, <1>2, <1>3, PTL DEF Spec, RowsSurviveOthers

-----------------------------------------------------------------------------
(* ManagedUsers: the key of a registered user is in Vault. *)

\* Nothing is taken out of Vault.
LEMMA VaultGrows ==
  ASSUME UsersTyped, [Next]_vars, NEW n \in Names, vault[n] # None
  PROVE  vault'[n] # None
  <1>1. ASSUME NEW w \in Workers, StoreKey(w) \/ StoreFails(w) PROVE vault'[n] # None
    <2> DEFINE pair == [key |-> op[w].key, cert |-> op[w].cert]
    <2>1. op[w].key \in PrivateKeys /\ op[w].cert \in PrivateKeys
      BY <1>1 DEF StoreKey, StoreFails, UsersTyped, OpOk, Equipped, Route, CsrSteps, RegistrySteps
    <2>2. pair # None
      BY <2>1, NoneAssumption
    <2>3. vault' = vault \/ vault' = [vault EXCEPT ![op[w].name] = pair]
      BY <1>1 DEF StoreKey, StoreFails
    <2>. QED
      BY <2>2, <2>3 DEF UsersTyped, TypeOK
  <1>2. ASSUME NEW w, Certificates(w), ~StoreKey(w), ~StoreFails(w) PROVE vault' = vault
    BY <1>2 DEF Certificates, SubmitCsr, CsrExists, DeleteStaleCsr, ReadCsr, ApproveCsr,
       GetCertificate, CsrRaises, DropCsr
  <1>3. ASSUME NEW w, ServiceAccounts(w) \/ Cleanup(w) \/ Abort(w) PROVE vault' = vault
    BY <1>3 DEF ServiceAccounts, CreateAccount, CreateToken, DropAccount, DropToken,
       Cleanup, ListBindings, DeleteBinding, ClearLinks, Abort
  <1>4. ASSUME NEW w, UpdateRegistry(w) PROVE vault' = vault
    BY <1>4 DEF UpdateRegistry, AlreadyExists, LoadRegistry, ReadRows, CommitFails, Commit
  <1>. QED
    BY <1>1, <1>2, <1>3, <1>4, BeginsFresh, SurroundingsWait, UsersNextCases DEF vars

\* The key is there before the registry is updated, and for every row a transaction has read.
Listed(r, v) == \A n \in Names : r[<<n, Default>>] = "certificate" => v[n] # None

StoredInv ==
  /\ Listed(registry, vault)
  /\ \A w \in Workers :
       /\ Listed(op[w].before, vault)
       /\ op[w].kind = "create_cert" /\ op[w].pc \in RegistrySteps => vault[op[w].name] # None

LEMMA StoredNext == VaultEnabled /\ UsersTyped /\ StoredInv /\ [Next]_vars => StoredInv'
  <1> SUFFICES ASSUME VaultEnabled, UsersTyped, StoredInv, [Next]_vars PROVE StoredInv'
    OBVIOUS
  <1>1. ASSUME NEW r, Listed(r, vault) PROVE Listed(r, vault')
    BY <1>1, VaultGrows DEF Listed
  <1>2. Listed(registry', vault')
    <2>1. ASSUME NEW w \in Workers, Commit(w) PROVE Listed(registry', vault')
      <3> DEFINE o == op[w]
      <3> SUFFICES ASSUME NEW n \in Names, registry'[<<n, Default>>] = "certificate"
                   PROVE  vault[n] # None
        BY VaultGrows DEF Listed
      <3>1. <<n, Default>> \in Keys
        BY ConstantsAssumption DEF Keys
      <3>2. registry'[<<n, Default>>] \in {registry[<<n, Default>>], After(o)[<<n, Default>>]}
        BY <2>1, <3>1 DEF Commit
      <3>3. CASE registry[<<n, Default>>] = "certificate"
        BY <3>3 DEF StoredInv, Listed
      <3>4. CASE After(o)[<<n, Default>>] = "certificate"
        <4>1. CASE o.before[<<n, Default>>] = "certificate"
          BY <4>1 DEF StoredInv, Listed
        <4>2. CASE o.before[<<n, Default>>] # "certificate"
          <5>1. <<n, Default>> = Own(o) /\ NewRow(o) = "certificate"
            BY <3>1, <3>4, <4>2, NoneAssumption DEF CertRows, After
          <5>2. o.kind = "create_cert" /\ o.name = n
            BY <5>1 DEF NewRow, Own
          <5>3. o.pc \in RegistrySteps
            BY <2>1 DEF Commit, RegistrySteps
          <5>. QED
            BY <5>2, <5>3 DEF StoredInv
        <4>. QED
          BY <4>1, <4>2
      <3>. QED
        BY <3>2, <3>3, <3>4
    <2>2. CASE registry' = registry
      BY <1>1, <2>2 DEF StoredInv
    <2>. QED
      BY <2>1, <2>2, RegistryStays
  <1>3. ASSUME NEW w \in Workers PROVE Listed(op'[w].before, vault')
    <2>1. op[w] \in Op /\ op \in [Workers -> Op] /\ Listed(op[w].before, vault) /\ Listed(registry, vault)
      BY DEF UsersTyped, TypeOK, StoredInv
    <2>2. op'[w].before \in {op[w].before, registry, Empty}
      <3>1. CASE op'[w] = op[w] \/ Fresh(op'[w]) \/ (Moves(w) /\ Elsewhere(w))
        BY <3>1 DEF Fresh, Elsewhere
      <3>2. CASE UpdateRegistry(w)
        BY <3>2, UpdateMoves
      <3>. QED
        BY <3>1, <3>2, Fates
    <2>3. Listed(Empty, vault)
      BY ConstantsAssumption, NoneAssumption DEF CertRows, Listed, Empty, Keys
    <2>. QED
      BY <1>1, <2>1, <2>2, <2>3
  <1>4. ASSUME NEW w \in Workers, op'[w].kind = "create_cert", op'[w].pc \in RegistrySteps
        PROVE  vault'[op'[w].name] # None
    <2>0. op[w] \in Op /\ OpOk(op[w])
      BY DEF UsersTyped, TypeOK
    <2>1. CASE op'[w] = op[w] \/ (op[w].kind = "create_cert" /\ op[w].pc \in RegistrySteps
                                     /\ op[w].name = op'[w].name)
      <3>1. op'[w].name \in Names
        BY <2>0, <2>1, <1>4 DEF OpOk, Equipped, RegistrySteps
      <3>. QED
        BY <1>4, <2>1, <3>1, VaultGrows DEF StoredInv
    <2>2. CASE StoreKey(w)
      <3>1. op[w].pc = "store" /\ vault' = [vault EXCEPT ![op[w].name] =
                                              [key |-> op[w].key, cert |-> op[w].cert]]
        BY <2>2 DEF StoreKey
      <3>2. op[w].key \in PrivateKeys /\ op[w].cert \in PrivateKeys /\ op[w].name \in Names
        BY <2>0, <3>1 DEF OpOk, Equipped, Route, CsrSteps, RegistrySteps
      <3>3. op'[w].name = op[w].name
        BY <2>0, <2>2 DEF StoreKey, Goto, UsersTyped, TypeOK, Op
      <3>. QED
        BY <3>1, <3>2, <3>3, NoneAssumption DEF UsersTyped, TypeOK
    <2>3. CASE Fresh(op'[w])
      BY <1>4, <2>3 DEF Fresh, RegistrySteps
    <2>4. CASE Moves(w) /\ Elsewhere(w) /\ (Certificates(w) \/ ServiceAccounts(w) \/ Cleanup(w))
      <3>1. op[w].kind = "create_cert" /\ op[w].pc # "idle"
        BY <1>4, <2>4 DEF Moves
      <3>2. op[w].pc \in CsrSteps \cup RegistrySteps
        BY <2>0, <3>1 DEF OpOk, Equipped, Route
      <3>3. Certificates(w) /\ ~DropCsr(w)
        BY <2>4, <3>2 DEF ServiceAccounts, CreateAccount, CreateToken, DropAccount, DropToken,
           Cleanup, ListBindings, DeleteBinding, ClearLinks, DropCsr, CsrSteps, RegistrySteps
      <3>4. op'[w].pc = "load"
        BY <1>4, <2>4 DEF Elsewhere, RegistrySteps
      <3>5. StoreKey(w)
        BY <3>3, <3>4, CertificatesMove
      <3>. QED
        BY <2>2, <3>5
    <2>5. CASE Moves(w) /\ UpdateRegistry(w)
      <3>1. op[w].pc \in RegistrySteps
        BY <2>5 DEF UpdateRegistry, AlreadyExists, LoadRegistry, ReadRows, CommitFails, Commit,
           RegistrySteps
      <3>. QED
        BY <1>4, <2>1, <2>5, <3>1 DEF Moves
    <2>. QED
      BY <2>1, <2>2, <2>3, <2>4, <2>5, Fates
  <1>. QED
    BY <1>2, <1>3, <1>4 DEF StoredInv

\* services/certificate_service.py: create_user stores the key before it updates the registry,
\* so with Vault no registered certificate of ours lacks its key, whichever creations and
\* deletions of that name race each other, fail or die.
THEOREM KeysAreStored == Spec => []RegisteredKeyStored
  <1>1. CASE VaultEnabled
    <2>1. Init => UsersTyped /\ StoredInv
      <3>1. Listed(Empty, vault)
        BY ConstantsAssumption, NoneAssumption DEF CertRows, Listed, Empty, Keys
      <3>. QED
        BY <3>1, UsersTypeInit DEF Init, StoredInv, Idle, RegistrySteps
    <2>2. UsersTyped /\ StoredInv /\ [Next]_vars => UsersTyped' /\ StoredInv'
      BY <1>1, UsersTypeNext, StoredNext
    <2>3. StoredInv => RegisteredKeyStored
      BY DEF StoredInv, Listed, RegisteredKeyStored
    <2>. QED
      BY <2>1, <2>2, <2>3, PTL DEF Spec
  <1>2. CASE ~VaultEnabled
    <2>1. RegisteredKeyStored
      BY <1>2 DEF RegisteredKeyStored
    <2>. QED
      BY <2>1, PTL
  <1>. QED
    BY <1>1, <1>2

-----------------------------------------------------------------------------
(* ManagedUsers: one handler at a time. *)

\* The CSR under the name of a creation that has submitted its own is its own.
Matching(o, csrs) ==
  o.kind = "create_cert" =>
    /\ o.cert # None => o.cert = o.key
    /\ o.pc \in {"read", "approve", "wait"} =>
         csrs[o.c][o.name] = None \/ csrs[o.c][o.name].key = o.key

MatchInv == \A w \in Workers : Matching(op[w], csr)

\* Kubernetes changes the state of a CSR, or collects it; it never changes its key.
LEMMA SurroundingsKeepKeys ==
  ASSUME UsersTyped, Surroundings, NEW c \in Clusters, NEW n \in Names
  PROVE  csr'[c][n] = csr[c][n] \/ csr'[c][n] = None
           \/ (csr[c][n] # None /\ csr'[c][n].key = csr[c][n].key)
  <1>1. ASSUME NEW d \in Clusters, NEW m \in Names, SignCsr(d, m)
        PROVE  csr'[c][n] = csr[c][n] \/ (csr[c][n] # None /\ csr'[c][n].key = csr[c][n].key)
    <2>1. csr' = [csr EXCEPT ![d][m] = [csr[d][m] EXCEPT !.state = "signed"]] /\ csr[d][m] # None
      BY <1>1 DEF SignCsr
    <2>2. csr[d][m] \in [key: PrivateKeys, state: {"pending", "approved", "signed"}]
      BY <2>1 DEF UsersTyped, TypeOK, Csr
    <2>. QED
      BY <2>1, <2>2 DEF UsersTyped, TypeOK
  <1>2. ASSUME NEW d \in Clusters, NEW m \in Names, CollectCsr(d, m)
        PROVE  csr'[c][n] = csr[c][n] \/ csr'[c][n] = None
    BY <1>2 DEF CollectCsr, UsersTyped, TypeOK
  <1>. QED
    BY <1>1, <1>2 DEF Surroundings, AssignRole, RevokeRole, ForeignAccount, SetLink, ClearLink

LEMMA CertificatesMatch ==
  ASSUME UsersTyped, NEW w \in Workers, Certificates(w), Matching(op[w], csr)
  PROVE  Matching(op'[w], csr')
  <1> DEFINE o == op[w]
  <1>0. o \in Op /\ OpOk(o) /\ op \in [Workers -> Op]
    BY DEF UsersTyped, TypeOK
  <1>1. CASE SubmitCsr(w)
    <2>1. /\ op'[w] = [o EXCEPT !.pc = "read"]
          /\ csr' = [csr EXCEPT ![o.c][o.name] = [key |-> o.key, state |-> "pending"]]
      BY <1>0, <1>1 DEF SubmitCsr, Goto
    <2>2. o.c \in Clusters /\ o.name \in Names
      BY <1>0, <1>1 DEF SubmitCsr, OpOk, Equipped, Route, CsrSteps, RegistrySteps
    <2>3. csr'[o.c][o.name].key = o.key
      BY <2>1, <2>2 DEF UsersTyped, TypeOK
    <2>. QED
      BY <1>0, <2>1, <2>3 DEF Matching, Op
  <1>2. CASE CsrExists(w) \/ DeleteStaleCsr(w) \/ StoreKey(w) \/ DropCsr(w)
    <2>1. PICK pc \in {"delcsr", "recsr", "load"} : op'[w] = [o EXCEPT !.pc = pc]
      BY <1>0, <1>2 DEF CsrExists, DeleteStaleCsr, StoreKey, DropCsr, Goto
    <2>. QED
      BY <1>0, <2>1 DEF Matching, Op
  <1>3. CASE ReadCsr(w)
    <2>1. op'[w] = [o EXCEPT !.pc = "approve", !.seen = csr[o.c][o.name]] /\ csr' = csr
      BY <1>0, <1>3 DEF ReadCsr
    <2>. QED
      BY <1>0, <1>3, <2>1 DEF ReadCsr, Matching, Op
  <1>4. CASE ApproveCsr(w)
    <2> DEFINE now == csr[o.c][o.name]
    <2>1. /\ op'[w] = [o EXCEPT !.pc = "wait", !.seen = None] /\ o.pc = "approve"
          /\ csr' = [csr EXCEPT ![o.c][o.name] =
                       [now EXCEPT !.state = IF @ = "signed" THEN @ ELSE "approved"]]
      BY <1>0, <1>4 DEF ApproveCsr
    <2>2. o.c \in Clusters /\ o.name \in Names /\ now # None
      BY <1>0, <1>4 DEF ApproveCsr, OpOk, Equipped, Route, CsrSteps, RegistrySteps
    <2>3. now \in [key: PrivateKeys, state: {"pending", "approved", "signed"}]
      BY <2>2 DEF UsersTyped, TypeOK, Csr
    <2>4. csr'[o.c][o.name].key = now.key
      BY <2>1, <2>2, <2>3 DEF UsersTyped, TypeOK
    <2>. QED
      BY <1>0, <2>1, <2>2, <2>4 DEF Matching, Op
  <1>5. CASE GetCertificate(w)
    <2>1. op'[w] = [o EXCEPT !.pc = "store", !.cert = csr[o.c][o.name].key] /\ o.pc = "wait"
      BY <1>0, <1>5 DEF GetCertificate
    <2>2. csr[o.c][o.name] # None
      BY <1>5 DEF GetCertificate
    <2>. QED
      BY <1>0, <2>1, <2>2 DEF Matching, Op
  <1>6. CASE CsrRaises(w) \/ StoreFails(w)
    <2>1. op'[w] = Idle
      BY <1>0, <1>6 DEF CsrRaises, StoreFails
    <2>. QED
      BY <2>1 DEF Matching, Idle
  <1>. QED
    BY <1>1, <1>2, <1>3, <1>4, <1>5, <1>6 DEF Certificates

LEMMA MatchNext ==
  ASSUME \A v, w \in Workers : v = w
  PROVE  UsersTyped /\ MatchInv /\ [Next]_vars => MatchInv'
  <1> SUFFICES ASSUME UsersTyped, MatchInv, [Next]_vars, NEW w \in Workers
               PROVE  Matching(op'[w], csr')
    BY DEF MatchInv, Matching
  <1>0. op[w] \in Op /\ OpOk(op[w]) /\ Matching(op[w], csr)
    BY DEF UsersTyped, TypeOK, MatchInv
  <1>1. CASE Certificates(w)
    BY <1>0, <1>1, CertificatesMatch
  <1>2. CASE Surroundings
    <2>1. op' = op
      BY <1>2, SurroundingsWait
    <2>2. op[w].kind = "create_cert" /\ op[w].pc # "idle" =>
            op[w].c \in Clusters /\ op[w].name \in Names
      BY <1>0 DEF OpOk, Equipped
    <2>. QED
      BY <1>0, <1>2, <2>1, <2>2, SurroundingsKeepKeys DEF Matching
  <1>3. CASE Begins(w) \/ ServiceAccounts(w) \/ Cleanup(w) \/ Abort(w)
    <2>1. Fresh(op'[w]) \/ (Moves(w) /\ op'[w].cert = op[w].cert)
      BY <1>3, BeginsFresh, OtherStepsMove
    <2>2. CASE Fresh(op'[w])
      BY <2>2 DEF Fresh, Matching
    <2>3. CASE Moves(w) /\ op'[w].cert = op[w].cert /\ (ServiceAccounts(w) \/ Cleanup(w))
      <3>1. op[w].kind # "create_cert"
        BY <1>0, <2>3 DEF ServiceAccounts, CreateAccount, CreateToken, DropAccount, DropToken,
           Cleanup, ListBindings, DeleteBinding, ClearLinks,
           OpOk, Equipped, Route, CsrSteps, RegistrySteps
      <3>. QED
        BY <2>3, <3>1 DEF Moves, Matching
    <2>4. CASE Abort(w)
      BY <2>4 DEF Abort, Matching, Idle, UsersTyped, TypeOK
    <2>. QED
      BY <1>3, <2>1, <2>2, <2>3, <2>4, BeginsFresh
  <1>4. CASE UpdateRegistry(w)
    <2>1. op'[w].pc \notin {"read", "approve", "wait"}
      BY <1>4, UpdateMoves DEF CsrSteps
    <2>2. Fresh(op'[w]) \/ (Moves(w) /\ op'[w].cert = op[w].cert)
      BY <1>4, UpdateMoves
    <2>. QED
      BY <1>0, <2>1, <2>2 DEF Fresh, Moves, Matching
  <1>5. CASE UNCHANGED vars
    BY <1>0, <1>5 DEF vars
  <1>. QED
    BY <1>1, <1>2, <1>3, <1>4, <1>5, UsersNextCases

\* services/certificate_service.py, create_user and _wait_for_certificate: where one handler runs
\* at a time, whatever it and earlier handlers left behind and whenever Kubernetes signs or
\* collects, the certificate that is taken is that of the key that was generated.
THEOREM KeysMatchAlone ==
  ASSUME \A v, w \in Workers : v = w
  PROVE  Spec => []KeyMatchesCertificate
  <1>1. Init => UsersTyped /\ MatchInv
    BY UsersTypeInit DEF Init, MatchInv, Matching, Idle
  <1>2. UsersTyped /\ MatchInv /\ [Next]_vars => UsersTyped' /\ MatchInv'
    BY UsersTypeNext, MatchNext
  <1>3. MatchInv => KeyMatchesCertificate
    BY DEF MatchInv, Matching, KeyMatchesCertificate
  <1>. QED
    BY <1>1, <1>2, <1>3, PTL DEF Spec

\* What a handler that runs alone knows in _update_registry: a ServiceAccount's token is gone when
\* its user is to be forgotten, and the registry is still as it was loaded.
Knows(o, rows, accounts) ==
  /\ o.kind = "delete_sa" /\ o.pc \in RegistrySteps => "token" \notin accounts[o.c][Own(o)]
  /\ o.pc \in {"get", "commit"} =>
       /\ o.before = rows
       /\ o.kind \in {"create_cert", "import_cert"} => rows[Own(o)] = None
  /\ o.pc = "commit" => o.gone \subseteq Removed(o)

KnowsInv == \A w \in Workers : Knows(op[w], registry, sa)

LEMMA FreshKnows ==
  ASSUME NEW o, Fresh(o), NEW rows, NEW accounts
  PROVE  Knows(o, rows, accounts)
  BY DEF Fresh, Knows, RegistrySteps

LEMMA UpdateKnows ==
  ASSUME UsersTyped, NEW w \in Workers, UpdateRegistry(w), Knows(op[w], registry, sa)
  PROVE  Knows(op'[w], registry', sa')
  <1> DEFINE o == op[w]
  <1>0. o \in Op /\ OpOk(o) /\ op \in [Workers -> Op]
    BY DEF UsersTyped, TypeOK
  <1>1. CASE AlreadyExists(w) \/ CommitFails(w)
    <2>1. op'[w] = Idle
      BY <1>0, <1>1 DEF AlreadyExists, CommitFails
    <2>. QED
      BY <2>1, IdleFresh, FreshKnows
  <1>2. CASE LoadRegistry(w)
    <2> DEFINE new == [o EXCEPT !.pc = "get", !.before = registry]
    <2>1. op'[w] = new /\ o.pc = "load" /\ Admitted(o) /\ UNCHANGED <<registry, sa>>
      BY <1>0, <1>2 DEF LoadRegistry
    <2>2. new.kind = o.kind /\ new.c = o.c /\ Own(new) = Own(o) /\ new.pc = "get"
            /\ new.before = registry
      BY <1>0 DEF Op, Own
    <2>3. o.kind \in {"create_cert", "import_cert"} => registry[Own(o)] = None
      BY <1>0, <2>1 DEF Admitted, Own, Op
    <2>. QED
      BY <2>1, <2>2, <2>3 DEF Knows, RegistrySteps
  <1>3. CASE ReadRows(w)
    <2> DEFINE gone == {k \in Removed(o) : registry[k] # None}
               missing == {k \in Keys : After(o)[k] # None /\ registry[k] = None}
               new == [o EXCEPT !.pc = "commit", !.gone = gone, !.missing = missing]
    <2>1. op'[w] = new /\ o.pc = "get" /\ UNCHANGED <<registry, sa>>
      BY <1>0, <1>3 DEF ReadRows
    <2>2. new.kind = o.kind /\ new.c = o.c /\ Own(new) = Own(o) /\ new.pc = "commit"
            /\ new.before = o.before /\ new.gone = gone
      BY <1>0 DEF Op, Own
    <2>3. Removed(new) = Removed(o)
      BY <2>2 DEF Removed
    <2>. QED
      BY <2>1, <2>2, <2>3 DEF Knows, RegistrySteps
  <1>4. CASE Commit(w)
    <2>1. op'[w].pc \in {"list", "idle"}
      BY <1>0, <1>4 DEF Commit, Op, Idle
    <2>. QED
      BY <2>1 DEF Knows, RegistrySteps
  <1>. QED
    BY <1>1, <1>2, <1>3, <1>4 DEF UpdateRegistry

LEMMA AccountsKnow ==
  ASSUME UsersTyped, NEW w \in Workers, ServiceAccounts(w)
  PROVE  Knows(op'[w], registry', sa')
  <1> DEFINE o == op[w]
  <1>0. o \in Op /\ OpOk(o) /\ op \in [Workers -> Op]
    BY DEF UsersTyped, TypeOK
  <1>1. CASE CreateAccount(w) \/ DropAccount(w)
    <2>1. op'[w].pc \in {"token", "droptoken"}
      BY <1>0, <1>1 DEF CreateAccount, DropAccount, Goto, Op
    <2>. QED
      BY <2>1 DEF Knows, RegistrySteps
  <1>2. CASE CreateToken(w)
    <2>1. op'[w].pc = "load" /\ op'[w].kind = o.kind
      BY <1>0, <1>2 DEF CreateToken, Goto, Op
    <2>2. o.kind = "create_sa"
      BY <1>0, <1>2 DEF CreateToken, OpOk, Equipped, Route, CsrSteps, RegistrySteps
    <2>. QED
      BY <2>1, <2>2 DEF Knows
  <1>3. CASE DropToken(w)
    <2> DEFINE left == sa[o.c][<<o.name, o.ns>>] \ {"token"}
    <2>1. /\ op'[w].pc = "load" /\ op'[w].c = o.c /\ Own(op'[w]) = Own(o)
          /\ sa' = [sa EXCEPT ![o.c][Own(o)] = left]
      BY <1>0, <1>3 DEF DropToken, Goto, Op, Own
    <2>2. o.c \in Clusters /\ o.name \in Names /\ o.ns \in Namespaces
      BY <1>0, <1>3 DEF DropToken, OpOk, Op, Equipped, Route, CsrSteps, RegistrySteps
    <2>3. sa'[o.c][Own(o)] = left
      BY <2>1, <2>2 DEF UsersTyped, TypeOK, Own, Keys
    <2>. QED
      BY <2>1, <2>3 DEF Knows
  <1>. QED
    BY <1>1, <1>2, <1>3 DEF ServiceAccounts

\* Tokens are created by ClusterVision only.
LEMMA SurroundingsKnow ==
  ASSUME UsersTyped, Surroundings, NEW c \in Clusters, NEW k \in Keys, "token" \notin sa[c][k]
  PROVE  "token" \notin sa'[c][k]
  <1>1. ASSUME NEW d \in Clusters, NEW l \in Keys, ForeignAccount(d, l)
        PROVE  "token" \notin sa'[c][k]
    BY <1>1 DEF ForeignAccount, UsersTyped, TypeOK
  <1>. QED
    BY <1>1 DEF Surroundings, AssignRole, RevokeRole, SignCsr, CollectCsr, SetLink, ClearLink

LEMMA KnowsNext ==
  ASSUME \A v, w \in Workers : v = w
  PROVE  UsersTyped /\ KnowsInv /\ [Next]_vars => KnowsInv'
  <1> SUFFICES ASSUME UsersTyped, KnowsInv, [Next]_vars, NEW w \in Workers
               PROVE  Knows(op'[w], registry', sa')
    BY DEF KnowsInv
  <1>0. op[w] \in Op /\ OpOk(op[w]) /\ Knows(op[w], registry, sa)
    BY DEF UsersTyped, TypeOK, KnowsInv
  <1>1. CASE Certificates(w)
    <2>1. CASE Fresh(op'[w])
      BY <2>1, FreshKnows
    <2>2. CASE Moves(w) /\ Elsewhere(w)
      <3>1. op'[w].pc = "load" => op[w].kind # "delete_sa"
        BY <1>0, <1>1, CertificatesMove
           DEF StoreKey, DropCsr, OpOk, Equipped, Route, CsrSteps, RegistrySteps
      <3>. QED
        BY <2>2, <3>1 DEF Knows, Moves, Elsewhere, RegistrySteps
    <2>. QED
      BY <1>1, <2>1, <2>2, CertificatesMove
  <1>2. CASE Surroundings
    <2>1. op' = op /\ registry' = registry
      BY <1>2, SurroundingsWait
    <2>2. op[w].kind = "delete_sa" /\ op[w].pc \in RegistrySteps =>
            op[w].c \in Clusters /\ Own(op[w]) \in Keys
      BY <1>0 DEF OpOk, Op, Equipped, Own, Keys, RegistrySteps
    <2>. QED
      BY <1>0, <1>2, <2>1, <2>2, SurroundingsKnow DEF Knows
  <1>3. CASE Begins(w) \/ Abort(w)
    <2>1. Fresh(op'[w])
      BY <1>3, BeginsFresh, IdleFresh DEF Abort, UsersTyped, TypeOK
    <2>. QED
      BY <2>1, FreshKnows
  <1>4. CASE Cleanup(w)
    <2> DEFINE o == op[w]
    <2>1. op \in [Workers -> Op]
      BY DEF UsersTyped, TypeOK
    <2>2. ASSUME ListBindings(w) PROVE op'[w].pc \in {"unbind", "idle"}
      <3>1. op'[w] = [o EXCEPT !.pc = "unbind", !.found = bindings[o.c] \cap Extending[o.name]]
        BY <2>1, <2>2 DEF ListBindings
      <3>. QED
        BY <1>0, <3>1 DEF Op
    <2>3. ASSUME NEW m, DeleteBinding(w, m) PROVE op'[w].pc \in {"unbind", "idle"}
      <3>1. op'[w] = [o EXCEPT !.found = @ \ {m}] /\ o.pc = "unbind"
        BY <2>1, <2>3 DEF DeleteBinding
      <3>. QED
        BY <1>0, <3>1 DEF Op
    <2>4. ASSUME ClearLinks(w) PROVE op'[w].pc \in {"unbind", "idle"}
      BY <2>1, <2>4 DEF ClearLinks, Idle
    <2>5. op'[w].pc \in {"unbind", "idle"}
      BY <1>4, <2>2, <2>3, <2>4 DEF Cleanup
    <2>. QED
      BY <2>5 DEF Knows, RegistrySteps
  <1>5. CASE UNCHANGED vars
    BY <1>0, <1>5 DEF vars
  <1>. QED
    BY <1>0, <1>1, <1>2, <1>3, <1>4, <1>5, UpdateKnows, AccountsKnow, UsersNextCases

\* routers/users.py, delete_user, and service_account_service.py: where one handler runs at a
\* time, on one cluster, the registry never forgets a ServiceAccount user whose token still
\* exists, however often deletions fail or are cut short and whatever namespace they were given.
THEOREM ForgottenIsGoneAlone ==
  ASSUME \A v, w \in Workers : v = w, \A c, d \in Clusters : c = d
  PROVE  Spec => ForgottenOnlyWhenGone
  <1> DEFINE Step == \A k \in Keys :
                registry[k] = "service_account" /\ registry'[k] # "service_account" =>
                  \A c \in Clusters : "token" \notin sa[c][k]
             Inv == UsersTyped /\ GoneInv /\ KnowsInv
  <1>1. Init => Inv
    <2> SUFFICES ASSUME Init PROVE Inv
      OBVIOUS
    <2>1. \A w \in Workers : op[w] = Idle
      BY DEF Init
    <2>2. \A w \in Workers : op[w].gone = {}
      BY <2>1, IdleFresh DEF Fresh
    <2>3. GoneInv
      BY <2>2 DEF GoneInv
    <2>4. KnowsInv
      BY <2>1, IdleFresh, FreshKnows DEF KnowsInv
    <2>. QED
      BY <2>3, <2>4, UsersTypeInit
  <1>2. Inv /\ [Next]_vars => Inv'
    BY UsersTypeNext, GoneNext, KnowsNext
  <1>3. Inv /\ [Next]_vars => Step
    <2> SUFFICES ASSUME Inv, [Next]_vars, NEW k \in Keys, registry[k] = "service_account",
                        registry'[k] # "service_account", NEW c \in Clusters
                 PROVE  "token" \notin sa[c][k]
      OBVIOUS
    <2>1. registry[k] # None
      BY NoneAssumption
    <2>2. PICK w \in Workers : Commit(w)
      BY RegistryStays
    <2> DEFINE o == op[w]
    <2>3. k = Own(o) /\ o.pc = "commit" /\ registry'[k] = After(o)[k]
      BY <2>1, <2>2, CommitWrites
    <2>4. Knows(o, registry, sa) /\ OpOk(o)
      BY DEF KnowsInv, UsersTyped
    <2>5. o.before = registry
      BY <2>3, <2>4 DEF Knows
    <2>6. After(o)[k] = IF k \in Removed(o) THEN None
                        ELSE IF ~Deletes(o) THEN NewRow(o) ELSE registry[k]
      BY <2>3, <2>5 DEF After
    <2>7. CASE k \in Removed(o)
      <3>1. o.kind = "delete_sa"
        BY <2>3, <2>5, <2>7 DEF Removed, CertRows
      <3>. QED
        BY <2>3, <2>4, <3>1 DEF Knows, RegistrySteps, OpOk, Equipped
    <2>8. CASE k \notin Removed(o)
      <3>1. ~Deletes(o) /\ NewRow(o) # "service_account"
        BY <2>3, <2>6, <2>8
      <3>2. o.kind \in {"create_cert", "import_cert"}
        BY <3>1 DEF NewRow
      <3>. QED
        BY <2>1, <2>3, <2>4, <3>2 DEF Knows
    <2>. QED
      BY <2>7, <2>8
  <1>. QED
    BY <1>1, <1>2, <1>3, PTL DEF Spec, ForgottenOnlyWhenGone

-----------------------------------------------------------------------------
(* UserWizard: the actions, by what they do to the calls and the result. *)

Form1 ==
  \/ \E t \in Types : SetType(t)
  \/ \E n \in namespaces \cup {New} : SetNamespace(n)
  \/ \E n \in Namespaces \cup {None} : TypeNamespace(n)

Form2 ==
  \/ \E p \in {Role, None} : SetPreset(p)
  \/ \E s \in {"cluster", "namespace"} : SetScope(s)
  \/ \E n \in Namespaces : toggleNs(n) \/ addInlineNs(n)

Edit == Form1 \/ Form2 \/ handleStep1Next \/ Back

\* Every use of the form is seen by `touched', and leaves the calls and the result alone.
LEMMA EditIsUse ==
  ASSUME WizardTypeOK, Edit
  PROVE  /\ Use /\ step # 3 /\ step' # 3
         /\ UNCHANGED <<result, calls, namespaces, open>>
  <1>1. CASE Form1
    BY <1>1 DEF Form1, SetType, SetNamespace, TypeNamespace
  <1>2. CASE Form2
    BY <1>2 DEF Form2, SetPreset, SetScope, toggleNs, addInlineNs, NamespaceList, Step2
  <1>3. CASE handleStep1Next \/ Back
    BY <1>3 DEF handleStep1Next, Back, Step2
  <1>. QED
    BY <1>1, <1>2, <1>3 DEF Edit

LEMMA NextCases ==
  ASSUME [WizardNext]_wizardVars
  PROVE  \/ Edit \/ handleCreate \/ CreateOk \/ CreateFails
         \/ \E t \in Namespaces \cup {"cluster"} : AssignOk(t) \/ AssignFails(t)
         \/ AssignEnds \/ KubeconfigEnds \/ Confirm \/ handleClose \/ OpenWizard
         \/ \E ns \in SUBSET Namespaces : Refetch(ns)
         \/ UNCHANGED wizardVars
  BY DEF WizardNext, RoleCall, Edit, Form1, Form2

-----------------------------------------------------------------------------
(* UserWizard: types. *)

LEMMA ResetTyped ==
  ASSUME Reset
  PROVE  /\ step' \in 1..3 /\ userType' \in Types
         /\ saNamespace' \in Namespaces \cup {New} /\ newNamespace' \in Namespaces \cup {None}
         /\ preset' \in {Role, None} /\ scope' \in {"cluster", "namespace"}
         /\ selectedNs' \subseteq Namespaces /\ extraNs' \subseteq Namespaces
         /\ lastAutoAdded' \in Namespaces \cup {None}
         /\ credentials' = None
         /\ confirmed' \in BOOLEAN /\ kubeconfig' \in {"none", "pending", "ready"}
  <1>1. step' \in 1..3 /\ userType' \in Types
    BY DEF Reset, Types
  <1>2. /\ saNamespace' \in Namespaces \cup {New} /\ newNamespace' \in Namespaces \cup {None}
        /\ preset' \in {Role, None} /\ scope' \in {"cluster", "namespace"}
    BY DEF Reset
  <1>3. /\ selectedNs' \subseteq Namespaces /\ extraNs' \subseteq Namespaces
        /\ lastAutoAdded' \in Namespaces \cup {None}
    BY DEF Reset
  <1>4. /\ credentials' = None
        /\ confirmed' \in BOOLEAN /\ kubeconfig' \in {"none", "pending", "ready"}
    BY DEF Reset
  <1>. QED
    BY <1>1, <1>2, <1>3, <1>4

LEMMA WizardTypeInit == WizardInit => WizardTypeOK
  <1> SUFFICES ASSUME WizardInit PROVE WizardTypeOK
    OBVIOUS
  <1>1. step \in 1..3 /\ userType \in Types
    BY DEF WizardInit, Types
  <1>2. credentials = None /\ namespaces \subseteq Namespaces
    BY DEF WizardInit
  <1>. QED
    BY <1>1, <1>2 DEF WizardInit, WizardTypeOK

LEMMA EditTyped == WizardTypeOK /\ Edit => WizardTypeOK'
  <1> SUFFICES ASSUME WizardTypeOK, Edit PROVE WizardTypeOK'
    OBVIOUS
  <1>. USE DEF result, calls
  <1>1. UNCHANGED <<result, calls, namespaces, open>> /\ touched' \in BOOLEAN
    BY EditIsUse DEF Use, WizardTypeOK
  <1>2. CASE Form1
    <2>1. /\ userType' \in Types /\ saNamespace' \in Namespaces \cup {New}
          /\ newNamespace' \in Namespaces \cup {None}
          /\ UNCHANGED <<step, preset, scope, selectedNs, extraNs, lastAutoAdded>>
      BY <1>2 DEF Form1, SetType, SetNamespace, TypeNamespace, WizardTypeOK, permissions
    <2>. QED
      BY <1>1, <2>1 DEF WizardTypeOK
  <1>3. CASE Form2
    <2>1. /\ UNCHANGED <<step, userType, saNamespace, newNamespace, lastAutoAdded>>
          /\ preset' \in {Role, None} /\ scope' \in {"cluster", "namespace"}
      BY <1>3 DEF Form2, SetPreset, SetScope, toggleNs, addInlineNs, WizardTypeOK, identity
    <2>2. selectedNs' \subseteq Namespaces /\ extraNs' \subseteq Namespaces
      BY <1>3 DEF Form2, SetPreset, SetScope, toggleNs, addInlineNs, WizardTypeOK
    <2>. QED
      BY <1>1, <2>1, <2>2 DEF WizardTypeOK
  <1>4. CASE handleStep1Next
    <2>1. pendingNs \in Namespaces \cup {None}
      BY DEF pendingNs, WizardTypeOK
    <2>2. selectedNs' \subseteq Namespaces
      BY <1>4, <2>1 DEF handleStep1Next, Retick, WizardTypeOK
    <2>. QED
      BY <1>1, <1>4, <2>1, <2>2 DEF handleStep1Next, WizardTypeOK, identity
  <1>5. CASE Back
    BY <1>1, <1>5 DEF Back, WizardTypeOK, identity, permissions
  <1>. QED
    BY <1>2, <1>3, <1>4, <1>5 DEF Edit

\* Where the form and what it displays stay, the rest has to be looked at.
LEMMA FormStaysTyped ==
  ASSUME WizardTypeOK, UNCHANGED <<step, identity, permissions, result>>,
         open' \in BOOLEAN, touched' \in BOOLEAN, namespaces' \subseteq Namespaces,
         create' \in Types \cup {None}, roles' \in Assignments \cup {None}
  PROVE  WizardTypeOK'
  <1>1. UNCHANGED <<step, userType, saNamespace, newNamespace, preset, scope, selectedNs,
                    extraNs, lastAutoAdded, credentials, confirmed, kubeconfig>>
    BY DEF identity, permissions, result
  <1>2. credentials' # None /\ credentials'.inline => credentials'.type = "certificate"
    BY <1>1, Zenon DEF WizardTypeOK
  <1>3. /\ step' \in 1..3
        /\ userType' \in Types
        /\ saNamespace' \in Namespaces \cup {New} /\ newNamespace' \in Namespaces \cup {None}
        /\ preset' \in {Role, None} /\ scope' \in {"cluster", "namespace"}
        /\ selectedNs' \subseteq Namespaces /\ extraNs' \subseteq Namespaces
        /\ lastAutoAdded' \in Namespaces \cup {None}
        /\ credentials' \in Credentials \cup {None}
        /\ confirmed' \in BOOLEAN /\ kubeconfig' \in {"none", "pending", "ready"}
    BY <1>1 DEF WizardTypeOK
  <1>. QED
    BY <1>2, <1>3 DEF WizardTypeOK

LEMMA WizardTypeNext == WizardTypeOK /\ [WizardNext]_wizardVars => WizardTypeOK'
  <1> SUFFICES ASSUME WizardTypeOK, [WizardNext]_wizardVars PROVE WizardTypeOK'
    OBVIOUS
  <1>. USE DEF identity, permissions, result, calls
  <1>1. CASE Edit
    BY <1>1, EditTyped
  <1>2. CASE handleCreate
    BY <1>2 DEF handleCreate, WizardTypeOK
  <1>3. CASE CreateOk
    <2>1. /\ credentials' \in Credentials
          /\ credentials'.inline => credentials'.type = "certificate"
      BY <1>3 DEF CreateOk, WizardTypeOK, Credentials
    <2>2. Targets \subseteq Namespaces \cup {"cluster"}
      BY DEF Targets, WizardTypeOK
    <2>3. roles' \in Assignments \cup {None}
      BY <1>3, <2>2 DEF CreateOk, Assign, WizardTypeOK, Assignments
    <2>4. step' \in 1..3 /\ kubeconfig' \in {"none", "pending", "ready"}
      BY <1>3 DEF CreateOk, WizardTypeOK
    <2>. QED
      BY <1>3, <2>1, <2>3, <2>4 DEF CreateOk, WizardTypeOK
  <1>4. CASE CreateFails
    <2>1. UNCHANGED <<open, step, identity, permissions, result, roles, namespaces>>
          /\ create' = None /\ touched' = FALSE
      BY <1>4 DEF CreateFails
    <2>. QED
      BY <2>1, FormStaysTyped DEF WizardTypeOK
  <1>5. ASSUME NEW t \in Namespaces \cup {"cluster"}, AssignOk(t) PROVE WizardTypeOK'
    <2>1. roles' \in Assignments
      BY <1>5 DEF AssignOk, WizardTypeOK, Assignments
    <2>. QED
      BY <1>5, <2>1 DEF AssignOk, WizardTypeOK
  <1>6. ASSUME NEW t \in Namespaces \cup {"cluster"}, AssignFails(t) PROVE WizardTypeOK'
    <2>1. roles' \in Assignments
      BY <1>6 DEF AssignFails, WizardTypeOK, Assignments
    <2>2. step' \in 1..3 /\ kubeconfig' \in {"none", "pending", "ready"}
      BY <1>6 DEF AssignFails, WizardTypeOK
    <2>. QED
      BY <1>6, <2>1, <2>2 DEF AssignFails, WizardTypeOK
  <1>7. CASE AssignEnds
    <2>1. roles' \in Assignments
      BY <1>7 DEF AssignEnds, Assigning, WizardTypeOK, Assignments
    <2>. QED
      BY <1>7, <2>1 DEF AssignEnds, WizardTypeOK
  <1>8. CASE KubeconfigEnds
    BY <1>8 DEF KubeconfigEnds, WizardTypeOK
  <1>9. CASE Confirm
    BY <1>9 DEF Confirm, WizardTypeOK
  <1>10. CASE handleClose
    <2>1. touched' \in BOOLEAN
      BY <1>10 DEF handleClose, Busy, Assigning
    <2>. QED
      BY <1>10, <2>1, ResetTyped DEF handleClose, WizardTypeOK
  <1>11. CASE OpenWizard \/ (\E ns \in SUBSET Namespaces : Refetch(ns)) \/ UNCHANGED wizardVars
    <2>1. /\ UNCHANGED <<step, touched, identity, permissions, result, calls>>
          /\ open' \in {TRUE, open} /\ (namespaces' = namespaces \/ namespaces' \subseteq Namespaces)
      BY <1>11 DEF OpenWizard, Refetch, wizardVars
    <2>. QED
      BY <2>1, FormStaysTyped DEF WizardTypeOK, calls
  <1>. QED
    BY <1>1, <1>2, <1>3, <1>4, <1>5, <1>6, <1>7, <1>8, <1>9, <1>10, <1>11, NextCases

\* CreateUserWizard.tsx:52-82: the states of the three steps keep their shape, whichever
\* answer comes and whichever field is changed meanwhile.
THEOREM WizardTypeCorrect == WizardSpec => []WizardTypeOK
  <1>. QED
    BY WizardTypeInit, WizardTypeNext, PTL DEF WizardSpec

-----------------------------------------------------------------------------
(* UserWizard: the ticks. *)

\* In step 2 what step 1 ticked last is the name of the new namespace as it stands.
TickedInv == step = 2 => lastAutoAdded = pendingNs

\* What OnlyRenamingHidesTicks says of a step, if it ends as TickedInv says.
Hides == Unaccounted' \subseteq Unaccounted \cup Doomed
           \cup (IF step = 1 /\ step' = 2 THEN {lastAutoAdded} ELSE {})

LEMMA TicksNext ==
  WizardTypeOK /\ TickedInv /\ [WizardNext]_wizardVars => TickedInv' /\ Hides
  <1> SUFFICES ASSUME WizardTypeOK, TickedInv, [WizardNext]_wizardVars
               PROVE  TickedInv' /\ Hides
    OBVIOUS
  <1>. USE DEF identity, permissions
  <1>1. CASE Form1
    <2>1. step' = 1 /\ UNCHANGED <<selectedNs, namespaces, extraNs, lastAutoAdded>>
      BY <1>1 DEF Form1, SetType, SetNamespace, TypeNamespace
    <2>. QED
      BY <2>1 DEF TickedInv, Hides, Unaccounted
  <1>2. CASE Form2
    <2>1. step = 2 /\ UNCHANGED <<step, saNamespace, newNamespace, lastAutoAdded, namespaces>>
      BY <1>2, EditIsUse DEF Edit, Form2, SetPreset, SetScope, toggleNs, addInlineNs,
         NamespaceList, Step2
    <2>2. /\ selectedNs' \subseteq selectedNs \cup Visible \cup extraNs'
          /\ extraNs \subseteq extraNs'
      BY <1>2 DEF Form2, SetPreset, SetScope, toggleNs, addInlineNs
    <2>3. lastAutoAdded = pendingNs
      BY <2>1 DEF TickedInv
    <2>4. Hides
      BY <2>1, <2>2, <2>3 DEF Hides, Unaccounted, Visible
    <2>. QED
      BY <2>1, <2>3, <2>4 DEF TickedInv, pendingNs
  <1>3. CASE handleStep1Next
    <2>1. pendingNs' = pendingNs
      BY <1>3 DEF handleStep1Next, pendingNs
    <2>2. PICK last \in {lastAutoAdded, pendingNs} : selectedNs' = Retick(selectedNs, last)
      BY <1>3 DEF handleStep1Next
    <2>3. /\ step = 1 /\ step' = 2 /\ lastAutoAdded' = pendingNs
          /\ UNCHANGED <<namespaces, extraNs>>
      BY <1>3 DEF handleStep1Next
    <2>4. Hides
      BY <2>2, <2>3 DEF Hides, Unaccounted, Retick
    <2>. QED
      BY <2>1, <2>3, <2>4 DEF TickedInv
  <1>4. CASE handleClose
    BY <1>4 DEF handleClose, Reset, TickedInv, Hides, Unaccounted
  <1>5. ASSUME NEW ns \in SUBSET Namespaces, Refetch(ns) PROVE TickedInv' /\ Hides
    BY <1>5 DEF Refetch, TickedInv, pendingNs, Hides, Unaccounted
  <1>6. ASSUME UNCHANGED <<identity, permissions, namespaces>>, step' = step \/ step' # 2
        PROVE  TickedInv' /\ Hides
    BY <1>6 DEF TickedInv, pendingNs, Hides, Unaccounted
  <1>7. ASSUME \/ Back \/ handleCreate \/ CreateOk \/ CreateFails
               \/ \E t \in Namespaces \cup {"cluster"} : AssignOk(t) \/ AssignFails(t)
               \/ AssignEnds \/ KubeconfigEnds \/ Confirm \/ OpenWizard \/ UNCHANGED wizardVars
        PROVE  UNCHANGED <<identity, permissions, namespaces>> /\ (step' = step \/ step' # 2)
    <2>1. CASE Back \/ handleCreate \/ CreateOk \/ CreateFails
      BY <2>1 DEF Back, handleCreate, CreateOk, CreateFails
    <2>2. ASSUME NEW t \in Namespaces \cup {"cluster"}, AssignOk(t) \/ AssignFails(t)
          PROVE  UNCHANGED <<identity, permissions, namespaces>> /\ (step' = step \/ step' # 2)
      BY <2>2 DEF AssignOk, AssignFails
    <2>3. CASE AssignEnds \/ KubeconfigEnds \/ Confirm \/ OpenWizard \/ UNCHANGED wizardVars
      BY <2>3 DEF AssignEnds, KubeconfigEnds, Confirm, OpenWizard, wizardVars
    <2>. QED
      BY <1>7, <2>1, <2>2, <2>3
  <1>. QED
    BY <1>1, <1>2, <1>3, <1>4, <1>5, <1>6, <1>7, NextCases DEF Edit

\* CreateUserWizard.tsx:93-96, 138-148, 172-184: for any names, only renaming or dropping
\* the new namespace in step 1 hides a tick, and only that of the name it had last.
THEOREM OnlyRenamingEverHidesTicks == WizardSpec => OnlyRenamingHidesTicks
  <1>1. WizardInit => WizardTypeOK /\ TickedInv
    BY WizardTypeInit DEF WizardInit, TickedInv
  <1>2. WizardTypeOK /\ TickedInv /\ [WizardNext]_wizardVars => WizardTypeOK' /\ TickedInv'
    BY WizardTypeNext, TicksNext
  <1>3. WizardTypeOK /\ TickedInv /\ WizardTypeOK' /\ TickedInv' /\ [WizardNext]_wizardVars
          => [/\ Unaccounted' \subseteq Unaccounted \cup Doomed
                    \cup (IF step = 1 /\ step' = 2 THEN {lastAutoAdded} ELSE {})
              /\ step' = 2 => selectedNs' \ Visible' = Unaccounted']_wizardVars
    <2> SUFFICES ASSUME WizardTypeOK, TickedInv, WizardTypeOK', TickedInv', [WizardNext]_wizardVars
                 PROVE  /\ Hides
                        /\ step' = 2 => selectedNs' \ Visible' = Unaccounted'
      BY DEF Hides
    <2>1. Hides
      BY TicksNext
    <2>2. ASSUME step' = 2 PROVE selectedNs' \ Visible' = Unaccounted'
      <3>1. None \notin selectedNs'
        BY WizardAssumption DEF WizardTypeOK
      <3>. QED
        BY <2>2, <3>1 DEF TickedInv, Visible, Unaccounted
    <2>. QED
      BY <2>1, <2>2
  <1>. QED
    BY <1>1, <1>2, <1>3, PTL DEF WizardSpec, OnlyRenamingHidesTicks

-----------------------------------------------------------------------------
(* UserWizard: what was ordered, and the key. *)

\* One user at a time: while one is created, nothing of an earlier one is left; its
\* credentials are there from the answer until the wizard is closed in step 3, or over.
OneAtATime ==
  /\ create # None => credentials = None /\ roles = None /\ step # 3
  /\ credentials # None => step = 3 \/ Assigning
  /\ roles # None /\ roles.pc = "done" => roles.left = {}

RolesAsShown ==
  IF preset = None THEN roles = None
  ELSE roles # None /\ roles.as = userType /\ (roles.pc = "failed" \/ roles.got = Targets)

\* As long as the form is left alone, it says what was ordered.
Ordered ==
  ~touched =>
    /\ create # None => create = userType
    /\ credentials # None => credentials.type = userType
    /\ Assigning => /\ credentials # None /\ preset # None
                    /\ roles.as = userType /\ roles.left \cup roles.got = Targets
    /\ step = 3 => credentials # None /\ RolesAsShown

WizardInv == OneAtATime /\ Ordered

\* The form: either nothing is under way and nothing is there yet, or it is touched.
LEMMA EditIsFine == WizardTypeOK /\ WizardInv /\ Edit => WizardInv'
  <1> SUFFICES ASSUME WizardTypeOK, WizardInv, Edit PROVE WizardInv'
    OBVIOUS
  <1>1. /\ touched' = (touched \/ Busy) /\ step # 3 /\ step' # 3
        /\ UNCHANGED <<credentials, create, roles>>
    BY EditIsUse DEF Use, result, calls
  <1>2. OneAtATime'
    BY <1>1 DEF WizardInv, OneAtATime, Assigning
  <1>3. ~touched' => create' = None /\ ~Assigning' /\ credentials' = None
    BY <1>1 DEF WizardInv, OneAtATime, Assigning, Busy, WizardTypeOK
  <1>. QED
    BY <1>1, <1>2, <1>3 DEF WizardInv, Ordered

LEMMA CreateOkIsFine == WizardTypeOK /\ WizardInv /\ CreateOk => WizardInv'
  <1> SUFFICES ASSUME WizardTypeOK, WizardInv, CreateOk PROVE WizardInv'
    OBVIOUS
  <1>. USE DEF identity, permissions, result, calls
  <1>1. /\ create # None /\ create' = None /\ roles = None
        /\ credentials' \in Credentials /\ credentials'.type = create
    BY DEF CreateOk, WizardInv, OneAtATime, WizardTypeOK, Credentials
  <1>2. UNCHANGED <<touched, userType, preset, Targets>>
    BY DEF CreateOk, Targets
  <1>3. CASE preset = None
    <2>1. roles' = None /\ step' = 3
      BY <1>3 DEF CreateOk, Assign
    <2>. QED
      BY <1>1, <1>2, <1>3, <2>1, NoRecordAssumption
         DEF WizardInv, OneAtATime, Ordered, Assigning, RolesAsShown
  <1>4. CASE preset # None
    <2>1. /\ roles' = [as |-> userType, left |-> Targets, got |-> {}, pc |-> "assigning"]
          /\ Targets \subseteq Namespaces \cup {"cluster"}
      BY <1>4 DEF CreateOk, Assign, Targets, WizardTypeOK
    <2>2. roles' \in Assignments
      BY <2>1 DEF Assignments, WizardTypeOK
    <2>3. roles' # None
      BY <2>2, NoRecordAssumption
    <2>4. step' = step /\ step # 3
      BY <1>1, <2>3 DEF CreateOk, WizardInv, OneAtATime
    <2>. QED
      BY <1>1, <1>2, <1>4, <2>1, <2>3, <2>4, NoRecordAssumption
         DEF WizardInv, OneAtATime, Ordered, Assigning, Targets
  <1>. QED
    BY <1>3, <1>4

LEMMA AssignIsFine ==
  ASSUME WizardTypeOK, WizardInv, NEW t \in Namespaces \cup {"cluster"},
         AssignOk(t) \/ AssignFails(t)
  PROVE  WizardInv'
  <1>. USE DEF identity, permissions, result, calls
  <1>1. /\ roles \in Assignments /\ t \in roles.left /\ create = None /\ create' = None
        /\ roles.pc # "done"
    BY DEF AssignOk, AssignFails, WizardInv, OneAtATime, WizardTypeOK
  <1>2. UNCHANGED <<touched, userType, preset, scope, selectedNs, Targets, credentials>>
    BY DEF AssignOk, AssignFails, Targets
  <1>3. CASE AssignOk(t)
    <2>1. /\ roles' \in Assignments /\ roles'.as = roles.as /\ roles'.pc = roles.pc
          /\ roles'.left \cup roles'.got = roles.left \cup roles.got /\ step' = step
      BY <1>1, <1>3 DEF AssignOk, Assignments
    <2>2. roles # None /\ roles' # None
      BY <1>1, <2>1, NoRecordAssumption
    <2>3. ~touched /\ step = 3 => roles.pc = "failed" \/ Assigning
      BY <1>1, <2>2 DEF Assigning, Assignments
    <2>4. CASE Assigning
      <3>1. Assigning' /\ (roles.pc # "failed")
        BY <2>1, <2>2, <2>4 DEF Assigning
      <3>2. ~touched => step # 3 \/ roles.got = Targets
        BY <2>4, <3>1, <2>2 DEF WizardInv, Ordered, RolesAsShown
      <3>3. ~touched /\ step = 3 => roles'.got = Targets
        BY <1>1, <1>2, <1>3, <2>4, <3>2, <2>2 DEF AssignOk, Assignments, WizardInv, Ordered
      <3>. QED
        BY <1>1, <1>2, <2>1, <2>2, <2>4, <3>1, <3>2, <3>3
           DEF WizardInv, OneAtATime, Ordered, RolesAsShown
    <2>5. CASE ~Assigning
      <3>1. ~Assigning' /\ roles'.pc = "failed" /\ roles.pc = "failed"
        BY <1>1, <2>1, <2>2, <2>5 DEF Assigning, Assignments
      <3>. QED
        BY <1>1, <1>2, <2>1, <2>2, <2>5, <3>1
           DEF WizardInv, OneAtATime, Ordered, RolesAsShown
    <2>. QED
      BY <2>4, <2>5
  <1>4. CASE AssignFails(t)
    <2>1. roles' \in Assignments /\ roles'.as = roles.as /\ roles'.pc = "failed"
      BY <1>1, <1>4 DEF AssignFails, Assignments
    <2>2. roles # None /\ roles' # None /\ ~Assigning'
      BY <1>1, <2>1, NoRecordAssumption DEF Assigning
    <2>3. IF Assigning THEN step' = 3 ELSE step' = step
      BY <1>4 DEF AssignFails
    <2>. QED
      BY <1>1, <1>2, <2>1, <2>2, <2>3 DEF WizardInv, OneAtATime, Ordered, RolesAsShown
  <1>. QED
    BY <1>3, <1>4

LEMMA WizardInvNext == WizardTypeOK /\ WizardInv /\ [WizardNext]_wizardVars => WizardInv'
  <1> SUFFICES ASSUME WizardTypeOK, WizardInv, [WizardNext]_wizardVars PROVE WizardInv'
    OBVIOUS
  <1>. USE DEF identity, permissions, result, calls
  <1>1. CASE Edit
    BY <1>1, EditIsFine
  <1>2. CASE handleCreate
    <2>1. /\ create' = userType /\ roles' = None /\ step' = 2 /\ UNCHANGED userType
          /\ credentials' = credentials /\ credentials = None
      BY <1>2 DEF handleCreate, CanCreate, Busy, WizardInv, OneAtATime
    <2>. QED
      BY <2>1 DEF WizardInv, OneAtATime, Ordered, Assigning
  <1>3. CASE CreateOk
    BY <1>3, CreateOkIsFine
  <1>4. CASE CreateFails
    <2>1. /\ create' = None /\ roles' = None /\ credentials' = None /\ step' # 3
      BY <1>4 DEF CreateFails, WizardInv, OneAtATime
    <2>. QED
      BY <2>1 DEF WizardInv, OneAtATime, Ordered, Assigning
  <1>5. ASSUME NEW t \in Namespaces \cup {"cluster"}, AssignOk(t) \/ AssignFails(t)
        PROVE  WizardInv'
    BY <1>5, AssignIsFine
  <1>6. CASE AssignEnds
    <2>1. /\ roles \in Assignments /\ roles.left = {} /\ create = None /\ create' = None
          /\ Assigning
      BY <1>6 DEF AssignEnds, AllAssigned, Assigning, WizardInv, OneAtATime, WizardTypeOK
    <2>2. /\ roles' \in Assignments /\ roles'.pc = "done" /\ roles'.as = roles.as
          /\ roles'.left = {} /\ roles'.got = roles.got
      BY <1>6, <2>1 DEF AssignEnds, Assignments
    <2>3. roles' # None /\ ~Assigning'
      BY <2>2, NoRecordAssumption DEF Assigning
    <2>4. step' = 3 /\ UNCHANGED <<touched, userType, preset, Targets, credentials>>
      BY <1>6 DEF AssignEnds, Targets
    <2>. QED
      BY <2>1, <2>2, <2>3, <2>4 DEF WizardInv, OneAtATime, Ordered, RolesAsShown
  <1>7. CASE handleClose
    <2>1. /\ step' = 1 /\ credentials' = None /\ touched' = Busy /\ create' = create
          /\ roles' = IF Assigning THEN roles ELSE None
      BY <1>7 DEF handleClose, Reset
    <2>2. ~touched' => create' = None /\ roles' = None
      BY <2>1 DEF Busy
    <2>3. OneAtATime'
      BY <2>1 DEF WizardInv, OneAtATime, Assigning
    <2>4. Ordered'
      BY <2>1, <2>2 DEF Ordered, Assigning
    <2>. QED
      BY <2>3, <2>4 DEF WizardInv
  <1>8. CASE UNCHANGED <<step, userType, preset, scope, selectedNs, credentials, calls, touched>>
    BY <1>8 DEF WizardInv, OneAtATime, Ordered, Assigning, RolesAsShown, Targets
  <1>9. ASSUME \/ KubeconfigEnds \/ Confirm \/ OpenWizard
               \/ (\E ns \in SUBSET Namespaces : Refetch(ns)) \/ UNCHANGED wizardVars
        PROVE  UNCHANGED <<step, userType, preset, scope, selectedNs, credentials, calls, touched>>
    BY <1>9 DEF KubeconfigEnds, Confirm, OpenWizard, Refetch, wizardVars
  <1>. QED
    BY <1>1, <1>2, <1>3, <1>4, <1>5, <1>6, <1>7, <1>8, <1>9, NextCases

LEMMA WizardAlways == WizardSpec => [](WizardTypeOK /\ WizardInv)
  <1>1. WizardInit => WizardInv
    BY DEF WizardInit, WizardInv, OneAtATime, Ordered, Assigning
  <1>. QED
    BY <1>1, WizardTypeInit, WizardTypeNext, WizardInvNext, PTL DEF WizardSpec

\* CreateUserWizard.tsx:99-136, 246: for any namespaces, a user whose form was left alone
\* and whose assignments were not reported as failed has the roles that were ordered.
THEOREM OrderedIsAlwaysDone == WizardSpec => []OrderedIsDone
  <1>1. WizardTypeOK /\ WizardInv => OrderedIsDone
    BY DEF WizardTypeOK, WizardInv, Ordered, RolesAsShown, OrderedIsDone, KeyDisplayed
  <1>. QED
    BY <1>1, WizardAlways, PTL

\* CreateUserWizard.tsx:246-252, 512-528: nothing but the closing of the wizard takes a key
\* away, and that waits for the confirmation, unless the form was used meanwhile.
THEOREM KeyAlwaysKept == WizardSpec => KeyKept
  <1> DEFINE Step == credentials # None /\ credentials.inline /\ credentials' # credentials
                       => confirmed \/ touched \/ touched'
  <1>1. WizardTypeOK /\ WizardInv /\ [WizardNext]_wizardVars => Step
    <2> SUFFICES ASSUME WizardTypeOK, WizardInv, [WizardNext]_wizardVars, credentials' # credentials,
                        credentials # None, credentials.inline
                 PROVE  confirmed \/ touched \/ touched'
      OBVIOUS
    <2>. USE DEF result, calls
    <2>1. CASE CreateOk
      BY <2>1 DEF CreateOk, WizardInv, OneAtATime
    <2>2. CASE handleClose
      <3>1. CASE step # 3
        BY <2>2, <3>1 DEF handleClose, WizardInv, OneAtATime, Busy
      <3>2. CASE step = 3
        BY <2>2, <3>2 DEF handleClose, canClose, InVault, WizardInv, Ordered, WizardTypeOK
      <3>. QED
        BY <3>1, <3>2
    <2>3. ~Edit
      BY EditIsUse
    <2>. QED
      BY <2>1, <2>2, <2>3, NextCases DEF handleCreate, CreateFails, AssignOk, AssignFails,
         AssignEnds, KubeconfigEnds, Confirm, OpenWizard, Refetch, wizardVars
  <1>2. [](WizardTypeOK /\ WizardInv) /\ [][WizardNext]_wizardVars => [][Step]_wizardVars
    BY <1>1, PTL
  <1>. QED
    BY <1>2, WizardAlways, PTL DEF WizardSpec, KeyKept
=============================================================================
