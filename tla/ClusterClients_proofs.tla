------------------------ MODULE ClusterClients_proofs ------------------------
(***************************************************************************)
(* What holds of ClusterClients for any sets of clusters, processes and    *)
(* handlers: types, and that the remover of a cluster forgets it; and, with *)
(* one cluster, that the trust in a wrong client is bounded.               *)
(***************************************************************************)
EXTENDS ClusterClients, TLAPS

-----------------------------------------------------------------------------
(* Types. *)

LEMMA TypeInit == Init => TypeOK
  BY ConstantsAssumption DEF Init, TypeOK, NoClients, Settings

\* An addition or removal that is under way is a full record.
LEMMA TxnUnderWay ==
  ASSUME TypeOK, NEW h \in Handlers, txn[h].pc # "idle"
  PROVE  txn[h] \in Txn
  BY DEF TypeOK, Idle

LEMMA AfterTyped ==
  ASSUME NEW t \in Txn
  PROVE  After(t) \in [Clusters -> Settings]
  BY DEF After, Txn

LEMMA TypeNext == TypeOK /\ [Next]_vars => TypeOK'
  <1> SUFFICES ASSUME TypeOK, [Next]_vars PROVE TypeOK'
    OBVIOUS
  <1> USE DEF TypeOK
  <1>1. ASSUME NEW p \in Procs, NEW c \in Clusters, GetRead(p, c) PROVE TypeOK'
    <2>1. [c |-> c, seen |-> table[c], at |-> clock] \in Get
      BY DEF Get
    <2>. QED
      BY <1>1, <2>1 DEF GetRead
  <1>2. ASSUME NEW p \in Procs, GetBuild(p) PROVE TypeOK'
    <2>1. get[p] \in Get
      BY <1>2 DEF GetBuild
    <2>2. get[p].c \in Clusters /\ get[p].seen \in Settings
      BY <2>1 DEF Get
    <2>3. clients' \in [Procs -> [Clusters -> Settings]]
      BY <1>2, <2>2 DEF GetBuild
    <2>. QED
      BY <1>2, <2>3 DEF GetBuild
  <1>3. ASSUME NEW p \in Procs, GetRaises(p) PROVE TypeOK'
    BY <1>3 DEF GetRaises
  <1>4. ASSUME NEW p \in Procs, Restart(p) PROVE TypeOK'
    <2>1. NoClients \in [Clusters -> Settings]
      BY DEF NoClients, Settings
    <2>2. txn' \in [Handlers -> Txn \cup {Idle}]
      BY <1>4 DEF Restart
    <2>. QED
      BY <1>4, <2>1, <2>2 DEF Restart
  <1>5. ASSUME NEW h \in Handlers, NEW p \in Procs, NEW c \in Clusters,
               AddCluster(h, p, c) \/ RemoveCluster(h, p, c)
        PROVE  TypeOK'
    <2>1. PICK t \in Txn : txn' = [txn EXCEPT ![h] = t]
      <3>1. CASE AddCluster(h, p, c)
        <4>1. PICK g \in Configs :
                txn' = [txn EXCEPT ![h] = [pc |-> "get", kind |-> "add", p |-> p, c |-> c,
                                           cfg |-> g, before |-> table, found |-> {}]]
          BY <3>1 DEF AddCluster
        <4>2. [pc |-> "get", kind |-> "add", p |-> p, c |-> c,
               cfg |-> g, before |-> table, found |-> {}] \in Txn
          BY DEF Txn, Settings
        <4>. QED
          BY <4>1, <4>2
      <3>2. CASE RemoveCluster(h, p, c)
        <4>1. [pc |-> "get", kind |-> "remove", p |-> p, c |-> c,
               cfg |-> None, before |-> table, found |-> {}] \in Txn
          BY DEF Txn, Settings
        <4>. QED
          BY <3>2, <4>1 DEF RemoveCluster
      <3>. QED
        BY <1>5, <3>1, <3>2
    <2>2. UNCHANGED <<clock, table, clients, reload, get, left, gone>>
      BY <1>5 DEF AddCluster, RemoveCluster
    <2>. QED
      BY <2>1, <2>2
  <1>6. ASSUME NEW h \in Handlers, GetRows(h) PROVE TypeOK'
    <2>1. txn[h] \in Txn
      BY <1>6, TxnUnderWay DEF GetRows
    <2>2. [txn[h] EXCEPT !.pc = "commit", !.found = {c \in Clusters : table[c] # None}] \in Txn
      BY <2>1 DEF Txn
    <2>. QED
      BY <1>6, <2>2 DEF GetRows
  <1>7. ASSUME NEW h \in Handlers, Commit(h) PROVE TypeOK'
    <2>1. txn[h] \in Txn
      BY <1>7, TxnUnderWay DEF Commit
    <2>2. table' \in [Clusters -> Settings]
      BY <1>7, <2>1, AfterTyped DEF Commit
    <2>3. [txn[h] EXCEPT !.pc = "drop"] \in Txn
      BY <2>1 DEF Txn
    <2>4. txn' \in [Handlers -> Txn \cup {Idle}]
      BY <1>7, <2>3 DEF Commit
    <2>5. left' \in [Clusters -> [Configs -> Nat]]
      BY <1>7 DEF Commit
    <2>6. gone' \in [Procs -> SUBSET Clusters]
      BY <1>7 DEF Commit
    <2>. QED
      BY <1>7, <2>2, <2>4, <2>5, <2>6 DEF Commit
  <1>8. ASSUME NEW h \in Handlers, DropClient(h) PROVE TypeOK'
    <2>1. txn[h] \in Txn
      BY <1>8, TxnUnderWay DEF DropClient
    <2>2. txn[h].c \in Clusters /\ txn[h].p \in Procs
      BY <2>1 DEF Txn
    <2>3. clients' \in [Procs -> [Clusters -> Settings]]
      BY <1>8, <2>2 DEF DropClient, Settings
    <2>4. gone' \in [Procs -> SUBSET Clusters]
      BY <1>8, <2>2 DEF DropClient
    <2>. QED
      BY <1>8, <2>3, <2>4 DEF DropClient
  <1>9. ASSUME NEW h \in Handlers, TxnRaises(h) PROVE TypeOK'
    BY <1>9 DEF TxnRaises
  <1>10. CASE Tick
    BY <1>10 DEF Tick
  <1>11. CASE UNCHANGED vars
    BY <1>11 DEF vars
  <1>. QED
    BY <1>1, <1>2, <1>3, <1>4, <1>5, <1>6, <1>7, <1>8, <1>9, <1>10, <1>11 DEF Next

\* Every variable keeps its type.
THEOREM TypeCorrect == Spec => []TypeOK
  BY TypeInit, TypeNext, PTL DEF Spec

-----------------------------------------------------------------------------
(* The remover forgets. *)

\* A cluster a process has removed is registered nowhere and has no client in
\* that process, nor has a read that is under way there found it.
GoneInv ==
  \A p \in Procs : \A c \in gone[p] :
    /\ clients[p][c] = None
    /\ table[c] = None
    /\ get[p] # None /\ get[p].c = c => get[p].seen = None

LEMMA GoneInit == Init => GoneInv
  BY DEF Init, GoneInv

LEMMA GoneNext == TypeOK /\ GoneInv /\ [Next]_vars => GoneInv'
  <1> SUFFICES ASSUME TypeOK, GoneInv, [Next]_vars, NEW q \in Procs, NEW d \in gone'[q]
               PROVE  /\ clients'[q][d] = None
                      /\ table'[d] = None
                      /\ get'[q] # None /\ get'[q].c = d => get'[q].seen = None
    BY DEF GoneInv
  <1> DEFINE Goal == /\ clients'[q][d] = None
                     /\ table'[d] = None
                     /\ get'[q] # None /\ get'[q].c = d => get'[q].seen = None
  <1> USE DEF TypeOK
  <1>a. ASSUME gone' = gone
        PROVE  /\ d \in Clusters /\ clients[q][d] = None /\ table[d] = None
               /\ get[q] # None /\ get[q].c = d => get[q].seen = None
    BY <1>a DEF GoneInv
  <1>1. ASSUME NEW p \in Procs, NEW c \in Clusters, GetRead(p, c) PROVE Goal
    BY <1>a, <1>1 DEF GetRead
  <1>2. ASSUME NEW p \in Procs, GetBuild(p) PROVE Goal
    <2>1. get[p] \in Get /\ get[p].c \in Clusters
      BY <1>2 DEF GetBuild, Get
    <2>2. CASE p = q /\ get[p].c = d
      BY <1>a, <1>2, <2>1, <2>2 DEF GetBuild
    <2>3. CASE ~(p = q /\ get[p].c = d)
      BY <1>a, <1>2, <2>1, <2>3 DEF GetBuild
    <2>. QED
      BY <2>2, <2>3
  <1>3. ASSUME NEW p \in Procs, GetRaises(p) PROVE Goal
    BY <1>a, <1>3 DEF GetRaises
  <1>4. ASSUME NEW p \in Procs, Restart(p) PROVE Goal
    BY <1>a, <1>4 DEF Restart, NoClients
  <1>5. ASSUME NEW h \in Handlers, NEW p \in Procs, NEW c \in Clusters,
               AddCluster(h, p, c) \/ RemoveCluster(h, p, c)
        PROVE  Goal
    BY <1>a, <1>5 DEF AddCluster, RemoveCluster
  <1>6. ASSUME NEW h \in Handlers, GetRows(h) \/ TxnRaises(h) PROVE Goal
    BY <1>a, <1>6 DEF GetRows, TxnRaises
  <1>7. ASSUME NEW h \in Handlers, Commit(h) PROVE Goal
    <2>1. d \in gone[q] /\ table'[d] = None
      BY <1>7 DEF Commit
    <2>2. UNCHANGED <<clients, get>>
      BY <1>7 DEF Commit
    <2>. QED
      BY <2>1, <2>2 DEF GoneInv
  <1>8. ASSUME NEW h \in Handlers, DropClient(h) PROVE Goal
    <2>1. txn[h] \in Txn
      BY <1>8, TxnUnderWay DEF DropClient
    <2>2. txn[h].c \in Clusters /\ txn[h].p \in Procs
      BY <2>1 DEF Txn
    <2>3. CASE txn[h].p = q /\ txn[h].c = d
      <3>1. table[d] = None
        BY <1>8, <2>2, <2>3 DEF DropClient, GoneInv
      <3>. QED
        BY <1>8, <2>2, <2>3, <3>1 DEF DropClient
    <2>4. CASE ~(txn[h].p = q /\ txn[h].c = d)
      <3>1. d \in gone[q]
        BY <1>8, <2>2, <2>4 DEF DropClient
      <3>2. d \in Clusters /\ clients'[q][d] = clients[q][d]
        BY <1>8, <2>2, <2>4, <3>1 DEF DropClient
      <3>. QED
        BY <1>8, <3>1, <3>2 DEF DropClient, GoneInv
    <2>. QED
      BY <2>3, <2>4
  <1>10. CASE Tick
    BY <1>a, <1>10 DEF Tick
  <1>11. CASE UNCHANGED vars
    BY <1>a, <1>11 DEF vars
  <1>. QED
    BY <1>1, <1>2, <1>3, <1>4, <1>5, <1>6, <1>7, <1>8, <1>10, <1>11 DEF Next

\* The process that removed a cluster keeps and builds no client for it until
\* it is registered again, for any number of processes and handlers.
THEOREM RemoverHasForgotten == Spec => []RemoverForgets
  <1>1. GoneInv => RemoverForgets
    BY DEF GoneInv, RemoverForgets
  <1>. QED
    BY TypeInit, TypeNext, GoneInit, GoneNext, <1>1, PTL DEF Spec

-----------------------------------------------------------------------------
(* With one remote cluster, trust in a wrong client is bounded.            *)

\* p has not read the table in the future ...
Punctual(p) == reload[p] <= clock

\* ... a read that is under way began at most MaxRead ago, and before the table
\* ceased to hold what it found ...
ReadIsRecent(p) ==
  get[p] # None =>
    /\ get[p].at <= clock
    /\ clock <= get[p].at + MaxRead
    /\ get[p].seen # None /\ get[p].seen # table[get[p].c] =>
         get[p].at <= left[get[p].c][get[p].seen]

\* ... and a client that differs from the table was last confirmed by a read
\* that began before it did.  reload[p] belongs to the process, not to the
\* client: with two clusters a read of one would vouch for the client of the
\* other.
ClientIsRecent(p, c) ==
  clients[p][c] # None /\ clients[p][c] # table[c] =>
    reload[p] <= left[c][clients[p][c]] + MaxRead

TrustInv ==
  \A p \in Procs :
    /\ Punctual(p)
    /\ ReadIsRecent(p)
    /\ \A c \in Clusters : ClientIsRecent(p, c)

LEMMA TrustInit == Init => TrustInv
  BY DEF Init, TrustInv, Punctual, ReadIsRecent, ClientIsRecent, NoClients

\* What a commit does to the history, for a setting g of cluster c.
LEMMA CommitDates ==
  ASSUME TypeOK, NEW h \in Handlers, Commit(h), NEW c \in Clusters, NEW g \in Configs
  PROVE  /\ table[c] = g /\ table'[c] # g => left'[c][g] = clock
         /\ table[c] # g => left'[c][g] = left[c][g]
  BY DEF Commit, TypeOK

LEMMA TrustNext ==
  ASSUME \A c, d \in Clusters : c = d
  PROVE  TypeOK /\ TrustInv /\ [Next]_vars => TrustInv'
  <1> SUFFICES ASSUME TypeOK, TrustInv, [Next]_vars, NEW q \in Procs
               PROVE  /\ Punctual(q)'
                      /\ ReadIsRecent(q)'
                      /\ \A d \in Clusters : ClientIsRecent(q, d)'
    BY DEF TrustInv
  <1> DEFINE Goal == /\ Punctual(q)'
                     /\ ReadIsRecent(q)'
                     /\ \A d \in Clusters : ClientIsRecent(q, d)'
  <1> USE DEF TypeOK
  <1>a. Punctual(q) /\ ReadIsRecent(q) /\ \A d \in Clusters : ClientIsRecent(q, d)
    BY DEF TrustInv
  <1>b. clock \in Nat /\ reload[q] \in Nat /\ MaxRead \in Nat
    BY ConstantsAssumption
  <1>1. ASSUME NEW p \in Procs, NEW c \in Clusters, GetRead(p, c) PROVE Goal
    <2>1. UNCHANGED <<clock, table, clients, reload, left>>
      BY <1>1 DEF GetRead
    <2>2. Punctual(q)' /\ \A d \in Clusters : ClientIsRecent(q, d)'
      BY <1>a, <2>1 DEF Punctual, ClientIsRecent
    <2>3. CASE p = q
      <3>1. get'[q] = [c |-> c, seen |-> table[c], at |-> clock]
        BY <1>1, <2>3 DEF GetRead
      <3>. QED
        BY <1>b, <2>1, <2>2, <3>1 DEF ReadIsRecent
    <2>4. CASE p # q
      <3>1. get'[q] = get[q]
        BY <1>1, <2>4 DEF GetRead
      <3>. QED
        BY <1>a, <2>1, <2>2, <3>1 DEF ReadIsRecent
    <2>. QED
      BY <2>3, <2>4
  <1>2. ASSUME NEW p \in Procs, GetBuild(p) PROVE Goal
    <2>1. UNCHANGED <<clock, table, left>>
      BY <1>2 DEF GetBuild
    <2>2. CASE p = q
      <3>1. get[q] \in Get /\ get[q] # None
        BY <1>2, <2>2 DEF GetBuild
      <3>2. get[q].c \in Clusters /\ get[q].at \in Nat /\ get[q].seen \in Settings
        BY <3>1 DEF Get
      <3>3. reload'[q] = clock /\ get'[q] = None
        BY <1>2, <2>2 DEF GetBuild
      <3>4. clients'[q][get[q].c] = get[q].seen
        BY <1>2, <2>2, <3>2 DEF GetBuild
      <3>5. Punctual(q)' /\ ReadIsRecent(q)'
        BY <1>b, <2>1, <3>3 DEF Punctual, ReadIsRecent
      <3>6. ASSUME NEW d \in Clusters, clients'[q][d] # None, clients'[q][d] # table'[d]
            PROVE  reload'[q] <= left'[d][clients'[q][d]] + MaxRead
        <4>1. d = get[q].c
          BY <3>2
        <4>2. get[q].seen # None /\ get[q].seen # table[d] /\ get[q].seen \in Configs
          BY <2>1, <3>2, <3>4, <3>6, <4>1 DEF Settings
        <4>3. get[q].at <= left[d][get[q].seen] /\ clock <= get[q].at + MaxRead
          BY <1>a, <3>1, <4>1, <4>2 DEF ReadIsRecent
        <4>4. left[d][get[q].seen] \in Nat
          BY <4>2
        <4>5. clock <= left[d][get[q].seen] + MaxRead
          BY <1>b, <3>2, <4>3, <4>4
        <4>. QED
          BY <2>1, <3>3, <3>4, <4>1, <4>5
      <3>. QED
        BY <3>5, <3>6 DEF ClientIsRecent
    <2>3. CASE p # q
      <3>1. get'[q] = get[q] /\ clients'[q] = clients[q] /\ reload'[q] = reload[q]
        BY <1>2, <2>3 DEF GetBuild
      <3>. QED
        BY <1>a, <2>1, <3>1 DEF Punctual, ReadIsRecent, ClientIsRecent
    <2>. QED
      BY <2>2, <2>3
  <1>3. ASSUME NEW p \in Procs, GetRaises(p) PROVE Goal
    <2>1. UNCHANGED <<clock, table, clients, reload, left>>
      BY <1>3 DEF GetRaises
    <2>2. get'[q] = get[q] \/ get'[q] = None
      BY <1>3 DEF GetRaises
    <2>. QED
      BY <1>a, <2>1, <2>2 DEF Punctual, ReadIsRecent, ClientIsRecent
  <1>4. ASSUME NEW p \in Procs, Restart(p) PROVE Goal
    <2>1. UNCHANGED <<clock, table, left>>
      BY <1>4 DEF Restart
    <2>2. CASE p = q
      <3>1. get'[q] = None /\ clients'[q] = NoClients /\ reload'[q] = 0
        BY <1>4, <2>2 DEF Restart
      <3>. QED
        BY <1>b, <2>1, <3>1 DEF Punctual, ReadIsRecent, ClientIsRecent, NoClients
    <2>3. CASE p # q
      <3>1. get'[q] = get[q] /\ clients'[q] = clients[q] /\ reload'[q] = reload[q]
        BY <1>4, <2>3 DEF Restart
      <3>. QED
        BY <1>a, <2>1, <3>1 DEF Punctual, ReadIsRecent, ClientIsRecent
    <2>. QED
      BY <2>2, <2>3
  <1>5. ASSUME NEW h \in Handlers, NEW p \in Procs, NEW c \in Clusters,
               AddCluster(h, p, c) \/ RemoveCluster(h, p, c)
        PROVE  Goal
    <2>1. UNCHANGED <<clock, table, clients, reload, get, left>>
      BY <1>5 DEF AddCluster, RemoveCluster
    <2>. QED
      BY <1>a, <2>1 DEF Punctual, ReadIsRecent, ClientIsRecent
  <1>6. ASSUME NEW h \in Handlers, GetRows(h) \/ TxnRaises(h) PROVE Goal
    <2>1. UNCHANGED <<clock, table, clients, reload, get, left>>
      BY <1>6 DEF GetRows, TxnRaises
    <2>. QED
      BY <1>a, <2>1 DEF Punctual, ReadIsRecent, ClientIsRecent
  <1>7. ASSUME NEW h \in Handlers, Commit(h) PROVE Goal
    <2>1. UNCHANGED <<clock, clients, reload, get>>
      BY <1>7 DEF Commit
    <2>2. Punctual(q)'
      BY <1>a, <2>1 DEF Punctual
    <2>3. ASSUME get[q] # None, get[q].seen # None, get[q].seen # table'[get[q].c]
          PROVE  get[q].at <= left'[get[q].c][get[q].seen]
      <3>1. get[q] \in Get
        BY <2>3
      <3>2. get[q].c \in Clusters /\ get[q].seen \in Configs
        BY <2>3, <3>1 DEF Get, Settings
      <3>3. get[q].at <= clock
        BY <1>a, <2>3 DEF ReadIsRecent
      <3>4. CASE table[get[q].c] = get[q].seen
        BY <1>7, <2>3, <3>2, <3>3, <3>4, CommitDates
      <3>5. CASE table[get[q].c] # get[q].seen
        <4>1. get[q].at <= left[get[q].c][get[q].seen]
          BY <1>a, <2>3, <3>5 DEF ReadIsRecent
        <4>. QED
          BY <1>7, <3>2, <3>5, <4>1, CommitDates
      <3>. QED
        BY <3>4, <3>5
    <2>4. ASSUME NEW d \in Clusters, clients[q][d] # None, clients[q][d] # table'[d]
          PROVE  reload[q] <= left'[d][clients[q][d]] + MaxRead
      <3>1. clients[q][d] \in Configs
        BY <2>4 DEF Settings
      <3>2. CASE table[d] = clients[q][d]
        <4>1. left'[d][clients[q][d]] = clock
          BY <1>7, <2>4, <3>1, <3>2, CommitDates
        <4>2. reload[q] <= clock
          BY <1>a DEF Punctual
        <4>. QED
          BY <1>b, <4>1, <4>2
      <3>3. CASE table[d] # clients[q][d]
        <4>1. left'[d][clients[q][d]] = left[d][clients[q][d]]
          BY <1>7, <3>1, <3>3, CommitDates
        <4>2. reload[q] <= left[d][clients[q][d]] + MaxRead
          BY <1>a, <2>4, <3>3 DEF ClientIsRecent
        <4>. QED
          BY <4>1, <4>2
      <3>. QED
        BY <3>2, <3>3
    <2>5. ReadIsRecent(q)'
      BY <1>a, <2>1, <2>3 DEF ReadIsRecent
    <2>6. \A d \in Clusters : ClientIsRecent(q, d)'
      BY <2>1, <2>4 DEF ClientIsRecent
    <2>. QED
      BY <2>2, <2>5, <2>6
  <1>8. ASSUME NEW h \in Handlers, DropClient(h) PROVE Goal
    <2>1. UNCHANGED <<clock, table, reload, get, left>>
      BY <1>8 DEF DropClient
    <2>2. txn[h] \in Txn
      BY <1>8, TxnUnderWay DEF DropClient
    <2>3. txn[h].c \in Clusters /\ txn[h].p \in Procs
      BY <2>2 DEF Txn
    <2>4. \A d \in Clusters : clients'[q][d] \in {clients[q][d], None}
      BY <1>8, <2>3 DEF DropClient
    <2>5. Punctual(q)' /\ ReadIsRecent(q)'
      BY <1>a, <2>1 DEF Punctual, ReadIsRecent
    <2>6. \A d \in Clusters : ClientIsRecent(q, d)'
      BY <1>a, <2>1, <2>4 DEF ClientIsRecent
    <2>. QED
      BY <2>5, <2>6
  <1>9. CASE Tick
    <2>1. UNCHANGED <<table, clients, reload, get, left>> /\ clock' = clock + 1
      BY <1>9 DEF Tick
    <2>2. Punctual(q)'
      BY <1>a, <1>b, <2>1 DEF Punctual
    <2>3. ASSUME get[q] # None
          PROVE  get[q].at <= clock + 1 /\ clock + 1 <= get[q].at + MaxRead
      <3>1. get[q] \in Get
        BY <2>3
      <3>2. get[q].at \in Nat
        BY <3>1 DEF Get
      <3>3. clock - get[q].at < MaxRead
        BY <1>9, <2>3 DEF Tick
      <3>4. get[q].at <= clock
        BY <1>a, <2>3 DEF ReadIsRecent
      <3>. QED
        BY <1>b, <3>2, <3>3, <3>4
    <2>4. ReadIsRecent(q)'
      BY <1>a, <2>1, <2>3 DEF ReadIsRecent
    <2>5. \A d \in Clusters : ClientIsRecent(q, d)'
      BY <1>a, <2>1 DEF ClientIsRecent
    <2>. QED
      BY <2>2, <2>4, <2>5
  <1>10. CASE UNCHANGED vars
    BY <1>a, <1>10 DEF vars, Punctual, ReadIsRecent, ClientIsRecent
  <1>. QED
    BY <1>1, <1>2, <1>3, <1>4, <1>5, <1>6, <1>7, <1>8, <1>9, <1>10 DEF Next

LEMMA TrustFollows ==
  ASSUME TypeOK, TrustInv
  PROVE  TrustIsBounded
  <1> SUFFICES ASSUME NEW p \in Procs, NEW c \in Clusters,
                      Trusted(p, c), clients[p][c] # table[c]
               PROVE  clock - left[c][clients[p][c]] < Reload + MaxRead
    BY DEF TrustIsBounded
  <1>1. clients[p][c] # None /\ clock - reload[p] < Reload
    BY DEF Trusted, Recent
  <1>2. left[c][clients[p][c]] \in Nat
    BY <1>1 DEF TypeOK, Settings
  <1>3. reload[p] <= left[c][clients[p][c]] + MaxRead
    BY <1>1 DEF TrustInv, ClientIsRecent
  <1>4. clock \in Nat /\ reload[p] \in Nat /\ Reload \in Nat /\ MaxRead \in Nat
    BY ConstantsAssumption DEF TypeOK
  <1>. QED
    BY <1>1, <1>2, <1>3, <1>4

\* With one remote cluster a client is handed out for less than the reload
\* interval and one read after the table ceased to agree with it, whatever the
\* number of processes and handlers.  With two, the time stored for one client
\* vouches for the other as well.
THEOREM TrustIsBoundedAlone ==
  ASSUME \A c, d \in Clusters : c = d
  PROVE  Spec => []TrustIsBounded
  <1>1. TypeOK /\ TrustInv /\ [Next]_vars => TrustInv'
    BY TrustNext
  <1>2. TypeOK /\ TrustInv => TrustIsBounded
    BY TrustFollows
  <1>. QED
    BY TypeInit, TypeNext, TrustInit, <1>1, <1>2, PTL DEF Spec
=============================================================================
