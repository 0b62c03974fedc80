--------------------------- MODULE ClusterClients ---------------------------
(***************************************************************************)
(* The registry of remote clusters (table clusters) and the API clients    *)
(* every worker process caches for them (ClusterService).                  *)
(*                                                                         *)
(* A process trusts its cached clients until _RELOAD_INTERVAL after the    *)
(* last time it read the table, and holds _cache_lock while it reads and   *)
(* builds.  Additions and removals are transactions that rewrite the table *)
(* from a copy of it, without that lock.                                   *)
(***************************************************************************)
EXTENDS Naturals

CONSTANTS
  Clusters,    \* names of remote clusters
  Configs,     \* connection settings: URL, CA and token together
  Procs,       \* worker processes, over all pods
  Handlers,    \* additions and removals under way, over all processes
  None,
  Reload,      \* _RELOAD_INTERVAL
  MaxRead,     \* bound: the longest read of the table
  MaxTime      \* bound: the clock stops there

ASSUME ConstantsAssumption ==
  /\ None \notin Configs
  /\ Reload \in Nat \ {0} /\ MaxRead \in Nat /\ MaxTime \in Nat

VARIABLES
  clock,
  table,     \* table[c]: the stored settings of c, or None
  clients,   \* clients[p][c]: the settings p's client for c was built from, or None
  reload,    \* reload[p]: _last_reload
  get,       \* get[p]: the get_api_client that holds _cache_lock, or None
  txn,       \* txn[h]: the addition or removal h
  left,      \* history: left[c][g] is when table[c] last ceased to be g
  gone       \* history: gone[p] are the clusters p removed and nobody registered since

vars == <<clock, table, clients, reload, get, txn, left, gone>>

Settings == Configs \cup {None}

Get == [c: Clusters, seen: Settings, at: Nat]

Txn == [pc: {"idle", "get", "commit", "drop"}, kind: {"add", "remove"},
        p: Procs, c: Clusters, cfg: Settings,
        before: [Clusters -> Settings], found: SUBSET Clusters]

Idle == [pc |-> "idle"]

TypeOK ==
  /\ clock \in Nat
  /\ table \in [Clusters -> Settings]
  /\ clients \in [Procs -> [Clusters -> Settings]]
  /\ reload \in [Procs -> Nat]
  /\ get \in [Procs -> Get \cup {None}]
  /\ txn \in [Handlers -> Txn \cup {Idle}]
  /\ left \in [Clusters -> [Configs -> Nat]]
  /\ gone \in [Procs -> SUBSET Clusters]

NoClients == [c \in Clusters |-> None]

Init ==
  /\ clock = 0
  /\ table = [c \in Clusters |-> None]
  /\ clients = [p \in Procs |-> NoClients]
  /\ reload = [p \in Procs |-> 0]
  /\ get = [p \in Procs |-> None]
  /\ txn = [h \in Handlers |-> Idle]
  /\ left = [c \in Clusters |-> [g \in Configs |-> 0]]
  /\ gone = [p \in Procs |-> {}]

-----------------------------------------------------------------------------
(* get_api_client.  Handing out a trusted client changes nothing. *)

\* Mutant: the client is still trusted when the interval is over.
Recent_Inclusive(p) == clock - reload[p] <= Reload
Recent(p) == clock - reload[p] < Reload

Trusted(p, c) == get[p] = None /\ clients[p][c] # None /\ Recent(p)

\* The lock is free and the client missing or no longer trusted: read the table.
GetRead(p, c) ==
  /\ get[p] = None /\ ~Trusted(p, c)
  /\ get' = [get EXCEPT ![p] = [c |-> c, seen |-> table[c], at |-> clock]]
  /\ UNCHANGED <<clock, table, clients, reload, txn, left, gone>>

\* Mutant: the cache keeps the entry that was read, not its settings.
GetBuild_Entry(p) ==
  /\ get[p] # None
  /\ reload' = [reload EXCEPT ![p] = clock]
  /\ clients' = [clients EXCEPT ![p][get[p].c] = get[p]]
  /\ get' = [get EXCEPT ![p] = None]
  /\ UNCHANGED <<clock, table, txn, left, gone>>

\* The rest, up to the release of the lock: the client is kept, replaced, or
\* dropped ("not found").
GetBuild(p) ==
  /\ get[p] # None
  /\ reload' = [reload EXCEPT ![p] = clock]
  /\ clients' = [clients EXCEPT ![p][get[p].c] = get[p].seen]
  /\ get' = [get EXCEPT ![p] = None]
  /\ UNCHANGED <<clock, table, txn, left, gone>>

\* Reading the table raises: the lock is released and the clients stay.
GetRaises(p) ==
  /\ get[p] # None
  /\ get' = [get EXCEPT ![p] = None]
  /\ UNCHANGED <<clock, table, clients, reload, txn, left, gone>>

-----------------------------------------------------------------------------
(* add_cluster and remove_cluster. *)

\* The connection is verified and the copy taken from the table has no such name.
AddCluster(h, p, c) ==
  /\ txn[h].pc = "idle" /\ table[c] = None
  /\ \E g \in Configs :
       txn' = [txn EXCEPT ![h] = [pc |-> "get", kind |-> "add", p |-> p, c |-> c,
                                  cfg |-> g, before |-> table, found |-> {}]]
  /\ UNCHANGED <<clock, table, clients, reload, get, left, gone>>

RemoveCluster(h, p, c) ==
  /\ txn[h].pc = "idle" /\ table[c] # None
  /\ txn' = [txn EXCEPT ![h] = [pc |-> "get", kind |-> "remove", p |-> p, c |-> c,
                                cfg |-> None, before |-> table, found |-> {}]]
  /\ UNCHANGED <<clock, table, clients, reload, get, left, gone>>

\* mutate(before).
After(t) == [t.before EXCEPT ![t.c] = t.cfg]

\* db.get of every name, before and after.
GetRows(h) ==
  /\ txn[h].pc = "get"
  /\ txn' = [txn EXCEPT ![h] = [@ EXCEPT !.pc = "commit",
                                         !.found = {c \in Clusters : table[c] # None}]]
  /\ UNCHANGED <<clock, table, clients, reload, get, left, gone>>

\* Rows of the new registry that db.get did not find are inserted, all of them;
\* of those it found only the one the call is about differs, or is deleted.
Written(t) == ({t.c} \cap t.found) \cup {c \in Clusters \ t.found : After(t)[c] # None}

\* An INSERT meets a row, or the UPDATE of an overwriting addition finds none.
Conflicts(t) ==
  \/ \E c \in Clusters \ t.found : After(t)[c] # None /\ table[c] # None
  \/ t.kind = "add" /\ t.c \in t.found /\ table[t.c] = None

Commit(h) ==
  LET t == txn[h]
      new == [c \in Clusters |-> IF c \in Written(t) THEN After(t)[c] ELSE table[c]]
  IN
  /\ t.pc = "commit" /\ ~Conflicts(t)
  /\ table' = new
  /\ left' = [c \in Clusters |-> [g \in Configs |->
                IF table[c] = g /\ new[c] # g THEN clock ELSE left[c][g]]]
  /\ gone' = [p \in Procs |-> {c \in gone[p] : new[c] = None}]
  /\ txn' = [txn EXCEPT ![h] = IF t.kind = "remove" THEN [t EXCEPT !.pc = "drop"] ELSE Idle]
  /\ UNCHANGED <<clock, clients, reload, get>>

\* Mutant: the client is dropped without _cache_lock.
DropClient_Unlocked(h) ==
  LET t == txn[h] IN
  /\ t.pc = "drop"
  /\ clients' = [clients EXCEPT ![t.p][t.c] = None]
  /\ gone' = [gone EXCEPT ![t.p] = @ \cup {c \in {t.c} : table[c] = None}]
  /\ txn' = [txn EXCEPT ![h] = Idle]
  /\ UNCHANGED <<clock, table, reload, get, left>>

\* remove_cluster ends by dropping this process's client, under the lock.
DropClient(h) ==
  LET t == txn[h] IN
  /\ t.pc = "drop" /\ get[t.p] = None
  /\ clients' = [clients EXCEPT ![t.p][t.c] = None]
  /\ gone' = [gone EXCEPT ![t.p] = @ \cup {c \in {t.c} : table[c] = None}]
  /\ txn' = [txn EXCEPT ![h] = Idle]
  /\ UNCHANGED <<clock, table, reload, get, left>>

\* A handler ends before its commit: a conflict, or the database is unavailable.
TxnRaises(h) ==
  /\ txn[h].pc \in {"get", "commit"}
  /\ txn' = [txn EXCEPT ![h] = Idle]
  /\ UNCHANGED <<clock, table, clients, reload, get, left, gone>>

-----------------------------------------------------------------------------

\* A process is replaced: its clients and the handlers in it are gone.
Restart(p) ==
  /\ clients' = [clients EXCEPT ![p] = NoClients]
  /\ reload' = [reload EXCEPT ![p] = 0]
  /\ get' = [get EXCEPT ![p] = None]
  /\ txn' = [h \in Handlers |-> IF txn[h].pc # "idle" /\ txn[h].p = p THEN Idle ELSE txn[h]]
  /\ UNCHANGED <<clock, table, left, gone>>

Tick ==
  /\ clock < MaxTime
  /\ \A p \in Procs : get[p] # None => clock - get[p].at < MaxRead
  /\ clock' = clock + 1
  /\ UNCHANGED <<table, clients, reload, get, txn, left, gone>>

Next ==
  \/ \E p \in Procs, c \in Clusters : GetRead(p, c)
  \/ \E p \in Procs : GetBuild(p) \/ GetRaises(p) \/ Restart(p)
  \/ \E h \in Handlers, p \in Procs, c \in Clusters :
       AddCluster(h, p, c) \/ RemoveCluster(h, p, c)
  \/ \E h \in Handlers : GetRows(h) \/ Commit(h) \/ DropClient(h) \/ TxnRaises(h)
  \/ Tick

Spec == Init /\ [][Next]_vars

-----------------------------------------------------------------------------
(* Properties. *)

\* "How long a cached API client is trusted before re-checking the stored
\* config" (backend/app/services/cluster_service.py:18): a client that would be handed out although
\* the stored settings are others (or none) has been wrong for less than the
\* reload interval and the time a read takes.  True with one remote cluster.
TrustIsBounded ==
  \A p \in Procs, c \in Clusters :
    Trusted(p, c) /\ clients[p][c] # table[c] =>
      clock - left[c][clients[p][c]] < Reload + MaxRead

\* The process that removed a cluster has no client for it once remove_cluster
\* has returned, and builds none until it is registered again, whatever reads of
\* the table were under way.
RemoverForgets == \A p \in Procs : \A c \in gone[p] : clients[p][c] = None
=============================================================================
