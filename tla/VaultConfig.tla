----------------------------- MODULE VaultConfig -----------------------------
(***************************************************************************)
(* The Vault configuration: one row (vault_config), the environment it     *)
(* falls back on, and the copy every worker process keeps and reads again  *)
(* at most every _SYNC_INTERVAL.                                           *)
(*                                                                         *)
(* In a process _lock serialises all that reads or writes the copy; between *)
(* processes nothing does, and the UPDATE of the row sets only the columns *)
(* that differ from what its transaction read.                             *)
(***************************************************************************)
EXTENDS Naturals

CONSTANTS
  Procs,      \* worker processes, over all pods
  Edits,      \* PUT and DELETE /admin/vault/config under way
  Tokens,     \* Vault tokens
  Places,     \* the rest of a configuration: address, mount, path...
  EnvToken, EnvPlace, \* the configuration in the environment, if any
  Null,       \* an absent row; an empty column
  Interval,   \* _SYNC_INTERVAL
  MaxHold,    \* bound: the longest that _lock is held
  MaxTime     \* bound: the clock stops there

ASSUME VaultAssumption ==
  /\ Null \notin Tokens \cup Places
  /\ EnvToken \in Tokens \cup {Null} /\ EnvPlace \in Places \cup {Null}
  /\ Interval \in Nat \ {0} /\ MaxHold \in Nat /\ MaxTime \in Nat
  /\ "nobody" \notin Edits /\ "sync" \notin Edits

VARIABLES
  clock,
  row,      \* the row, or Null
  svc,      \* svc[p]: the configuration of _vault_svc in process p, or Off
  synced,   \* synced[p]: _last_sync
  lock,     \* lock[p]: the holder of _lock
  edit,     \* edit[e]: the edit e
  written,  \* history: when the row last changed
  last      \* history: last[p] is how p's last use of the row went

vaultVars == <<clock, row, svc, synced, lock, edit, written, last>>

Row == [on: BOOLEAN, token: Tokens \cup {Null}, place: Places \cup {Null}]

ASSUME NoRowAssumption == Null \notin Row

\* What _apply_config makes of a row or of the environment: no VaultService
\* without an address and a token.
Config == [token: Tokens, place: Places]
Off == [token |-> Null, place |-> Null]

\* Mutant: a configuration without address or token is taken as it is.
Usable_Unchecked(token, place) == [token |-> token, place |-> place]
Usable(token, place) ==
  IF Null \in {token, place} THEN Off ELSE [token |-> token, place |-> place]

\* An explicit disable is kept in the row, all other columns empty.
Disabled == [on |-> FALSE, token |-> Null, place |-> Null]

\* What a row stands for; an absent one leaves it to the environment.
Effective(r) ==
  IF r = Null THEN Usable(EnvToken, EnvPlace)
  ELSE IF r.on THEN Usable(r.token, r.place) ELSE Off

\* Who holds the lock of a process, and since when.
Lock == [by: {"nobody", "sync"} \cup Edits, at: Nat]
Free(p) == lock[p].by = "nobody"
Acquire(p, who) == lock' = [lock EXCEPT ![p] = [by |-> who, at |-> clock]]
Release(p) == lock' = [lock EXCEPT ![p] = [by |-> "nobody", at |-> 0]]

\* An edit: what it writes, and the row it has read.
Edit == [pc: {"idle", "token", "read", "commit", "apply"}, p: Procs \cup {Null},
         new: Row, seen: Row \cup {Null}]
NoEdit == [pc |-> "idle", p |-> Null, new |-> Disabled, seen |-> Null]

VaultTypeOK ==
  /\ clock \in Nat
  /\ row \in Row \cup {Null}
  /\ svc \in [Procs -> Config \cup {Off}]
  /\ synced \in [Procs -> Nat]
  /\ lock \in [Procs -> Lock]
  /\ edit \in [Edits -> Edit]
  /\ written \in Nat
  /\ last \in [Procs -> {"none", "ok", "failed"}]

\* Processes begin with a forced _sync (init_vault_from_env).
VaultInit ==
  /\ clock = 0
  /\ row = Null
  /\ svc = [p \in Procs |-> Off]
  /\ synced = [p \in Procs |-> 0]
  /\ lock = [p \in Procs |-> [by |-> "sync", at |-> 0]]
  /\ edit = [e \in Edits |-> NoEdit]
  /\ written = 0
  /\ last = [p \in Procs |-> "none"]

-----------------------------------------------------------------------------
(* _sync, under _lock.  Within the interval it does nothing. *)

\* Mutant: the copy is still good when the interval is over.
Recent_Inclusive(p) == clock - synced[p] <= Interval
Recent(p) == clock - synced[p] < Interval

\* _last_sync is set before the row is read.
SyncStart(p) ==
  /\ Free(p) /\ ~Recent(p)
  /\ synced' = [synced EXCEPT ![p] = clock]
  /\ Acquire(p, "sync")
  /\ UNCHANGED <<clock, row, svc, edit, written, last>>

SyncRead(p) ==
  /\ lock[p].by = "sync"
  /\ svc' = [svc EXCEPT ![p] = Effective(row)]
  /\ last' = [last EXCEPT ![p] = "ok"]
  /\ Release(p)
  /\ UNCHANGED <<clock, row, synced, edit, written>>

\* The row cannot be read: the copy stays, or comes from the environment if
\* there is none.
SyncFails(p) ==
  /\ lock[p].by = "sync"
  /\ svc' = [svc EXCEPT ![p] = IF @ = Off THEN Usable(EnvToken, EnvPlace) ELSE @]
  /\ last' = [last EXCEPT ![p] = "failed"]
  /\ Release(p)
  /\ UNCHANGED <<clock, row, synced, edit, written>>

-----------------------------------------------------------------------------
(* PUT and DELETE /admin/vault/config. *)

Begin(e, p, pc, new) ==
  /\ edit[e].pc = "idle"
  /\ edit' = [edit EXCEPT ![e] = [pc |-> pc, p |-> p, new |-> new, seen |-> Null]]
  /\ UNCHANGED <<clock, row, svc, synced, lock, written, last>>

PutConfig(e, p, token, place) ==
  Begin(e, p, "read", [on |-> TRUE, token |-> token, place |-> place])

\* An empty token "means keep the currently configured token".
PutKeepToken(e, p, place) ==
  Begin(e, p, "token", [on |-> TRUE, token |-> Null, place |-> place])

DeleteConfig(e, p) == Begin(e, p, "read", Disabled)

\* get_vault_service: the token of a copy synchronised just now or recently; 400
\* if there is none.
KeepToken(e) ==
  LET p == edit[e].p IN
  /\ edit[e].pc = "token" /\ Free(p) /\ Recent(p)
  /\ edit' = [edit EXCEPT ![e] =
       IF svc[p] = Off THEN NoEdit
       ELSE [@ EXCEPT !.pc = "read", !.new.token = svc[p].token]]
  /\ UNCHANGED <<clock, row, svc, synced, lock, written, last>>

\* configure_vault and disable_vault take the lock; _write_config_row reads...
EditRead(e) ==
  /\ edit[e].pc = "read" /\ Free(edit[e].p)
  /\ Acquire(edit[e].p, e)
  /\ edit' = [edit EXCEPT ![e] = [@ EXCEPT !.pc = "commit", !.seen = row]]
  /\ UNCHANGED <<clock, row, svc, synced, written, last>>

\* ... and writes the columns that differ from what it read.
Merged(seen, new) ==
  IF seen = Null THEN new
  ELSE [f \in DOMAIN new |-> IF new[f] # seen[f] THEN new[f] ELSE row[f]]

Write(r) ==
  /\ row' = r
  /\ written' = IF r = row THEN written ELSE clock

\* Two transactions that saw no row cannot both insert it.
EditCommit(e) ==
  LET t == edit[e] IN
  /\ t.pc = "commit" /\ (t.seen = Null => row = Null)
  /\ Write(Merged(t.seen, t.new))
  /\ edit' = [edit EXCEPT ![e].pc = "apply"]
  /\ UNCHANGED <<clock, svc, synced, lock, last>>

EditApply(e) ==
  LET t == edit[e] IN
  /\ t.pc = "apply"
  /\ svc' = [svc EXCEPT ![t.p] = Effective(t.new)]
  /\ synced' = [synced EXCEPT ![t.p] = clock]
  /\ last' = [last EXCEPT ![t.p] = "ok"]
  /\ Release(t.p)
  /\ edit' = [edit EXCEPT ![e] = NoEdit]
  /\ UNCHANGED <<clock, row, written>>

\* The write raises, with or without effect, and the lock is released.
EditFails(e) ==
  LET t == edit[e] IN
  /\ t.pc = "commit"
  /\ \/ UNCHANGED <<row, written>>
     \/ (t.seen = Null => row = Null) /\ Write(Merged(t.seen, t.new))
  /\ Release(t.p)
  /\ edit' = [edit EXCEPT ![e] = NoEdit]
  /\ UNCHANGED <<clock, svc, synced, last>>

-----------------------------------------------------------------------------

\* A process is replaced; its edits die with it.
Restart(p) ==
  /\ svc' = [svc EXCEPT ![p] = Off]
  /\ synced' = [synced EXCEPT ![p] = clock]
  /\ last' = [last EXCEPT ![p] = "none"]
  /\ Acquire(p, "sync")
  /\ edit' = [e \in Edits |-> IF edit[e].p = p THEN NoEdit ELSE edit[e]]
  /\ UNCHANGED <<clock, row, written>>

Tick ==
  /\ clock < MaxTime
  /\ \A p \in Procs : ~Free(p) => clock - lock[p].at < MaxHold
  /\ clock' = clock + 1
  /\ UNCHANGED <<row, svc, synced, lock, edit, written, last>>

VaultNext ==
  \/ \E p \in Procs : SyncStart(p) \/ SyncRead(p) \/ SyncFails(p) \/ Restart(p)
  \/ \E e \in Edits, p \in Procs, place \in Places :
       PutKeepToken(e, p, place) \/ \E token \in Tokens : PutConfig(e, p, token, place)
  \/ \E e \in Edits, p \in Procs : DeleteConfig(e, p)
  \/ \E e \in Edits :
       KeepToken(e) \/ EditRead(e) \/ EditCommit(e) \/ EditApply(e) \/ EditFails(e)
  \/ Tick

VaultSpec == VaultInit /\ [][VaultNext]_vaultVars

-----------------------------------------------------------------------------
(* Properties. *)

\* Every worker "converges on the shared state" (_sync): when the row has been
\* the same for the interval and the time _lock may be held, every worker that
\* has its copy from a successful read or write, and still trusts it, has that
\* configuration, whatever edits raced each other before.
Converges ==
  \A p \in Procs :
    Free(p) /\ Recent(p) /\ last[p] = "ok" /\ clock - written >= Interval + MaxHold =>
      svc[p] = Effective(row)
=============================================================================
