----------------------------- MODULE Vault_proofs -----------------------------
(***************************************************************************)
(* What holds of the configuration of Vault (VaultConfig) for any number of *)
(* processes and edits: types, and that the workers converge on the row.   *)
(* And what holds of the panel that generates kubeconfigs, with the keys   *)
(* kept in Vault if need be (KubeconfigPanel), for any users, namespaces   *)
(* and clusters: types, that the armed timer is always current, and that   *)
(* what is displayed is of the user selected.                              *)
(***************************************************************************)
EXTENDS VaultConfig, KubeconfigPanel, TLAPS

-----------------------------------------------------------------------------
(* VaultConfig: types.  An edit under way is in a process, and a row that it *)
(* has seen is still there.                                                *)

Placed == \A e \in Edits : edit[e].pc # "idle" => edit[e].p \in Procs
Kept == \A e \in Edits : edit[e].seen # Null => row # Null

VaultTyped == VaultTypeOK /\ Placed /\ Kept

LEMMA NoEditTyped == NoEdit \in Edit
  BY DEF NoEdit, Edit, Disabled, Row

LEMMA UsableTyped ==
  ASSUME NEW token \in Tokens \cup {Null}, NEW place \in Places \cup {Null}
  PROVE  Usable(token, place) \in Config \cup {Off}
  BY DEF Usable, Config

LEMMA EffectiveTyped ==
  ASSUME NEW r \in Row \cup {Null}
  PROVE  Effective(r) \in Config \cup {Off}
  BY UsableTyped, VaultAssumption DEF Effective, Row

\* The columns that are written one by one make a row.
LEMMA MergedTyped ==
  ASSUME VaultTypeOK, NEW seen \in Row \cup {Null}, NEW new \in Row,
         seen # Null => row # Null
  PROVE  /\ Merged(seen, new) \in Row
         /\ row = seen => Merged(seen, new) = new
  <1>1. CASE seen = Null
    BY <1>1 DEF Merged
  <1>2. CASE seen # Null
    <2>1. seen \in Row /\ row \in Row
      BY <1>2 DEF VaultTypeOK
    <2>2. DOMAIN new = {"on", "token", "place"}
      BY DEF Row
    <2>3. Merged(seen, new) = [on |-> IF new.on # seen.on THEN new.on ELSE row.on,
                               token |-> IF new.token # seen.token THEN new.token ELSE row.token,
                               place |-> IF new.place # seen.place THEN new.place ELSE row.place]
      BY <1>2, <2>2 DEF Merged
    <2>4. Merged(seen, new) \in Row
      BY <2>1, <2>3 DEF Row
    <2>5. row = seen => Merged(seen, new) = new
      BY <2>1, <2>3 DEF Row
    <2>. QED
      BY <2>4, <2>5
  <1>. QED
    BY <1>1, <1>2

\* Taking and releasing a lock.
LEMMA LockTyped ==
  ASSUME VaultTypeOK, NEW p
  PROVE  /\ \A who \in {"sync"} \cup Edits : Acquire(p, who) => lock' \in [Procs -> Lock]
         /\ Release(p) => lock' \in [Procs -> Lock]
  BY DEF VaultTypeOK, Acquire, Release, Lock

LEMMA WriteTyped ==
  ASSUME VaultTyped, NEW e \in Edits, edit[e].seen = Null => row = Null,
         Write(Merged(edit[e].seen, edit[e].new))
  PROVE  row' \in Row /\ written' \in Nat
  <1>1. edit[e].seen \in Row \cup {Null} /\ edit[e].new \in Row
    BY DEF VaultTyped, VaultTypeOK, Edit
  <1>. QED
    BY <1>1, MergedTyped DEF Write, VaultTyped, VaultTypeOK, Kept

LEMMA VaultTypeInit == VaultInit => VaultTyped
  BY NoEditTyped DEF VaultInit, VaultTyped, VaultTypeOK, Placed, Kept, Off, Lock, NoEdit

LEMMA BeginTyped ==
  ASSUME VaultTyped, NEW e \in Edits, NEW p \in Procs, NEW pc \in {"token", "read"},
         NEW new \in Row, Begin(e, p, pc, new)
  PROVE  VaultTyped'
  <1> DEFINE t == [pc |-> pc, p |-> p, new |-> new, seen |-> Null]
  <1>1. t \in Edit
    BY DEF Edit
  <1>2. edit' = [edit EXCEPT ![e] = t] /\ edit' \in [Edits -> Edit]
    BY <1>1 DEF Begin, VaultTyped, VaultTypeOK
  <1>. QED
    BY <1>2 DEF Begin, VaultTyped, VaultTypeOK, Placed, Kept

LEMMA VaultTypeNext == VaultTyped /\ [VaultNext]_vaultVars => VaultTyped'
  <1> SUFFICES ASSUME VaultTyped, [VaultNext]_vaultVars PROVE VaultTyped'
    OBVIOUS
  <1>1. ASSUME NEW p \in Procs, SyncStart(p) PROVE VaultTyped'
    <2>1. lock' \in [Procs -> Lock]
      BY <1>1, LockTyped DEF SyncStart, VaultTyped
    <2>. QED
      BY <1>1, <2>1 DEF SyncStart, VaultTyped, VaultTypeOK, Placed, Kept
  <1>2. ASSUME NEW p \in Procs, SyncRead(p) \/ SyncFails(p) PROVE VaultTyped'
    <2>1. lock' \in [Procs -> Lock]
      BY <1>2, LockTyped DEF SyncRead, SyncFails, VaultTyped
    <2>2. svc' \in [Procs -> Config \cup {Off}]
      BY <1>2, EffectiveTyped, UsableTyped, VaultAssumption
         DEF SyncRead, SyncFails, VaultTyped, VaultTypeOK
    <2>3. last' \in [Procs -> {"none", "ok", "failed"}]
      BY <1>2 DEF SyncRead, SyncFails, VaultTyped, VaultTypeOK
    <2>. QED
      BY <1>2, <2>1, <2>2, <2>3 DEF SyncRead, SyncFails, VaultTyped, VaultTypeOK, Placed, Kept
  <1>3. ASSUME NEW p \in Procs, Restart(p) PROVE VaultTyped'
    <2>1. lock' \in [Procs -> Lock]
      BY <1>3, LockTyped DEF Restart, VaultTyped
    <2>2. /\ edit' \in [Edits -> Edit]
          /\ \A e \in Edits : edit'[e] \in {edit[e], NoEdit}
      BY <1>3, NoEditTyped DEF Restart, VaultTyped, VaultTypeOK
    <2>3. /\ svc' \in [Procs -> Config \cup {Off}] /\ synced' \in [Procs -> Nat]
          /\ last' \in [Procs -> {"none", "ok", "failed"}]
      BY <1>3 DEF Restart, VaultTyped, VaultTypeOK
    <2>4. Placed' /\ Kept'
      BY <1>3, <2>2 DEF Restart, VaultTyped, Placed, Kept, NoEdit
    <2>. QED
      BY <1>3, <2>1, <2>2, <2>3, <2>4 DEF Restart, VaultTyped, VaultTypeOK
  <1>4. ASSUME NEW e \in Edits, NEW p \in Procs, NEW place \in Places, NEW token \in Tokens,
               PutConfig(e, p, token, place)
        PROVE  VaultTyped'
    <2>1. [on |-> TRUE, token |-> token, place |-> place] \in Row
      BY DEF Row
    <2>. QED
      BY <1>4, <2>1, BeginTyped DEF PutConfig
  <1>5. ASSUME NEW e \in Edits, NEW p \in Procs, NEW place \in Places, PutKeepToken(e, p, place)
        PROVE  VaultTyped'
    <2>1. [on |-> TRUE, token |-> Null, place |-> place] \in Row
      BY DEF Row
    <2>. QED
      BY <1>5, <2>1, BeginTyped DEF PutKeepToken
  <1>6. ASSUME NEW e \in Edits, NEW p \in Procs, DeleteConfig(e, p) PROVE VaultTyped'
    <2>1. Disabled \in Row
      BY DEF Disabled, Row
    <2>. QED
      BY <1>6, <2>1, BeginTyped DEF DeleteConfig
  <1>7. ASSUME NEW e \in Edits, KeepToken(e) PROVE VaultTyped'
    <2> DEFINE p == edit[e].p
               t == [edit[e] EXCEPT !.pc = "read", !.new.token = svc[p].token]
    <2>1. edit[e] \in Edit /\ p \in Procs
      BY <1>7 DEF KeepToken, VaultTyped, VaultTypeOK, Placed
    <2>2. ASSUME svc[p] # Off PROVE t \in Edit /\ t.p = p /\ t.seen = edit[e].seen
      <3>1. svc[p] \in Config
        BY <2>1, <2>2 DEF VaultTyped, VaultTypeOK
      <3>. QED
        BY <2>1, <3>1 DEF Config, Edit, Row
    <2>3. edit' = [edit EXCEPT ![e] = IF svc[p] = Off THEN NoEdit ELSE t]
      BY <1>7 DEF KeepToken
    <2>4. edit' \in [Edits -> Edit]
      BY <2>2, <2>3, NoEditTyped DEF VaultTyped, VaultTypeOK
    <2>5. Placed' /\ Kept'
      BY <1>7, <2>1, <2>2, <2>3, <2>4 DEF KeepToken, VaultTyped, VaultTypeOK, Placed, Kept, NoEdit
    <2>. QED
      BY <1>7, <2>4, <2>5 DEF KeepToken, VaultTyped, VaultTypeOK
  <1>8. ASSUME NEW e \in Edits, EditRead(e) PROVE VaultTyped'
    <2>1. lock' \in [Procs -> Lock]
      BY <1>8, LockTyped DEF EditRead, VaultTyped
    <2>2. /\ edit' \in [Edits -> Edit]
          /\ \A f \in Edits : edit'[f].p = edit[f].p /\ edit'[f].seen \in {edit[f].seen, row}
          /\ \A f \in Edits : edit'[f].pc # "idle" => edit[f].pc # "idle"
      BY <1>8 DEF EditRead, VaultTyped, VaultTypeOK, Edit
    <2>3. Placed' /\ Kept'
      BY <1>8, <2>2 DEF EditRead, VaultTyped, Placed, Kept
    <2>. QED
      BY <1>8, <2>1, <2>2, <2>3 DEF EditRead, VaultTyped, VaultTypeOK
  <1>9. ASSUME NEW e \in Edits, EditCommit(e) PROVE VaultTyped'
    <2>1. row' \in Row /\ written' \in Nat
      BY <1>9, WriteTyped DEF EditCommit
    <2>2. /\ edit' \in [Edits -> Edit]
          /\ \A f \in Edits : edit'[f].p = edit[f].p
          /\ \A f \in Edits : edit'[f].pc # "idle" => edit[f].pc # "idle"
      BY <1>9 DEF EditCommit, VaultTyped, VaultTypeOK, Edit
    <2>3. Placed' /\ Kept'
      BY <2>1, <2>2, NoRowAssumption DEF VaultTyped, Placed, Kept
    <2>. QED
      BY <1>9, <2>1, <2>2, <2>3 DEF EditCommit, VaultTyped, VaultTypeOK
  <1>10. ASSUME NEW e \in Edits, EditApply(e) PROVE VaultTyped'
    <2>1. lock' \in [Procs -> Lock]
      BY <1>10, LockTyped DEF EditApply, VaultTyped
    <2>2. edit' = [edit EXCEPT ![e] = NoEdit] /\ edit' \in [Edits -> Edit]
      BY <1>10, NoEditTyped DEF EditApply, VaultTyped, VaultTypeOK
    <2>3. /\ svc' \in [Procs -> Config \cup {Off}] /\ synced' \in [Procs -> Nat]
          /\ last' \in [Procs -> {"none", "ok", "failed"}]
      BY <1>10, EffectiveTyped DEF EditApply, VaultTyped, VaultTypeOK, Edit
    <2>4. Placed' /\ Kept'
      BY <1>10, <2>2 DEF EditApply, VaultTyped, VaultTypeOK, Placed, Kept, NoEdit
    <2>. QED
      BY <1>10, <2>1, <2>2, <2>3, <2>4 DEF EditApply, VaultTyped, VaultTypeOK
  <1>11. ASSUME NEW e \in Edits, EditFails(e) PROVE VaultTyped'
    <2>1. lock' \in [Procs -> Lock]
      BY <1>11, LockTyped DEF EditFails, VaultTyped
    <2>2. edit' = [edit EXCEPT ![e] = NoEdit] /\ edit' \in [Edits -> Edit]
      BY <1>11, NoEditTyped DEF EditFails, VaultTyped, VaultTypeOK
    <2>3. UNCHANGED <<row, written>> \/ (row' \in Row /\ written' \in Nat)
      BY <1>11, WriteTyped DEF EditFails
    <2>4. Placed' /\ Kept'
      BY <2>2, <2>3, NoRowAssumption DEF VaultTyped, VaultTypeOK, Placed, Kept, NoEdit
    <2>. QED
      BY <1>11, <2>1, <2>2, <2>3, <2>4 DEF EditFails, VaultTyped, VaultTypeOK
  <1>12. CASE Tick \/ UNCHANGED vaultVars
    BY <1>12 DEF Tick, vaultVars, VaultTyped, VaultTypeOK, Placed, Kept
  <1>. QED
    BY <1>1, <1>2, <1>3, <1>4, <1>5, <1>6, <1>7, <1>8, <1>9, <1>10, <1>11, <1>12 DEF VaultNext

\* VaultConfig, services/vault_service.py:97-239: the row, the copies and the edits keep their
\* shape, for any number of processes and edits.
THEOREM VaultTypeCorrect == VaultSpec => []VaultTypeOK
  <1>1. VaultTyped => VaultTypeOK
    BY DEF VaultTyped
  <1>. QED
    BY <1>1, VaultTypeInit, VaultTypeNext, PTL DEF VaultSpec

-----------------------------------------------------------------------------
(* VaultConfig: the workers converge.                                      *)

\* Who writes the row holds the lock of its process, and nobody holds one for long.
Holds ==
  /\ \A e \in Edits : edit[e].pc \in {"commit", "apply"} => lock[edit[e].p].by = e
  /\ \A p \in Procs : ~Free(p) => lock[p].at <= clock /\ clock <= lock[p].at + MaxHold

Past == written <= clock /\ \A p \in Procs : synced[p] <= clock

\* Since e took the lock, the row is what it has seen or written, or it has changed.
Since(e) == written >= lock[edit[e].p].at
Edited ==
  \A e \in Edits : /\ edit[e].pc = "commit" => row = edit[e].seen \/ Since(e)
                   /\ edit[e].pc = "apply" => row = edit[e].new \/ Since(e)

\* A copy that differs from the row is not much younger than the row.
CopyIsOld(p) ==
  last[p] = "ok" /\ lock[p].by # "sync" /\ svc[p] # Effective(row)
    => synced[p] <= written + MaxHold
Copied == \A p \in Procs : CopyIsOld(p)

ConvergesInv == Holds /\ Past /\ Edited /\ Copied

LEMMA ConvergesInit == VaultInit => ConvergesInv
  BY VaultAssumption
     DEF VaultInit, ConvergesInv, Holds, Past, Edited, Copied, CopyIsOld, Free, NoEdit

\* Where the row, the clock and the copy of p stay, and p was not being synchronised.
LEMMA CopyStays ==
  ASSUME NEW p \in Procs, CopyIsOld(p), UNCHANGED <<row, written, svc[p], synced[p], last[p]>>,
         lock'[p].by # "sync" => lock[p].by # "sync"
  PROVE  CopyIsOld(p)'
  BY DEF CopyIsOld, Effective

\* A change of the row is younger than every copy.
LEMMA CopyOfOldRow ==
  ASSUME VaultTyped, Past, NEW p \in Procs, CopyIsOld(p), NEW r, Write(r),
         UNCHANGED <<svc[p], synced[p], last[p]>>, lock'[p].by # "sync" => lock[p].by # "sync"
  PROVE  CopyIsOld(p)'
  <1>1. CASE r = row
    BY <1>1, CopyStays DEF Write
  <1>2. CASE r # row
    <2>1. synced'[p] <= written' + MaxHold
      BY <1>2, VaultAssumption DEF Write, Past, VaultTyped, VaultTypeOK
    <2>. QED
      BY <2>1 DEF CopyIsOld
  <1>. QED
    BY <1>1, <1>2

\* ... and than every lock.
LEMMA WriteIsSince ==
  ASSUME VaultTyped, ConvergesInv, NEW r, Write(r),
         NEW e \in Edits, edit[e].pc \in {"commit", "apply"}
  PROVE  /\ written' \in Nat /\ written <= written' /\ written' <= clock
         /\ row' = row \/ written' >= lock[edit[e].p].at
  <1>1. edit[e].p \in Procs /\ lock[edit[e].p].by = e
    BY DEF VaultTyped, Placed, ConvergesInv, Holds
  <1>2. lock[edit[e].p].at <= clock
    BY <1>1, VaultAssumption DEF ConvergesInv, Holds, Free
  <1>3. clock \in Nat /\ written \in Nat /\ written <= clock /\ lock[edit[e].p].at \in Nat
    BY <1>1 DEF VaultTyped, VaultTypeOK, ConvergesInv, Past, Lock
  <1>. QED
    BY <1>2, <1>3 DEF Write

\* Where no edit that writes begins, ends or loses its lock.
LEMMA EditsStay ==
  ASSUME Holds, Edited, UNCHANGED <<row, written>>,
         \A e \in Edits : edit'[e].pc \in {"commit", "apply"} =>
           edit'[e] = edit[e] /\ lock'[edit[e].p] = lock[edit[e].p]
  PROVE  Edited' /\ \A e \in Edits :
           edit'[e].pc \in {"commit", "apply"} => lock'[edit'[e].p].by = e
  BY DEF Holds, Edited, Since

LEMMA ConvergesNext == VaultTyped /\ ConvergesInv /\ [VaultNext]_vaultVars => ConvergesInv'
  <1> SUFFICES ASSUME VaultTyped, ConvergesInv, [VaultNext]_vaultVars PROVE ConvergesInv'
    OBVIOUS
  <1>. USE DEF ConvergesInv
  <1>a. clock \in Nat /\ written \in Nat /\ MaxHold \in Nat
    BY VaultAssumption DEF VaultTyped, VaultTypeOK
  <1>b. \A p \in Procs : synced[p] \in Nat /\ lock[p] \in Lock
    BY DEF VaultTyped, VaultTypeOK
  <1>c. "nobody" \notin Edits /\ "sync" \notin Edits
    BY VaultAssumption
  <1>1. ASSUME NEW p \in Procs, SyncStart(p) PROVE ConvergesInv'
    <2>1. lock' = [lock EXCEPT ![p] = [by |-> "sync", at |-> clock]] /\ lock[p].by = "nobody"
      BY <1>1 DEF SyncStart, Acquire, Free
    <2>2. Edited' /\ \A e \in Edits :
            edit'[e].pc \in {"commit", "apply"} => lock'[edit'[e].p].by = e
      <3>1. \A e \in Edits : edit[e].pc \in {"commit", "apply"} => edit[e].p # p
        BY <2>1, <1>c DEF Holds
      <3>. QED
        BY <1>1, <2>1, <3>1, EditsStay DEF SyncStart
    <2>3. \A q \in Procs : ~Free(q)' => lock'[q].at <= clock' /\ clock' <= lock'[q].at + MaxHold
      BY <1>1, <2>1, <1>a, <1>b DEF SyncStart, Holds, Free, VaultTyped, VaultTypeOK
    <2>4. Past'
      BY <1>1, <1>a DEF SyncStart, Past, VaultTyped, VaultTypeOK
    <2>5. ASSUME NEW q \in Procs PROVE CopyIsOld(q)'
      <3>1. CASE q = p
        BY <2>1, <3>1 DEF CopyIsOld, VaultTyped, VaultTypeOK
      <3>2. CASE q # p
        BY <1>1, <2>1, <3>2, CopyStays DEF SyncStart, Copied, VaultTyped, VaultTypeOK
      <3>. QED
        BY <3>1, <3>2
    <2>. QED
      BY <2>2, <2>3, <2>4, <2>5 DEF Holds, Copied
  <1>2. ASSUME NEW p \in Procs, SyncRead(p) \/ SyncFails(p) PROVE ConvergesInv'
    <2>1. /\ lock' = [lock EXCEPT ![p] = [by |-> "nobody", at |-> 0]] /\ lock[p].by = "sync"
          /\ UNCHANGED <<clock, row, synced, edit, written>>
      BY <1>2 DEF SyncRead, SyncFails, Release
    <2>2. Edited' /\ \A e \in Edits :
            edit'[e].pc \in {"commit", "apply"} => lock'[edit'[e].p].by = e
      <3>1. \A e \in Edits : edit[e].pc \in {"commit", "apply"} => edit[e].p # p
        BY <2>1, <1>c DEF Holds
      <3>. QED
        BY <2>1, <3>1, EditsStay
    <2>3. \A q \in Procs : ~Free(q)' => lock'[q].at <= clock' /\ clock' <= lock'[q].at + MaxHold
      BY <2>1 DEF Holds, Free, VaultTyped, VaultTypeOK
    <2>4. Past'
      BY <2>1 DEF Past
    <2>5. ASSUME NEW q \in Procs PROVE CopyIsOld(q)'
      <3>1. CASE q = p /\ SyncRead(p)
        <4>1. svc'[q] = Effective(row)'
          BY <2>1, <3>1 DEF SyncRead, VaultTyped, VaultTypeOK, Effective
        <4>. QED
          BY <4>1 DEF CopyIsOld
      <3>2. CASE q = p /\ SyncFails(p)
        BY <3>2 DEF SyncFails, CopyIsOld, VaultTyped, VaultTypeOK
      <3>3. CASE q # p
        <4>1. UNCHANGED <<row, written, svc[q], synced[q], last[q]>> /\ lock'[q] = lock[q]
          BY <1>2, <2>1, <3>3 DEF SyncRead, SyncFails, VaultTyped, VaultTypeOK
        <4>. QED
          BY <4>1, CopyStays DEF Copied
      <3>. QED
        BY <1>2, <3>1, <3>2, <3>3
    <2>. QED
      BY <2>2, <2>3, <2>4, <2>5 DEF Holds, Copied
  <1>3. ASSUME NEW p \in Procs, Restart(p) PROVE ConvergesInv'
    <2>1. /\ lock' = [lock EXCEPT ![p] = [by |-> "sync", at |-> clock]]
          /\ UNCHANGED <<clock, row, written>>
      BY <1>3 DEF Restart, Acquire
    <2>2. Edited' /\ \A e \in Edits :
            edit'[e].pc \in {"commit", "apply"} => lock'[edit'[e].p].by = e
      <3>1. \A e \in Edits : edit'[e].pc \in {"commit", "apply"} =>
              edit'[e] = edit[e] /\ edit[e].p # p
        BY <1>3 DEF Restart, NoEdit
      <3>. QED
        BY <2>1, <3>1, EditsStay
    <2>3. \A q \in Procs : ~Free(q)' => lock'[q].at <= clock' /\ clock' <= lock'[q].at + MaxHold
      BY <2>1, <1>a, <1>b DEF Holds, Free, VaultTyped, VaultTypeOK
    <2>4. Past'
      BY <1>3, <1>a DEF Restart, Past, VaultTyped, VaultTypeOK
    <2>5. ASSUME NEW q \in Procs PROVE CopyIsOld(q)'
      <3>1. CASE q = p
        BY <2>1, <3>1 DEF CopyIsOld, VaultTyped, VaultTypeOK
      <3>2. CASE q # p
        BY <1>3, <2>1, <3>2, CopyStays DEF Restart, Copied, VaultTyped, VaultTypeOK
      <3>. QED
        BY <3>1, <3>2
    <2>. QED
      BY <2>2, <2>3, <2>4, <2>5 DEF Holds, Copied
  <1>4. CASE UNCHANGED <<clock, row, svc, synced, lock, written, last>> /\ \E e \in Edits :
          /\ \A f \in Edits \ {e} : edit'[f] = edit[f]
          /\ edit'[e].pc \notin {"commit", "apply"}
    <2>1. Edited' /\ \A e \in Edits :
            edit'[e].pc \in {"commit", "apply"} => lock'[edit'[e].p].by = e
      BY <1>4, EditsStay
    <2>2. Copied'
      BY <1>4 DEF Copied, CopyIsOld, Effective
    <2>. QED
      BY <1>4, <2>1, <2>2 DEF Holds, Past, Free
  <1>5. ASSUME NEW e \in Edits, EditRead(e) PROVE ConvergesInv'
    <2> DEFINE p == edit[e].p
    <2>1. /\ lock' = [lock EXCEPT ![p] = [by |-> e, at |-> clock]] /\ lock[p].by = "nobody"
          /\ edit' = [edit EXCEPT ![e] = [@ EXCEPT !.pc = "commit", !.seen = row]]
          /\ UNCHANGED <<clock, row, svc, synced, written, last>>
      BY <1>5 DEF EditRead, Acquire, Free
    <2>2. p \in Procs /\ edit[e] \in Edit
      BY <1>5 DEF EditRead, VaultTyped, VaultTypeOK, Placed
    <2>3. /\ edit'[e].pc = "commit" /\ edit'[e].seen = row' /\ edit'[e].p = p
          /\ lock'[p].by = e
      BY <2>1, <2>2 DEF VaultTyped, VaultTypeOK, Edit
    <2>4. ASSUME NEW f \in Edits, f # e, edit'[f].pc \in {"commit", "apply"}
          PROVE  edit'[f] = edit[f] /\ edit[f].p # p /\ lock'[edit[f].p] = lock[edit[f].p]
      BY <2>1, <2>4, <1>c DEF Holds, VaultTyped, VaultTypeOK
    <2>5. Edited'
      BY <2>1, <2>3, <2>4 DEF Edited, Since
    <2>6. Holds'
      <3>1. \A f \in Edits : edit'[f].pc \in {"commit", "apply"} => lock'[edit'[f].p].by = f
        BY <2>3, <2>4 DEF Holds
      <3>2. \A q \in Procs : ~Free(q)' => lock'[q].at <= clock' /\ clock' <= lock'[q].at + MaxHold
        BY <2>1, <1>a, <1>b DEF Holds, Free, VaultTyped, VaultTypeOK
      <3>. QED
        BY <3>1, <3>2 DEF Holds
    <2>7. ASSUME NEW q \in Procs PROVE CopyIsOld(q)'
      <3>1. lock'[q].by # "sync" => lock[q].by # "sync"
        BY <2>1 DEF VaultTyped, VaultTypeOK
      <3>. QED
        BY <2>1, <3>1, CopyStays DEF Copied
    <2>. QED
      BY <2>1, <2>5, <2>6, <2>7 DEF Past, Copied
  <1>6. ASSUME NEW e \in Edits, EditCommit(e) PROVE ConvergesInv'
    <2> DEFINE r == Merged(edit[e].seen, edit[e].new)
    <2>1. /\ edit[e].pc = "commit" /\ Write(r)
          /\ edit' = [edit EXCEPT ![e].pc = "apply"]
          /\ UNCHANGED <<clock, svc, synced, lock, last>>
      BY <1>6 DEF EditCommit
    <2>2. /\ edit'[e].pc = "apply" /\ edit'[e].p = edit[e].p /\ edit'[e].new = edit[e].new
          /\ edit[e].new \in Row /\ edit[e].seen \in Row \cup {Null} /\ edit[e].p \in Procs
          /\ \A f \in Edits : f # e => edit'[f] = edit[f]
      BY <2>1 DEF VaultTyped, VaultTypeOK, Edit, Placed
    <2>3. \A f \in Edits : edit[f].pc \in {"commit", "apply"} =>
            row' = row \/ written' >= lock[edit[f].p].at
      BY <2>1, WriteIsSince
    <2>4. written' \in Nat /\ written <= written' /\ written' <= clock
      BY <2>1, WriteIsSince
    <2>5. row' = edit[e].new \/ written' >= lock[edit[e].p].at
      <3>1. CASE row = edit[e].seen
        <4>1. r = edit[e].new
          BY <2>2, <3>1, MergedTyped DEF VaultTyped, Kept
        <4>. QED
          BY <2>1, <4>1 DEF Write
      <3>2. CASE Since(e)
        BY <2>2, <2>4, <3>2, <1>a, <1>b DEF Since, Lock
      <3>. QED
        BY <2>1, <3>1, <3>2 DEF Edited
    <2>6. Edited'
      <3>1. ASSUME NEW f \in Edits, f # e, edit[f].pc \in {"commit", "apply"}
            PROVE  row' = row \/ Since(f)'
        BY <2>1, <2>2, <2>3, <3>1 DEF Since
      <3>2. ASSUME NEW f \in Edits, f # e, edit[f].pc \in {"commit", "apply"}, Since(f)
            PROVE  Since(f)'
        <4>1. edit[f].p \in Procs
          BY <3>2 DEF VaultTyped, Placed
        <4>. QED
          BY <2>1, <2>2, <2>4, <3>2, <4>1, <1>a, <1>b DEF Since, Lock
      <3>3. Since(e)' \/ row' = edit'[e].new
        BY <2>1, <2>2, <2>5 DEF Since
      <3>. QED
        BY <2>1, <2>2, <3>1, <3>2, <3>3 DEF Edited
    <2>7. Holds'
      BY <2>1, <2>2 DEF Holds, Free
    <2>8. Past'
      BY <2>1, <2>4 DEF Past
    <2>9. Copied'
      BY <2>1, CopyOfOldRow DEF Copied
    <2>. QED
      BY <2>6, <2>7, <2>8, <2>9
  <1>7. ASSUME NEW e \in Edits, EditApply(e) PROVE ConvergesInv'
    <2> DEFINE p == edit[e].p
    <2>1. /\ edit[e].pc = "apply"
          /\ lock' = [lock EXCEPT ![p] = [by |-> "nobody", at |-> 0]]
          /\ edit' = [edit EXCEPT ![e] = NoEdit]
          /\ synced' = [synced EXCEPT ![p] = clock]
          /\ svc' = [svc EXCEPT ![p] = Effective(edit[e].new)]
          /\ last' = [last EXCEPT ![p] = "ok"]
          /\ UNCHANGED <<clock, row, written>>
      BY <1>7 DEF EditApply, Release
    <2>2. p \in Procs /\ lock[p].by = e
      BY <2>1 DEF VaultTyped, Placed, Holds
    <2>3. Edited' /\ \A f \in Edits :
            edit'[f].pc \in {"commit", "apply"} => lock'[edit'[f].p].by = f
      <3>1. \A f \in Edits : edit'[f].pc \in {"commit", "apply"} =>
              edit'[f] = edit[f] /\ edit[f].p # p
        BY <2>1, <2>2 DEF NoEdit, Holds, VaultTyped, VaultTypeOK
      <3>. QED
        BY <2>1, <3>1, EditsStay
    <2>4. \A q \in Procs : ~Free(q)' => lock'[q].at <= clock' /\ clock' <= lock'[q].at + MaxHold
      BY <2>1 DEF Holds, Free, VaultTyped, VaultTypeOK
    <2>5. Past'
      BY <2>1, <1>a DEF Past, VaultTyped, VaultTypeOK
    <2>6. ASSUME NEW q \in Procs PROVE CopyIsOld(q)'
      <3>1. CASE q # p
        BY <2>1, <3>1, CopyStays DEF Copied, VaultTyped, VaultTypeOK
      <3>2. CASE q = p /\ row = edit[e].new
        <4>1. svc'[q] = Effective(row)'
          BY <2>1, <2>2, <3>2 DEF VaultTyped, VaultTypeOK, Effective
        <4>. QED
          BY <4>1 DEF CopyIsOld
      <3>3. CASE q = p /\ Since(e)
        <4>1. clock <= lock[p].at + MaxHold
          BY <2>2, <1>c DEF Holds, Free
        <4>2. synced'[q] <= written' + MaxHold
          BY <2>1, <2>2, <3>3, <4>1, <1>a, <1>b DEF Since, Lock, VaultTyped, VaultTypeOK
        <4>. QED
          BY <4>2 DEF CopyIsOld
      <3>. QED
        BY <2>1, <3>1, <3>2, <3>3 DEF Edited
    <2>. QED
      BY <2>3, <2>4, <2>5, <2>6 DEF Holds, Copied
  <1>8. ASSUME NEW e \in Edits, EditFails(e) PROVE ConvergesInv'
    <2> DEFINE p == edit[e].p
    <2>1. /\ edit[e].pc = "commit"
          /\ lock' = [lock EXCEPT ![p] = [by |-> "nobody", at |-> 0]]
          /\ edit' = [edit EXCEPT ![e] = NoEdit]
          /\ UNCHANGED <<clock, svc, synced, last>>
      BY <1>8 DEF EditFails, Release
    <2>2. Write(row) \/ Write(Merged(edit[e].seen, edit[e].new))
      BY <1>8 DEF EditFails, Write
    <2>3. p \in Procs /\ lock[p].by = e
      BY <2>1 DEF VaultTyped, Placed, Holds
    <2>4. \A f \in Edits : edit'[f].pc \in {"commit", "apply"} =>
            edit'[f] = edit[f] /\ edit[f].p # p /\ lock'[edit[f].p] = lock[edit[f].p]
      BY <2>1, <2>3 DEF NoEdit, Holds, VaultTyped, VaultTypeOK
    <2>5. \A f \in Edits : edit[f].pc \in {"commit", "apply"} =>
            row' = row \/ written' >= lock[edit[f].p].at
      BY <2>2, WriteIsSince
    <2>6. written' \in Nat /\ written <= written' /\ written' <= clock
      BY <2>1, <2>2, WriteIsSince
    <2>7. Edited'
      <3>1. ASSUME NEW f \in Edits, edit'[f].pc \in {"commit", "apply"}
            PROVE  /\ row' = row \/ Since(f)'
                   /\ Since(f) => Since(f)'
        <4>1. edit[f].p \in Procs
          BY <2>4, <3>1 DEF VaultTyped, Placed
        <4>. QED
          BY <2>4, <2>5, <2>6, <3>1, <4>1, <1>a, <1>b DEF Since, Lock
      <3>. QED
        BY <2>4, <3>1 DEF Edited
    <2>8. Holds'
      BY <2>1, <2>4 DEF Holds, Free, VaultTyped, VaultTypeOK
    <2>9. Past'
      BY <2>1, <2>6 DEF Past
    <2>10. ASSUME NEW q \in Procs PROVE CopyIsOld(q)'
      <3>1. lock'[q].by # "sync" => lock[q].by # "sync"
        BY <2>1, <2>3, <1>c DEF VaultTyped, VaultTypeOK
      <3>. QED
        BY <2>1, <2>2, <3>1, CopyOfOldRow DEF Copied
    <2>. QED
      BY <2>7, <2>8, <2>9, <2>10 DEF Copied
  <1>9. CASE Tick
    <2>1. UNCHANGED <<row, svc, synced, lock, edit, written, last>> /\ clock' = clock + 1
      BY <1>9 DEF Tick
    <2>2. Edited' /\ Copied'
      BY <2>1 DEF Edited, Since, Copied, CopyIsOld, Effective
    <2>3. Holds'
      <3>1. \A p \in Procs : ~Free(p) => clock + 1 <= lock[p].at + MaxHold
        BY <1>9, <1>a, <1>b DEF Tick, Lock, Holds
      <3>. QED
        BY <2>1, <3>1, <1>a, <1>b DEF Holds, Free, Lock
    <2>4. Past'
      BY <2>1, <1>a, <1>b DEF Past
    <2>. QED
      BY <2>2, <2>3, <2>4
  <1>10. CASE UNCHANGED vaultVars
    BY <1>10 DEF vaultVars, Holds, Past, Edited, Since, Copied, CopyIsOld, Effective, Free
  <1>11. ASSUME NEW e \in Edits, NEW p, NEW pc \in {"token", "read"}, NEW new,
                Begin(e, p, pc, new)
         PROVE  ConvergesInv'
    BY <1>4, <1>11 DEF Begin, VaultTyped, VaultTypeOK
  <1>12. ASSUME NEW e \in Edits, KeepToken(e) PROVE ConvergesInv'
    <2>1. edit'[e].pc \in {"idle", "read"}
      BY <1>12 DEF KeepToken, NoEdit, VaultTyped, VaultTypeOK, Edit
    <2>. QED
      BY <1>4, <1>12, <2>1 DEF KeepToken, VaultTyped, VaultTypeOK
  <1>. QED
    BY <1>1, <1>2, <1>3, <1>5, <1>6, <1>7, <1>8, <1>9, <1>10, <1>11, <1>12
       DEF VaultNext, PutKeepToken, PutConfig, DeleteConfig

\* services/vault_service.py:179-229: whatever edits race each other, fail or die, on any number
\* of workers, once the row has been the same for the interval and the longest hold of a lock,
\* every worker that trusts a copy from its last use of the row has what the row says.
THEOREM WorkersConverge == VaultSpec => []Converges
  <1>1. VaultTyped /\ ConvergesInv => Converges
    <2> SUFFICES ASSUME VaultTyped, ConvergesInv, NEW p \in Procs, Free(p), Recent(p),
                        last[p] = "ok", clock - written >= Interval + MaxHold,
                        svc[p] # Effective(row)
                 PROVE  FALSE
      BY DEF Converges
    <2>1. synced[p] <= written + MaxHold
      BY VaultAssumption DEF ConvergesInv, Copied, CopyIsOld, Free
    <2>2. clock - synced[p] < Interval
      BY DEF Recent
    <2>. QED
      BY <2>1, <2>2, VaultAssumption DEF VaultTyped, VaultTypeOK
  <1>2. VaultInit => VaultTyped /\ ConvergesInv
    BY VaultTypeInit, ConvergesInit
  <1>3. VaultTyped /\ ConvergesInv /\ [VaultNext]_vaultVars => VaultTyped' /\ ConvergesInv'
    BY VaultTypeNext, ConvergesNext
  <1>. QED
    BY <1>1, <1>2, <1>3, PTL DEF VaultSpec


-----------------------------------------------------------------------------
(* KubeconfigPanel: the actions by what they do to the form and the request. *)

\* What the effect leaves behind: no timer, or one with the values of the render, for a
\* user whose kubeconfig is generated without a click.
Armed(k) ==
  \/ debounce' = None
  \/ AutoGenerated' /\ debounce' = Choice(selected', k, namespace')

LEMMA DebounceArms ==
  ASSUME NEW k, NEW n, NEW nsOnly, Debounce(k, n, nsOnly), namespace' = n
  PROVE  Armed(k)
  BY DEF Debounce, Armed, Unarmed

LEMMA BecomesResets ==
  ASSUME NEW u, Becomes(u)
  PROVE  Forget /\ (Armed(privateKey) \/ Armed(None))
  BY DebounceArms DEF Becomes

\* Where a list of users arrives, the panel is reset or stays as it is, but for the timer.
LEMMA ListedCases ==
  ASSUME NEW us, Listed(us)
  PROVE  \/ \E u \in Matches(us) : Becomes(u)
         \/ UNCHANGED <<selected, namespace, privateKey, generate>> /\ Armed(privateKey)
  <1>1. CASE preselectionDone \/ us = {}
    BY <1>1, DebounceArms DEF Listed
  <1>2. CASE ~(preselectionDone \/ us = {})
    BY <1>2, DebounceArms DEF Listed
  <1>. QED
    BY <1>1, <1>2

-----------------------------------------------------------------------------
(* KubeconfigPanel: types. *)

LEMMA TypeInit == Init => TypeOK
  BY ConstantsAssumption DEF Init, TypeOK

LEMMA ChoiceTyped ==
  ASSUME NEW u \in Users, NEW k \in Users \cup {None}, NEW n \in Namespaces \cup {None}
  PROVE  Choice(u, k, n) \in Chosen
  BY DEF Choice, Chosen

\* A timer that is armed belongs to a user that is listed.
LEMMA ArmedTyped ==
  ASSUME NEW k \in Users \cup {None}, Armed(k),
         users' \subseteq Users, namespace' \in Namespaces \cup {None}
  PROVE  debounce' \in Chosen \cup {None}
  BY ChoiceTyped DEF Armed, AutoGenerated

LEMMA BecomesTyped ==
  ASSUME TypeOK, NEW u \in Users \cup {None}, Becomes(u), users' \subseteq Users
  PROVE  /\ selected' \in Users \cup {None} /\ namespace' \in Namespaces \cup {None}
         /\ privateKey' \in Users \cup {None} /\ debounce' \in Chosen \cup {None}
         /\ generate' = Idle
  <1>1. selected' = u /\ privateKey' = None /\ generate' = Idle
    BY DEF Becomes, Forget
  <1>2. namespace' \in Namespaces \cup {None}
    BY ConstantsAssumption DEF Becomes, TypeOK
  <1>3. debounce' \in Chosen \cup {None}
    BY <1>2, BecomesResets, ArmedTyped DEF TypeOK
  <1>. QED
    BY <1>1, <1>2, <1>3

LEMMA ListedTyped ==
  ASSUME TypeOK, NEW us \in SUBSET Users, Listed(us), cluster' \in Clusters
  PROVE  TypeOK'
  <1>1. /\ users' \subseteq Users /\ vaultEnabled' = vaultEnabled /\ upload' = upload
        /\ preselectionDone' \in BOOLEAN
    BY DEF Listed, TypeOK
  <1>2. Matches(us) \subseteq Users
    BY DEF Matches
  <1>3. CASE \E u \in Matches(us) : Becomes(u)
    BY <1>1, <1>2, <1>3, BecomesTyped DEF TypeOK
  <1>4. CASE UNCHANGED <<selected, namespace, privateKey, generate>> /\ Armed(privateKey)
    <2>1. debounce' \in Chosen \cup {None}
      BY <1>1, <1>4, ArmedTyped DEF TypeOK
    <2>. QED
      BY <1>1, <1>4, <2>1 DEF TypeOK
  <1>. QED
    BY <1>3, <1>4, ListedCases

LEMMA PendingTyped ==
  ASSUME TypeOK, NEW choice \in Chosen
  PROVE  Pending(choice) \in [pc: {"pending", "done", "failed"}, of: Chosen, on: Clusters]
  BY DEF Pending, TypeOK

LEMMA TypeNext == TypeOK /\ [Next]_vars => TypeOK'
  <1> SUFFICES ASSUME TypeOK, [Next]_vars PROVE TypeOK'
    OBVIOUS
  <1>1. CASE TimerFires
    BY <1>1, PendingTyped DEF TimerFires, TypeOK, form, answers
  <1>2. CASE GenerateClick
    <2>1. Choice(selected, privateKey, namespace) \in Chosen
      BY <1>2, ChoiceTyped, ConstantsAssumption DEF GenerateClick, TypeOK
    <2>. QED
      BY <1>2, <2>1, PendingTyped DEF GenerateClick, TypeOK, form, answers
  <1>3. CASE GenerateEnds
    <2>1. generate \in [pc: {"pending", "done", "failed"}, of: Chosen, on: Clusters]
      BY <1>3 DEF GenerateEnds, TypeOK, Idle
    <2>. QED
      BY <1>3, <2>1 DEF GenerateEnds, TypeOK, form, answers
  <1>4. ASSUME NEW u \in users \cup {None}, Select(u) PROVE TypeOK'
    <2>1. u \in Users \cup {None} /\ users' \subseteq Users /\ Becomes(u)
      BY <1>4 DEF Select, TypeOK, answers
    <2>. QED
      BY <1>4, <2>1, BecomesTyped DEF Select, TypeOK, answers
  <1>5. ASSUME NEW n \in Namespaces \cup {None}, SetNamespace(n) PROVE TypeOK'
    <2>1. Armed(privateKey)
      BY <1>5, DebounceArms DEF SetNamespace
    <2>2. debounce' \in Chosen \cup {None}
      BY <1>5, <2>1, ArmedTyped DEF SetNamespace, TypeOK, answers
    <2>. QED
      BY <1>5, <2>2 DEF SetNamespace, TypeOK, answers
  <1>6. ASSUME NEW k \in {selected, None}, TypeKey(k) PROVE TypeOK'
    BY <1>6 DEF TypeKey, TypeOK, answers
  <1>7. CASE UploadFile
    BY <1>7 DEF UploadFile, TypeOK, answers
  <1>8. CASE FileRead
    BY <1>8 DEF FileRead, TypeOK, answers
  <1>9. ASSUME NEW us \in SUBSET Users, UsersArrive(us) PROVE TypeOK'
    BY <1>9, ListedTyped DEF UsersArrive, TypeOK
  <1>10. ASSUME NEW us \in SUBSET Users, NEW c \in Clusters, SwitchCluster(c, us) PROVE TypeOK'
    BY <1>10, ListedTyped DEF SwitchCluster
  <1>11. CASE VaultStatusArrives
    <2>1. Armed(privateKey)
      BY <1>11, DebounceArms DEF VaultStatusArrives, form
    <2>2. debounce' \in Chosen \cup {None}
      BY <1>11, <2>1, ArmedTyped DEF VaultStatusArrives, TypeOK, form
    <2>. QED
      BY <1>11, <2>2 DEF VaultStatusArrives, TypeOK, form
  <1>12. CASE UNCHANGED vars
    BY <1>12 DEF vars, TypeOK
  <1>. QED
    BY <1>1, <1>2, <1>3, <1>4, <1>5, <1>6, <1>7, <1>8, <1>9, <1>10, <1>11, <1>12 DEF Next

\* KubeconfigPanel.tsx:21-53: the state of the panel keeps its shape, for any set of users,
\* namespaces and clusters.
THEOREM TypeCorrect == Spec => []TypeOK
  <1>. QED
    BY TypeInit, TypeNext, PTL DEF Spec

-----------------------------------------------------------------------------
(* KubeconfigPanel: the timer and the preview. *)

LEMMA ArmedIsCurrent ==
  ASSUME NEW k, Armed(k)
  PROVE  TimerIsCurrent'
  BY DEF Armed, TimerIsCurrent, Choice

LEMMA TimerNext == TimerIsCurrent /\ [Next]_vars => TimerIsCurrent'
  <1> SUFFICES ASSUME TimerIsCurrent, [Next]_vars PROVE TimerIsCurrent'
    OBVIOUS
  <1>1. CASE TimerFires
    BY <1>1 DEF TimerFires, TimerIsCurrent
  <1>2. CASE GenerateClick \/ GenerateEnds \/ (\E k \in {selected, None} : TypeKey(k))
               \/ UploadFile \/ FileRead \/ UNCHANGED vars
    <2>1. UNCHANGED <<debounce, selected, namespace, answers>>
      BY <1>2 DEF GenerateClick, GenerateEnds, TypeKey, UploadFile, FileRead, vars, form, answers
    <2>. QED
      BY <2>1 DEF TimerIsCurrent, AutoGenerated, answers
  <1>3. ASSUME NEW u, Becomes(u) PROVE TimerIsCurrent'
    BY <1>3, BecomesResets, ArmedIsCurrent
  <1>4. ASSUME NEW us, Listed(us) PROVE TimerIsCurrent'
    BY <1>3, <1>4, ListedCases, ArmedIsCurrent
  <1>5. ASSUME NEW n, SetNamespace(n) PROVE TimerIsCurrent'
    BY <1>5, DebounceArms, ArmedIsCurrent DEF SetNamespace
  <1>6. CASE VaultStatusArrives
    BY <1>6, DebounceArms, ArmedIsCurrent DEF VaultStatusArrives, form
  <1>. QED
    BY <1>1, <1>2, <1>3, <1>4, <1>5, <1>6 DEF Next, Select, UsersArrive, SwitchCluster

\* KubeconfigPanel.tsx:84-106: the armed timer generates for the user and the namespace that
\* are chosen when it fires, for a user that is listed, where the account may; for any lists
\* of users that may arrive in the meantime, and any switch of the cluster.
THEOREM TimerAlwaysCurrent == Spec => []TimerIsCurrent
  <1>1. Init => TimerIsCurrent
    BY DEF Init, TimerIsCurrent
  <1>. QED
    BY <1>1, TimerNext, PTL DEF Spec

LEMMA PreviewNext ==
  TypeOK /\ TimerIsCurrent /\ PreviewIsOfSelected /\ [Next]_vars => PreviewIsOfSelected'
  <1> SUFFICES ASSUME TypeOK, TimerIsCurrent, PreviewIsOfSelected, [Next]_vars
               PROVE  PreviewIsOfSelected'
    OBVIOUS
  <1>1. CASE TimerFires
    BY <1>1 DEF TimerFires, PreviewIsOfSelected, TimerIsCurrent, Pending, form
  <1>2. CASE GenerateClick
    BY <1>2 DEF GenerateClick, PreviewIsOfSelected, Pending, Choice, form
  <1>3. CASE GenerateEnds
    <2>1. generate \in [pc: {"pending", "done", "failed"}, of: Chosen, on: Clusters]
      BY <1>3 DEF GenerateEnds, TypeOK, Idle
    <2>2. generate # Idle
      BY <1>3 DEF GenerateEnds, Idle
    <2>3. generate'.of = generate.of /\ selected' = selected
      BY <1>3, <2>1 DEF GenerateEnds, form
    <2>. QED
      BY <2>2, <2>3 DEF PreviewIsOfSelected
  <1>4. ASSUME NEW u, Becomes(u) PROVE PreviewIsOfSelected'
    BY <1>4 DEF Becomes, Forget, PreviewIsOfSelected
  <1>5. ASSUME NEW us, Listed(us) PROVE PreviewIsOfSelected'
    BY <1>4, <1>5, ListedCases DEF PreviewIsOfSelected
  <1>6. CASE (\E n \in Namespaces \cup {None} : SetNamespace(n))
               \/ (\E k \in {selected, None} : TypeKey(k))
               \/ UploadFile \/ FileRead \/ VaultStatusArrives \/ UNCHANGED vars
    <2>1. UNCHANGED <<selected, generate>>
      BY <1>6 DEF SetNamespace, TypeKey, UploadFile, FileRead, VaultStatusArrives, vars, form
    <2>. QED
      BY <2>1 DEF PreviewIsOfSelected
  <1>. QED
    BY <1>1, <1>2, <1>3, <1>4, <1>5, <1>6 DEF Next, Select, UsersArrive, SwitchCluster

\* KubeconfigPanel.tsx:73-77, 114-117: the kubeconfig displayed, and saved under the name of
\* the selected user, is that user's: a request is only made for who is selected, and
\* every change of the selection resets what is under way.
THEOREM PreviewAlwaysOfSelected == Spec => []PreviewIsOfSelected
  <1>1. Init => TypeOK /\ TimerIsCurrent /\ PreviewIsOfSelected
    BY TypeInit DEF Init, TimerIsCurrent, PreviewIsOfSelected
  <1>2. TypeOK /\ TimerIsCurrent /\ PreviewIsOfSelected /\ [Next]_vars
          => TypeOK' /\ TimerIsCurrent' /\ PreviewIsOfSelected'
    BY TypeNext, TimerNext, PreviewNext
  <1>. QED
    BY <1>1, <1>2, PTL DEF Spec
=============================================================================
