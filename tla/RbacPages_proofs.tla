--------------------------- MODULE RbacPages_proofs ---------------------------
(***************************************************************************)
(* What holds of RbacPages for any namespaces and names of roles: types,   *)
(* that a list that counts as fresh has every change the page was told of, *)
(* and that only a role opened for editing is replaced.                    *)
(***************************************************************************)
EXTENDS RbacPages, TLAPS

-----------------------------------------------------------------------------
(* Types. *)

LEMMA TypeInit == Init => TypeOK
  BY DEF Init, TypeOK, Keys

LEMMA ShowsTyped ==
  ASSUME TypeOK, NEW t \in {"roles", "clusterroles"}, NEW ns \in Namespaces, NEW sys \in BOOLEAN,
         Shows(t, ns, sys)
  PROVE  TypeOK'
  BY DEF Shows, TypeOK

LEMMA InvalidateTyped ==
  ASSUME TypeOK, NEW K, Invalidate(K)
  PROVE  /\ cache' \in [Keys -> {"none", "stale", "fresh"}]
         /\ fetch' \in [Keys -> {"none", "sent", "read"}]
  BY DEF Invalidate, TypeOK

LEMMA RowTyped == TypeOK => \A n \in Names : Row(n) \in Roles
  BY DEF TypeOK, Row, Roles, Scopes

LEMMA OpenTyped ==
  ASSUME TypeOK, NEW of \in Roles \cup {None}, Open(of)
  PROVE  TypeOK'
  <1>1. editor' \in Editor
    BY DEF Open, Editor
  <1>. QED
    BY <1>1 DEF Open, TypeOK, view

LEMMA OwedTyped == \A r : OwedBy(r) \subseteq Keys
  BY DEF OwedBy

LEMMA TypeNext == TypeOK /\ [Next]_vars => TypeOK'
  <1> SUFFICES ASSUME TypeOK, [Next]_vars PROVE TypeOK'
    OBVIOUS
  <1>1. ASSUME NEW k \in Keys, ReadList(k) \/ FetchOk(k) \/ FetchFails(k) \/ GrowsStale(k)
        PROVE  TypeOK'
    BY <1>1 DEF ReadList, FetchOk, FetchFails, GrowsStale, TypeOK, view
  <1>2. ASSUME NEW t \in {"roles", "clusterroles"}, SetTab(t) PROVE TypeOK'
    BY <1>2, ShowsTyped DEF SetTab, TypeOK
  <1>3. ASSUME NEW ns \in Namespaces, SetNamespace(ns) PROVE TypeOK'
    BY <1>3, ShowsTyped DEF SetNamespace, TypeOK
  <1>4. CASE ToggleSystem
    BY <1>4, ShowsTyped DEF ToggleSystem, TypeOK
  <1>5. CASE Focus
    BY <1>5 DEF Focus, TypeOK, view
  <1>6. CASE RefreshClick
    BY <1>6, InvalidateTyped DEF RefreshClick, TypeOK, view
  <1>7. CASE CreateClick \/ CopyClick
    BY <1>7, OpenTyped DEF CreateClick, CopyClick
  <1>8. ASSUME NEW n \in Names, EditClick(n) PROVE TypeOK'
    BY <1>8, OpenTyped, RowTyped DEF EditClick
  <1>9. CASE CloseEditor
    BY <1>9 DEF CloseEditor, TypeOK, view
  <1>10. ASSUME NEW r \in Roles, handleSave(r) PROVE TypeOK'
    <2>1. save' \in Save
      BY <1>10 DEF handleSave, TypeOK, Editor, Save
    <2>. QED
      BY <1>10, <2>1 DEF handleSave, TypeOK, view
  <1>11. CASE SaveActs
    <2>1. save \in Save
      BY <1>11 DEF SaveActs, TypeOK
    <2>2. save' \in Save
      BY <1>11, <2>1 DEF SaveActs, Save
    <2>3. save.role.scope \in Scopes /\ save.role.name \in Names
      BY <2>1 DEF Save, Roles
    <2>4. roles' \in [Scopes -> SUBSET Names]
      BY <1>11, <2>3 DEF SaveActs, TypeOK
    <2>. QED
      BY <1>11, <2>2, <2>4 DEF SaveActs, TypeOK, view
  <1>12. CASE SaveOk
    BY <1>12, InvalidateTyped, OwedTyped DEF SaveOk, TypeOK, view
  <1>13. CASE SaveFails
    BY <1>13 DEF SaveFails, TypeOK, view
  <1>14. ASSUME NEW n \in Names, DeleteClick(n) PROVE TypeOK'
    BY <1>14, RowTyped DEF DeleteClick, TypeOK, view
  <1>15. CASE CancelDelete
    BY <1>15 DEF CancelDelete, TypeOK, view
  <1>16. CASE confirmDelete
    <2>1. deletion' \in Deletion
      BY <1>16 DEF confirmDelete, TypeOK, Deletion
    <2>. QED
      BY <1>16, <2>1 DEF confirmDelete, TypeOK, view
  <1>17. CASE DeleteActs
    <2>1. deletion \in Deletion
      BY <1>17 DEF DeleteActs, TypeOK
    <2>2. deletion' \in Deletion
      BY <1>17, <2>1 DEF DeleteActs, Deletion
    <2>3. roles' \in [Scopes -> SUBSET Names]
      BY <1>17 DEF DeleteActs, TypeOK
    <2>. QED
      BY <1>17, <2>2, <2>3 DEF DeleteActs, TypeOK, view
  <1>18. CASE DeleteOk
    BY <1>18, InvalidateTyped, OwedTyped DEF DeleteOk, TypeOK, view
  <1>19. CASE DeleteFails
    BY <1>19 DEF DeleteFails, TypeOK, view
  <1>20. CASE UNCHANGED vars
    BY <1>20 DEF vars, TypeOK
  <1>. QED
    BY <1>1, <1>2, <1>3, <1>4, <1>5, <1>6, <1>7, <1>8, <1>9, <1>10, <1>11, <1>12, <1>13,
       <1>14, <1>15, <1>16, <1>17, <1>18, <1>19, <1>20 DEF Next, Lists, Edits, Deletes

\* RbacPage.tsx:22-50: the state of the page keeps its shape, for any set of namespaces and
\* names.
THEOREM TypeCorrect == Spec => []TypeOK
  <1>. QED
    BY TypeInit, TypeNext, PTL DEF Spec

-----------------------------------------------------------------------------
(* The lists. *)

\* A list that lacks a change is stale, and no answer that was read before the change is on
\* its way: it was restarted with the invalidation, or has not been read.
OwedInv == \A k \in owed : Stale(k) /\ fetch[k] # "read"

\* Every list a changed role is in is invalidated.
LEMMA OwedIsInvalidated ==
  ASSUME NEW r \in Roles
  PROVE  OwedBy(r) \subseteq Invalidated(r)
  BY ConstantsAssumption DEF OwedBy, Invalidated, Roles, Scopes, Keys

\* A change is announced: its lists are invalidated, and restarted if that is possible.
LEMMA Announced ==
  ASSUME TypeOK, OwedInv, NEW r \in Roles, Invalidate(Invalidated(r)),
         owed' = owed \cup OwedBy(r)
  PROVE  OwedInv'
  <1> SUFFICES ASSUME NEW k \in owed' PROVE cache'[k] # "fresh" /\ fetch'[k] # "read"
    BY DEF OwedInv, Stale
  <1>1. k \in Keys
    BY DEF TypeOK, OwedBy
  <1>2. /\ cache'[k] = IF k \in Invalidated(r) /\ cache[k] # "none" THEN "stale" ELSE cache[k]
        /\ fetch'[k] = IF k \in Invalidated(r) /\ Restarted(k) THEN "sent" ELSE fetch[k]
    BY <1>1 DEF Invalidate
  <1>3. CASE k \in owed
    BY <1>2, <1>3 DEF OwedInv, Stale
  <1>4. CASE k \in OwedBy(r)
    <2>1. k \in Invalidated(r) /\ (fetch[k] = "none" \/ Restarted(k))
      BY <1>4, OwedIsInvalidated DEF OwedBy
    <2>. QED
      BY <1>2, <2>1
  <1>. QED
    BY <1>3, <1>4

LEMMA OwedNext == TypeOK /\ OwedInv /\ [Next]_vars => OwedInv'
  <1> SUFFICES ASSUME TypeOK, OwedInv, [Next]_vars PROVE OwedInv'
    OBVIOUS
  <1>. USE DEF OwedInv, Stale
  <1>1. ASSUME NEW k \in Keys, ReadList(k) PROVE OwedInv'
    BY <1>1 DEF ReadList, TypeOK
  <1>2. ASSUME NEW k \in Keys, FetchOk(k) PROVE OwedInv'
    BY <1>2 DEF FetchOk, TypeOK
  <1>3. ASSUME NEW k \in Keys, FetchFails(k) \/ GrowsStale(k) PROVE OwedInv'
    BY <1>3 DEF FetchFails, GrowsStale, TypeOK
  <1>4. ASSUME NEW t, NEW ns, NEW sys, Shows(t, ns, sys) PROVE OwedInv'
    BY <1>4 DEF Shows, TypeOK
  <1>5. CASE Focus
    BY <1>5 DEF Focus, TypeOK
  <1>6. CASE RefreshClick
    BY <1>6 DEF RefreshClick, Invalidate, TypeOK
  <1>7. CASE SaveOk
    <2>1. save.role \in Roles
      BY <1>7 DEF SaveOk, TypeOK, Save
    <2>. QED
      BY <1>7, <2>1, Announced DEF SaveOk
  <1>8. CASE DeleteOk
    <2>1. deletion.role \in Roles
      BY <1>8 DEF DeleteOk, TypeOK, Deletion
    <2>. QED
      BY <1>8, <2>1, Announced DEF DeleteOk
  <1>9. CASE UNCHANGED <<cache, fetch, owed>>
    BY <1>9
  <1>10. ASSUME \/ CreateClick \/ CopyClick \/ CloseEditor \/ SaveActs \/ SaveFails
                \/ (\E n \in Names : EditClick(n) \/ DeleteClick(n))
                \/ (\E r \in Roles : handleSave(r))
                \/ CancelDelete \/ confirmDelete \/ DeleteActs \/ DeleteFails \/ UNCHANGED vars
         PROVE  UNCHANGED <<cache, fetch, owed>>
    BY <1>10 DEF CreateClick, CopyClick, CloseEditor, SaveActs, SaveFails, EditClick, DeleteClick,
       handleSave, CancelDelete, confirmDelete, DeleteActs, DeleteFails, Open, vars
  <1>. QED
    BY <1>1, <1>2, <1>3, <1>4, <1>5, <1>6, <1>7, <1>8, <1>9, <1>10
       DEF Next, Lists, Edits, Deletes, SetTab, SetNamespace, ToggleSystem

\* useRbac.ts:69-149: whatever is displayed when a change is announced, and however fetches
\* and changes overlap, a list that counts as fresh was read after the change; for any set of
\* namespaces.
THEOREM FreshAlwaysKnows == Spec => []FreshKnows
  <1>1. Init => TypeOK /\ OwedInv
    BY TypeInit DEF Init, OwedInv
  <1>2. TypeOK /\ OwedInv /\ [Next]_vars => TypeOK' /\ OwedInv'
    BY TypeNext, OwedNext
  <1>3. OwedInv => FreshKnows
    BY DEF OwedInv, FreshKnows
  <1>. QED
    BY <1>1, <1>2, <1>3, PTL DEF Spec

-----------------------------------------------------------------------------
(* The editor. *)

\* A save that replaces a role is about the role its editor was opened on.
SaveInv == save # None => save.of = None \/ save.of = save.role

LEMMA SaveNext == TypeOK /\ SaveInv /\ [Next]_vars => SaveInv'
  <1> SUFFICES ASSUME TypeOK, SaveInv, [Next]_vars PROVE SaveInv'
    OBVIOUS
  <1>1. ASSUME NEW r \in Roles, handleSave(r) PROVE SaveInv'
    BY <1>1 DEF handleSave, Named, SaveInv
  <1>2. CASE SaveActs
    <2>1. save \in Save
      BY <1>2 DEF SaveActs, TypeOK
    <2>2. save'.of = save.of /\ save'.role = save.role
      BY <1>2, <2>1 DEF SaveActs, Save
    <2>. QED
      BY <1>2, <2>2 DEF SaveActs, SaveInv
  <1>3. CASE SaveOk \/ SaveFails
    BY <1>3 DEF SaveOk, SaveFails, SaveInv
  <1>4. CASE UNCHANGED save
    BY <1>4 DEF SaveInv
  <1>5. ASSUME Lists \/ Deletes \/ CreateClick \/ CopyClick \/ CloseEditor
                 \/ (\E n \in Names : EditClick(n)) \/ UNCHANGED vars
        PROVE  UNCHANGED save
    BY <1>5 DEF Lists, ReadList, FetchOk, FetchFails, GrowsStale, SetTab, SetNamespace, ToggleSystem,
       Shows, Focus, RefreshClick, Deletes, DeleteClick, CancelDelete, confirmDelete, DeleteActs,
       DeleteOk, DeleteFails, CreateClick, CopyClick, CloseEditor, EditClick, Open, vars
  <1>. QED
    BY <1>1, <1>2, <1>3, <1>4, <1>5 DEF Next, Edits

\* Only SaveActs gets a save done, and it creates what is not there or replaces what its
\* editor was opened on.
LEMMA ReplacedNext ==
  ASSUME SaveInv, [Next]_vars,
         save # None, save' # None, save'.done, ~save.done, Exists(save.role)
  PROVE  save.of = save.role
  <1>1. CASE SaveActs
    BY <1>1 DEF SaveActs, Accepts, SaveInv
  <1>2. CASE save' = save
    BY <1>2
  <1>3. ASSUME \/ Lists \/ Deletes \/ CreateClick \/ CopyClick \/ CloseEditor
               \/ (\E n \in Names : EditClick(n)) \/ UNCHANGED vars
        PROVE  save' = save
    BY <1>3 DEF Lists, ReadList, FetchOk, FetchFails, GrowsStale, SetTab, SetNamespace, ToggleSystem,
       Shows, Focus, RefreshClick, Deletes, DeleteClick, CancelDelete, confirmDelete, DeleteActs,
       DeleteOk, DeleteFails, CreateClick, CopyClick, CloseEditor, EditClick, Open, vars
  <1>4. ~(\E r \in Roles : handleSave(r)) /\ ~SaveOk /\ ~SaveFails
    BY DEF handleSave, SaveOk, SaveFails
  <1>. QED
    BY <1>1, <1>2, <1>3, <1>4 DEF Next, Edits

\* RoleEditorModal.tsx:149,159: the rules of a role that exists are only replaced by an editor
\* opened on that very role, for any set of namespaces and names and any interleaving of
\* editors, saves and their late answers.
THEOREM OnlyOpenedReplaced == Spec => OnlyOpenedIsReplaced
  <1>1. Init => TypeOK /\ SaveInv
    BY TypeInit DEF Init, SaveInv
  <1>2. TypeOK /\ SaveInv /\ [Next]_vars => TypeOK' /\ SaveInv'
    BY TypeNext, SaveNext
  <1>3. TypeOK /\ SaveInv /\ [Next]_vars
          => [save # None /\ save' # None /\ save'.done /\ ~save.done /\ Exists(save.role)
                => save.of = save.role]_vars
    BY ReplacedNext
  <1>. QED
    BY <1>1, <1>2, <1>3, PTL DEF Spec, OnlyOpenedIsReplaced
=============================================================================
