-------------------------- MODULE ClusterPages_proofs --------------------------
(***************************************************************************)
(* What holds of ClusterPages for any clusters and tokens: types, that the *)
(* active cluster is listed, that what is meant for a remote cluster does  *)
(* not reach the local one, and that a fresh list knows of every success.  *)
(***************************************************************************)
EXTENDS ClusterPages, TLAPS

-----------------------------------------------------------------------------
(* Types. *)

LEMMA TypeInit == Init => TypeOK
  <1> SUFFICES ASSUME Init PROVE TypeOK
    OBVIOUS
  <1>1. there \in [Clusters -> Contents] /\ known \in [Clusters -> Contents]
    BY DEF Init, Untouched, Contents, States
  <1>2. /\ cache \in [Clusters -> List \cup {None}]
        /\ fetch \in [Clusters -> Request(Contents) \cup {None}]
    BY DEF Init
  <1>. QED
    BY <1>1, <1>2, ConstantsAssumption DEF Init, TypeOK

LEMMA SentTyped ==
  ASSUME activeCluster' \in Clusters, NEW A
  PROVE  Sent \in Request(A)
  BY DEF Sent, Request

LEMMA RepeatedTyped ==
  ASSUME TypeOK, NEW A, NEW r \in Request(A) \cup {None}
  PROVE  Repeated(r) \in Request(A) \cup {None}
  BY DEF TypeOK, Repeated, Redirected, Request

LEMMA AppliedTyped ==
  ASSUME NEW what \in Dialog, NEW i \in Contents
  PROVE  Applied(what, i) \in Contents
  BY DEF Applied, Dialog, Contents, States

\* What a page that is shown, or invalidated, makes of fetch and cache.
LEMMA ShowsTyped ==
  ASSUME TypeOK, NEW c \in Clusters, Shows(c), activeCluster' \in Clusters
  PROVE  fetch' \in [Clusters -> Request(Contents) \cup {None}]
  BY SentTyped DEF TypeOK, Shows

LEMMA InvalidateTyped ==
  ASSUME TypeOK, NEW keys, Invalidate(keys), activeCluster' \in Clusters
  PROVE  /\ fetch' \in [Clusters -> Request(Contents) \cup {None}]
         /\ cache' \in [Clusters -> List \cup {None}]
  <1>1. \A c \in Clusters : cache[c] # None => [cache[c] EXCEPT !.fresh = FALSE] \in List
    BY DEF TypeOK, List
  <1>2. cache' \in [Clusters -> List \cup {None}]
    BY <1>1 DEF Invalidate, TypeOK
  <1>3. fetch' \in [Clusters -> Request(Contents) \cup {None}]
    BY SentTyped DEF Invalidate, Refetched, TypeOK
  <1>. QED
    BY <1>2, <1>3

\* The requests, and their answers.
Request1(c) == ReadList(c) \/ FetchRefused(c) \/ FetchOk(c) \/ FetchFails(c) \/ GrowsStale(c)

LEMMA RequestTyped ==
  ASSUME TypeOK, NEW c \in Clusters, Request1(c)
  PROVE  TypeOK'
  <1>. USE DEF backend
  <1>1. CASE ReadList(c)
    <2>1. /\ fetch[c] \in Request(Contents) /\ there[fetch[c].to] \in Contents
      BY <1>1 DEF ReadList, Admitted, IsSent, TypeOK, Request
    <2>2. [fetch[c] EXCEPT !.got = there[fetch[c].to]] \in Request(Contents)
      BY <2>1 DEF Request
    <2>3. fetch' \in [Clusters -> Request(Contents) \cup {None}]
      BY <1>1, <2>2 DEF ReadList, TypeOK
    <2>. QED
      BY <1>1, <2>3 DEF ReadList, TypeOK
  <1>2. CASE FetchRefused(c)
    <2>1. [fetch[c] EXCEPT !.pc = "waiting"] \in Request(Contents)
      BY <1>2 DEF FetchRefused, IsSent, TypeOK, Request
    <2>2. fetch' \in [Clusters -> Request(Contents) \cup {None}]
      BY <1>2, <2>1 DEF FetchRefused, TypeOK
    <2>. QED
      BY <1>2, <2>2 DEF FetchRefused, TypeOK
  <1>3. CASE FetchOk(c)
    <2>1. [from |-> fetch[c].to, items |-> fetch[c].got, fresh |-> TRUE] \in List
      BY <1>3 DEF FetchOk, TypeOK, Request, List
    <2>. QED
      BY <1>3, <2>1 DEF FetchOk, TypeOK
  <1>4. CASE FetchFails(c)
    BY <1>4 DEF FetchFails, TypeOK
  <1>5. CASE GrowsStale(c)
    <2>1. [cache[c] EXCEPT !.fresh = FALSE] \in List
      BY <1>5 DEF GrowsStale, TypeOK, List
    <2>2. cache' \in [Clusters -> List \cup {None}]
      BY <1>5, <2>1 DEF GrowsStale, TypeOK
    <2>. QED
      BY <1>5, <2>2 DEF GrowsStale, TypeOK
  <1>. QED
    BY <1>1, <1>2, <1>3, <1>4, <1>5 DEF Request1

\* The registry and the active cluster.
Registry(c) == SwitchCluster(c) \/ AddCluster(c) \/ RemoveCluster(c) \/ RemovedElsewhere(c)

LEMMA RegistryTyped ==
  ASSUME TypeOK, NEW c \in Clusters, Registry(c)
  PROVE  TypeOK'
  <1>. USE DEF backend
  <1>1. CASE SwitchCluster(c)
    BY <1>1, ShowsTyped DEF SwitchCluster, TypeOK
  <1>2. CASE AddCluster(c)
    BY <1>2, ConstantsAssumption DEF AddCluster, TypeOK
  <1>3. CASE RemoveCluster(c)
    BY <1>3, ConstantsAssumption DEF RemoveCluster, TypeOK
  <1>4. CASE RemovedElsewhere(c)
    BY <1>4, ConstantsAssumption DEF RemovedElsewhere, TypeOK
  <1>. QED
    BY <1>1, <1>2, <1>3, <1>4 DEF Registry

OpensDialog == \E t \in Tokens, make \in {"rotated", "revoked"} : OpenDialog(make, t)

PageStep == OpenTokens \/ LeaveTokens \/ Focus \/ OpensDialog \/ CloseDialog \/ RefreshClick

LEMMA PageTyped == TypeOK /\ PageStep => TypeOK'
  <1> SUFFICES ASSUME TypeOK, PageStep PROVE TypeOK'
    OBVIOUS
  <1>. USE DEF backend
  <1>1. CASE OpenTokens \/ Focus
    <2>1. Shows(activeCluster) /\ UNCHANGED <<registry, changed, there, clusters, activeCluster, cache,
                                               dialog, change, token, known>>
      BY <1>1 DEF OpenTokens, Focus
    <2>2. page' \in {"tokens", "clusters"}
      BY <1>1 DEF OpenTokens, Focus
    <2>. QED
      BY <2>1, <2>2, ShowsTyped DEF TypeOK
  <1>2. CASE LeaveTokens
    <2>1. change' \in Change \cup {None}
      BY <1>2 DEF LeaveTokens, TypeOK, Change
    <2>. QED
      BY <1>2, <2>1 DEF LeaveTokens, TypeOK
  <1>3. CASE OpensDialog
    <2>1. dialog' \in Dialog
      BY <1>3 DEF OpensDialog, OpenDialog, Dialog
    <2>2. UNCHANGED <<registry, changed, there, clusters, activeCluster, page, cache, fetch, change,
                      token, known>>
      BY <1>3 DEF OpensDialog, OpenDialog
    <2>. QED
      BY <2>1, <2>2 DEF TypeOK
  <1>4. CASE CloseDialog
    BY <1>4 DEF CloseDialog, TypeOK
  <1>5. CASE RefreshClick
    BY <1>5, InvalidateTyped DEF RefreshClick, TypeOK
  <1>. QED
    BY <1>1, <1>2, <1>3, <1>4, <1>5 DEF PageStep

\* The backend makes of the token what it was asked for, or deletes it.
LEMMA ActsWith ==
  ASSUME TypeOK, ChangeActs
  PROVE  \E made \in Dialog, outcome \in Outcomes :
           /\ Acts(made, outcome) /\ made.of = change.what.of
           /\ made.make \in {change.what.make, "revoked"}
  <1>1. change.what \in Dialog
    BY DEF ChangeActs, TypeOK, Change
  <1>2. CASE Acts(change.what, "ok")
    BY <1>1, <1>2 DEF Outcomes
  <1>3. CASE Acts([change.what EXCEPT !.make = "revoked"], "error")
    <2>. DEFINE made == [change.what EXCEPT !.make = "revoked"]
    <2>1. made \in Dialog /\ made.of = change.what.of /\ made.make = "revoked"
      BY <1>1 DEF Dialog
    <2>. QED
      BY <1>3, <2>1 DEF Outcomes
  <1>. QED
    BY <1>2, <1>3 DEF ChangeActs

ChangeStep == Confirm \/ ChangeActs \/ ChangeRefused \/ ChangeOk \/ ChangeFails

LEMMA ChangeTyped == TypeOK /\ ChangeStep => TypeOK'
  <1> SUFFICES ASSUME TypeOK, ChangeStep PROVE TypeOK'
    OBVIOUS
  <1>. USE DEF backend
  <1>1. CASE Confirm
    <2>1. change' \in Change
      BY <1>1 DEF Confirm, TypeOK, Change, Request
    <2>. QED
      BY <1>1, <2>1 DEF Confirm, TypeOK
  <1>2. CASE ChangeActs
    <2>1. /\ change \in Change /\ change.call.to \in Clusters
          /\ change.call \in Request(Outcomes)
      BY <1>2 DEF ChangeActs, TypeOK, Change, Request
    <2>2. PICK made \in Dialog, outcome \in Outcomes : Acts(made, outcome)
      BY <1>2, ActsWith
    <2>3. [change.call EXCEPT !.got = outcome] \in Request(Outcomes)
      BY <2>1 DEF Request
    <2>4. change' \in Change
      BY <2>1, <2>2, <2>3 DEF Acts, Change
    <2>5. there' \in [Clusters -> Contents]
      BY <2>1, <2>2, AppliedTyped DEF Acts, TypeOK
    <2>. QED
      BY <1>2, <2>4, <2>5 DEF ChangeActs, TypeOK
  <1>3. CASE ChangeRefused
    <2>1. change \in Change /\ change.call \in Request(Outcomes)
      BY <1>3 DEF ChangeRefused, TypeOK, Change
    <2>2. [change.call EXCEPT !.pc = "waiting"] \in Request(Outcomes)
      BY <2>1 DEF Request
    <2>3. change' \in Change
      BY <1>3, <2>1, <2>2 DEF ChangeRefused, Change
    <2>. QED
      BY <1>3, <2>3 DEF ChangeRefused, TypeOK
  <1>4. CASE ChangeOk
    <2>1. change \in Change /\ change.on \in Clusters /\ change.what \in Dialog
      BY <1>4 DEF ChangeOk, TypeOK, Change
    <2>2. known' \in [Clusters -> Contents]
      BY <1>4, <2>1, AppliedTyped DEF ChangeOk, TypeOK
    <2>3. dialog' \in Dialog \cup {None} /\ change' = None
      BY <1>4 DEF ChangeOk, TypeOK
    <2>4. PICK keys : Invalidate(keys)
      BY <1>4 DEF ChangeOk
    <2>5. UNCHANGED <<registry, changed, there, clusters, activeCluster, page, token>>
      BY <1>4 DEF ChangeOk
    <2>. QED
      BY <2>2, <2>3, <2>4, <2>5, InvalidateTyped DEF TypeOK
  <1>5. CASE ChangeFails
    BY <1>5 DEF ChangeFails, TypeOK
  <1>. QED
    BY <1>1, <1>2, <1>3, <1>4, <1>5 DEF ChangeStep

LEMMA NextCases ==
  ASSUME [Next]_vars
  PROVE  \/ \E c \in Clusters : Request1(c) \/ Registry(c)
         \/ TokenExpires \/ TokenRefreshed \/ ClustersArrive
         \/ PageStep \/ ChangeStep \/ UNCHANGED vars
  BY DEF Next, Request1, Registry, PageStep, OpensDialog, ChangeStep

LEMMA TypeNext == TypeOK /\ [Next]_vars => TypeOK'
  <1> SUFFICES ASSUME TypeOK, [Next]_vars PROVE TypeOK'
    OBVIOUS
  <1>. USE DEF backend
  <1>1. CASE TokenExpires
    BY <1>1 DEF TokenExpires, TypeOK
  <1>2. CASE TokenRefreshed
    <2>1. fetch' \in [Clusters -> Request(Contents) \cup {None}]
      BY <1>2, RepeatedTyped DEF TokenRefreshed, TypeOK
    <2>2. change' \in Change \cup {None}
      <3>1. CASE change = None
        BY <1>2, <3>1 DEF TokenRefreshed
      <3>2. CASE change # None
        <4>1. change \in Change /\ change.call \in Request(Outcomes)
          BY <3>2 DEF TypeOK, Change
        <4>2. Repeated(change.call) \in Request(Outcomes)
          BY <4>1 DEF Repeated, Redirected, Request, TypeOK
        <4>. QED
          BY <1>2, <3>2, <4>1, <4>2 DEF TokenRefreshed, Change
      <3>. QED
        BY <3>1, <3>2
    <2>. QED
      BY <1>2, <2>1, <2>2 DEF TokenRefreshed, TypeOK
  <1>3. CASE ClustersArrive
    <2>1. activeCluster' \in Clusters
      BY <1>3, ConstantsAssumption DEF ClustersArrive, Fallback, TypeOK
    <2>2. fetch' \in [Clusters -> Request(Contents) \cup {None}]
      BY <1>3, <2>1, ShowsTyped DEF ClustersArrive, TypeOK
    <2>. QED
      BY <1>3, <2>1, <2>2 DEF ClustersArrive, TypeOK
  <1>4. CASE UNCHANGED vars
    BY <1>4 DEF vars, TypeOK
  <1>. QED
    BY <1>1, <1>2, <1>3, <1>4, NextCases, RequestTyped, RegistryTyped, PageTyped, ChangeTyped

\* useCluster.ts:35-50, useTokens.ts:43-82, TokensPage.tsx:141-202: the tab's state keeps its
\* shape, for any clusters and tokens.
THEOREM TypeCorrect == Spec => []TypeOK
  <1>. QED
    BY TypeInit, TypeNext, PTL DEF Spec

-----------------------------------------------------------------------------
(* The active cluster. *)

\* The local cluster is always registered, and listed as soon as any is.
ListedInv ==
  /\ Local \in registry
  /\ clusters # {} => Local \in clusters /\ activeCluster \in clusters

LEMMA ListedNext == ListedInv /\ [Next]_vars => ListedInv'
  <1> SUFFICES ASSUME ListedInv, [Next]_vars PROVE ListedInv'
    OBVIOUS
  <1>. USE DEF backend
  <1>1. ASSUME NEW c \in Clusters, Registry(c) PROVE ListedInv'
    BY <1>1 DEF Registry, SwitchCluster, AddCluster, RemoveCluster, Removable, RemovedElsewhere,
       ListedInv
  <1>2. CASE ClustersArrive
    BY <1>2 DEF ClustersArrive, Fallback, ListedInv
  <1>3. CASE UNCHANGED <<registry, clusters, activeCluster>>
    BY <1>3 DEF ListedInv
  <1>4. ASSUME NEW c \in Clusters, Request1(c) PROVE UNCHANGED <<registry, clusters, activeCluster>>
    BY <1>4 DEF Request1, ReadList, FetchRefused, FetchOk, FetchFails, GrowsStale
  <1>5. ASSUME PageStep PROVE UNCHANGED <<registry, clusters, activeCluster>>
    BY <1>5 DEF PageStep, OpenTokens, LeaveTokens, Focus, OpensDialog, OpenDialog, CloseDialog,
       RefreshClick
  <1>6. ASSUME ChangeStep \/ TokenExpires \/ TokenRefreshed \/ UNCHANGED vars
        PROVE  UNCHANGED <<registry, clusters, activeCluster>>
    BY <1>6 DEF ChangeStep, Confirm, ChangeActs, ChangeRefused, ChangeOk, ChangeFails,
       TokenExpires, TokenRefreshed, vars
  <1>. QED
    BY <1>1, <1>2, <1>3, <1>4, <1>5, <1>6, NextCases

\* TopBar.tsx:33-40, useCluster.ts:41: for any clusters, requests go to one that is listed,
\* whoever registers and removes clusters and however late the list comes.
THEOREM ActiveIsAlwaysListed == Spec => []ActiveIsListed
  <1>1. Init => ListedInv
    BY DEF Init, ListedInv
  <1>2. ListedInv => ActiveIsListed
    BY DEF ListedInv, ActiveIsListed
  <1>. QED
    BY <1>1, <1>2, ListedNext, PTL DEF Spec

-----------------------------------------------------------------------------
(* Remote and local. *)

\* A request for the list of a remote cluster is never on its way to the local one.
RemoteInv ==
  /\ RemoteStaysRemote
  /\ \A c \in Clusters \ {Local} : fetch[c] # None => fetch[c].to # Local

\* A page that is shown asks for the list of the cluster that is active.
LEMMA ShowsRemote ==
  ASSUME TypeOK, RemoteInv, Shows(activeCluster')
  PROVE  \A c \in Clusters \ {Local} : fetch'[c] # None => fetch'[c].to # Local
  BY DEF TypeOK, RemoteInv, Shows, Sent

LEMMA InvalidateRemote ==
  ASSUME TypeOK, RemoteInv, NEW keys, Invalidate(keys), activeCluster' = activeCluster
  PROVE  \A c \in Clusters \ {Local} :
           /\ fetch'[c] # None => fetch'[c].to # Local
           /\ cache'[c] # None => cache'[c].from # Local
  <1> SUFFICES ASSUME NEW c \in Clusters \ {Local}
               PROVE  /\ fetch'[c] # None => fetch'[c].to # Local
                      /\ cache'[c] # None => cache'[c].from # Local
    OBVIOUS
  <1>1. fetch'[c] = fetch[c] \/ (c = activeCluster /\ fetch'[c] = Sent)
    BY DEF Invalidate, Refetched, TypeOK
  <1>2. cache[c] # None => cache'[c].from = cache[c].from
    BY DEF Invalidate, TypeOK, List
  <1>3. cache[c] = None => cache'[c] = None
    BY DEF Invalidate
  <1>. QED
    BY <1>1, <1>2, <1>3 DEF RemoteInv, RemoteStaysRemote, Sent

LEMMA RemoteNext == TypeOK /\ RemoteInv /\ [Next]_vars => RemoteInv'
  <1> SUFFICES ASSUME TypeOK, RemoteInv, [Next]_vars PROVE RemoteInv'
    OBVIOUS
  <1>. USE DEF backend
  <1>1. ASSUME NEW c \in Clusters, Request1(c) PROVE RemoteInv'
    <2>1. UNCHANGED change
      BY <1>1 DEF Request1, ReadList, FetchRefused, FetchOk, FetchFails, GrowsStale
    <2>2. CASE ReadList(c) \/ FetchRefused(c) \/ FetchFails(c)
      <3>1. \A d \in Clusters : fetch'[d] = None \/ fetch'[d].to = fetch[d].to
        BY <2>2 DEF ReadList, FetchRefused, FetchFails, Admitted, IsSent, TypeOK, Request
      <3>2. \A d \in Clusters : fetch[d] = None => fetch'[d] = None
        BY <2>2 DEF ReadList, FetchRefused, FetchFails, Admitted, IsSent, TypeOK
      <3>3. cache' = cache
        BY <2>2 DEF ReadList, FetchRefused, FetchFails
      <3>. QED
        BY <2>1, <3>1, <3>2, <3>3 DEF RemoteInv, RemoteStaysRemote
    <2>3. CASE FetchOk(c)
      <3>1. /\ cache' = [cache EXCEPT ![c] = [from |-> fetch[c].to, items |-> fetch[c].got,
                                               fresh |-> TRUE]]
            /\ fetch' = [fetch EXCEPT ![c] = None] /\ fetch[c] # None
        BY <2>3 DEF FetchOk
      <3>. QED
        BY <2>1, <3>1 DEF RemoteInv, RemoteStaysRemote, TypeOK
    <2>4. CASE GrowsStale(c)
      <3>1. /\ cache' = [cache EXCEPT ![c].fresh = FALSE] /\ cache[c] # None
            /\ fetch' = fetch
        BY <2>4 DEF GrowsStale
      <3>2. \A d \in Clusters : cache[d] # None => cache'[d].from = cache[d].from
        BY <3>1 DEF TypeOK, List
      <3>3. \A d \in Clusters : cache[d] = None => cache'[d] = None
        BY <3>1 DEF TypeOK
      <3>. QED
        BY <2>1, <3>1, <3>2, <3>3 DEF RemoteInv, RemoteStaysRemote
    <2>. QED
      BY <1>1, <2>2, <2>3, <2>4 DEF Request1
  <1>2. CASE TokenRefreshed
    <2>1. \A c \in Clusters \ {Local} : fetch'[c] # None => fetch'[c].to # Local
      BY <1>2 DEF TokenRefreshed, Repeated, Redirected, RemoteInv, TypeOK, Request
    <2>2. change' # None /\ change'.on # Local => change'.call.to # Local
      <3> SUFFICES ASSUME change # None, change'.on # Local PROVE change'.call.to # Local
        BY <1>2 DEF TokenRefreshed
      <3>1. change \in Change /\ change.call \in Request(Outcomes)
        BY DEF TypeOK, Change
      <3>2. change'.on = change.on /\ change'.call = Repeated(change.call)
        BY <1>2, <3>1 DEF TokenRefreshed, Change
      <3>3. change.call.to # Local
        BY <3>2 DEF RemoteInv, RemoteStaysRemote
      <3>. QED
        BY <3>1, <3>2, <3>3 DEF Repeated, Redirected, Request
    <2>3. cache' = cache
      BY <1>2 DEF TokenRefreshed
    <2>. QED
      BY <2>1, <2>2, <2>3 DEF RemoteInv, RemoteStaysRemote
  <1>3. ASSUME \/ OpenTokens \/ Focus \/ ClustersArrive \/ \E c \in Clusters : SwitchCluster(c)
        PROVE  RemoteInv'
    <2>1. UNCHANGED <<cache, change>> /\ (Shows(activeCluster') \/ UNCHANGED fetch)
      BY <1>3 DEF OpenTokens, Focus, ClustersArrive, SwitchCluster
    <2>. QED
      BY <2>1, ShowsRemote DEF RemoteInv, RemoteStaysRemote
  <1>4. CASE RefreshClick \/ ChangeOk
    <2>1. (change' = None \/ UNCHANGED change) /\ activeCluster' = activeCluster
      BY <1>4 DEF RefreshClick, ChangeOk
    <2>2. PICK keys : Invalidate(keys)
      BY <1>4 DEF RefreshClick, ChangeOk
    <2>. QED
      BY <2>1, <2>2, InvalidateRemote DEF RemoteInv, RemoteStaysRemote
  <1>5. CASE LeaveTokens \/ ChangeActs \/ ChangeRefused
    <2>1. UNCHANGED <<cache, fetch>>
      BY <1>5 DEF LeaveTokens, ChangeActs, ChangeRefused
    <2>2. change = None => change' = None
      BY <1>5 DEF LeaveTokens, ChangeActs, ChangeRefused
    <2>3. change # None => change'.on = change.on /\ change'.call.to = change.call.to
      BY <1>5 DEF LeaveTokens, ChangeActs, Acts, ChangeRefused, TypeOK, Change, Request
    <2>. QED
      BY <2>1, <2>2, <2>3 DEF RemoteInv, RemoteStaysRemote
  <1>6. CASE Confirm \/ ChangeFails
    BY <1>6 DEF Confirm, ChangeFails, RemoteInv, RemoteStaysRemote
  <1>7. CASE UNCHANGED <<cache, fetch, change>>
    BY <1>7 DEF RemoteInv, RemoteStaysRemote
  <1>8. ASSUME NEW c \in Clusters, AddCluster(c) \/ RemoveCluster(c) \/ RemovedElsewhere(c)
        PROVE  UNCHANGED <<cache, fetch, change>>
    BY <1>8 DEF AddCluster, RemoveCluster, RemovedElsewhere
  <1>9. ASSUME TokenExpires \/ OpensDialog \/ CloseDialog \/ UNCHANGED vars
        PROVE  UNCHANGED <<cache, fetch, change>>
    BY <1>9 DEF TokenExpires, OpensDialog, OpenDialog, CloseDialog, vars
  <1>. QED
    BY <1>1, <1>2, <1>3, <1>4, <1>5, <1>6, <1>7, <1>8, <1>9, NextCases
       DEF Registry, PageStep, ChangeStep

\* client.ts:43-46, useTokens.ts:43-82: for any clusters, however the user switches while
\* requests wait for a new token, no token Secret of the local cluster is rotated, revoked or
\* listed in place of a remote one's.
THEOREM RemoteAlwaysStaysRemote == Spec => []RemoteStaysRemote
  <1>1. Init => RemoteInv
    BY DEF Init, RemoteInv, RemoteStaysRemote
  <1>2. RemoteInv => RemoteStaysRemote
    BY DEF RemoteInv
  <1>. QED
    BY <1>1, <1>2, TypeInit, TypeNext, RemoteNext, PTL DEF Spec

-----------------------------------------------------------------------------
(* Fresh lists. *)

\* Dialogs belong to the page, and nothing that waits for a new token has been answered.
ShapeInv ==
  /\ dialog # None => page = "tokens"
  /\ change # None /\ change.key = None => page = "tokens"
  /\ change # None /\ change.call.pc = "waiting" => change.call.got = None
  /\ \A c \in Clusters : Waiting(fetch[c]) => fetch[c].got = None

\* What a page that is shown or invalidated adds does not wait.
LEMMA NewIsSent ==
  ASSUME TypeOK, ShapeInv, NEW c \in Clusters,
         fetch'[c] = fetch[c] \/ fetch'[c] = Sent \/ fetch'[c] = None
  PROVE  Waiting(fetch'[c]) => fetch'[c].got = None
  BY DEF ShapeInv, Waiting, Sent

LEMMA ShowsNew ==
  ASSUME TypeOK, NEW d \in Clusters, Shows(d) \/ UNCHANGED fetch
  PROVE  \A c \in Clusters : fetch'[c] = fetch[c] \/ fetch'[c] = Sent
  BY DEF TypeOK, Shows

LEMMA InvalidateNew ==
  ASSUME TypeOK, NEW keys, Invalidate(keys)
  PROVE  \A c \in Clusters : fetch'[c] = fetch[c] \/ fetch'[c] = Sent
  BY DEF TypeOK, Invalidate, Refetched

\* The steps that show a page or another cluster.
Showing == OpenTokens \/ Focus \/ ClustersArrive \/ \E c \in Clusters : SwitchCluster(c)

LEMMA ShowingNew ==
  ASSUME TypeOK, Showing
  PROVE  /\ \A c \in Clusters : fetch'[c] = fetch[c] \/ fetch'[c] = Sent
         /\ UNCHANGED <<there, cache, dialog, change, known>> /\ page' \in {page, "tokens"}
  <1>. USE DEF backend
  <1>1. CASE OpenTokens \/ Focus
    BY <1>1, ShowsNew DEF OpenTokens, Focus, TypeOK
  <1>2. CASE ClustersArrive
    <2>1. activeCluster' \in Clusters
      BY <1>2, ConstantsAssumption DEF ClustersArrive, Fallback, TypeOK
    <2>. QED
      BY <1>2, <2>1, ShowsNew DEF ClustersArrive
  <1>3. ASSUME NEW c \in Clusters, SwitchCluster(c)
        PROVE  /\ \A d \in Clusters : fetch'[d] = fetch[d] \/ fetch'[d] = Sent
               /\ UNCHANGED <<there, cache, dialog, change, known>> /\ page' \in {page, "tokens"}
    BY <1>3, ShowsNew DEF SwitchCluster
  <1>. QED
    BY <1>1, <1>2, <1>3 DEF Showing

LEMMA ShapeNext == TypeOK /\ ShapeInv /\ [Next]_vars => ShapeInv'
  <1> SUFFICES ASSUME TypeOK, ShapeInv, [Next]_vars PROVE ShapeInv'
    OBVIOUS
  <1>. USE DEF backend
  <1>1. ASSUME NEW c \in Clusters, Request1(c) PROVE ShapeInv'
    <2>1. UNCHANGED <<dialog, change, page>>
      BY <1>1 DEF Request1, ReadList, FetchRefused, FetchOk, FetchFails, GrowsStale
    <2>2. ASSUME NEW d \in Clusters, Waiting(fetch'[d]) PROVE fetch'[d].got = None
      <3>1. CASE d = c /\ (ReadList(c) \/ FetchRefused(c))
        BY <2>2, <3>1 DEF ReadList, FetchRefused, Admitted, IsSent, Waiting, TypeOK, Request
      <3>2. CASE d # c \/ FetchOk(c) \/ FetchFails(c) \/ GrowsStale(c)
        <4>1. fetch'[d] = fetch[d] \/ fetch'[d] = None
          BY <1>1, <3>2 DEF Request1, ReadList, FetchRefused, FetchOk, FetchFails, GrowsStale,
             TypeOK
        <4>. QED
          BY <2>2, <4>1, NewIsSent
      <3>. QED
        BY <1>1, <3>1, <3>2 DEF Request1
    <2>. QED
      BY <2>1, <2>2 DEF ShapeInv
  <1>2. CASE TokenRefreshed
    <2>1. \A c \in Clusters : ~Waiting(fetch'[c])
      BY <1>2, NoRecordAssumption DEF TokenRefreshed, Repeated, Waiting, TypeOK, Request
    <2>2. /\ UNCHANGED <<dialog, page>> /\ (change = None => change' = None)
      BY <1>2 DEF TokenRefreshed
    <2>3. ASSUME change # None
          PROVE  /\ change'.what = change.what /\ change'.key = change.key
                 /\ change'.call.pc # "waiting"
      <3>1. change \in Change /\ change.call \in Request(Outcomes)
        BY <2>3 DEF TypeOK, Change
      <3>2. Repeated(change.call).pc # "waiting"
        BY <3>1, NoRecordAssumption DEF Repeated, Request
      <3>3. change' = [change EXCEPT !.call = Repeated(@)]
        BY <1>2, <2>3 DEF TokenRefreshed
      <3>. QED
        BY <3>1, <3>2, <3>3 DEF Change
    <2>. QED
      BY <2>1, <2>2, <2>3 DEF ShapeInv
  <1>3. CASE Showing
    BY <1>3, ShowingNew, NewIsSent DEF ShapeInv
  <1>4. CASE LeaveTokens
    <2>1. /\ dialog' = None /\ UNCHANGED fetch /\ (change = None => change' = None)
      BY <1>4 DEF LeaveTokens
    <2>2. change # None => /\ change'.what = change.what /\ change'.call = change.call
                           /\ change'.key # None
      BY <1>4, ConstantsAssumption DEF LeaveTokens, TypeOK, Change
    <2>. QED
      BY <2>1, <2>2 DEF ShapeInv
  <1>5. CASE OpensDialog
    <2>1. page = "tokens" /\ UNCHANGED <<page, fetch, change>>
      BY <1>5 DEF OpensDialog, OpenDialog
    <2>. QED
      BY <2>1 DEF ShapeInv
  <1>6. CASE CloseDialog
    BY <1>6 DEF CloseDialog, ShapeInv
  <1>7. CASE RefreshClick
    BY <1>7, InvalidateNew, NewIsSent DEF RefreshClick, ShapeInv
  <1>8. CASE Confirm
    <2>1. /\ change'.what = dialog /\ change'.call.pc = "sent" /\ dialog # None
          /\ UNCHANGED <<dialog, page, fetch>>
      BY <1>8 DEF Confirm
    <2>. QED
      BY <2>1 DEF ShapeInv
  <1>9. CASE ChangeActs \/ ChangeRefused
    <2>1. /\ change \in Change /\ change.call \in Request(Outcomes) /\ change # None
          /\ change.call.pc = "sent" /\ change.call.got = None
      BY <1>9 DEF ChangeActs, ChangeRefused, Admitted, IsSent, TypeOK, Change
    <2>2. /\ change'.what = change.what /\ change'.key = change.key
          /\ change'.call.pc = "waiting" => change'.call.got = None
      BY <1>9, <2>1 DEF ChangeActs, Acts, ChangeRefused, Change, Request
    <2>3. UNCHANGED <<dialog, page, fetch>>
      BY <1>9 DEF ChangeActs, ChangeRefused
    <2>. QED
      BY <2>1, <2>2, <2>3 DEF ShapeInv
  <1>10. CASE ChangeOk
    <2>1. change' = None /\ page' = page /\ dialog' \in {dialog, None}
      BY <1>10 DEF ChangeOk
    <2>2. PICK keys : Invalidate(keys)
      BY <1>10 DEF ChangeOk
    <2>. QED
      BY <2>1, <2>2, InvalidateNew, NewIsSent DEF ShapeInv
  <1>11. CASE ChangeFails
    BY <1>11 DEF ChangeFails, ShapeInv
  <1>12. ASSUME NEW c \in Clusters, AddCluster(c) \/ RemoveCluster(c) \/ RemovedElsewhere(c)
         PROVE  ShapeInv'
    BY <1>12 DEF AddCluster, RemoveCluster, RemovedElsewhere, ShapeInv
  <1>13. CASE TokenExpires \/ UNCHANGED vars
    BY <1>13 DEF TokenExpires, vars, ShapeInv
  <1>. QED
    BY <1>1, <1>2, <1>3, <1>4, <1>5, <1>6, <1>7, <1>8, <1>9, <1>10, <1>11, <1>12, <1>13, NextCases
       DEF Registry, PageStep, ChangeStep, Showing

LEMMA Ranks ==
  /\ Rank["created"] = 0 /\ Rank["rotated"] = 1 /\ Rank["revoked"] = 2
  /\ \A s \in States : Rank[s] \in Nat /\ Rank[s] <= 2
  BY DEF Rank, States

\* A token is replaced and deleted, never the other way.
LEMMA ThereMovesOn ==
  ASSUME TypeOK, ShapeInv, [Next]_vars, NEW c \in Clusters, NEW t \in Tokens
  PROVE  /\ Rank[there[c][t]] \in Nat /\ Rank[there'[c][t]] \in Nat
         /\ Rank[there'[c][t]] >= Rank[there[c][t]]
  <1>. USE DEF backend
  <1>0. there[c] \in Contents /\ there[c][t] \in States /\ Rank[there[c][t]] \in Nat
    BY Ranks DEF TypeOK, Contents
  <1>1. CASE UNCHANGED there
    BY <1>0, <1>1
  <1>2. CASE ChangeActs
    <2>1. there[change.call.to][change.what.of] # "revoked"
      BY <1>2 DEF ChangeActs
    <2>2. PICK made \in Dialog, outcome \in Outcomes :
                 Acts(made, outcome) /\ made.of = change.what.of
      BY <1>2, ActsWith
    <2>3. CASE c = change.call.to
      <3>1. there'[c][t] = IF t = made.of THEN made.make ELSE there[c][t]
        BY <2>2, <2>3 DEF Acts, Applied, TypeOK, Contents
      <3>2. CASE t = made.of /\ made.make = "rotated"
        BY <1>0, <2>1, <2>2, <2>3, <3>1, <3>2, Ranks DEF States
      <3>3. CASE t = made.of /\ made.make = "revoked"
        BY <1>0, <3>1, <3>3, Ranks
      <3>. QED
        BY <1>0, <3>1, <3>2, <3>3 DEF Dialog
    <2>4. CASE c # change.call.to
      BY <1>0, <2>2, <2>4 DEF Acts, TypeOK
    <2>. QED
      BY <2>3, <2>4
  <1>3. ASSUME NEW d \in Clusters, Request1(d) \/ Registry(d) PROVE UNCHANGED there
    BY <1>3 DEF Request1, ReadList, FetchRefused, FetchOk, FetchFails, GrowsStale, Registry,
       SwitchCluster, AddCluster, RemoveCluster, RemovedElsewhere
  <1>4. ASSUME PageStep PROVE UNCHANGED there
    BY <1>4 DEF PageStep, OpenTokens, LeaveTokens, Focus, OpensDialog, OpenDialog, CloseDialog,
       RefreshClick
  <1>5. ASSUME \/ Confirm \/ ChangeRefused \/ ChangeOk \/ ChangeFails \/ TokenExpires
               \/ TokenRefreshed \/ ClustersArrive \/ UNCHANGED vars
        PROVE  UNCHANGED there
    BY <1>5 DEF Confirm, ChangeRefused, ChangeOk, ChangeFails, TokenExpires, TokenRefreshed,
       ClustersArrive, vars
  <1>. QED
    BY <1>1, <1>2, <1>3, <1>4, <1>5, NextCases DEF ChangeStep

\* Contents i are not older than what the tab was told of cluster c.
Knows(i, c) == \A t \in Tokens : Rank[i[t]] >= Rank[known[c][t]]

KnowInv ==
  /\ change # None /\ change.call.got # None =>
       Rank[there[change.call.to][change.what.of]] >= Rank[change.what.make]
  /\ \A c \in Clusters :
       /\ Knows(there[c], c)
       /\ fetch[c] # None /\ fetch[c].got # None /\ fetch[c].to = c => Knows(fetch[c].got, c)
       /\ cache[c] # None /\ cache[c].fresh /\ cache[c].from = c => Knows(cache[c].items, c)

LEMMA KnownTyped ==
  ASSUME TypeOK, NEW c \in Clusters, NEW t \in Tokens
  PROVE  known[c][t] \in States /\ Rank[known[c][t]] \in Nat
  BY Ranks DEF TypeOK, Contents

\* A step after which nothing has been read, kept, done or told that was not before.
LEMMA KnowKept ==
  ASSUME TypeOK, ShapeInv, KnowInv, [Next]_vars, known' = known,
         change' = None \/ change'.call.got = None
           \/ (change # None /\ change'.what = change.what
                /\ change'.call.got = change.call.got /\ change'.call.to = change.call.to),
         \A c \in Clusters :
           fetch'[c] = None \/ fetch'[c].got = None \/ fetch'[c] = fetch[c],
         \A c \in Clusters :
           cache'[c] = None \/ ~cache'[c].fresh \/ cache'[c] = cache[c]
  PROVE  KnowInv'
  <1>1. \A c \in Clusters : Knows(there[c], c)'
    BY ThereMovesOn, KnownTyped DEF KnowInv, Knows
  <1>2. ASSUME change' # None, change'.call.got # None
        PROVE  Rank[there'[change'.call.to][change'.what.of]] >= Rank[change'.what.make]
    <2>1. /\ change \in Change /\ change # None /\ change.call.got # None
          /\ change'.what = change.what /\ change'.call.to = change.call.to
      BY <1>2 DEF TypeOK
    <2>2. /\ change.what.make \in States /\ change.what.of \in Tokens
          /\ change.call.to \in Clusters /\ Rank[change.what.make] \in Nat
      BY <1>2, <2>1, Ranks DEF Change, Dialog, Request, States
    <2>3. Rank[there[change.call.to][change.what.of]] >= Rank[change.what.make]
      BY <1>2, <2>1 DEF KnowInv
    <2>. QED
      BY <2>1, <2>2, <2>3, ThereMovesOn
  <1>. QED
    BY <1>1, <1>2 DEF KnowInv, Knows

LEMMA KnowNext == TypeOK /\ ShapeInv /\ KnowInv /\ [Next]_vars => KnowInv'
  <1> SUFFICES ASSUME TypeOK, ShapeInv, KnowInv, [Next]_vars PROVE KnowInv'
    OBVIOUS
  <1>. USE DEF backend
  <1>1. ASSUME NEW c \in Clusters, ReadList(c) PROVE KnowInv'
    <2>1. /\ fetch' = [fetch EXCEPT ![c].got = there[fetch[c].to]]
          /\ fetch[c] \in Request(Contents) /\ UNCHANGED <<there, cache, change, known>>
      BY <1>1 DEF ReadList, Admitted, IsSent, TypeOK
    <2>2. /\ fetch'[c].got = there[fetch[c].to] /\ fetch'[c].to = fetch[c].to
          /\ \A d \in Clusters \ {c} : fetch'[d] = fetch[d]
      BY <2>1 DEF TypeOK, Request
    <2>. QED
      BY <2>1, <2>2 DEF KnowInv, Knows
  <1>2. ASSUME NEW c \in Clusters, FetchRefused(c) \/ FetchFails(c) PROVE KnowInv'
    <2>1. \A d \in Clusters : fetch'[d] = None \/ fetch'[d].got = None \/ fetch'[d] = fetch[d]
      BY <1>2 DEF FetchRefused, FetchFails, IsSent, TypeOK, Request
    <2>2. UNCHANGED <<known, change, cache>>
      BY <1>2 DEF FetchRefused, FetchFails
    <2>. QED
      BY <2>1, <2>2, KnowKept
  <1>3. ASSUME NEW c \in Clusters, FetchOk(c) PROVE KnowInv'
    <2>1. /\ fetch[c] # None /\ fetch[c].got # None /\ UNCHANGED <<there, change, known>>
          /\ cache'[c] = [from |-> fetch[c].to, items |-> fetch[c].got, fresh |-> TRUE]
          /\ \A d \in Clusters \ {c} : cache'[d] = cache[d]
          /\ \A d \in Clusters : fetch'[d] = None \/ fetch'[d] = fetch[d]
      BY <1>3 DEF FetchOk, TypeOK
    <2>. QED
      BY <2>1 DEF KnowInv, Knows
  <1>4. ASSUME NEW c \in Clusters, GrowsStale(c) PROVE KnowInv'
    <2>1. \A d \in Clusters : ~cache'[d].fresh \/ cache'[d] = cache[d]
      BY <1>4 DEF GrowsStale, TypeOK, List
    <2>. QED
      BY <1>4, <2>1, KnowKept DEF GrowsStale
  <1>5. CASE TokenRefreshed
    <2>1. \A c \in Clusters : fetch'[c] = None \/ fetch'[c].got = None \/ fetch'[c] = fetch[c]
      <3> SUFFICES ASSUME NEW c \in Clusters, Waiting(fetch[c]) PROVE fetch'[c].got = None
        BY <1>5 DEF TokenRefreshed, Repeated, Waiting
      <3>1. fetch[c] \in Request(Contents) /\ fetch[c].got = None
        BY DEF TypeOK, ShapeInv, Waiting
      <3>. QED
        BY <1>5, <3>1 DEF TokenRefreshed, Repeated, Request
    <2>2. \/ change' = None \/ change'.call.got = None
          \/ (change # None /\ change'.what = change.what
              /\ change'.call.got = change.call.got /\ change'.call.to = change.call.to)
      <3>1. CASE change = None
        BY <1>5, <3>1 DEF TokenRefreshed
      <3>2. CASE change # None
        <4>1. change \in Change /\ change.call \in Request(Outcomes)
          BY <3>2 DEF TypeOK, Change
        <4>2. change'.what = change.what /\ change'.call = Repeated(change.call)
          BY <1>5, <3>2, <4>1 DEF TokenRefreshed, Change
        <4>3. CASE change.call.pc = "waiting"
          BY <3>2, <4>1, <4>2, <4>3 DEF ShapeInv, Repeated, Request
        <4>4. CASE change.call.pc # "waiting"
          BY <3>2, <4>2, <4>4 DEF Repeated
        <4>. QED
          BY <4>3, <4>4
      <3>. QED
        BY <3>1, <3>2
    <2>3. UNCHANGED <<cache, known>>
      BY <1>5 DEF TokenRefreshed
    <2>. QED
      BY <2>1, <2>2, <2>3, KnowKept
  <1>6. CASE Showing
    BY <1>6, ShowingNew, KnowKept DEF Sent
  <1>7. CASE LeaveTokens
    <2>1. change # None => change'.what = change.what /\ change'.call = change.call
      BY <1>7 DEF LeaveTokens, TypeOK, Change
    <2>2. (change = None => change' = None) /\ UNCHANGED <<cache, fetch, known>>
      BY <1>7 DEF LeaveTokens
    <2>. QED
      BY <2>1, <2>2, KnowKept
  <1>8. CASE RefreshClick
    <2>1. \A c \in Clusters : cache'[c] = None \/ ~cache'[c].fresh \/ cache'[c] = cache[c]
      BY <1>8 DEF RefreshClick, Invalidate, TypeOK, List
    <2>2. \A c \in Clusters : fetch'[c] = fetch[c] \/ fetch'[c] = Sent
      BY <1>8, InvalidateNew DEF RefreshClick
    <2>. QED
      BY <1>8, <2>1, <2>2, KnowKept DEF RefreshClick, Sent
  <1>9. CASE Confirm
    BY <1>9, KnowKept DEF Confirm
  <1>10. CASE ChangeActs
    <2>1. /\ change \in Change /\ change.what \in Dialog /\ change.call.to \in Clusters
          /\ change.call \in Request(Outcomes) /\ UNCHANGED <<fetch, cache, known>>
      BY <1>10 DEF ChangeActs, TypeOK, Change, Request
    <2>2. PICK made \in Dialog, outcome \in Outcomes :
                 /\ Acts(made, outcome) /\ made.of = change.what.of
                 /\ made.make \in {change.what.make, "revoked"}
      BY <1>10, ActsWith
    <2>3. change'.what = change.what /\ change'.call.to = change.call.to
      BY <2>1, <2>2 DEF Acts, Change, Request
    <2>4. Rank[there'[change.call.to][change.what.of]] >= Rank[change.what.make]
      <3>1. there'[change.call.to][change.what.of] = made.make
        BY <2>1, <2>2 DEF Acts, Applied, TypeOK, Contents, Dialog
      <3>. QED
        BY <2>1, <2>2, <3>1, Ranks DEF Dialog
    <2>5. \A c \in Clusters : Knows(there[c], c)'
      BY <2>1, ThereMovesOn, KnownTyped DEF KnowInv, Knows
    <2>. QED
      BY <2>1, <2>3, <2>4, <2>5 DEF KnowInv, Knows
  <1>11. CASE ChangeOk
    <2>1. PICK keys : Invalidate(keys)
      BY <1>11 DEF ChangeOk
    <2>2. \A c \in Clusters : cache'[c] = None \/ ~cache'[c].fresh \/ cache'[c] = cache[c]
      BY <2>1 DEF Invalidate, TypeOK, List
    <2>3. \A c \in Clusters : fetch'[c] = fetch[c] \/ fetch'[c] = Sent
      BY <2>1, InvalidateNew
    <2>4. change' = None
      BY <1>11 DEF ChangeOk
    <2>5. CASE UNCHANGED known
      BY <2>2, <2>3, <2>4, <2>5, KnowKept DEF Sent
    <2>6. CASE known' # known
      <3>1. /\ change \in Change /\ change.call.got = "ok" /\ change.key = None
            /\ change.on = activeCluster /\ change.call.to = change.on /\ cache[change.on] # None
            /\ known' = [known EXCEPT ![change.on] = Applied(change.what, @)]
            /\ Invalidate({change.on}) /\ UNCHANGED there
        BY <1>11, <2>6 DEF ChangeOk, TypeOK
      <3>2. change # None /\ page = "tokens" /\ change.on \in Clusters /\ change.what \in Dialog
        BY <1>11, <3>1 DEF ChangeOk, ShapeInv, Change
      <3>3. fetch'[change.on] = Sent /\ ~cache'[change.on].fresh
        BY <3>1, <3>2 DEF Invalidate, Refetched, TypeOK, List
      <3>4. ASSUME NEW t \in Tokens
            PROVE  Rank[there[change.on][t]] >= Rank[known'[change.on][t]]
        <4>1. known'[change.on][t]
                = IF t = change.what.of THEN change.what.make ELSE known[change.on][t]
          BY <3>1, <3>2 DEF Applied, TypeOK, Contents
        <4>2. t = change.what.of => Rank[there[change.on][t]] >= Rank[change.what.make]
          BY <3>1, <3>2, NoRecordAssumption DEF KnowInv, Outcomes
        <4>3. Rank[there[change.on][t]] >= Rank[known[change.on][t]]
          BY <3>2 DEF KnowInv, Knows
        <4>. QED
          BY <4>1, <4>2, <4>3
      <3>5. \A c \in Clusters \ {change.on} : known'[c] = known[c]
        BY <3>1 DEF TypeOK
      <3>6. ASSUME NEW c \in Clusters
            PROVE  /\ Knows(there[c], c)'
                   /\ fetch'[c] # None /\ fetch'[c].got # None /\ fetch'[c].to = c
                        => Knows(fetch[c].got, c)'
                   /\ cache'[c] # None /\ cache'[c].fresh /\ cache'[c].from = c
                        => Knows(cache[c].items, c)'
        <4>1. CASE c = change.on
          BY <3>1, <3>3, <3>4, <4>1 DEF Knows, Sent
        <4>2. CASE c # change.on
          BY <2>2, <2>3, <3>1, <3>5, <4>2 DEF KnowInv, Knows, Sent
        <4>. QED
          BY <4>1, <4>2
      <3>. QED
        BY <2>4, <3>6 DEF KnowInv
    <2>. QED
      BY <2>5, <2>6
  <1>12. CASE ChangeRefused \/ ChangeFails
    <2>1. /\ change' = None \/ change'.call.got = None
          /\ UNCHANGED <<fetch, cache, known>>
      BY <1>12 DEF ChangeRefused, ChangeFails, IsSent, TypeOK, Change, Request
    <2>. QED
      BY <2>1, KnowKept
  <1>13. CASE UNCHANGED <<change, fetch, cache, known>>
    BY <1>13, KnowKept
  <1>14. ASSUME NEW c \in Clusters, AddCluster(c) \/ RemoveCluster(c) \/ RemovedElsewhere(c)
         PROVE  UNCHANGED <<change, fetch, cache, known>>
    BY <1>14 DEF AddCluster, RemoveCluster, RemovedElsewhere
  <1>15. ASSUME OpensDialog \/ CloseDialog \/ TokenExpires \/ UNCHANGED vars
         PROVE  UNCHANGED <<change, fetch, cache, known>>
    BY <1>15 DEF OpensDialog, OpenDialog, CloseDialog, TokenExpires, vars
  <1>. QED
    BY <1>1, <1>2, <1>3, <1>4, <1>5, <1>6, <1>7, <1>8, <1>9, <1>10, <1>11, <1>12, <1>13, <1>14,
       <1>15, NextCases DEF Request1, Registry, PageStep, ChangeStep, Showing

\* useTokens.ts:43-82: for any clusters and tokens, whatever fetches were under way when a
\* change succeeded, no list of its cluster that counts as fresh is older than it.
THEOREM FreshAlwaysKnows == Spec => []FreshKnows
  <1>1. ASSUME Init PROVE ShapeInv /\ KnowInv
    <2>1. \A c \in Clusters : fetch[c] = None /\ cache[c] = None
      BY <1>1 DEF Init
    <2>2. \A c \in Clusters, t \in Tokens : there[c][t] = "created" /\ known[c][t] = "created"
      BY <1>1 DEF Init, Untouched
    <2>. QED
      BY <1>1, <2>1, <2>2, Ranks DEF Init, ShapeInv, KnowInv, Knows, Waiting
  <1>2. KnowInv => FreshKnows
    BY DEF KnowInv, Knows, FreshKnows
  <1>. QED
    BY <1>1, <1>2, TypeInit, TypeNext, ShapeNext, KnowNext, PTL DEF Spec
=============================================================================
