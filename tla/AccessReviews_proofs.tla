-------------------------- MODULE AccessReviews_proofs --------------------------
(***************************************************************************)
(* What holds of AccessReviews for any requests and namespaces: types,     *)
(* that no list takes an announced verdict back, that a dialog closes for  *)
(* what it asked for, and that a Role is asked for where it is.            *)
(***************************************************************************)
EXTENDS AccessReviews, TLAPS

-----------------------------------------------------------------------------
(* Types. *)

Status == {"none", "pending", "approved", "denied", "revoked", "expired"}

LEMMA RankDomain == DOMAIN Rank = Status
  BY DEF Rank, Status

LEMMA Ranks ==
  /\ Rank["none"] = 0 /\ Rank["pending"] = 1 /\ Rank["approved"] = 2
  /\ Rank["denied"] = 2 /\ Rank["revoked"] = 3 /\ Rank["expired"] = 3
  BY DEF Rank

LEMMA ActionsDomain == DOMAIN Makes = {"approve", "revoke"}
  BY DEF Makes

LEMMA Actions ==
  /\ Needs["approve"] = "pending" /\ Needs["revoke"] = "approved"
  /\ Makes["approve"] = "approved" /\ Makes["revoke"] = "revoked"
  BY DEF Needs, Makes

LEMMA RowChange ==
  ASSUME NEW f \in Statuses, NEW q \in Requests, NEW s \in Status
  PROVE  [f EXCEPT ![q] = s] \in Statuses
  BY RankDomain DEF Statuses

LEMMA FetchTyped == Fetch \in Answer
  BY DEF Fetch, Answer

LEMMA RefetchedTyped == TypeOK => Refetched \in Answer
  BY FetchTyped DEF Refetched, TypeOK

LEMMA TypeInit == Init => TypeOK
  <1> SUFFICES ASSUME Init PROVE TypeOK
    OBVIOUS
  <1>1. rows \in Statuses /\ said \in Statuses
    BY RankDomain DEF Init, Statuses, Status
  <1>. QED
    BY <1>1, FetchTyped DEF Init, TypeOK

LEMMA ListTyped ==
  ASSUME TypeOK, Poll \/ ReadRows \/ FetchOk \/ FetchFails
  PROVE  TypeOK'
  <1>. USE DEF dialogs, calls
  <1>1. CASE Poll
    BY <1>1, FetchTyped DEF Poll, TypeOK
  <1>2. CASE ReadRows
    <2>1. fetch' \in Answer
      BY <1>2 DEF ReadRows, TypeOK, Answer
    <2>. QED
      BY <1>2, <2>1 DEF ReadRows, TypeOK
  <1>3. CASE FetchOk
    <2>1. list' \in Statuses
      BY <1>3 DEF FetchOk, TypeOK, Answer
    <2>. QED
      BY <1>3, <2>1 DEF FetchOk, TypeOK
  <1>4. CASE FetchFails
    BY <1>4 DEF FetchFails, TypeOK
  <1>. QED
    BY <1>1, <1>2, <1>3, <1>4

ReviewStep == CloseConfirm \/ handleConfirm \/ ReviewActs \/ ReviewOk \/ ReviewFails

DenyStep(q) == Deny(q) \/ DenyActs(q) \/ DenyOk(q) \/ DenyFails(q)

LEMMA ReviewTyped == TypeOK /\ ReviewStep => TypeOK'
  <1> SUFFICES ASSUME TypeOK, ReviewStep PROVE TypeOK'
    OBVIOUS
  <1>. USE DEF dialogs, calls
  <1>1. CASE CloseConfirm
    <2>1. review' \in Review \cup {None}
      BY <1>1 DEF CloseConfirm, TypeOK, Review
    <2>. QED
      BY <1>1, <2>1 DEF CloseConfirm, TypeOK
  <1>2. CASE handleConfirm
    <2>1. review' \in Review
      BY <1>2 DEF handleConfirm, TypeOK, Review
    <2>. QED
      BY <1>2, <2>1 DEF handleConfirm, TypeOK
  <1>3. CASE ReviewActs \/ ReviewOk
    <2>1. /\ review \in Review /\ review.what.of \in Requests
          /\ Makes[review.what.action] \in Status
      BY <1>3, ActionsDomain, Actions
         DEF ReviewActs, ReviewOk, TypeOK, Review, Confirmation, Status
    <2>2. CASE ReviewActs
      <3>1. review' \in Review
        BY <2>1, <2>2 DEF ReviewActs, Review
      <3>2. rows' \in Statuses
        BY <2>1, <2>2, RowChange DEF ReviewActs, TypeOK
      <3>. QED
        BY <2>2, <3>1, <3>2 DEF ReviewActs, TypeOK
    <2>3. CASE ReviewOk
      <3>1. said' \in Statuses
        BY <2>1, <2>3, RowChange DEF ReviewOk, TypeOK
      <3>. QED
        BY <2>3, <3>1, RefetchedTyped DEF ReviewOk, TypeOK
    <2>. QED
      BY <1>3, <2>2, <2>3
  <1>4. CASE ReviewFails
    BY <1>4 DEF ReviewFails, TypeOK
  <1>. QED
    BY <1>1, <1>2, <1>3, <1>4 DEF ReviewStep

LEMMA DenyTyped ==
  ASSUME TypeOK, NEW q \in Requests, DenyStep(q)
  PROVE  TypeOK'
  <1>. USE DEF dialogs, calls
  <1>1. CASE Deny(q)
    BY <1>1 DEF Deny, TypeOK
  <1>2. CASE DenyActs(q)
    <2>1. rows' \in Statuses
      BY <1>2, RowChange DEF DenyActs, TypeOK, Status
    <2>. QED
      BY <1>2, <2>1 DEF DenyActs, TypeOK
  <1>3. CASE DenyOk(q)
    <2>1. said' \in Statuses
      BY <1>3, RowChange DEF DenyOk, TypeOK, Status
    <2>. QED
      BY <1>3, <2>1, RefetchedTyped DEF DenyOk, TypeOK
  <1>4. CASE DenyFails(q)
    BY <1>4 DEF DenyFails, TypeOK
  <1>. QED
    BY <1>1, <1>2, <1>3, <1>4 DEF DenyStep

FormStep ==
  \/ OpenForm \/ CloseForm
  \/ \E s \in {"cluster", "namespace"} : SetScope(s)
  \/ \E n \in Namespaces \cup {None} : SetNamespace(n)
  \/ \E r \in Namespaces \cup {ClusterRole, None} : SetRole(r)

LEMMA FormTyped == TypeOK /\ FormStep => form' \in Form \cup {None}
  <1> SUFFICES ASSUME TypeOK, FormStep PROVE form' \in Form \cup {None}
    OBVIOUS
  <1>1. CASE OpenForm \/ CloseForm
    BY <1>1 DEF OpenForm, CloseForm, Form
  <1>2. ASSUME NEW s \in {"cluster", "namespace"}, SetScope(s) PROVE form' \in Form
    BY <1>2 DEF SetScope, Becomes, Form, TypeOK
  <1>3. ASSUME NEW n \in Namespaces \cup {None}, SetNamespace(n) PROVE form' \in Form
    BY <1>3 DEF SetNamespace, WithNamespace, Becomes, Form, TypeOK
  <1>4. ASSUME NEW r \in Namespaces \cup {ClusterRole, None}, SetRole(r) PROVE form' \in Form
    BY <1>4 DEF SetRole, Becomes, Form, TypeOK
  <1>. QED
    BY <1>1, <1>2, <1>3, <1>4 DEF FormStep

\* The form is nobody else's business.
LEMMA FormAlone ==
  FormStep => UNCHANGED <<rows, list, fetch, confirm, calls, said>>
  BY DEF FormStep, OpenForm, CloseForm, SetScope, SetNamespace, SetRole, Becomes

CreateStep == handleSubmit \/ CreateActs \/ CreateOk \/ CreateFails

LEMMA CreateTyped == TypeOK /\ CreateStep => TypeOK'
  <1> SUFFICES ASSUME TypeOK, CreateStep PROVE TypeOK'
    OBVIOUS
  <1>. USE DEF dialogs, calls
  <1>1. CASE handleSubmit
    <2>1. create' \in Creation
      BY <1>1 DEF handleSubmit, canSubmit, TypeOK, Form, Creation
    <2>. QED
      BY <1>1, <2>1 DEF handleSubmit, TypeOK
  <1>2. CASE CreateActs
    <2>1. create' \in Creation
      BY <1>2 DEF CreateActs, TypeOK, Creation
    <2>2. rows' \in Statuses
      <3>1. PICK q \in Requests : rows' = [rows EXCEPT ![q] = "pending"]
        BY <1>2, ConstantsAssumption DEF CreateActs
      <3>2. rows \in Statuses /\ "pending" \in Status
        BY DEF TypeOK, Status
      <3>. QED
        BY <3>1, <3>2, RowChange
    <2>. QED
      BY <1>2, <2>1, <2>2 DEF CreateActs, TypeOK
  <1>3. CASE CreateOk
    BY <1>3, RefetchedTyped DEF CreateOk, TypeOK
  <1>4. CASE CreateFails
    BY <1>4 DEF CreateFails, TypeOK
  <1>. QED
    BY <1>1, <1>2, <1>3, <1>4 DEF CreateStep

LEMMA NextCases ==
  ASSUME [Next]_vars
  PROVE  \/ Poll \/ ReadRows \/ FetchOk \/ FetchFails
         \/ \E q \in Requests, action \in DOMAIN Makes : OpenConfirm(action, q)
         \/ \E q \in Requests : DenyStep(q) \/ Elsewhere(q)
         \/ ReviewStep \/ FormStep \/ CreateStep
         \/ UNCHANGED vars
  BY DEF Next, DenyStep, ReviewStep, FormStep, CreateStep

LEMMA TypeNext == TypeOK /\ [Next]_vars => TypeOK'
  <1> SUFFICES ASSUME TypeOK, [Next]_vars PROVE TypeOK'
    OBVIOUS
  <1>. USE DEF dialogs, calls
  <1>1. ASSUME NEW q \in Requests, NEW action \in DOMAIN Makes, OpenConfirm(action, q)
        PROVE  TypeOK'
    BY <1>1 DEF OpenConfirm, TypeOK, Confirmation
  <1>2. ASSUME NEW q \in Requests, Elsewhere(q) PROVE TypeOK'
    <2>1. PICK s \in Status : rows' = [rows EXCEPT ![q] = s]
      BY <1>2, RankDomain DEF Elsewhere
    <2>2. rows' \in Statuses
      BY <2>1, RowChange DEF TypeOK
    <2>. QED
      BY <1>2, <2>2 DEF Elsewhere, TypeOK
  <1>3. CASE FormStep
    BY <1>3, FormTyped, FormAlone DEF TypeOK
  <1>4. CASE UNCHANGED vars
    BY <1>4 DEF vars, TypeOK
  <1>. QED
    BY <1>1, <1>2, <1>3, <1>4, NextCases, ListTyped, DenyTyped, ReviewTyped, CreateTyped

\* useAccessRequests.ts:20-76, AccessRequestsPage.tsx:41-59, RequestAccessModal.tsx:36-88:
\* list, dialogs, calls and the form keep their shape, whoever changes the requests.
THEOREM TypeCorrect == Spec => []TypeOK
  <1>. QED
    BY TypeInit, TypeNext, PTL DEF Spec

-----------------------------------------------------------------------------
(* Announced verdicts. *)

\* A request only moves on.
LEMMA RowsMoveOn ==
  ASSUME TypeOK, [Next]_vars, NEW q \in Requests
  PROVE  Rank[rows'[q]] \in Nat /\ Rank[rows'[q]] >= Rank[rows[q]]
  <1>. USE DEF dialogs, calls
  <1>0. rows[q] \in Status /\ Rank[rows[q]] \in Nat
    BY RankDomain, Ranks DEF TypeOK, Statuses, Status
  <1>1. CASE UNCHANGED rows
    BY <1>0, <1>1
  <1>2. ASSUME ReviewActs PROVE Rank[rows'[q]] \in Nat /\ Rank[rows'[q]] >= Rank[rows[q]]
    <2>1. /\ review.what.action \in {"approve", "revoke"}
          /\ rows[review.what.of] = Needs[review.what.action]
          /\ rows' = [rows EXCEPT ![review.what.of] = Makes[review.what.action]]
      BY <1>2, ActionsDomain DEF ReviewActs, TypeOK, Review, Confirmation
    <2>. QED
      BY <1>0, <2>1, Ranks, Actions DEF TypeOK, Statuses
  <1>3. ASSUME NEW p \in Requests, DenyActs(p)
        PROVE  Rank[rows'[q]] \in Nat /\ Rank[rows'[q]] >= Rank[rows[q]]
    BY <1>0, <1>3, Ranks DEF DenyActs, TypeOK, Statuses
  <1>4. ASSUME CreateActs PROVE Rank[rows'[q]] \in Nat /\ Rank[rows'[q]] >= Rank[rows[q]]
    BY <1>0, <1>4, Ranks DEF CreateActs, TypeOK, Statuses
  <1>5. ASSUME NEW p \in Requests, Elsewhere(p)
        PROVE  Rank[rows'[q]] \in Nat /\ Rank[rows'[q]] >= Rank[rows[q]]
    <2>1. PICK s \in Status : <<rows[p], s>> \in Steps /\ rows' = [rows EXCEPT ![p] = s]
      BY <1>5, RankDomain DEF Elsewhere
    <2>2. Rank[s] \in Nat /\ Rank[s] >= Rank[rows[p]]
      BY <2>1, Ranks DEF Steps
    <2>. QED
      BY <1>0, <2>1, <2>2 DEF TypeOK, Statuses
  <1>6. ASSUME Poll \/ ReadRows \/ FetchOk \/ FetchFails PROVE UNCHANGED rows
    BY <1>6 DEF Poll, ReadRows, FetchOk, FetchFails
  <1>7. ASSUME NEW p \in Requests, NEW action \in DOMAIN Makes, OpenConfirm(action, p)
        PROVE  UNCHANGED rows
    BY <1>7 DEF OpenConfirm
  <1>8. ASSUME NEW p \in Requests, Deny(p) \/ DenyOk(p) \/ DenyFails(p)
        PROVE  UNCHANGED rows
    BY <1>8 DEF Deny, DenyOk, DenyFails
  <1>9. ASSUME CloseConfirm \/ handleConfirm \/ ReviewOk \/ ReviewFails \/ FormStep
               \/ handleSubmit \/ CreateOk \/ CreateFails \/ UNCHANGED vars
        PROVE  UNCHANGED rows
    BY <1>9, FormAlone DEF CloseConfirm, handleConfirm, ReviewOk, ReviewFails, handleSubmit,
       CreateOk, CreateFails, vars
  <1>. QED
    BY <1>1, <1>2, <1>3, <1>4, <1>5, <1>6, <1>7, <1>8, <1>9, NextCases
       DEF DenyStep, ReviewStep, CreateStep

\* Nothing is reviewed before a first list is there, and a call that is done has left its
\* mark on the row; so has every verdict that was announced.
MarksInv ==
  /\ confirm # None \/ review # None \/ (\E q \in Requests : deny[q] # "none") => list # None
  /\ review # None /\ review.done =>
       Rank[rows[review.what.of]] >= Rank[Makes[review.what.action]]
  /\ \A q \in Requests : deny[q] = "done" => Rank[rows[q]] >= Rank["denied"]
  /\ \A q \in Requests : Rank[rows[q]] >= Rank[said[q]]

LEMMA RankNat == \A s \in Status : Rank[s] \in Nat
  BY Ranks DEF Status

LEMMA RowTyped ==
  ASSUME NEW f \in Statuses, NEW q \in Requests
  PROVE  f[q] \in Status /\ Rank[f[q]] \in Nat
  BY RankNat, RankDomain DEF Statuses

Busy == confirm # None \/ review # None \/ \E q \in Requests : deny[q] # "none"

\* A step that neither does anything to a request nor announces anything.
LEMMA MarksKept ==
  ASSUME TypeOK, MarksInv, [Next]_vars,
         list # None => list' # None,
         Busy' => list # None,
         review' # None /\ review'.done =>
           review # None /\ review.done /\ review'.what = review.what,
         \A q \in Requests : deny'[q] = "done" => deny[q] = "done",
         said' = said
  PROVE  MarksInv'
  <1>1. ASSUME NEW q \in Requests
        PROVE  /\ Rank[rows[q]] \in Nat /\ Rank[rows'[q]] \in Nat /\ Rank[said[q]] \in Nat
               /\ Rank[rows'[q]] >= Rank[rows[q]]
    BY <1>1, RowsMoveOn, RowTyped DEF TypeOK
  <1>2. \A q \in Requests : Rank[rows'[q]] >= Rank[said'[q]]
    BY <1>1 DEF MarksInv
  <1>3. \A q \in Requests : deny'[q] = "done" => Rank[rows'[q]] >= Rank["denied"]
    BY <1>1, Ranks DEF MarksInv
  <1>4. ASSUME review' # None, review'.done
        PROVE  Rank[rows'[review'.what.of]] >= Rank[Makes[review'.what.action]]
    <2>1. /\ review \in Review /\ review.done /\ review # None /\ review'.what = review.what
      BY <1>4 DEF TypeOK
    <2>2. review.what.of \in Requests /\ review.what.action \in {"approve", "revoke"}
      BY <2>1, ActionsDomain DEF Review, Confirmation
    <2>3. Rank[Makes[review.what.action]] \in Nat
      BY <2>2, Ranks, Actions
    <2>4. Rank[rows[review.what.of]] >= Rank[Makes[review.what.action]]
      BY <2>1 DEF MarksInv
    <2>. QED
      BY <1>1, <2>1, <2>2, <2>3, <2>4
  <1>. QED
    BY <1>2, <1>3, <1>4 DEF MarksInv, Busy

LEMMA MarksNext == TypeOK /\ MarksInv /\ [Next]_vars => MarksInv'
  <1> SUFFICES ASSUME TypeOK, MarksInv, [Next]_vars PROVE MarksInv'
    OBVIOUS
  <1>. USE DEF dialogs, calls
  <1>0. Busy => list # None
    BY DEF Busy, MarksInv
  <1>1. CASE Poll \/ ReadRows \/ FetchOk \/ FetchFails
    <2>1. list # None => list' # None
      BY <1>1, NoRecordAssumption DEF Poll, ReadRows, FetchOk, FetchFails, TypeOK, Answer
    <2>. QED
      BY <1>0, <1>1, <2>1, MarksKept DEF Poll, ReadRows, FetchOk, FetchFails, Busy
  <1>2. ASSUME NEW q \in Requests, NEW action \in DOMAIN Makes, OpenConfirm(action, q)
        PROVE  MarksInv'
    BY <1>2, MarksKept DEF OpenConfirm
  <1>3. ASSUME NEW q \in Requests, Deny(q) \/ DenyFails(q) PROVE MarksInv'
    <2>1. \A p \in Requests : deny'[p] = "done" => deny[p] = "done"
      BY <1>3 DEF Deny, DenyFails, TypeOK
    <2>2. list # None
      BY <1>0, <1>3 DEF Deny, DenyFails, Busy
    <2>. QED
      BY <1>3, <2>1, <2>2, MarksKept DEF Deny, DenyFails
  <1>4. ASSUME NEW q \in Requests, DenyActs(q) PROVE MarksInv'
    <2>1. /\ rows' = [rows EXCEPT ![q] = "denied"] /\ deny' = [deny EXCEPT ![q] = "done"]
          /\ deny[q] = "sent" /\ rows[q] = "pending" /\ UNCHANGED <<list, said, review, confirm>>
      BY <1>4 DEF DenyActs
    <2>2. list # None
      BY <1>0, <2>1 DEF Busy
    <2>3. \A p \in Requests : Rank[said'[p]] \in Nat /\ Rank[rows'[p]] >= Rank[said'[p]]
      BY <2>1, Ranks, RowTyped DEF MarksInv, TypeOK, Statuses
    <2>4. \A p \in Requests : deny'[p] = "done" => Rank[rows'[p]] >= Rank["denied"]
      BY <2>1, Ranks DEF MarksInv, TypeOK, Statuses
    <2>5. ASSUME review' # None, review'.done
          PROVE  Rank[rows'[review'.what.of]] >= Rank[Makes[review'.what.action]]
      <3>1. review.what.of \in Requests /\ review.what.action \in {"approve", "revoke"}
        BY <2>1, <2>5, ActionsDomain DEF TypeOK, Review, Confirmation
      <3>2. Rank[rows[review.what.of]] >= Rank[Makes[review.what.action]]
        BY <2>1, <2>5 DEF MarksInv
      <3>3. review.what.of # q
        BY <2>1, <3>1, <3>2, Ranks, Actions
      <3>. QED
        BY <2>1, <3>1, <3>2, <3>3 DEF TypeOK, Statuses
    <2>. QED
      BY <2>1, <2>2, <2>3, <2>4, <2>5 DEF MarksInv
  <1>5. ASSUME NEW q \in Requests, DenyOk(q) PROVE MarksInv'
    <2>1. /\ said' = [said EXCEPT ![q] = "denied"] /\ deny' = [deny EXCEPT ![q] = "none"]
          /\ deny[q] = "done" /\ UNCHANGED <<list, rows, review, confirm>>
      BY <1>5 DEF DenyOk
    <2>2. list # None
      BY <1>0, <2>1 DEF Busy
    <2>3. \A p \in Requests : Rank[rows'[p]] >= Rank[said'[p]]
      BY <2>1 DEF MarksInv, TypeOK, Statuses
    <2>4. \A p \in Requests : deny'[p] = "done" => Rank[rows'[p]] >= Rank["denied"]
      BY <2>1 DEF MarksInv, TypeOK
    <2>. QED
      BY <2>1, <2>2, <2>3, <2>4 DEF MarksInv
  <1>6. CASE CloseConfirm \/ handleConfirm \/ ReviewFails
    <2>1. review' # None /\ review'.done =>
            review # None /\ review.done /\ review'.what = review.what
      BY <1>6 DEF CloseConfirm, handleConfirm, ReviewFails, TypeOK, Review
    <2>2. list # None /\ UNCHANGED <<list, deny, said>>
      BY <1>0, <1>6 DEF CloseConfirm, handleConfirm, ReviewFails, Busy
    <2>. QED
      BY <2>1, <2>2, MarksKept
  <1>7. CASE ReviewActs
    <2>1. /\ review \in Review /\ ~review.done /\ review # None
          /\ rows[review.what.of] = Needs[review.what.action]
          /\ rows' = [rows EXCEPT ![review.what.of] = Makes[review.what.action]]
          /\ review' = [review EXCEPT !.done = TRUE] /\ UNCHANGED <<list, deny, said, confirm>>
      BY <1>7 DEF ReviewActs, TypeOK
    <2>2. /\ review.what.of \in Requests /\ review.what.action \in {"approve", "revoke"}
          /\ review'.what = review.what
      BY <2>1, ActionsDomain DEF Review, Confirmation
    <2>3. list # None
      BY <1>0, <2>1 DEF Busy
    <2>4. rows'[review'.what.of] = Makes[review'.what.action]
      BY <2>1, <2>2 DEF TypeOK, Statuses
    <2>5. Rank[Makes[review.what.action]] \in Nat
      BY <2>2, Ranks, Actions
    <2>6. ASSUME NEW q \in Requests
          PROVE  /\ Rank[rows'[q]] >= Rank[said'[q]]
                 /\ deny'[q] = "done" => Rank[rows'[q]] >= Rank["denied"]
      <3>1. /\ Rank[rows[q]] \in Nat /\ Rank[rows'[q]] \in Nat /\ Rank[said[q]] \in Nat
            /\ Rank[rows'[q]] >= Rank[rows[q]]
        BY RowsMoveOn, RowTyped DEF TypeOK
      <3>. QED
        BY <2>1, <3>1, Ranks DEF MarksInv
    <2>. QED
      BY <2>1, <2>3, <2>4, <2>5, <2>6 DEF MarksInv
  <1>8. CASE ReviewOk
    <2>1. /\ review \in Review /\ review.done /\ review # None /\ review' = None
          /\ confirm' = None /\ said' = [said EXCEPT ![review.what.of] = Makes[review.what.action]]
          /\ UNCHANGED <<rows, list, deny>>
      BY <1>8 DEF ReviewOk, TypeOK
    <2>2. list # None
      BY <1>0, <2>1 DEF Busy
    <2>3. \A p \in Requests : Rank[rows'[p]] >= Rank[said'[p]]
      BY <2>1 DEF MarksInv, TypeOK, Statuses
    <2>. QED
      BY <2>1, <2>2, <2>3 DEF MarksInv
  <1>9. ASSUME UNCHANGED <<list, confirm, review, deny, said>> PROVE MarksInv'
    BY <1>0, <1>9, MarksKept DEF Busy
  <1>10. ASSUME FormStep \/ CreateStep \/ (\E q \in Requests : Elsewhere(q)) \/ UNCHANGED vars
         PROVE  UNCHANGED <<list, confirm, review, deny, said>>
    BY <1>10, FormAlone DEF CreateStep, handleSubmit, CreateActs, CreateOk, CreateFails,
       Elsewhere, vars
  <1>. QED
    BY <1>1, <1>2, <1>3, <1>4, <1>5, <1>6, <1>7, <1>8, <1>9, <1>10, NextCases
       DEF DenyStep, ReviewStep

LEMMA SaidNext == TypeOK /\ MarksInv /\ SaidIsSeen /\ [Next]_vars => SaidIsSeen'
  <1> SUFFICES ASSUME TypeOK, MarksInv, SaidIsSeen, [Next]_vars PROVE SaidIsSeen'
    OBVIOUS
  <1>. USE DEF dialogs, calls
  <1>1. CASE ReadRows
    <2>1. fetch'.got = rows /\ said' = said
      BY <1>1 DEF ReadRows
    <2>. QED
      BY <2>1 DEF SaidIsSeen, MarksInv
  <1>2. CASE fetch' = None \/ fetch' = Fetch
    BY <1>2 DEF SaidIsSeen, Fetch
  <1>3. CASE UNCHANGED <<fetch, said>>
    BY <1>3 DEF SaidIsSeen
  <1>4. ASSUME CreateOk \/ ReviewOk \/ \E q \in Requests : DenyOk(q)
        PROVE  fetch' = Fetch \/ UNCHANGED <<fetch, said>>
    <2>1. CASE CreateOk
      BY <2>1 DEF CreateOk, Refetched
    <2>2. CASE ReviewOk
      BY <2>2 DEF ReviewOk, Refetched, MarksInv
    <2>3. ASSUME NEW q \in Requests, DenyOk(q) PROVE fetch' = Fetch
      BY <2>3 DEF DenyOk, Refetched, MarksInv
    <2>. QED
      BY <1>4, <2>1, <2>2, <2>3
  <1>5. ASSUME Poll \/ FetchOk \/ FetchFails PROVE fetch' = None \/ fetch' = Fetch
    BY <1>5 DEF Poll, FetchOk, FetchFails
  <1>6. ASSUME NEW q \in Requests, Deny(q) \/ DenyActs(q) \/ DenyFails(q) \/ Elsewhere(q)
        PROVE  UNCHANGED <<fetch, said>>
    BY <1>6 DEF Deny, DenyActs, DenyFails, Elsewhere
  <1>7. ASSUME NEW q \in Requests, NEW action \in DOMAIN Makes, OpenConfirm(action, q)
        PROVE  UNCHANGED <<fetch, said>>
    BY <1>7 DEF OpenConfirm
  <1>8. ASSUME \/ CloseConfirm \/ handleConfirm \/ ReviewActs \/ ReviewFails \/ FormStep
               \/ handleSubmit \/ CreateActs \/ CreateFails \/ UNCHANGED vars
        PROVE  UNCHANGED <<fetch, said>>
    BY <1>8, FormAlone DEF CloseConfirm, handleConfirm, ReviewActs, ReviewFails, handleSubmit,
       CreateActs, CreateFails, vars
  <1>. QED
    BY <1>1, <1>2, <1>3, <1>4, <1>5, <1>6, <1>7, <1>8, NextCases
       DEF DenyStep, ReviewStep, CreateStep

LEMMA MarksAlways == Spec => [](TypeOK /\ MarksInv /\ SaidIsSeen)
  <1>1. ASSUME Init PROVE MarksInv /\ SaidIsSeen
    <2>1. \A q \in Requests : rows[q] \in Status /\ said[q] = "none"
      BY <1>1 DEF Init, Status
    <2>. QED
      BY <1>1, <2>1, Ranks, RankNat DEF Init, MarksInv, SaidIsSeen, Fetch
  <1>. QED
    BY <1>1, TypeInit, TypeNext, MarksNext, SaidNext, PTL DEF Spec

\* useAccessRequests.ts:46-76: for any requests, polls and reviewers, no list that arrives
\* after a verdict was announced shows its request as it was before.
THEOREM SaidIsAlwaysSeen == Spec => []SaidIsSeen
  <1>. QED
    BY MarksAlways, PTL

-----------------------------------------------------------------------------
(* The dialog. *)

\* A dialog that is open while its call is under way is the one it was confirmed in.
DialogInv == review # None /\ ~review.left => confirm = review.what

LEMMA DialogNext == TypeOK /\ DialogInv /\ [Next]_vars => DialogInv'
  <1> SUFFICES ASSUME TypeOK, DialogInv, [Next]_vars PROVE DialogInv'
    OBVIOUS
  <1>. USE DEF dialogs, calls
  <1>1. CASE CloseConfirm
    BY <1>1 DEF CloseConfirm, DialogInv, TypeOK, Review
  <1>2. CASE handleConfirm
    BY <1>2 DEF handleConfirm, DialogInv
  <1>3. CASE ReviewActs
    BY <1>3 DEF ReviewActs, DialogInv, TypeOK, Review
  <1>4. CASE ReviewOk \/ ReviewFails
    BY <1>4 DEF ReviewOk, ReviewFails, DialogInv
  <1>5. ASSUME NEW q \in Requests, NEW action \in DOMAIN Makes, OpenConfirm(action, q)
        PROVE  DialogInv'
    BY <1>5, NoRecordAssumption DEF OpenConfirm, Uncovered, DialogInv, TypeOK, Review
  <1>6. ASSUME NEW q \in Requests, DenyStep(q) \/ Elsewhere(q)
        PROVE  UNCHANGED <<confirm, review>>
    BY <1>6 DEF DenyStep, Deny, DenyActs, DenyOk, DenyFails, Elsewhere
  <1>7. ASSUME \/ Poll \/ ReadRows \/ FetchOk \/ FetchFails \/ FormStep \/ CreateStep
               \/ UNCHANGED vars
        PROVE  UNCHANGED <<confirm, review>>
    BY <1>7, FormAlone DEF Poll, ReadRows, FetchOk, FetchFails, CreateStep, handleSubmit,
       CreateActs, CreateOk, CreateFails, vars
  <1>8. CASE UNCHANGED <<confirm, review>>
    BY <1>8 DEF DialogInv
  <1>. QED
    BY <1>1, <1>2, <1>3, <1>4, <1>5, <1>6, <1>7, <1>8, NextCases DEF ReviewStep

\* AccessRequestsPage.tsx:55-59: for any requests, a dialog that closes without a click has
\* done what it asked for, unless its call comes from one that was closed before.
THEOREM ClosedIsAlwaysDone == Spec => ClosedIsDone
  <1> DEFINE Closes == confirm # None /\ confirm' = None /\ review # None /\ review' = None
             Done == review.left \/ (rows[confirm.of] # Needs[confirm.action]
                                       /\ said'[confirm.of] = Makes[confirm.action])
  <1>1. TypeOK /\ MarksInv /\ DialogInv /\ [Next]_vars => (Closes => Done)
    <2> SUFFICES ASSUME TypeOK, MarksInv, DialogInv, [Next]_vars, Closes, ~review.left PROVE Done
      OBVIOUS
    <2>. USE DEF dialogs, calls
    <2>1. confirm = review.what
      BY DEF DialogInv
    <2>2. review \in Review /\ confirm.of \in Requests /\ confirm.action \in {"approve", "revoke"}
      BY <2>1, ActionsDomain DEF TypeOK, Review, Confirmation
    <2>3. CASE ReviewOk
      <3>1. /\ review.done
            /\ said' = [said EXCEPT ![review.what.of] = Makes[review.what.action]]
        BY <2>3 DEF ReviewOk
      <3>2. Rank[rows[confirm.of]] >= Rank[Makes[confirm.action]]
        BY <2>1, <3>1 DEF MarksInv
      <3>3. rows[confirm.of] # Needs[confirm.action]
        BY <2>2, <3>2, Ranks, Actions
      <3>. QED
        BY <2>1, <2>2, <3>1, <3>3 DEF TypeOK, Statuses
    <2>4. ASSUME NEW q \in Requests, DenyStep(q) \/ Elsewhere(q)
          PROVE  UNCHANGED review
      BY <2>4 DEF DenyStep, Deny, DenyActs, DenyOk, DenyFails, Elsewhere
    <2>5. ASSUME \/ Poll \/ ReadRows \/ FetchOk \/ FetchFails \/ FormStep \/ CreateStep
                 \/ UNCHANGED vars
          PROVE  UNCHANGED review
      BY <2>5, FormAlone DEF Poll, ReadRows, FetchOk, FetchFails, CreateStep, handleSubmit,
         CreateActs, CreateOk, CreateFails, vars
    <2>6. ASSUME NEW q \in Requests, NEW action \in DOMAIN Makes, OpenConfirm(action, q)
          PROVE  UNCHANGED review
      BY <2>6 DEF OpenConfirm
    <2>7. CASE CloseConfirm \/ handleConfirm \/ ReviewActs \/ ReviewFails
      <3>1. review' \in Review \/ UNCHANGED confirm
        BY <2>2, <2>7 DEF CloseConfirm, handleConfirm, ReviewActs, ReviewFails, Review
      <3>. QED
        BY <3>1, NoRecordAssumption
    <2>. QED
      BY <2>3, <2>4, <2>5, <2>6, <2>7, NextCases DEF ReviewStep
  <1>2. Init => DialogInv
    BY DEF Init, DialogInv
  <1>3. Spec => []DialogInv
    BY <1>2, TypeInit, TypeNext, DialogNext, PTL DEF Spec
  <1>4. [](TypeOK /\ MarksInv /\ DialogInv) /\ [][Next]_vars => [][Closes => Done]_vars
    BY <1>1, PTL
  <1>. QED
    BY <1>3, <1>4, MarksAlways, PTL DEF Spec, ClosedIsDone

-----------------------------------------------------------------------------
(* The form. *)

\* A Role that is chosen, or asked for with a namespace, is one of that namespace.
FormInv ==
  /\ form # None => form.role \in {None, ClusterRole, form.namespace}
  /\ create # None =>
       /\ create.role = ClusterRole \/ create.namespace \in {None, create.role}
       /\ create.done => Acceptable

LEMMA FormNext == TypeOK /\ FormInv /\ [Next]_vars => FormInv'
  <1> SUFFICES ASSUME TypeOK, FormInv, [Next]_vars PROVE FormInv'
    OBVIOUS
  <1>. USE DEF dialogs, calls
  <1>1. CASE FormStep
    <2>1. create' = create
      BY <1>1, FormAlone
    <2>2. form' # None => form'.role \in {None, ClusterRole, form'.namespace}
      <3>1. CASE OpenForm \/ CloseForm
        BY <3>1 DEF OpenForm, CloseForm
      <3>2. ASSUME NEW s \in {"cluster", "namespace"}, SetScope(s)
            PROVE  form'.role \in {None, ClusterRole, form'.namespace}
        BY <3>2 DEF SetScope, Becomes, FormInv, TypeOK, Form
      <3>3. ASSUME NEW n \in Namespaces \cup {None}, SetNamespace(n)
            PROVE  form'.role \in {None, ClusterRole, form'.namespace}
        BY <3>3 DEF SetNamespace, WithNamespace, Becomes, TypeOK, Form
      <3>4. ASSUME NEW r \in Namespaces \cup {ClusterRole, None}, SetRole(r)
            PROVE  form'.role \in {None, ClusterRole, form'.namespace}
        BY <3>4 DEF SetRole, roleOptions, Becomes, TypeOK, Form
      <3>. QED
        BY <1>1, <3>1, <3>2, <3>3, <3>4 DEF FormStep
    <2>. QED
      BY <2>1, <2>2 DEF FormInv, Acceptable
  <1>2. CASE handleSubmit
    <2>1. /\ form' = form /\ form.role \in {ClusterRole, form.namespace} /\ ~create'.done
          /\ create'.role = form.role /\ create'.namespace \in {None, form.namespace}
      BY <1>2 DEF handleSubmit, canSubmit, FormInv
    <2>. QED
      BY <2>1 DEF FormInv
  <1>3. CASE CreateActs
    <2>1. /\ create \in Creation /\ create'.role = create.role /\ create # None
          /\ create'.namespace = create.namespace /\ Acceptable /\ form' = form
      BY <1>3 DEF CreateActs, TypeOK, Creation
    <2>. QED
      BY <2>1 DEF FormInv, Acceptable
  <1>4. CASE CreateOk \/ CreateFails
    BY <1>4 DEF CreateOk, CreateFails, FormInv
  <1>5. CASE UNCHANGED <<form, create>>
    BY <1>5 DEF FormInv, Acceptable
  <1>6. ASSUME NEW q \in Requests, DenyStep(q) \/ Elsewhere(q)
        PROVE  UNCHANGED <<form, create>>
    BY <1>6 DEF DenyStep, Deny, DenyActs, DenyOk, DenyFails, Elsewhere
  <1>7. ASSUME NEW q \in Requests, NEW action \in DOMAIN Makes, OpenConfirm(action, q)
        PROVE  UNCHANGED <<form, create>>
    BY <1>7 DEF OpenConfirm
  <1>8. ASSUME Poll \/ ReadRows \/ FetchOk \/ FetchFails \/ ReviewStep \/ UNCHANGED vars
        PROVE  UNCHANGED <<form, create>>
    BY <1>8 DEF Poll, ReadRows, FetchOk, FetchFails, ReviewStep, CloseConfirm, handleConfirm,
       ReviewActs, ReviewOk, ReviewFails, vars
  <1>. QED
    BY <1>1, <1>2, <1>3, <1>4, <1>5, <1>6, <1>7, <1>8, NextCases DEF CreateStep

\* RequestAccessModal.tsx:54-67, 88: for any namespaces, whatever is switched back and forth,
\* what is recorded names a Role of its own namespace.
THEOREM AskedAlwaysWhereItIs == Spec => []AskedWhereItIs
  <1>1. Init => TypeOK /\ FormInv
    BY TypeInit DEF Init, FormInv
  <1>2. FormInv => AskedWhereItIs
    BY DEF FormInv, AskedWhereItIs, Acceptable
  <1>. QED
    BY <1>1, <1>2, TypeNext, FormNext, PTL DEF Spec
=============================================================================
