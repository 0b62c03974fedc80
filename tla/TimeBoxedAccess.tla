--------------------------- MODULE TimeBoxedAccess ---------------------------
(***************************************************************************)
(* What just-in-time access promises, with no workers, locks, jobs or      *)
(* database transactions in sight.                                         *)
(*                                                                         *)
(* A request is asked for once, decided once, and closed.  Grants (the     *)
(* Kubernetes bindings of the request) appear only while the request is    *)
(* still undecided, never outlive the duration that was asked for, and are *)
(* never prolonged in place: they can only be taken away.                  *)
(***************************************************************************)
EXTENDS Naturals

CONSTANTS
  Requests,   \* identities of access requests (uuid4 primary keys)
  Clusters,   \* clusters on which a grant can live
  MaxTtl      \* longest duration anybody may ask for

VARIABLES
  now,        \* the time
  stage,      \* stage[r]: where request r is in its life
  box,        \* box[r]: the duration asked for by r
  grants      \* grants[c][r]: expiry of r's grant on c, 0 when there is none

vars == <<now, stage, box, grants>>

Stages == {"none", "pending", "approved", "denied", "revoked", "expired"}

TypeOK ==
  /\ now \in Nat
  /\ stage \in [Requests -> Stages]
  /\ box \in [Requests -> 0..MaxTtl]
  /\ grants \in [Clusters -> [Requests -> Nat]]

Init ==
  /\ now \in Nat
  /\ stage = [r \in Requests |-> "none"]
  /\ box = [r \in Requests |-> 0]
  /\ grants = [c \in Clusters |-> [r \in Requests |-> 0]]

\* Somebody asks for access for at most MaxTtl.
Ask(r) ==
  /\ stage[r] = "none"
  /\ stage' = [stage EXCEPT ![r] = "pending"]
  /\ \E t \in 1..MaxTtl : box' = [box EXCEPT ![r] = t]
  /\ UNCHANGED <<now, grants>>

\* A grant appears: only for an undecided request, only within its box.
Issue(c, r) ==
  /\ stage[r] = "pending"
  /\ grants[c][r] = 0
  /\ \E e \in 1..(now + box[r]) : grants' = [grants EXCEPT ![c][r] = e]
  /\ UNCHANGED <<now, stage, box>>

\* The request is decided, once.
Decide(r) ==
  /\ stage[r] = "pending"
  /\ \E s \in {"approved", "denied"} : stage' = [stage EXCEPT ![r] = s]
  /\ UNCHANGED <<now, box, grants>>

\* An approved request is closed early.
Revoke(r) ==
  /\ stage[r] = "approved"
  /\ stage' = [stage EXCEPT ![r] = "revoked"]
  /\ UNCHANGED <<now, box, grants>>

\* The ledger catches up with time: it may do so late, for a set of requests
\* that were approved, even when one of them has been revoked meanwhile.
Lapse(R) ==
  /\ \A r \in R : stage[r] \in {"approved", "revoked"}
  /\ stage' = [r \in Requests |-> IF r \in R THEN "expired" ELSE stage[r]]
  /\ UNCHANGED <<now, box, grants>>

\* A grant is taken away.
End(c, r) ==
  /\ grants[c][r] # 0
  /\ grants' = [grants EXCEPT ![c][r] = 0]
  /\ UNCHANGED <<now, stage, box>>

Tick ==
  /\ now' = now + 1
  /\ UNCHANGED <<stage, box, grants>>

Next ==
  \/ Tick
  \/ \E r \in Requests : Ask(r) \/ Decide(r) \/ Revoke(r)
  \/ \E R \in SUBSET Requests : Lapse(R)
  \/ \E c \in Clusters, r \in Requests : Issue(c, r) \/ End(c, r)

Spec == Init /\ [][Next]_vars

=============================================================================
