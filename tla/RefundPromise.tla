-------------------------- MODULE RefundPromise --------------------------
(***************************************************************************)
(* What the refund of an order promises, item by item: money is returned   *)
(* only for what was sent back, an item is called refunded, and access to  *)
(* it taken away, only when the money has been returned, and an item that  *)
(* is called refunded stays so.                                            *)
(***************************************************************************)
CONSTANT Items

VARIABLES
  status,   \* of each item: kept, returned, refunded or refused
  paid,     \* items the learner has the money back for
  revoked   \* items the learner has no access to any more

vars == <<status, paid, revoked>>

Init ==
  /\ status = [i \in Items |-> "kept"]
  /\ paid = {}
  /\ revoked = {}

\* The learner sends items back.
Return(S) ==
  /\ \A i \in S : status[i] = "kept"
  /\ status' = [i \in Items |-> IF i \in S THEN "returned" ELSE status[i]]
  /\ UNCHANGED <<paid, revoked>>

\* The payment provider gives money back; how much is its own decision.
Pay(S) ==
  /\ paid' = paid \cup S
  /\ UNCHANGED <<status, revoked>>

\* The order records that items were refunded ...
Confirm(S) ==
  /\ S \subseteq paid
  /\ \A i \in S : status[i] # "kept"
  /\ status' = [i \in Items |-> IF i \in S THEN "refunded" ELSE status[i]]
  /\ UNCHANGED <<paid, revoked>>

\* ... or that they were not.
Refuse(S) ==
  /\ \A i \in S : status[i] \in {"returned", "refused"}
  /\ status' = [i \in Items |-> IF i \in S THEN "refused" ELSE status[i]]
  /\ UNCHANGED <<paid, revoked>>

\* The learner loses access.
Revoke(i) ==
  /\ i \in paid
  /\ revoked' = revoked \cup {i}
  /\ UNCHANGED <<status, paid>>

Next ==
  \/ \E S \in SUBSET Items : Return(S) \/ Pay(S) \/ Confirm(S) \/ Refuse(S)
  \/ \E i \in Items : Revoke(i)

Spec == Init /\ [][Next]_vars
=============================================================================
