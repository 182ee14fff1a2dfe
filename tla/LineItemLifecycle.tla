------------------------ MODULE LineItemLifecycle ------------------------
(***************************************************************************)
(* What order fulfilment promises about each line item of an order,        *)
(* whatever tasks, retries, locks and messages it takes to get there:      *)
(*                                                                         *)
(*   - a line item is only ever marked as granted when the learner has     *)
(*     access to what was bought;                                          *)
(*   - a grant is final: a failure that is reported late never undoes it;  *)
(*   - a refusal can be superseded by a grant, or reopened by an operator. *)
(*                                                                         *)
(* Fulfillment.tla implements this module (its Lifecycle instance).        *)
(***************************************************************************)

CONSTANT Items      \* the line items of one order

VARIABLES
  access,           \* the items the learner has access to
  status            \* what the order says of each item

Init ==
  /\ access = {}
  /\ status = [i \in Items |-> "open"]

\* The learner is enrolled, or given the entitlement, for item i.
GiveAccess(i) ==
  /\ access' = access \cup {i}
  /\ UNCHANGED status

\* The order records the access that has been given.
Grant(i) ==
  /\ i \in access
  /\ status[i] \in {"open", "refused"}
  /\ status' = [status EXCEPT ![i] = "granted"]
  /\ UNCHANGED access

\* The order records that access could not be given.
Refuse(i) ==
  /\ status[i] = "open"
  /\ status' = [status EXCEPT ![i] = "refused"]
  /\ UNCHANGED access

\* An operator asks for a refused item to be fulfilled again.
Reopen(i) ==
  /\ status[i] = "refused"
  /\ status' = [status EXCEPT ![i] = "open"]
  /\ UNCHANGED access

Next == \E i \in Items : GiveAccess(i) \/ Grant(i) \/ Refuse(i) \/ Reopen(i)

Spec == Init /\ [][Next]_<<access, status>>
=============================================================================
