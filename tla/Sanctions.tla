----------------------------- MODULE Sanctions -----------------------------
(***************************************************************************)
(* An order that the screening of sanctioned persons has hit is moved to a *)
(* state of its own in Commercetools.  The message about it starts a task  *)
(* that looks the order and its customer up and has the LMS deactivate the *)
(* learner.                                                                *)
(***************************************************************************)
EXTENDS Integers

CONSTANTS
  MaxMessages,     \* bound on deliveries of messages about the order's state
  SanctionRetries  \* retries of the task

ASSUME SanctionsAssumption == {MaxMessages, SanctionRetries} \subseteq Nat

VARIABLES
  screened,  \* Commercetools: the order's state, what it was before, whether it is edX's
  account,   \* LMS: whether the learner is active
  guarded,   \* the cache's entry of the view for the order
  messages,  \* deliveries so far
  sanctions  \* the tasks: next call, retries, what was read, how it ended

sanctionVars == <<screened, account, guarded, messages, sanctions>>

Sanctionings == 1..MaxMessages

NoSanctioning == [at |-> "none", retries |-> 0, hit |-> FALSE, ended |-> "no"]

SanctionsIdle ==
  /\ screened = [state |-> "idle", hit |-> FALSE, edx |-> FALSE]
  /\ account = "active"
  /\ guarded = FALSE
  /\ messages = 0
  /\ sanctions = [k \in Sanctionings |-> NoSanctioning]

SanctionsInit ==
  /\ screened \in [state : {"none"}, hit : {FALSE}, edx : BOOLEAN]
  /\ account = "active"
  /\ guarded = FALSE
  /\ messages = 0
  /\ sanctions = [k \in Sanctionings |-> NoSanctioning]

\* The order is moved from state to state; any transition is allowed.
Screen ==
  /\ screened.state # "idle"
  /\ \E s \in {"sanctioned", "cleared"} :
       screened' = [screened EXCEPT !.state = s, !.hit = @ \/ s = "sanctioned"]
  /\ UNCHANGED <<account, guarded, messages, sanctions>>

-----------------------------------------------------------------------------
(* The view takes a message, unless it has taken one of the order in the last ten
   minutes.  A task that cannot be published is lost, and the entry stays. *)
OrderSanctionedView ==
  /\ screened.state \in {"sanctioned", "cleared"}
  /\ messages < MaxMessages
  /\ messages' = messages + 1
  /\ guarded' = TRUE
  /\ \/ guarded /\ UNCHANGED sanctions
     \/ /\ ~guarded
        /\ \E started \in {[NoSanctioning EXCEPT !.at = "order"],
                           [NoSanctioning EXCEPT !.ended = "unpublished"]} :
             sanctions' = [sanctions EXCEPT ![messages'] = started]
  /\ UNCHANGED <<screened, account>>

ExpireGuard ==
  /\ guarded
  /\ guarded' = FALSE
  /\ UNCHANGED <<screened, account, messages, sanctions>>

-----------------------------------------------------------------------------
Finish(k, how) ==
  sanctions' = [sanctions EXCEPT ![k].at = "none", ![k].ended = how]

\* Celery's autoretry, from the first line again.
Retry(k) ==
  IF sanctions[k].retries < SanctionRetries
  THEN sanctions' = [sanctions EXCEPT ![k] =
                       [NoSanctioning EXCEPT !.at = "order", !.retries = sanctions[k].retries + 1]]
  ELSE Finish(k, "gave_up")

\* An HTTP error is retried; one of Commercetools is caught, and ends the task.
LookupFails(k) ==
  /\ sanctions[k].at \in {"order", "customer"}
  /\ Retry(k) \/ Finish(k, "not_found")
  /\ UNCHANGED <<screened, account, guarded, messages>>

get_edx_is_sanctioned_Any == TRUE \* a mutant

get_edx_is_sanctioned == screened.state = "sanctioned"

get_order_by_id(k) ==
  /\ sanctions[k].at = "order"
  /\ sanctions' = [sanctions EXCEPT ![k].at = "customer", ![k].hit = get_edx_is_sanctioned]
  /\ UNCHANGED <<screened, account, guarded, messages>>

get_customer_by_id(k) ==
  /\ sanctions[k].at = "customer"
  /\ IF screened.edx /\ sanctions[k].hit
     THEN sanctions' = [sanctions EXCEPT ![k].at = "deactivate"]
     ELSE Finish(k, "finished")
  /\ UNCHANGED <<screened, account, guarded, messages>>

DeactivationFails_Swallowed(k) == Finish(k, "finished") \* a mutant

DeactivationFails(k) == Retry(k)

\* The LMS may have done it although the answer is lost.
deactivate_user(k) ==
  /\ sanctions[k].at = "deactivate"
  /\ \/ account' = "deactivated" /\ (Finish(k, "finished") \/ DeactivationFails(k))
     \/ UNCHANGED account /\ DeactivationFails(k)
  /\ UNCHANGED <<screened, guarded, messages>>

SanctionDies(k) ==
  /\ sanctions[k].at # "none"
  /\ Finish(k, "died")
  /\ UNCHANGED <<screened, account, guarded, messages>>

SanctionsNext ==
  \/ Screen \/ OrderSanctionedView \/ ExpireGuard
  \/ \E k \in Sanctionings :
       \/ LookupFails(k) \/ get_order_by_id(k) \/ get_customer_by_id(k)
       \/ deactivate_user(k) \/ SanctionDies(k)

SanctionsSpec == (SanctionsIdle \/ SanctionsInit) /\ [][SanctionsNext]_sanctionVars

-----------------------------------------------------------------------------
(* A task that has seen the sanction, and came to its end, leaves the learner
   deactivated, through whatever retries. *)
SanctionEnforced ==
  \A k \in Sanctionings :
    /\ sanctions[k].ended = "finished"
    /\ sanctions[k].hit
    /\ screened.edx
    => account = "deactivated"

(* No learner is deactivated whose order was not sanctioned at any time, or whose order
   is not one of edX. *)
DeactivatedForCause == account = "deactivated" => screened.hit /\ screened.edx
=============================================================================
