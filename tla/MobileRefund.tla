--------------------------- MODULE MobileRefund ---------------------------
(***************************************************************************)
(* The refund of an in-app purchase.  Apple or Google refunds the learner  *)
(* on its own and notifies the coordinator, which records the refund in    *)
(* Commercetools, asks for the revocation of access and, if the order has  *)
(* a return already, writes the transaction into it.  A return made in     *)
(* Commercetools reaches the coordinator as a message of its own, before   *)
(* or after the notification.  A mobile order has one line item.           *)
(***************************************************************************)
EXTENDS Naturals

CONSTANTS
  MaxNotices, \* bound on deliveries of the store's notification
  MaxRetries, \* max_retries of the three tasks (5 in the code)
  MaxFaults   \* bound on failed calls and lost publishes

ASSUME MobileRefundAssumption == {MaxNotices, MaxRetries, MaxFaults} \subseteq Nat

VARIABLES
  platform,     \* ios or android
  home,         \* system that has the order: commercetools or legacy
  passOn,       \* whether the flag for the legacy system is on
  voided,       \* the store has refunded the purchase
  mark,         \* cache: the notification's mark
  notices,      \* notifications that are being handled
  payVersion,   \* Commercetools: version of the payment
  transactions, \* Commercetools: number of refund transactions of the payment
  orderVersion, \* Commercetools: version of the order
  return,       \* Commercetools: the return of the line item: none, Initial, Refunded
  linked,       \* Commercetools: the return names the transaction
  message,      \* a ReturnInfoAdded message is on its way
  returns,      \* live returned tasks
  hooks,        \* live refund_from_mobile_task instances
  revokes,      \* number of live revoke_line_mobile_order_task instances
  revokeTries,  \* their retries
  revoked,      \* Order Fulfillment: access was revoked
  legacy,       \* the legacy system was told
  dropped,      \* history: what a step gave up on, leaving at most a log line
  crossed,      \* history: a returned task has written what it read too early
  received,     \* notices so far
  faults        \* faults so far

payment == <<payVersion, transactions>>
order == <<orderVersion, return, linked, message>>
given == <<platform, home, passOn>>
revocation == <<revokes, revokeTries, revoked>>
vars == <<given, voided, mark, notices, payment, order, returns, hooks, revocation,
          legacy, dropped, crossed, received, faults>>

Replace(S, old, new) == (S \ {old}) \cup {new}

Fault == faults < MaxFaults /\ faults' = faults + 1
NoFault == faults' = faults

GivesUp(duties) == dropped' = dropped \cup duties

-----------------------------------------------------------------------------
(* The store and the views of its notifications. *)

\* The store refunds the purchase.
StoreRefund ==
  /\ ~voided
  /\ voided' = TRUE
  /\ UNCHANGED <<given, mark, notices, payment, order, returns, hooks, revocation,
                 legacy, dropped, crossed, received, faults>>

\* A delivery of the notification asks whether it is being processed ...
_is_running ==
  /\ voided
  /\ received < MaxNotices
  /\ received' = received + 1
  /\ notices' = IF mark THEN notices ELSE notices \cup {received'}
  /\ UNCHANGED <<given, voided, mark, payment, order, returns, hooks, revocation,
                 legacy, dropped, crossed, faults>>

HookTask(n, tries) == [id |-> n, pc |-> "payment", pver |-> 0, over |-> 0, tries |-> tries]

\* ... sets the mark and publishes.  A publish that fails is swallowed, and the mark
\* stays.  IOSRefundView answers 200 to everything; an error of AndroidRefundView
\* clears the mark.
mark_running(n) ==
  /\ notices' = notices \ {n}
  /\ \/ /\ mark' = TRUE
        /\ hooks' = hooks \cup {HookTask(n, 0)}
        /\ NoFault
        /\ UNCHANGED dropped
     \/ /\ mark' = TRUE
        /\ Fault
        /\ GivesUp({"record", "revoke", "link"})
        /\ UNCHANGED hooks
     \/ /\ platform = "android"
        /\ mark' = FALSE
        /\ Fault
        /\ UNCHANGED <<hooks, dropped>>
  /\ UNCHANGED <<given, voided, payment, order, returns, revocation, legacy, crossed,
                 received>>

\* The mark expires.
ExpireMark ==
  /\ mark
  /\ mark' = FALSE
  /\ UNCHANGED <<given, voided, notices, payment, order, returns, hooks, revocation,
                 legacy, dropped, crossed, received, faults>>

IOSRefundView(n) == platform = "ios" /\ mark_running(n)

AndroidRefundView(n) == platform = "android" /\ mark_running(n)

-----------------------------------------------------------------------------
(* refund_from_mobile_task. *)

HookGoesOn(h, next) == hooks' = Replace(hooks, h, next) /\ UNCHANGED dropped

HookEnds(h) == hooks' = hooks \ {h} /\ UNCHANGED dropped

\* What a task that dies leaves undone.
Unfinished(h) ==
  CASE h.pc \in {"payment", "record"} -> {"record", "revoke", "link"}
    [] h.pc = "signal" -> {"revoke", "link"}
    [] OTHER -> {"link"}

HookDies(h) == hooks' = hooks \ {h} /\ GivesUp(Unfinished(h))

\* RequestException and CommercetoolsError: from the first line.
HookRetried(h) ==
  \/ h.tries < MaxRetries /\ HookGoesOn(h, HookTask(h.id, h.tries + 1))
  \/ h.tries = MaxRetries /\ HookDies(h)

\* No payment: a notification of Apple is passed on to the legacy system, if the flag
\* says so; AndroidRefundView does not hand the flag on.
NotOurs(h) ==
  /\ home = "legacy"
  /\ h.pc = "payment"
  /\ HookEnds(h)
  /\ legacy' = (legacy \/ (platform = "ios" /\ passOn))
  /\ UNCHANGED <<given, voided, mark, notices, payment, order, returns, revocation,
                 crossed, received, faults>>

\* The payment is read, with the refund's transaction or without.
ReadPayment(h) ==
  /\ home = "commercetools"
  /\ h.pc = "payment"
  /\ HookGoesOn(h, [h EXCEPT !.pver = payVersion,
                            !.pc = IF transactions > 0 THEN "find" ELSE "record"])
  /\ UNCHANGED <<given, voided, mark, notices, payment, order, returns, revocation,
                 legacy, crossed, received, faults>>

CurrentPayment_Unchecked(ver) == TRUE \* a mutant: the update carries no version

\* Commercetools refuses an update of a payment that has changed since it was read.
CurrentPayment(ver) == ver = payVersion

\* The transaction was created and the answer lost: the retry will find it there, and
\* not ask for the revocation.
AfterLostAnswer(h) ==
  \/ /\ h.tries < MaxRetries
     /\ hooks' = Replace(hooks, h, HookTask(h.id, h.tries + 1))
     /\ GivesUp({"revoke"})
  \/ /\ h.tries = MaxRetries
     /\ hooks' = hooks \ {h}
     /\ GivesUp({"revoke", "link"})

\* create_return_payment_transaction with the version that was read.
RecordRefund(h) ==
  /\ h.pc = "record"
  /\ \/ /\ CurrentPayment(h.pver)
        /\ transactions' = transactions + 1
        /\ payVersion' = payVersion + 1
        /\ \/ HookGoesOn(h, [h EXCEPT !.pc = "signal", !.pver = payVersion']) /\ NoFault
           \/ AfterLostAnswer(h) /\ Fault
     \/ /\ ~CurrentPayment(h.pver)
        /\ HookRetried(h)
        /\ UNCHANGED <<payment, faults>>
  /\ UNCHANGED <<given, voided, mark, notices, order, returns, revocation, legacy,
                 crossed, received>>

SignalRevoke_Skipped(h) == hooks' = Replace(hooks, h, [h EXCEPT !.pc = "find"]) \* a mutant
                           /\ UNCHANGED <<revocation, dropped, faults>>

\* The signal for the revocation; a publish that fails is swallowed.
SignalRevoke(h) ==
  /\ hooks' = Replace(hooks, h, [h EXCEPT !.pc = "find"])
  /\ \/ /\ revokes' = revokes + 1
        /\ NoFault
        /\ UNCHANGED dropped
     \/ /\ Fault
        /\ GivesUp({"revoke"})
        /\ UNCHANGED revokes
  /\ UNCHANGED <<revokeTries, revoked>>

revoke_line_mobile_order(h) ==
  /\ h.pc = "signal"
  /\ SignalRevoke(h)
  /\ UNCHANGED <<given, voided, mark, notices, payment, order, returns, legacy,
                 crossed, received>>

Unprocessed_Initial == return = "Initial" /\ ~linked \* a mutant: the state before

\* get_unprocessed_return_item_ids_from_order: refunded, without a transaction.
Unprocessed == return = "Refunded" /\ ~linked

\* The order is looked for by its payment and an unprocessed return ...
find_order_with_unprocessed_return_for_payment(h) ==
  /\ h.pc = "find"
  /\ IF Unprocessed THEN HookGoesOn(h, [h EXCEPT !.pc = "link", !.over = orderVersion])
                    ELSE HookEnds(h)
  /\ UNCHANGED <<given, voided, mark, notices, payment, order, returns, revocation,
                 legacy, crossed, received, faults>>

\* ... and gets the transaction's id; its state stays.  A version conflict is not
\* retried.
update_return_payment_state_after_successful_refund(h) ==
  /\ h.pc = "link"
  /\ \/ /\ h.over = orderVersion
        /\ orderVersion' = orderVersion + 1
        /\ linked' = TRUE
        /\ \/ HookGoesOn(h, [h EXCEPT !.pc = "mark"]) /\ NoFault
           \/ HookRetried(h) /\ Fault
     \/ /\ h.over # orderVersion
        /\ HookDies(h)
        /\ UNCHANGED <<orderVersion, linked, faults>>
  /\ UNCHANGED <<given, voided, mark, notices, payment, return, message, returns,
                 revocation, legacy, crossed, received>>

\* The payment's transaction gets the return's id.
MarkTransaction(h) ==
  /\ h.pc = "mark"
  /\ \/ /\ CurrentPayment(h.pver)
        /\ payVersion' = payVersion + 1
        /\ HookEnds(h)
     \/ /\ ~CurrentPayment(h.pver)
        /\ HookDies(h)
        /\ UNCHANGED payVersion
  /\ UNCHANGED <<given, voided, mark, notices, transactions, order, returns,
                 revocation, legacy, crossed, received, faults>>

\* A call fails without effect, or the worker dies.
HookFails(h) ==
  /\ Fault
  /\ HookDies(h) \/ (h.pc # "signal" /\ HookRetried(h))
  /\ UNCHANGED <<given, voided, mark, notices, payment, order, returns, revocation,
                 legacy, crossed, received>>

-----------------------------------------------------------------------------
(* The return of the line item, and the mobile branch of the returned task. *)

\* The LMS or an operator returns the line item.
ReturnMade ==
  /\ home = "commercetools"
  /\ return = "none"
  /\ return' = "Initial"
  /\ orderVersion' = orderVersion + 1
  /\ message' = TRUE
  /\ UNCHANGED <<given, voided, mark, notices, payment, linked, returns, hooks,
                 revocation, legacy, dropped, crossed, received, faults>>

ReturnTask(tries) == [pc |-> "order", ver |-> 0, txn |-> FALSE, tries |-> tries]

OrderReturnedView ==
  /\ message
  /\ message' = FALSE
  /\ returns' = returns \cup {ReturnTask(0)}
  /\ UNCHANGED <<given, voided, mark, notices, payment, orderVersion, return, linked,
                 hooks, revocation, legacy, dropped, crossed, received, faults>>

\* The order is read, with its payment.
ReadOrder(t) ==
  /\ t.pc = "order"
  /\ returns' = Replace(returns, t, [t EXCEPT !.pc = "update", !.ver = orderVersion,
                                             !.txn = transactions > 0])
  /\ UNCHANGED <<given, voided, mark, notices, payment, order, hooks, revocation,
                 legacy, dropped, crossed, received, faults>>

ReturnRetried(t) ==
  \/ /\ t.tries < MaxRetries
     /\ returns' = Replace(returns, t, ReturnTask(t.tries + 1))
     /\ UNCHANGED dropped
  \/ /\ t.tries = MaxRetries
     /\ returns' = returns \ {t}
     /\ GivesUp({"return"})

LinkSeen_Always(t) == TRUE            \* a mutant: an id is written in any case

LinkSeen(t) == linked \/ t.txn

\* The return becomes Refunded, whether the store has refunded or not, and names the
\* refund transaction of the payment that was read, if it had one.
update_return_payment_state_for_mobile_order(t) ==
  /\ t.pc = "update"
  /\ \/ /\ t.ver = orderVersion
        /\ orderVersion' = orderVersion + 1
        /\ return' = "Refunded"
        /\ linked' = LinkSeen(t)
        /\ crossed' = (crossed \/ (~t.txn /\ transactions > 0))
        /\ \/ returns' = returns \ {t} /\ UNCHANGED <<dropped, faults>>
           \/ ReturnRetried(t) /\ Fault
     \/ /\ t.ver # orderVersion
        /\ ReturnRetried(t)
        /\ UNCHANGED <<orderVersion, return, linked, crossed, faults>>
  /\ UNCHANGED <<given, voided, mark, notices, payment, message, hooks, revocation,
                 legacy, received>>

ReturnFails(t) ==
  /\ Fault
  /\ ReturnRetried(t)
  /\ UNCHANGED <<given, voided, mark, notices, payment, order, hooks, revocation,
                 legacy, crossed, received>>

-----------------------------------------------------------------------------
(* revoke_line_mobile_order_task. *)

revoke_line_mobile_order_task_Unasked == \* a mutant: runs without a signal
  /\ transactions > 0
  /\ revokes' = revokes - 1
  /\ revoked' = TRUE
  /\ UNCHANGED <<given, voided, mark, notices, payment, order, returns, hooks,
                 revokeTries, legacy, dropped, crossed, received, faults>>

revoke_line_mobile_order_task ==
  /\ revokes > 0
  /\ revokes' = revokes - 1
  /\ revoked' = TRUE
  /\ UNCHANGED <<given, voided, mark, notices, payment, order, returns, hooks,
                 revokeTries, legacy, dropped, crossed, received, faults>>

\* A read fails with a CommercetoolsError and the task is retried; or Order
\* Fulfillment does not answer, with or without effect, revoke_line returns None and
\* the task logs a success.
RevokeFails ==
  /\ revokes > 0
  /\ Fault
  /\ \/ /\ revokeTries < MaxRetries
        /\ revokeTries' = revokeTries + 1
        /\ UNCHANGED <<revokes, revoked, dropped>>
     \/ /\ revokes' = revokes - 1
        /\ revoked' \in {revoked, TRUE}
        /\ GivesUp({"revoke"})
        /\ UNCHANGED revokeTries
  /\ UNCHANGED <<given, voided, mark, notices, payment, order, returns, hooks, legacy,
                 crossed, received>>

-----------------------------------------------------------------------------
Init ==
  /\ platform \in {"ios", "android"}
  /\ home \in {"commercetools", "legacy"}
  /\ passOn \in BOOLEAN
  /\ voided = FALSE /\ mark = FALSE /\ notices = {}
  /\ payVersion = 1 /\ transactions = 0
  /\ orderVersion = 1 /\ return = "none" /\ linked = FALSE /\ message = FALSE
  /\ returns = {} /\ hooks = {}
  /\ revokes = 0 /\ revokeTries = 0 /\ revoked = FALSE
  /\ legacy = FALSE /\ dropped = {} /\ crossed = FALSE
  /\ received = 0 /\ faults = 0

HookStep(h) ==
  \/ NotOurs(h) \/ ReadPayment(h) \/ RecordRefund(h) \/ revoke_line_mobile_order(h)
  \/ find_order_with_unprocessed_return_for_payment(h)
  \/ update_return_payment_state_after_successful_refund(h) \/ MarkTransaction(h)

ReturnStep(t) == ReadOrder(t) \/ update_return_payment_state_for_mobile_order(t)

Next ==
  \/ StoreRefund \/ _is_running \/ ExpireMark
  \/ \E n \in notices : IOSRefundView(n) \/ AndroidRefundView(n)
  \/ \E h \in hooks : HookStep(h) \/ HookFails(h)
  \/ ReturnMade \/ OrderReturnedView
  \/ \E t \in returns : ReturnStep(t) \/ ReturnFails(t)
  \/ revoke_line_mobile_order_task \/ RevokeFails

Spec == Init /\ [][Next]_vars

\* Workers are alive and messages are delivered.
SystemStep ==
  \/ \E n \in notices : IOSRefundView(n) \/ AndroidRefundView(n)
  \/ \E h \in hooks : HookStep(h)
  \/ OrderReturnedView
  \/ \E t \in returns : ReturnStep(t)
  \/ revoke_line_mobile_order_task

FairSpec == Spec /\ WF_vars(SystemStep)

-----------------------------------------------------------------------------
(* Properties. *)

Hooks ==
  [id : Nat, pc : {"payment", "record", "signal", "find", "link", "mark"}, pver : Nat,
   over : Nat, tries : Nat]

Returns == [pc : {"order", "update"}, ver : Nat, txn : BOOLEAN, tries : Nat]

\* The order, the payment, the cache's mark and the tasks are well formed.
TypeOK ==
  /\ platform \in {"ios", "android"} /\ home \in {"commercetools", "legacy"}
  /\ {passOn, voided, mark, linked, message, revoked, legacy, crossed} \subseteq BOOLEAN
  /\ notices \subseteq Nat
  /\ {payVersion, transactions, orderVersion, revokes, revokeTries, received, faults}
       \subseteq Nat
  /\ return \in {"none", "Initial", "Refunded"}
  /\ returns \subseteq Returns /\ hooks \subseteq Hooks
  /\ dropped \subseteq {"record", "revoke", "link", "return"}

\* Two deliveries that both find no mark, or retries, record the store's refund once:
\* the version of the payment decides.
OneMobileTransaction == transactions <= 1

\* What the coordinator does about an order of Commercetools rests on the store's
\* refund: access is withdrawn, and a return names a transaction, only when there is
\* one; an order of the legacy system is left alone.
RestsOnRefund ==
  /\ revoked \/ linked \/ revokes > 0 => transactions > 0
  /\ transactions > 0 => voided /\ home = "commercetools"
  /\ legacy => voided /\ home = "legacy"

AtRest == notices = {} /\ hooks = {} /\ returns = {} /\ ~message

\* When the tasks are done, a refunded return names the refund transaction, whichever
\* of the two came first.  (The exceptions are a task that gave up, and a returned task
\* that read the payment just before the transaction was added and wrote the order
\* after the refund task had looked for a return: crossed.)
ReturnLinked ==
  AtRest /\ return = "Refunded" /\ transactions > 0 => linked \/ crossed \/ "link" \in dropped

\* A refund that is recorded ends the learner's access, or a step gave up on that: the
\* retry of a task whose transaction was created is among those, and so is the answer
\* that revoke_line_mobile_order_task ignores.
RefundRevokes == transactions > 0 ~> (revoked \/ "revoke" \in dropped)
=============================================================================
