------------------------------ MODULE Refund ------------------------------
(***************************************************************************)
(* The return of line items of one order that was paid through Stripe or   *)
(* PayPal, or that was free:                                               *)
(*                                                                         *)
(*   LMS --RefundView--> return item in the Commercetools order            *)
(*   EventBridge --OrderReturnedView--> returned task: read the order and  *)
(*     the payment, refund at the PSP, record the transaction, settle the  *)
(*     return, ask for the revocation                                      *)
(*   PSP --webhook--> refund task, which records the same transaction      *)
(*   revocation task --> Order Fulfillment                                 *)
(*                                                                         *)
(* One call to Commercetools, to the PSP or to Order Fulfillment is one    *)
(* step.  Every item costs one unit; proration is in RefundAmounts.        *)
(***************************************************************************)
EXTENDS Naturals, Sequences, FiniteSets

CONSTANTS
  N,               \* number of line items
  Psps,            \* who may have taken the payment: stripe, paypal, or free
  MaxRequests,     \* bound on refund requests of the LMS
  MaxRedeliveries, \* bound on messages and webhook events delivered again
  MaxRetries,      \* max_retries of the four tasks (5 in the code)
  MaxFaults        \* bound on failed calls, lost publishes and foreign writes

Items == 1..N

ASSUME RefundAssumption ==
  /\ N \in Nat \ {0}
  /\ Psps \subseteq {"stripe", "paypal", "free"}
  /\ {MaxRequests, MaxRedeliveries, MaxRetries, MaxFaults} \subseteq Nat

VARIABLES
  psp,          \* who took the payment
  orderVersion, \* Commercetools: version of the order
  created,      \* Commercetools: number of return items of each line item
  payState,     \* Commercetools: payment state of the return of each line item
  messages,     \* ReturnInfoAdded messages: the items of each, not yet delivered
  delivered,    \* ReturnInfoAdded messages that have been delivered
  payVersion,   \* Commercetools: version of the payment
  transactions, \* Commercetools: refund transactions of the payment
  payTotal,     \* Commercetools: what they amount to
  refunds,      \* PSP: its refunds of the payment, oldest first
  pspTotal,     \* PSP: what they amount to
  events,       \* PSP: refunds whose webhook event has not been delivered
  requests,     \* live RefundView requests
  returns,      \* live fulfill_order_returned_signal_task instances
  hooks,        \* live refund_from_stripe / refund_from_paypal tasks
  revokes,      \* live revoke_line_items_task instances
  revoked,      \* Order Fulfillment: items whose access was revoked
  dropped,      \* history: items a step gave up on, leaving at most a log line
  unrecorded,   \* history: refunds whose webhook task gave up
  asked,        \* requests so far
  redeliveries, \* redeliveries so far
  faults        \* faults so far

order   == <<orderVersion, created, payState, messages, delivered>>
payment == <<payVersion, transactions, payTotal>>
atPsp   == <<refunds, pspTotal, events>>
bounds  == <<asked, redeliveries, faults>>
history == <<dropped, unrecorded>>
vars == <<psp, order, payment, atPsp, requests, returns, hooks, revokes,
          revoked, history, bounds>>

Replace(S, old, new) == (S \ {old}) \cup {new}

\* A call that fails, a publish that is lost, a worker that dies.
Fault == faults < MaxFaults /\ faults' = faults + 1
NoFault == faults' = faults

-----------------------------------------------------------------------------
(* The payment in Commercetools and at the PSP. *)

\* A refund of the PSP, numbered by its place, and its webhook event.  The PSP
\* returns no more than it was paid, one unit per item.
PspRefund(S, amount) ==
  /\ pspTotal + amount <= N
  /\ refunds' = Append(refunds, [items |-> S, amount |-> amount])
  /\ pspTotal' = pspTotal + amount
  /\ events' = events \cup {Len(refunds) + 1}

\* An operator refunds in the PSP's dashboard.
DashboardRefund ==
  /\ psp # "free"
  /\ Fault
  /\ PspRefund({}, 1)
  /\ UNCHANGED <<psp, order, payment, requests, returns, hooks, revokes,
                 revoked, history, asked, redeliveries>>

\* has_full_refund_transaction: the refund transactions amount to the charge.
has_full_refund_transaction == payTotal = N

is_transaction_already_refunded_Never(r) == FALSE                      \* a mutant

is_transaction_already_refunded(r) ==
  \E k \in DOMAIN transactions : transactions[k].refund = r

\* Commercetools adds a transaction if the payment is still as it was read; listed
\* says that the refund was taken from the PSP's list and is not the caller's.
create_return_payment_transaction(ver, r, listed) ==
  /\ ver = payVersion
  /\ transactions' = Append(transactions, [refund |-> r, listed |-> listed])
  /\ payTotal' = payTotal + refunds[r].amount
  /\ payVersion' = payVersion + 1

-----------------------------------------------------------------------------
(* The request for a return. *)

Request(n, i) == [id |-> n, item |-> i, pc |-> "read", ver |-> 0]

\* The LMS posts a refund of a line item, perhaps for the second time.
RefundView(i) ==
  /\ asked < MaxRequests
  /\ asked' = asked + 1
  /\ requests' = requests \cup {Request(asked', i)}
  /\ UNCHANGED <<psp, order, payment, atPsp, returns, hooks, revokes, revoked,
                 history, redeliveries, faults>>

\* CreateReturnForCommercetoolsOrder reads the order; a line item that has a return
\* is answered 200.
CreateReturnForCommercetoolsOrder(q) ==
  /\ q.pc = "read"
  /\ requests' = IF created[q.item] > 0
                   THEN requests \ {q}
                   ELSE Replace(requests, q, [q EXCEPT !.pc = "create", !.ver = orderVersion])
  /\ UNCHANGED <<psp, order, payment, atPsp, returns, hooks, revokes, revoked,
                 history, bounds>>

\* A ReturnInfo with the items of S, and the message that announces it.
AddReturnInfo(S) ==
  /\ orderVersion' = orderVersion + 1
  /\ created' = [i \in Items |-> IF i \in S THEN created[i] + 1 ELSE created[i]]
  /\ payState' = [i \in Items |-> IF i \in S THEN "Initial" ELSE payState[i]]
  /\ messages' = messages \cup {S}
  /\ UNCHANGED delivered

CurrentOrder_Unchecked(ver) == TRUE   \* a mutant: the update carries no version

\* Commercetools refuses an update of an order that has changed since it was read.
CurrentOrder(ver) == ver = orderVersion

\* One update with the version that was read: a conflict is answered 500, and so is
\* an update whose answer is lost.  (A request that fails earlier just goes no further.)
create_return_for_order(q) ==
  /\ q.pc = "create"
  /\ requests' = requests \ {q}
  /\ \/ CurrentOrder(q.ver) /\ AddReturnInfo({q.item})
     \/ ~CurrentOrder(q.ver) /\ UNCHANGED order
  /\ UNCHANGED <<psp, payment, atPsp, returns, hooks, revokes, revoked, history,
                 bounds>>

\* An operator returns items in the Merchant Center, several at once perhaps.
OperatorReturn(S) ==
  /\ S # {} /\ \A i \in S : created[i] = 0
  /\ asked < MaxRequests
  /\ asked' = asked + 1
  /\ AddReturnInfo(S)
  /\ UNCHANGED <<psp, payment, atPsp, requests, returns, hooks, revokes, revoked,
                 history, redeliveries, faults>>

\* Another writer changes the order.
ForeignUpdate ==
  /\ Fault
  /\ orderVersion' = orderVersion + 1
  /\ UNCHANGED <<psp, created, payState, messages, delivered, payment, atPsp,
                 requests, returns, hooks, revokes, revoked, history, asked,
                 redeliveries>>

-----------------------------------------------------------------------------
(* The returned task and its pipeline. *)

\* due: items still to be refunded; outcome and refund: what the PSP said.
ReturnTask(n, S, tries) ==
  [id |-> n, items |-> S, pc |-> "fetch", ver |-> 0, pver |-> 0, due |-> {},
   full |-> FALSE, outcome |-> "none", refund |-> 0, tries |-> tries]

\* POST of a message.  Nothing recognises one that was delivered before; a publish
\* that fails is swallowed.
OrderReturnedView(S) ==
  /\ \/ /\ S \in messages
        /\ messages' = messages \ {S}
        /\ delivered' = delivered \cup {S}
        /\ UNCHANGED redeliveries
     \/ /\ S \in delivered
        /\ redeliveries < MaxRedeliveries
        /\ redeliveries' = redeliveries + 1
        /\ UNCHANGED <<messages, delivered>>
  /\ \/ returns' = returns \cup {ReturnTask(redeliveries', S, 0)} /\ NoFault /\ UNCHANGED dropped
     \/ Fault /\ dropped' = dropped \cup S /\ UNCHANGED returns
  /\ UNCHANGED <<psp, orderVersion, created, payState, payment, atPsp, requests,
                 hooks, revokes, revoked, unrecorded, asked>>

ReturnGoesOn(t, next) == returns' = Replace(returns, t, next) /\ UNCHANGED dropped

ReturnDies(t) == returns' = returns \ {t} /\ dropped' = dropped \cup t.items

\* RequestException, and CommercetoolsError outside the pipeline: from the first line.
ReturnRetried(t) ==
  \/ /\ t.tries < MaxRetries
     /\ ReturnGoesOn(t, ReturnTask(t.id, t.items, t.tries + 1))
  \/ /\ t.tries = MaxRetries
     /\ ReturnDies(t)

\* FetchOrderDetailsByOrderID reads the order: items without a refunded return ...
FetchOrderDetailsByOrderID(t) ==
  /\ psp # "free"
  /\ t.pc = "fetch"
  /\ ReturnGoesOn(t, [t EXCEPT !.pc = "payment", !.ver = orderVersion,
                               !.due = {i \in t.items : payState[i] # "Refunded"}])
  /\ UNCHANGED <<psp, order, payment, atPsp, requests, hooks, revokes, revoked,
                 unrecorded, bounds>>

\* ... and the payment.
FetchPayment(t) ==
  /\ t.pc = "payment"
  /\ ReturnGoesOn(t, [t EXCEPT !.pc = "refund", !.pver = payVersion,
                               !.full = has_full_refund_transaction])
  /\ UNCHANGED <<psp, order, payment, atPsp, requests, hooks, revokes, revoked,
                 unrecorded, bounds>>

\* A refund that Stripe refuses because the charge is refunded already is answered
\* with Stripe's latest refund; PayPal's refusal is an error like any other.
Refused(t) ==
  IF psp = "stripe" /\ pspTotal = N
  THEN [t EXCEPT !.outcome = "listed", !.refund = Len(refunds)]
  ELSE [t EXCEPT !.outcome = "error"]

Recording(t) == [t EXCEPT !.pc = "record", !.full = FALSE, !.due = {}]

\* The step of the payment's PSP: skipped when nothing is due or the payment is
\* refunded in full.  The call carries no idempotency key.
RefundPayment(t) ==
  LET amount == Cardinality(t.due) IN
  /\ t.pc = "refund"
  /\ \/ /\ amount = 0
        /\ ReturnGoesOn(t, Recording(t))
        /\ UNCHANGED <<atPsp, faults>>
     \/ /\ amount > 0 /\ t.full
        /\ ReturnGoesOn(t, [Recording(t) EXCEPT !.outcome = "already"])
        /\ UNCHANGED <<atPsp, faults>>
     \/ /\ amount > 0 /\ ~t.full
        /\ PspRefund(t.due, amount)
        /\ \/ /\ ReturnGoesOn(t, [Recording(t) EXCEPT !.outcome = "fresh",
                                                     !.refund = Len(refunds) + 1])
              /\ NoFault
           \/ /\ ReturnGoesOn(t, [Recording(t) EXCEPT !.outcome = "error"])
              /\ Fault                                \* the answer is lost
           \/ ReturnDies(t) /\ Fault                 \* the answer is no refund yet
     \/ /\ amount > 0 /\ ~t.full
        /\ pspTotal + amount > N
        /\ ReturnGoesOn(t, Refused(Recording(t)))
        /\ UNCHANGED <<atPsp, faults>>
     \/ /\ amount > 0 /\ ~t.full
        /\ ReturnGoesOn(t, [Recording(t) EXCEPT !.outcome = "error"])
        /\ Fault
        /\ UNCHANGED atPsp
  /\ UNCHANGED <<psp, order, payment, requests, hooks, revokes, revoked,
                 unrecorded, asked, redeliveries>>

RefundPaymentIntent(t) == psp = "stripe" /\ RefundPayment(t)

RefundPayPalPayment(t) == psp = "paypal" /\ RefundPayment(t)

Looking(t) == [t EXCEPT !.pc = "look", !.pver = 0, !.refund = 0]

\* A step that returns CONTINUE hands over to the next, HALT ends the pipeline.
SkipRecording_Halt(t) ==              \* a mutant: HALT instead of CONTINUE
  returns' = returns \ {t} /\ UNCHANGED dropped

SkipRecording(t) == ReturnGoesOn(t, Looking(t))

\* The handler of a rejection logs it and goes on, but not for PayPal: it looks in the
\* refund for a key that PayPalClient does not set, and the KeyError is not retried.
RecordingRejected(t) == IF psp = "paypal" THEN ReturnDies(t) ELSE SkipRecording(t)

\* CreateReturnPaymentTransaction, with the payment version that was read before the
\* PSP was called.
CreateReturnPaymentTransaction(t) ==
  /\ t.pc = "record"
  /\ \/ /\ t.outcome \notin {"fresh", "listed"}
        /\ SkipRecording(t)
        /\ UNCHANGED <<payment, faults>>
     \/ /\ t.outcome \in {"fresh", "listed"}
        /\ create_return_payment_transaction(t.pver, t.refund, t.outcome = "listed")
        /\ \/ ReturnGoesOn(t, Looking(t)) /\ NoFault
           \/ /\ ReturnRetried(t) \/ RecordingRejected(t)   \* the answer is lost
              /\ Fault
     \/ /\ t.outcome \in {"fresh", "listed"}
        /\ RecordingRejected(t)
        /\ (t.pver # payVersion /\ NoFault) \/ Fault
        /\ UNCHANGED payment
  /\ UNCHANGED <<psp, order, atPsp, requests, hooks, revokes, revoked, unrecorded,
                 asked, redeliveries>>

\* update_return_payment_state_after_successful_refund reads the payment again: pver
\* is 0 when there is no transaction to link to the return ...
LookAtPayment(t) ==
  /\ t.pc = "look"
  /\ ReturnGoesOn(t, [t EXCEPT !.pc = "settle",
                               !.pver = IF transactions = <<>> THEN 0 ELSE payVersion])
  /\ UNCHANGED <<psp, order, payment, atPsp, requests, hooks, revokes, revoked,
                 unrecorded, bounds>>

\* What UpdateCommercetoolsOrderReturnPaymentStatus makes of the PSP's answer.
ReturnPaymentState_Refunded(outcome) == "Refunded"                     \* a mutant

ReturnPaymentState(outcome) == IF outcome = "error" THEN "NotRefunded" ELSE "Refunded"

SettleRejected_Retried(t) == ReturnRetried(t)   \* a mutant: CommercetoolsError is raised

\* An update that Commercetools rejects becomes an OpenEdxFilterException, which is
\* not retried.
SettleRejected(t) == ReturnDies(t)

SettleItems(S, to) ==
  /\ orderVersion' = orderVersion + 1
  /\ payState' = [i \in Items |-> IF i \in S THEN to ELSE payState[i]]
  /\ UNCHANGED <<created, messages, delivered>>

AfterSettling(t) == IF t.pver = 0 THEN "revoke" ELSE "link"

\* ... updates the order that was read before the PSP was called ...
UpdateReturnPaymentState(t) ==
  /\ t.pc = "settle"
  /\ \/ /\ CurrentOrder(t.ver)
        /\ SettleItems(t.items, ReturnPaymentState(t.outcome))
        /\ \/ /\ ReturnGoesOn(t, [t EXCEPT !.pc = AfterSettling(t), !.ver = 0])
              /\ NoFault
           \/ /\ ReturnRetried(t) \/ ReturnDies(t)   \* the answer is lost
              /\ Fault
     \/ /\ ~CurrentOrder(t.ver)
        /\ SettleRejected(t)
        /\ UNCHANGED <<order, faults>>
  /\ UNCHANGED <<psp, payment, atPsp, requests, hooks, revokes, revoked,
                 unrecorded, asked, redeliveries>>

\* ... and links the transaction to the return, in an update of the payment.
LinkTransaction(t) ==
  /\ t.pc = "link"
  /\ \/ /\ t.pver = payVersion
        /\ payVersion' = payVersion + 1
        /\ \/ ReturnGoesOn(t, [t EXCEPT !.pc = "revoke", !.pver = 0]) /\ NoFault
           \/ (ReturnRetried(t) \/ ReturnDies(t)) /\ Fault
     \/ /\ t.pver # payVersion
        /\ ReturnDies(t)
        /\ UNCHANGED <<payVersion, faults>>
  /\ UNCHANGED <<psp, order, transactions, payTotal, atPsp, requests, hooks,
                 revokes, revoked, unrecorded, asked, redeliveries>>

\* Back in the task: items of a refund, new or old, are revoked, by a signal whose
\* publish may be swallowed; otherwise nothing more is done.
SendRevoke(t) ==
  /\ t.pc = "revoke"
  /\ \/ /\ t.outcome \in {"fresh", "listed", "already"}
        /\ \/ /\ returns' = returns \ {t}
              /\ revokes' = revokes \cup {[id |-> t.id, items |-> t.items,
                                          left |-> t.items, tries |-> 0]}
              /\ UNCHANGED dropped
              /\ NoFault
           \/ ReturnDies(t) /\ Fault /\ UNCHANGED revokes
     \/ /\ t.outcome \in {"none", "error"}
        /\ returns' = returns \ {t}
        /\ UNCHANGED <<revokes, dropped, faults>>
  /\ UNCHANGED <<psp, order, payment, atPsp, requests, hooks, revoked, unrecorded,
                 asked, redeliveries>>

\* The return of a free order: the task reads the order ...
FreeReturn(t) ==
  /\ psp = "free"
  /\ t.pc = "fetch"
  /\ ReturnGoesOn(t, [t EXCEPT !.pc = "free", !.ver = orderVersion])
  /\ UNCHANGED <<psp, order, payment, atPsp, requests, hooks, revokes, revoked,
                 unrecorded, bounds>>

\* ... and marks it as not refunded; a rejected update is retried.
update_return_payment_state_for_enrollment_code_purchase(t) ==
  /\ t.pc = "free"
  /\ \/ /\ CurrentOrder(t.ver)
        /\ SettleItems(t.items, "NotRefunded")
        /\ \/ returns' = returns \ {t} /\ UNCHANGED dropped /\ NoFault
           \/ ReturnRetried(t) /\ Fault
     \/ /\ ~CurrentOrder(t.ver)
        /\ ReturnRetried(t)
        /\ UNCHANGED <<order, faults>>
  /\ UNCHANGED <<psp, payment, atPsp, requests, hooks, revokes, revoked,
                 unrecorded, asked, redeliveries>>

\* A call of the task fails before it has had an effect.  What the steps of the
\* pipeline catch ends the task with the next step's TypeError; what they do not
\* catch, and the task's own calls, are retried.  A worker may die at any point.
ReturnFails(t) ==
  /\ Fault
  /\ ReturnDies(t) \/ (t.pc # "refund" /\ ReturnRetried(t))
  /\ UNCHANGED <<psp, order, payment, atPsp, requests, hooks, revokes, revoked,
                 unrecorded, asked, redeliveries>>

-----------------------------------------------------------------------------
(* The PSP's webhook and its tasks. *)

HookTask(n, r, tries) ==
  [id |-> n, refund |-> r, pc |-> "read", ver |-> 0, tries |-> tries]

\* An event is marked in the cache and published; a publish that fails is swallowed.
\* An event that comes again while its mark is set is answered 200 and changes
\* nothing: here the mark has expired.
Notified(r) ==
  /\ \/ r \in events /\ UNCHANGED redeliveries
     \/ /\ r \in DOMAIN refunds \ events
        /\ redeliveries < MaxRedeliveries
        /\ redeliveries' = redeliveries + 1
  /\ events' = events \ {r}
  /\ \/ /\ hooks' = hooks \cup {HookTask(redeliveries', r, 0)}
        /\ UNCHANGED unrecorded
        /\ NoFault
     \/ /\ unrecorded' = unrecorded \cup {r}
        /\ UNCHANGED hooks
        /\ Fault
  /\ UNCHANGED <<psp, order, payment, refunds, pspTotal, requests, returns, revokes,
                 revoked, dropped, asked>>

WebhookView(r) == psp = "stripe" /\ Notified(r)

PayPalWebhookView(r) == psp = "paypal" /\ Notified(r)

HookDies(h) == hooks' = hooks \ {h} /\ unrecorded' = unrecorded \cup {h.refund}

HookRetried(h) ==
  \/ /\ h.tries < MaxRetries
     /\ hooks' = Replace(hooks, h, HookTask(h.id, h.refund, h.tries + 1))
     /\ UNCHANGED unrecorded
  \/ /\ h.tries = MaxRetries
     /\ HookDies(h)

\* The tasks read the payment and do nothing for a refund it knows of, or if it is
\* refunded in full ...
HookRead(h) ==
  /\ h.pc = "read"
  /\ hooks' = IF has_full_refund_transaction \/ is_transaction_already_refunded(h.refund)
               THEN hooks \ {h}
               ELSE Replace(hooks, h, [h EXCEPT !.pc = "write", !.ver = payVersion])
  /\ UNCHANGED <<psp, order, payment, atPsp, requests, returns, revokes, revoked,
                 history, bounds>>

HookRejected_Ignored(h) ==            \* a mutant: the conflict is logged and ignored
  hooks' = hooks \ {h} /\ UNCHANGED unrecorded

\* A payment that has changed since is a CommercetoolsError, which is retried.
HookRejected(h) == HookRetried(h)

\* ... or the transaction is added; then the order is read for a Segment event, whose
\* failure has the task retried as well.
HookWrite(h) ==
  /\ h.pc = "write"
  /\ \/ /\ create_return_payment_transaction(h.ver, h.refund, FALSE)
        /\ \/ hooks' = hooks \ {h} /\ UNCHANGED <<unrecorded, faults>>
           \/ HookRetried(h) /\ Fault
     \/ /\ h.ver # payVersion
        /\ HookRejected(h)
        /\ UNCHANGED <<payment, faults>>
  /\ UNCHANGED <<psp, order, atPsp, requests, returns, revokes, revoked, dropped,
                 asked, redeliveries>>

\* A call fails before it has had an effect; CommercetoolsError alone is retried, and
\* not that of the first read: its handler names the payment that was not read.
HookFails(h) ==
  /\ Fault
  /\ HookDies(h) \/ (h.pc = "write" /\ HookRetried(h))
  /\ UNCHANGED <<psp, order, payment, atPsp, requests, returns, revokes, revoked,
                 dropped, asked, redeliveries>>

refund_from_stripe_task(h) == psp = "stripe" /\ (HookRead(h) \/ HookWrite(h) \/ HookFails(h))

refund_from_paypal_task(h) == psp = "paypal" /\ (HookRead(h) \/ HookWrite(h) \/ HookFails(h))

-----------------------------------------------------------------------------
(* revoke_line_items_task. *)

NextLine(v) == CHOOSE i \in v.left : \A j \in v.left : i <= j

revoke_line_Endless(v) ==             \* a mutant: the loop does not end with the last item
  /\ revoked' = revoked \cup {NextLine(v)}
  /\ revokes' = Replace(revokes, v, [v EXCEPT !.left = @ \ {NextLine(v)}])
  /\ UNCHANGED <<psp, order, payment, atPsp, requests, returns, hooks, history,
                 bounds>>

\* Order Fulfillment revokes the next line item.
revoke_line(v) ==
  LET i == NextLine(v)
      rest == v.left \ {i} IN
  /\ revoked' = revoked \cup {i}
  /\ revokes' = IF rest = {} THEN revokes \ {v}
                 ELSE Replace(revokes, v, [v EXCEPT !.left = rest])
  /\ UNCHANGED <<psp, order, payment, atPsp, requests, returns, hooks, history,
                 bounds>>

\* The client's attempts are used up, with or without effect, or a read fails: the
\* task starts again with the first item, or gives up.
RevokeFails(v) ==
  /\ Fault
  /\ revoked' \in {revoked, revoked \cup {NextLine(v)}}
  /\ \/ /\ v.tries < MaxRetries
        /\ revokes' = Replace(revokes, v, [v EXCEPT !.left = v.items, !.tries = @ + 1])
        /\ UNCHANGED dropped
     \/ /\ revokes' = revokes \ {v}
        /\ dropped' = dropped \cup v.items
  /\ UNCHANGED <<psp, order, payment, atPsp, requests, returns, hooks, unrecorded,
                 asked, redeliveries>>

-----------------------------------------------------------------------------
Init ==
  /\ psp \in Psps
  /\ orderVersion = 1
  /\ created = [i \in Items |-> 0]
  /\ payState = [i \in Items |-> "none"]
  /\ messages = {} /\ delivered = {}
  /\ payVersion = 1 /\ transactions = <<>> /\ payTotal = 0
  /\ refunds = <<>> /\ pspTotal = 0 /\ events = {}
  /\ requests = {} /\ returns = {} /\ hooks = {} /\ revokes = {}
  /\ revoked = {} /\ dropped = {} /\ unrecorded = {}
  /\ asked = 0 /\ redeliveries = 0 /\ faults = 0

RequestStep(q) == CreateReturnForCommercetoolsOrder(q) \/ create_return_for_order(q)

ReturnStep(t) ==
  \/ FetchOrderDetailsByOrderID(t) \/ FetchPayment(t)
  \/ RefundPaymentIntent(t) \/ RefundPayPalPayment(t)
  \/ CreateReturnPaymentTransaction(t) \/ LookAtPayment(t) \/ UpdateReturnPaymentState(t)
  \/ LinkTransaction(t) \/ SendRevoke(t) \/ FreeReturn(t)
  \/ update_return_payment_state_for_enrollment_code_purchase(t)

HookStep(h) == HookRead(h) \/ HookWrite(h)

Next ==
  \/ \E i \in Items : RefundView(i)
  \/ \E q \in requests : RequestStep(q)
  \/ \E S \in SUBSET Items : OperatorReturn(S)
  \/ \E S \in messages \cup delivered : OrderReturnedView(S)
  \/ \E t \in returns : ReturnStep(t) \/ ReturnFails(t)
  \/ \E r \in DOMAIN refunds : WebhookView(r) \/ PayPalWebhookView(r)
  \/ \E h \in hooks : refund_from_stripe_task(h) \/ refund_from_paypal_task(h)
  \/ \E v \in revokes : revoke_line(v) \/ RevokeFails(v)
  \/ DashboardRefund \/ ForeignUpdate

Spec == Init /\ [][Next]_vars

\* EventBridge and the PSP deliver each message once at least; workers are alive.
SystemStep ==
  \/ \E S \in messages : OrderReturnedView(S)
  \/ \E t \in returns : ReturnStep(t)
  \/ \E r \in events : WebhookView(r) \/ PayPalWebhookView(r)
  \/ \E h \in hooks : HookStep(h)
  \/ \E v \in revokes : revoke_line(v)

FairSpec == Spec /\ WF_vars(SystemStep)

-----------------------------------------------------------------------------
(* Properties. *)

Requests == [id : Nat, item : Items, pc : {"read", "create"}, ver : Nat]

Returns ==
  [id : Nat, items : SUBSET Items, pc : {"fetch", "payment", "refund", "record", "look",
   "settle", "link", "revoke", "free"}, ver : Nat, pver : Nat, due : SUBSET Items,
   full : BOOLEAN, outcome : {"none", "error", "already", "fresh", "listed"},
   refund : Nat, tries : Nat]

Hooks == [id : Nat, refund : Nat, pc : {"read", "write"}, ver : Nat, tries : Nat]

Revokes == [id : Nat, items : SUBSET Items, left : SUBSET Items, tries : Nat]

\* The order, the payment, the PSP and the tasks are well formed; what refers to a
\* refund refers to one that the PSP has made, and a revocation has an item to go on.
TypeOK ==
  /\ psp \in Psps
  /\ orderVersion \in Nat /\ payVersion \in Nat
  /\ created \in [Items -> Nat]
  /\ payState \in [Items -> {"none", "Initial", "Refunded", "NotRefunded"}]
  /\ messages \subseteq SUBSET Items /\ delivered \subseteq SUBSET Items
  /\ refunds \in Seq([items : SUBSET Items, amount : Nat])
  /\ transactions \in Seq([refund : DOMAIN refunds, listed : BOOLEAN])
  /\ payTotal \in Nat /\ pspTotal \in 0..N
  /\ events \subseteq DOMAIN refunds
  /\ requests \subseteq Requests /\ returns \subseteq Returns
  /\ hooks \subseteq Hooks /\ revokes \subseteq Revokes
  /\ \A t \in returns : t.outcome \in {"fresh", "listed"} /\ t.pc = "record"
                            => t.refund \in DOMAIN refunds
  /\ \A h \in hooks : h.refund \in DOMAIN refunds
  /\ \A v \in revokes : v.left # {}
  /\ revoked \subseteq Items /\ dropped \subseteq Items
  /\ unrecorded \subseteq DOMAIN refunds
  /\ {asked, redeliveries, faults} \subseteq Nat

\* Requests that race each other, or an operator, never give a line item two returns:
\* each would be refunded.
OneReturnPerItem == \A i \in Items : created[i] <= 1

\* The pipeline and the webhook, each delivered and retried as often as it may be,
\* record a refund of the PSP once.  (The exception is a refund the pipeline took
\* from Stripe's list because the charge was refunded already: nothing checks
\* whether the payment has it.)
OneTransactionPerRefund ==
  \A k, m \in DOMAIN transactions :
    /\ transactions[k].refund = transactions[m].refund
    /\ ~transactions[k].listed /\ ~transactions[m].listed
    => k = m

\* The PSP is asked to refund an item once, and once more at most for every call that
\* failed and every message that was repeated, however returns of other items and
\* webhooks interleave: conflicts end a pipeline, they do not repeat it.
RefundedOnce ==
  \A i \in Items :
    Cardinality({r \in DOMAIN refunds : i \in refunds[r].items}) <= 1 + faults + redeliveries

\* The refund of an order does what it promises: an item is called refunded, or
\* revoked, only when the PSP has returned its price, and stays refunded.
Status(s) ==
  CASE s = "none" -> "kept"
    [] s = "Initial" -> "returned"
    [] s = "Refunded" -> "refunded"
    [] s = "NotRefunded" -> "refused"

Covered == IF pspTotal = N THEN Items
                           ELSE UNION {refunds[r].items : r \in DOMAIN refunds}

Promise == INSTANCE RefundPromise
             WITH status <- [i \in Items |-> Status(payState[i])],
                  paid <- Covered

ImplementsRefundPromise == Promise!Spec

\* With live workers every return is settled one way or the other, or was given up:
\* also when the PSP refuses, when Stripe's transaction cannot be recorded, and when
\* returns of one order get in each other's way.
ReturnSettles ==
  \A i \in Items :
    payState[i] = "Initial" ~> (payState[i] \in {"Refunded", "NotRefunded"} \/ i \in dropped)

\* Every refund at the PSP ends up as a transaction of the payment, whoever made it
\* and whatever else was recorded meanwhile, or a webhook task gave up on it.
RefundRecorded ==
  \A r \in 1..N :
    r \in DOMAIN refunds ~>
      (is_transaction_already_refunded(r) \/ has_full_refund_transaction \/ r \in unrecorded)

\* commercetools/views.py of OrderReturnedView: it is there "to return an order and
\* revoke the associated enrollments/entitlements".
RefundedIsRevoked ==
  \A i \in Items : payState[i] = "Refunded" ~> (i \in revoked \/ i \in dropped)

\* "View to return an order and revoke the associated enrollments/entitlements", as the
\* docstring has it: an item is revoked if the PSP has returned its price, whatever the
\* return is called.
RefundIsRevoked ==
  \A i \in Items : (\E r \in DOMAIN refunds : i \in refunds[r].items) ~> i \in revoked
=============================================================================
