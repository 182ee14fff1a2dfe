# Commerce Coordinator in TLA+

Commerce Coordinator stands between edX's shop (Commercetools), its payment
processors, its LMS and the Order Fulfillment service. It keeps no order of its
own: an order's truth is in Commercetools, a learner's access is in the LMS, and
the coordinator moves one towards the other with HTTP views, Celery tasks, Django
signals and cache keys. What can go wrong is in between: messages arrive twice or
late, a task is retried after it did half of its work, an order changes between a
read and an update, a lock expires under its holder, a failed publish is swallowed.

This directory models those parts, checks them with TLC on small instances, and
proves the main results with TLAPS for any number of items, requests, retries and
failures.

## Inventory

Paths are under `src/commerce_coordinator/apps/`.

| Component | State it keeps or changes | Operations | What is hard | What makes it correct | Module |
|---|---|---|---|---|---|
| Order fulfilment: `commercetools/views.py`, `commercetools/sub_messages/`, `commercetools/tasks.py`, `lms/tasks.py`, `lms/clients.py`, `order_fulfillment/` | line-item states, order version, entitlement field (Commercetools); enrolments and entitlements (LMS); view lock, task lock, e-mail flags (cache); queued tasks | `OrderFulfillView`, the placed task, two LMS tasks, the completion webhook, the line-item update task | duplicate messages; retries from the first line; contradictory reports; version conflicts; lock expiry; swallowed publishes; crashes | a fulfilled item was given to the learner; no item is dispatched twice; none is lost silently; every item settles | `Fulfillment` |
| Line-item state machine: `commercetools/catalog_info/foundational_types.py` | which transitions Commercetools accepts | provisioning | it is the only guard against a stale task | only Pending items are dispatched; Success is final | `Fulfillment`, `LineItemLifecycle` |
| Return and refund pipeline: `lms/views.py`, `commercetools/pipeline.py`, `stripe/pipeline.py`, `paypal/pipeline.py`, `sub_messages/tasks.py` | return items and their payment state, refund transactions (Commercetools); refunds (PSP) | `RefundView`, `OrderReturnedView`, the return task and its steps | redelivered messages, a PSP call between a read and an update, steps that swallow their errors | one return per item; no item refunded again but for a failure or a repeated message; a return called refunded, and access taken away, only for money returned | `Refund`, `RefundPromise` |
| PSP refund webhooks: `stripe/views.py`, `paypal/views.py`, `commercetools/tasks.py` | refund transactions | two webhooks, two tasks | they race the pipeline for the same transaction | one transaction per refund; none forgotten | `Refund` |
| Mobile purchases: `iap/` | customer, carts, payments, orders | create-order view | concurrent requests for one store transaction, dangling payments, many calls without a rollback | a purchase is ordered once; carts are cleaned up; a repeated request heals | `MobileOrder` |
| Mobile refunds: `iap/views.py`, `commercetools/tasks.py` | refund transactions, returns | two store webhooks, `refund_from_mobile_task` | a retry that finds its own transaction; the return and the notification in either order | one transaction; the return names it; a refund is followed by a revocation | `MobileRefund` |
| Revocation: `commercetools/tasks.py`, `order_fulfillment/clients.py` | access (through Order Fulfillment) | two tasks | items revoked one by one; a client that answers None | every refunded item revoked, or the failure visible | `Refund`, `MobileRefund` |
| Order numbers: `commercetools/clients.py` | a versioned counter object | `get_new_order_number` | concurrent increments, change of year | numbers are unique | `OrderNumbers` |
| Single-invocation guard: `core/views.py`, `core/cache.py` | cache entries | `mark_running`, `_is_running` | get, then set; expiry; a publish that fails after the mark | what it protects holds although it is no lock | in the modules of its users |
| User retirement: `lms/views.py`, `commercetools/pipeline.py` | the customer | `RetirementView` | a purchase that is updating the customer meanwhile | a purchase that was under way does not undo it | `MobileOrder` |
| Refund amounts: `commercetools/catalog_info/edx_utils.py`, `commercetools/utils.py` | none | proration and rounding | several partial refunds, rounding, caps | they add up to what was paid | `RefundAmounts` |
| Predicate parser: `commercetools/predicate_parser.py` | none | parse, evaluate | grammar, conversions, missing fields | a predicate means what it says | `Predicates` |
| Discounts and program prices: `commercetools/views.py`, `commercetools/clients.py`, `commercetools/utils.py` | a cache of programs | three views | a code checked while it expires and is used; a stale cache; lookups that fail | no wrong verdict; a price of a recent program | `Discounts`, `ProgramPrices` |
| Order history and receipts: `lms/views.py`, `commercetools/pipeline.py`, `stripe/pipeline.py` | none | two views over two systems | pages, merging, a system that is silent | complete; a receipt is one of a payment that succeeded | `OrderHistory`, `Receipts` |
| Sanctioned orders: `commercetools/views.py`, `sub_messages/tasks.py`, `lms/clients.py` | the learner's account (LMS) | `OrderSanctionedView` and its task | a state that changes between the message and the read; retries | deactivated if, and only if, sanctioned | `Sanctions` |
| The rest | see "Not modelled" | | | | |

The parts interact through Commercetools (messages that EventBridge forwards,
versioned updates), through Django signals that `send_robust` delivers to Celery,
through openedx-filters pipelines, and through the shared cache.

## Plan

Done, in this order: fulfilment; the return and its refund with the PSP's webhooks;
mobile refunds and both revocation tasks; mobile orders with order numbers and
retirement; the parts that answer from what others hold; and a theorem for every
invariant and action property that a run checks. What could come next is a composition
of `Refund` and `Fulfillment`, for an item that is returned while it is still Pending.
The code lets the two meet only in Order Fulfillment.

Modules that are proved about have constants with a named assumption, one action per
operation and no `RECURSIVE` operator. A theorem's module is named after the module
it is about, with `Proofs`. Deadlock is not checked in any run: a system whose
messages, requests and tasks are done stays as it is.

## Fulfilment

### Modules

- `LineItemLifecycle.tla` - what fulfilment promises about each item: granted only
  with access, never taken back, refused or reopened otherwise.
- `Fulfillment.tla` - one order of `N` items, with everything that works on it.
- `MCFulfillment.tla` and `MCFulfillment*.cfg` - instances for TLC.
- `FulfillmentProofs.tla` - theorems.

### State and code

| Variables | In the program |
|---|---|
| `state`, `version`, `entitlement`, `messages` | the order in Commercetools: line-item states, version, the `edxLMSEntitlementId` fields, transition messages that were emitted |
| `access` | LMS enrolments and entitlements |
| `viewLock`, `taskLock`, `confirmed`, `apologized` | cache keys of `OrderFulfillView` (30 min), of the update task (60 s), and of the two e-mails |
| `placed` | live `fulfill_order_placed_message_signal_task` instances, each at a call (`pc`), with the version it read and the next item of its loop (`pos`) |
| `jobs` | live LMS tasks (`via = "lms"`) and requests at Order Fulfillment (`via = "of"`) |
| `reports` | live `fulfillment_completed_update_ct_line_item_task` instances |
| `dispatched`, `mails`, `apologies`, `resets`, `deliveries`, `faults` | counters for properties and bounds |
| `dropped` | items that a step gave up on with at most a log line |

One action is what the code does between two calls to another system, with the
call. `PlacedRead`, `update_line_items_transition_state`, `PlacedDispatch`,
`PlacedConfirm` and `send_order_confirmation_email` are the placed task from its
first line to its last. `PlacedRaise` is Celery's autoretry, from the first line
again; after the last retry, or on an exception that is not retried, `PlacedGiveUp`.
`LmsGrants`, `LmsRefuses` and `LmsTaskFails` are an attempt of an LMS task;
`LmsRefuses` includes an LMS that did the work and answered too late, which the
client reports as a failure. `acquire_task_lock`, `RequeueReport`, `ReportRead`,
`update_line_item_on_fulfillment` and `ReportFails` are the update task.
`Accepts` is Commercetools: version, from-state and provisioned transition.

A fault (`Fault`) is a failed call, a lost answer, a swallowed publish, a dead
worker, or another writer of the order. An LMS refusal needs none: it is ordinary.

What the model abstracts: payloads, products and user lookups (their failures are
`PlacedFails` and `LmsTaskFails`); orders that are not edX's, which the placed task
leaves alone; the 24-hour expiry of the e-mail flags; the failure e-mail of
enrolment tasks, on which nothing depends; the retries inside the Order
Fulfillment client, whose outcomes (request got through, None, both) are kept;
access that is withdrawn again, which belongs to the refund modules. Reports of
items are for the items of one order. The Order Fulfillment service and the LMS
answer a repeated request for an item like the first one, and the LMS answers a
successful entitlement with its uuid.

`ResetItem` is an operator: nothing under `src/` moves an item from Failure to
Pending, but the provisioned state machine allows it.

### Runs

| Run | Bounds | Shows |
|---|---|---|
| `dispatch` | 2 items, the last of them from a program; messages of Pending and Failure; 2 deliveries, each with either value of the forwarding flag; 1 placed retry; 1 fault | `TypeOK`; `AtMostOneDispatch`; `OneConfirmation` |
| `reports` | 2 items; 1 delivery; 1 LMS retry; 1 report retry; 1 fault | `SuccessMeansAccess`; `EntitlementRecorded`; `NoSilentLoss`; `ImplementsLifecycle` |
| `settles` | 2 items; 1 placed retry, 1 report retry, 1 reset, 1 fault; fairness | `ProcessingSettles` |
| `lock` | 2 items, no fault | violation of what `core/tasks.py:25` says of the lock |
| `apology` | 2 program items, no fault | violation of what `lms/tasks.py:113` says of the e-mail flag |

Two items are enough for a partly dispatched order, for reports of different items
that compete for the order's lock and version, and for two tasks that fail
together. One retry is enough for a contradictory pair of reports, two deliveries
for a duplicate, and one fault puts a failure at any single call. The proofs
below remove these bounds. Deadlock is not checked: an order whose messages,
tasks and reports are done stays as it is. There is no bound on requeues and lock
expiry, which do not grow the state.

The configurations differ in what they leave out: `dispatch` gives reports no
retries, `reports` gives the placed task none, since the two meet only in the
states of the items.

### Fairness

`FairSpec` asks that a placed task, a job and a report are taken by a worker as
long as one of that kind can make a step (Celery workers consume their queues, the
LMS and Order Fulfillment answer), and that the task lock's key expires. Nothing
is asked of messages, operators, failures or the view lock. `RequeueReport` is not
fair and needs not be: a report that finds the lock taken is queued again until
the lock is free.

### Findings

- `lock`: the key of `acquire_task_lock` expires after 60 seconds whether or not
  its holder has finished, and `release_task_lock` deletes it whoever set it. Two
  workers then update one order, which the docstring excludes. The versions of the
  order keep the result correct: `reports` checks the same behaviours.
- `apology`: the failure e-mail's flag is read and then set, so entitlement tasks
  that fail together each send one.

### Proofs

`FulfillmentAssumption` is the only assumption of the modules: there is an item,
program items are items, the bounds are numbers.

- `TypeCorrect`: `TypeOK` is inductive; one lemma per kind of actor.
- `FulfilledMeansAccess` and `FulfilledMeansRevocable`: `SuccessMeansAccess` is not
  inductive, since it says nothing of the reports that are on their way.
  `AccessInv` adds `ReportsTruthful`: a report of success is about an item that
  the learner has, and carries the uuid if it needs one. A report keeps its news
  through every retry and requeue (`ReportStepNews`).
- `LifecycleImplemented`: each step maps to a step of `LineItemLifecycle` or a
  stutter. A grant needs `ReportsTruthful`; that a late failure cannot undo a grant
  comes from `NeedsTransition` and from the state machine (`TransitionFacts`).
- `NothingLostSilently`: `NoSilentLoss` is strengthened to `LossInv`, in which only
  a report that will still ask for a transition (`Useful`) counts.
- `AtMostOnce` and `ConfirmedOnce`, under the assumption that messages about
  Processing are not forwarded: `DispatchInv` counts, for each item, the ticket
  that being Pending is, the placed tasks with the right to dispatch it, and the
  dispatches there have been. The assumption is needed: for a message about
  Processing `update_line_items_transition_state` asks for no transition and the
  task goes on to dispatch. Which messages are forwarded is configured in
  EventBridge, outside this repository; `ForwardedStates` is a constant for that
  reason.

Only model-checked: `ProcessingSettles`, since liveness under fairness is beyond
the prover, and the two violations.

## Returns and refunds

### Modules

- `RefundPromise.tla` - what a refund promises item by item: an item is called
  refunded, or taken away, only for money that was returned, and stays refunded.
- `Refund.tla` - one order of `N` items paid through Stripe or PayPal, or free; its
  returns, the pipeline, the PSP with its dashboard and webhooks, and the revocation.
- `MCRefund.tla`, `MCRefund*.cfg` - instances. `RefundProofs.tla`,
  `RefundPromiseProofs.tla` - theorems.

### State and code

| Variables | In the program |
|---|---|
| `orderVersion`, `created`, `payState` | the order in Commercetools: version, return items of each line item, their payment state |
| `payVersion`, `transactions`, `payTotal` | the payment in Commercetools and its refund transactions |
| `messages`, `delivered` | ReturnInfoAdded messages at EventBridge |
| `refunds`, `pspTotal`, `events` | the PSP: refunds, what they amount to, webhook events |
| `requests` | live `RefundView` requests: between `FetchOrderDetailsByOrderID` and `create_return_for_order` |
| `returns` | live `fulfill_order_returned_signal_task` instances: the call (`pc`), the versions of the order and the payment they read, what is due, what the PSP said |
| `hooks`, `revokes` | live `refund_from_stripe_task` / `refund_from_paypal_task`, and `revoke_line_items_task` |
| `revoked` | what Order Fulfillment was told to revoke, and did |
| `dropped`, `unrecorded` | what a step gave up on with at most a log line |

The pipeline's steps are actions of their own since the order, the payment and the PSP
may change between them: `FetchOrderDetailsByOrderID`, `FetchPayment`, `RefundPayment`
(`RefundPaymentIntent` or `RefundPayPalPayment`), `CreateReturnPaymentTransaction`,
`LookAtPayment`, `UpdateReturnPaymentState` and `LinkTransaction` (three calls of
`update_return_payment_state_after_successful_refund`), then `SendRevoke`. A step's
CONTINUE or HALT, and what it does with an exception, are kept: a rejected transaction
is skipped at Stripe (`SkipRecording`) and ends the task at PayPal, whose handler raises
an error of its own (`RecordingRejected`); a rejected update of the return ends the task
without a retry (`SettleRejected`); a `CommercetoolsError` outside the pipeline is retried
from the first line (`ReturnRetried`). A call that has an effect may also lose its answer.

What the model abstracts: every item costs one unit (proration is in `RefundAmounts`);
the marks of the two webhooks, by letting an event come again at any time, which an
expired mark allows and which covers two deliveries that both miss it; notifications
to Slack and Segment events, on which nothing depends; a request that fails before it
has changed anything, which goes no further. The PSP returns no more than it was paid.

### Runs

| Run | Bounds | Shows |
|---|---|---|
| `refund_races` | 2 items, 3 kinds of payment; 2 requests or operators' returns, or 1 of them and 1 message or event that comes again; 1 retry, 1 fault | `TypeOK`; `OneReturnPerItem`; `RefundedOnce`; `OneTransactionPerRefund`; `ImplementsRefundPromise` |
| `refund_settles` | 2 items, 3 kinds of payment, 1 retry; 2 requests or operators' returns without a fault, or 1 with 2 faults; fairness | `ReturnSettles`; `RefundRecorded` |
| `refund_revoked` | 1 item, Stripe, 1 fault; fairness | violation of what `views.py:121` says of `OrderReturnedView` |
| `refund_paypal` | 1 item, PayPal, no fault; fairness | violation of the same, in another way |

Two requests are enough for a race for one item and for two returns that get in each
other's way; two items for a return of a part. One fault puts a lost answer, a lost
publish, a foreign write or a refund in the dashboard at any single point; the two of
`refund_settles` fail a call and its retry. `Bounded` (`MCRefund.tla`) keeps `refund_races`
within TLC's reach: of a second request and a redelivery a behaviour has one
(`RequestOrRedelivery`), and item 1 is the first to be returned, alone or with the other
(`ItemOneFirst`). The items are alike but for the order in which a task revokes them, and
what is left out is the return of item 2 alone, first. A constraint would cut the
behaviours that liveness is about, so `refund_settles` has a next-state relation instead
(`SettlesNext`): of a second request and a fault a behaviour has one. The theorems have all
of it together, for any number.

`RefundedOnce` counts: an item is refunded once, and once more at most for every call that
failed and every message that came again. The PSP is called without an idempotency key, so
a lost answer does refund again; requests that race, returns of other items, webhooks and
version conflicts do not. `OneTransactionPerRefund` leaves out a refund that the pipeline
took from Stripe's list, which nothing looks for among the transactions; Stripe answers so
only when all is paid back (`FullRefundIsReal`).

`ReturnSettles` and `RefundRecorded` excuse what a step gave up on (`dropped`,
`unrecorded`): a task that died or used up its retries. At PayPal that includes a refund
whose transaction is rejected, which is why `refund_paypal` asks for more.

### Fairness

`FairSpec` asks that a message and an event are delivered at least once and that
workers go on (`SystemStep`, weakly). Requests, operators, redeliveries and faults are
not fair.

### Findings

- `refund_revoked`: the task asks for the revocation only if its own run of the
  pipeline brought an answer of the PSP. If the update that marks the return as
  refunded went through and its answer was lost, the retry finds nothing due, and the
  learner keeps the access; nothing is logged as an error.
- `refund_paypal`: the handlers of a rejected refund transaction
  (`commercetools/pipeline.py:407` and `:419`) look in PayPal's refund for
  `paypal_capture_id`, a key that `PayPalClient.refund_order` (`paypal/clients.py:60`) does
  not set. They raise a `KeyError` instead of going on with the pipeline, and it is not
  retried. A webhook that records the refund before the pipeline does is enough: PayPal has
  paid back, the return stays Initial and the learner keeps the access. If the handler went
  on as it is written to, `refund_paypal` would find no violation.

### Proofs

`RefundAssumption` is the only assumption. `RefundInv` is the inductive invariant. It
is about versions, since nothing in the program locks: a request that is about to
create a return, and whose version of the order is still the last one, is about an
item without a return (`RequestOK`); a task, of the pipeline or of the webhook, that is
about to record a refund, and whose version of the payment is still the last one, is
about a refund without a transaction (`ReturnOK`, `HookOK`). Every step leaves the
versions alone or moves them on (`OrderMoves`, `PaymentMoves`), so that the claims of
all other tasks either stay or become void; one lemma for each kind of task says so,
and the rest is a lemma for each action. A new refund is not recorded yet since all
transactions name earlier ones (`NewRefund`).

- `RefundTyped`, `ReturnedOnce`, `RecordedOnce` follow for every number of items,
  requests, redeliveries, retries and faults.

- `RefundPromised` (`RefundPromiseProofs.tla`) is the refinement: `Refund` implements
  `RefundPromise`, where an item is called refunded, or is revoked, only if the PSP has
  returned its price. What the coordinator goes by is less than that: a transaction at
  Commercetools, or an answer of the PSP. `PromiseInv` says that each of these stands for
  money. `BooksInv`: what the payment records, and the refunds that it does not, add up
  to what the PSP has returned (there are partial sums `d`, refund by refund), unless the
  PSP has nothing left to return, which is when a refund may be recorded twice.
  `ReturnedInv`: what is called refunded is covered by money. `TasksInv`, `RevocationsInv`:
  so are the items of a task that the PSP has answered, and those of a revocation
  (`IsToldWell`); before that, a task leaves out only what is covered (`AsksWell`).
  `FullRefundIsReal` is a result of its own: when the pipeline finds the payment refunded
  in full, and settles the return without a refund, the PSP has returned everything.

- `PaidBackOnce` (`RefundPromiseProofs.tla`) is `RefundedOnce`. Its invariant `OnceInv`
  counts, for each item, the refunds there have been and the chances of one more: that it
  has no return yet, a message about it, a task that has not called the PSP for it. Their
  number grows only by a failure or a redelivery (`Bounded`), and a task asks for no more
  than it returns (`DueInv`). `RefundInv` is what keeps a second request from adding one.

Only model-checked: the liveness properties `ReturnSettles` and `RefundRecorded`, and the
two violations.

## Mobile refunds

`MobileRefund.tla` is the refund of an in-app purchase, which the store makes on its
own. `platform`, `home` and `passOn` are given (the store, the system that has the
order, the flag for the legacy one). `mark` and `notices` are the guard of the views,
with its get (`_is_running`) and its set (`mark_running`) as two steps, its expiry and
its deletion. `hooks` are `refund_from_mobile_task` instances call by call, `returns`
the mobile branch of the returned task, `revokes` instances of
`revoke_line_mobile_order_task`. `return` and `linked` are the order's return and
whether it names the refund transaction; `dropped` is what a step gave up on, and
`crossed` remembers a returned task that wrote the order after it had read a payment
that has changed meanwhile.

Run `mobile_refund`: 2 notifications, 1 return, 1 retry, 1 fault, with fairness for
workers and messages. `TypeOK`, `OneMobileTransaction`, `RestsOnRefund`,
`ReturnLinked` and `RefundRevokes`. The exceptions that the properties name are what
the code does: a retry that finds its own transaction does not ask for the revocation,
`revoke_line` that answers None is logged as a success, a version conflict of the link
is not retried. A mobile order has one line item, so the module has no constant for it.
`RestsOnRefund` is about access and the link. It says nothing of the return's payment
state: the code sets it to Refunded as soon as a mobile return is processed, whether or not
the store has refunded yet, and so does the model.

`MobileRefundProofs.tla` proves `MobileRefundTyped`, `MobileRefundOnce`, `RefundRested`
and `ReturnIsLinked` from `MobileRefundAssumption`. `OneMobileTransaction` is not inductive:
the invariant adds that a task which is about to record, with the payment's last
version, knows of a payment without a transaction (`HookOK`), and that whatever is
revoked or linked has a transaction, and a transaction a store refund behind it
(`AccessInv`, `StoreInv`). `ReturnLinked` is about
the end, when the tasks are done; `LinkInv` is what holds on the way: while a refunded
return has no transaction, either there is one of the named exceptions or a task that is
still to look for the return. `RefundRevokes` is only model-checked.

## Mobile orders, order numbers, retirement

### Modules

- `OrderNumbers.tla` - the counter object, the calls that read and write it, the clock.
- `MobileOrder.tla` extends it with `MobileCreateOrderView` call by call, and with the
  LMS's retirement of the learner, which updates the same customer.
- `MCMobileOrder.tla`; `OrderNumbersProofs.tla`, `MobileOrderProofs.tla`.

### State and code

| Variables | In the program |
|---|---|
| `year`, `counter`, `numbering` | the clock, the counter object with its version, and how far each `get_new_order_number` is |
| `customer`, `retirement` | the customer in Commercetools and the LMS's call to retire it |
| `payments`, `carts`, `orders` | Commercetools |
| `pc`, `view`, `answer` | each request: its next call, what it has read, its HTTP status |
| `late`, `undisturbed` | history, for the properties |

The view's order of calls is kept, with its two ways out: a `CommercetoolsError`
(`Refused`) runs the handler, which deletes the cart that the view knows of, anything
else (`Dies`) does not. A call that `conditional_retry` repeats and that fails, fails
three times. A refused call is refused for a reason in the state: a stale version, a
number, a key or an e-mail address that Commercetools has already.

What other systems do is left open where the code does not say: which of several active
carts is found, and whether a payment of one cart is refused on another. `twin` is a
second customer with the learner's LMS id, made by a request that overlaps a
retirement; the error it causes is caught nowhere.

### Run

`mobile_order`: 3 requests for one purchase, 2 at a time; 2 years, 2 attempts, 1 fault,
1 retirement. `TypeOK`, `NumbersUnique`, `LateRequestMakesNoOrder`, `CartsCleanedUp`,
`RetryHeals`, `RetirementNotUndone`. The third request finds what two that raced have
left behind. The constraint `OneDisturbance` ends a behaviour that has seen both New
Year and a retirement: one touches the counter alone, the other the customer alone.
All six properties are proved without it.

`NumbersUnique` leaves out a request whose value was stored before New Year and whose
prefix was read after it: `get_new_order_number` looks at the clock twice, and its
number is one that the new year will count up to. There is one clock: servers whose clocks
differ at New Year are left out. `create_order_from_cart` is then
refused, as the number is taken.

### Proofs

- `NumberInv`: the counter is of a year that has been; a value that is counted and still
  current is the next one; a value that is stored was counted; no two requests have
  stored the same one in a year. `NumbersTyped` and `NumbersAreUnique` follow.
- `NumbersImplemented`: `MobileOrder` implements `NumberSpec`, so that
  `MobileNumbersUnique` follows from `OrderNumbers` alone.
- `MobileInv` is `PurchaseInv` and `CustomerInv`. `PathInv` says of each request what its
  next call may rely on, and of a late one that the purchase is sold and stays attached
  to an ordered cart; `Frame` is what a step of one request leaves to the others.
  `OrderedOnce` and `MobileTyped` follow.
- `RetirementStays`: a request that still has the customer's last version has seen its
  profile (`CustomerInv`), so that a customer who was retired meanwhile is not updated. It
  is about requests that were under way: one that reads the customer after its retirement
  gives it the learner's name and address again, in the code and in the model. A second
  customer (`twin`) is outside it too.

- `CartsAreCleanedUp`: `CartsCleanedUp` counts, so that its invariant `CartsInv` does.
  A request knows the cart that it has made, with the version it will be deleted at
  (`KnowsCart`), so that an active cart is left behind through a fault alone
  (`MayLeave`); such carts (`Left`) are as many as the faults at most.
- `RetriesHeal`: `SoloInv` says, of a request that nothing has disturbed, what it finds
  at each of its calls (`Unhindered`): the customer it has read is the last, there is
  one active cart at most and then its own, which the payment goes to, and its counter is
  current. That no other order has its number follows from `NumberInv` and from
  `NumberedInv` (an order has the number that its request was issued), and needs that no
  number straddles New Year, like the property.

Nothing of this run is only model-checked.

## Answers from other systems

`Answers.tla` composes seven small modules about views, functions and a task that keep no
state of their own; a behaviour is about one of them. Run `answers` checks all.

| Module | What it models | Property | What the property does not cover, and why |
|---|---|---|---|
| `RefundAmounts` | `get_edx_refund_info`: an order returned piece by piece | `RefundsAddUp`: within half a cent per return of what was paid | a discount on the total price: the items' prices do not contain it, the returns are capped one by one, and may come to more than was planned |
| `Predicates` | the parser's stack, token by token; normalisation and evaluation | `PredicateRight`: the check comes to what the tree says that the predicate was written from, and raises where the tree says nothing | a list without values, which the grammar takes and hands on as a list with None; how a name, a number or a text is spelled; how a context is filled from a line item, which is given |
| `Discounts` | `DiscountCodeInfoView`, `FirstTimeDiscountEligibleView`, with codes that expire and orders that come in | `TurnedDownForCause`, `ApplicableIsEarned` | a second code of an order and orders after the first page, which the code does not look at |
| `ProgramPrices` | the program's cache, prices and offers | `PricedFromRecentProgram`, `DiscountIsOffered` | an entry that is stale as long as the cache keeps it, or longer if a request fills it late; offers that do not keep to the convention below |
| `OrderHistory` | `UserOrdersView` over two systems | `HistoryComplete` | orders beyond a system's page |
| `Receipts` | the receipt's redirect | `ReceiptOfPayment` | |
| `Sanctions` | the sanctioned-order view, its guard and its task | `SanctionEnforced`, `DeactivatedForCause` | a message that is ignored because one about an earlier state was taken in the last ten minutes |

Bounds: orders of three items with prices of 0, 1, 2 and 5 cents, which have every kind
of rounding; predicates of three comparisons or a function of two, which have every
pair of nested operators; two orders on pages of one; three courses, one without a
price, and two edits beside two readers; three orders on four days, of which the history
shows two days and two orders; two payments; two messages and one retry. The contexts of a
predicate have a text, a flag, a number and None, of which a field may also be missing;
the lists include one with a flag's word, and one predicate is not of the grammar.

A predicate is a text at Commercetools. In `Predicates` it is a sequence of tokens that
`Unparse` writes from a tree, with parentheses where a reader needs them; `Evaluated`
takes the tokens from left to right with a stack, as Lark's LALR parser does, and comes to
what `_evaluate` makes of the transformer's tuples. `Holds` and `Meaningful` say what the
tree means, without a parser. A field that the context lacks, an order between a number and
a text, a function that is not implemented and a text that is not of the grammar mean
nothing: the check must raise, on whichever side of an "or" they are.

An offer's predicate in `ProgramPrices` is a set of comparisons of the bundle's id (`=`,
`!=`, `in`), joined by "and" or "or", and whether its other conditions hold. The code
(`lms/utils.py:46`) reads less: the ids after `=` and `!=` alike, not those of a list, and
no other condition. What it makes of them is right by a convention (`Conventional`): the
default offer excludes programs with `!=`, another offer names its own with `=`, and
nothing else is asked. `DiscountIsOffered` is about such offers. The others are in the run
too, and the model does with them what the code does: an offer that excludes the program
with `!=` is taken for one of its own, one that lists it with `in` is missed, a condition
that fails is ignored, and a default offer that names the program is withheld from it. All
that is claimed of those is that the price is not raised.

What the code does and a reader may not expect: the words "true" and "false" are flags in
a comparison and texts in a list, so that `in ("true")` holds of no flag; a share that is
exactly half a cent may be rounded down, as the share is a sum of decimals of 28 digits; a
predicate that cannot be evaluated is bypassed, and the code counts as applicable; a usage
limit above one is treated like one; a program without any active offer is answered 500;
the date of an order of Commercetools in the history is the day of its last change; when
both systems are silent the history is empty and the answer 200; `CommercetoolsError` is
caught in the sanction task's reads, which then ends without a retry.

### Proofs

`AnswersProofs.tla` and `PredicateProofs.tla` prove all of these properties. Each theorem
is about its component's own specification (`RefundsSpec`, `PredicateSpec`, ...), in which
the component may be idle. `AnswersRunComponents` shows that a behaviour of `Answers` is
one of each of them, as every step of `Answers` is a step of one component and leaves the
variables of the others alone, and `EveryAnswerIsRight` states all ten invariants of
`Answers`.

- `PredicateMeansWhatItSays`: a state of this component tells little, and the theorem is
  about what one call computes (`EvaluatedRight`). `Unparse`, `Holds` and `Meaningful` are
  recursive functions of trees, and the parser's stack one of positions. That there are such
  functions is not for free: partial ones agree where both are defined (`FoldsAgree`), and
  the least tree, or position, without one would have one (`FoldExists`, `StackExists`).
  `TreeInduction` is induction over a set of trees, by their depth. With it `ReadsAll`
  shows what the parser makes of the text of a tree wherever it occurs: from a frame
  that may take the tree without parentheses (`Fits`) it comes to a frame that differs in
  the parts that the tree has filled (`Read`). In it, `ReadsOr`, `ReadsAnd` and `ReadsCall`
  follow a tree's parts one after the other, and `EnclosedReads` has the parentheses,
  after which a tree is a factor whatever it was. Comparisons are `CompareRight`, by kinds
  of values.
- `CodesAreTurnedDownForCause`, `ApplicableCodesAreEarned`: what the two views look at
  (`UsageRight`, `FirstTime`, with `EvaluatedRight` for the predicate) is what holds at
  that moment; what happens later takes the verdict back. If the orders fit a page, the
  page that is read is all of them, by counting.
- `RefundsComeToPlan`: `RefundsAddUp` is about the end of a sequence of returns. The
  invariant `RefundsInv` has it for every part (`Near`): twice the amount refunded, times
  the order's total, is off the planned amount's share of the returned items by the
  order's total, for every return at most. One return is near its share since rounding
  is (`Rounding`: also when an exact half comes out below) and the cap does not bite
  (`AmountNear`); what is near adds up (`NearAdds`).
- `PriceIsOfRecentProgram`, `DiscountIsThatOffered`: a request that has read the program
  and not yet cached it has read a recent one.
- `HistoryIsComplete`: an order that is left out of a page is no newer than those on it,
  so that all of the page are shown (`LeftOut`, `CutOff`).
- `ReceiptIsOfPayment`: at most one payment has succeeded.
- `SanctionsAreEnforced`, `DeactivationHasCause`: a task that has seen the sanction saw
  what was there (`TaskTrue`), and a retry forgets what it saw.

The lemmas about sums (`SumIs` to `SumPart`) are the ones that an induction over finite
sets would give: `SumFunctionOnSet` exists, takes any element first, and is additive. The
induction is replaced by a smallest counterexample (`SmallestSet`).

Assumptions on constants: `RefundAmountsAssumption` (amounts are numbers of cents),
`PredicatesAssumption` (a tree is deeper than its parts, so that it is finite; operators,
literals and the context's values are of the kinds that the grammar and Commercetools
have), `DiscountsAssumption` (what codes and variants may be set up like),
`ProgramPricesAssumption` (finitely many prices, none negative), `OffersAssumption` (the
key of a discount is unique at Commercetools, so that there is one default offer at most;
a predicate is of the kind above, conventional or not; and no value is negative),
`OrderHistoryAssumption`, `ReceiptsAssumption` and `SanctionsAssumption` (bounds are
numbers).

Nothing of this run is only model-checked.

## Not modelled

- `commercetools/management/commands/`: `import_discovery` leaves at the first lines of its
  `handle`, since another team builds it. The provisioning of types and states is run by
  hand, record after record, beside nothing of the above.
- `CreateOrGetStripeDraftPayment`, `UpdateStripePayment` and the checkout redirects
  (`PaymentPageRedirectView`, `OrderDetailsRedirectView`, `CreditCheckoutView`): one call,
  one address; the orders behind them are the legacy service's.
- `rollout/`, and which system an order belongs to: a choice once per request. Where it
  changes what happens it is an input (`home` and `passOn` in `MobileRefund`, the number's
  form in `Receipts`).
- Validation of receipts at Apple and Google (`iap/` clients): its outcome is
  `validate_iap` in `MobileOrder`.
- Segment events and Slack: nothing depends on them; where a failing one has a task
  retried, the retry is modelled.
- Legacy, enterprise and demo apps, settings, `docs/`: adapters without state.
- The line-item state `Initial`, which items leave before any message of this program,
  and the transitions that only operators make.
