--------------------------- MODULE Fulfillment ---------------------------
(***************************************************************************)
(* Fulfilment of one Commercetools order, from the line-item message that  *)
(* announces it to the line-item states that record its outcome.           *)
(*                                                                         *)
(*   EventBridge --message--> OrderFulfillView --celery--> placed task     *)
(*   placed task --dispatch per item--> LMS task | Order Fulfillment       *)
(*   LMS task | OF webhook --report--> line-item update task --> CT order  *)
(*                                                                         *)
(* Every message is delivered at least once, every Celery task may fail at *)
(* each of its calls and is retried from its first line, and every write   *)
(* to the order carries the version that was read.  A call to              *)
(* Commercetools is one step; what happens between two calls is not.       *)
(***************************************************************************)
EXTENDS Naturals

CONSTANTS
  N,                \* number of line items, in the order's sequence
  Bundles,          \* the items bought through a program (LMS entitlements)
  ForwardedStates,  \* line-item states whose transition messages EventBridge forwards
  MaxDeliveries,    \* bound on deliveries of those messages
  MaxPlacedRetries, \* max_retries of the placed task (5 in the code)
  MaxJobRetries,    \* max_retries of the two LMS tasks (5 in the code)
  MaxReportRetries, \* max_retries of the line-item update task (5 in the code)
  MaxResets,        \* bound on operator resets of each item
  MaxFaults         \* bound on failed calls, lost publishes, crashes, foreign writes

Items == 1..N
LineItemState == {"Pending", "Processing", "Success", "Failure"}

ASSUME FulfillmentAssumption ==
  /\ N \in Nat \ {0}
  /\ Bundles \subseteq Items
  /\ ForwardedStates \subseteq LineItemState
  /\ {MaxPlacedRetries, MaxJobRetries, MaxReportRetries} \subseteq Nat
  /\ {MaxDeliveries, MaxResets, MaxFaults} \subseteq Nat

VARIABLES
  state,        \* Commercetools: state of each line item
  version,      \* Commercetools: version of the order
  entitlement,  \* Commercetools: items whose edxLMSEntitlementId field is set
  messages,     \* states for which a transition message has been emitted
  deliveries,   \* how many deliveries of them there have been
  access,       \* LMS: items the learner is enrolled in or entitled to
  viewLock,     \* cache: OrderFulfillView's lock on the order
  taskLock,     \* cache: the update task's lock on the order
  placed,       \* live fulfill_order_placed_message_signal_task instances
  jobs,         \* live fulfilment jobs, in the LMS tasks or at Order Fulfillment
  reports,      \* live fulfillment_completed_update_ct_line_item_task instances
  confirmed,    \* cache: confirmation e-mail sent
  mails,        \* confirmation e-mails sent
  apologized,   \* cache: failure e-mail sent
  apologies,    \* failure e-mails of program items sent
  dispatched,   \* history: how often each item was handed to the LMS or OF
  dropped,      \* history: items a step gave up on, leaving at most a log line
  resets,       \* operator resets of each item
  faults        \* faults so far

order  == <<state, version, entitlement, messages>>
mail   == <<confirmed, mails, apologized, apologies>>
bounds == <<deliveries, resets, faults>>
vars   == <<order, access, viewLock, taskLock, placed, jobs, reports, mail,
            dispatched, dropped, bounds>>

Replace(S, old, new) == (S \ {old}) \cup {new}

\* A call that fails, a publish that is lost, a worker that dies.
Fault == faults < MaxFaults /\ faults' = faults + 1
NoFault == faults' = faults

-----------------------------------------------------------------------------
(* The order in Commercetools. *)

\* The line-item state machine that provision_states installs.
Transitions ==
  [s \in LineItemState |->
     CASE s = "Pending"    -> {"Processing"}
       [] s = "Processing" -> {"Success", "Failure"}
       [] s = "Success"    -> {}
       [] s = "Failure"    -> {"Pending", "Success"}]

\* Commercetools accepts an update that was made against the current version;
\* its transitions must start where the items are and be provisioned.
Accepts(ver, S, from, to) ==
  /\ ver = version
  /\ \A i \in S : state[i] = from
  /\ to \in Transitions[from]

Move(S, to) ==
  /\ state' = [i \in Items |-> IF i \in S THEN to ELSE state[i]]
  /\ version' = version + 1
  /\ messages' = messages \cup ({to} \cap ForwardedStates)

\* Another writer changes the order (a return, a refund, the shop).
ForeignUpdate ==
  /\ Fault
  /\ version' = version + 1
  /\ UNCHANGED <<state, entitlement, messages, access, viewLock, taskLock, placed,
                 jobs, reports, mail, dispatched, dropped, deliveries, resets>>

\* An operator sends a failed item back to Pending, to have it fulfilled again.
ResetItem(i) ==
  /\ state[i] = "Failure"
  /\ resets[i] < MaxResets
  /\ Move({i}, "Pending")
  /\ resets' = [resets EXCEPT ![i] = @ + 1]
  /\ UNCHANGED <<entitlement, access, viewLock, taskLock, placed, jobs, reports, mail,
                 dispatched, dropped, deliveries, faults>>

-----------------------------------------------------------------------------
(* OrderFulfillView and the placed task. *)

\* pos is the first item this task has moved to Processing and not dispatched yet
\* (N + 1: none); ver is the version it read.
PlacedTask(id, s, forward) ==
  [id |-> id, from |-> s, forward |-> forward, pc |-> "read", ver |-> 0,
   pos |-> N + 1, tries |-> 0]

\* POST of a message: the first within the lock's 30 minutes starts the task,
\* the others are answered 200 and forgotten.  A publish that fails is
\* swallowed by send_robust, with the lock held and 200 returned.
OrderFulfillView(s, forward) ==
  /\ deliveries < MaxDeliveries
  /\ deliveries' = deliveries + 1
  /\ viewLock' = TRUE
  /\ \/ /\ viewLock
        /\ UNCHANGED placed
        /\ NoFault
     \/ /\ ~viewLock
        /\ placed' = placed \cup {PlacedTask(deliveries', s, forward)}
        /\ NoFault
     \/ /\ ~viewLock
        /\ UNCHANGED placed
        /\ Fault
  /\ UNCHANGED <<order, access, taskLock, jobs, reports, mail, dispatched, dropped,
                 resets>>

\* (An expiry that no delivery follows changes nothing.)
ExpireViewLock ==
  /\ viewLock /\ deliveries < MaxDeliveries
  /\ viewLock' = FALSE
  /\ UNCHANGED <<order, access, taskLock, placed, jobs, reports, mail, dispatched,
                 dropped, bounds>>

\* What an exception does to a placed task that owes items pos..N.
PlacedGiveUp(t, pos) ==
  /\ placed' = placed \ {t}
  /\ dropped' = dropped \cup (pos..N)

PlacedRaise(t, pos) ==
  \/ /\ t.tries < MaxPlacedRetries
     /\ placed' = Replace(placed, t, [PlacedTask(t.id, t.from, t.forward)
                                        EXCEPT !.pos = pos, !.tries = t.tries + 1])
     /\ UNCHANGED dropped
  \/ /\ t.tries = MaxPlacedRetries
     /\ PlacedGiveUp(t, pos)

\* get_order_and_customer_by_order_id
PlacedRead(t) ==
  /\ t.pc = "read"
  /\ placed' = Replace(placed, t, [t EXCEPT !.pc = "transition", !.ver = version])
  /\ UNCHANGED <<order, access, viewLock, taskLock, jobs, reports, mail, dispatched,
                 dropped, bounds>>

\* The error handler of update_line_items_transition_state logs the rejection and
\* raises it again.
TransitionRejected_Ignored(t) ==      \* a mutant: logged only
  /\ placed' = Replace(placed, t, [t EXCEPT !.pc = "dispatch", !.ver = 0, !.pos = 1])
  /\ UNCHANGED dropped

TransitionRejected(t) == PlacedRaise(t, t.pos)

\* update_line_items_transition_state: all items in one update, from the state
\* that the message named.
update_line_items_transition_state(t) ==
  LET next == [t EXCEPT !.pc = "dispatch", !.ver = 0, !.pos = 1] IN
  /\ t.pc = "transition"
  /\ \/ /\ t.from = "Processing"
        /\ placed' = Replace(placed, t, next)
        /\ UNCHANGED <<order, dropped, faults>>
     \/ /\ t.from # "Processing"
        /\ Accepts(t.ver, Items, t.from, "Processing")
        /\ Move(Items, "Processing")
        /\ UNCHANGED entitlement
        /\ \/ /\ placed' = Replace(placed, t, next)
              /\ UNCHANGED <<dropped, faults>>
           \/ PlacedRaise(t, 1) /\ Fault              \* the answer is lost
     \/ /\ t.from # "Processing"
        /\ ~Accepts(t.ver, Items, t.from, "Processing")
        /\ TransitionRejected(t)
        /\ UNCHANGED <<order, faults>>
  /\ UNCHANGED <<access, viewLock, taskLock, jobs, reports, mail, dispatched,
                 deliveries, resets>>

NewJob(i, via) ==
  [item |-> i, n |-> dispatched[i] + 1, via |-> via, pc |-> "attempt", tries |-> 0]

\* After item i of the loop: the next item, or the e-mail.
NextInLoop_OffByOne(i) == IF i > N THEN "confirm" ELSE "dispatch"      \* a mutant

NextInLoop(i) == IF i = N THEN "confirm" ELSE "dispatch"

\* One round of the loop over the items: the item goes to Order Fulfillment,
\* whose client answers None when its attempts are used up (the request may have
\* got through all the same), or by signal to an LMS task, whose publish may be
\* swallowed.  Neither is noticed here.
PlacedDispatch(t) ==
  LET i == t.pos
      via == IF t.forward THEN "of" ELSE "lms" IN
  /\ t.pc = "dispatch"
  /\ placed' = Replace(placed, t, [t EXCEPT !.pos = i + 1, !.pc = NextInLoop(i)])
  /\ \/ /\ jobs' = jobs \cup {NewJob(i, via)}
        /\ dispatched' = [dispatched EXCEPT ![i] = @ + 1]
        /\ UNCHANGED dropped
        /\ NoFault \/ (t.forward /\ Fault)
     \/ /\ Fault
        /\ dropped' = dropped \cup {i}
        /\ UNCHANGED <<jobs, dispatched>>
  /\ UNCHANGED <<order, access, viewLock, taskLock, reports, mail, deliveries, resets>>

\* The confirmation e-mail: the cache is read, then the mail sent and the cache set.
PlacedConfirm(t) ==
  /\ t.pc = "confirm"
  /\ placed' = IF confirmed THEN placed \ {t}
                            ELSE Replace(placed, t, [t EXCEPT !.pc = "send"])
  /\ UNCHANGED <<order, access, viewLock, taskLock, jobs, reports, mail, dispatched,
                 dropped, bounds>>

send_order_confirmation_email(t) ==
  /\ t.pc = "send"
  /\ placed' = placed \ {t}
  /\ mails' = mails + 1
  /\ confirmed' = TRUE
  /\ UNCHANGED <<order, access, viewLock, taskLock, jobs, reports, apologized,
                 apologies, dispatched, dropped, bounds>>

\* The task fails: RequestException and CommercetoolsError of its calls are
\* retried, anything else (no such User, an invalid payload, a dead worker) is not.
PlacedFails(t) ==
  /\ Fault
  /\ \/ t.pc \in {"read", "transition", "dispatch"} /\ PlacedRaise(t, t.pos)
     \/ PlacedGiveUp(t, t.pos)
  /\ UNCHANGED <<order, access, viewLock, taskLock, jobs, reports, mail, dispatched,
                 deliveries, resets>>

-----------------------------------------------------------------------------
(* The LMS tasks, the Order Fulfillment service and the reports they send. *)

\* What signals.py makes of is_fulfilled.
OutcomeState_Always(is_fulfilled) == "Success"                         \* a mutant
OutcomeState_Swapped(is_fulfilled) ==                                  \* a mutant
  IF is_fulfilled THEN "Failure" ELSE "Success"

OutcomeState(is_fulfilled) == IF is_fulfilled THEN "Success" ELSE "Failure"

\* The entitlement's uuid is part of the report of its success.
CarriesUuid_Never(j, is_fulfilled) == FALSE                            \* a mutant

CarriesUuid(j, is_fulfilled) == is_fulfilled /\ j.item \in Bundles

\* ver and from are what the update task will have read of the order.
NewReport(j, is_fulfilled) ==
  [item |-> j.item, n |-> j.n, k |-> j.tries, to |-> OutcomeState(is_fulfilled),
   uuid |-> CarriesUuid(j, is_fulfilled), pc |-> "queued", ver |-> 0,
   from |-> "Pending", tries |-> 0]

\* fulfillment_completed_update_ct_line_item_signal, through send_robust: last
\* says that no later report of this job will follow.
SendReport(j, is_fulfilled, last) ==
  \/ /\ reports' = reports \cup {NewReport(j, is_fulfilled)}
     /\ UNCHANGED dropped
     /\ NoFault
  \/ /\ Fault
     /\ dropped' = IF last THEN dropped \cup {j.item} ELSE dropped
     /\ UNCHANGED reports

\* What is left of an LMS task after its last try: on_failure of the entitlement
\* task looks whether to send an e-mail.
Failed(j) == IF j.item \in Bundles THEN {[j EXCEPT !.pc = "failed"]} ELSE {}

Retried(j) ==
  IF j.tries < MaxJobRetries THEN {[j EXCEPT !.tries = @ + 1]} ELSE Failed(j)

\* LMSAPIClient.post, answered in time and in good order.
LmsGrants(j) ==
  /\ j.via = "lms" /\ j.pc = "attempt"
  /\ access' = access \cup {j.item}
  /\ jobs' = jobs \ {j}
  /\ SendReport(j, TRUE, TRUE)
  /\ UNCHANGED <<order, viewLock, taskLock, placed, mail, dispatched, deliveries, resets>>

\* LMSAPIClient.post raising RequestException: the LMS refused, or it did the work
\* and its answer was late or not JSON.  Each failed try is reported, then retried.
LmsRefuses(j) ==
  /\ j.via = "lms" /\ j.pc = "attempt"
  /\ access' \in {access, access \cup {j.item}}
  /\ jobs' = (jobs \ {j}) \cup Retried(j)
  /\ SendReport(j, FALSE, j.tries >= MaxJobRetries)
  /\ UNCHANGED <<order, viewLock, taskLock, placed, mail, dispatched, deliveries, resets>>

\* The task fails outside the POST: reading the order on a retry (retried), an
\* unknown User or a dead worker (neither retried nor reported).
LmsTaskFails(j) ==
  /\ j.via = "lms" /\ j.pc = "attempt"
  /\ Fault
  /\ \/ /\ 0 < j.tries /\ j.tries < MaxJobRetries
        /\ jobs' = (jobs \ {j}) \cup Retried(j)
        /\ UNCHANGED dropped
     \/ /\ jobs' \in {jobs \ {j}, (jobs \ {j}) \cup Failed(j)}
        /\ dropped' = dropped \cup {j.item}
  /\ UNCHANGED <<order, access, viewLock, taskLock, placed, reports, mail, dispatched,
                 deliveries, resets>>

\* CourseEntitlementTaskAfterReturn.on_failure: the cache is read ...
on_failure(j) ==
  /\ j.pc = "failed"
  /\ jobs' = IF apologized THEN jobs \ {j} ELSE Replace(jobs, j, [j EXCEPT !.pc = "mail"])
  /\ UNCHANGED <<order, access, viewLock, taskLock, placed, reports, mail, dispatched,
                 dropped, bounds>>

\* ... then set and the mail sent.
send_fulfillment_error_email(j) ==
  /\ j.pc = "mail"
  /\ jobs' = jobs \ {j}
  /\ apologized' = TRUE
  /\ apologies' = apologies + 1
  /\ UNCHANGED <<order, access, viewLock, taskLock, placed, reports, confirmed, mails,
                 dispatched, dropped, bounds>>

\* Order Fulfillment does its work and its completion event reaches the webhook,
\* perhaps again later (more).  A success event of an entitlement without its uuid
\* is refused by the webhook and lost.
OrderFulfillmentCompletionStatusWebhookView(j, is_fulfilled, more) ==
  /\ j.via = "of" /\ j.pc = "attempt"
  /\ access' = IF is_fulfilled THEN access \cup {j.item} ELSE access
  /\ \/ /\ ~more
        /\ jobs' = jobs \ {j}
        /\ SendReport(j, is_fulfilled, TRUE)
     \/ /\ more
        /\ Fault
        /\ jobs' = Replace(jobs, j, [j EXCEPT !.tries = @ + 1])
        /\ reports' = reports \cup {NewReport(j, is_fulfilled)}
        /\ UNCHANGED dropped
  /\ UNCHANGED <<order, viewLock, taskLock, placed, mail, dispatched, deliveries, resets>>

-----------------------------------------------------------------------------
(* fulfillment_completed_update_ct_line_item_task. *)

\* acquire_task_lock: an atomic cache.add.
acquire_task_lock(r) ==
  /\ r.pc = "queued"
  /\ ~taskLock
  /\ taskLock' = TRUE
  /\ reports' = Replace(reports, r, [r EXCEPT !.pc = "read"])
  /\ UNCHANGED <<order, access, viewLock, placed, jobs, mail, dispatched, dropped, bounds>>

RequeueReport_Forgotten(r) ==         \* a mutant: the locked task just returns
  /\ r.pc = "queued"
  /\ taskLock
  /\ reports' = reports \ {r}
  /\ UNCHANGED <<order, access, viewLock, taskLock, placed, jobs, mail, dispatched,
                 dropped, bounds>>

\* The order is locked: a fresh copy, with fresh retries, is queued in its place.
RequeueReport(r) ==
  /\ r.pc = "queued"
  /\ taskLock
  /\ reports' = Replace(reports, r, [r EXCEPT !.tries = 0])
  /\ UNCHANGED <<order, access, viewLock, taskLock, placed, jobs, mail, dispatched,
                 dropped, bounds>>

\* release_task_lock: a cache.delete, whoever set the key.
release_task_lock == taskLock' = FALSE

ExpireTaskLock_Never == FALSE         \* a mutant: cache.add without a timeout

\* The key's 60 seconds are over, whether or not its task has finished.
ExpireTaskLock ==
  /\ taskLock
  /\ taskLock' = FALSE
  /\ UNCHANGED <<order, access, viewLock, placed, jobs, reports, mail, dispatched,
                 dropped, bounds>>

ReportRead(r) ==
  /\ r.pc = "read"
  /\ reports' = Replace(reports, r, [r EXCEPT !.pc = "update", !.ver = version,
                                              !.from = state[r.item]])
  /\ UNCHANGED <<order, access, viewLock, taskLock, placed, jobs, mail, dispatched,
                 dropped, bounds>>

ReportGone(r) ==
  /\ reports' = reports \ {r}
  /\ dropped' = dropped \cup {r.item}

\* A report forgets what it read of the order when it is queued again.
Queued(r) == [r EXCEPT !.pc = "queued", !.ver = 0, !.from = "Pending"]

\* Every exception of the task is retried.
ReportRaise(r) ==
  \/ /\ r.tries < MaxReportRetries
     /\ reports' = Replace(reports, r, [Queued(r) EXCEPT !.tries = @ + 1])
     /\ UNCHANGED dropped
  \/ /\ r.tries = MaxReportRetries
     /\ ReportGone(r)

\* The transition update_line_item_on_fulfillment asks for, if any.
NeedsTransition(r) == r.from \notin {r.to, "Success"}

\* update_line_item_on_fulfillment and the lock's release: the uuid and the
\* transition in one update, or no update when there is nothing to do.
update_line_item_on_fulfillment(r) ==
  LET acts == r.uuid \/ NeedsTransition(r)
      accepted == /\ r.ver = version
                  /\ NeedsTransition(r) => Accepts(r.ver, {r.item}, r.from, r.to) IN
  /\ r.pc = "update"
  /\ release_task_lock
  /\ \/ /\ ~acts
        /\ reports' = reports \ {r}
        /\ UNCHANGED <<order, dropped, faults>>
     \/ /\ acts /\ accepted
        /\ entitlement' = IF r.uuid THEN entitlement \cup {r.item} ELSE entitlement
        /\ Move({r.item}, IF NeedsTransition(r) THEN r.to ELSE state[r.item])
        /\ \/ /\ reports' = reports \ {r}
              /\ UNCHANGED <<dropped, faults>>
           \/ ReportRaise(r) /\ Fault                 \* the answer is lost
     \/ /\ acts /\ ~accepted
        /\ ReportRaise(r)
        /\ UNCHANGED <<order, faults>>
  /\ UNCHANGED <<access, viewLock, placed, jobs, mail, dispatched, deliveries, resets>>

\* A call of the task fails: the lock is deleted, whoever holds it by now.
ReportFails(r) ==
  /\ r.pc \in {"read", "update"}
  /\ Fault
  /\ release_task_lock
  /\ ReportRaise(r)
  /\ UNCHANGED <<order, access, viewLock, placed, jobs, mail, dispatched, deliveries,
                 resets>>

\* The worker dies: nobody retries, and only the expiry frees the lock.
ReportCrash(r) ==
  /\ Fault
  /\ ReportGone(r)
  /\ UNCHANGED <<order, access, viewLock, taskLock, placed, jobs, mail, dispatched,
                 deliveries, resets>>

-----------------------------------------------------------------------------
Init ==
  /\ state = [i \in Items |-> "Pending"]
  /\ version = 1
  /\ entitlement = {}
  /\ messages = {"Pending"} \cap ForwardedStates
  /\ access = {}
  /\ viewLock = FALSE /\ taskLock = FALSE
  /\ placed = {} /\ jobs = {} /\ reports = {}
  /\ confirmed = FALSE /\ mails = 0
  /\ apologized = FALSE /\ apologies = 0
  /\ dispatched = [i \in Items |-> 0]
  /\ dropped = {}
  /\ resets = [i \in Items |-> 0]
  /\ deliveries = 0 /\ faults = 0

\* The steps of a placed task, a job and a report that their worker takes.
PlacedStep(t) ==
  \/ PlacedRead(t) \/ update_line_items_transition_state(t) \/ PlacedDispatch(t)
  \/ PlacedConfirm(t) \/ send_order_confirmation_email(t)

JobStep(j) ==
  \/ LmsGrants(j) \/ LmsRefuses(j) \/ on_failure(j) \/ send_fulfillment_error_email(j)
  \/ \E is_fulfilled \in BOOLEAN :
       OrderFulfillmentCompletionStatusWebhookView(j, is_fulfilled, FALSE)

ReportStep(r) ==
  acquire_task_lock(r) \/ ReportRead(r) \/ update_line_item_on_fulfillment(r)

Next ==
  \/ \E s \in messages, forward \in BOOLEAN : OrderFulfillView(s, forward)
  \/ \E t \in placed : PlacedStep(t) \/ PlacedFails(t)
  \/ \E j \in jobs :
       \/ JobStep(j) \/ LmsTaskFails(j)
       \/ \E is_fulfilled \in BOOLEAN :
            OrderFulfillmentCompletionStatusWebhookView(j, is_fulfilled, TRUE)
  \/ \E r \in reports :
       ReportStep(r) \/ RequeueReport(r) \/ ReportFails(r) \/ ReportCrash(r)
  \/ \E i \in Items : ResetItem(i)
  \/ ExpireViewLock \/ ExpireTaskLock \/ ForeignUpdate

Spec == Init /\ [][Next]_vars

\* Celery workers take queued tasks, Order Fulfillment answers, cache keys expire.
Fairness ==
  /\ WF_vars(\E t \in placed : PlacedStep(t))
  /\ WF_vars(\E j \in jobs : JobStep(j))
  /\ WF_vars(\E r \in reports : ReportStep(r))
  /\ WF_vars(ExpireTaskLock)

FairSpec == Spec /\ Fairness

-----------------------------------------------------------------------------
(* Properties. *)

Jobs == [item : Items, n : Nat, via : {"lms", "of"}, pc : {"attempt", "failed", "mail"},
         tries : Nat]

Reports == [item : Items, n : Nat, k : Nat, to : {"Success", "Failure"}, uuid : BOOLEAN,
            pc : {"queued", "read", "update"}, ver : Nat, from : LineItemState,
            tries : Nat]

PlacedTasks == [id : Nat, from : LineItemState, forward : BOOLEAN,
                pc : {"read", "transition", "dispatch", "confirm", "send"}, ver : Nat,
                pos : 1..(N + 1), tries : Nat]

OrderTypeOK ==
  /\ state \in [Items -> LineItemState]
  /\ version \in Nat
  /\ entitlement \subseteq Items
  /\ messages \subseteq ForwardedStates

CachesTypeOK ==
  /\ viewLock \in BOOLEAN /\ taskLock \in BOOLEAN
  /\ confirmed \in BOOLEAN /\ apologized \in BOOLEAN

HistoryTypeOK ==
  /\ access \subseteq Items /\ dropped \subseteq Items
  /\ dispatched \in [Items -> Nat] /\ resets \in [Items -> Nat]
  /\ mails \in Nat /\ apologies \in Nat /\ deliveries \in Nat /\ faults \in Nat

PlacedTypeOK ==
  /\ placed \subseteq PlacedTasks
  /\ \A t \in placed : /\ t.pc = "dispatch" => t.pos \in Items
                       /\ t.pc \in {"confirm", "send"} => t.pos = N + 1

\* The state of the order, the caches and the tasks is well formed; a placed task
\* dispatches the items of the order and no other, and all before the e-mail.
TypeOK ==
  /\ OrderTypeOK
  /\ CachesTypeOK
  /\ HistoryTypeOK
  /\ PlacedTypeOK
  /\ jobs \subseteq Jobs
  /\ reports \subseteq Reports

\* An order never tells a learner that an item was fulfilled when the LMS has not
\* given access to it: late, repeated and contradictory reports included.
SuccessMeansAccess == \A i \in Items : state[i] = "Success" => i \in access

\* A program item that is marked fulfilled carries the entitlement's uuid, which
\* is what a later revocation needs.
EntitlementRecorded == \A i \in Bundles : state[i] = "Success" => i \in entitlement

\* Duplicate messages, expired view locks and retried tasks never hand an item to
\* the LMS or to Order Fulfillment twice, unless an operator reset it: moving the
\* items out of Pending is the ticket to dispatch them.
AtMostOneDispatch == \A i \in Items : dispatched[i] <= 1 + resets[i]

\* Whatever is delivered, retried or lost, the learner gets one confirmation e-mail
\* for an order that no operator touched.
OneConfirmation == (\A i \in Items : resets[i] = 0) => mails <= 1

\* A task that still has to dispatch item i, having moved it to Processing.
Owes(t, i) == t.pos <= i

\* An item that is being processed is somebody's work - a placed task that will
\* come to it, a job, a report on its way to the order - or a step has given up on
\* it and logged so: no lock, requeue or retry loses it on the way.
NoSilentLoss ==
  \A i \in Items :
    state[i] = "Processing" =>
      \/ i \in dropped
      \/ \E t \in placed : Owes(t, i)
      \/ \E j \in jobs : j.item = i /\ j.pc = "attempt"
      \/ \E r \in reports : r.item = i

\* Fulfilment implements the line-item lifecycle it promises.
Status(s) ==
  CASE s \in {"Pending", "Processing"} -> "open"
    [] s = "Success" -> "granted"
    [] s = "Failure" -> "refused"

Lifecycle == INSTANCE LineItemLifecycle
               WITH status <- [i \in Items |-> Status(state[i])]

ImplementsLifecycle == Lifecycle!Spec

\* With live workers every item that is being processed is settled, or given up
\* on: reports that find the order locked, or lose a race for its version, get
\* through in the end, also when a worker dies with the lock.
ProcessingSettles ==
  \A i \in Items :
    state[i] = "Processing" ~> (state[i] \in {"Success", "Failure"} \/ i \in dropped)

\* core/tasks.py of the lock: it makes "sure that the same task is not worked on by
\* more than one worker at the same time".
OneWorkerPerTask ==
  \A r, q \in reports :
    r.pc \in {"read", "update"} /\ q.pc \in {"read", "update"} => r = q

\* lms/tasks.py of its cache entry: it is set "to prevent sending multiple failure
\* emails for multiple fulfillment failures in the same order".
OneApology == apologies <= 1
=============================================================================
