----------------------- MODULE FulfillmentProofs -----------------------
(***************************************************************************)
(* Theorems about Fulfillment, for every order, every retry limit and      *)
(* every number of faults.                                                 *)
(***************************************************************************)
EXTENDS Fulfillment, FiniteSets, FiniteSetTheorems, TLAPS

-----------------------------------------------------------------------------
(* What the tasks' helpers make of a well-formed task. *)

LEMMA PlacedTaskType ==
  ASSUME NEW id \in Nat, NEW s \in LineItemState, NEW forward \in BOOLEAN
  PROVE  /\ PlacedTask(id, s, forward) \in PlacedTasks
         /\ PlacedTask(id, s, forward).pc = "read"
BY FulfillmentAssumption DEF PlacedTask, PlacedTasks

\* A placed task that is started again from its first line is well formed.
LEMMA RestartType ==
  ASSUME NEW t \in PlacedTasks, NEW pos \in 1..(N + 1), NEW tries \in Nat
  PROVE  /\ [PlacedTask(t.id, t.from, t.forward) EXCEPT !.pos = pos, !.tries = tries]
              \in PlacedTasks
         /\ [PlacedTask(t.id, t.from, t.forward) EXCEPT !.pos = pos, !.tries = tries].pc
              = "read"
<1>0. t.id \in Nat /\ t.from \in LineItemState /\ t.forward \in BOOLEAN
  BY DEF PlacedTasks
<1> DEFINE u == PlacedTask(t.id, t.from, t.forward)
<1>1. u \in PlacedTasks /\ u.pc = "read"
  BY <1>0, PlacedTaskType
<1> HIDE DEF u
<1>2. [u EXCEPT !.pos = pos, !.tries = tries] \in PlacedTasks
  BY <1>1 DEF PlacedTasks
<1>3. [u EXCEPT !.pos = pos, !.tries = tries].pc = "read"
  BY <1>1 DEF PlacedTasks
<1> QED
  BY <1>2, <1>3 DEF u

\* A placed task that goes on to the loop is well formed.
LEMMA DispatchType ==
  ASSUME NEW t \in PlacedTasks
  PROVE  /\ [t EXCEPT !.pc = "dispatch", !.ver = 0, !.pos = 1] \in PlacedTasks
         /\ [t EXCEPT !.pc = "dispatch", !.ver = 0, !.pos = 1].pc = "dispatch"
         /\ [t EXCEPT !.pc = "dispatch", !.ver = 0, !.pos = 1].pos = 1
<1>1. 1 \in 1..(N + 1)
  BY FulfillmentAssumption
<1>2. [t EXCEPT !.pc = "dispatch", !.ver = 0, !.pos = 1] \in PlacedTasks
  BY <1>1 DEF PlacedTasks
<1>3. [t EXCEPT !.pc = "dispatch", !.ver = 0, !.pos = 1].pc = "dispatch"
  BY DEF PlacedTasks
<1>4. [t EXCEPT !.pc = "dispatch", !.ver = 0, !.pos = 1].pos = 1
  BY DEF PlacedTasks
<1> QED
  BY <1>2, <1>3, <1>4

\* Giving up, and raising, keep the placed tasks well formed.
LEMMA PlacedGiveUpType ==
  ASSUME TypeOK, NEW t \in placed, NEW pos \in 1..(N + 1), PlacedGiveUp(t, pos)
  PROVE  PlacedTypeOK' /\ dropped' \subseteq Items
<1>1. pos..N \subseteq Items
  BY FulfillmentAssumption DEF Items
<1> QED
  BY <1>1 DEF TypeOK, PlacedTypeOK, HistoryTypeOK, PlacedGiveUp

LEMMA PlacedRaiseType ==
  ASSUME TypeOK, NEW t \in placed, NEW pos \in 1..(N + 1), PlacedRaise(t, pos)
  PROVE  PlacedTypeOK' /\ dropped' \subseteq Items
<1> DEFINE u == [PlacedTask(t.id, t.from, t.forward)
                   EXCEPT !.pos = pos, !.tries = t.tries + 1]
<1>1. t \in PlacedTasks /\ t.tries + 1 \in Nat
  BY DEF TypeOK, PlacedTypeOK, PlacedTasks
<1>2. u \in PlacedTasks /\ u.pc = "read"
  BY <1>1, RestartType
<1> HIDE DEF u
<1>3. CASE placed' = Replace(placed, t, u) /\ UNCHANGED dropped
  BY <1>2, <1>3 DEF TypeOK, PlacedTypeOK, HistoryTypeOK, Replace
<1> QED
  BY <1>3, PlacedGiveUpType DEF PlacedRaise, u

LEMMA QueuedType ==
  ASSUME NEW r \in Reports
  PROVE  Queued(r) \in Reports
BY DEF Queued, Reports, LineItemState

\* Raising keeps the reports well formed.
LEMMA ReportRaiseType ==
  ASSUME TypeOK, NEW r \in reports, ReportRaise(r)
  PROVE  reports' \subseteq Reports /\ dropped' \subseteq Items
<1>0. r \in Reports
  BY DEF TypeOK
<1> DEFINE q == [Queued(r) EXCEPT !.tries = @ + 1]
<1>1. q \in Reports
  BY <1>0, QueuedType DEF Reports
<1> HIDE DEF q
<1>2. CASE reports' = Replace(reports, r, q) /\ UNCHANGED dropped
  BY <1>1, <1>2 DEF TypeOK, HistoryTypeOK, Replace
<1>3. CASE ReportGone(r)
  BY <1>0, <1>3 DEF TypeOK, HistoryTypeOK, ReportGone, Reports
<1> QED
  BY <1>2, <1>3 DEF ReportRaise, q

LEMMA NewReportType ==
  ASSUME NEW j \in Jobs, NEW is_fulfilled \in BOOLEAN
  PROVE  NewReport(j, is_fulfilled) \in Reports
BY DEF NewReport, Reports, Jobs, OutcomeState, CarriesUuid, LineItemState

\* Sending a report of a job keeps the reports well formed.
LEMMA SendReportType ==
  ASSUME TypeOK, NEW j \in jobs, NEW is_fulfilled \in BOOLEAN, NEW last,
         SendReport(j, is_fulfilled, last)
  PROVE  reports' \subseteq Reports /\ dropped' \subseteq Items /\ faults' \in Nat
<1>0. j \in Jobs /\ j.item \in Items
  BY DEF TypeOK, Jobs
<1>1. NewReport(j, is_fulfilled) \in Reports
  BY <1>0, NewReportType
<1> QED
  BY <1>0, <1>1 DEF SendReport, TypeOK, HistoryTypeOK, Fault, NoFault

\* Retrying, and failing for good, keep the jobs well formed.
LEMMA RetriedType ==
  ASSUME NEW j \in Jobs
  PROVE  /\ [j EXCEPT !.tries = @ + 1] \in Jobs
         /\ Retried(j) \subseteq Jobs
         /\ Failed(j) \subseteq Jobs
<1>1. [j EXCEPT !.pc = "failed"] \in Jobs /\ [j EXCEPT !.tries = @ + 1] \in Jobs
  BY DEF Jobs
<1> QED
  BY <1>1 DEF Retried, Failed

\* A move in the state machine keeps the order well formed.
LEMMA MoveType ==
  ASSUME TypeOK, NEW S, NEW to \in LineItemState, Move(S, to), entitlement' \subseteq Items
  PROVE  OrderTypeOK'
BY DEF TypeOK, OrderTypeOK, Move

-----------------------------------------------------------------------------
(* Type correctness. *)

LEMMA InitTypeOK == Init => TypeOK
<1> SUFFICES ASSUME Init PROVE TypeOK
  OBVIOUS
<1>1. OrderTypeOK
  BY DEF Init, OrderTypeOK, LineItemState
<1>2. CachesTypeOK
  BY DEF Init, CachesTypeOK
<1>3. HistoryTypeOK
  BY DEF Init, HistoryTypeOK
<1>4. PlacedTypeOK /\ jobs \subseteq Jobs /\ reports \subseteq Reports
  BY DEF Init, PlacedTypeOK
<1> QED
  BY <1>1, <1>2, <1>3, <1>4 DEF TypeOK

\* Every step of a placed task keeps the state well formed.
LEMMA PlacedStepTypeOK ==
  ASSUME TypeOK, NEW t \in placed, PlacedStep(t) \/ PlacedFails(t)
  PROVE  TypeOK'
<1>0. t \in PlacedTasks /\ t.pos \in 1..(N + 1)
  BY DEF TypeOK, PlacedTypeOK, PlacedTasks
<1>1. CASE PlacedRead(t)
  <2> DEFINE u == [t EXCEPT !.pc = "transition", !.ver = version]
  <2>1. u \in PlacedTasks
    BY <1>0 DEF TypeOK, OrderTypeOK, PlacedTasks
  <2>2. u.pc = "transition"
    BY <1>0 DEF PlacedTasks
  <2> HIDE DEF u
  <2>3. PlacedTypeOK'
    BY <1>1, <2>1, <2>2 DEF PlacedRead, TypeOK, PlacedTypeOK, Replace, u
  <2> QED
    BY <1>1, <2>3
       DEF PlacedRead, TypeOK, OrderTypeOK, CachesTypeOK, HistoryTypeOK, order, mail, bounds
<1>2. CASE update_line_items_transition_state(t)
  <2> DEFINE next == [t EXCEPT !.pc = "dispatch", !.ver = 0, !.pos = 1]
  <2>0. next \in PlacedTasks /\ next.pc = "dispatch" /\ next.pos = 1
    BY <1>0, DispatchType
  <2> HIDE DEF next
  <2>1. next.pos \in Items
    BY <2>0, FulfillmentAssumption DEF Items
  <2>2. ASSUME placed' = Replace(placed, t, next), UNCHANGED dropped
        PROVE  PlacedTypeOK' /\ dropped' \subseteq Items
    BY <2>0, <2>1, <2>2 DEF TypeOK, PlacedTypeOK, HistoryTypeOK, Replace
  <2>3. ASSUME PlacedRaise(t, t.pos) \/ PlacedRaise(t, 1)
        PROVE  PlacedTypeOK' /\ dropped' \subseteq Items
    <3>1. 1 \in 1..(N + 1)
      BY FulfillmentAssumption
    <3> QED
      BY <1>0, <2>3, <3>1, PlacedRaiseType
  <2>4. PlacedTypeOK' /\ dropped' \subseteq Items
    BY <1>2, <2>2, <2>3 DEF update_line_items_transition_state, TransitionRejected, next
  <2>5. OrderTypeOK'
    <3>1. CASE UNCHANGED order
      BY <3>1 DEF order, TypeOK, OrderTypeOK
    <3>2. CASE Move(Items, "Processing") /\ UNCHANGED entitlement
      BY <3>2, MoveType DEF LineItemState, TypeOK, OrderTypeOK
    <3> QED
      BY <1>2, <3>1, <3>2 DEF update_line_items_transition_state
  <2>6. faults' \in Nat
    BY <1>2 DEF update_line_items_transition_state, TypeOK, HistoryTypeOK, Fault
  <2> QED
    BY <1>2, <2>4, <2>5, <2>6
       DEF update_line_items_transition_state, TypeOK, CachesTypeOK, HistoryTypeOK, mail
<1>3. CASE PlacedDispatch(t)
  <2> DEFINE u == [t EXCEPT !.pos = t.pos + 1, !.pc = NextInLoop(t.pos)]
             job == NewJob(t.pos, IF t.forward THEN "of" ELSE "lms")
  <2>1. t.pos \in Items /\ t.pos + 1 \in 1..(N + 1)
    BY <1>0, <1>3, FulfillmentAssumption DEF PlacedDispatch, TypeOK, PlacedTypeOK, Items
  <2>2. u \in PlacedTasks
    BY <1>0, <2>1 DEF PlacedTasks, NextInLoop
  <2>3. u.pos = t.pos + 1 /\ u.pc = NextInLoop(t.pos)
    BY <1>0 DEF PlacedTasks
  <2> HIDE DEF u
  <2>4. u.pc = "dispatch" => u.pos \in Items
    BY <2>1, <2>3, FulfillmentAssumption DEF NextInLoop, Items
  <2>5. u.pc \in {"confirm", "send"} => u.pos = N + 1
    BY <2>1, <2>3, FulfillmentAssumption DEF NextInLoop, Items
  <2>6. PlacedTypeOK'
    BY <1>3, <2>2, <2>4, <2>5 DEF PlacedDispatch, TypeOK, PlacedTypeOK, Replace, u
  <2>7. job \in Jobs
    BY <2>1 DEF NewJob, Jobs, TypeOK, HistoryTypeOK
  <2>8. jobs' \subseteq Jobs
    BY <1>3, <2>7 DEF PlacedDispatch, TypeOK
  <2>9. HistoryTypeOK'
    BY <1>3, <2>1 DEF PlacedDispatch, TypeOK, HistoryTypeOK, Fault, NoFault, mail
  <2> QED
    BY <1>3, <2>6, <2>8, <2>9
       DEF PlacedDispatch, TypeOK, OrderTypeOK, CachesTypeOK, order, mail
<1>4. CASE PlacedConfirm(t)
  <2> DEFINE u == [t EXCEPT !.pc = "send"]
  <2>1. u \in PlacedTasks /\ u.pc = "send" /\ u.pos = t.pos
    BY <1>0 DEF PlacedTasks
  <2> HIDE DEF u
  <2>2. PlacedTypeOK'
    BY <1>4, <2>1 DEF PlacedConfirm, TypeOK, PlacedTypeOK, Replace, u
  <2> QED
    BY <1>4, <2>2
       DEF PlacedConfirm, TypeOK, OrderTypeOK, CachesTypeOK, HistoryTypeOK, order, mail,
           bounds
<1>5. CASE send_order_confirmation_email(t)
  BY <1>5 DEF send_order_confirmation_email, TypeOK, OrderTypeOK, CachesTypeOK,
              HistoryTypeOK, PlacedTypeOK, order, bounds
<1>6. CASE PlacedFails(t)
  <2>1. PlacedTypeOK' /\ dropped' \subseteq Items
    <3>1. CASE PlacedRaise(t, t.pos)
      BY <1>0, <3>1, PlacedRaiseType
    <3>2. CASE PlacedGiveUp(t, t.pos)
      BY <1>0, <3>2, PlacedGiveUpType
    <3> QED
      BY <1>6, <3>1, <3>2 DEF PlacedFails
  <2> QED
    BY <1>6, <2>1 DEF PlacedFails, Fault, TypeOK, OrderTypeOK, CachesTypeOK, HistoryTypeOK,
                      order, mail
<1> QED
  BY <1>1, <1>2, <1>3, <1>4, <1>5, <1>6 DEF PlacedStep

\* Every step of a fulfilment job keeps the state well formed.
LEMMA JobStepTypeOK ==
  ASSUME TypeOK, NEW j \in jobs, NEW is_fulfilled \in BOOLEAN, NEW more \in BOOLEAN,
         \/ LmsGrants(j) \/ LmsRefuses(j) \/ LmsTaskFails(j)
         \/ on_failure(j) \/ send_fulfillment_error_email(j)
         \/ OrderFulfillmentCompletionStatusWebhookView(j, is_fulfilled, more)
  PROVE  TypeOK'
<1>0. j \in Jobs /\ j.item \in Items
  BY DEF TypeOK, Jobs
<1> USE DEF TypeOK, OrderTypeOK, CachesTypeOK, PlacedTypeOK, order, mail
<1>1. CASE LmsGrants(j)
  <2>1. reports' \subseteq Reports /\ dropped' \subseteq Items /\ faults' \in Nat
    BY <1>1, SendReportType DEF LmsGrants
  <2> QED
    BY <1>0, <1>1, <2>1 DEF LmsGrants, HistoryTypeOK
<1>2. CASE LmsRefuses(j)
  <2>1. reports' \subseteq Reports /\ dropped' \subseteq Items /\ faults' \in Nat
    BY <1>2, SendReportType DEF LmsRefuses
  <2>2. jobs' \subseteq Jobs
    BY <1>0, <1>2, RetriedType DEF LmsRefuses
  <2> QED
    BY <1>0, <1>2, <2>1, <2>2 DEF LmsRefuses, HistoryTypeOK
<1>3. CASE LmsTaskFails(j)
  <2>1. jobs' \subseteq Jobs
    BY <1>0, <1>3, RetriedType DEF LmsTaskFails
  <2> QED
    BY <1>0, <1>3, <2>1 DEF LmsTaskFails, HistoryTypeOK, Fault
<1>4. CASE on_failure(j)
  <2>1. [j EXCEPT !.pc = "mail"] \in Jobs
    BY <1>0 DEF Jobs
  <2>2. jobs' \subseteq Jobs
    BY <1>4, <2>1 DEF on_failure, Replace
  <2> QED
    BY <1>4, <2>2 DEF on_failure, HistoryTypeOK, bounds
<1>5. CASE send_fulfillment_error_email(j)
  BY <1>5 DEF send_fulfillment_error_email, HistoryTypeOK, bounds
<1>6. CASE OrderFulfillmentCompletionStatusWebhookView(j, is_fulfilled, more)
  <2>1. reports' \subseteq Reports /\ dropped' \subseteq Items /\ faults' \in Nat
    <3>1. NewReport(j, is_fulfilled) \in Reports
      BY <1>0, NewReportType
    <3>2. CASE SendReport(j, is_fulfilled, TRUE)
      BY <3>2, SendReportType
    <3>3. CASE /\ Fault
               /\ reports' = reports \cup {NewReport(j, is_fulfilled)}
               /\ UNCHANGED dropped
      BY <3>1, <3>3 DEF HistoryTypeOK, Fault
    <3> QED
      BY <1>6, <3>2, <3>3 DEF OrderFulfillmentCompletionStatusWebhookView
  <2>2. jobs' \subseteq Jobs
    BY <1>0, <1>6, RetriedType DEF OrderFulfillmentCompletionStatusWebhookView, Replace
  <2>3. access' \subseteq Items
    BY <1>0, <1>6 DEF OrderFulfillmentCompletionStatusWebhookView, HistoryTypeOK
  <2> QED
    BY <1>6, <2>1, <2>2, <2>3
       DEF OrderFulfillmentCompletionStatusWebhookView, HistoryTypeOK
<1> QED
  BY <1>1, <1>2, <1>3, <1>4, <1>5, <1>6

\* Every step of a report's task keeps the state well formed.
LEMMA ReportStepTypeOK ==
  ASSUME TypeOK, NEW r \in reports,
         ReportStep(r) \/ RequeueReport(r) \/ ReportFails(r) \/ ReportCrash(r)
  PROVE  TypeOK'
<1>0. r \in Reports /\ r.item \in Items
  BY DEF TypeOK, Reports
<1> USE DEF TypeOK, CachesTypeOK, PlacedTypeOK, order, mail
<1>1. CASE acquire_task_lock(r)
  <2>1. [r EXCEPT !.pc = "read"] \in Reports
    BY <1>0 DEF Reports
  <2>2. reports' \subseteq Reports
    BY <1>1, <2>1 DEF acquire_task_lock, Replace
  <2> QED
    BY <1>1, <2>2 DEF acquire_task_lock, OrderTypeOK, HistoryTypeOK, bounds
<1>2. CASE RequeueReport(r)
  <2>1. [r EXCEPT !.tries = 0] \in Reports
    BY <1>0 DEF Reports
  <2>2. reports' \subseteq Reports
    BY <1>2, <2>1 DEF RequeueReport, Replace
  <2> QED
    BY <1>2, <2>2 DEF RequeueReport, OrderTypeOK, HistoryTypeOK, bounds
<1>3. CASE ReportRead(r)
  <2>1. version \in Nat /\ state[r.item] \in LineItemState
    BY <1>0 DEF OrderTypeOK
  <2>2. [r EXCEPT !.pc = "update", !.ver = version, !.from = state[r.item]] \in Reports
    BY <1>0, <2>1 DEF Reports
  <2>3. reports' \subseteq Reports
    BY <1>3, <2>2 DEF ReportRead, Replace
  <2> QED
    BY <1>3, <2>3 DEF ReportRead, OrderTypeOK, HistoryTypeOK, bounds
<1>4. CASE update_line_item_on_fulfillment(r)
  <2>1. reports' \subseteq Reports /\ dropped' \subseteq Items
    BY <1>4, ReportRaiseType DEF update_line_item_on_fulfillment, HistoryTypeOK
  <2>2. OrderTypeOK'
    <3>1. CASE UNCHANGED order
      BY <3>1 DEF OrderTypeOK
    <3>2. CASE /\ entitlement' \subseteq Items
               /\ Move({r.item}, IF NeedsTransition(r) THEN r.to ELSE state[r.item])
      <4>1. (IF NeedsTransition(r) THEN r.to ELSE state[r.item]) \in LineItemState
        BY <1>0 DEF OrderTypeOK, Reports, LineItemState
      <4> QED
        BY <3>2, <4>1, MoveType
    <3>3. entitlement' \subseteq Items \/ UNCHANGED order
      BY <1>0, <1>4 DEF update_line_item_on_fulfillment, OrderTypeOK
    <3> QED
      BY <1>4, <3>1, <3>2, <3>3 DEF update_line_item_on_fulfillment
  <2>3. faults' \in Nat
    BY <1>4 DEF update_line_item_on_fulfillment, HistoryTypeOK, Fault
  <2>4. taskLock' \in BOOLEAN
    BY <1>4 DEF update_line_item_on_fulfillment, release_task_lock
  <2>5. UNCHANGED <<access, viewLock, placed, jobs, mail, dispatched, deliveries, resets>>
    BY <1>4 DEF update_line_item_on_fulfillment
  <2>6. HistoryTypeOK' /\ PlacedTypeOK' /\ jobs' \subseteq Jobs
    BY <2>1, <2>3, <2>5 DEF HistoryTypeOK
  <2>7. CachesTypeOK'
    BY <2>4, <2>5
  <2> QED
    BY <2>1, <2>2, <2>6, <2>7
<1>5. CASE ReportFails(r)
  <2>1. reports' \subseteq Reports /\ dropped' \subseteq Items
    BY <1>5, ReportRaiseType DEF ReportFails
  <2>2. taskLock' \in BOOLEAN
    BY <1>5 DEF ReportFails, release_task_lock
  <2> QED
    BY <1>5, <2>1, <2>2 DEF ReportFails, Fault, OrderTypeOK, HistoryTypeOK
<1>6. CASE ReportCrash(r)
  BY <1>0, <1>6 DEF ReportCrash, ReportGone, Fault, OrderTypeOK, HistoryTypeOK
<1> QED
  BY <1>1, <1>2, <1>3, <1>4, <1>5, <1>6 DEF ReportStep

\* So do the messages, the operators and the clocks.
LEMMA OtherStepTypeOK ==
  ASSUME TypeOK,
         \/ \E s \in messages, forward \in BOOLEAN : OrderFulfillView(s, forward)
         \/ \E i \in Items : ResetItem(i)
         \/ ExpireViewLock \/ ExpireTaskLock \/ ForeignUpdate
         \/ UNCHANGED vars
  PROVE  TypeOK'
<1> USE DEF TypeOK
<1>1. ASSUME NEW s \in messages, NEW forward \in BOOLEAN, OrderFulfillView(s, forward)
      PROVE  TypeOK'
  <2>1. s \in LineItemState /\ deliveries' \in Nat
    BY <1>1, FulfillmentAssumption DEF OrderFulfillView, OrderTypeOK, HistoryTypeOK
  <2> DEFINE u == PlacedTask(deliveries', s, forward)
  <2>2. u \in PlacedTasks /\ u.pc = "read"
    BY <2>1, PlacedTaskType
  <2> HIDE DEF u
  <2>3. PlacedTypeOK'
    BY <1>1, <2>2 DEF OrderFulfillView, PlacedTypeOK, u
  <2>4. HistoryTypeOK'
    BY <1>1, <2>1 DEF OrderFulfillView, HistoryTypeOK, Fault, NoFault, mail
  <2> QED
    BY <1>1, <2>3, <2>4 DEF OrderFulfillView, OrderTypeOK, CachesTypeOK, order, mail
<1>2. ASSUME NEW i \in Items, ResetItem(i)
      PROVE  TypeOK'
  <2>1. OrderTypeOK'
    BY <1>2, MoveType DEF ResetItem, OrderTypeOK, LineItemState
  <2> QED
    BY <1>2, <2>1 DEF ResetItem, CachesTypeOK, HistoryTypeOK, PlacedTypeOK, mail
<1>3. CASE ExpireViewLock
  BY <1>3 DEF ExpireViewLock, OrderTypeOK, CachesTypeOK, HistoryTypeOK, PlacedTypeOK, order,
              mail, bounds
<1>4. CASE ExpireTaskLock
  BY <1>4 DEF ExpireTaskLock, OrderTypeOK, CachesTypeOK, HistoryTypeOK, PlacedTypeOK, order,
              mail, bounds
<1>5. CASE ForeignUpdate
  BY <1>5 DEF ForeignUpdate, Fault, OrderTypeOK, CachesTypeOK, HistoryTypeOK, PlacedTypeOK,
              mail
<1>6. CASE UNCHANGED vars
  BY <1>6 DEF vars, OrderTypeOK, CachesTypeOK, HistoryTypeOK, PlacedTypeOK, order, mail,
              bounds
<1> QED
  BY <1>1, <1>2, <1>3, <1>4, <1>5, <1>6

LEMMA NextTypeOK == TypeOK /\ [Next]_vars => TypeOK'
<1> SUFFICES ASSUME TypeOK, [Next]_vars PROVE TypeOK'
  OBVIOUS
<1> QED
  BY PlacedStepTypeOK, JobStepTypeOK, ReportStepTypeOK, OtherStepTypeOK
     DEF Next, JobStep

\* The order, the caches, the tasks and the counters are well formed in every
\* behaviour of the fulfilment code.
THEOREM TypeCorrect == Spec => []TypeOK
BY InitTypeOK, NextTypeOK, PTL DEF Spec
-----------------------------------------------------------------------------
(* A fulfilled item has been given to the learner. *)

\* What a report tells of its item.
SameNews(q, r) == q.item = r.item /\ q.to = r.to /\ q.uuid = r.uuid

\* Whatever a report's task does, no report changes its news.
LEMMA ReportRaiseNews ==
  ASSUME TypeOK, NEW r \in reports, ReportRaise(r)
  PROVE  \A q \in reports' : \E p \in reports : SameNews(q, p)
<1>0. r \in Reports
  BY DEF TypeOK
<1> DEFINE u == [Queued(r) EXCEPT !.tries = @ + 1]
<1>1. SameNews(u, r)
  BY <1>0 DEF Queued, Reports, SameNews
<1> HIDE DEF u
<1>2. CASE reports' = Replace(reports, r, u)
  BY <1>1, <1>2 DEF Replace, SameNews
<1>3. CASE reports' = reports \ {r}
  BY <1>3 DEF SameNews
<1> QED
  BY <1>2, <1>3 DEF ReportRaise, ReportGone, u

LEMMA ReportStepNews ==
  ASSUME TypeOK, NEW r \in reports,
         ReportStep(r) \/ RequeueReport(r) \/ ReportFails(r) \/ ReportCrash(r)
  PROVE  \A q \in reports' : \E p \in reports : SameNews(q, p)
<1>0. r \in Reports
  BY DEF TypeOK
<1>1. ASSUME NEW u, SameNews(u, r), reports' = Replace(reports, r, u)
      PROVE  \A q \in reports' : \E p \in reports : SameNews(q, p)
  BY <1>1 DEF Replace, SameNews
<1>2. CASE acquire_task_lock(r)
  <2>1. SameNews([r EXCEPT !.pc = "read"], r)
    BY <1>0 DEF Reports, SameNews
  <2> QED
    BY <1>1, <1>2, <2>1 DEF acquire_task_lock
<1>3. CASE RequeueReport(r)
  <2>1. SameNews([r EXCEPT !.tries = 0], r)
    BY <1>0 DEF Reports, SameNews
  <2> QED
    BY <1>1, <1>3, <2>1 DEF RequeueReport
<1>4. CASE ReportRead(r)
  <2>1. SameNews([r EXCEPT !.pc = "update", !.ver = version, !.from = state[r.item]], r)
    BY <1>0 DEF Reports, SameNews
  <2> QED
    BY <1>1, <1>4, <2>1 DEF ReportRead
<1>5. CASE reports' = reports \ {r}
  BY <1>5 DEF SameNews
<1>6. CASE ReportRaise(r)
  BY <1>6, ReportRaiseNews
<1> QED
  BY <1>2, <1>3, <1>4, <1>5, <1>6
     DEF ReportStep, update_line_item_on_fulfillment, ReportFails, ReportCrash, ReportGone

\* A report of success is only ever sent for an item that the learner has access
\* to, and carries the uuid of the entitlement.
ReportsTruthful ==
  \A r \in reports :
    r.to = "Success" => r.item \in access /\ (r.item \in Bundles => r.uuid)

AccessInv ==
  /\ TypeOK
  /\ ReportsTruthful
  /\ SuccessMeansAccess
  /\ EntitlementRecorded

\* A job's new report is truthful.
LEMMA SendReportTruthful ==
  ASSUME TypeOK, ReportsTruthful, NEW j \in jobs, NEW is_fulfilled \in BOOLEAN,
         access \subseteq access', is_fulfilled => j.item \in access',
         reports' \subseteq reports \cup {NewReport(j, is_fulfilled)}
  PROVE  ReportsTruthful'
<1> DEFINE new == NewReport(j, is_fulfilled)
<1>1. /\ new.item = j.item /\ new.to = OutcomeState(is_fulfilled)
      /\ new.uuid = CarriesUuid(j, is_fulfilled)
  BY DEF NewReport
<1>2. new.to = "Success" => is_fulfilled
  BY <1>1 DEF OutcomeState
<1>3. new.to = "Success" /\ new.item \in Bundles => new.uuid
  BY <1>1, <1>2 DEF CarriesUuid
<1> HIDE DEF new
<1> QED
  BY <1>1, <1>2, <1>3 DEF ReportsTruthful, new

LEMMA JobStepAccess ==
  ASSUME AccessInv, NEW j \in jobs, NEW is_fulfilled \in BOOLEAN, NEW more \in BOOLEAN,
         \/ LmsGrants(j) \/ LmsRefuses(j) \/ LmsTaskFails(j)
         \/ on_failure(j) \/ send_fulfillment_error_email(j)
         \/ OrderFulfillmentCompletionStatusWebhookView(j, is_fulfilled, more)
  PROVE  ReportsTruthful' /\ SuccessMeansAccess' /\ EntitlementRecorded'
<1>1. access \subseteq access' /\ UNCHANGED <<state, entitlement>>
  BY DEF LmsGrants, LmsRefuses, LmsTaskFails, on_failure, send_fulfillment_error_email,
         OrderFulfillmentCompletionStatusWebhookView, order
<1>2. SuccessMeansAccess' /\ EntitlementRecorded'
  BY <1>1 DEF AccessInv, SuccessMeansAccess, EntitlementRecorded
<1>3. CASE LmsGrants(j)
  <2>1. j.item \in access' /\ reports' \subseteq reports \cup {NewReport(j, TRUE)}
    BY <1>3 DEF LmsGrants, SendReport
  <2>2. ReportsTruthful'
    BY <1>1, <2>1, SendReportTruthful DEF AccessInv
  <2> QED
    BY <1>2, <2>2
<1>4. CASE LmsRefuses(j)
  <2>1. reports' \subseteq reports \cup {NewReport(j, FALSE)}
    BY <1>4 DEF LmsRefuses, SendReport
  <2>2. ReportsTruthful'
    BY <1>1, <2>1, SendReportTruthful DEF AccessInv
  <2> QED
    BY <1>2, <2>2
<1>5. CASE OrderFulfillmentCompletionStatusWebhookView(j, is_fulfilled, more)
  <2>1. /\ is_fulfilled => j.item \in access'
        /\ reports' \subseteq reports \cup {NewReport(j, is_fulfilled)}
    BY <1>5 DEF OrderFulfillmentCompletionStatusWebhookView, SendReport
  <2>2. ReportsTruthful'
    BY <1>1, <2>1, SendReportTruthful DEF AccessInv
  <2> QED
    BY <1>2, <2>2
<1>6. CASE UNCHANGED <<reports, access>>
  BY <1>2, <1>6 DEF AccessInv, ReportsTruthful
<1> QED
  BY <1>3, <1>4, <1>5, <1>6
     DEF LmsTaskFails, on_failure, send_fulfillment_error_email

LEMMA ReportStepAccess ==
  ASSUME AccessInv, NEW r \in reports,
         ReportStep(r) \/ RequeueReport(r) \/ ReportFails(r) \/ ReportCrash(r)
  PROVE  ReportsTruthful' /\ SuccessMeansAccess' /\ EntitlementRecorded'
<1>0. TypeOK /\ r \in Reports /\ r.item \in Items
  BY DEF AccessInv, TypeOK, Reports
<1>1. UNCHANGED access
  BY DEF ReportStep, acquire_task_lock, ReportRead, update_line_item_on_fulfillment,
         RequeueReport, ReportFails, ReportCrash
<1>2. ReportsTruthful'
  BY <1>0, <1>1, ReportStepNews DEF ReportsTruthful, SameNews, AccessInv
<1>3. CASE UNCHANGED order
  BY <1>1, <1>2, <1>3 DEF order, AccessInv, SuccessMeansAccess, EntitlementRecorded
<1>4. CASE /\ entitlement' = IF r.uuid THEN entitlement \cup {r.item} ELSE entitlement
           /\ Move({r.item}, IF NeedsTransition(r) THEN r.to ELSE state[r.item])
  <2>1. entitlement \subseteq entitlement'
    BY <1>4
  <2>2. ASSUME NEW i \in Items, state'[i] = "Success"
        PROVE  state[i] = "Success" \/ (i = r.item /\ r.to = "Success")
    BY <1>4, <2>2 DEF Move
  <2>3. SuccessMeansAccess'
    BY <1>1, <2>2 DEF SuccessMeansAccess, ReportsTruthful, AccessInv
  <2>4. r.uuid => r.item \in entitlement'
    BY <1>4
  <2>5. EntitlementRecorded'
    BY <2>1, <2>2, <2>4, FulfillmentAssumption
       DEF EntitlementRecorded, ReportsTruthful, AccessInv
  <2> QED
    BY <1>2, <2>3, <2>5
<1> QED
  BY <1>3, <1>4
     DEF ReportStep, acquire_task_lock, ReportRead, update_line_item_on_fulfillment,
         RequeueReport, ReportFails, ReportCrash

LEMMA PlacedStepAccess ==
  ASSUME AccessInv, NEW t \in placed, PlacedStep(t) \/ PlacedFails(t)
  PROVE  ReportsTruthful' /\ SuccessMeansAccess' /\ EntitlementRecorded'
<1>1. UNCHANGED <<access, reports, entitlement>>
  BY DEF PlacedStep, PlacedRead, update_line_items_transition_state, PlacedDispatch,
         PlacedConfirm, send_order_confirmation_email, PlacedFails, order
<1>2. \A i \in Items : state'[i] = "Success" => state[i] = "Success"
  BY DEF PlacedStep, PlacedRead, update_line_items_transition_state, PlacedDispatch,
         PlacedConfirm, send_order_confirmation_email, PlacedFails, order, Move
<1> QED
  BY <1>1, <1>2, FulfillmentAssumption
     DEF AccessInv, ReportsTruthful, SuccessMeansAccess, EntitlementRecorded

LEMMA OtherStepAccess ==
  ASSUME AccessInv,
         \/ \E s \in messages, forward \in BOOLEAN : OrderFulfillView(s, forward)
         \/ \E i \in Items : ResetItem(i)
         \/ ExpireViewLock \/ ExpireTaskLock \/ ForeignUpdate
         \/ UNCHANGED vars
  PROVE  ReportsTruthful' /\ SuccessMeansAccess' /\ EntitlementRecorded'
<1>1. UNCHANGED <<access, reports, entitlement>>
  BY DEF OrderFulfillView, ResetItem, ExpireViewLock, ExpireTaskLock, ForeignUpdate, order,
         vars
<1>2. \A i \in Items : state'[i] = "Success" => state[i] = "Success"
  BY DEF OrderFulfillView, ResetItem, ExpireViewLock, ExpireTaskLock, ForeignUpdate, order,
         vars, Move
<1> QED
  BY <1>1, <1>2, FulfillmentAssumption
     DEF AccessInv, ReportsTruthful, SuccessMeansAccess, EntitlementRecorded

LEMMA AccessInductive == AccessInv /\ [Next]_vars => AccessInv'
<1> SUFFICES ASSUME AccessInv, [Next]_vars PROVE AccessInv'
  OBVIOUS
<1>1. TypeOK'
  BY NextTypeOK DEF AccessInv
<1>2. ReportsTruthful' /\ SuccessMeansAccess' /\ EntitlementRecorded'
  BY PlacedStepAccess, JobStepAccess, ReportStepAccess, OtherStepAccess DEF Next, JobStep
<1> QED
  BY <1>1, <1>2 DEF AccessInv

LEMMA AccessInvariant == Spec => []AccessInv
<1>1. Init => AccessInv
  BY InitTypeOK, FulfillmentAssumption
     DEF Init, AccessInv, ReportsTruthful, SuccessMeansAccess, EntitlementRecorded
<1> QED
  BY <1>1, AccessInductive, PTL DEF Spec

\* An order never says that an item was fulfilled which the learner has no access
\* to, whatever is retried, repeated, reordered or reported late.
THEOREM FulfilledMeansAccess == Spec => []SuccessMeansAccess
<1>1. AccessInv => SuccessMeansAccess
  BY DEF AccessInv
<1> QED
  BY <1>1, AccessInvariant, PTL

\* A program item that is marked as fulfilled carries its entitlement's uuid.
THEOREM FulfilledMeansRevocable == Spec => []EntitlementRecorded
<1>1. AccessInv => EntitlementRecorded
  BY DEF AccessInv
<1> QED
  BY <1>1, AccessInvariant, PTL

-----------------------------------------------------------------------------
(* Fulfilment implements the line-item lifecycle. *)

\* What the abstract specification sees of the items.
Seen == [i \in Items |-> Status(state[i])]

LEMMA JobStepLifecycle ==
  ASSUME AccessInv, NEW j \in jobs, NEW is_fulfilled \in BOOLEAN, NEW more \in BOOLEAN,
         \/ LmsGrants(j) \/ LmsRefuses(j) \/ LmsTaskFails(j)
         \/ on_failure(j) \/ send_fulfillment_error_email(j)
         \/ OrderFulfillmentCompletionStatusWebhookView(j, is_fulfilled, more)
  PROVE  Lifecycle!Next \/ UNCHANGED <<access, Seen>>
<1>1. j.item \in Items
  BY DEF AccessInv, TypeOK, Jobs
<1>2. UNCHANGED Seen
  BY DEF LmsGrants, LmsRefuses, LmsTaskFails, on_failure, send_fulfillment_error_email,
         OrderFulfillmentCompletionStatusWebhookView, order, Seen
<1>3. access' = access \cup {j.item} \/ access' = access
  BY DEF LmsGrants, LmsRefuses, LmsTaskFails, on_failure, send_fulfillment_error_email,
         OrderFulfillmentCompletionStatusWebhookView
<1>4. CASE access' = access \cup {j.item}
  BY <1>1, <1>2, <1>4 DEF Lifecycle!Next, Lifecycle!GiveAccess, Seen
<1> QED
  BY <1>2, <1>3, <1>4

\* The state machine in Commercetools lets an item be processed only once it is
\* pending, and settles it once only.
LEMMA TransitionFacts ==
  /\ \A s \in LineItemState : "Processing" \in Transitions[s] => s = "Pending"
  /\ \A s \in LineItemState : "Failure" \in Transitions[s] => s = "Processing"
  /\ \A s \in LineItemState : "Success" \in Transitions[s] => s \in {"Processing", "Failure"}
BY DEF Transitions, LineItemState

LEMMA ReportStepLifecycle ==
  ASSUME AccessInv, NEW r \in reports,
         ReportStep(r) \/ RequeueReport(r) \/ ReportFails(r) \/ ReportCrash(r)
  PROVE  Lifecycle!Next \/ UNCHANGED <<access, Seen>>
<1>0. TypeOK /\ r \in Reports
  BY DEF AccessInv, TypeOK
<1>1. /\ r.item \in Items /\ r.to \in {"Success", "Failure"} /\ r.from \in LineItemState
      /\ state \in [Items -> LineItemState]
  BY <1>0 DEF TypeOK, OrderTypeOK, Reports
<1>2. UNCHANGED access
  BY DEF ReportStep, acquire_task_lock, ReportRead, update_line_item_on_fulfillment,
         RequeueReport, ReportFails, ReportCrash
<1>3. CASE UNCHANGED state
  BY <1>2, <1>3 DEF Seen
<1>4. CASE ~NeedsTransition(r) /\ Move({r.item}, state[r.item])
  <2>1. state' = state
    BY <1>1, <1>4 DEF Move
  <2> QED
    BY <1>2, <2>1 DEF Seen
<1>5. CASE /\ NeedsTransition(r)
           /\ Accepts(r.ver, {r.item}, r.from, r.to)
           /\ Move({r.item}, r.to)
  <2>1. /\ state[r.item] = r.from
        /\ r.to \in Transitions[r.from]
        /\ state' = [state EXCEPT ![r.item] = r.to]
    BY <1>1, <1>5 DEF Accepts, Move
  <2>2. Seen' = [Seen EXCEPT ![r.item] = Status(r.to)]
    BY <1>1, <2>1 DEF Seen
  <2>3. CASE r.to = "Success"
    <3>1. Seen[r.item] \in {"open", "refused"}
      BY <1>1, <2>1, <2>3, TransitionFacts DEF Seen, Status
    <3>2. r.item \in access
      BY <2>3 DEF AccessInv, ReportsTruthful
    <3> QED
      BY <1>1, <1>2, <2>2, <2>3, <3>1, <3>2
         DEF Lifecycle!Next, Lifecycle!Grant, Seen, Status
  <2>4. CASE r.to = "Failure"
    <3>1. Seen[r.item] = "open"
      BY <1>1, <2>1, <2>4, TransitionFacts DEF Seen, Status
    <3> QED
      BY <1>1, <1>2, <2>2, <2>4, <3>1
         DEF Lifecycle!Next, Lifecycle!Refuse, Seen, Status
  <2> QED
    BY <1>1, <2>3, <2>4
<1> QED
  BY <1>3, <1>4, <1>5
     DEF ReportStep, acquire_task_lock, ReportRead, update_line_item_on_fulfillment,
         RequeueReport, ReportFails, ReportCrash, order

LEMMA PlacedStepLifecycle ==
  ASSUME AccessInv, NEW t \in placed, PlacedStep(t) \/ PlacedFails(t)
  PROVE  UNCHANGED <<access, Seen>>
<1>0. t.from \in LineItemState /\ state \in [Items -> LineItemState]
  BY DEF AccessInv, TypeOK, PlacedTypeOK, PlacedTasks, OrderTypeOK
<1>1. UNCHANGED access
  BY DEF PlacedStep, PlacedRead, update_line_items_transition_state, PlacedDispatch,
         PlacedConfirm, send_order_confirmation_email, PlacedFails
<1>2. CASE UNCHANGED state
  BY <1>1, <1>2 DEF Seen
<1>3. CASE /\ Accepts(t.ver, Items, t.from, "Processing")
           /\ Move(Items, "Processing")
  <2>1. \A i \in Items : state[i] = "Pending" /\ state'[i] = "Processing"
    BY <1>0, <1>3, TransitionFacts DEF Accepts, Move
  <2>2. Seen' = Seen
    BY <2>1 DEF Seen, Status
  <2> QED
    BY <1>1, <2>2
<1> QED
  BY <1>2, <1>3
     DEF PlacedStep, PlacedRead, update_line_items_transition_state, PlacedDispatch,
         PlacedConfirm, send_order_confirmation_email, PlacedFails, order

LEMMA OtherStepLifecycle ==
  ASSUME AccessInv,
         \/ \E s \in messages, forward \in BOOLEAN : OrderFulfillView(s, forward)
         \/ \E i \in Items : ResetItem(i)
         \/ ExpireViewLock \/ ExpireTaskLock \/ ForeignUpdate
         \/ UNCHANGED vars
  PROVE  Lifecycle!Next \/ UNCHANGED <<access, Seen>>
<1>1. CASE UNCHANGED <<access, state>>
  BY <1>1 DEF Seen
<1>2. ASSUME NEW i \in Items, ResetItem(i)
      PROVE  Lifecycle!Next
  <2>1. /\ state \in [Items -> LineItemState] /\ state[i] = "Failure"
        /\ state' = [state EXCEPT ![i] = "Pending"] /\ UNCHANGED access
    BY <1>2 DEF ResetItem, Move, AccessInv, TypeOK, OrderTypeOK
  <2>2. Status("Failure") = "refused" /\ Status("Pending") = "open"
    BY DEF Status
  <2>3. Seen[i] = "refused"
    BY <2>1, <2>2 DEF Seen
  <2>4. Seen' = [Seen EXCEPT ![i] = "open"]
    BY <2>1, <2>2 DEF Seen
  <2> QED
    BY <2>1, <2>3, <2>4 DEF Lifecycle!Next, Lifecycle!Reopen, Seen
<1> QED
  BY <1>1, <1>2
     DEF OrderFulfillView, ExpireViewLock, ExpireTaskLock, ForeignUpdate, order, vars

\* The order's line items follow the abstract lifecycle: granted only with access,
\* never taken back, reopened only by an operator.
THEOREM LifecycleImplemented == Spec => ImplementsLifecycle
<1>1. Init => Lifecycle!Init
  BY DEF Init, Lifecycle!Init, Status
<1>2. AccessInv /\ [Next]_vars => [Lifecycle!Next]_<<access, Seen>>
  BY PlacedStepLifecycle, JobStepLifecycle, ReportStepLifecycle, OtherStepLifecycle
     DEF Next, JobStep
<1> QED
  BY <1>1, <1>2, AccessInvariant, PTL DEF Spec, ImplementsLifecycle, Lifecycle!Spec, Seen

-----------------------------------------------------------------------------
(* No item that is being processed is lost silently. *)

\* A report that will do something about an item in Processing.
Useful(r) == r.pc = "update" => NeedsTransition(r)

Handled(i) ==
  \/ i \in dropped
  \/ \E t \in placed : Owes(t, i)
  \/ \E j \in jobs : j.item = i /\ j.pc = "attempt"
  \/ \E r \in reports : r.item = i /\ Useful(r)

LossInv == TypeOK /\ \A i \in Items : state[i] = "Processing" => Handled(i)

\* A placed task that raises still owes what it owed, or gives it up.
LEMMA PlacedRaiseOwes ==
  ASSUME TypeOK, NEW t \in placed, NEW pos \in 1..(N + 1),
         PlacedRaise(t, pos) \/ PlacedGiveUp(t, pos)
  PROVE  /\ dropped \subseteq dropped'
         /\ placed \ {t} \subseteq placed'
         /\ \A i \in Items : pos <= i => i \in dropped' \/ \E u \in placed' : Owes(u, i)
<1>1. CASE PlacedGiveUp(t, pos)
  <2>1. \A i \in Items : pos <= i => i \in pos..N
    BY FulfillmentAssumption DEF Items
  <2> QED
    BY <1>1, <2>1 DEF PlacedGiveUp
<1> DEFINE u == [PlacedTask(t.id, t.from, t.forward)
                   EXCEPT !.pos = pos, !.tries = t.tries + 1]
<1>2. u.pos = pos
  BY DEF PlacedTask
<1> HIDE DEF u
<1>3. CASE placed' = Replace(placed, t, u) /\ UNCHANGED dropped
  BY <1>2, <1>3 DEF Replace, Owes
<1> QED
  BY <1>1, <1>3 DEF PlacedRaise, u

LEMMA PlacedStepLoss ==
  ASSUME LossInv, NEW t \in placed, PlacedStep(t) \/ PlacedFails(t),
         NEW i \in Items, state'[i] = "Processing"
  PROVE  Handled(i)'
<1>0. TypeOK /\ t \in PlacedTasks /\ t.pos \in 1..(N + 1) /\ i \in Nat /\ N \in Nat
  BY FulfillmentAssumption DEF LossInv, TypeOK, PlacedTypeOK, PlacedTasks, Items
<1>1. state[i] = "Processing" => Handled(i)
  BY DEF LossInv
<1>2. UNCHANGED reports
  BY DEF PlacedStep, PlacedRead, update_line_items_transition_state, PlacedDispatch,
         PlacedConfirm, send_order_confirmation_email, PlacedFails
<1>3. ASSUME dropped \subseteq dropped', placed \ {t} \subseteq placed', jobs \subseteq jobs',
             Owes(t, i) => i \in dropped' \/ \E u \in placed' : Owes(u, i),
             state[i] = "Processing"
      PROVE  Handled(i)'
  BY <1>1, <1>2, <1>3 DEF Handled, Useful, NeedsTransition, Owes
<1>4. CASE PlacedRead(t)
  <2> DEFINE u == [t EXCEPT !.pc = "transition", !.ver = version]
  <2>1. u.pos = t.pos
    BY <1>0 DEF PlacedTasks
  <2> HIDE DEF u
  <2> QED
    BY <1>3, <1>4, <2>1 DEF PlacedRead, Replace, Owes, order, u
<1>5. CASE update_line_items_transition_state(t)
  <2> DEFINE next == [t EXCEPT !.pc = "dispatch", !.ver = 0, !.pos = 1]
  <2>1. next.pos = 1
    BY <1>0 DEF PlacedTasks
  <2> HIDE DEF next
  <2>2. CASE placed' = Replace(placed, t, next)
    BY <1>0, <2>1, <2>2 DEF Replace, Handled, Owes, Items
  <2>3. CASE PlacedRaise(t, 1)
    <3>1. 1 \in 1..(N + 1) /\ 1 <= i
      BY <1>0 DEF Items
    <3> QED
      BY <1>0, <2>3, <3>1, PlacedRaiseOwes DEF Handled
  <2>4. CASE PlacedRaise(t, t.pos) /\ UNCHANGED order
    BY <1>0, <1>3, <1>5, <2>4, PlacedRaiseOwes
       DEF update_line_items_transition_state, Owes, order
  <2> QED
    BY <1>5, <2>2, <2>3, <2>4
       DEF update_line_items_transition_state, TransitionRejected, next
<1>6. CASE PlacedDispatch(t)
  <2> DEFINE u == [t EXCEPT !.pos = t.pos + 1, !.pc = NextInLoop(t.pos)]
             job == NewJob(t.pos, IF t.forward THEN "of" ELSE "lms")
  <2>1. u.pos = t.pos + 1 /\ job.item = t.pos /\ job.pc = "attempt"
    BY <1>0 DEF PlacedTasks, NewJob
  <2> HIDE DEF u
  <2>2. state[i] = "Processing" /\ u \in placed' /\ placed \ {t} \subseteq placed'
    BY <1>6 DEF PlacedDispatch, Replace, order, u
  <2>3. dropped \subseteq dropped' /\ jobs \subseteq jobs'
        /\ (t.pos \in dropped' \/ job \in jobs')
    BY <1>6 DEF PlacedDispatch
  <2> HIDE DEF job
  <2>4. CASE i = t.pos
    BY <2>1, <2>3, <2>4 DEF Handled
  <2>5. CASE i # t.pos
    <3>1. t.pos \in Nat /\ (t.pos <= i => t.pos + 1 <= i)
      BY <1>0, <2>5
    <3> QED
      BY <1>3, <2>1, <2>2, <2>3, <3>1 DEF Owes
  <2> QED
    BY <2>4, <2>5
<1>7. CASE PlacedConfirm(t)
  <2> DEFINE u == [t EXCEPT !.pc = "send"]
  <2>1. u.pos = t.pos /\ t.pos = N + 1 /\ ~(N + 1 <= i)
    BY <1>0, <1>7 DEF PlacedConfirm, TypeOK, PlacedTypeOK, PlacedTasks, Items
  <2> HIDE DEF u
  <2> QED
    BY <1>3, <1>7, <2>1 DEF PlacedConfirm, Replace, Owes, order, u
<1>8. CASE send_order_confirmation_email(t)
  <2>1. t.pos = N + 1 /\ ~(N + 1 <= i)
    BY <1>0, <1>8 DEF send_order_confirmation_email, TypeOK, PlacedTypeOK, Items
  <2> QED
    BY <1>3, <1>8, <2>1 DEF send_order_confirmation_email, Owes, order
<1>9. CASE PlacedFails(t)
  BY <1>0, <1>3, <1>9, PlacedRaiseOwes DEF PlacedFails, Owes, order
<1> QED
  BY <1>4, <1>5, <1>6, <1>7, <1>8, <1>9 DEF PlacedStep

LEMMA JobStepLoss ==
  ASSUME LossInv, NEW j \in jobs, NEW is_fulfilled \in BOOLEAN, NEW more \in BOOLEAN,
         \/ LmsGrants(j) \/ LmsRefuses(j) \/ LmsTaskFails(j)
         \/ on_failure(j) \/ send_fulfillment_error_email(j)
         \/ OrderFulfillmentCompletionStatusWebhookView(j, is_fulfilled, more),
         NEW i \in Items, state'[i] = "Processing"
  PROVE  Handled(i)'
<1>0. TypeOK /\ j \in Jobs
  BY DEF LossInv, TypeOK
<1>1. UNCHANGED <<state, placed>>
  BY DEF LmsGrants, LmsRefuses, LmsTaskFails, on_failure, send_fulfillment_error_email,
         OrderFulfillmentCompletionStatusWebhookView, order
<1>2. Handled(i)
  BY <1>1 DEF LossInv
<1>3. ASSUME dropped \subseteq dropped', jobs \ {j} \subseteq jobs', reports \subseteq reports',
             j.pc = "attempt" => Handled(j.item)'
      PROVE  Handled(i)'
  BY <1>1, <1>2, <1>3 DEF Handled, Useful, NeedsTransition, Owes
<1>4. ASSUME NEW f \in BOOLEAN, NEW last, SendReport(j, f, last)
      PROVE  /\ dropped \subseteq dropped' /\ reports \subseteq reports'
             /\ last => Handled(j.item)'
  <2>1. NewReport(j, f).pc = "queued" /\ NewReport(j, f).item = j.item
    BY DEF NewReport
  <2>2. Useful(NewReport(j, f))
    BY <2>1 DEF Useful
  <2> QED
    BY <1>4, <2>1, <2>2 DEF SendReport, Handled, Useful, NeedsTransition
<1>5. CASE LmsGrants(j)
  BY <1>3, <1>4, <1>5 DEF LmsGrants
<1>6. j.tries < MaxJobRetries => \E u \in Retried(j) : u.item = j.item /\ u.pc = j.pc
  BY <1>0 DEF Retried, Jobs
<1>7. CASE LmsRefuses(j)
  <2>1. CASE j.tries >= MaxJobRetries
    BY <1>3, <1>4, <1>7, <2>1 DEF LmsRefuses
  <2>2. CASE j.tries < MaxJobRetries
    BY <1>3, <1>4, <1>6, <1>7, <2>2 DEF LmsRefuses, Handled
  <2>3. j.tries \in Nat /\ MaxJobRetries \in Nat
    BY <1>0, FulfillmentAssumption DEF Jobs
  <2> QED
    BY <2>1, <2>2, <2>3
<1>8. CASE LmsTaskFails(j)
  <2>1. CASE j.item \in dropped'
    BY <1>3, <1>8, <2>1 DEF LmsTaskFails, Handled
  <2>2. CASE j.tries < MaxJobRetries /\ jobs' = (jobs \ {j}) \cup Retried(j)
             /\ UNCHANGED dropped
    BY <1>3, <1>6, <1>8, <2>2 DEF LmsTaskFails, Handled
  <2> QED
    BY <1>8, <2>1, <2>2 DEF LmsTaskFails
<1>9. CASE on_failure(j)
  BY <1>3, <1>9 DEF on_failure, Replace
<1>10. CASE send_fulfillment_error_email(j)
  BY <1>3, <1>10 DEF send_fulfillment_error_email
<1>11. CASE OrderFulfillmentCompletionStatusWebhookView(j, is_fulfilled, more)
  <2>1. CASE ~more
    BY <1>3, <1>4, <1>11, <2>1 DEF OrderFulfillmentCompletionStatusWebhookView
  <2>2. CASE more
    <3> DEFINE u == [j EXCEPT !.tries = @ + 1]
    <3>1. u.item = j.item /\ u.pc = j.pc
      BY <1>0 DEF Jobs
    <3> HIDE DEF u
    <3>2. /\ u \in jobs' /\ jobs \ {j} \subseteq jobs' /\ reports \subseteq reports'
          /\ UNCHANGED dropped
      BY <1>11, <2>2 DEF OrderFulfillmentCompletionStatusWebhookView, Replace, u
    <3> QED
      BY <1>3, <3>1, <3>2 DEF Handled
  <2> QED
    BY <2>1, <2>2
<1> QED
  BY <1>5, <1>7, <1>8, <1>9, <1>10, <1>11

LEMMA ReportStepLoss ==
  ASSUME LossInv, NEW r \in reports,
         ReportStep(r) \/ RequeueReport(r) \/ ReportFails(r) \/ ReportCrash(r),
         NEW i \in Items, state'[i] = "Processing"
  PROVE  Handled(i)'
<1>0. TypeOK /\ r \in Reports /\ state \in [Items -> LineItemState] /\ r.item \in Items
      /\ r.to \in {"Success", "Failure"}
  BY DEF LossInv, TypeOK, OrderTypeOK, Reports
<1>1. UNCHANGED <<placed, jobs>>
  BY DEF ReportStep, acquire_task_lock, ReportRead, update_line_item_on_fulfillment,
         RequeueReport, ReportFails, ReportCrash
<1>2. state[i] = "Processing" => Handled(i)
  BY DEF LossInv
<1>3. ASSUME dropped \subseteq dropped', reports \ {r} \subseteq reports',
             state[i] = "Processing",
             Useful(r) => \/ r.item # i
                          \/ r.item \in dropped'
                          \/ \E q \in reports' : q.item = r.item /\ Useful(q)
      PROVE  Handled(i)'
  BY <1>1, <1>2, <1>3 DEF Handled, Useful, NeedsTransition, Owes
<1>4. ASSUME ReportRaise(r), state[i] = "Processing"
      PROVE  Handled(i)'
  <2> DEFINE u == [Queued(r) EXCEPT !.tries = @ + 1]
  <2>1. u.item = r.item /\ u.pc = "queued"
    BY <1>0 DEF Queued, Reports
  <2> HIDE DEF u
  <2>2. CASE reports' = Replace(reports, r, u) /\ UNCHANGED dropped
    BY <1>3, <1>4, <2>1, <2>2 DEF Replace, Useful
  <2>3. CASE ReportGone(r)
    BY <1>3, <1>4, <2>3 DEF ReportGone
  <2> QED
    BY <1>4, <2>2, <2>3 DEF ReportRaise, u
<1>5. CASE acquire_task_lock(r)
  <2> DEFINE u == [r EXCEPT !.pc = "read"]
  <2>1. u.item = r.item /\ u.pc = "read"
    BY <1>0 DEF Reports
  <2> HIDE DEF u
  <2> QED
    BY <1>3, <1>5, <2>1 DEF acquire_task_lock, Replace, Useful, order, u
<1>6. CASE RequeueReport(r)
  <2> DEFINE u == [r EXCEPT !.tries = 0]
  <2>1. u.item = r.item /\ u.pc = r.pc
    BY <1>0 DEF Reports
  <2> HIDE DEF u
  <2> QED
    BY <1>3, <1>6, <2>1 DEF RequeueReport, Replace, Useful, order, u
<1>7. CASE ReportRead(r)
  <2> DEFINE u == [r EXCEPT !.pc = "update", !.ver = version, !.from = state[r.item]]
  <2>1. u.item = r.item /\ u.from = state[r.item] /\ u.to = r.to
    BY <1>0 DEF Reports
  <2> HIDE DEF u
  <2>2. state[i] = "Processing" /\ UNCHANGED dropped /\ reports' = Replace(reports, r, u)
    BY <1>7 DEF ReportRead, order, u
  <2>3. r.item = i => Useful(u)
    BY <1>0, <2>1, <2>2 DEF Useful, NeedsTransition
  <2> QED
    BY <1>3, <2>1, <2>2, <2>3 DEF Replace
<1>8. CASE update_line_item_on_fulfillment(r)
  <2>1. CASE ReportRaise(r) /\ UNCHANGED order
    BY <1>4, <2>1 DEF order
  <2>2. CASE UNCHANGED order /\ ~NeedsTransition(r) /\ reports' = reports \ {r}
             /\ UNCHANGED dropped
    BY <1>3, <1>8, <2>2 DEF update_line_item_on_fulfillment, Useful, order
  <2>3. CASE /\ ~NeedsTransition(r) /\ Move({r.item}, state[r.item])
             /\ (reports' = reports \ {r} /\ UNCHANGED dropped) \/ ReportRaise(r)
    <3>1. state[i] = "Processing"
      BY <1>0, <2>3 DEF Move
    <3> QED
      BY <1>3, <1>4, <1>8, <2>3, <3>1 DEF update_line_item_on_fulfillment, Useful
  <2>4. CASE /\ NeedsTransition(r) /\ Move({r.item}, r.to)
             /\ (reports' = reports \ {r} /\ UNCHANGED dropped) \/ ReportRaise(r)
    <3>1. i # r.item /\ state[i] = "Processing"
      BY <1>0, <2>4 DEF Move
    <3>2. CASE ReportRaise(r)
      BY <1>4, <3>1, <3>2
    <3>3. CASE reports' = reports \ {r} /\ UNCHANGED dropped
      <4>1. dropped \subseteq dropped' /\ reports \ {r} \subseteq reports' /\ r.item # i
        BY <3>1, <3>3
      <4> QED
        BY <1>3, <3>1, <4>1
    <3> QED
      BY <2>4, <3>2, <3>3
  <2> QED
    BY <1>8, <2>1, <2>2, <2>3, <2>4 DEF update_line_item_on_fulfillment
<1>9. CASE ReportFails(r)
  BY <1>4, <1>9 DEF ReportFails, order
<1>10. CASE ReportCrash(r)
  BY <1>3, <1>10 DEF ReportCrash, ReportGone, order
<1> QED
  BY <1>5, <1>6, <1>7, <1>8, <1>9, <1>10 DEF ReportStep

LEMMA OtherStepLoss ==
  ASSUME LossInv,
         \/ \E s \in messages, forward \in BOOLEAN : OrderFulfillView(s, forward)
         \/ \E i \in Items : ResetItem(i)
         \/ ExpireViewLock \/ ExpireTaskLock \/ ForeignUpdate
         \/ UNCHANGED vars,
         NEW i \in Items, state'[i] = "Processing"
  PROVE  Handled(i)'
<1>1. state[i] = "Processing"
  BY DEF OrderFulfillView, ResetItem, ExpireViewLock, ExpireTaskLock, ForeignUpdate, order,
         vars, Move
<1>2. placed \subseteq placed' /\ UNCHANGED <<jobs, reports, dropped>>
  BY DEF OrderFulfillView, ResetItem, ExpireViewLock, ExpireTaskLock, ForeignUpdate, vars
<1> QED
  BY <1>1, <1>2 DEF LossInv, Handled, Useful, NeedsTransition, Owes

LEMMA LossInvariant == Spec => []LossInv
<1>1. Init => LossInv
  BY InitTypeOK DEF Init, LossInv
<1>2. ASSUME LossInv, [Next]_vars
      PROVE  LossInv'
  <2>1. TypeOK'
    BY <1>2, NextTypeOK DEF LossInv
  <2>2. \A i \in Items : state'[i] = "Processing" => Handled(i)'
    BY <1>2, PlacedStepLoss, JobStepLoss, ReportStepLoss, OtherStepLoss DEF Next, JobStep
  <2> QED
    BY <2>1, <2>2 DEF LossInv
<1> QED
  BY <1>1, <1>2, PTL DEF Spec

\* No lock, requeue, retry or reordering loses an item that is being processed
\* without a trace.
THEOREM NothingLostSilently == Spec => []NoSilentLoss
<1>1. LossInv => NoSilentLoss
  BY DEF LossInv, NoSilentLoss, Handled
<1> QED
  BY <1>1, LossInvariant, PTL

-----------------------------------------------------------------------------
(* No item is dispatched twice, and no order confirmed twice.  An item in
   Pending is a ticket to dispatch it.  The transition to Processing turns the
   tickets of all items into the rights of one placed task, its loop uses them
   up one by one, a failure only loses them, and an operator's reset issues a
   new one.  Counting tickets, rights and dispatches of an item gives the
   invariant. *)

\* How a set's size follows from what it may contain.
LEMMA CountFacts ==
  ASSUME NEW V, IsFiniteSet(V), NEW U, NEW a, NEW b
  PROVE  /\ Cardinality(V) \in Nat
         /\ U \subseteq V => IsFiniteSet(U) /\ Cardinality(U) <= Cardinality(V)
         /\ U \subseteq V \cup {b} => IsFiniteSet(U) /\ Cardinality(U) <= Cardinality(V) + 1
         /\ a \in V /\ U \subseteq V \ {a} =>
              IsFiniteSet(U) /\ Cardinality(U) <= Cardinality(V) - 1
         /\ a \in V /\ U \subseteq (V \ {a}) \cup {b} =>
              IsFiniteSet(U) /\ Cardinality(U) <= Cardinality(V)
<1>1. Cardinality(V) \in Nat
  BY FS_CardinalityType
<1>2. U \subseteq V => IsFiniteSet(U) /\ Cardinality(U) <= Cardinality(V)
  BY FS_Subset
<1>3. ASSUME NEW S, IsFiniteSet(S), U \subseteq S \cup {b}
      PROVE  /\ IsFiniteSet(U) /\ Cardinality(S) \in Nat
             /\ Cardinality(U) <= Cardinality(S) + 1
  <2>1. IsFiniteSet(S \cup {b}) /\ Cardinality(S) \in Nat
        /\ Cardinality(S \cup {b}) <= Cardinality(S) + 1
    <3>1. IsFiniteSet(S \cup {b}) /\ Cardinality(S) \in Nat
      BY <1>3, FS_AddElement, FS_CardinalityType
    <3>2. Cardinality(S \cup {b}) = IF b \in S THEN Cardinality(S) ELSE Cardinality(S) + 1
      BY <1>3, FS_AddElement
    <3> QED
      BY <3>1, <3>2
  <2>2. IsFiniteSet(U) /\ Cardinality(U) <= Cardinality(S \cup {b})
    BY <1>3, <2>1, FS_Subset
  <2>3. Cardinality(U) \in Nat /\ Cardinality(S \cup {b}) \in Nat
    BY <2>1, <2>2, FS_CardinalityType
  <2> QED
    BY <2>1, <2>2, <2>3
<1>4. a \in V => IsFiniteSet(V \ {a}) /\ Cardinality(V \ {a}) = Cardinality(V) - 1
  BY FS_RemoveElement
<1>5. a \in V /\ U \subseteq V \ {a} =>
        IsFiniteSet(U) /\ Cardinality(U) <= Cardinality(V) - 1
  BY <1>4, FS_Subset
<1>6. a \in V /\ U \subseteq (V \ {a}) \cup {b} =>
        IsFiniteSet(U) /\ Cardinality(U) <= Cardinality(V)
  <2>1. SUFFICES ASSUME a \in V, U \subseteq (V \ {a}) \cup {b}
                 PROVE  IsFiniteSet(U) /\ Cardinality(U) <= Cardinality(V)
    OBVIOUS
  <2>2. IsFiniteSet(U) /\ Cardinality(U) <= Cardinality(V \ {a}) + 1
    BY <1>3, <1>4, <2>1
  <2>3. Cardinality(U) \in Nat
    BY <2>2, FS_CardinalityType
  <2> QED
    BY <1>1, <1>4, <2>1, <2>2, <2>3
<1> QED
  BY <1>1, <1>2, <1>3, <1>5, <1>6

-----------------------------------------------------------------------------
\* The placed tasks with the right to dispatch item i, and those with the right to
\* send the confirmation.
Entitled(i) == {t \in placed : t.pc = "dispatch" /\ t.pos <= i}
Confirming == {t \in placed : t.pc \in {"dispatch", "confirm", "send"}}

Ticket(i) == IF state[i] = "Pending" THEN 1 ELSE 0

DispatchInv ==
  /\ TypeOK
  /\ IsFiniteSet(placed)
  /\ \A t \in placed : t.from # "Processing"
  /\ \A i \in Items : /\ dispatched[i] + Cardinality(Entitled(i)) + Ticket(i) <= 1 + resets[i]
                      /\ mails + Cardinality(Confirming) + Ticket(i) <= 1 + resets[i]

\* Types of the numbers that the invariant adds up.
LEMMA CountTypes ==
  ASSUME DispatchInv, NEW i \in Items
  PROVE  /\ IsFiniteSet(Entitled(i)) /\ IsFiniteSet(Confirming)
         /\ Cardinality(Entitled(i)) \in Nat /\ Cardinality(Confirming) \in Nat
         /\ dispatched[i] \in Nat /\ resets[i] \in Nat /\ mails \in Nat /\ Ticket(i) \in Nat
<1>1. IsFiniteSet(Entitled(i)) /\ IsFiniteSet(Confirming)
  BY FS_Subset DEF DispatchInv, Entitled, Confirming
<1> QED
  BY <1>1, FS_CardinalityType DEF DispatchInv, TypeOK, HistoryTypeOK, Ticket

\* Steps that issue no ticket and no right keep the balance.
LEMMA KeepsBalance ==
  ASSUME DispatchInv, NEW i \in Items,
         Entitled(i)' \subseteq Entitled(i), Confirming' \subseteq Confirming,
         state[i] # "Pending" => state'[i] # "Pending",
         UNCHANGED <<dispatched, mails, resets>>
  PROVE  /\ dispatched'[i] + Cardinality(Entitled(i))' + Ticket(i)' <= 1 + resets'[i]
         /\ mails' + Cardinality(Confirming)' + Ticket(i)' <= 1 + resets'[i]
<1>1. /\ Cardinality(Entitled(i)') <= Cardinality(Entitled(i))
      /\ Cardinality(Confirming') <= Cardinality(Confirming)
      /\ Cardinality(Entitled(i)') \in Nat /\ Cardinality(Confirming') \in Nat
  BY CountTypes, FS_Subset, FS_CardinalityType
<1>2. Ticket(i)' \in Nat /\ Ticket(i)' <= Ticket(i)
  BY DEF Ticket
<1> QED
  BY <1>1, <1>2, CountTypes DEF DispatchInv

\* What DispatchInv says of item i.
Balanced(i) ==
  /\ dispatched[i] + Cardinality(Entitled(i)) + Ticket(i) <= 1 + resets[i]
  /\ mails + Cardinality(Confirming) + Ticket(i) <= 1 + resets[i]

\* A placed task that raises or gives up loses its rights.
LEMMA PlacedRaiseRights ==
  ASSUME TypeOK, NEW t \in placed, NEW pos \in 1..(N + 1),
         PlacedRaise(t, pos) \/ PlacedGiveUp(t, pos), NEW i \in Items
  PROVE  Entitled(i)' \subseteq Entitled(i) /\ Confirming' \subseteq Confirming
<1> DEFINE u == [PlacedTask(t.id, t.from, t.forward)
                   EXCEPT !.pos = pos, !.tries = t.tries + 1]
<1>1. u.pc = "read"
  BY DEF PlacedTask
<1> HIDE DEF u
<1>2. CASE placed' = Replace(placed, t, u)
  BY <1>1, <1>2 DEF Replace, Entitled, Confirming
<1>3. CASE placed' = placed \ {t}
  BY <1>3 DEF Entitled, Confirming
<1> QED
  BY <1>2, <1>3 DEF PlacedRaise, PlacedGiveUp, u

\* Raising and giving up keep the placed tasks finite and their messages.
LEMMA PlacedRaiseFrom ==
  ASSUME DispatchInv, NEW t \in placed, NEW pos \in 1..(N + 1),
         PlacedRaise(t, pos) \/ PlacedGiveUp(t, pos)
  PROVE  IsFiniteSet(placed') /\ \A u \in placed' : u.from # "Processing"
<1> DEFINE u == [PlacedTask(t.id, t.from, t.forward)
                   EXCEPT !.pos = pos, !.tries = t.tries + 1]
<1>1. u.from = t.from
  BY DEF PlacedTask
<1> HIDE DEF u
<1>2. CASE placed' = Replace(placed, t, u)
  BY <1>1, <1>2, CountFacts DEF Replace, DispatchInv
<1>3. CASE placed' = placed \ {t}
  BY <1>3, FS_RemoveElement DEF DispatchInv
<1> QED
  BY <1>2, <1>3 DEF PlacedRaise, PlacedGiveUp, u

LEMMA PlacedStepBalanced ==
  ASSUME DispatchInv, NEW t \in placed, PlacedStep(t) \/ PlacedFails(t), NEW i \in Items
  PROVE  Balanced(i)'
<1>0. /\ TypeOK /\ t \in PlacedTasks /\ t.pos \in 1..(N + 1) /\ t.pos \in Nat
      /\ i \in Nat /\ N \in Nat /\ Balanced(i) /\ state \in [Items -> LineItemState]
      /\ t.from \in LineItemState /\ t.from # "Processing"
  BY FulfillmentAssumption
     DEF DispatchInv, TypeOK, OrderTypeOK, PlacedTypeOK, PlacedTasks, Items, Balanced
<1>1. CASE PlacedRead(t)
  <2> DEFINE u == [t EXCEPT !.pc = "transition", !.ver = version]
  <2>1. u.pc = "transition"
    BY <1>0 DEF PlacedTasks
  <2> HIDE DEF u
  <2>2. Entitled(i)' \subseteq Entitled(i) /\ Confirming' \subseteq Confirming
    BY <1>1, <2>1 DEF PlacedRead, Replace, Entitled, Confirming, u
  <2> QED
    BY <1>1, <2>2, KeepsBalance DEF PlacedRead, Balanced, order, mail, bounds
<1>2. CASE update_line_items_transition_state(t)
  <2> DEFINE next == [t EXCEPT !.pc = "dispatch", !.ver = 0, !.pos = 1]
  <2>0. UNCHANGED <<dispatched, mails, resets>>
    BY <1>2 DEF update_line_items_transition_state, mail
  <2>1. CASE /\ Accepts(t.ver, Items, t.from, "Processing")
             /\ Move(Items, "Processing")
             /\ placed' = Replace(placed, t, next)
    <3>1. Ticket(i) = 1 /\ Ticket(i)' = 0
      BY <1>0, <2>1, TransitionFacts DEF Accepts, Move, Ticket
    <3> HIDE DEF next
    <3>2. Entitled(i)' \subseteq Entitled(i) \cup {next}
          /\ Confirming' \subseteq Confirming \cup {next}
      BY <2>1 DEF Replace, Entitled, Confirming
    <3>3. /\ Cardinality(Entitled(i)') <= Cardinality(Entitled(i)) + 1
          /\ IsFiniteSet(Entitled(i)')
      <4> DEFINE V == Entitled(i)
                 U == Entitled(i)'
      <4>1. IsFiniteSet(V) /\ U \subseteq V \cup {next}
        BY <3>2, CountTypes
      <4> HIDE DEF V, U
      <4>2. Cardinality(U) <= Cardinality(V) + 1 /\ IsFiniteSet(U)
        BY <4>1, CountFacts
      <4> QED
        BY <4>2 DEF U, V
    <3>4. /\ Cardinality(Confirming') <= Cardinality(Confirming) + 1
          /\ IsFiniteSet(Confirming')
      BY <3>2, CountTypes, CountFacts
    <3>5. Cardinality(Entitled(i)') \in Nat /\ Cardinality(Confirming') \in Nat
      BY <3>3, <3>4, FS_CardinalityType
    <3> QED
      BY <1>0, <2>0, <3>1, <3>3, <3>4, <3>5, CountTypes DEF Balanced
  <2>2. CASE /\ state[i] # "Pending" => state'[i] # "Pending"
             /\ PlacedRaise(t, 1) \/ PlacedRaise(t, t.pos)
    <3>1. 1 \in 1..(N + 1)
      BY <1>0
    <3>2. Entitled(i)' \subseteq Entitled(i) /\ Confirming' \subseteq Confirming
      BY <1>0, <2>2, <3>1, PlacedRaiseRights
    <3> QED
      BY <2>0, <2>2, <3>2, KeepsBalance DEF Balanced
  <2>3. Move(Items, "Processing") \/ UNCHANGED order =>
          (state[i] # "Pending" => state'[i] # "Pending")
    BY DEF Move, order
  <2> QED
    BY <1>0, <1>2, <2>1, <2>2, <2>3
       DEF update_line_items_transition_state, TransitionRejected
<1>3. CASE PlacedDispatch(t)
  <2> DEFINE u == [t EXCEPT !.pos = t.pos + 1, !.pc = NextInLoop(t.pos)]
  <2>1. u.pos = t.pos + 1
    BY <1>0 DEF PlacedTasks
  <2> HIDE DEF u
  <2>2. /\ placed' = Replace(placed, t, u) /\ t.pc = "dispatch"
        /\ t.pos \in Items
        /\ UNCHANGED <<state, mails, resets>>
        /\ dispatched' = [dispatched EXCEPT ![t.pos] = @ + 1] \/ UNCHANGED dispatched
    BY <1>0, <1>3 DEF PlacedDispatch, TypeOK, PlacedTypeOK, order, mail, u
  <2>3. t \in Confirming /\ Confirming' \subseteq (Confirming \ {t}) \cup {u}
    BY <2>2 DEF Replace, Confirming
  <2>4. Cardinality(Confirming') <= Cardinality(Confirming)
        /\ Cardinality(Confirming') \in Nat
    BY <2>3, CountTypes, CountFacts, FS_CardinalityType
  <2>5. Ticket(i)' = Ticket(i)
    BY <2>2 DEF Ticket
  <2>6. mails' + Cardinality(Confirming') + Ticket(i)' <= 1 + resets'[i]
    BY <1>0, <2>2, <2>4, <2>5, CountTypes DEF Balanced
  <2>7. CASE i = t.pos
    <3>1. t \in Entitled(i) /\ Entitled(i)' \subseteq Entitled(i) \ {t}
      BY <1>0, <2>1, <2>2, <2>7 DEF Replace, Entitled
    <3>2. Cardinality(Entitled(i)') <= Cardinality(Entitled(i)) - 1
          /\ Cardinality(Entitled(i)') \in Nat
      BY <3>1, CountTypes, CountFacts, FS_CardinalityType
    <3>3. dispatched'[i] \in {dispatched[i], dispatched[i] + 1}
      BY <1>0, <2>2, <2>7 DEF TypeOK, HistoryTypeOK
    <3> QED
      BY <1>0, <2>2, <2>5, <2>6, <3>2, <3>3, CountTypes DEF Balanced
  <2>8. CASE i # t.pos
    <3>1. dispatched'[i] = dispatched[i]
      BY <1>0, <2>2, <2>8 DEF TypeOK, HistoryTypeOK
    <3>2. CASE i < t.pos
      <4>1. Entitled(i)' \subseteq Entitled(i)
        BY <1>0, <2>1, <2>2, <3>2 DEF Replace, Entitled
      <4>2. Cardinality(Entitled(i)') <= Cardinality(Entitled(i))
            /\ Cardinality(Entitled(i)') \in Nat
        BY <4>1, CountTypes, CountFacts, FS_CardinalityType
      <4> QED
        BY <1>0, <2>2, <2>5, <2>6, <3>1, <4>2, CountTypes DEF Balanced
    <3>3. CASE t.pos < i
      <4>1. t \in Entitled(i) /\ Entitled(i)' \subseteq (Entitled(i) \ {t}) \cup {u}
        BY <1>0, <2>2, <3>3 DEF Replace, Entitled
      <4>2. Cardinality(Entitled(i)') <= Cardinality(Entitled(i))
            /\ Cardinality(Entitled(i)') \in Nat
        BY <4>1, CountTypes, CountFacts, FS_CardinalityType
      <4> QED
        BY <1>0, <2>2, <2>5, <2>6, <3>1, <4>2, CountTypes DEF Balanced
    <3> QED
      BY <1>0, <2>8, <3>2, <3>3
  <2> QED
    BY <2>7, <2>8
<1>4. CASE PlacedConfirm(t)
  <2> DEFINE u == [t EXCEPT !.pc = "send"]
  <2>1. u.pc = "send"
    BY <1>0 DEF PlacedTasks
  <2> HIDE DEF u
  <2>2. /\ Entitled(i)' \subseteq Entitled(i)
        /\ t \in Confirming /\ Confirming' \subseteq (Confirming \ {t}) \cup {u}
    BY <1>4, <2>1 DEF PlacedConfirm, Replace, Entitled, Confirming, u
  <2>3. /\ Cardinality(Entitled(i)') <= Cardinality(Entitled(i))
        /\ Cardinality(Confirming') <= Cardinality(Confirming)
        /\ Cardinality(Entitled(i)') \in Nat /\ Cardinality(Confirming') \in Nat
    BY <2>2, CountTypes, CountFacts, FS_CardinalityType
  <2>4. Ticket(i)' = Ticket(i) /\ UNCHANGED <<dispatched, mails, resets>>
    BY <1>4 DEF PlacedConfirm, Ticket, order, mail, bounds
  <2> QED
    BY <1>0, <2>3, <2>4, CountTypes DEF Balanced
<1>5. CASE send_order_confirmation_email(t)
  <2>1. /\ Entitled(i)' \subseteq Entitled(i)
        /\ t \in Confirming /\ Confirming' \subseteq Confirming \ {t}
    BY <1>5 DEF send_order_confirmation_email, Entitled, Confirming
  <2>2. /\ Cardinality(Entitled(i)') <= Cardinality(Entitled(i))
        /\ Cardinality(Entitled(i)') \in Nat
    BY <2>1, CountTypes, CountFacts, FS_CardinalityType
  <2>4. /\ Cardinality(Confirming') <= Cardinality(Confirming) - 1
        /\ Cardinality(Confirming') \in Nat
    BY <2>1, CountTypes, CountFacts, FS_CardinalityType
  <2>3. Ticket(i)' = Ticket(i) /\ UNCHANGED <<dispatched, resets>> /\ mails' = mails + 1
    BY <1>5 DEF send_order_confirmation_email, Ticket, order, bounds
  <2> QED
    BY <1>0, <2>2, <2>3, <2>4, CountTypes DEF Balanced
<1>6. CASE PlacedFails(t)
  <2>1. Entitled(i)' \subseteq Entitled(i) /\ Confirming' \subseteq Confirming
    BY <1>0, <1>6, PlacedRaiseRights DEF PlacedFails
  <2> QED
    BY <1>6, <2>1, KeepsBalance DEF PlacedFails, Balanced, order, mail
<1> QED
  BY <1>1, <1>2, <1>3, <1>4, <1>5, <1>6 DEF PlacedStep

LEMMA PlacedStepFrom ==
  ASSUME DispatchInv, NEW t \in placed, PlacedStep(t) \/ PlacedFails(t)
  PROVE  IsFiniteSet(placed') /\ \A u \in placed' : u.from # "Processing"
<1>0. t \in PlacedTasks /\ t.pos \in 1..(N + 1) /\ 1 \in 1..(N + 1)
  BY FulfillmentAssumption DEF DispatchInv, TypeOK, PlacedTypeOK, PlacedTasks
<1>1. ASSUME NEW u, u.from = t.from, placed' = Replace(placed, t, u)
      PROVE  IsFiniteSet(placed') /\ \A v \in placed' : v.from # "Processing"
  BY <1>1, CountFacts DEF DispatchInv, Replace
<1>2. CASE placed' = placed \ {t}
  BY <1>2, FS_RemoveElement DEF DispatchInv
<1>3. CASE PlacedRaise(t, 1) \/ PlacedRaise(t, t.pos)
  BY <1>0, <1>3, PlacedRaiseFrom
<1>4. CASE PlacedRead(t)
  <2>1. [t EXCEPT !.pc = "transition", !.ver = version].from = t.from
    BY <1>0 DEF PlacedTasks
  <2> QED
    BY <1>1, <1>4, <2>1 DEF PlacedRead
<1>5. CASE update_line_items_transition_state(t)
  <2>1. [t EXCEPT !.pc = "dispatch", !.ver = 0, !.pos = 1].from = t.from
    BY <1>0 DEF PlacedTasks
  <2> QED
    BY <1>1, <1>3, <1>5, <2>1 DEF update_line_items_transition_state, TransitionRejected
<1>6. CASE PlacedDispatch(t)
  <2>1. [t EXCEPT !.pos = t.pos + 1, !.pc = NextInLoop(t.pos)].from = t.from
    BY <1>0 DEF PlacedTasks
  <2> QED
    BY <1>1, <1>6, <2>1 DEF PlacedDispatch
<1>7. CASE PlacedConfirm(t)
  <2>1. [t EXCEPT !.pc = "send"].from = t.from
    BY <1>0 DEF PlacedTasks
  <2> QED
    BY <1>1, <1>2, <1>7, <2>1 DEF PlacedConfirm
<1> QED
  BY <1>2, <1>3, <1>4, <1>5, <1>6, <1>7
     DEF PlacedStep, send_order_confirmation_email, PlacedFails, PlacedGiveUp

\* The other steps give no placed task a right; a reset issues a ticket and is
\* counted, and a report takes no item back to Pending.
LEMMA JobStepBalanced ==
  ASSUME DispatchInv, NEW j \in jobs, NEW is_fulfilled \in BOOLEAN, NEW more \in BOOLEAN,
         \/ LmsGrants(j) \/ LmsRefuses(j) \/ LmsTaskFails(j)
         \/ on_failure(j) \/ send_fulfillment_error_email(j)
         \/ OrderFulfillmentCompletionStatusWebhookView(j, is_fulfilled, more)
  PROVE  UNCHANGED placed /\ \A i \in Items : Balanced(i)'
<1>1. UNCHANGED <<placed, state, dispatched, mails, resets>>
  BY DEF LmsGrants, LmsRefuses, LmsTaskFails, on_failure, send_fulfillment_error_email,
         OrderFulfillmentCompletionStatusWebhookView, order, mail, bounds
<1>2. ASSUME NEW i \in Items PROVE Balanced(i)'
  <2>1. Entitled(i)' \subseteq Entitled(i) /\ Confirming' \subseteq Confirming
    BY <1>1 DEF Entitled, Confirming
  <2> QED
    BY <1>1, <2>1, KeepsBalance DEF Balanced
<1> QED
  BY <1>1, <1>2

LEMMA ReportStepBalanced ==
  ASSUME DispatchInv, NEW r \in reports,
         ReportStep(r) \/ RequeueReport(r) \/ ReportFails(r) \/ ReportCrash(r)
  PROVE  UNCHANGED placed /\ \A i \in Items : Balanced(i)'
<1>0. r.to \in {"Success", "Failure"} /\ state \in [Items -> LineItemState]
  BY DEF DispatchInv, TypeOK, OrderTypeOK, Reports
<1>1. UNCHANGED <<placed, dispatched, mails, resets>>
  BY DEF ReportStep, acquire_task_lock, ReportRead, update_line_item_on_fulfillment,
         RequeueReport, ReportFails, ReportCrash, mail, bounds
<1>2. UNCHANGED order
      \/ Move({r.item}, IF NeedsTransition(r) THEN r.to ELSE state[r.item])
  BY DEF ReportStep, acquire_task_lock, ReportRead, update_line_item_on_fulfillment,
         RequeueReport, ReportFails, ReportCrash
<1>3. \A i \in Items : state[i] # "Pending" => state'[i] # "Pending"
  BY <1>0, <1>2 DEF Move, order
<1>4. ASSUME NEW i \in Items PROVE Balanced(i)'
  <2>1. Entitled(i)' \subseteq Entitled(i) /\ Confirming' \subseteq Confirming
    BY <1>1 DEF Entitled, Confirming
  <2> QED
    BY <1>1, <1>3, <2>1, KeepsBalance DEF Balanced
<1> QED
  BY <1>1, <1>4

LEMMA ResetBalanced ==
  ASSUME DispatchInv, NEW k \in Items, ResetItem(k), NEW i \in Items
  PROVE  Balanced(i)'
<1>1. Entitled(i)' = Entitled(i) /\ Confirming' = Confirming
  BY DEF ResetItem, Entitled, Confirming
<1>2. UNCHANGED <<dispatched, mails>> /\ resets' = [resets EXCEPT ![k] = @ + 1]
      /\ resets \in [Items -> Nat]
  BY DEF ResetItem, mail, DispatchInv, TypeOK, HistoryTypeOK
<1>3. CASE i = k
  <2>1. resets'[i] = resets[i] + 1 /\ Ticket(i)' \in {0, 1} /\ Ticket(i) = 0
    BY <1>2, <1>3 DEF Ticket, ResetItem
  <2> QED
    BY <1>1, <1>2, <2>1, CountTypes DEF DispatchInv, Balanced
<1>4. CASE i # k
  <2>1. resets'[i] = resets[i] /\ Ticket(i)' = Ticket(i)
    BY <1>2, <1>4 DEF Ticket, ResetItem, Move
  <2> QED
    BY <1>1, <1>2, <2>1, CountTypes DEF DispatchInv, Balanced
<1> QED
  BY <1>3, <1>4

LEMMA ViewBalanced ==
  ASSUME DispatchInv, "Processing" \notin ForwardedStates,
         NEW s \in messages, NEW forward \in BOOLEAN, OrderFulfillView(s, forward)
  PROVE  /\ IsFiniteSet(placed') /\ \A u \in placed' : u.from # "Processing"
         /\ \A i \in Items : Balanced(i)'
<1> DEFINE u == PlacedTask(deliveries', s, forward)
<1>0. u.pc = "read" /\ u.from = s /\ s # "Processing"
  BY DEF PlacedTask, DispatchInv, TypeOK, OrderTypeOK
<1> HIDE DEF u
<1>1. placed' \in {placed, placed \cup {u}}
  BY DEF OrderFulfillView, u
<1>2. IsFiniteSet(placed')
  BY <1>1, FS_AddElement DEF DispatchInv
<1>3. \A v \in placed' : v.from # "Processing"
  BY <1>0, <1>1 DEF DispatchInv
<1>4. UNCHANGED <<state, dispatched, mails, resets>>
  BY DEF OrderFulfillView, order, mail
<1>5. ASSUME NEW i \in Items PROVE Balanced(i)'
  <2>1. Entitled(i)' \subseteq Entitled(i) /\ Confirming' \subseteq Confirming
    BY <1>0, <1>1 DEF Entitled, Confirming
  <2> QED
    BY <1>4, <2>1, KeepsBalance DEF Balanced
<1> QED
  BY <1>2, <1>3, <1>5

LEMMA OtherStepBalanced ==
  ASSUME DispatchInv, ExpireViewLock \/ ExpireTaskLock \/ ForeignUpdate \/ UNCHANGED vars
  PROVE  UNCHANGED placed /\ \A i \in Items : Balanced(i)'
<1>1. UNCHANGED <<placed, state, dispatched, mails, resets>>
  BY DEF ExpireViewLock, ExpireTaskLock, ForeignUpdate, vars, order, mail, bounds
<1>2. ASSUME NEW i \in Items PROVE Balanced(i)'
  <2>1. Entitled(i)' \subseteq Entitled(i) /\ Confirming' \subseteq Confirming
    BY <1>1 DEF Entitled, Confirming
  <2> QED
    BY <1>1, <2>1, KeepsBalance DEF Balanced
<1> QED
  BY <1>1, <1>2

LEMMA DispatchInitially == Init => DispatchInv
<1> SUFFICES ASSUME Init PROVE DispatchInv
  OBVIOUS
<1>1. TypeOK
  BY InitTypeOK
<1>2. placed = {} /\ IsFiniteSet({}) /\ Cardinality({}) = 0
  BY FS_EmptySet DEF Init
<1>3. ASSUME NEW i \in Items PROVE Balanced(i)
  <2>1. Entitled(i) = {} /\ Confirming = {} /\ Ticket(i) = 1
    BY <1>2 DEF Entitled, Confirming, Ticket, Init
  <2>2. dispatched[i] = 0 /\ mails = 0 /\ resets[i] = 0
    BY DEF Init
  <2> QED
    BY <1>2, <2>1, <2>2 DEF Balanced
<1> QED
  BY <1>1, <1>2, <1>3 DEF DispatchInv, Balanced

LEMMA DispatchInductive ==
  ASSUME "Processing" \notin ForwardedStates, DispatchInv, [Next]_vars
  PROVE  DispatchInv'
<1>1. TypeOK'
  BY NextTypeOK DEF DispatchInv
<1>2. CASE \E t \in placed : PlacedStep(t) \/ PlacedFails(t)
  BY <1>1, <1>2, PlacedStepBalanced, PlacedStepFrom DEF DispatchInv, Balanced
<1>3. CASE UNCHANGED placed /\ \A i \in Items : Balanced(i)'
  BY <1>1, <1>3 DEF DispatchInv, Balanced
<1>4. CASE \E i \in Items : ResetItem(i)
  <2>1. UNCHANGED placed
    BY <1>4 DEF ResetItem
  <2>2. \A i \in Items : Balanced(i)'
    BY <1>4, ResetBalanced
  <2> QED
    BY <1>3, <2>1, <2>2
<1>5. CASE \E s \in messages, forward \in BOOLEAN : OrderFulfillView(s, forward)
  BY <1>1, <1>5, ViewBalanced DEF DispatchInv, Balanced
<1> QED
  BY <1>2, <1>3, <1>4, <1>5, JobStepBalanced, ReportStepBalanced, OtherStepBalanced
     DEF Next, JobStep

\* When EventBridge does not forward the transitions into Processing, no duplicate
\* message, expired lock or retry hands an item to the LMS or to Order Fulfillment
\* twice, unless an operator reset it.
THEOREM AtMostOnce ==
  ASSUME "Processing" \notin ForwardedStates
  PROVE  Spec => []AtMostOneDispatch
<1>1. Init => DispatchInv
  BY DispatchInitially
<1>2. DispatchInv /\ [Next]_vars => DispatchInv'
  BY DispatchInductive
<1>3. DispatchInv => AtMostOneDispatch
  <2> SUFFICES ASSUME DispatchInv, NEW i \in Items PROVE dispatched[i] <= 1 + resets[i]
    BY DEF AtMostOneDispatch
  <2> QED
    BY CountTypes DEF DispatchInv
<1> QED
  BY <1>1, <1>2, <1>3, PTL DEF Spec

\* Under the same assumption the learner gets one confirmation of an order that no
\* operator touched.
THEOREM ConfirmedOnce ==
  ASSUME "Processing" \notin ForwardedStates
  PROVE  Spec => []OneConfirmation
<1>1. Init => DispatchInv
  BY DispatchInitially
<1>2. DispatchInv /\ [Next]_vars => DispatchInv'
  BY DispatchInductive
<1>3. DispatchInv => OneConfirmation
  <2> SUFFICES ASSUME DispatchInv, \A i \in Items : resets[i] = 0 PROVE mails <= 1
    BY DEF OneConfirmation
  <2>1. 1 \in Items
    BY FulfillmentAssumption DEF Items
  <2> QED
    BY <2>1, CountTypes DEF DispatchInv
<1> QED
  BY <1>1, <1>2, <1>3, PTL DEF Spec
=============================================================================
