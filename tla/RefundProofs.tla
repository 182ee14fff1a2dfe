---------------------------- MODULE RefundProofs ----------------------------
(***************************************************************************)
(* Theorems about Refund, for any number of items, requests, redeliveries, *)
(* retries and faults.                                                     *)
(***************************************************************************)
EXTENDS Refund, FiniteSetTheorems, SequenceTheorems, WellFoundedInduction, TLAPS

-----------------------------------------------------------------------------
(* The invariant.  It is about versions: a request that may still create a
   return, and a task that may still record a refund, has read the last version
   of the order, or of the payment, and what it read is still so. *)

\* A request may create a return of an item that has none.
RequestOK(q) ==
  /\ q.ver <= orderVersion
  /\ q.pc = "create" /\ q.ver = orderVersion => created[q.item] = 0

\* The calls of a task before the PSP has answered.
Early == {"fetch", "payment", "refund", "free"}

\* A refund that the PSP has made, and if the task's version of the payment is
\* the last one, that is not recorded.
ReturnOK(t) ==
  /\ t.items # {}
  /\ t.pver <= payVersion
  /\ t.pc \in Early => t.outcome = "none"
  /\ t.outcome \in {"fresh", "listed"} /\ t.pc = "record" => t.refund \in 1..Len(refunds)
  /\ t.outcome = "fresh" /\ t.pc = "record" /\ t.pver = payVersion
       => ~is_transaction_already_refunded(t.refund)

HookOK(h) ==
  /\ h.refund \in 1..Len(refunds)
  /\ h.ver <= payVersion
  /\ h.pc = "write" /\ h.ver = payVersion => ~is_transaction_already_refunded(h.refund)

PspRefunds == [items : SUBSET Items, amount : Nat]

PayStates == {"none", "Initial", "Refunded", "NotRefunded"}

Transactions(n) == [refund : 1..n, listed : BOOLEAN]

OrderInv ==
  /\ orderVersion \in Nat
  /\ created \in [Items -> Nat]
  /\ payState \in [Items -> PayStates]
  /\ messages \subseteq (SUBSET Items) \ {{}}
  /\ delivered \subseteq (SUBSET Items) \ {{}}
  /\ OneReturnPerItem

PspInv ==
  /\ refunds \in Seq(PspRefunds)
  /\ pspTotal \in 0..N
  /\ pspTotal > 0 => refunds # <<>>
  /\ events \subseteq 1..Len(refunds)

PaymentInv ==
  /\ payVersion \in Nat
  /\ payTotal \in Nat
  /\ transactions \in Seq(Transactions(Len(refunds)))
  /\ OneTransactionPerRefund

RequestInv == requests \subseteq Requests /\ \A q \in requests : RequestOK(q)
ReturnInv == returns \subseteq Returns /\ \A t \in returns : ReturnOK(t)
HookInv == hooks \subseteq Hooks /\ \A h \in hooks : HookOK(h)

RevokeInv ==
  /\ revokes \subseteq Revokes
  /\ \A v \in revokes : v.items # {} /\ v.left # {}
  /\ revoked \subseteq Items

HistoryInv ==
  /\ psp \in Psps
  /\ dropped \subseteq Items
  /\ unrecorded \subseteq 1..Len(refunds)
  /\ asked \in Nat /\ redeliveries \in Nat /\ faults \in Nat

RefundInv ==
  /\ OrderInv /\ PspInv /\ PaymentInv /\ RequestInv /\ ReturnInv /\ HookInv /\ RevokeInv
  /\ HistoryInv

LEMMA InvIsTyped ==
  ASSUME RefundInv
  PROVE  TypeOK
<1>1. refunds \in Seq(PspRefunds) /\ DOMAIN refunds = 1..Len(refunds)
  BY DEF RefundInv, PspInv
<1>2. transactions \in Seq([refund : DOMAIN refunds, listed : BOOLEAN])
  BY <1>1 DEF RefundInv, PaymentInv, Transactions
<1>3. /\ \A t \in returns : t.outcome \in {"fresh", "listed"} /\ t.pc = "record"
                            => t.refund \in DOMAIN refunds
      /\ \A h \in hooks : h.refund \in DOMAIN refunds
  BY <1>1 DEF RefundInv, ReturnInv, ReturnOK, HookInv, HookOK
<1>4. messages \subseteq SUBSET Items /\ delivered \subseteq SUBSET Items
  BY DEF RefundInv, OrderInv
<1> QED
  BY <1>1, <1>2, <1>3, <1>4
     DEF TypeOK, RefundInv, OrderInv, PspInv, PaymentInv, RequestInv, ReturnInv, HookInv,
         RevokeInv, HistoryInv, PspRefunds, PayStates

-----------------------------------------------------------------------------
(* Small facts. *)

\* A set of items has a first one.
LEMMA HasFirst ==
  ASSUME NEW S, S \subseteq Nat, S # {}
  PROVE  \E i \in S : \A j \in S : i <= j
<1> DEFINE R == OpToRel(<, Nat)
<1>1. \A i, j \in Nat : j < i => <<j, i>> \in R
  BY DEF OpToRel
<1>2. IsWellFoundedOn(R, Nat)
  BY NatLessThanWellFounded
<1> HIDE DEF R
<1>3. PICK i \in S : \A j \in S : ~(<<j, i>> \in R)
  BY <1>2, WFMin
<1>4. ASSUME NEW j \in S PROVE i <= j
  <2>1. i \in Nat /\ j \in Nat
    OBVIOUS
  <2>2. ~(j < i)
    BY <1>1, <1>3, <2>1
  <2> QED
    BY <2>1, <2>2
<1> QED
  BY <1>3, <1>4

LEMMA NextLineIsLeft ==
  ASSUME NEW v \in Revokes, v.left # {}
  PROVE  NextLine(v) \in v.left
<1>1. v.left \subseteq Nat
  BY RefundAssumption DEF Revokes, Items
<1>2. \E i \in v.left : \A j \in v.left : i <= j
  BY <1>1, HasFirst
<1> QED
  BY <1>2 DEF NextLine

LEMMA SizeOfItems ==
  ASSUME NEW S \in SUBSET Items
  PROVE  Cardinality(S) \in Nat
<1>1. IsFiniteSet(Items)
  <2>1. 1 \in Int /\ N \in Int
    BY RefundAssumption
  <2> QED
    BY <2>1, FS_Interval DEF Items
<1>2. IsFiniteSet(S)
  BY <1>1, FS_Subset
<1> QED
  BY <1>2, FS_CardinalityType

LEMMA FaultCounts ==
  ASSUME RefundInv, Fault \/ NoFault
  PROVE  faults' \in Nat
BY DEF RefundInv, HistoryInv, Fault, NoFault

-----------------------------------------------------------------------------
(* What a step of others leaves true of a request, a task and a webhook. *)

OrderMoves ==
  \/ UNCHANGED <<orderVersion, created>>
  \/ orderVersion' = orderVersion + 1

PaymentMoves ==
  /\ Len(refunds') \in Nat /\ Len(refunds') >= Len(refunds)
  /\ \/ UNCHANGED <<payVersion, transactions>>
     \/ payVersion' = payVersion + 1

LEMMA RequestKept ==
  ASSUME RefundInv, OrderMoves, NEW q \in requests
  PROVE  RequestOK(q)'
<1>1. orderVersion \in Nat /\ q \in Requests /\ RequestOK(q)
  BY DEF RefundInv, OrderInv, RequestInv
<1>2. q.ver \in Nat
  BY <1>1 DEF Requests
<1> QED
  BY <1>1, <1>2 DEF RequestOK, OrderMoves

LEMMA ReturnKept ==
  ASSUME RefundInv, PaymentMoves, NEW t \in returns
  PROVE  ReturnOK(t)'
<1>1. payVersion \in Nat /\ Len(refunds) \in Nat /\ t \in Returns /\ ReturnOK(t)
  BY DEF RefundInv, PaymentInv, PspInv, ReturnInv
<1>2. t.pver \in Nat /\ t.refund \in Nat
  BY <1>1 DEF Returns
<1> QED
  BY <1>1, <1>2 DEF ReturnOK, PaymentMoves, is_transaction_already_refunded

LEMMA HookKept ==
  ASSUME RefundInv, PaymentMoves, NEW h \in hooks
  PROVE  HookOK(h)'
<1>1. payVersion \in Nat /\ Len(refunds) \in Nat /\ h \in Hooks /\ HookOK(h)
  BY DEF RefundInv, PaymentInv, PspInv, HookInv
<1>2. h.ver \in Nat /\ h.refund \in Nat
  BY <1>1 DEF Hooks
<1> QED
  BY <1>1, <1>2 DEF HookOK, PaymentMoves, is_transaction_already_refunded

LEMMA RequestsKept ==
  ASSUME RefundInv, OrderMoves, requests' \subseteq requests
  PROVE  RequestInv'
BY RequestKept DEF RefundInv, RequestInv

LEMMA ReturnsKept ==
  ASSUME RefundInv, PaymentMoves, returns' \subseteq returns
  PROVE  ReturnInv'
BY ReturnKept DEF RefundInv, ReturnInv

LEMMA HooksKept ==
  ASSUME RefundInv, PaymentMoves, hooks' \subseteq hooks
  PROVE  HookInv'
BY HookKept DEF RefundInv, HookInv

\* A task of the return that goes on, or starts.
LEMMA ReturnNext ==
  ASSUME RefundInv, PaymentMoves, NEW next \in Returns, ReturnOK(next)',
         returns' \subseteq returns \cup {next}
  PROVE  ReturnInv'
BY ReturnKept DEF RefundInv, ReturnInv

LEMMA HookNext ==
  ASSUME RefundInv, PaymentMoves, NEW next \in Hooks, HookOK(next)',
         hooks' \subseteq hooks \cup {next}
  PROVE  HookInv'
BY HookKept DEF RefundInv, HookInv

LEMMA RequestNext ==
  ASSUME RefundInv, OrderMoves, NEW next \in Requests, RequestOK(next)',
         requests' \subseteq requests \cup {next}
  PROVE  RequestInv'
BY RequestKept DEF RefundInv, RequestInv

\* The payment and the PSP stay as they are.
LEMMA PaymentKept ==
  ASSUME RefundInv, UNCHANGED <<payment, atPsp>>
  PROVE  PspInv' /\ PaymentInv' /\ PaymentMoves
<1>1. PspInv'
  BY DEF RefundInv, PspInv, atPsp
<1>2. PaymentInv'
  BY DEF RefundInv, PaymentInv, OneTransactionPerRefund, payment, atPsp
<1>3. PaymentMoves
  <2>1. Len(refunds) \in Nat
    BY DEF RefundInv, PspInv
  <2> QED
    BY <2>1 DEF PaymentMoves, payment, atPsp
<1> QED
  BY <1>1, <1>2, <1>3

LEMMA OrderKept ==
  ASSUME RefundInv, UNCHANGED order
  PROVE  OrderInv' /\ OrderMoves
BY DEF RefundInv, OrderInv, OneReturnPerItem, OrderMoves, order

LEMMA RevokesKept ==
  ASSUME RefundInv, UNCHANGED <<revokes, revoked>>
  PROVE  RevokeInv'
BY DEF RefundInv, RevokeInv

-----------------------------------------------------------------------------
(* The order. *)

\* A step on the order and the requests.
LEMMA OrderParts ==
  ASSUME RefundInv, OrderInv', RequestInv',
         UNCHANGED <<psp, payment, atPsp, returns, hooks, revokes, revoked, history,
                     redeliveries>>,
         asked' \in Nat, faults' \in Nat
  PROVE  RefundInv'
<1>1. PspInv' /\ PaymentInv' /\ PaymentMoves
  BY PaymentKept
<1>2. ReturnInv' /\ HookInv' /\ RevokeInv'
  BY <1>1, ReturnsKept, HooksKept, RevokesKept
<1>3. HistoryInv'
  BY DEF RefundInv, HistoryInv, history, atPsp
<1> QED
  BY <1>1, <1>2, <1>3 DEF RefundInv

\* A ReturnInfo for items without a return.
LEMMA AddsReturnInfo ==
  ASSUME RefundInv, NEW S \in SUBSET Items, S # {}, \A i \in S : created[i] = 0,
         AddReturnInfo(S)
  PROVE  OrderInv' /\ OrderMoves
<1>1. /\ orderVersion \in Nat
      /\ created \in [Items -> Nat]
      /\ payState \in [Items -> PayStates]
      /\ messages \subseteq (SUBSET Items) \ {{}}
      /\ delivered \subseteq (SUBSET Items) \ {{}}
      /\ \A i \in Items : created[i] <= 1
  BY DEF RefundInv, OrderInv, OneReturnPerItem
<1>2. created' \in [Items -> Nat] /\ \A i \in Items : created'[i] <= 1
  BY <1>1 DEF AddReturnInfo
<1>3. payState' \in [Items -> PayStates]
  BY <1>1 DEF AddReturnInfo, PayStates
<1>4. messages' \subseteq (SUBSET Items) \ {{}} /\ delivered' \subseteq (SUBSET Items) \ {{}}
  BY <1>1 DEF AddReturnInfo
<1>5. orderVersion' \in Nat /\ OrderMoves
  BY <1>1 DEF AddReturnInfo, OrderMoves
<1> QED
  BY <1>2, <1>3, <1>4, <1>5 DEF OrderInv, OneReturnPerItem

LEMMA RefundViewStep ==
  ASSUME RefundInv, NEW i \in Items, RefundView(i)
  PROVE  RefundInv'
<1>1. OrderInv' /\ OrderMoves
  BY OrderKept DEF RefundView
<1>2. asked' \in Nat /\ faults' \in Nat /\ orderVersion' \in Nat
  BY <1>1 DEF RefundInv, HistoryInv, RefundView, OrderInv
<1>3. PICK next : next = Request(asked', i)
  OBVIOUS
<1>4. next \in Requests /\ RequestOK(next)'
  BY <1>2, <1>3 DEF Request, Requests, RequestOK
<1>5. RequestInv'
  BY <1>1, <1>3, <1>4, RequestNext DEF RefundView
<1> QED
  BY <1>1, <1>2, <1>5, OrderParts DEF RefundView

LEMMA ReadForReturnStep ==
  ASSUME RefundInv, NEW q \in requests, CreateReturnForCommercetoolsOrder(q)
  PROVE  RefundInv'
<1>1. OrderInv' /\ OrderMoves
  BY OrderKept DEF CreateReturnForCommercetoolsOrder
<1>2. asked' \in Nat /\ faults' \in Nat /\ orderVersion \in Nat /\ q \in Requests
      /\ created \in [Items -> Nat]
  BY DEF RefundInv, HistoryInv, CreateReturnForCommercetoolsOrder, bounds, OrderInv, RequestInv
<1>3. PICK next : next = [q EXCEPT !.pc = "create", !.ver = orderVersion]
  OBVIOUS
<1>4. next \in Requests
  BY <1>2, <1>3 DEF Requests
<1>5. next.pc = "create" /\ next.ver = orderVersion /\ next.item = q.item /\ q.item \in Items
  BY <1>2, <1>3 DEF Requests
<1>6. RequestInv'
  <2>1. CASE created[q.item] > 0
    BY <1>1, <2>1, RequestsKept DEF CreateReturnForCommercetoolsOrder
  <2>2. CASE ~(created[q.item] > 0)
    <3>1. created[q.item] = 0
      BY <1>2, <1>5, <2>2
    <3>2. RequestOK(next)'
      BY <1>2, <1>5, <3>1 DEF RequestOK, CreateReturnForCommercetoolsOrder, order
    <3>3. requests' \subseteq requests \cup {next}
      BY <1>3, <2>2 DEF CreateReturnForCommercetoolsOrder, Replace
    <3> QED
      BY <1>1, <1>4, <3>2, <3>3, RequestNext
  <2> QED
    BY <2>1, <2>2
<1> QED
  BY <1>1, <1>2, <1>6, OrderParts DEF CreateReturnForCommercetoolsOrder, bounds

LEMMA CreateReturnStep ==
  ASSUME RefundInv, NEW q \in requests, create_return_for_order(q)
  PROVE  RefundInv'
<1>1. q \in Requests /\ RequestOK(q) /\ q.pc = "create" /\ q.item \in Items
  BY DEF RefundInv, RequestInv, create_return_for_order, Requests
<1>2. OrderInv' /\ OrderMoves
  <2>1. CASE CurrentOrder(q.ver) /\ AddReturnInfo({q.item})
    BY <1>1, <2>1, AddsReturnInfo DEF CurrentOrder, RequestOK
  <2>2. CASE UNCHANGED order
    BY <2>2, OrderKept
  <2> QED
    BY <2>1, <2>2 DEF create_return_for_order
<1>3. RequestInv'
  BY <1>2, RequestsKept DEF create_return_for_order
<1>4. asked' \in Nat /\ faults' \in Nat
  BY DEF RefundInv, HistoryInv, create_return_for_order, bounds
<1> QED
  BY <1>2, <1>3, <1>4, OrderParts DEF create_return_for_order, bounds

LEMMA OperatorStep ==
  ASSUME RefundInv, NEW S \in SUBSET Items, OperatorReturn(S)
  PROVE  RefundInv'
<1>1. OrderInv' /\ OrderMoves
  BY AddsReturnInfo DEF OperatorReturn
<1>2. RequestInv'
  BY <1>1, RequestsKept DEF OperatorReturn
<1>3. asked' \in Nat /\ faults' \in Nat
  BY DEF RefundInv, HistoryInv, OperatorReturn
<1> QED
  BY <1>1, <1>2, <1>3, OrderParts DEF OperatorReturn

LEMMA ForeignStep ==
  ASSUME RefundInv, ForeignUpdate
  PROVE  RefundInv'
<1>1. OrderInv' /\ OrderMoves
  BY DEF RefundInv, OrderInv, OneReturnPerItem, OrderMoves, ForeignUpdate
<1>2. RequestInv'
  BY <1>1, RequestsKept DEF ForeignUpdate
<1>3. asked' \in Nat /\ faults' \in Nat
  BY FaultCounts DEF RefundInv, HistoryInv, ForeignUpdate
<1> QED
  BY <1>1, <1>2, <1>3, OrderParts DEF ForeignUpdate

-----------------------------------------------------------------------------
(* The returned task. *)

\* A step on the returned tasks: the rest of the actors stay.
LEMMA ReturnParts ==
  ASSUME RefundInv, OrderInv', OrderMoves, PspInv', PaymentInv', PaymentMoves, ReturnInv',
         RevokeInv', dropped' \subseteq Items, redeliveries' \in Nat, faults' \in Nat,
         UNCHANGED <<psp, requests, hooks, unrecorded, asked>>
  PROVE  RefundInv'
<1>1. RequestInv' /\ HookInv'
  BY RequestsKept, HooksKept
<1>2. unrecorded' \subseteq 1..Len(refunds')
  <2>1. Len(refunds) \in Nat /\ unrecorded \subseteq 1..Len(refunds)
    BY DEF RefundInv, PspInv, HistoryInv
  <2> QED
    BY <2>1 DEF PaymentMoves
<1>3. HistoryInv'
  BY <1>2 DEF RefundInv, HistoryInv
<1> QED
  BY <1>1, <1>3 DEF RefundInv

\* A step of a returned task that changes none of the rest.
LEMMA ReturnPartsKept ==
  ASSUME RefundInv, ReturnInv', dropped' \subseteq Items, faults' \in Nat,
         UNCHANGED <<psp, order, payment, atPsp, requests, hooks, revokes, revoked,
                     unrecorded, asked, redeliveries>>
  PROVE  RefundInv'
<1>1. redeliveries' \in Nat
  BY DEF RefundInv, HistoryInv
<1> QED
  BY <1>1, OrderKept, PaymentKept, RevokesKept, ReturnParts

LEMMA FreshReturn ==
  ASSUME NEW n \in Nat, NEW S \in SUBSET Items, NEW tries \in Nat, S # {}, payVersion' \in Nat
  PROVE  ReturnTask(n, S, tries) \in Returns /\ ReturnOK(ReturnTask(n, S, tries))'
BY DEF ReturnTask, Returns, ReturnOK, Early

LEMMA ReturnFacts ==
  ASSUME RefundInv, NEW t \in returns
  PROVE  /\ t \in Returns /\ ReturnOK(t) /\ t.items \in SUBSET Items /\ t.items # {}
         /\ payVersion \in Nat /\ orderVersion \in Nat /\ dropped \subseteq Items
         /\ t.pver <= payVersion /\ Len(refunds) \in Nat
BY DEF RefundInv, ReturnInv, ReturnOK, Returns, OrderInv, PaymentInv, PspInv, HistoryInv

\* A task that goes on to another call.
LEMMA GoesOn ==
  ASSUME RefundInv, PaymentMoves, NEW t \in returns, NEW next \in Returns, ReturnOK(next)',
         ReturnGoesOn(t, next)
  PROVE  ReturnInv' /\ dropped' \subseteq Items
<1>1. returns' \subseteq returns \cup {next} /\ dropped' = dropped
  BY DEF ReturnGoesOn, Replace
<1> QED
  BY <1>1, ReturnNext, ReturnFacts

\* A task that starts again, or is given up.
LEMMA ReturnOver ==
  ASSUME RefundInv, PaymentMoves, payVersion' \in Nat, NEW t \in returns,
         ReturnRetried(t) \/ ReturnDies(t)
  PROVE  ReturnInv' /\ dropped' \subseteq Items
<1>1. CASE ReturnDies(t)
  BY <1>1, ReturnFacts, ReturnsKept DEF ReturnDies
<1>2. CASE t.tries < MaxRetries /\ ReturnGoesOn(t, ReturnTask(t.id, t.items, t.tries + 1))
  <2>1. PICK next : next = ReturnTask(t.id, t.items, t.tries + 1)
    OBVIOUS
  <2>2. t.id \in Nat /\ t.tries + 1 \in Nat
    BY ReturnFacts DEF Returns
  <2>3. next \in Returns /\ ReturnOK(next)'
    BY <2>1, <2>2, ReturnFacts, FreshReturn
  <2> QED
    BY <1>2, <2>1, <2>3, GoesOn
<1> QED
  BY <1>1, <1>2 DEF ReturnRetried

\* A task at another call, where it records nothing.
LEMMA ElsewhereOK ==
  ASSUME RefundInv, PaymentMoves, payVersion' \in Nat, NEW t \in returns, NEW next \in Returns,
         next.items = t.items, next.pver <= payVersion', next.pc # "record",
         next.outcome = t.outcome, next.pc \in Early => t.pc \in Early
  PROVE  ReturnOK(next)'
BY ReturnFacts DEF ReturnOK

LEMMA DeliveryStep ==
  ASSUME RefundInv, NEW S \in messages \cup delivered, OrderReturnedView(S)
  PROVE  RefundInv'
<1>1. S \in SUBSET Items /\ S # {} /\ redeliveries \in Nat /\ dropped \subseteq Items
      /\ messages \subseteq (SUBSET Items) \ {{}} /\ delivered \subseteq (SUBSET Items) \ {{}}
  BY DEF RefundInv, OrderInv, HistoryInv
<1>2. OrderInv' /\ OrderMoves
  <2>1. messages' \subseteq messages /\ delivered' \subseteq delivered \cup {S}
    BY DEF OrderReturnedView
  <2> QED
    BY <1>1, <2>1 DEF RefundInv, OrderInv, OneReturnPerItem, OrderMoves, OrderReturnedView
<1>3. PspInv' /\ PaymentInv' /\ PaymentMoves /\ RevokeInv'
  BY PaymentKept, RevokesKept DEF OrderReturnedView
<1>4. redeliveries' \in Nat /\ payVersion' \in Nat
  BY <1>1, <1>3 DEF OrderReturnedView, PaymentInv
<1>5. PICK next : next = ReturnTask(redeliveries', S, 0)
  OBVIOUS
<1>6. next \in Returns /\ ReturnOK(next)'
  BY <1>1, <1>4, <1>5, FreshReturn
<1>7. returns' \subseteq returns \cup {next} /\ dropped' \subseteq dropped \cup S
      /\ (Fault \/ NoFault)
  BY <1>5 DEF OrderReturnedView
<1>8. ReturnInv' /\ dropped' \subseteq Items /\ faults' \in Nat
  BY <1>1, <1>3, <1>6, <1>7, ReturnNext, FaultCounts
<1> QED
  BY <1>2, <1>3, <1>4, <1>8, ReturnParts DEF OrderReturnedView

LEMMA FetchStep ==
  ASSUME RefundInv, NEW t \in returns, FetchOrderDetailsByOrderID(t)
  PROVE  RefundInv'
<1>1. PICK S : S = {i \in t.items : payState[i] # "Refunded"}
  OBVIOUS
<1>2. PICK next : next = [t EXCEPT !.pc = "payment", !.ver = orderVersion, !.due = S]
  OBVIOUS
<1>3. S \in SUBSET Items
  BY <1>1, ReturnFacts
<1>4. next \in Returns
  BY <1>2, <1>3, ReturnFacts DEF Returns
<1>5. next.items = t.items /\ next.pver = t.pver /\ next.pc = "payment" /\ next.outcome = t.outcome
  BY <1>2, <1>3, ReturnFacts DEF Returns
<1>6. PaymentMoves /\ payVersion' = payVersion /\ payVersion' \in Nat
  BY PaymentKept, ReturnFacts DEF FetchOrderDetailsByOrderID, payment
<1>7. ReturnOK(next)'
  BY <1>4, <1>5, <1>6, ElsewhereOK, ReturnFacts DEF FetchOrderDetailsByOrderID, Early
<1>8. ReturnGoesOn(t, next)
  BY <1>1, <1>2 DEF FetchOrderDetailsByOrderID
<1>9. ReturnInv' /\ dropped' \subseteq Items
  BY <1>4, <1>6, <1>7, <1>8, GoesOn
<1>10. faults' \in Nat
  BY DEF FetchOrderDetailsByOrderID, bounds, RefundInv, HistoryInv
<1> QED
  BY <1>9, <1>10, ReturnPartsKept DEF FetchOrderDetailsByOrderID, bounds

LEMMA FetchPaymentStep ==
  ASSUME RefundInv, NEW t \in returns, FetchPayment(t)
  PROVE  RefundInv'
<1>1. PICK f : f = has_full_refund_transaction
  OBVIOUS
<1>2. PICK next : next = [t EXCEPT !.pc = "refund", !.pver = payVersion, !.full = f]
  OBVIOUS
<1>3. f \in BOOLEAN
  BY <1>1 DEF has_full_refund_transaction
<1>4. next \in Returns
  BY <1>2, <1>3, ReturnFacts DEF Returns
<1>5. next.items = t.items /\ next.pver = payVersion /\ next.pc = "refund" /\ next.outcome = t.outcome
  BY <1>2, <1>3, ReturnFacts DEF Returns
<1>6. PaymentMoves /\ payVersion' = payVersion /\ payVersion' \in Nat
  BY PaymentKept, ReturnFacts DEF FetchPayment, payment
<1>7. ReturnOK(next)'
  BY <1>4, <1>5, <1>6, ElsewhereOK, ReturnFacts DEF FetchPayment, Early
<1>8. ReturnGoesOn(t, next)
  BY <1>1, <1>2 DEF FetchPayment
<1>9. ReturnInv' /\ dropped' \subseteq Items
  BY <1>4, <1>6, <1>7, <1>8, GoesOn
<1>10. faults' \in Nat
  BY DEF FetchPayment, bounds, RefundInv, HistoryInv
<1> QED
  BY <1>9, <1>10, ReturnPartsKept DEF FetchPayment, bounds

LEMMA LookStep ==
  ASSUME RefundInv, NEW t \in returns, LookAtPayment(t)
  PROVE  RefundInv'
<1>1. PICK v : v = IF transactions = <<>> THEN 0 ELSE payVersion
  OBVIOUS
<1>2. PICK next : next = [t EXCEPT !.pc = "settle", !.pver = v]
  OBVIOUS
<1>3. v \in Nat /\ v <= payVersion
  BY <1>1, ReturnFacts
<1>4. next \in Returns
  BY <1>2, <1>3, ReturnFacts DEF Returns
<1>5. next.items = t.items /\ next.pver = v /\ next.pc = "settle" /\ next.outcome = t.outcome
  BY <1>2, <1>3, ReturnFacts DEF Returns
<1>6. PaymentMoves /\ payVersion' = payVersion /\ payVersion' \in Nat
  BY PaymentKept, ReturnFacts DEF LookAtPayment, payment
<1>7. ReturnOK(next)'
  BY <1>3, <1>4, <1>5, <1>6, ElsewhereOK DEF LookAtPayment, Early
<1>8. ReturnGoesOn(t, next)
  BY <1>1, <1>2 DEF LookAtPayment
<1>9. ReturnInv' /\ dropped' \subseteq Items
  BY <1>4, <1>6, <1>7, <1>8, GoesOn
<1>10. faults' \in Nat
  BY DEF LookAtPayment, bounds, RefundInv, HistoryInv
<1> QED
  BY <1>9, <1>10, ReturnPartsKept DEF LookAtPayment, bounds

LEMMA FreeReturnStep ==
  ASSUME RefundInv, NEW t \in returns, FreeReturn(t)
  PROVE  RefundInv'
<1>1. PICK next : next = [t EXCEPT !.pc = "free", !.ver = orderVersion]
  OBVIOUS
<1>4. next \in Returns
  BY <1>1, ReturnFacts DEF Returns
<1>5. next.items = t.items /\ next.pver = t.pver /\ next.pc = "free" /\ next.outcome = t.outcome
  BY <1>1, ReturnFacts DEF Returns
<1>6. PaymentMoves /\ payVersion' = payVersion /\ payVersion' \in Nat
  BY PaymentKept, ReturnFacts DEF FreeReturn, payment
<1>7. ReturnOK(next)'
  BY <1>4, <1>5, <1>6, ElsewhereOK, ReturnFacts DEF FreeReturn, Early
<1>8. ReturnGoesOn(t, next)
  BY <1>1 DEF FreeReturn
<1>9. ReturnInv' /\ dropped' \subseteq Items
  BY <1>4, <1>6, <1>7, <1>8, GoesOn
<1>10. faults' \in Nat
  BY DEF FreeReturn, bounds, RefundInv, HistoryInv
<1> QED
  BY <1>9, <1>10, ReturnPartsKept DEF FreeReturn, bounds

LEMMA ReturnFailsStep ==
  ASSUME RefundInv, NEW t \in returns, ReturnFails(t)
  PROVE  RefundInv'
<1>1. PaymentMoves /\ payVersion' \in Nat
  BY PaymentKept, ReturnFacts DEF ReturnFails, payment
<1>2. ReturnInv' /\ dropped' \subseteq Items
  BY <1>1, ReturnOver DEF ReturnFails
<1> QED
  BY <1>2, FaultCounts, ReturnPartsKept DEF ReturnFails

-----------------------------------------------------------------------------
(* The PSP and the record of its refunds. *)

\* A new refund of the PSP is not recorded yet.
LEMMA NewRefund ==
  ASSUME RefundInv, NEW S \in SUBSET Items, NEW amount \in Nat, PspRefund(S, amount),
         UNCHANGED payment
  PROVE  /\ PspInv' /\ PaymentInv' /\ PaymentMoves
         /\ Len(refunds') = Len(refunds) + 1
         /\ ~is_transaction_already_refunded(Len(refunds) + 1)
<1>1. /\ refunds \in Seq(PspRefunds) /\ pspTotal \in 0..N /\ events \subseteq 1..Len(refunds)
      /\ Len(refunds) \in Nat /\ payVersion \in Nat /\ payTotal \in Nat /\ N \in Nat
      /\ transactions \in Seq(Transactions(Len(refunds)))
  BY RefundAssumption DEF RefundInv, PspInv, PaymentInv
<1>2. PICK r : r = [items |-> S, amount |-> amount]
  OBVIOUS
<1>3. r \in PspRefunds /\ refunds' = Append(refunds, r)
  BY <1>2 DEF PspRefunds, PspRefund
<1>4. refunds' \in Seq(PspRefunds) /\ Len(refunds') = Len(refunds) + 1 /\ refunds' # <<>>
  BY <1>1, <1>3
<1>5. pspTotal' \in 0..N
  BY <1>1 DEF PspRefund
<1>6. events' \subseteq 1..Len(refunds')
  <2>1. events' = events \cup {Len(refunds) + 1}
    BY DEF PspRefund
  <2>2. \A n \in Nat : events \subseteq 1..n => events \cup {n + 1} \subseteq 1..(n + 1)
    OBVIOUS
  <2>3. events \cup {Len(refunds) + 1} \subseteq 1..(Len(refunds) + 1)
    BY <1>1, <2>2
  <2> QED
    BY <1>4, <2>1, <2>3
<1>7. PspInv'
  BY <1>4, <1>5, <1>6 DEF PspInv
<1>8. Transactions(Len(refunds)) \subseteq Transactions(Len(refunds'))
  BY <1>1, <1>4 DEF Transactions
<1>9. transactions \in Seq(Transactions(Len(refunds')))
  BY <1>1, <1>8, SeqMonotonic
<1>10. PaymentInv'
  BY <1>1, <1>9 DEF RefundInv, PaymentInv, OneTransactionPerRefund, payment
<1>11. PaymentMoves
  BY <1>1, <1>4 DEF PaymentMoves, payment
<1>12. ~is_transaction_already_refunded(Len(refunds) + 1)
  <2>1. SUFFICES ASSUME NEW k \in DOMAIN transactions,
                        transactions[k].refund = Len(refunds) + 1
                 PROVE  FALSE
    BY DEF is_transaction_already_refunded
  <2>2. transactions[k] \in Transactions(Len(refunds))
    BY <1>1
  <2> QED
    BY <1>1, <2>1, <2>2 DEF Transactions
<1> QED
  BY <1>4, <1>7, <1>10, <1>11, <1>12

\* A transaction for a refund that has none, or for one taken from Stripe's list.
LEMMA NewTransaction ==
  ASSUME RefundInv, NEW ver, NEW r \in 1..Len(refunds), NEW listed \in BOOLEAN,
         create_return_payment_transaction(ver, r, listed),
         listed \/ ~is_transaction_already_refunded(r), UNCHANGED atPsp
  PROVE  PspInv' /\ PaymentInv' /\ PaymentMoves
<1>1. /\ refunds \in Seq(PspRefunds) /\ payVersion \in Nat /\ payTotal \in Nat
      /\ Len(refunds) \in Nat /\ transactions \in Seq(Transactions(Len(refunds)))
      /\ Len(transactions) \in Nat /\ UNCHANGED <<refunds, pspTotal, events>>
  BY DEF RefundInv, PspInv, PaymentInv, atPsp
<1>2. PICK x : x = [refund |-> r, listed |-> listed]
  OBVIOUS
<1>3. x \in Transactions(Len(refunds)) /\ x.refund = r /\ x.listed = listed
  BY <1>2 DEF Transactions
<1>4. transactions' = Append(transactions, x) /\ payVersion' = payVersion + 1
      /\ payTotal' = payTotal + refunds[r].amount
  BY <1>2 DEF create_return_payment_transaction
<1>5. transactions' \in Seq(Transactions(Len(refunds)))
      /\ Len(transactions') = Len(transactions) + 1
      /\ transactions'[Len(transactions) + 1] = x
      /\ \A k \in 1..Len(transactions) : transactions'[k] = transactions[k]
  BY <1>1, <1>3, <1>4
<1>6. payTotal' \in Nat
  <2>1. refunds[r] \in PspRefunds
    BY <1>1
  <2> QED
    BY <1>1, <1>4, <2>1 DEF PspRefunds
<1>7. OneTransactionPerRefund'
  <2>1. DOMAIN transactions' = 1..(Len(transactions) + 1) /\ DOMAIN transactions = 1..Len(transactions)
    BY <1>1, <1>5
  <2>2. SUFFICES ASSUME NEW k \in 1..(Len(transactions) + 1), NEW m \in 1..(Len(transactions) + 1),
                        transactions'[k].refund = transactions'[m].refund,
                        ~transactions'[k].listed, ~transactions'[m].listed
                 PROVE  k = m
    BY <2>1 DEF OneTransactionPerRefund
  <2>3. CASE k <= Len(transactions) /\ m <= Len(transactions)
    BY <1>1, <1>5, <2>1, <2>2, <2>3 DEF RefundInv, PaymentInv, OneTransactionPerRefund
  <2>4. CASE k = Len(transactions) + 1 /\ m <= Len(transactions)
    <3>1. ~listed /\ transactions[m].refund = r /\ m \in DOMAIN transactions
      BY <1>1, <1>3, <1>5, <2>1, <2>2, <2>4
    <3> QED
      BY <3>1 DEF is_transaction_already_refunded
  <2>5. CASE m = Len(transactions) + 1 /\ k <= Len(transactions)
    <3>1. ~listed /\ transactions[k].refund = r /\ k \in DOMAIN transactions
      BY <1>1, <1>3, <1>5, <2>1, <2>2, <2>5
    <3> QED
      BY <3>1 DEF is_transaction_already_refunded
  <2> QED
    BY <1>1, <2>3, <2>4, <2>5
<1>8. PspInv'
  BY <1>1 DEF RefundInv, PspInv
<1>9. PaymentInv'
  BY <1>1, <1>4, <1>5, <1>6, <1>7 DEF PaymentInv
<1>10. PaymentMoves
  BY <1>1, <1>4 DEF PaymentMoves
<1> QED
  BY <1>8, <1>9, <1>10

LEMMA RecordingIs ==
  ASSUME NEW t \in Returns
  PROVE  /\ Recording(t) \in Returns
         /\ Recording(t).items = t.items /\ Recording(t).pver = t.pver
         /\ Recording(t).pc = "record" /\ Recording(t).outcome = t.outcome
BY DEF Recording, Returns

\* After the PSP's answer the task goes on to record it.
LEMMA AnsweredGoesOn ==
  ASSUME RefundInv, PaymentMoves, payVersion' = payVersion, NEW t \in returns,
         NEW next \in Returns, next.items = t.items, next.pver = t.pver, next.pc = "record",
         next.outcome \in {"fresh", "listed"} => next.refund \in 1..Len(refunds'),
         next.outcome = "fresh" => ~is_transaction_already_refunded(next.refund)',
         ReturnGoesOn(t, next)
  PROVE  ReturnInv' /\ dropped' \subseteq Items
<1>1. t.items # {} /\ t.pver <= payVersion
  BY ReturnFacts
<1>2. ReturnOK(next)'
  BY <1>1 DEF ReturnOK, Early
<1> QED
  BY <1>2, GoesOn

LEMMA RefundPaymentStep ==
  ASSUME RefundInv, NEW t \in returns, RefundPayment(t)
  PROVE  RefundInv'
<1> DEFINE amount == Cardinality(t.due)
           rec == Recording(t)
<1>1. /\ t \in Returns /\ t.due \in SUBSET Items /\ amount \in Nat /\ t.pc = "refund"
      /\ t.outcome = "none" /\ payVersion \in Nat /\ Len(refunds) \in Nat
  <2>1. t \in Returns /\ ReturnOK(t) /\ t.pc = "refund" /\ payVersion \in Nat
        /\ Len(refunds) \in Nat
    BY ReturnFacts DEF RefundPayment
  <2>2. t.due \in SUBSET Items /\ t.outcome = "none"
    BY <2>1 DEF Returns, ReturnOK, Early
  <2> QED
    BY <2>1, <2>2, SizeOfItems
<1>2. /\ rec \in Returns /\ rec.items = t.items /\ rec.pver = t.pver /\ rec.pc = "record"
      /\ rec.outcome = "none"
  BY <1>1, RecordingIs
<1> HIDE DEF rec
<1>3. /\ UNCHANGED <<psp, order, payment, requests, hooks, revokes, revoked, unrecorded,
                     asked, redeliveries>>
      /\ payVersion' = payVersion /\ transactions' = transactions
      /\ Fault \/ NoFault
  BY DEF RefundPayment, payment, NoFault
<1>4. /\ OrderInv' /\ OrderMoves /\ RevokeInv' /\ faults' \in Nat /\ redeliveries' \in Nat
  BY <1>3, OrderKept, RevokesKept, FaultCounts DEF RefundInv, HistoryInv
<1>5. PspInv' /\ PaymentInv' /\ PaymentMoves /\ ReturnInv' /\ dropped' \subseteq Items
  <2>1. CASE ReturnGoesOn(t, rec) /\ UNCHANGED atPsp
    BY <1>2, <1>3, <2>1, PaymentKept, AnsweredGoesOn
  <2>2. ASSUME NEW outcome \in {"already", "error"},
               ReturnGoesOn(t, [rec EXCEPT !.outcome = outcome]),
               PspInv' /\ PaymentInv' /\ PaymentMoves
        PROVE  PspInv' /\ PaymentInv' /\ PaymentMoves /\ ReturnInv' /\ dropped' \subseteq Items
    <3>1. PICK next : next = [rec EXCEPT !.outcome = outcome]
      OBVIOUS
    <3>2. next \in Returns
      BY <1>2, <3>1 DEF Returns
    <3>3. next.items = t.items /\ next.pver = t.pver /\ next.pc = "record"
          /\ next.outcome = outcome
      BY <1>2, <3>1 DEF Returns
    <3> QED
      BY <1>3, <2>2, <3>1, <3>2, <3>3, AnsweredGoesOn
  <2>3. CASE /\ \/ ReturnGoesOn(t, [rec EXCEPT !.outcome = "already"])
                \/ ReturnGoesOn(t, [rec EXCEPT !.outcome = "error"])
             /\ UNCHANGED atPsp
    BY <1>3, <2>2, <2>3, PaymentKept
  <2>4. CASE PspRefund(t.due, amount)
             /\ ReturnGoesOn(t, [rec EXCEPT !.outcome = "fresh", !.refund = Len(refunds) + 1])
    <3>1. /\ PspInv' /\ PaymentInv' /\ PaymentMoves /\ Len(refunds') = Len(refunds) + 1
          /\ ~is_transaction_already_refunded(Len(refunds) + 1)
      BY <1>1, <1>3, <2>4, NewRefund
    <3>2. PICK r : r = Len(refunds) + 1
      OBVIOUS
    <3>3. PICK next : next = [rec EXCEPT !.outcome = "fresh", !.refund = r]
      OBVIOUS
    <3>4. r \in Nat /\ r \in 1..Len(refunds')
      BY <1>1, <3>1, <3>2
    <3>5. next \in Returns
      BY <1>2, <3>3, <3>4 DEF Returns
    <3>6. next.items = t.items /\ next.pver = t.pver /\ next.pc = "record"
          /\ next.outcome = "fresh" /\ next.refund = r
      BY <1>2, <3>3, <3>4 DEF Returns
    <3>7. ~is_transaction_already_refunded(next.refund)'
      BY <1>3, <3>1, <3>2, <3>6 DEF is_transaction_already_refunded
    <3>8. ReturnGoesOn(t, next)
      BY <2>4, <3>2, <3>3
    <3> QED
      BY <1>3, <3>1, <3>4, <3>5, <3>6, <3>7, <3>8, AnsweredGoesOn
  <2>5. CASE /\ PspRefund(t.due, amount)
             /\ ReturnGoesOn(t, [rec EXCEPT !.outcome = "error"]) \/ ReturnDies(t)
    <3>1. PspInv' /\ PaymentInv' /\ PaymentMoves
      BY <1>1, <1>3, <2>5, NewRefund
    <3> QED
      BY <1>1, <1>3, <2>2, <2>5, <3>1, ReturnOver
  <2>6. CASE ReturnGoesOn(t, Refused(rec)) /\ UNCHANGED atPsp /\ t.due # {}
    <3>1. CASE psp = "stripe" /\ pspTotal = N
      <4>1. PICK r : r = Len(refunds)
        OBVIOUS
      <4>2. PICK next : next = [rec EXCEPT !.outcome = "listed", !.refund = r]
        OBVIOUS
      <4>3. r \in Nat /\ r \in 1..Len(refunds')
        <5>1. refunds \in Seq(PspRefunds) /\ refunds # <<>>
          BY <3>1, RefundAssumption DEF RefundInv, PspInv
        <5>2. Len(refunds) >= 1 /\ Len(refunds') = Len(refunds)
          BY <2>6, <5>1, EmptySeq DEF atPsp
        <5> QED
          BY <1>1, <4>1, <5>2
      <4>4. next \in Returns
        BY <1>2, <4>2, <4>3 DEF Returns
      <4>5. next.items = t.items /\ next.pver = t.pver /\ next.pc = "record"
            /\ next.outcome = "listed" /\ next.refund = r
        BY <1>2, <4>2, <4>3 DEF Returns
      <4>6. ReturnGoesOn(t, next)
        BY <2>6, <3>1, <4>1, <4>2 DEF Refused
      <4> QED
        BY <1>3, <2>6, <4>3, <4>4, <4>5, <4>6, PaymentKept, AnsweredGoesOn
    <3>2. CASE ~(psp = "stripe" /\ pspTotal = N)
      BY <2>3, <2>6, <3>2 DEF Refused
    <3> QED
      BY <3>1, <3>2
  <2>7. amount > 0 => t.due # {}
    <3>1. Cardinality({}) = 0
      BY FS_EmptySet
    <3> QED
      BY <3>1
  <2> HIDE DEF amount
  <2>8. \/ ReturnGoesOn(t, rec) /\ UNCHANGED atPsp
        \/ ReturnGoesOn(t, [rec EXCEPT !.outcome = "already"]) /\ UNCHANGED atPsp
        \/ /\ PspRefund(t.due, amount)
           /\ \/ ReturnGoesOn(t, [rec EXCEPT !.outcome = "fresh", !.refund = Len(refunds) + 1])
              \/ ReturnGoesOn(t, [rec EXCEPT !.outcome = "error"])
              \/ ReturnDies(t)
        \/ amount > 0 /\ ReturnGoesOn(t, Refused(rec)) /\ UNCHANGED atPsp
        \/ ReturnGoesOn(t, [rec EXCEPT !.outcome = "error"]) /\ UNCHANGED atPsp
    BY DEF RefundPayment, amount, rec
  <2> QED
    BY <2>1, <2>3, <2>4, <2>5, <2>6, <2>7, <2>8
<1> QED
  BY <1>3, <1>4, <1>5, ReturnParts

LEMMA RecordTransactionStep ==
  ASSUME RefundInv, NEW t \in returns, CreateReturnPaymentTransaction(t)
  PROVE  RefundInv'
<1>1. /\ t \in Returns /\ ReturnOK(t) /\ t.pc = "record" /\ payVersion \in Nat
      /\ t.items # {} /\ t.pver \in Nat
  BY ReturnFacts DEF CreateReturnPaymentTransaction, Returns
<1>2. /\ UNCHANGED <<psp, order, atPsp, requests, hooks, revokes, revoked, unrecorded,
                     asked, redeliveries>>
      /\ Fault \/ NoFault
  BY DEF CreateReturnPaymentTransaction, NoFault
<1>3. /\ OrderInv' /\ OrderMoves /\ RevokeInv' /\ faults' \in Nat /\ redeliveries' \in Nat
  BY <1>2, OrderKept, RevokesKept, FaultCounts DEF RefundInv, HistoryInv
<1>4. PspInv' /\ PaymentInv' /\ PaymentMoves /\ payVersion' \in {payVersion, payVersion + 1}
  <2>1. CASE UNCHANGED payment
    BY <1>2, <2>1, PaymentKept DEF payment
  <2>2. CASE /\ t.outcome \in {"fresh", "listed"}
             /\ create_return_payment_transaction(t.pver, t.refund, t.outcome = "listed")
    <3>1. t.refund \in 1..Len(refunds)
      BY <1>1, <2>2 DEF ReturnOK
    <3>2. PICK listed \in BOOLEAN : listed = (t.outcome = "listed")
      OBVIOUS
    <3>3. listed \/ ~is_transaction_already_refunded(t.refund)
      <4>1. t.pver = payVersion
        BY <2>2 DEF create_return_payment_transaction
      <4> QED
        BY <1>1, <2>2, <3>2, <4>1 DEF ReturnOK
    <3>4. create_return_payment_transaction(t.pver, t.refund, listed)
      BY <2>2, <3>2
    <3> QED
      BY <1>2, <3>1, <3>3, <3>4, NewTransaction DEF create_return_payment_transaction
  <2> QED
    BY <2>1, <2>2 DEF CreateReturnPaymentTransaction
<1>5. ReturnInv' /\ dropped' \subseteq Items
  <2>1. payVersion' \in Nat
    BY <1>1, <1>4
  <2>2. CASE ReturnRetried(t) \/ ReturnDies(t)
    BY <1>4, <2>1, <2>2, ReturnOver
  <2>3. CASE ReturnGoesOn(t, Looking(t))
    <3>1. PICK next : next = Looking(t)
      OBVIOUS
    <3>2. next \in Returns
      BY <1>1, <3>1 DEF Looking, Returns
    <3>3. next.items = t.items /\ next.pver = 0 /\ next.pc = "look"
      BY <1>1, <3>1 DEF Looking, Returns
    <3>4. ReturnOK(next)'
      BY <1>1, <2>1, <3>3 DEF ReturnOK, Early
    <3> QED
      BY <1>4, <2>3, <3>1, <3>2, <3>4, GoesOn
  <2> QED
    BY <2>2, <2>3 DEF CreateReturnPaymentTransaction, SkipRecording,
                      RecordingRejected
<1> QED
  BY <1>2, <1>3, <1>4, <1>5, ReturnParts

\* The payment gets a new version, and nothing else.
LEMMA NewVersion ==
  ASSUME RefundInv, UNCHANGED <<transactions, payTotal, atPsp>>,
         payVersion' \in {payVersion, payVersion + 1}
  PROVE  PspInv' /\ PaymentInv' /\ PaymentMoves
<1>1. Len(refunds) \in Nat /\ payVersion \in Nat
  BY DEF RefundInv, PspInv, PaymentInv
<1>2. PspInv'
  BY DEF RefundInv, PspInv, atPsp
<1>3. PaymentInv'
  BY <1>1 DEF RefundInv, PaymentInv, OneTransactionPerRefund, atPsp
<1>4. PaymentMoves
  BY <1>1 DEF PaymentMoves, atPsp
<1> QED
  BY <1>2, <1>3, <1>4

LEMMA LinkStep ==
  ASSUME RefundInv, NEW t \in returns, LinkTransaction(t)
  PROVE  RefundInv'
<1>1. /\ t \in Returns /\ ReturnOK(t) /\ t.pc = "link" /\ payVersion \in Nat
      /\ t.items # {}
  BY ReturnFacts DEF LinkTransaction
<1>2. /\ UNCHANGED <<psp, order, transactions, payTotal, atPsp, requests, hooks, revokes,
                     revoked, unrecorded, asked, redeliveries>>
      /\ payVersion' \in {payVersion, payVersion + 1}
      /\ Fault \/ NoFault
  BY DEF LinkTransaction, NoFault
<1>3. /\ OrderInv' /\ OrderMoves /\ RevokeInv' /\ faults' \in Nat /\ redeliveries' \in Nat
  BY <1>2, OrderKept, RevokesKept, FaultCounts DEF RefundInv, HistoryInv
<1>4. PspInv' /\ PaymentInv' /\ PaymentMoves /\ payVersion' \in Nat
  BY <1>1, <1>2, NewVersion
<1>5. PICK next : next = [t EXCEPT !.pc = "revoke", !.pver = 0]
  OBVIOUS
<1>6. next \in Returns
  BY <1>1, <1>5 DEF Returns
<1>7. next.items = t.items /\ next.pver = 0 /\ next.pc = "revoke"
  BY <1>1, <1>5 DEF Returns
<1>8. ReturnOK(next)'
  BY <1>1, <1>4, <1>7 DEF ReturnOK, Early
<1>9. ReturnGoesOn(t, next) \/ ReturnRetried(t) \/ ReturnDies(t)
  BY <1>5 DEF LinkTransaction
<1>10. ReturnInv' /\ dropped' \subseteq Items
  BY <1>4, <1>6, <1>8, <1>9, GoesOn, ReturnOver
<1> QED
  BY <1>2, <1>3, <1>4, <1>10, ReturnParts

\* The return's items are given a payment state.
LEMMA Settled ==
  ASSUME RefundInv, NEW S \in SUBSET Items, NEW to \in PayStates, SettleItems(S, to)
  PROVE  OrderInv' /\ OrderMoves
<1>1. payState \in [Items -> PayStates] /\ orderVersion \in Nat
  BY DEF RefundInv, OrderInv
<1>2. payState' \in [Items -> PayStates]
  BY <1>1 DEF SettleItems
<1>3. orderVersion' = orderVersion + 1 /\ UNCHANGED <<created, messages, delivered>>
  BY DEF SettleItems
<1> QED
  BY <1>1, <1>2, <1>3 DEF RefundInv, OrderInv, OneReturnPerItem, OrderMoves

LEMMA SettleStep ==
  ASSUME RefundInv, NEW t \in returns, UpdateReturnPaymentState(t)
  PROVE  RefundInv'
<1>1. /\ t \in Returns /\ ReturnOK(t) /\ t.pc = "settle" /\ payVersion \in Nat
      /\ t.items \in SUBSET Items
  BY ReturnFacts DEF UpdateReturnPaymentState
<1>2. /\ UNCHANGED <<psp, payment, atPsp, requests, hooks, revokes, revoked, unrecorded,
                     asked, redeliveries>>
      /\ Fault \/ NoFault
  BY DEF UpdateReturnPaymentState, NoFault
<1>3. OrderInv' /\ OrderMoves
  <2>1. ReturnPaymentState(t.outcome) \in PayStates
    BY DEF ReturnPaymentState, PayStates
  <2>2. SettleItems(t.items, ReturnPaymentState(t.outcome)) \/ UNCHANGED order
    BY DEF UpdateReturnPaymentState
  <2> QED
    BY <1>1, <2>1, <2>2, Settled, OrderKept
<1>4. /\ RevokeInv' /\ faults' \in Nat /\ redeliveries' \in Nat
      /\ PspInv' /\ PaymentInv' /\ PaymentMoves /\ payVersion' = payVersion
  BY <1>2, RevokesKept, FaultCounts, PaymentKept DEF RefundInv, HistoryInv, payment
<1>5. PICK pc : pc = AfterSettling(t)
  OBVIOUS
<1>6. PICK next : next = [t EXCEPT !.pc = pc, !.ver = 0]
  OBVIOUS
<1>7. pc \in {"revoke", "link"}
  BY <1>5 DEF AfterSettling
<1>8. next \in Returns
  BY <1>1, <1>6, <1>7 DEF Returns
<1>9. next.items = t.items /\ next.pver = t.pver /\ next.pc = pc /\ next.outcome = t.outcome
  BY <1>1, <1>6, <1>7 DEF Returns
<1>10. ReturnOK(next)'
  BY <1>1, <1>4, <1>7, <1>8, <1>9, ElsewhereOK, ReturnFacts DEF Early
<1>11. ReturnGoesOn(t, next) \/ ReturnRetried(t) \/ ReturnDies(t)
  BY <1>5, <1>6 DEF UpdateReturnPaymentState, SettleRejected
<1>12. ReturnInv' /\ dropped' \subseteq Items
  BY <1>1, <1>4, <1>8, <1>10, <1>11, GoesOn, ReturnOver
<1> QED
  BY <1>2, <1>3, <1>4, <1>12, ReturnParts

LEMMA SettleFreeStep ==
  ASSUME RefundInv, NEW t \in returns,
         update_return_payment_state_for_enrollment_code_purchase(t)
  PROVE  RefundInv'
<1>1. t.items \in SUBSET Items /\ payVersion \in Nat /\ dropped \subseteq Items
  BY ReturnFacts
<1>2. /\ UNCHANGED <<psp, payment, atPsp, requests, hooks, revokes, revoked, unrecorded,
                     asked, redeliveries>>
      /\ Fault \/ NoFault
  BY DEF update_return_payment_state_for_enrollment_code_purchase, NoFault
<1>3. OrderInv' /\ OrderMoves
  <2>1. SettleItems(t.items, "NotRefunded") \/ UNCHANGED order
    BY DEF update_return_payment_state_for_enrollment_code_purchase
  <2> QED
    BY <1>1, <2>1, Settled, OrderKept DEF PayStates
<1>4. /\ RevokeInv' /\ faults' \in Nat /\ redeliveries' \in Nat
      /\ PspInv' /\ PaymentInv' /\ PaymentMoves /\ payVersion' = payVersion
  BY <1>2, RevokesKept, FaultCounts, PaymentKept DEF RefundInv, HistoryInv, payment
<1>5. ReturnInv' /\ dropped' \subseteq Items
  <2>1. (returns' = returns \ {t} /\ UNCHANGED dropped) \/ ReturnRetried(t)
    BY DEF update_return_payment_state_for_enrollment_code_purchase
  <2> QED
    BY <1>1, <1>4, <2>1, ReturnsKept, ReturnOver
<1> QED
  BY <1>2, <1>3, <1>4, <1>5, ReturnParts

LEMMA SendRevokeStep ==
  ASSUME RefundInv, NEW t \in returns, SendRevoke(t)
  PROVE  RefundInv'
<1>1. /\ t \in Returns /\ t.id \in Nat /\ t.items \in SUBSET Items /\ t.items # {}
      /\ dropped \subseteq Items
  BY ReturnFacts DEF Returns
<1>2. /\ UNCHANGED <<psp, order, payment, atPsp, requests, hooks, revoked, unrecorded,
                     asked, redeliveries>>
      /\ returns' = returns \ {t} /\ dropped' \subseteq dropped \cup t.items
      /\ Fault \/ NoFault
  BY DEF SendRevoke, ReturnDies, NoFault
<1>3. /\ OrderInv' /\ OrderMoves /\ PspInv' /\ PaymentInv' /\ PaymentMoves
      /\ faults' \in Nat /\ redeliveries' \in Nat
  BY <1>2, OrderKept, PaymentKept, FaultCounts DEF RefundInv, HistoryInv
<1>4. RevokeInv'
  <2>1. PICK v : v = [id |-> t.id, items |-> t.items, left |-> t.items, tries |-> 0]
    OBVIOUS
  <2>2. v \in Revokes /\ v.items # {} /\ v.left # {}
    BY <1>1, <2>1 DEF Revokes
  <2>3. revokes' \subseteq revokes \cup {v}
    BY <2>1 DEF SendRevoke
  <2> QED
    BY <1>2, <2>2, <2>3 DEF RefundInv, RevokeInv
<1>5. ReturnInv' /\ dropped' \subseteq Items
  BY <1>1, <1>2, <1>3, ReturnsKept
<1> QED
  BY <1>2, <1>3, <1>4, <1>5, ReturnParts

-----------------------------------------------------------------------------
(* The webhook's tasks. *)

\* A step on the webhook's tasks: the rest of the actors stay.
LEMMA HookParts ==
  ASSUME RefundInv, PspInv', PaymentInv', PaymentMoves, HookInv',
         unrecorded' \subseteq 1..Len(refunds'), redeliveries' \in Nat, faults' \in Nat,
         UNCHANGED <<psp, order, requests, returns, revokes, revoked, dropped, asked>>
  PROVE  RefundInv'
<1>1. OrderInv' /\ OrderMoves
  BY OrderKept
<1>2. RequestInv' /\ ReturnInv' /\ RevokeInv'
  BY <1>1, RequestsKept, ReturnsKept, RevokesKept
<1>3. HistoryInv'
  BY DEF RefundInv, HistoryInv
<1> QED
  BY <1>1, <1>2, <1>3 DEF RefundInv

LEMMA HookFacts ==
  ASSUME RefundInv, NEW h \in hooks
  PROVE  /\ h \in Hooks /\ HookOK(h) /\ h.refund \in 1..Len(refunds) /\ h.id \in Nat
         /\ h.tries \in Nat /\ payVersion \in Nat /\ Len(refunds) \in Nat
         /\ unrecorded \subseteq 1..Len(refunds) /\ redeliveries \in Nat /\ faults \in Nat
BY DEF RefundInv, HookInv, HookOK, Hooks, PaymentInv, PspInv, HistoryInv

LEMMA FreshHook ==
  ASSUME NEW n \in Nat, NEW r \in 1..Len(refunds'), NEW tries \in Nat, Len(refunds') \in Nat,
         payVersion' \in Nat
  PROVE  HookTask(n, r, tries) \in Hooks /\ HookOK(HookTask(n, r, tries))'
BY DEF HookTask, Hooks, HookOK

\* A task that ends, starts again, or is given up.
LEMMA HookOver ==
  ASSUME RefundInv, PaymentMoves, payVersion' \in Nat, refunds' = refunds, NEW h \in hooks,
         \/ hooks' = hooks \ {h} /\ UNCHANGED unrecorded
         \/ HookDies(h)
         \/ HookRetried(h)
  PROVE  HookInv' /\ unrecorded' \subseteq 1..Len(refunds')
<1>1. CASE hooks' = hooks \ {h} /\ unrecorded' \subseteq unrecorded \cup {h.refund}
  BY <1>1, HookFacts, HooksKept
<1>2. CASE /\ hooks' = Replace(hooks, h, HookTask(h.id, h.refund, h.tries + 1))
           /\ UNCHANGED unrecorded
  <2>1. PICK next : next = HookTask(h.id, h.refund, h.tries + 1)
    OBVIOUS
  <2>2. h.id \in Nat /\ h.tries + 1 \in Nat /\ h.refund \in 1..Len(refunds')
        /\ Len(refunds') \in Nat
    BY HookFacts
  <2>3. next \in Hooks /\ HookOK(next)'
    BY <2>1, <2>2, FreshHook
  <2>4. hooks' \subseteq hooks \cup {next}
    BY <1>2, <2>1 DEF Replace
  <2> QED
    BY <1>2, <2>3, <2>4, HookNext, HookFacts
<1> QED
  BY <1>1, <1>2 DEF HookDies, HookRetried

LEMMA NotifiedStep ==
  ASSUME RefundInv, NEW r \in DOMAIN refunds, Notified(r)
  PROVE  RefundInv'
<1>1. /\ refunds \in Seq(PspRefunds) /\ pspTotal \in 0..N /\ events \subseteq 1..Len(refunds)
      /\ Len(refunds) \in Nat /\ r \in 1..Len(refunds) /\ redeliveries \in Nat
      /\ unrecorded \subseteq 1..Len(refunds) /\ payVersion \in Nat
  BY DEF RefundInv, PspInv, HistoryInv, PaymentInv
<1>2. /\ UNCHANGED <<psp, order, payment, refunds, pspTotal, requests, returns, revokes,
                     revoked, dropped, asked>>
      /\ events' = events \ {r} /\ redeliveries' \in Nat /\ (Fault \/ NoFault)
  BY <1>1 DEF Notified
<1>3. PspInv' /\ PaymentInv' /\ PaymentMoves /\ payVersion' \in Nat
  <2>1. PspInv'
    BY <1>1, <1>2 DEF RefundInv, PspInv
  <2>2. PaymentInv'
    BY <1>2 DEF RefundInv, PaymentInv, OneTransactionPerRefund, payment
  <2>3. PaymentMoves
    BY <1>1, <1>2 DEF PaymentMoves, payment
  <2> QED
    BY <1>1, <1>2, <2>1, <2>2, <2>3 DEF payment
<1>4. PICK next : next = HookTask(redeliveries', r, 0)
  OBVIOUS
<1>5. next \in Hooks /\ HookOK(next)'
  BY <1>1, <1>2, <1>3, <1>4, FreshHook
<1>6. hooks' \subseteq hooks \cup {next} /\ unrecorded' \subseteq unrecorded \cup {r}
  BY <1>4 DEF Notified
<1>7. HookInv' /\ unrecorded' \subseteq 1..Len(refunds')
  BY <1>1, <1>2, <1>3, <1>5, <1>6, HookNext
<1> QED
  BY <1>2, <1>3, <1>7, FaultCounts, HookParts

LEMMA HookReadStep ==
  ASSUME RefundInv, NEW h \in hooks, HookRead(h)
  PROVE  RefundInv'
<1>1. PspInv' /\ PaymentInv' /\ PaymentMoves
  BY PaymentKept DEF HookRead
<1>2. UNCHANGED <<psp, order, requests, returns, revokes, revoked, dropped, asked,
                  unrecorded, refunds, redeliveries, faults, payVersion, transactions>>
  BY DEF HookRead, history, bounds, atPsp, payment
<1>3. HookInv'
  <2>1. CASE hooks' = hooks \ {h}
    BY <1>1, <2>1, HooksKept
  <2>2. CASE /\ ~is_transaction_already_refunded(h.refund)
             /\ hooks' = Replace(hooks, h, [h EXCEPT !.pc = "write", !.ver = payVersion])
    <3>1. PICK next : next = [h EXCEPT !.pc = "write", !.ver = payVersion]
      OBVIOUS
    <3>2. next \in Hooks
      BY <3>1, HookFacts DEF Hooks
    <3>3. next.refund = h.refund /\ next.ver = payVersion
      BY <3>1, HookFacts DEF Hooks
    <3>4. HookOK(next)'
      BY <1>2, <2>2, <3>3, HookFacts DEF HookOK, is_transaction_already_refunded
    <3>5. hooks' \subseteq hooks \cup {next}
      BY <2>2, <3>1 DEF Replace
    <3> QED
      BY <1>1, <3>2, <3>4, <3>5, HookNext
  <2> QED
    BY <2>1, <2>2 DEF HookRead
<1> QED
  BY <1>1, <1>2, <1>3, HookFacts, HookParts

LEMMA HookWriteStep ==
  ASSUME RefundInv, NEW h \in hooks, HookWrite(h)
  PROVE  RefundInv'
<1>1. /\ UNCHANGED <<psp, order, atPsp, requests, returns, revokes, revoked, dropped, asked,
                     redeliveries>>
      /\ Fault \/ NoFault
  BY DEF HookWrite, NoFault
<1>2. PspInv' /\ PaymentInv' /\ PaymentMoves
  <2>1. CASE UNCHANGED payment
    BY <1>1, <2>1, PaymentKept
  <2>2. CASE create_return_payment_transaction(h.ver, h.refund, FALSE) /\ h.pc = "write"
    <3>1. h.ver = payVersion
      BY <2>2 DEF create_return_payment_transaction
    <3>2. ~is_transaction_already_refunded(h.refund)
      BY <2>2, <3>1, HookFacts DEF HookOK
    <3> QED
      BY <1>1, <2>2, <3>2, HookFacts, NewTransaction
  <2> QED
    BY <2>1, <2>2 DEF HookWrite
<1>3. payVersion' \in Nat /\ refunds' = refunds
  BY <1>1, <1>2 DEF PaymentInv, atPsp
<1>4. HookInv' /\ unrecorded' \subseteq 1..Len(refunds')
  <2>1. (hooks' = hooks \ {h} /\ UNCHANGED unrecorded) \/ HookRetried(h)
    BY DEF HookWrite, HookRejected
  <2> QED
    BY <1>2, <1>3, <2>1, HookOver
<1> QED
  BY <1>1, <1>2, <1>4, FaultCounts, HookFacts, HookParts

LEMMA HookFailsStep ==
  ASSUME RefundInv, NEW h \in hooks, HookFails(h)
  PROVE  RefundInv'
<1>1. /\ UNCHANGED <<psp, order, payment, atPsp, requests, returns, revokes, revoked,
                     dropped, asked, redeliveries>>
      /\ Fault /\ (HookDies(h) \/ HookRetried(h))
  BY DEF HookFails
<1>2. PspInv' /\ PaymentInv' /\ PaymentMoves
  BY <1>1, PaymentKept
<1>3. payVersion' \in Nat /\ refunds' = refunds
  BY <1>1, <1>2 DEF PaymentInv, atPsp
<1>4. HookInv' /\ unrecorded' \subseteq 1..Len(refunds')
  BY <1>1, <1>2, <1>3, HookOver
<1> QED
  BY <1>1, <1>2, <1>4, FaultCounts, HookFacts, HookParts

-----------------------------------------------------------------------------
(* The revocations and the dashboard. *)

\* A step on the revocations: the rest of the actors stay.
LEMMA RevokeParts ==
  ASSUME RefundInv, RevokeInv', dropped' \subseteq Items, faults' \in Nat,
         UNCHANGED <<psp, order, payment, atPsp, requests, returns, hooks, unrecorded, asked,
                     redeliveries>>
  PROVE  RefundInv'
<1>1. PspInv' /\ PaymentInv' /\ PaymentMoves /\ OrderInv' /\ OrderMoves
  BY PaymentKept, OrderKept
<1>2. RequestInv' /\ ReturnInv' /\ HookInv'
  BY <1>1, RequestsKept, ReturnsKept, HooksKept
<1>3. HistoryInv'
  BY DEF RefundInv, HistoryInv, atPsp
<1> QED
  BY <1>1, <1>2, <1>3 DEF RefundInv

LEMMA RevokeFacts ==
  ASSUME RefundInv, NEW v \in revokes
  PROVE  /\ v \in Revokes /\ v.items \in SUBSET Items /\ v.left \in SUBSET Items
         /\ v.items # {} /\ v.left # {} /\ v.tries \in Nat
         /\ NextLine(v) \in Items /\ revoked \subseteq Items /\ dropped \subseteq Items
<1>1. /\ v \in Revokes /\ v.items # {} /\ v.left # {} /\ revoked \subseteq Items
      /\ dropped \subseteq Items
  BY DEF RefundInv, RevokeInv, HistoryInv
<1>2. v.items \in SUBSET Items /\ v.left \in SUBSET Items /\ v.tries \in Nat
  BY <1>1 DEF Revokes
<1>3. NextLine(v) \in Items
  BY <1>1, <1>2, NextLineIsLeft
<1> QED
  BY <1>1, <1>2, <1>3

\* A revocation that goes on with the items of S, or is over.
LEMMA RevokesNext ==
  ASSUME RefundInv, NEW v \in revokes, NEW next \in Revokes, next.items = v.items,
         next.left # {}, revokes' \subseteq revokes \cup {next}, revoked' \subseteq Items
  PROVE  RevokeInv'
BY RevokeFacts DEF RefundInv, RevokeInv

LEMMA RevokeLineStep ==
  ASSUME RefundInv, NEW v \in revokes, revoke_line(v)
  PROVE  RefundInv'
<1>1. PICK rest : rest = v.left \ {NextLine(v)}
  OBVIOUS
<1>2. revoked' \subseteq Items /\ rest \in SUBSET Items
  BY <1>1, RevokeFacts DEF revoke_line
<1>3. RevokeInv'
  <2>1. CASE rest = {}
    <3>1. revokes' \subseteq revokes \cup {v}
      BY <1>1, <2>1 DEF revoke_line
    <3> QED
      BY <1>2, <3>1, RevokesNext, RevokeFacts
  <2>2. CASE rest # {}
    <3>1. PICK next : next = [v EXCEPT !.left = rest]
      OBVIOUS
    <3>2. next \in Revokes /\ next.items = v.items /\ next.left = rest
      BY <1>2, <3>1, RevokeFacts DEF Revokes
    <3>3. revokes' \subseteq revokes \cup {next}
      BY <1>1, <2>2, <3>1 DEF revoke_line, Replace
    <3> QED
      BY <1>2, <2>2, <3>2, <3>3, RevokesNext
  <2> QED
    BY <2>1, <2>2
<1>4. dropped' \subseteq Items /\ faults' \in Nat
  BY DEF RefundInv, HistoryInv, revoke_line, history, bounds
<1> QED
  BY <1>3, <1>4, RevokeParts DEF revoke_line, history, bounds

LEMMA RevokeFailsStep ==
  ASSUME RefundInv, NEW v \in revokes, RevokeFails(v)
  PROVE  RefundInv'
<1>1. revoked' \subseteq Items /\ dropped' \subseteq Items
  <2>1. dropped' \subseteq dropped \cup v.items /\ revoked' \subseteq revoked \cup {NextLine(v)}
    BY DEF RevokeFails
  <2> QED
    BY <2>1, RevokeFacts
<1>2. RevokeInv'
  <2>1. CASE revokes' = revokes \ {v}
    BY <1>1, <2>1, RevokesNext, RevokeFacts
  <2>2. CASE revokes' = Replace(revokes, v, [v EXCEPT !.left = v.items, !.tries = v.tries + 1])
    <3>1. PICK next : next = [v EXCEPT !.left = v.items, !.tries = v.tries + 1]
      OBVIOUS
    <3>2. v.tries + 1 \in Nat
      BY RevokeFacts
    <3>3. next \in Revokes /\ next.items = v.items /\ next.left = v.items
      BY <3>1, <3>2, RevokeFacts DEF Revokes
    <3>4. revokes' \subseteq revokes \cup {next}
      BY <2>2, <3>1 DEF Replace
    <3> QED
      BY <1>1, <3>3, <3>4, RevokesNext, RevokeFacts
  <2> QED
    BY <2>1, <2>2 DEF RevokeFails
<1> QED
  BY <1>1, <1>2, FaultCounts, RevokeParts DEF RevokeFails

LEMMA DashboardStep ==
  ASSUME RefundInv, DashboardRefund
  PROVE  RefundInv'
<1>1. /\ PspRefund({}, 1)
      /\ UNCHANGED <<psp, order, payment, requests, returns, hooks, revokes, revoked,
                     dropped, unrecorded, asked, redeliveries>>
  BY DEF DashboardRefund, history
<1>2. PspInv' /\ PaymentInv' /\ PaymentMoves
  BY <1>1, NewRefund
<1>3. unrecorded' \subseteq 1..Len(refunds')
  <2>1. unrecorded \subseteq 1..Len(refunds) /\ Len(refunds) \in Nat
    BY DEF RefundInv, HistoryInv, PspInv
  <2> QED
    BY <1>1, <1>2, <2>1 DEF PaymentMoves
<1>4. redeliveries' \in Nat /\ faults' \in Nat
  BY <1>1, FaultCounts DEF DashboardRefund, RefundInv, HistoryInv
<1> QED
  BY <1>1, <1>2, <1>3, <1>4, HooksKept, HookParts

-----------------------------------------------------------------------------
(* Every behaviour. *)

LEMMA RefundInit ==
  ASSUME Init
  PROVE  RefundInv
<1>1. refunds = <<>> /\ transactions = <<>> /\ Len(refunds) = 0 /\ DOMAIN transactions = {}
  BY DEF Init
<1>2. PspInv
  <2>1. refunds \in Seq(PspRefunds)
    BY <1>1
  <2> QED
    BY <1>1, <2>1, RefundAssumption DEF Init, PspInv
<1>3. PaymentInv
  <2>1. transactions \in Seq(Transactions(Len(refunds)))
    BY <1>1
  <2> QED
    BY <1>1, <2>1 DEF Init, PaymentInv, OneTransactionPerRefund
<1>4. OrderInv
  BY DEF Init, OrderInv, OneReturnPerItem, PayStates
<1>5. RequestInv /\ ReturnInv /\ HookInv /\ RevokeInv /\ HistoryInv
  BY DEF Init, RequestInv, ReturnInv, HookInv, RevokeInv, HistoryInv
<1> QED
  BY <1>2, <1>3, <1>4, <1>5 DEF RefundInv

LEMMA RefundStutters ==
  ASSUME RefundInv, UNCHANGED vars
  PROVE  RefundInv'
<1>1. UNCHANGED <<psp, order, payment, atPsp, requests, returns, hooks, revokes, revoked,
                  dropped, unrecorded, asked, redeliveries, faults>>
  BY DEF vars, history, bounds
<1> QED
  BY <1>1, RevokesKept, RevokeParts DEF RefundInv, HistoryInv

LEMMA ReturnTaskSteps ==
  ASSUME RefundInv, NEW t \in returns, ReturnStep(t)
  PROVE  RefundInv'
<1>1. CASE FetchOrderDetailsByOrderID(t)
  BY <1>1, FetchStep
<1>2. CASE FetchPayment(t)
  BY <1>2, FetchPaymentStep
<1>3. CASE RefundPaymentIntent(t) \/ RefundPayPalPayment(t)
  BY <1>3, RefundPaymentStep DEF RefundPaymentIntent, RefundPayPalPayment
<1>4. CASE CreateReturnPaymentTransaction(t)
  BY <1>4, RecordTransactionStep
<1>5. CASE LookAtPayment(t)
  BY <1>5, LookStep
<1>6. CASE UpdateReturnPaymentState(t)
  BY <1>6, SettleStep
<1>7. CASE LinkTransaction(t)
  BY <1>7, LinkStep
<1>8. CASE SendRevoke(t)
  BY <1>8, SendRevokeStep
<1>9. CASE FreeReturn(t)
  BY <1>9, FreeReturnStep
<1>10. CASE update_return_payment_state_for_enrollment_code_purchase(t)
  BY <1>10, SettleFreeStep
<1> QED
  BY <1>1, <1>2, <1>3, <1>4, <1>5, <1>6, <1>7, <1>8, <1>9, <1>10 DEF ReturnStep

LEMMA RefundSteps ==
  ASSUME RefundInv, [Next]_vars
  PROVE  RefundInv'
<1>1. CASE \E i \in Items : RefundView(i)
  BY <1>1, RefundViewStep
<1>2. ASSUME NEW q \in requests, RequestStep(q)
      PROVE  RefundInv'
  BY <1>2, ReadForReturnStep, CreateReturnStep DEF RequestStep
<1>3. CASE \E S \in SUBSET Items : OperatorReturn(S)
  BY <1>3, OperatorStep
<1>4. CASE \E S \in messages \cup delivered : OrderReturnedView(S)
  BY <1>4, DeliveryStep
<1>5. ASSUME NEW t \in returns, ReturnStep(t) \/ ReturnFails(t)
      PROVE  RefundInv'
  BY <1>5, ReturnTaskSteps, ReturnFailsStep
<1>6. CASE \E r \in DOMAIN refunds : WebhookView(r) \/ PayPalWebhookView(r)
  BY <1>6, NotifiedStep DEF WebhookView, PayPalWebhookView
<1>7. ASSUME NEW h \in hooks, refund_from_stripe_task(h) \/ refund_from_paypal_task(h)
      PROVE  RefundInv'
  BY <1>7, HookReadStep, HookWriteStep, HookFailsStep
     DEF refund_from_stripe_task, refund_from_paypal_task
<1>8. ASSUME NEW v \in revokes, revoke_line(v) \/ RevokeFails(v)
      PROVE  RefundInv'
  BY <1>8, RevokeLineStep, RevokeFailsStep
<1>9. CASE DashboardRefund \/ ForeignUpdate
  BY <1>9, DashboardStep, ForeignStep
<1>10. CASE UNCHANGED vars
  BY <1>10, RefundStutters
<1> QED
  BY <1>1, <1>2, <1>3, <1>4, <1>5, <1>6, <1>7, <1>8, <1>9, <1>10 DEF Next

LEMMA RefundInvariant == Spec => []RefundInv
BY RefundInit, RefundSteps, PTL DEF Spec

\* Whatever the number of items, requests, redeliveries, retries and faults: a task
\* of the pipeline or of the webhook that is to record a refund names one the PSP
\* has made, every event and every transaction does, the PSP never returns more
\* than it was paid, and a revocation under way has an item to go on with.
THEOREM RefundTyped == Spec => []TypeOK
<1>1. RefundInv => TypeOK
  BY InvIsTyped
<1> QED
  BY <1>1, RefundInvariant, PTL

\* Requests for a return that race each other, an operator's returns or any other
\* writer of the order never give a line item two returns: the version that
\* CreateReturnForCommercetoolsOrder read is checked by Commercetools.
THEOREM ReturnedOnce == Spec => []OneReturnPerItem
<1>1. RefundInv => OneReturnPerItem
  BY DEF RefundInv, OrderInv
<1> QED
  BY <1>1, RefundInvariant, PTL

\* The returned task and the webhook's task, each delivered and retried any number
\* of times, record a refund of the PSP once: both send the version of the payment
\* in which they found the refund missing.
THEOREM RecordedOnce == Spec => []OneTransactionPerRefund
<1>1. RefundInv => OneTransactionPerRefund
  BY DEF RefundInv, PaymentInv
<1> QED
  BY <1>1, RefundInvariant, PTL
=============================================================================
