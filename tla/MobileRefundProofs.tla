------------------------- MODULE MobileRefundProofs -------------------------
(***************************************************************************)
(* Theorems about MobileRefund, for any number of notices, retries and     *)
(* faults.                                                                 *)
(***************************************************************************)
EXTENDS MobileRefund, TLAPS

-----------------------------------------------------------------------------
(* The invariant.  A task that is about to record the refund, at the version
   of the payment that Commercetools has, is the first; one that is past it,
   or that found the transaction, knows that there is one. *)

HookOK(h) ==
  /\ h.pver <= payVersion
  /\ h.pc = "record" /\ h.pver = payVersion => transactions = 0
  /\ h.pc \in {"signal", "find", "link", "mark"} => transactions > 0
  /\ h.pc # "payment" => home = "commercetools"

StoreInv ==
  /\ notices # {} \/ hooks # {} => voided
  /\ transactions > 0 => voided /\ home = "commercetools"
  /\ legacy => voided /\ home = "legacy"

AccessInv ==
  /\ revoked \/ linked \/ revokes > 0 => transactions > 0
  /\ \A t \in returns : t.txn => transactions > 0

RefundInv ==
  /\ TypeOK
  /\ OneMobileTransaction
  /\ StoreInv
  /\ AccessInv
  /\ \A h \in hooks : HookOK(h)

-----------------------------------------------------------------------------
(* The parts of a step. *)

\* The payment stays, or changes and gets a new version.
PaymentMoves ==
  \/ UNCHANGED payment
  \/ payVersion' = payVersion + 1 /\ transactions' \in {transactions, transactions + 1}

\* A task that goes on is the only one that a step changes.
LEMMA HooksKept ==
  ASSUME RefundInv, NEW next \in Hooks, hooks' \subseteq hooks \cup {next}, HookOK(next)',
         home' = home, PaymentMoves
  PROVE  hooks' \subseteq Hooks /\ \A h \in hooks' : HookOK(h)'
<1>1. hooks \subseteq Hooks /\ payVersion \in Nat /\ transactions \in Nat
  BY DEF RefundInv, TypeOK
<1>2. ASSUME NEW h \in hooks PROVE HookOK(h)'
  <2>1. HookOK(h) /\ h.pver \in Nat
    BY <1>1 DEF RefundInv, Hooks
  <2> QED
    BY <1>1, <2>1 DEF HookOK, PaymentMoves, payment
<1> QED
  BY <1>1, <1>2

\* A step that only ends tasks.
LEMMA HooksEnd ==
  ASSUME RefundInv, hooks' \subseteq hooks, home' = home, PaymentMoves
  PROVE  hooks' \subseteq Hooks /\ \A h \in hooks' : HookOK(h)'
<1>1. hooks \subseteq Hooks /\ payVersion \in Nat /\ transactions \in Nat
  BY DEF RefundInv, TypeOK
<1>2. ASSUME NEW h \in hooks PROVE HookOK(h)'
  <2>1. HookOK(h) /\ h.pver \in Nat
    BY <1>1 DEF RefundInv, Hooks
  <2> QED
    BY <1>1, <2>1 DEF HookOK, PaymentMoves, payment
<1> QED
  BY <1>1, <1>2

\* A task starts, or starts again, with nothing read.
LEMMA FreshHook ==
  ASSUME NEW n \in Nat, NEW tries \in Nat, payVersion' \in Nat
  PROVE  HookTask(n, tries) \in Hooks /\ HookOK(HookTask(n, tries))'
BY DEF HookTask, Hooks, HookOK

\* What tasks give up on.
Duties == {"record", "revoke", "link", "return"}

LEMMA UnfinishedDuties ==
  ASSUME NEW h
  PROVE  Unfinished(h) \subseteq Duties
BY DEF Unfinished, Duties

\* A task that dies or is retried.
LEMMA HookOver ==
  ASSUME RefundInv, NEW h \in hooks, HookDies(h) \/ HookRetried(h) \/ HookEnds(h),
         home' = home, PaymentMoves
  PROVE  /\ hooks' \subseteq Hooks /\ (\A g \in hooks' : HookOK(g)')
         /\ dropped' \subseteq Duties
         /\ hooks' # {} => voided
<1>1. hooks \subseteq Hooks /\ dropped \subseteq Duties /\ MaxRetries \in Nat
      /\ payVersion' \in Nat /\ h.id \in Nat /\ h.tries \in Nat /\ voided
  BY MobileRefundAssumption
     DEF RefundInv, TypeOK, Duties, Hooks, PaymentMoves, payment, StoreInv
<1>2. CASE HookDies(h) \/ HookEnds(h)
  BY <1>1, <1>2, HooksEnd, UnfinishedDuties DEF HookDies, HookEnds, GivesUp
<1>3. CASE h.tries < MaxRetries /\ HookGoesOn(h, HookTask(h.id, h.tries + 1))
  <2> DEFINE next == HookTask(h.id, h.tries + 1)
  <2>1. next \in Hooks /\ HookOK(next)'
    BY <1>1, FreshHook
  <2>2. hooks' \subseteq hooks \cup {next}
    BY <1>3 DEF HookGoesOn, Replace
  <2> HIDE DEF next
  <2> QED
    BY <1>1, <1>3, <2>1, <2>2, HooksKept DEF HookGoesOn
<1> QED
  BY <1>2, <1>3 DEF HookRetried

-----------------------------------------------------------------------------
(* The store, its notifications, and their views. *)

LEMMA StoreStep ==
  ASSUME RefundInv, StoreRefund \/ _is_running \/ ExpireMark
  PROVE  RefundInv'
<1>1. UNCHANGED <<payment, home, hooks, returns, revocation, linked, legacy>>
  BY DEF StoreRefund, _is_running, ExpireMark, order, given
<1>2. hooks' \subseteq Hooks /\ \A h \in hooks' : HookOK(h)'
  BY <1>1, HooksEnd DEF PaymentMoves
<1>5. received \in Nat /\ notices \subseteq Nat
  BY DEF RefundInv, TypeOK
<1>8. voided \in BOOLEAN /\ mark \in BOOLEAN
  BY DEF RefundInv, TypeOK
<1>9. voided' \in BOOLEAN
  BY <1>8 DEF StoreRefund, _is_running, ExpireMark
<1>10. mark' \in BOOLEAN
  BY <1>8 DEF StoreRefund, _is_running, ExpireMark
<1>11. received' \in Nat /\ notices' \subseteq Nat
  <2>1. received' \in {received, received + 1}
    BY DEF StoreRefund, _is_running, ExpireMark
  <2>2. notices' \subseteq notices \cup {received'}
    BY DEF StoreRefund, _is_running, ExpireMark
  <2> QED
    BY <1>5, <2>1, <2>2
<1>6. /\ voided' \in BOOLEAN /\ mark' \in BOOLEAN
      /\ notices' \subseteq Nat /\ received' \in Nat
  BY <1>9, <1>10, <1>11
<1>7. UNCHANGED <<given, order, dropped, crossed, faults>>
  BY DEF StoreRefund, _is_running, ExpireMark
<1>3. TypeOK'
  BY <1>1, <1>2, <1>6, <1>7 DEF RefundInv, TypeOK, given, payment, order, revocation
<1>4. StoreInv' /\ AccessInv' /\ OneMobileTransaction'
  BY <1>1 DEF RefundInv, StoreInv, AccessInv, OneMobileTransaction, StoreRefund, _is_running,
              ExpireMark, given, payment, order, revocation
<1> QED
  BY <1>2, <1>3, <1>4 DEF RefundInv

LEMMA ViewStep ==
  ASSUME RefundInv, NEW n \in notices, IOSRefundView(n) \/ AndroidRefundView(n)
  PROVE  RefundInv'
<1>1. mark_running(n)
  BY DEF IOSRefundView, AndroidRefundView
<1>2. UNCHANGED <<voided, payment, home, returns, revocation, linked, legacy>>
  BY <1>1 DEF mark_running, order, given
<1>3. n \in Nat /\ payVersion' \in Nat /\ voided
  BY <1>2 DEF RefundInv, TypeOK, payment, StoreInv
<1>4. HookTask(n, 0) \in Hooks /\ HookOK(HookTask(n, 0))'
  BY <1>3, FreshHook
<1>5. hooks' \subseteq hooks \cup {HookTask(n, 0)} /\ mark' \in BOOLEAN
  BY <1>1 DEF mark_running
<1>6. hooks' \subseteq Hooks /\ \A h \in hooks' : HookOK(h)'
  BY <1>2, <1>4, <1>5, HooksKept DEF PaymentMoves
<1>10. dropped \subseteq Duties /\ faults \in Nat
  BY DEF RefundInv, TypeOK, Duties
<1>11. faults' \in Nat
  BY <1>1, <1>10 DEF mark_running, Fault, NoFault
<1>7. dropped' \subseteq Duties /\ faults' \in Nat
  BY <1>1, <1>10, <1>11 DEF mark_running, GivesUp, Duties
<1>8. TypeOK'
  BY <1>1, <1>2, <1>6, <1>7
     DEF RefundInv, TypeOK, mark_running, given, payment, order, revocation, Duties
<1>9. StoreInv' /\ AccessInv' /\ OneMobileTransaction'
  BY <1>2, <1>3 DEF RefundInv, StoreInv, AccessInv, OneMobileTransaction, payment, revocation
<1> QED
  BY <1>6, <1>8, <1>9 DEF RefundInv

-----------------------------------------------------------------------------
(* refund_from_mobile_task. *)

\* The variables that the type of a step of a task is about.
HookTyped ==
  /\ {linked, revoked, legacy} \subseteq BOOLEAN
  /\ {payVersion, transactions, orderVersion, revokes, faults} \subseteq Nat

\* A step of a refund task, put together.
LEMMA HookParts ==
  ASSUME RefundInv, HookTyped', hooks' \subseteq Hooks, \A g \in hooks' : HookOK(g)',
         dropped' \subseteq Duties, StoreInv', AccessInv', transactions' <= 1,
         UNCHANGED <<given, voided, mark, notices, return, message, returns, revokeTries,
                     crossed, received>>
  PROVE  RefundInv'
<1>1. TypeOK'
  BY DEF RefundInv, TypeOK, HookTyped, given, Duties
<1> QED
  BY <1>1 DEF RefundInv, OneMobileTransaction

LEMMA NotOursStep ==
  ASSUME RefundInv, NEW h \in hooks, NotOurs(h)
  PROVE  RefundInv'
<1>1. HookEnds(h) /\ home' = home /\ PaymentMoves
  BY DEF NotOurs, given, PaymentMoves
<1>2. hooks' \subseteq Hooks /\ (\A g \in hooks' : HookOK(g)') /\ dropped' \subseteq Duties
  BY <1>1, HookOver
<1>3. voided /\ home = "legacy" /\ legacy \in BOOLEAN
  BY DEF NotOurs, RefundInv, StoreInv, TypeOK
<1>4. StoreInv' /\ AccessInv' /\ transactions' <= 1
  BY <1>3 DEF NotOurs, RefundInv, StoreInv, AccessInv, OneMobileTransaction, given, payment,
              order, revocation
<1>5. HookTyped'
  BY <1>3 DEF NotOurs, HookTyped, RefundInv, TypeOK, payment, order, revocation
<1> QED
  BY <1>2, <1>4, <1>5, HookParts DEF NotOurs, order, revocation

\* A step after which the task is at another call, with what it read.
LEMMA HookGoes ==
  ASSUME RefundInv, NEW next \in Hooks, HookOK(next)', home' = home, PaymentMoves,
         NEW h \in hooks, hooks' = Replace(hooks, h, next)
  PROVE  hooks' \subseteq Hooks /\ \A g \in hooks' : HookOK(g)'
BY HooksKept DEF Replace

LEMMA ReadPaymentStep ==
  ASSUME RefundInv, NEW h \in hooks, ReadPayment(h)
  PROVE  RefundInv'
<1> DEFINE at == IF transactions > 0 THEN "find" ELSE "record"
<1>0. PICK next : next = [h EXCEPT !.pver = payVersion, !.pc = at]
  OBVIOUS
<1>1. h \in Hooks /\ payVersion \in Nat /\ transactions \in Nat /\ home = "commercetools"
      /\ UNCHANGED <<given, payment, order, revocation, legacy, faults>>
  BY DEF RefundInv, TypeOK, ReadPayment
<1>2. at \in {"find", "record"} /\ (at = "find" <=> transactions > 0)
  OBVIOUS
<1>3. hooks' = Replace(hooks, h, next) /\ UNCHANGED dropped
  BY <1>0 DEF ReadPayment, HookGoesOn
<1> HIDE DEF at
<1>4. next \in Hooks
  BY <1>0, <1>1, <1>2 DEF Hooks
<1>5. next.pver = payVersion /\ next.pc = at
  BY <1>0, <1>1, <1>2 DEF Hooks
<1>6. HookOK(next)'
  BY <1>1, <1>2, <1>5 DEF HookOK, payment, given
<1>7. hooks' \subseteq Hooks /\ \A g \in hooks' : HookOK(g)'
  BY <1>1, <1>3, <1>4, <1>6, HookGoes DEF PaymentMoves, given
<1>8. StoreInv' /\ AccessInv' /\ transactions' <= 1
  BY <1>1 DEF ReadPayment, RefundInv, StoreInv, AccessInv, OneMobileTransaction, given, payment,
              order, revocation
<1>9. HookTyped' /\ dropped' \subseteq Duties
  BY <1>1, <1>3 DEF HookTyped, RefundInv, TypeOK, payment, order, revocation, Duties
<1> QED
  BY <1>7, <1>8, <1>9, HookParts DEF ReadPayment, order, revocation

LEMMA RecordStep ==
  ASSUME RefundInv, NEW h \in hooks, RecordRefund(h)
  PROVE  RefundInv'
<1>1. h \in Hooks /\ payVersion \in Nat /\ transactions \in Nat /\ faults \in Nat
      /\ HookOK(h) /\ h.pc = "record" /\ voided /\ dropped \subseteq Duties
      /\ UNCHANGED <<given, voided, mark, notices, order, returns, revocation, legacy,
                     crossed, received>>
  BY DEF RefundInv, TypeOK, RecordRefund, StoreInv, Duties
<1>2. home = "commercetools" /\ home' = home
  BY <1>1 DEF HookOK, given
<1>3. CASE ~CurrentPayment(h.pver)
  <2>1. HookRetried(h) /\ UNCHANGED <<payment, faults>>
    BY <1>3 DEF RecordRefund
  <2>2. hooks' \subseteq Hooks /\ (\A g \in hooks' : HookOK(g)') /\ dropped' \subseteq Duties
    BY <1>2, <2>1, HookOver DEF PaymentMoves
  <2>3. HookTyped' /\ StoreInv' /\ AccessInv' /\ transactions' <= 1
    BY <1>1, <2>1 DEF HookTyped, RefundInv, TypeOK, StoreInv, AccessInv, OneMobileTransaction,
                      given, payment, order, revocation
  <2> QED
    BY <1>1, <2>2, <2>3, HookParts DEF order, revocation
<1>4. CASE CurrentPayment(h.pver)
  <2>1. /\ transactions' = transactions + 1 /\ payVersion' = payVersion + 1
        /\ \/ HookGoesOn(h, [h EXCEPT !.pc = "signal", !.pver = payVersion']) /\ NoFault
           \/ AfterLostAnswer(h) /\ Fault
    BY <1>3, <1>4 DEF RecordRefund
  <2>2. transactions = 0
    BY <1>1, <1>4 DEF CurrentPayment, HookOK
  <2>3. PaymentMoves /\ payVersion' \in Nat /\ faults' \in Nat
    BY <1>1, <2>1 DEF PaymentMoves, Fault, NoFault
  <2>4. hooks' \subseteq Hooks /\ (\A g \in hooks' : HookOK(g)') /\ dropped' \subseteq Duties
    <3>1. CASE HookGoesOn(h, [h EXCEPT !.pc = "signal", !.pver = payVersion'])
      <4>0. PICK v : v = payVersion'
        OBVIOUS
      <4>6. PICK next : next = [h EXCEPT !.pc = "signal", !.pver = v]
        OBVIOUS
      <4>1. hooks' = Replace(hooks, h, next) /\ UNCHANGED dropped
        BY <3>1, <4>0, <4>6 DEF HookGoesOn
      <4>2. v \in Nat
        BY <2>3, <4>0
      <4>3. next \in Hooks
        BY <1>1, <4>2, <4>6 DEF Hooks
      <4>4. next.pc = "signal" /\ next.pver = v
        BY <1>1, <4>2, <4>6 DEF Hooks
      <4>5. HookOK(next)'
        BY <1>2, <2>1, <2>2, <4>0, <4>2, <4>4 DEF HookOK
      <4> QED
        BY <1>1, <1>2, <2>3, <4>1, <4>3, <4>5, HookGoes
    <3>2. CASE AfterLostAnswer(h)
      <4>1. CASE /\ hooks' = Replace(hooks, h, HookTask(h.id, h.tries + 1))
                 /\ GivesUp({"revoke"})
        <5> DEFINE next == HookTask(h.id, h.tries + 1)
        <5>1. next \in Hooks /\ HookOK(next)'
          <6>1. h.id \in Nat /\ h.tries + 1 \in Nat
            BY <1>1 DEF Hooks
          <6> QED
            BY <2>3, <6>1, FreshHook
        <5> HIDE DEF next
        <5>2. hooks' = Replace(hooks, h, next)
          BY <4>1 DEF next
        <5> QED
          BY <1>1, <1>2, <2>3, <4>1, <5>1, <5>2, HookGoes DEF GivesUp, Duties
      <4>2. CASE hooks' = hooks \ {h} /\ GivesUp({"revoke", "link"})
        BY <1>1, <1>2, <2>3, <4>2, HooksEnd DEF GivesUp, Duties
      <4> QED
        BY <3>2, <4>1, <4>2 DEF AfterLostAnswer
    <3> QED
      BY <2>1, <3>1, <3>2
  <2>5. HookTyped'
    BY <1>1, <2>1, <2>3 DEF HookTyped, RefundInv, TypeOK, order, revocation
  <2>6. StoreInv' /\ AccessInv' /\ transactions' <= 1
    <3>1. \A t \in returns' : t.txn => transactions' > 0
      BY <1>1, <2>1, <2>2
    <3> QED
    BY <1>1, <1>2, <2>1, <2>2, <3>1 DEF RefundInv, StoreInv, AccessInv, given, order, revocation
  <2> QED
    BY <1>1, <2>4, <2>5, <2>6, HookParts DEF order, revocation
<1> QED
  BY <1>3, <1>4

LEMMA SignalStep ==
  ASSUME RefundInv, NEW h \in hooks, revoke_line_mobile_order(h)
  PROVE  RefundInv'
<1> DEFINE next == [h EXCEPT !.pc = "find"]
<1>1. h \in Hooks /\ HookOK(h) /\ h.pc = "signal" /\ transactions \in Nat /\ payVersion \in Nat
      /\ revokes \in Nat /\ faults \in Nat /\ dropped \subseteq Duties
      /\ UNCHANGED <<given, voided, mark, notices, payment, order, returns, legacy, revoked,
                     revokeTries, crossed, received>>
  BY DEF RefundInv, TypeOK, revoke_line_mobile_order, SignalRevoke, Duties
<1>2. transactions > 0 /\ home = "commercetools"
  BY <1>1 DEF HookOK
<1>3. /\ hooks' = Replace(hooks, h, next)
      /\ \/ revokes' = revokes + 1 /\ NoFault /\ UNCHANGED dropped
         \/ Fault /\ GivesUp({"revoke"}) /\ UNCHANGED revokes
  BY DEF revoke_line_mobile_order, SignalRevoke
<1>4. revokes' \in Nat /\ faults' \in Nat /\ dropped' \subseteq Duties
  BY <1>1, <1>3 DEF Fault, NoFault, GivesUp, Duties
<1>5. next \in Hooks
  BY <1>1 DEF Hooks
<1>6. next.pc = "find" /\ next.pver = h.pver
  BY <1>1 DEF Hooks
<1> HIDE DEF next
<1>7. HookOK(next)'
  BY <1>1, <1>2, <1>6 DEF HookOK, payment, given
<1>8. hooks' \subseteq Hooks /\ \A g \in hooks' : HookOK(g)'
  BY <1>1, <1>3, <1>5, <1>7, HookGoes DEF PaymentMoves, given
<1>9. HookTyped'
  BY <1>1, <1>4 DEF HookTyped, RefundInv, TypeOK, payment, order
<1>10. StoreInv' /\ AccessInv' /\ transactions' <= 1
  BY <1>1, <1>2 DEF RefundInv, StoreInv, AccessInv, OneMobileTransaction, given, payment, order
<1> QED
  BY <1>1, <1>4, <1>8, <1>9, <1>10, HookParts DEF order

LEMMA FindStep ==
  ASSUME RefundInv, NEW h \in hooks, find_order_with_unprocessed_return_for_payment(h)
  PROVE  RefundInv'
<1>0. PICK next : next = [h EXCEPT !.pc = "link", !.over = orderVersion]
  OBVIOUS
<1>1. h \in Hooks /\ HookOK(h) /\ h.pc = "find" /\ orderVersion \in Nat /\ dropped \subseteq Duties
      /\ UNCHANGED <<given, voided, mark, notices, payment, order, returns, revocation,
                     legacy, crossed, received, faults>>
  BY DEF RefundInv, TypeOK, find_order_with_unprocessed_return_for_payment, Duties
<1>2. HookGoesOn(h, next) \/ HookEnds(h)
  BY <1>0 DEF find_order_with_unprocessed_return_for_payment
<1>3. next \in Hooks
  BY <1>0, <1>1 DEF Hooks
<1>4. next.pc = "link" /\ next.pver = h.pver
  BY <1>0, <1>1 DEF Hooks
<1>5. HookOK(next)'
  BY <1>1, <1>4 DEF HookOK, payment, given
<1>6. hooks' \subseteq Hooks /\ (\A g \in hooks' : HookOK(g)') /\ dropped' \subseteq Duties
  <2>1. home' = home /\ PaymentMoves
    BY <1>1 DEF PaymentMoves, given
  <2> QED
    BY <1>1, <1>2, <1>3, <1>5, <2>1, HookGoes, HookOver DEF HookGoesOn
<1>7. HookTyped' /\ StoreInv' /\ AccessInv' /\ transactions' <= 1
  BY <1>1 DEF HookTyped, RefundInv, TypeOK, StoreInv, AccessInv, OneMobileTransaction,
              given, payment, order, revocation
<1> QED
  BY <1>1, <1>6, <1>7, HookParts DEF order, revocation

LEMMA LinkStep ==
  ASSUME RefundInv, NEW h \in hooks,
         update_return_payment_state_after_successful_refund(h)
  PROVE  RefundInv'
<1> DEFINE next == [h EXCEPT !.pc = "mark"]
<1>1. h \in Hooks /\ HookOK(h) /\ h.pc = "link" /\ orderVersion \in Nat /\ faults \in Nat
      /\ transactions \in Nat /\ linked \in BOOLEAN /\ dropped \subseteq Duties
      /\ UNCHANGED <<given, voided, mark, notices, payment, return, message, returns,
                     revocation, legacy, crossed, received>>
  BY DEF RefundInv, TypeOK, update_return_payment_state_after_successful_refund, Duties
<1>2. /\ HookGoesOn(h, next) \/ HookRetried(h) \/ HookDies(h)
      /\ orderVersion' \in {orderVersion, orderVersion + 1}
      /\ linked' \in {linked, TRUE}
      /\ Fault \/ NoFault
  BY DEF update_return_payment_state_after_successful_refund, NoFault
<1>3. transactions > 0
  BY <1>1 DEF HookOK
<1>12. orderVersion' \in Nat /\ faults' \in Nat
  BY <1>1, <1>2 DEF Fault, NoFault
<1>4. orderVersion' \in Nat /\ linked' \in BOOLEAN /\ faults' \in Nat
  BY <1>1, <1>2, <1>12
<1>5. next \in Hooks
  BY <1>1 DEF Hooks
<1>6. next.pc = "mark" /\ next.pver = h.pver
  BY <1>1 DEF Hooks
<1>7. HookGoesOn(h, next) => hooks' = Replace(hooks, h, next) /\ UNCHANGED dropped
  BY DEF HookGoesOn
<1> HIDE DEF next
<1>8. HookOK(next)'
  BY <1>1, <1>6 DEF HookOK, payment, given
<1>9. hooks' \subseteq Hooks /\ (\A g \in hooks' : HookOK(g)') /\ dropped' \subseteq Duties
  <2>1. home' = home /\ PaymentMoves
    BY <1>1 DEF PaymentMoves, given
  <2> QED
    BY <1>1, <1>2, <1>5, <1>7, <1>8, <2>1, HookGoes, HookOver
<1>10. HookTyped'
  BY <1>1, <1>4 DEF HookTyped, RefundInv, TypeOK, payment, revocation
<1>11. StoreInv' /\ AccessInv' /\ transactions' <= 1
  BY <1>1, <1>3 DEF RefundInv, StoreInv, AccessInv, OneMobileTransaction, given, payment,
                    revocation
<1> QED
  BY <1>1, <1>9, <1>10, <1>11, HookParts DEF revocation

LEMMA MarkStep ==
  ASSUME RefundInv, NEW h \in hooks, MarkTransaction(h) \/ HookFails(h)
  PROVE  RefundInv'
<1>1. /\ payVersion \in Nat /\ transactions \in Nat /\ faults \in Nat
      /\ UNCHANGED <<given, voided, mark, notices, transactions, order, returns, revocation,
                     legacy, crossed, received>>
      /\ HookEnds(h) \/ HookDies(h) \/ HookRetried(h)
      /\ Fault \/ NoFault
      /\ payVersion' \in {payVersion, payVersion + 1}
  BY DEF MarkTransaction, HookFails, payment, RefundInv, TypeOK, NoFault
<1>2. home' = home /\ PaymentMoves /\ payVersion' \in Nat /\ faults' \in Nat
  BY <1>1 DEF PaymentMoves, given, payment, Fault, NoFault
<1>3. hooks' \subseteq Hooks /\ (\A g \in hooks' : HookOK(g)') /\ dropped' \subseteq Duties
  BY <1>1, <1>2, HookOver
<1>4. HookTyped'
  BY <1>1, <1>2 DEF HookTyped, RefundInv, TypeOK, order, revocation
<1>5. StoreInv' /\ AccessInv' /\ transactions' <= 1
  <2>1. StoreInv'
    <3>1. voided
      BY DEF RefundInv, StoreInv
    <3> QED
      BY <1>1, <3>1 DEF RefundInv, StoreInv, given
  <2> QED
    BY <1>1, <2>1 DEF RefundInv, AccessInv, OneMobileTransaction, order, revocation
<1> QED
  BY <1>1, <1>3, <1>4, <1>5, HookParts DEF order, revocation

-----------------------------------------------------------------------------
(* The return and its tasks. *)

\* A step of the return, put together: the refund tasks and the payment stay.
LEMMA ReturnParts ==
  ASSUME RefundInv, linked' \in BOOLEAN, message' \in BOOLEAN, crossed' \in BOOLEAN,
         orderVersion' \in Nat, faults' \in Nat, return' \in {"none", "Initial", "Refunded"},
         returns' \subseteq Returns, dropped' \subseteq Duties, AccessInv',
         UNCHANGED <<given, voided, mark, notices, payment, hooks, revocation, legacy,
                     received>>
  PROVE  RefundInv'
<1>1. hooks' \subseteq Hooks /\ \A h \in hooks' : HookOK(h)'
  BY HooksEnd DEF PaymentMoves, given
<1>2. TypeOK'
  BY <1>1 DEF RefundInv, TypeOK, given, payment, revocation, Duties
<1>3. StoreInv' /\ OneMobileTransaction'
  BY DEF RefundInv, StoreInv, OneMobileTransaction, given, payment
<1> QED
  BY <1>1, <1>2, <1>3 DEF RefundInv

LEMMA ReturnTypes ==
  ASSUME RefundInv
  PROVE  /\ linked \in BOOLEAN /\ message \in BOOLEAN /\ crossed \in BOOLEAN
         /\ orderVersion \in Nat /\ faults \in Nat /\ transactions \in Nat
         /\ return \in {"none", "Initial", "Refunded"}
         /\ returns \subseteq Returns /\ dropped \subseteq Duties
         /\ MaxRetries \in Nat
BY MobileRefundAssumption DEF RefundInv, TypeOK, Duties

LEMMA FreshReturn ==
  ASSUME NEW tries \in Nat
  PROVE  ReturnTask(tries) \in Returns /\ ReturnTask(tries).txn = FALSE
BY DEF ReturnTask, Returns

LEMMA ReturnMadeStep ==
  ASSUME RefundInv, ReturnMade \/ OrderReturnedView
  PROVE  RefundInv'
<1>1. /\ UNCHANGED <<given, voided, mark, notices, payment, hooks, revocation, legacy,
                     received, linked, crossed, dropped, faults>>
      /\ orderVersion' \in {orderVersion, orderVersion + 1}
      /\ return' \in {return, "Initial"}
      /\ returns' \subseteq returns \cup {ReturnTask(0)}
  BY DEF ReturnMade, OrderReturnedView
<1>2. message' \in BOOLEAN
  BY DEF ReturnMade, OrderReturnedView
<1>3. ReturnTask(0) \in Returns /\ ReturnTask(0).txn = FALSE
  BY FreshReturn
<1>4. AccessInv'
  BY <1>1, <1>3 DEF RefundInv, AccessInv, payment, revocation
<1> QED
  BY <1>1, <1>2, <1>3, <1>4, ReturnTypes, ReturnParts

\* A returned task that is retried, or given up.
LEMMA ReturnOver ==
  ASSUME RefundInv, NEW t \in returns, ReturnRetried(t)
  PROVE  /\ returns' \subseteq Returns /\ dropped' \subseteq Duties
         /\ \A u \in returns' : u \in returns \/ u.txn = FALSE
<1>1. t.tries + 1 \in Nat
  BY ReturnTypes DEF Returns
<1>2. PICK next : next = ReturnTask(t.tries + 1)
  OBVIOUS
<1>3. next \in Returns /\ next.txn = FALSE
  BY <1>1, <1>2, FreshReturn
<1>4. returns' \subseteq returns \cup {next}
  BY <1>2 DEF ReturnRetried, Replace
<1>5. dropped' \subseteq dropped \cup {"return"}
  BY DEF ReturnRetried, GivesUp
<1> QED
  BY <1>3, <1>4, <1>5, ReturnTypes DEF Duties

LEMMA ReadOrderStep ==
  ASSUME RefundInv, NEW t \in returns, ReadOrder(t)
  PROVE  RefundInv'
<1>0. PICK b : b = (transactions > 0)
  OBVIOUS
<1>1. PICK next : next = [t EXCEPT !.pc = "update", !.ver = orderVersion, !.txn = b]
  OBVIOUS
<1>2. t \in Returns /\ b \in BOOLEAN /\ orderVersion \in Nat
  BY <1>0, ReturnTypes
<1>3. next \in Returns
  BY <1>1, <1>2 DEF Returns
<1>4. next.txn = b
  BY <1>1, <1>2 DEF Returns
<1>5. /\ returns' = Replace(returns, t, next)
      /\ UNCHANGED <<given, voided, mark, notices, payment, order, hooks, revocation, legacy,
                     dropped, crossed, received, faults>>
  BY <1>0, <1>1 DEF ReadOrder
<1>6. AccessInv'
  BY <1>0, <1>4, <1>5 DEF RefundInv, AccessInv, payment, order, revocation, Replace
<1> QED
  BY <1>3, <1>5, <1>6, ReturnTypes, ReturnParts DEF order, Replace

LEMMA SettleStep ==
  ASSUME RefundInv, NEW t \in returns,
         update_return_payment_state_for_mobile_order(t) \/ ReturnFails(t)
  PROVE  RefundInv'
<1>1. /\ UNCHANGED <<given, voided, mark, notices, payment, message, hooks, revocation,
                     legacy, received>>
      /\ orderVersion' \in {orderVersion, orderVersion + 1}
      /\ return' \in {return, "Refunded"}
      /\ Fault \/ NoFault
      /\ ReturnRetried(t) \/ (returns' = returns \ {t} /\ UNCHANGED dropped)
  BY DEF update_return_payment_state_for_mobile_order, ReturnFails, order, NoFault
<1>2. linked' \in {linked, linked \/ t.txn}
  BY DEF update_return_payment_state_for_mobile_order, ReturnFails, order, LinkSeen
<1>3. crossed' \in {crossed, crossed \/ (~t.txn /\ transactions > 0)}
  BY DEF update_return_payment_state_for_mobile_order, ReturnFails
<1>4. t.txn \in BOOLEAN
  BY ReturnTypes DEF Returns
<1>5. faults' \in Nat
  BY <1>1, ReturnTypes DEF Fault, NoFault
<1>6. linked' \in BOOLEAN
  BY <1>2, <1>4, ReturnTypes
<1>7. crossed' \in BOOLEAN
  BY <1>3, <1>4, ReturnTypes
<1>8. /\ returns' \subseteq Returns /\ dropped' \subseteq Duties
      /\ \A u \in returns' : u \in returns \/ u.txn = FALSE
  BY <1>1, ReturnTypes, ReturnOver
<1>9. linked' => transactions > 0
  <2>1. t.txn => transactions > 0
    BY DEF RefundInv, AccessInv
  <2>2. linked => transactions > 0
    BY DEF RefundInv, AccessInv
  <2> QED
    BY <1>2, <2>1, <2>2
<1>10. AccessInv'
  BY <1>1, <1>8, <1>9 DEF RefundInv, AccessInv, payment, revocation
<1> QED
  BY <1>1, <1>5, <1>6, <1>7, <1>8, <1>10, ReturnTypes, ReturnParts

-----------------------------------------------------------------------------
(* The revocation. *)

LEMMA RevokeStep ==
  ASSUME RefundInv, revoke_line_mobile_order_task \/ RevokeFails
  PROVE  RefundInv'
<1>1. /\ revokes > 0 /\ revokes \in Nat /\ revokeTries \in Nat /\ revoked \in BOOLEAN
      /\ faults \in Nat
  BY DEF revoke_line_mobile_order_task, RevokeFails, RefundInv, TypeOK
<1>2. /\ UNCHANGED <<given, voided, mark, notices, payment, order, returns, hooks, legacy,
                     crossed, received>>
      /\ revokes' \in {revokes, revokes - 1}
      /\ revokeTries' \in {revokeTries, revokeTries + 1}
      /\ revoked' \in {revoked, TRUE}
      /\ Fault \/ NoFault
      /\ dropped' \subseteq dropped \cup {"revoke"}
  BY DEF revoke_line_mobile_order_task, RevokeFails, GivesUp, NoFault
<1>3. revokes' \in Nat /\ revokeTries' \in Nat /\ faults' \in Nat
  BY <1>1, <1>2 DEF Fault, NoFault
<1>4. hooks' \subseteq Hooks /\ \A h \in hooks' : HookOK(h)'
  BY <1>2, HooksEnd DEF PaymentMoves, given
<1>5. TypeOK'
  BY <1>1, <1>2, <1>3, <1>4 DEF RefundInv, TypeOK, given, payment, order
<1>6. transactions > 0
  BY <1>1 DEF RefundInv, AccessInv
<1>7. StoreInv' /\ AccessInv' /\ OneMobileTransaction'
  BY <1>2, <1>6 DEF RefundInv, StoreInv, AccessInv, OneMobileTransaction, given, payment, order
<1> QED
  BY <1>4, <1>5, <1>7 DEF RefundInv

-----------------------------------------------------------------------------
(* The theorems. *)

LEMMA RefundInit == Init => RefundInv
<1> SUFFICES ASSUME Init PROVE RefundInv
  OBVIOUS
<1>1. passOn \in BOOLEAN
  BY DEF Init
<1>2. TypeOK
  <2>1. {passOn, voided, mark, linked, message, revoked, legacy, crossed} \subseteq BOOLEAN
    <3>1. {voided, mark, linked, message, revoked, legacy, crossed} = {FALSE}
      BY DEF Init
    <3> QED
      BY <1>1, <3>1
  <2>2. /\ notices = {} /\ returns = {} /\ hooks = {} /\ dropped = {}
        /\ {payVersion, transactions, orderVersion, revokes, revokeTries, received, faults}
             \subseteq Nat
        /\ return = "none"
    BY DEF Init
  <2>3. platform \in {"ios", "android"} /\ home \in {"commercetools", "legacy"}
    BY DEF Init
  <2> QED
    BY <2>1, <2>2, <2>3 DEF TypeOK
<1> QED
  BY <1>2 DEF Init, RefundInv, OneMobileTransaction, StoreInv, AccessInv

LEMMA RefundStep == RefundInv /\ [Next]_vars => RefundInv'
<1> SUFFICES ASSUME RefundInv, [Next]_vars PROVE RefundInv'
  OBVIOUS
<1>1. CASE StoreRefund \/ _is_running \/ ExpireMark
  BY <1>1, StoreStep
<1>2. CASE \E n \in notices : IOSRefundView(n) \/ AndroidRefundView(n)
  BY <1>2, ViewStep
<1>3. CASE \E h \in hooks : HookStep(h) \/ HookFails(h)
  BY <1>3, NotOursStep, ReadPaymentStep, RecordStep, SignalStep, FindStep, LinkStep, MarkStep
     DEF HookStep
<1>4. CASE ReturnMade \/ OrderReturnedView
  BY <1>4, ReturnMadeStep
<1>5. CASE \E t \in returns : ReturnStep(t) \/ ReturnFails(t)
  BY <1>5, ReadOrderStep, SettleStep DEF ReturnStep
<1>6. CASE revoke_line_mobile_order_task \/ RevokeFails
  BY <1>6, RevokeStep
<1>7. CASE UNCHANGED vars
  <2>1. UNCHANGED <<given, voided, mark, notices, payment, order, returns, hooks, revocation,
                    legacy, dropped, crossed, received, faults>>
    BY <1>7 DEF vars
  <2>2. AccessInv'
    BY <2>1 DEF RefundInv, AccessInv, payment, order, revocation
  <2> QED
    BY <2>1, <2>2, ReturnTypes, ReturnParts DEF order
<1> QED
  BY <1>1, <1>2, <1>3, <1>4, <1>5, <1>6, <1>7 DEF Next

LEMMA RefundInvariant == Spec => []RefundInv
BY RefundInit, RefundStep, PTL DEF Spec

(* Every variable stays in its set. *)
THEOREM MobileRefundTyped == Spec => []TypeOK
<1>1. RefundInv => TypeOK
  BY DEF RefundInv
<1> QED
  BY <1>1, RefundInvariant, PTL

(* However often the store's notification is delivered, and its task retried, the
   refund is recorded once. *)
THEOREM MobileRefundOnce == Spec => []OneMobileTransaction
<1>1. RefundInv => OneMobileTransaction
  BY DEF RefundInv
<1> QED
  BY <1>1, RefundInvariant, PTL

(* Access is withdrawn, and a return linked, only on the store's refund of an order
   that Commercetools has. *)
THEOREM RefundRested == Spec => []RestsOnRefund
<1>1. RefundInv => RestsOnRefund
  BY DEF RefundInv, StoreInv, AccessInv, RestsOnRefund
<1> QED
  BY <1>1, RefundInvariant, PTL

-----------------------------------------------------------------------------
(* A refunded return gets its transaction.  While it has none, there is a task that is
   still to look for it, or a reason why there is none. *)

Linking == {"payment", "record", "signal", "find", "link"}

Due ==
  \/ linked \/ crossed \/ return # "Refunded" \/ "link" \in dropped
  \/ \E h \in hooks : h.pc \in Linking

LinkInv == transactions > 0 => Due

\* A step that ends no task, and does not touch the return or the payment.
LEMMA LinkKept ==
  ASSUME LinkInv, hooks \subseteq hooks', dropped \subseteq dropped', crossed' = crossed,
         transactions' = transactions, return' = return, linked' = linked
  PROVE  LinkInv'
BY DEF LinkInv, Due

\* A task that dies gives up the link; one that is retried will look for the return.
LEMMA OverIsDue ==
  ASSUME NEW h, HookDies(h) \/ HookRetried(h) \/ AfterLostAnswer(h)
  PROVE  Due'
<1>1. "link" \in Unfinished(h)
  BY DEF Unfinished
<1>2. HookTask(h.id, h.tries + 1).pc \in Linking
  BY DEF HookTask, Linking
<1>3. CASE "link" \in dropped'
  BY <1>3 DEF Due
<1>4. CASE HookTask(h.id, h.tries + 1) \in hooks'
  BY <1>2, <1>4 DEF Due
<1> QED
  BY <1>1, <1>3, <1>4 DEF HookDies, HookRetried, HookGoesOn, AfterLostAnswer, GivesUp, Replace

\* A task that goes on before its last step.
LEMMA NextIsDue ==
  ASSUME NEW h, NEW next, next.pc \in Linking, hooks' = Replace(hooks, h, next)
  PROVE  Due'
BY DEF Due, Replace

LEMMA HookLinks ==
  ASSUME RefundInv, LinkInv, NEW h \in hooks, HookStep(h) \/ HookFails(h)
  PROVE  LinkInv'
<1>1. h \in Hooks
  BY DEF RefundInv, TypeOK
<1>2. CASE NotOurs(h)
  <2>1. ~(transactions > 0) /\ transactions' = transactions
    BY <1>2 DEF NotOurs, RefundInv, StoreInv, payment
  <2> QED
    BY <2>1 DEF LinkInv
<1>3. CASE ReadPayment(h)
  <2>1. PICK next : next = [h EXCEPT !.pver = payVersion,
                                    !.pc = IF transactions > 0 THEN "find" ELSE "record"]
    OBVIOUS
  <2>2. next.pc \in Linking
    BY <1>1, <2>1 DEF Hooks, Linking
  <2>3. hooks' = Replace(hooks, h, next)
    BY <1>3, <2>1 DEF ReadPayment, HookGoesOn
  <2> QED
    BY <2>2, <2>3, NextIsDue DEF LinkInv
<1>4. CASE RecordRefund(h)
  <2>1. CASE HookGoesOn(h, [h EXCEPT !.pc = "signal", !.pver = payVersion'])
    <3>1. PICK next : next = [h EXCEPT !.pc = "signal", !.pver = payVersion']
      OBVIOUS
    <3>2. next.pc \in Linking
      BY <1>1, <3>1 DEF Hooks, Linking
    <3> QED
      BY <2>1, <3>1, <3>2, NextIsDue DEF LinkInv, HookGoesOn
  <2>2. CASE HookRetried(h) \/ AfterLostAnswer(h)
    BY <2>2, OverIsDue DEF LinkInv
  <2> QED
    BY <1>4, <2>1, <2>2 DEF RecordRefund
<1>5. CASE revoke_line_mobile_order(h)
  <2>1. PICK next : next = [h EXCEPT !.pc = "find"]
    OBVIOUS
  <2>2. next.pc \in Linking
    BY <1>1, <2>1 DEF Hooks, Linking
  <2> QED
    BY <1>5, <2>1, <2>2, NextIsDue DEF LinkInv, revoke_line_mobile_order, SignalRevoke
<1>6. CASE find_order_with_unprocessed_return_for_payment(h)
  <2>1. CASE Unprocessed
    <3>1. PICK next : next = [h EXCEPT !.pc = "link", !.over = orderVersion]
      OBVIOUS
    <3>2. next.pc \in Linking
      BY <1>1, <3>1 DEF Hooks, Linking
    <3> QED
      BY <1>6, <2>1, <3>1, <3>2, NextIsDue
         DEF LinkInv, find_order_with_unprocessed_return_for_payment, HookGoesOn
  <2>2. CASE ~Unprocessed
    <3>1. return' = return /\ linked' = linked
      BY <1>6 DEF find_order_with_unprocessed_return_for_payment, order
    <3>2. return # "Refunded" \/ linked
      BY <2>2 DEF Unprocessed
    <3> QED
      BY <3>1, <3>2 DEF LinkInv, Due
  <2> QED
    BY <2>1, <2>2
<1>7. CASE update_return_payment_state_after_successful_refund(h)
  <2>1. CASE linked' = TRUE
    BY <2>1 DEF LinkInv, Due
  <2>2. CASE HookDies(h)
    BY <2>2, OverIsDue DEF LinkInv
  <2> QED
    BY <1>7, <2>1, <2>2 DEF update_return_payment_state_after_successful_refund
<1>8. CASE MarkTransaction(h)
  <2>1. CASE HookDies(h)
    BY <2>1, OverIsDue DEF LinkInv
  <2>2. CASE HookEnds(h)
    <3>1. h.pc \notin Linking
      BY <1>8 DEF MarkTransaction, Linking
    <3>2. hooks' = hooks \ {h} /\ dropped' = dropped
      BY <2>2 DEF HookEnds
    <3>3. UNCHANGED <<transactions, return, linked, crossed>>
      BY <1>8 DEF MarkTransaction, order
    <3> QED
      BY <3>1, <3>2, <3>3 DEF LinkInv, Due
  <2> QED
    BY <1>8, <2>1, <2>2 DEF MarkTransaction
<1>9. CASE HookFails(h)
  BY <1>9, OverIsDue DEF LinkInv, HookFails
<1> QED
  BY <1>2, <1>3, <1>4, <1>5, <1>6, <1>7, <1>8, <1>9 DEF HookStep

LEMMA ReturnLinks ==
  ASSUME RefundInv, LinkInv, NEW t \in returns, ReturnStep(t) \/ ReturnFails(t)
  PROVE  LinkInv'
<1>1. t.txn \in BOOLEAN
  BY DEF RefundInv, TypeOK, Returns
<1>2. CASE ReadOrder(t)
  BY <1>2, LinkKept DEF ReadOrder, payment, order
<1>3. CASE update_return_payment_state_for_mobile_order(t)
  <2>1. hooks' = hooks /\ transactions' = transactions
    BY <1>3 DEF update_return_payment_state_for_mobile_order, payment
  <2>2. CASE t.ver = orderVersion
    <3>1. linked' = LinkSeen(t) /\ crossed' = (crossed \/ (~t.txn /\ transactions > 0))
      BY <1>3, <2>2 DEF update_return_payment_state_for_mobile_order
    <3> QED
      BY <1>1, <2>1, <3>1, Zenon DEF LinkInv, Due, LinkSeen
  <2>3. CASE t.ver # orderVersion
    <3>1. UNCHANGED <<return, linked, crossed>> /\ dropped \subseteq dropped'
      BY <1>3, <2>3 DEF update_return_payment_state_for_mobile_order, ReturnRetried, GivesUp
    <3> QED
      BY <2>1, <3>1, LinkKept
  <2> QED
    BY <2>2, <2>3
<1>4. CASE ReturnFails(t)
  BY <1>4, LinkKept DEF ReturnFails, ReturnRetried, GivesUp, payment, order
<1> QED
  BY <1>2, <1>3, <1>4 DEF ReturnStep

LEMMA KeepsLink == RefundInv /\ LinkInv /\ [Next]_vars => LinkInv'
<1> SUFFICES ASSUME RefundInv, LinkInv, [Next]_vars PROVE LinkInv'
  OBVIOUS
<1>1. CASE StoreRefund \/ _is_running \/ ExpireMark
  BY <1>1, LinkKept DEF StoreRefund, _is_running, ExpireMark, payment, order
<1>2. CASE \E n \in notices : IOSRefundView(n) \/ AndroidRefundView(n)
  BY <1>2, LinkKept
     DEF IOSRefundView, AndroidRefundView, mark_running, GivesUp, payment, order
<1>3. CASE \E h \in hooks : HookStep(h) \/ HookFails(h)
  BY <1>3, HookLinks
<1>4. CASE ReturnMade
  BY <1>4 DEF ReturnMade, LinkInv, Due
<1>5. CASE OrderReturnedView
  BY <1>5, LinkKept DEF OrderReturnedView, payment
<1>6. CASE \E t \in returns : ReturnStep(t) \/ ReturnFails(t)
  BY <1>6, ReturnLinks
<1>7. CASE revoke_line_mobile_order_task \/ RevokeFails
  BY <1>7, LinkKept DEF revoke_line_mobile_order_task, RevokeFails, GivesUp, payment, order
<1>8. CASE UNCHANGED vars
  BY <1>8, LinkKept DEF vars, payment, order
<1> QED
  BY <1>1, <1>2, <1>3, <1>4, <1>5, <1>6, <1>7, <1>8 DEF Next

(* When the tasks are done, a refunded return names the refund transaction, in whatever
   order the return and the store's notification came, unless a task gave up on it or a
   returned task crossed the refund's. *)
THEOREM ReturnIsLinked == Spec => []ReturnLinked
<1>1. Init => LinkInv
  BY DEF Init, LinkInv
<1>2. LinkInv => ReturnLinked
  BY DEF LinkInv, Due, ReturnLinked, AtRest
<1> QED
  BY <1>1, <1>2, KeepsLink, RefundInvariant, PTL DEF Spec
=============================================================================
