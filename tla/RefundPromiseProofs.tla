------------------------- MODULE RefundPromiseProofs -------------------------
(***************************************************************************)
(* Theorems about the money of a return, for any number of items,          *)
(* requests, redeliveries, retries and faults: Refund implements           *)
(* RefundPromise, and an item is refunded once, and once more at most for  *)
(* each fault and each redelivery.                                         *)
(***************************************************************************)
EXTENDS RefundProofs

-----------------------------------------------------------------------------
(* The invariant.  It follows the money: what the payment records is money the
   PSP has returned, so that a payment "refunded in full" is; and what a task
   was told, by the order, the payment or the PSP, bears out what it will make
   of the return. *)

\* What the PSP has returned and the payment does not record.
Outstanding(r) == IF is_transaction_already_refunded(r) THEN 0 ELSE refunds[r].amount

\* The partial sums of it, refund by refund, and what the payment records add up to
\* what the PSP has returned.
AddsUp(d) ==
  /\ d \in [0..Len(refunds) -> Int]
  /\ d[0] = 0
  /\ \A r \in 1..Len(refunds) : d[r] = d[r - 1] + Outstanding(r)
  /\ payTotal + d[Len(refunds)] = pspTotal

\* A refund is recorded twice only when the PSP has nothing left to return.
BooksInv == pspTotal = N \/ \E d : AddsUp(d)

Announced == messages \cup delivered

\* Messages have their items for themselves, and those are settled together.
ReturnedInv ==
  /\ \A i \in Items : created[i] = 0 <=> payState[i] = "none"
  /\ \A i \in Items : payState[i] = "Refunded" => i \in Covered /\ psp # "free"
  /\ \A S \in Announced : \A i \in S : created[i] > 0
  /\ \A S, T \in Announced : \A i \in S : i \in T => S = T
  /\ \A S \in Announced : \A i, j \in S : payState[i] = "Refunded" => payState[j] = "Refunded"

\* The calls of a task after the PSP has answered.
Late == {"record", "look", "settle", "link", "revoke"}

NotYetRefunded(S) == \A i \in S : payState[i] # "Refunded"

\* Where the task is.
Placed(t) ==
  /\ t.items \in delivered
  /\ t.ver <= orderVersion
  /\ psp = "free" => t.pc \in {"fetch", "free"}
  /\ t.pc = "free" => psp = "free"

\* What it knows before the PSP answers ...
AsksWell(t) ==
  /\ t.pc \in {"payment", "refund"} =>
       /\ t.due \subseteq t.items
       /\ t.items \ t.due \subseteq Covered
       /\ t.ver = orderVersion => NotYetRefunded(t.due)
  /\ t.pc = "refund" /\ t.full => pspTotal = N

\* ... and after it.
IsToldWell(t) ==
  /\ t.pc \in Late /\ t.outcome # "error" => t.items \subseteq Covered
  /\ t.pc = "record" /\ t.outcome = "listed" => pspTotal = N
  /\ t.pc \in {"record", "look", "settle"} /\ t.outcome = "error" /\ t.ver = orderVersion
       => NotYetRefunded(t.items)

Honest(t) == Placed(t) /\ AsksWell(t) /\ IsToldWell(t)

TasksInv == \A t \in returns : Honest(t)

RevocationsInv == \A v \in revokes : v.items \subseteq Covered /\ v.left \subseteq v.items

PromiseInv == BooksInv /\ ReturnedInv /\ TasksInv /\ RevocationsInv

-----------------------------------------------------------------------------
(* How the actions appear in RefundPromise. *)

LEMMA MapsStutter ==
  ASSUME UNCHANGED <<payState, refunds, pspTotal, revoked>>
  PROVE  UNCHANGED Promise!vars
BY DEF Promise!vars, Covered

\* Items that get a payment state get its status.
LEMMA StatusFollows ==
  ASSUME NEW S, NEW to, payState' = [i \in Items |-> IF i \in S THEN to ELSE payState[i]]
  PROVE  [i \in Items |-> Status(payState[i])]'
           = [i \in Items |-> IF i \in S THEN Status(to)
                              ELSE [j \in Items |-> Status(payState[j])][i]]
<1>1. \A i \in Items : payState'[i] = IF i \in S THEN to ELSE payState[i]
  OBVIOUS
<1> QED
  BY <1>1

LEMMA MapsReturn ==
  ASSUME ReturnedInv, NEW S \in SUBSET Items, \A i \in S : created[i] = 0,
         AddReturnInfo(S), UNCHANGED <<refunds, pspTotal, revoked>>
  PROVE  Promise!Return(S)
<1>1. \A i \in S : [j \in Items |-> Status(payState[j])][i] = "kept"
  BY DEF ReturnedInv, Status
<1>2. payState' = [i \in Items |-> IF i \in S THEN "Initial" ELSE payState[i]]
  BY DEF AddReturnInfo
<1>3. Status("Initial") = "returned"
  BY DEF Status
<1>4. [i \in Items |-> Status(payState[i])]'
        = [i \in Items |-> IF i \in S THEN "returned"
                           ELSE [j \in Items |-> Status(payState[j])][i]]
  BY <1>2, <1>3, StatusFollows
<1>5. UNCHANGED <<Covered, revoked>>
  BY DEF Covered
<1> QED
  BY <1>1, <1>4, <1>5 DEF Promise!Return

LEMMA MapsConfirm ==
  ASSUME RefundInv, ReturnedInv, NEW S \in Announced, S \subseteq Items, S \subseteq Covered,
         SettleItems(S, "Refunded"), UNCHANGED <<refunds, pspTotal, revoked>>
  PROVE  Promise!Confirm(S)
<1>1. \A i \in S : [j \in Items |-> Status(payState[j])][i] # "kept"
  <2>1. \A i \in S : payState[i] \in PayStates /\ payState[i] # "none"
    <3>1. \A i \in S : created[i] > 0
      BY DEF ReturnedInv
    <3>2. \A i \in S : payState[i] \in PayStates /\ created[i] # 0
      BY <3>1 DEF RefundInv, OrderInv
    <3> QED
      BY <3>2 DEF ReturnedInv
  <2> QED
    BY <2>1 DEF Status, PayStates
<1>2. payState' = [i \in Items |-> IF i \in S THEN "Refunded" ELSE payState[i]]
  BY DEF SettleItems
<1>3. Status("Refunded") = "refunded"
  BY DEF Status
<1>4. [i \in Items |-> Status(payState[i])]'
        = [i \in Items |-> IF i \in S THEN "refunded"
                           ELSE [j \in Items |-> Status(payState[j])][i]]
  BY <1>2, <1>3, StatusFollows
<1>5. UNCHANGED <<Covered, revoked>>
  BY DEF Covered
<1> QED
  BY <1>1, <1>4, <1>5 DEF Promise!Confirm

LEMMA MapsRefuse ==
  ASSUME RefundInv, ReturnedInv, NEW S \in Announced, S \subseteq Items, NotYetRefunded(S),
         SettleItems(S, "NotRefunded"), UNCHANGED <<refunds, pspTotal, revoked>>
  PROVE  Promise!Refuse(S)
<1>1. \A i \in S : [j \in Items |-> Status(payState[j])][i] \in {"returned", "refused"}
  <2>1. \A i \in S : payState[i] \in {"Initial", "NotRefunded"}
    <3>1. \A i \in S : created[i] > 0
      BY DEF ReturnedInv
    <3>2. \A i \in S : payState[i] \in PayStates /\ created[i] # 0
      BY <3>1 DEF RefundInv, OrderInv
    <3> QED
      BY <3>2 DEF ReturnedInv, PayStates, NotYetRefunded
  <2> QED
    BY <2>1 DEF Status
<1>2. payState' = [i \in Items |-> IF i \in S THEN "NotRefunded" ELSE payState[i]]
  BY DEF SettleItems
<1>3. Status("NotRefunded") = "refused"
  BY DEF Status
<1>4. [i \in Items |-> Status(payState[i])]'
        = [i \in Items |-> IF i \in S THEN "refused"
                           ELSE [j \in Items |-> Status(payState[j])][i]]
  BY <1>2, <1>3, StatusFollows
<1>5. UNCHANGED <<Covered, revoked>>
  BY DEF Covered
<1> QED
  BY <1>1, <1>4, <1>5 DEF Promise!Refuse

LEMMA MapsPay ==
  ASSUME Covered \subseteq Covered', UNCHANGED <<payState, revoked>>
  PROVE  Promise!Pay(Covered')
<1>1. Covered' = Covered \cup Covered'
  OBVIOUS
<1> QED
  BY <1>1 DEF Promise!Pay

LEMMA MapsRevoke ==
  ASSUME NEW i \in Covered, revoked' = revoked \cup {i},
         UNCHANGED <<payState, refunds, pspTotal>>
  PROVE  Promise!Revoke(i)
BY DEF Promise!Revoke, Covered

-----------------------------------------------------------------------------
(* What the learner has the money back for. *)

LEMMA ItemsAreFinite == \A S \in SUBSET Items : IsFiniteSet(S)
<1>1. 1 \in Int /\ N \in Int
  BY RefundAssumption
<1>2. IsFiniteSet(Items)
  BY <1>1, FS_Interval DEF Items
<1> QED
  BY <1>2, FS_Subset

LEMMA CoveredIsItems ==
  ASSUME RefundInv
  PROVE  Covered \subseteq Items
<1>1. \A r \in DOMAIN refunds : refunds[r] \in PspRefunds
  BY DEF RefundInv, PspInv
<1> QED
  BY <1>1 DEF Covered, PspRefunds

LEMMA CoveredGrows ==
  ASSUME RefundInv, NEW S \in SUBSET Items, NEW amount \in Nat, PspRefund(S, amount)
  PROVE  /\ Covered \subseteq Covered' /\ S \subseteq Covered'
         /\ pspTotal = N => pspTotal' = N
<1>1. /\ refunds \in Seq(PspRefunds) /\ pspTotal \in Nat /\ N \in Nat
      /\ Len(refunds) \in Nat /\ Covered \subseteq Items
  BY CoveredIsItems, RefundAssumption DEF RefundInv, PspInv
<1>2. PICK r : r = [items |-> S, amount |-> amount]
  OBVIOUS
<1>3. r.items = S /\ refunds' = Append(refunds, r)
  BY <1>2 DEF PspRefund
<1>4. /\ Len(refunds) + 1 \in DOMAIN refunds' /\ refunds'[Len(refunds) + 1] = r
      /\ \A k \in DOMAIN refunds : k \in DOMAIN refunds' /\ refunds'[k] = refunds[k]
  BY <1>1, <1>3
<1>5. pspTotal = N => pspTotal' = N
  BY <1>1 DEF PspRefund
<1>6. CASE pspTotal' = N
  BY <1>1, <1>5, <1>6 DEF Covered
<1>7. CASE pspTotal' # N
  <2>1. Covered = UNION {refunds[k].items : k \in DOMAIN refunds}
    BY <1>5, <1>7 DEF Covered
  <2>2. Covered' = UNION {refunds'[k].items : k \in DOMAIN refunds'}
    BY <1>7 DEF Covered
  <2> QED
    BY <1>3, <1>4, <1>5, <2>1, <2>2
<1> QED
  BY <1>5, <1>6, <1>7

LEMMA CoveredKept ==
  ASSUME UNCHANGED <<refunds, pspTotal>>
  PROVE  Covered' = Covered
BY DEF Covered

-----------------------------------------------------------------------------
(* The books. *)

\* What is outstanding is never less than nothing: a sum has no first prefix below zero.
LEMMA PrefixesNotNegative ==
  ASSUME RefundInv, NEW d, AddsUp(d)
  PROVE  d[Len(refunds)] >= 0
<1>1. /\ refunds \in Seq(PspRefunds) /\ Len(refunds) \in Nat
      /\ \A r \in 1..Len(refunds) : refunds[r] \in PspRefunds
  BY DEF RefundInv, PspInv
<1>2. \A r \in 1..Len(refunds) : Outstanding(r) \in Nat
  BY <1>1 DEF Outstanding, PspRefunds
<1>0. d \in [0..Len(refunds) -> Int] /\ d[0] = 0
  BY DEF AddsUp
<1> DEFINE Below == {r \in 0..Len(refunds) : d[r] < 0}
<1>3. SUFFICES ASSUME Below # {}
               PROVE  FALSE
  BY <1>0, <1>1
<1>10. Below \subseteq Nat
  BY <1>1
<1>4. PICK r \in Below : \A s \in Below : r <= s
  <2> HIDE DEF Below
  <2> QED
    BY <1>3, <1>10, HasFirst
<1>5. r \in 1..Len(refunds)
  BY <1>0, <1>1, <1>4
<1>6. r - 1 \in 0..Len(refunds) /\ r - 1 \notin Below
  BY <1>1, <1>4, <1>5
<1>7. d[r - 1] \in Int /\ d[r - 1] >= 0
  BY <1>0, <1>6
<1>8. d[r] = d[r - 1] + Outstanding(r)
  BY <1>5 DEF AddsUp
<1>9. d[r] >= 0
  BY <1>2, <1>5, <1>7, <1>8
<1>11. d[r] < 0 /\ d[r] \in Int
  BY <1>0, <1>4
<1> QED
  BY <1>9, <1>11

\* A payment that is refunded in full in Commercetools is at the PSP.
LEMMA FullIsFull ==
  ASSUME RefundInv, BooksInv, has_full_refund_transaction
  PROVE  pspTotal = N
<1>1. ASSUME NEW d, AddsUp(d)
      PROVE  pspTotal = N
  <2>1. /\ pspTotal \in Nat /\ pspTotal <= N /\ N \in Nat /\ payTotal = N
        /\ Len(refunds) \in Nat
    BY RefundAssumption DEF RefundInv, PspInv, has_full_refund_transaction
  <2>2. d[Len(refunds)] \in Int /\ d[Len(refunds)] >= 0
    BY <1>1, <2>1, PrefixesNotNegative DEF AddsUp
  <2>3. payTotal + d[Len(refunds)] = pspTotal
    BY <1>1 DEF AddsUp
  <2> QED
    BY <2>1, <2>2, <2>3
<1> QED
  BY <1>1 DEF BooksInv

LEMMA BooksKept ==
  ASSUME BooksInv, UNCHANGED <<transactions, payTotal, refunds, pspTotal>>
  PROVE  BooksInv'
BY DEF BooksInv, AddsUp, Outstanding, is_transaction_already_refunded

\* A new refund is outstanding.
LEMMA BooksOfRefund ==
  ASSUME RefundInv, BooksInv, NEW S \in SUBSET Items, NEW amount \in Nat,
         PspRefund(S, amount), UNCHANGED payment
  PROVE  BooksInv'
<1>1. CASE pspTotal = N
  BY <1>1, CoveredGrows DEF BooksInv
<1>2. ASSUME NEW d, AddsUp(d)
      PROVE  \E e : AddsUp(e)'
  <2>1. /\ refunds \in Seq(PspRefunds) /\ Len(refunds) \in Nat /\ pspTotal \in Nat
        /\ payTotal \in Nat /\ UNCHANGED <<transactions, payTotal>>
    BY DEF RefundInv, PspInv, PaymentInv, payment
  <2>2. PICK m, n : m = Len(refunds) /\ n = m + 1
    OBVIOUS
  <2>3. PICK r : r = [items |-> S, amount |-> amount]
    OBVIOUS
  <2>4. r.amount = amount /\ refunds' = Append(refunds, r) /\ pspTotal' = pspTotal + amount
    BY <2>3 DEF PspRefund
  <2>5. /\ Len(refunds') = n /\ m \in Nat /\ n \in Nat
        /\ refunds'[n] = r /\ \A k \in 1..m : refunds'[k] = refunds[k]
    BY <2>1, <2>2, <2>4
  <2>6. ~is_transaction_already_refunded(n)
    BY <2>2, NewRefund
  <2>7. Outstanding(n)' = amount /\ \A k \in 1..m : Outstanding(k)' = Outstanding(k)
    BY <2>1, <2>2, <2>4, <2>5, <2>6 DEF Outstanding, is_transaction_already_refunded
  <2>8. PICK e : e = [k \in 0..n |-> IF k = n THEN d[m] + amount ELSE d[k]]
    OBVIOUS
  <2>9. /\ d \in [0..m -> Int] /\ d[0] = 0 /\ payTotal + d[m] = pspTotal
        /\ \A k \in 1..m : d[k] = d[k - 1] + Outstanding(k)
    BY <1>2, <2>2 DEF AddsUp
  <2>10. e \in [0..n -> Int]
    BY <2>2, <2>5, <2>8, <2>9
  <2>11. e[n] = d[m] + amount /\ \A k \in 0..m : e[k] = d[k]
    BY <2>2, <2>5, <2>8
  <2>12. ASSUME NEW k \in 1..n
         PROVE  e[k] = e[k - 1] + Outstanding(k)'
    <3>1. CASE k = n
      <4>1. k - 1 = m /\ m \in 0..m
        BY <2>2, <2>5, <3>1
      <4> QED
        BY <2>7, <2>11, <3>1, <4>1
    <3>2. CASE k # n
      <4>1. k \in 1..m /\ k \in 0..m /\ k - 1 \in 0..m
        BY <2>2, <2>5, <3>2
      <4> QED
        BY <2>7, <2>9, <2>11, <4>1
    <3> QED
      BY <3>1, <3>2
  <2>13. payTotal' + e[n] = pspTotal' /\ e[0] = 0
    <3>1. d[m] \in Int /\ 0 \in 0..m
      BY <2>5, <2>9
    <3>2. e[0] = 0
      BY <2>9, <2>11, <3>1
    <3>3. PICK x \in Int : x = d[m]
      BY <3>1
    <3>4. e[n] = x + amount /\ payTotal + x = pspTotal /\ payTotal' = payTotal
      BY <2>1, <2>9, <2>11, <3>3
    <3>5. payTotal + (x + amount) = pspTotal + amount
      BY <2>1, <3>4
    <3> QED
      BY <2>4, <3>2, <3>4, <3>5
  <2>14. AddsUp(e)'
    BY <2>5, <2>10, <2>12, <2>13 DEF AddsUp
  <2> QED
    BY <2>14
<1> QED
  BY <1>1, <1>2 DEF BooksInv

\* A refund that was not recorded no longer is outstanding.
LEMMA BooksOfTransaction ==
  ASSUME RefundInv, BooksInv, NEW ver, NEW r \in 1..Len(refunds), NEW listed,
         create_return_payment_transaction(ver, r, listed),
         pspTotal = N \/ ~is_transaction_already_refunded(r), UNCHANGED atPsp
  PROVE  BooksInv'
<1>1. UNCHANGED <<refunds, pspTotal>>
  BY DEF atPsp
<1>2. ASSUME NEW d, AddsUp(d), ~is_transaction_already_refunded(r)
      PROVE  \E e : AddsUp(e)'
  <2>1. /\ refunds \in Seq(PspRefunds) /\ Len(refunds) \in Nat /\ payTotal \in Nat
        /\ transactions \in Seq(Transactions(Len(refunds))) /\ pspTotal \in Nat
        /\ refunds[r] \in PspRefunds
    BY DEF RefundInv, PspInv, PaymentInv
  <2>2. PICK a : a = refunds[r].amount
    OBVIOUS
  <2>3. a \in Nat /\ payTotal' = payTotal + a
    BY <2>1, <2>2 DEF PspRefunds, create_return_payment_transaction
  <2>4. PICK x : x = [refund |-> r, listed |-> listed]
    OBVIOUS
  <2>5. x.refund = r /\ transactions' = Append(transactions, x)
    BY <2>4 DEF create_return_payment_transaction
  <2>6. /\ DOMAIN transactions' = 1..(Len(transactions) + 1) /\ Len(transactions) \in Nat
        /\ DOMAIN transactions = 1..Len(transactions)
        /\ transactions'[Len(transactions) + 1] = x
        /\ \A k \in 1..Len(transactions) : transactions'[k] = transactions[k]
    BY <2>1, <2>5
  <2>7. \A k : is_transaction_already_refunded(k)' <=> is_transaction_already_refunded(k) \/ k = r
    BY <2>5, <2>6 DEF is_transaction_already_refunded
  <2>8. \A k \in 1..Len(refunds) :
          Outstanding(k)' = IF k = r THEN 0 ELSE Outstanding(k)
    BY <1>1, <2>7 DEF Outstanding
  <2>9. Outstanding(r) = a
    BY <1>2, <2>2 DEF Outstanding
  <2>10. PICK e : e = [k \in 0..Len(refunds) |-> IF k < r THEN d[k] ELSE d[k] - a]
    OBVIOUS
  <2>11. (\A k \in 0..Len(refunds) : d[k] \in Int) /\ d[0] = 0
    BY <1>2, <2>1 DEF AddsUp
  <2>12. e \in [0..Len(refunds) -> Int]
    BY <2>3, <2>10, <2>11
  <2>13. e[0] = 0 /\ e[Len(refunds)] = d[Len(refunds)] - a
    BY <2>1, <2>10, <2>11
  <2>14. ASSUME NEW k \in 1..Len(refunds)
         PROVE  e[k] = e[k - 1] + Outstanding(k)'
    <3>1. /\ k \in 0..Len(refunds) /\ k - 1 \in 0..Len(refunds) /\ k \in Nat /\ r \in Nat
      BY <2>1
    <3>2. d[k] = d[k - 1] + Outstanding(k) /\ d[k] \in Int /\ d[k - 1] \in Int
      BY <1>2, <2>11, <3>1 DEF AddsUp
    <3>3. /\ e[k] = (IF k < r THEN d[k] ELSE d[k] - a)
          /\ e[k - 1] = (IF k - 1 < r THEN d[k - 1] ELSE d[k - 1] - a)
      BY <2>10, <3>1
    <3>4. CASE k < r
      BY <2>8, <3>1, <3>2, <3>3, <3>4
    <3>5. CASE k = r
      BY <2>3, <2>8, <2>9, <3>1, <3>2, <3>3, <3>5
    <3>6. CASE k > r
      <4>1. Outstanding(k) \in Nat
        <5>1. refunds[k] \in PspRefunds
          BY <2>1
        <5> QED
          BY <5>1 DEF Outstanding, PspRefunds
      <4>2. ~(k < r) /\ ~(k - 1 < r) /\ k # r
        BY <3>1, <3>6
      <4> QED
        BY <2>3, <2>8, <3>2, <3>3, <4>1, <4>2
    <3> QED
      BY <3>1, <3>4, <3>5, <3>6
  <2>15. payTotal' + e[Len(refunds)] = pspTotal
    <3>1. payTotal + d[Len(refunds)] = pspTotal /\ d[Len(refunds)] \in Int
      BY <1>2, <2>1, <2>11 DEF AddsUp
    <3> QED
      BY <2>1, <2>3, <2>13, <3>1
  <2>16. AddsUp(e)'
    BY <1>1, <2>12, <2>13, <2>14, <2>15 DEF AddsUp
  <2> QED
    BY <2>16
<1> QED
  BY <1>1, <1>2 DEF BooksInv
-----------------------------------------------------------------------------
(* What a step of others leaves true. *)

Advances ==
  /\ psp' = psp /\ delivered \subseteq delivered'
  /\ Covered \subseteq Covered' /\ (pspTotal = N => pspTotal' = N)
  /\ \/ UNCHANGED <<orderVersion, payState>>
     \/ orderVersion' = orderVersion + 1

LEMMA HonestStays ==
  ASSUME RefundInv, Advances, NEW t \in returns, Honest(t)
  PROVE  Honest(t)'
<1>1. t.ver \in Nat /\ orderVersion \in Nat /\ t.ver <= orderVersion
  BY DEF RefundInv, ReturnInv, OrderInv, Returns, Honest, Placed
<1>2. t.ver = orderVersion' => t.ver = orderVersion /\ UNCHANGED payState
  BY <1>1 DEF Advances
<1>3. Placed(t)'
  BY <1>1 DEF Advances, Honest, Placed
<1>4. AsksWell(t)'
  BY <1>2 DEF Advances, Honest, AsksWell, NotYetRefunded
<1>5. IsToldWell(t)'
  BY <1>2 DEF Advances, Honest, IsToldWell, NotYetRefunded
<1> QED
  BY <1>3, <1>4, <1>5 DEF Honest

LEMMA TasksEnd ==
  ASSUME RefundInv, TasksInv, Advances, returns' \subseteq returns
  PROVE  TasksInv'
BY HonestStays DEF TasksInv

LEMMA TasksGoOn ==
  ASSUME RefundInv, TasksInv, Advances, NEW next, Honest(next)',
         returns' \subseteq returns \cup {next}
  PROVE  TasksInv'
BY HonestStays DEF TasksInv

LEMMA FreshIsHonest ==
  ASSUME NEW n, NEW S \in delivered', NEW tries, orderVersion' \in Nat
  PROVE  Honest(ReturnTask(n, S, tries))'
<1>1. PICK t : t = ReturnTask(n, S, tries)
  OBVIOUS
<1>2. t.items = S /\ t.ver = 0 /\ t.pc = "fetch"
  BY <1>1 DEF ReturnTask
<1>3. Honest(t)'
  BY <1>2 DEF Honest, Placed, AsksWell, IsToldWell, Late
<1> QED
  BY <1>1, <1>3

LEMMA RevocationsEnd ==
  ASSUME RevocationsInv, Covered \subseteq Covered', revokes' \subseteq revokes
  PROVE  RevocationsInv'
BY DEF RevocationsInv

LEMMA ReturnedStays ==
  ASSUME ReturnedInv, Covered \subseteq Covered', UNCHANGED <<psp, created, payState>>,
         Announced' \subseteq Announced
  PROVE  ReturnedInv'
BY DEF ReturnedInv

\* A step that leaves the order, the payment and the PSP alone.
LEMMA AllQuiet ==
  ASSUME UNCHANGED <<psp, order, atPsp>>
  PROVE  Advances /\ (ReturnedInv => ReturnedInv') /\ Covered' = Covered
<1>1. UNCHANGED <<psp, orderVersion, created, payState, messages, delivered, refunds, pspTotal>>
  BY DEF order, atPsp
<1>2. Covered' = Covered /\ Announced' = Announced
  BY <1>1, CoveredKept DEF Announced
<1> QED
  BY <1>1, <1>2, ReturnedStays DEF Advances

-----------------------------------------------------------------------------
(* The order. *)

\* A return of items that have none.
LEMMA ReturnedAdds ==
  ASSUME RefundInv, ReturnedInv, NEW S \in SUBSET Items, \A i \in S : created[i] = 0,
         AddReturnInfo(S), UNCHANGED <<psp, atPsp>>
  PROVE  ReturnedInv' /\ Advances
<1>1. /\ created \in [Items -> Nat] /\ payState \in [Items -> PayStates]
      /\ Covered' = Covered /\ orderVersion' = orderVersion + 1
      /\ UNCHANGED <<psp, pspTotal, delivered>>
  BY CoveredKept DEF RefundInv, OrderInv, AddReturnInfo, atPsp
<1>2. /\ \A i \in Items : created'[i] = IF i \in S THEN created[i] + 1 ELSE created[i]
      /\ \A i \in Items : payState'[i] = IF i \in S THEN "Initial" ELSE payState[i]
  BY DEF AddReturnInfo
<1>3. Announced' = Announced \cup {S} /\ Announced \subseteq SUBSET Items
  BY DEF Announced, AddReturnInfo, RefundInv, OrderInv
<1>4. \A T \in Announced : \A i \in T : i \notin S
  BY DEF ReturnedInv
<1>5. (\A i \in Items : created[i] = 0 <=> payState[i] = "none")'
  <2>1. SUFFICES ASSUME NEW i \in Items
                 PROVE  created'[i] = 0 <=> payState'[i] = "none"
    OBVIOUS
  <2>2. created[i] \in Nat /\ (created[i] = 0 <=> payState[i] = "none")
    BY <1>1 DEF ReturnedInv
  <2> QED
    BY <1>2, <2>2
<1>6. (\A i \in Items : payState[i] = "Refunded" => i \in Covered /\ psp # "free")'
  BY <1>1, <1>2 DEF ReturnedInv
<1>7. (\A T \in Announced : \A i \in T : created[i] > 0)'
  <2>1. SUFFICES ASSUME NEW T \in Announced \cup {S}, NEW i \in T
                 PROVE  created'[i] > 0
    BY <1>3
  <2>2. i \in Items /\ created[i] \in Nat
    BY <1>1, <1>3, <2>1
  <2>3. CASE i \in S
    BY <1>2, <2>2, <2>3
  <2>4. CASE i \notin S
    <3>1. created[i] > 0
      BY <2>1, <2>4 DEF ReturnedInv
    <3> QED
      BY <1>2, <2>2, <2>4, <3>1
  <2> QED
    BY <2>3, <2>4
<1>8. (\A T, U \in Announced : \A i \in T : i \in U => T = U)'
  BY <1>3, <1>4 DEF ReturnedInv
<1>9. (\A T \in Announced : \A i, j \in T :
         payState[i] = "Refunded" => payState[j] = "Refunded")'
  <2>1. SUFFICES ASSUME NEW T \in Announced \cup {S}, NEW i \in T, NEW j \in T,
                        payState'[i] = "Refunded"
                 PROVE  payState'[j] = "Refunded"
    BY <1>3
  <2>2. i \in Items /\ j \in Items
    BY <1>3, <2>1
  <2>3. i \notin S /\ T \in Announced
    BY <1>2, <2>1, <2>2
  <2>4. payState[i] = "Refunded" /\ j \notin S
    BY <1>2, <1>4, <2>1, <2>2, <2>3
  <2>5. payState[j] = "Refunded"
    BY <2>3, <2>4 DEF ReturnedInv
  <2> QED
    BY <1>2, <2>2, <2>4, <2>5
<1>10. ReturnedInv'
  BY <1>5, <1>6, <1>7, <1>8, <1>9 DEF ReturnedInv
<1> QED
  BY <1>1, <1>10 DEF Advances

\* The items of a message get a payment state.
LEMMA ReturnedSettles ==
  ASSUME RefundInv, ReturnedInv, NEW S \in Announced, NEW to \in {"Refunded", "NotRefunded"},
         to = "Refunded" => S \subseteq Covered /\ psp # "free",
         SettleItems(S, to), UNCHANGED <<psp, atPsp>>
  PROVE  ReturnedInv' /\ Advances
<1>1. /\ Covered' = Covered /\ orderVersion' = orderVersion + 1
      /\ UNCHANGED <<psp, pspTotal, created, messages, delivered>>
      /\ Announced' = Announced /\ Announced \subseteq SUBSET Items
  BY CoveredKept DEF SettleItems, atPsp, Announced, RefundInv, OrderInv
<1>2. \A i \in Items : payState'[i] = IF i \in S THEN to ELSE payState[i]
  BY DEF SettleItems
<1>3. (\A i \in Items : created[i] = 0 <=> payState[i] = "none")'
  <2>1. \A i \in S : created[i] > 0 /\ i \in Items /\ created[i] \in Nat
    BY <1>1 DEF ReturnedInv, RefundInv, OrderInv
  <2>2. \A i \in S : created[i] # 0
    BY <2>1
  <2> QED
    BY <1>1, <1>2, <2>2 DEF ReturnedInv
<1>4. (\A i \in Items : payState[i] = "Refunded" => i \in Covered /\ psp # "free")'
  BY <1>1, <1>2 DEF ReturnedInv
<1>5. (\A T \in Announced : \A i, j \in T :
         payState[i] = "Refunded" => payState[j] = "Refunded")'
  <2>1. SUFFICES ASSUME NEW T \in Announced, NEW i \in T, NEW j \in T,
                        payState'[i] = "Refunded"
                 PROVE  payState'[j] = "Refunded"
    BY <1>1
  <2>2. i \in Items /\ j \in Items
    BY <1>1, <2>1
  <2>3. CASE T = S
    BY <1>2, <2>1, <2>2, <2>3
  <2>4. CASE T # S
    <3>1. i \notin S /\ j \notin S
      BY <2>1, <2>4 DEF ReturnedInv
    <3>2. payState[j] = "Refunded"
      BY <1>2, <2>1, <2>2, <3>1 DEF ReturnedInv
    <3> QED
      BY <1>2, <2>2, <3>1, <3>2
  <2> QED
    BY <2>3, <2>4
<1>6. ReturnedInv'
  BY <1>1, <1>3, <1>4, <1>5 DEF ReturnedInv
<1> QED
  BY <1>1, <1>6 DEF Advances

\* A step that changes the order and nothing else that the promise is about.
LEMMA PromiseOfOrder ==
  ASSUME RefundInv, PromiseInv, ReturnedInv', Advances,
         UNCHANGED <<payment, atPsp, returns, revokes>>
  PROVE  PromiseInv'
<1>1. UNCHANGED <<transactions, payTotal, refunds, pspTotal>>
  BY DEF payment, atPsp
<1>2. BooksInv' /\ TasksInv' /\ RevocationsInv'
  BY <1>1, BooksKept, TasksEnd, RevocationsEnd DEF PromiseInv, Advances
<1> QED
  BY <1>2 DEF PromiseInv

LEMMA RequestsPromised ==
  ASSUME RefundInv, PromiseInv, NEW q \in requests, RequestStep(q)
  PROVE  PromiseInv' /\ [Promise!Next]_Promise!vars
<1>1. UNCHANGED <<psp, payment, atPsp, returns, revokes, revoked>> /\ ReturnedInv
  BY DEF RequestStep, CreateReturnForCommercetoolsOrder, create_return_for_order, PromiseInv
<1>2. CASE UNCHANGED order
  <2>1. UNCHANGED <<payState, refunds, pspTotal, revoked>>
    BY <1>1, <1>2 DEF order, atPsp
  <2> QED
    BY <1>1, <1>2, <2>1, AllQuiet, PromiseOfOrder, MapsStutter
<1>3. CASE create_return_for_order(q) /\ CurrentOrder(q.ver) /\ AddReturnInfo({q.item})
  <2>1. q.item \in Items /\ created[q.item] = 0
    BY <1>3 DEF RefundInv, RequestInv, RequestOK, Requests, CurrentOrder,
                create_return_for_order
  <2>2. PICK S : S = {q.item}
    OBVIOUS
  <2>3. S \in SUBSET Items /\ (\A i \in S : created[i] = 0) /\ AddReturnInfo(S)
    BY <1>3, <2>1, <2>2
  <2>4. Promise!Return(S)
    BY <1>1, <2>3, MapsReturn DEF atPsp
  <2>5. PromiseInv'
    BY <1>1, <2>3, ReturnedAdds, PromiseOfOrder
  <2> QED
    BY <2>3, <2>4, <2>5 DEF Promise!Next
<1> QED
  BY <1>2, <1>3 DEF RequestStep, CreateReturnForCommercetoolsOrder, create_return_for_order

LEMMA OperatorPromised ==
  ASSUME RefundInv, PromiseInv, NEW S \in SUBSET Items, OperatorReturn(S)
  PROVE  PromiseInv' /\ [Promise!Next]_Promise!vars
<1>1. /\ UNCHANGED <<psp, payment, atPsp, returns, revokes, revoked>> /\ ReturnedInv
      /\ (\A i \in S : created[i] = 0) /\ AddReturnInfo(S)
  BY DEF OperatorReturn, PromiseInv
<1>2. Promise!Return(S)
  BY <1>1, MapsReturn DEF atPsp
<1>3. PromiseInv'
  BY <1>1, ReturnedAdds, PromiseOfOrder
<1> QED
  BY <1>2, <1>3 DEF Promise!Next

LEMMA ForeignPromised ==
  ASSUME RefundInv, PromiseInv, ForeignUpdate
  PROVE  PromiseInv' /\ [Promise!Next]_Promise!vars
<1>1. /\ UNCHANGED <<psp, created, payState, messages, delivered, payment, atPsp, returns,
                     revokes, revoked>>
      /\ orderVersion' = orderVersion + 1 /\ ReturnedInv
      /\ UNCHANGED <<refunds, pspTotal>>
  BY DEF ForeignUpdate, PromiseInv, atPsp
<1>2. Covered' = Covered /\ Announced' = Announced
  BY <1>1, CoveredKept DEF Announced
<1>3. Advances /\ ReturnedInv'
  BY <1>1, <1>2, ReturnedStays DEF Advances
<1> QED
  BY <1>1, <1>3, PromiseOfOrder, MapsStutter
-----------------------------------------------------------------------------
(* The returned task. *)

LEMMA TaskFacts ==
  ASSUME RefundInv, PromiseInv, NEW t \in returns
  PROVE  /\ t \in Returns /\ t.items \subseteq Items /\ t.items \in Announced /\ t.ver \in Nat
         /\ Honest(t) /\ t.items \in delivered /\ orderVersion \in Nat
         /\ ReturnedInv /\ BooksInv /\ TasksInv /\ RevocationsInv
BY ReturnFacts DEF PromiseInv, TasksInv, Honest, Placed, Announced, Returns

LEMMA TaskOver ==
  ASSUME RefundInv, PromiseInv, Advances, orderVersion' \in Nat, NEW t \in returns,
         ReturnRetried(t) \/ ReturnDies(t)
  PROVE  TasksInv'
<1>1. PICK next : next = ReturnTask(t.id, t.items, t.tries + 1)
  OBVIOUS
<1>2. t.items \in delivered'
  BY TaskFacts DEF Advances
<1>3. Honest(next)'
  BY <1>1, <1>2, FreshIsHonest
<1>4. returns' \subseteq returns \cup {next}
  BY <1>1 DEF ReturnRetried, ReturnDies, ReturnGoesOn, Replace
<1> QED
  BY <1>3, <1>4, TasksGoOn DEF PromiseInv

LEMMA TaskGoesOn ==
  ASSUME RefundInv, PromiseInv, Advances, NEW t \in returns, NEW next, Honest(next)',
         ReturnGoesOn(t, next)
  PROVE  TasksInv'
<1>1. returns' \subseteq returns \cup {next}
  BY DEF ReturnGoesOn, Replace
<1> QED
  BY <1>1, TasksGoOn DEF PromiseInv

\* A step of a task that leaves the order, the PSP and what the payment records.
Quiet == UNCHANGED <<psp, order, transactions, payTotal, atPsp, revokes, revoked>>

LEMMA QuietStep ==
  ASSUME RefundInv, PromiseInv, Quiet
  PROVE  /\ Advances /\ orderVersion' = orderVersion /\ payState' = payState
         /\ delivered' = delivered /\ Covered' = Covered
         /\ UNCHANGED <<psp, pspTotal>>
         /\ TasksInv' => PromiseInv'
         /\ UNCHANGED Promise!vars
<1>1. /\ UNCHANGED <<psp, order, atPsp, refunds, pspTotal, transactions, payTotal, revokes>>
      /\ UNCHANGED <<payState, revoked, orderVersion, delivered>>
  BY DEF Quiet, atPsp, order
<1>2. Advances /\ ReturnedInv' /\ Covered' = Covered
  BY <1>1, AllQuiet DEF PromiseInv
<1>3. BooksInv' /\ RevocationsInv'
  BY <1>1, <1>2, BooksKept, RevocationsEnd DEF PromiseInv
<1>4. UNCHANGED Promise!vars
  BY <1>1, MapsStutter
<1> QED
  BY <1>1, <1>2, <1>3, <1>4 DEF PromiseInv

LEMMA QuietGoesOn ==
  ASSUME RefundInv, PromiseInv, Quiet, NEW t \in returns, NEW next, Honest(next),
         ReturnGoesOn(t, next)
  PROVE  PromiseInv' /\ UNCHANGED Promise!vars
<1>1. /\ Advances /\ orderVersion' = orderVersion /\ payState' = payState
      /\ delivered' = delivered /\ Covered' = Covered /\ UNCHANGED <<psp, pspTotal>>
  BY QuietStep
<1>2. Honest(next)'
  BY <1>1 DEF Honest, Placed, AsksWell, IsToldWell, NotYetRefunded
<1> QED
  BY <1>1, <1>2, TaskGoesOn, QuietStep

LEMMA QuietOver ==
  ASSUME RefundInv, PromiseInv, Quiet, NEW t \in returns, ReturnRetried(t) \/ ReturnDies(t)
  PROVE  PromiseInv' /\ UNCHANGED Promise!vars
BY QuietStep, TaskOver, TaskFacts

LEMMA FetchPromised ==
  ASSUME RefundInv, PromiseInv, NEW t \in returns, FetchOrderDetailsByOrderID(t)
  PROVE  PromiseInv' /\ [Promise!Next]_Promise!vars
<1>1. PICK S : S = {i \in t.items : payState[i] # "Refunded"}
  OBVIOUS
<1>2. PICK next : next = [t EXCEPT !.pc = "payment", !.ver = orderVersion, !.due = S]
  OBVIOUS
<1>3. /\ next.items = t.items /\ next.pc = "payment" /\ next.ver = orderVersion
      /\ next.due = S
  BY <1>2, TaskFacts DEF Returns
<1>4. S \subseteq t.items /\ t.items \ S \subseteq Covered /\ NotYetRefunded(S)
  BY <1>1, TaskFacts DEF ReturnedInv, NotYetRefunded
<1>5. psp # "free" /\ Quiet /\ ReturnGoesOn(t, next)
  BY <1>1, <1>2 DEF FetchOrderDetailsByOrderID, Quiet, payment
<1>6. Honest(next)
  BY <1>3, <1>4, <1>5, TaskFacts DEF Honest, Placed, AsksWell, IsToldWell, Late
<1> QED
  BY <1>5, <1>6, QuietGoesOn

LEMMA FetchPaymentPromised ==
  ASSUME RefundInv, PromiseInv, NEW t \in returns, FetchPayment(t)
  PROVE  PromiseInv' /\ [Promise!Next]_Promise!vars
<1>1. PICK f : f = has_full_refund_transaction
  OBVIOUS
<1>2. PICK next : next = [t EXCEPT !.pc = "refund", !.pver = payVersion, !.full = f]
  OBVIOUS
<1>3. /\ next.items = t.items /\ next.pc = "refund" /\ next.ver = t.ver
      /\ next.due = t.due /\ next.full = f
  BY <1>2, TaskFacts DEF Returns
<1>4. next.full => pspTotal = N
  BY <1>1, <1>3, FullIsFull, TaskFacts
<1>5. t.pc = "payment" /\ Quiet /\ ReturnGoesOn(t, next)
  BY <1>1, <1>2 DEF FetchPayment, Quiet, payment
<1>6. Honest(next)
  BY <1>3, <1>4, <1>5, TaskFacts DEF Honest, Placed, AsksWell, IsToldWell, Late
<1> QED
  BY <1>5, <1>6, QuietGoesOn

LEMMA LookPromised ==
  ASSUME RefundInv, PromiseInv, NEW t \in returns, LookAtPayment(t)
  PROVE  PromiseInv' /\ [Promise!Next]_Promise!vars
<1>1. PICK v : v = IF transactions = <<>> THEN 0 ELSE payVersion
  OBVIOUS
<1>2. PICK next : next = [t EXCEPT !.pc = "settle", !.pver = v]
  OBVIOUS
<1>3. /\ next.items = t.items /\ next.pc = "settle" /\ next.ver = t.ver
      /\ next.outcome = t.outcome
  BY <1>2, TaskFacts DEF Returns
<1>4. t.pc = "look" /\ Quiet /\ ReturnGoesOn(t, next)
  BY <1>1, <1>2 DEF LookAtPayment, Quiet, payment
<1>5. Honest(next)
  BY <1>3, <1>4, TaskFacts DEF Honest, Placed, AsksWell, IsToldWell, Late
<1> QED
  BY <1>4, <1>5, QuietGoesOn

LEMMA LinkPromised ==
  ASSUME RefundInv, PromiseInv, NEW t \in returns, LinkTransaction(t)
  PROVE  PromiseInv' /\ [Promise!Next]_Promise!vars
<1>1. PICK next : next = [t EXCEPT !.pc = "revoke", !.pver = 0]
  OBVIOUS
<1>2. /\ next.items = t.items /\ next.pc = "revoke" /\ next.ver = t.ver
      /\ next.outcome = t.outcome
  BY <1>1, TaskFacts DEF Returns
<1>3. /\ t.pc = "link" /\ Quiet
      /\ ReturnGoesOn(t, next) \/ ReturnRetried(t) \/ ReturnDies(t)
  BY <1>1 DEF LinkTransaction, Quiet
<1>4. Honest(next)
  BY <1>2, <1>3, TaskFacts DEF Honest, Placed, AsksWell, IsToldWell, Late
<1> QED
  BY <1>3, <1>4, QuietGoesOn, QuietOver

LEMMA FreeReturnPromised ==
  ASSUME RefundInv, PromiseInv, NEW t \in returns, FreeReturn(t)
  PROVE  PromiseInv' /\ [Promise!Next]_Promise!vars
<1>1. PICK next : next = [t EXCEPT !.pc = "free", !.ver = orderVersion]
  OBVIOUS
<1>2. next.items = t.items /\ next.pc = "free" /\ next.ver = orderVersion
  BY <1>1, TaskFacts DEF Returns
<1>3. psp = "free" /\ Quiet /\ ReturnGoesOn(t, next)
  BY <1>1 DEF FreeReturn, Quiet, payment
<1>4. Honest(next)
  BY <1>2, <1>3, TaskFacts DEF Honest, Placed, AsksWell, IsToldWell, Late
<1> QED
  BY <1>3, <1>4, QuietGoesOn

LEMMA ReturnFailsPromised ==
  ASSUME RefundInv, PromiseInv, NEW t \in returns, ReturnFails(t)
  PROVE  PromiseInv' /\ [Promise!Next]_Promise!vars
<1>1. Quiet /\ (ReturnRetried(t) \/ ReturnDies(t))
  BY DEF ReturnFails, Quiet, payment
<1> QED
  BY <1>1, QuietOver

\* The transaction is recorded for the refund that the PSP made, or once it has
\* nothing left to return.
LEMMA RecordPromised ==
  ASSUME RefundInv, PromiseInv, NEW t \in returns, CreateReturnPaymentTransaction(t)
  PROVE  PromiseInv' /\ [Promise!Next]_Promise!vars
<1>1. /\ UNCHANGED <<psp, order, atPsp, revokes, revoked>>
      /\ t.pc = "record"
      /\ ReturnGoesOn(t, Looking(t)) \/ ReturnRetried(t) \/ ReturnDies(t)
      /\ Advances /\ ReturnedInv' /\ Covered' = Covered
      /\ UNCHANGED <<orderVersion, payState, delivered, refunds, pspTotal>>
  <2>1. UNCHANGED <<psp, order, atPsp, revokes, revoked>>
    BY DEF CreateReturnPaymentTransaction
  <2>2. t.pc = "record" /\ (ReturnGoesOn(t, Looking(t)) \/ ReturnRetried(t) \/ ReturnDies(t))
    BY DEF CreateReturnPaymentTransaction, SkipRecording, RecordingRejected
  <2>3. UNCHANGED <<orderVersion, payState, delivered, refunds, pspTotal>>
    BY <2>1 DEF order, atPsp
  <2> QED
    BY <2>1, <2>2, <2>3, AllQuiet, TaskFacts
<1>2. PICK next : next = Looking(t)
  OBVIOUS
<1>3. /\ next.items = t.items /\ next.pc = "look" /\ next.ver = t.ver
      /\ next.outcome = t.outcome
  BY <1>2, TaskFacts DEF Looking, Returns
<1>4. Honest(next)
  BY <1>1, <1>3, TaskFacts DEF Honest, Placed, AsksWell, IsToldWell, Late
<1>5. Honest(next)'
  BY <1>1, <1>4 DEF Honest, Placed, AsksWell, IsToldWell, NotYetRefunded
<1>6. TasksInv'
  BY <1>1, <1>2, <1>5, TaskGoesOn, TaskOver, TaskFacts
<1>7. BooksInv'
  <2>1. CASE UNCHANGED payment
    BY <1>1, <2>1, BooksKept, TaskFacts DEF payment
  <2>2. CASE /\ t.outcome \in {"fresh", "listed"}
             /\ create_return_payment_transaction(t.pver, t.refund, t.outcome = "listed")
    <3>1. PICK l : l = (t.outcome = "listed")
      OBVIOUS
    <3>2. t.refund \in 1..Len(refunds)
      BY <1>1, <2>2, ReturnFacts DEF ReturnOK
    <3>3. pspTotal = N \/ ~is_transaction_already_refunded(t.refund)
      <4>1. CASE t.outcome = "listed"
        BY <1>1, <4>1, TaskFacts DEF Honest, IsToldWell
      <4>2. CASE t.outcome = "fresh"
        <5>1. t.pver = payVersion
          BY <2>2 DEF create_return_payment_transaction
        <5> QED
          BY <1>1, <4>2, <5>1, ReturnFacts DEF ReturnOK
      <4> QED
        BY <2>2, <4>1, <4>2
    <3>4. create_return_payment_transaction(t.pver, t.refund, l)
      BY <2>2, <3>1
    <3> QED
      BY <1>1, <3>2, <3>3, <3>4, BooksOfTransaction, TaskFacts
  <2> QED
    BY <2>1, <2>2 DEF CreateReturnPaymentTransaction
<1>8. RevocationsInv' /\ UNCHANGED Promise!vars
  BY <1>1, RevocationsEnd, MapsStutter, TaskFacts
<1> QED
  BY <1>1, <1>6, <1>7, <1>8 DEF PromiseInv
\* The PSP returns money: what is Covered grows, and nothing else moves.
LEMMA PaidBack ==
  ASSUME RefundInv, PromiseInv, NEW S \in SUBSET Items, NEW amount \in Nat,
         PspRefund(S, amount), UNCHANGED <<psp, order, payment, revokes, revoked>>
  PROVE  /\ Advances /\ BooksInv' /\ ReturnedInv' /\ RevocationsInv'
         /\ Promise!Pay(Covered') /\ Covered' \in SUBSET Items
         /\ S \subseteq Covered' /\ orderVersion' = orderVersion
<1>1. /\ Covered \subseteq Covered' /\ S \subseteq Covered' /\ (pspTotal = N => pspTotal' = N)
  BY CoveredGrows
<1>2. /\ UNCHANGED <<psp, orderVersion, created, payState, messages, delivered, revokes, revoked>>
      /\ Announced' = Announced
  BY DEF order, Announced
<1>3. Covered' \subseteq Items
  <2>1. PspInv'
    BY NewRefund
  <2>2. \A r \in DOMAIN refunds' : refunds'[r] \in PspRefunds
    BY <2>1 DEF PspInv
  <2> QED
    BY <2>2 DEF Covered, PspRefunds
<1>4. BooksInv' /\ ReturnedInv' /\ RevocationsInv'
  BY <1>1, <1>2, BooksOfRefund, ReturnedStays, RevocationsEnd DEF PromiseInv
<1> QED
  BY <1>1, <1>2, <1>3, <1>4, MapsPay DEF Advances

\* Nothing is due, or all of it is not refunded: a message's items are settled together.
LEMMA AllOrNoneIsDue ==
  ASSUME RefundInv, PromiseInv, NEW t \in returns, t.pc = "refund", t.due # {},
         t.ver = orderVersion
  PROVE  NotYetRefunded(t.items)
<1>1. t.due \subseteq t.items /\ NotYetRefunded(t.due) /\ t.items \in Announced /\ ReturnedInv
  BY TaskFacts DEF Honest, AsksWell
<1>2. PICK i \in t.due : TRUE
  OBVIOUS
<1>3. payState[i] # "Refunded" /\ i \in t.items
  BY <1>1, <1>2 DEF NotYetRefunded
<1> QED
  BY <1>1, <1>3 DEF ReturnedInv, NotYetRefunded

\* The PSP has answered.
LEMMA AnsweredHonestly ==
  ASSUME RefundInv, PromiseInv, Advances, UNCHANGED <<orderVersion, payState>>,
         NEW t \in returns, psp # "free", NEW next,
         next.items = t.items, next.ver = t.ver, next.pc = "record", 
         next.outcome # "error" => t.items \subseteq Covered',
         next.outcome = "listed" => pspTotal' = N,
         next.outcome = "error" /\ t.ver = orderVersion => NotYetRefunded(t.items),
         ReturnGoesOn(t, next)
  PROVE  TasksInv'
<1>1. Placed(next)'
  BY TaskFacts DEF Honest, Placed, Advances
<1>2. AsksWell(next)'
  BY DEF AsksWell
<1>3. IsToldWell(next)'
  BY DEF IsToldWell, Late, NotYetRefunded
<1> QED
  BY <1>1, <1>2, <1>3, TaskGoesOn DEF Honest

LEMMA RefundPaymentPromised ==
  ASSUME RefundInv, PromiseInv, NEW t \in returns, psp # "free", RefundPayment(t)
  PROVE  PromiseInv' /\ [Promise!Next]_Promise!vars
<1> DEFINE amount == Cardinality(t.due)
           rec == Recording(t)
<1>1. /\ t.pc = "refund" /\ t \in Returns /\ t.due \in SUBSET Items /\ amount \in Nat
      /\ t.outcome = "none" /\ orderVersion \in Nat /\ Honest(t)
      /\ t.due \subseteq t.items /\ t.items \ t.due \subseteq Covered
      /\ t.full => pspTotal = N
  <2>1. t \in Returns /\ ReturnOK(t) /\ t.pc = "refund" /\ orderVersion \in Nat /\ Honest(t)
    BY ReturnFacts, TaskFacts DEF RefundPayment
  <2>2. t.due \in SUBSET Items /\ t.outcome = "none"
    BY <2>1 DEF Returns, ReturnOK, Early
  <2> QED
    BY <2>1, <2>2, SizeOfItems DEF Honest, AsksWell
<1>2. /\ rec \in Returns /\ rec.items = t.items /\ rec.ver = t.ver /\ rec.pc = "record"
      /\ rec.outcome = "none"
  BY <1>1, RecordingIs DEF Recording, Returns
<1>3. UNCHANGED <<psp, order, payment, revokes, revoked, transactions, payTotal>>
  BY DEF RefundPayment, payment
<1>4. amount = 0 => t.due = {}
  BY <1>1, FS_EmptySet, SizeOfItems, ItemsAreFinite
<1>5. amount > 0 => t.due # {}
  BY FS_EmptySet
<1> HIDE DEF rec, amount
<1>6. ASSUME UNCHANGED atPsp, NEW o \in {"none", "already", "error", "listed"}, NEW next,
             next.items = t.items, next.ver = t.ver, next.pc = "record", next.outcome = o,
             ReturnGoesOn(t, next),
             o = "none" => t.due = {}, o = "already" => pspTotal = N,
             o = "listed" => pspTotal = N, o = "error" => t.due # {}
      PROVE  PromiseInv' /\ [Promise!Next]_Promise!vars
  <2>1. Quiet
    BY <1>3, <1>6 DEF Quiet
  <2>2. pspTotal = N => t.items \subseteq Covered
    BY TaskFacts DEF Covered
  <2>3. o # "error" => t.items \subseteq Covered
    BY <1>1, <1>6, <2>2
  <2>4. o = "error" /\ t.ver = orderVersion => NotYetRefunded(t.items)
    BY <1>1, <1>6, AllOrNoneIsDue
  <2>5. Honest(next)
    BY <1>1, <1>6, <2>3, <2>4 DEF Honest, Placed, AsksWell, IsToldWell
  <2> QED
    BY <1>6, <2>1, <2>5, QuietGoesOn
<1>7. ASSUME PspRefund(t.due, amount), t.due # {},
             NEW o \in {"fresh", "error"}, NEW next,
             next.items = t.items, next.ver = t.ver, next.pc = "record", next.outcome = o,
             ReturnGoesOn(t, next) \/ ReturnDies(t)
      PROVE  PromiseInv' /\ [Promise!Next]_Promise!vars
  <2>1. /\ Advances /\ BooksInv' /\ ReturnedInv' /\ RevocationsInv'
        /\ Promise!Pay(Covered') /\ Covered' \in SUBSET Items
        /\ t.due \subseteq Covered' /\ orderVersion' = orderVersion
    BY <1>1, <1>3, <1>7, PaidBack
  <2>2. t.items \subseteq Covered'
    BY <1>1, <2>1 DEF Advances
  <2>3. payState' = payState
    BY <1>3 DEF order
  <2>4. t.ver = orderVersion => NotYetRefunded(t.items)
    BY <1>1, <1>7, AllOrNoneIsDue
  <2>5. TasksInv'
    BY <1>1, <1>7, <2>1, <2>2, <2>3, <2>4, AnsweredHonestly, TaskOver
  <2> QED
    BY <2>1, <2>5 DEF PromiseInv, Promise!Next
<1>8. \A o, r : /\ [rec EXCEPT !.outcome = o, !.refund = r].items = t.items
                /\ [rec EXCEPT !.outcome = o, !.refund = r].ver = t.ver
                /\ [rec EXCEPT !.outcome = o, !.refund = r].pc = "record"
                /\ [rec EXCEPT !.outcome = o, !.refund = r].outcome = o
                /\ [rec EXCEPT !.outcome = o].items = t.items
                /\ [rec EXCEPT !.outcome = o].ver = t.ver
                /\ [rec EXCEPT !.outcome = o].pc = "record"
                /\ [rec EXCEPT !.outcome = o].outcome = o
  BY <1>2 DEF Returns
<1>9. CASE amount = 0 /\ ReturnGoesOn(t, rec) /\ UNCHANGED atPsp
  BY <1>2, <1>4, <1>6, <1>9
<1>10. CASE amount > 0 /\ t.full /\ ReturnGoesOn(t, [rec EXCEPT !.outcome = "already"])
            /\ UNCHANGED atPsp
  BY <1>1, <1>6, <1>8, <1>10
<1>11. CASE amount > 0 /\ PspRefund(t.due, amount)
            /\ ReturnGoesOn(t, [rec EXCEPT !.outcome = "fresh", !.refund = Len(refunds) + 1])
  <2>1. PICK next : next = [rec EXCEPT !.outcome = "fresh", !.refund = Len(refunds) + 1]
    OBVIOUS
  <2>2. /\ next.items = t.items /\ next.ver = t.ver /\ next.pc = "record"
        /\ next.outcome = "fresh"
    BY <1>8, <2>1
  <2>3. ReturnGoesOn(t, next) /\ PspRefund(t.due, amount) /\ t.due # {}
    BY <1>5, <1>11, <2>1
  <2> QED
    BY <1>7, <2>2, <2>3
<1>12. CASE amount > 0 /\ PspRefund(t.due, amount)
            /\ (ReturnGoesOn(t, [rec EXCEPT !.outcome = "error"]) \/ ReturnDies(t))
  <2>1. PICK next : next = [rec EXCEPT !.outcome = "error"]
    OBVIOUS
  <2>2. /\ next.items = t.items /\ next.ver = t.ver /\ next.pc = "record"
        /\ next.outcome = "error"
    BY <1>8, <2>1
  <2>3. /\ ReturnGoesOn(t, next) \/ ReturnDies(t)
        /\ PspRefund(t.due, amount) /\ t.due # {}
    BY <1>5, <1>12, <2>1
  <2> QED
    BY <1>7, <2>2, <2>3
<1>13. CASE amount > 0 /\ ReturnGoesOn(t, [rec EXCEPT !.outcome = "error"]) /\ UNCHANGED atPsp
  BY <1>5, <1>6, <1>8, <1>13
<1>14. CASE amount > 0 /\ ReturnGoesOn(t, Refused(rec)) /\ UNCHANGED atPsp
  <2>1. CASE psp = "stripe" /\ pspTotal = N
    <3>1. PICK next : next = [rec EXCEPT !.outcome = "listed", !.refund = Len(refunds)]
      OBVIOUS
    <3>2. /\ next.items = t.items /\ next.ver = t.ver /\ next.pc = "record"
          /\ next.outcome = "listed"
      BY <1>8, <3>1
    <3>3. ReturnGoesOn(t, next)
      BY <1>14, <2>1, <3>1 DEF Refused
    <3> QED
      BY <1>6, <1>14, <2>1, <3>2, <3>3
  <2>2. CASE ~(psp = "stripe" /\ pspTotal = N)
    <3>1. Refused(rec) = [rec EXCEPT !.outcome = "error"]
      BY <2>2 DEF Refused
    <3> QED
      BY <1>13, <1>14, <3>1
  <2> QED
    BY <2>1, <2>2
<1>15. \/ amount = 0 /\ ReturnGoesOn(t, rec) /\ UNCHANGED atPsp
       \/ amount > 0 /\ t.full /\ ReturnGoesOn(t, [rec EXCEPT !.outcome = "already"])
          /\ UNCHANGED atPsp
       \/ amount > 0 /\ PspRefund(t.due, amount)
          /\ ReturnGoesOn(t, [rec EXCEPT !.outcome = "fresh", !.refund = Len(refunds) + 1])
       \/ amount > 0 /\ PspRefund(t.due, amount)
          /\ (ReturnGoesOn(t, [rec EXCEPT !.outcome = "error"]) \/ ReturnDies(t))
       \/ amount > 0 /\ ReturnGoesOn(t, [rec EXCEPT !.outcome = "error"]) /\ UNCHANGED atPsp
       \/ amount > 0 /\ ReturnGoesOn(t, Refused(rec)) /\ UNCHANGED atPsp
  BY DEF RefundPayment, amount, rec
<1> QED
  BY <1>9, <1>10, <1>11, <1>12, <1>13, <1>14, <1>15

\* The order is told how the return was settled.
LEMMA SettlePromised ==
  ASSUME RefundInv, PromiseInv, NEW t \in returns, UpdateReturnPaymentState(t)
  PROVE  PromiseInv' /\ [Promise!Next]_Promise!vars
<1>1. /\ t.pc = "settle" /\ UNCHANGED <<psp, payment, atPsp, revokes, revoked>>
      /\ UNCHANGED <<transactions, payTotal, refunds, pspTotal>>
      /\ psp # "free" /\ t.items \in Announced /\ t.items \subseteq Items
      /\ RefundInv /\ ReturnedInv /\ BooksInv /\ RevocationsInv
      /\ t.outcome # "error" => t.items \subseteq Covered
      /\ t.outcome = "error" /\ t.ver = orderVersion => NotYetRefunded(t.items)
  BY TaskFacts DEF UpdateReturnPaymentState, payment, atPsp, Honest, Placed, IsToldWell, Late
<1>2. PICK pc : pc = AfterSettling(t)
  OBVIOUS
<1>3. PICK next : next = [t EXCEPT !.pc = pc, !.ver = 0]
  OBVIOUS
<1>4. /\ pc \in {"revoke", "link"} /\ next.items = t.items /\ next.pc = pc /\ next.ver = 0
      /\ next.outcome = t.outcome
  BY <1>2, <1>3, TaskFacts DEF Returns, AfterSettling
<1>5. ReturnGoesOn(t, next) \/ ReturnRetried(t) \/ ReturnDies(t)
  BY <1>2, <1>3 DEF UpdateReturnPaymentState, SettleRejected
<1>6. CASE CurrentOrder(t.ver) /\ SettleItems(t.items, ReturnPaymentState(t.outcome))
  <2>1. PICK to : to = ReturnPaymentState(t.outcome)
    OBVIOUS
  <2>2. to \in {"Refunded", "NotRefunded"} /\ (to = "NotRefunded" <=> t.outcome = "error")
    BY <2>1 DEF ReturnPaymentState
  <2>3. ReturnedInv' /\ Advances
    BY <1>1, <1>6, <2>1, <2>2, ReturnedSettles
  <2>4. orderVersion' \in Nat /\ Covered' = Covered
    BY <1>1, <1>6, CoveredKept, TaskFacts DEF SettleItems
  <2>5. Honest(next)'
    BY <1>1, <1>4, <2>3, <2>4, TaskFacts
       DEF Honest, Placed, AsksWell, IsToldWell, Late, Advances
  <2>6. TasksInv'
    BY <1>5, <2>3, <2>4, <2>5, TaskGoesOn, TaskOver
  <2>7. Promise!Confirm(t.items) \/ Promise!Refuse(t.items)
    <3>1. CASE to = "Refunded"
      BY <1>1, <1>6, <2>1, <2>2, <3>1, MapsConfirm
    <3>2. CASE to = "NotRefunded"
      BY <1>1, <1>6, <2>1, <2>2, <3>2, MapsRefuse DEF CurrentOrder
    <3> QED
      BY <2>2, <3>1, <3>2
  <2>8. PromiseInv'
    BY <1>1, <2>3, <2>4, <2>6, BooksKept, RevocationsEnd DEF PromiseInv
  <2> QED
    BY <1>1, <2>7, <2>8 DEF Promise!Next
<1>7. CASE UNCHANGED order /\ ReturnDies(t)
  <2>1. Quiet
    BY <1>1, <1>7 DEF Quiet
  <2> QED
    BY <1>7, <2>1, QuietOver
<1> QED
  BY <1>6, <1>7 DEF UpdateReturnPaymentState, SettleRejected

LEMMA SettleFreePromised ==
  ASSUME RefundInv, PromiseInv, NEW t \in returns,
         update_return_payment_state_for_enrollment_code_purchase(t)
  PROVE  PromiseInv' /\ [Promise!Next]_Promise!vars
<1>1. /\ t.pc = "free" /\ UNCHANGED <<psp, payment, atPsp, revokes, revoked>>
      /\ UNCHANGED <<transactions, payTotal, refunds, pspTotal>>
      /\ psp = "free" /\ t.items \in Announced /\ t.items \subseteq Items
      /\ RefundInv /\ ReturnedInv /\ BooksInv /\ RevocationsInv
      /\ NotYetRefunded(t.items)
  BY TaskFacts DEF update_return_payment_state_for_enrollment_code_purchase, payment, atPsp,
     Honest, Placed, ReturnedInv, NotYetRefunded
<1>2. CASE SettleItems(t.items, "NotRefunded")
           /\ (returns' = returns \ {t} \/ ReturnRetried(t))
  <2>1. ReturnedInv' /\ Advances
    BY <1>1, <1>2, ReturnedSettles
  <2>2. orderVersion' \in Nat /\ Covered' = Covered
    BY <1>1, <1>2, CoveredKept, TaskFacts DEF SettleItems
  <2>3. TasksInv'
    BY <1>2, <2>1, <2>2, TasksEnd, TaskOver DEF PromiseInv
  <2>4. Promise!Refuse(t.items)
    BY <1>1, <1>2, MapsRefuse
  <2>5. PromiseInv'
    BY <1>1, <2>1, <2>2, <2>3, BooksKept, RevocationsEnd DEF PromiseInv
  <2> QED
    BY <1>1, <2>4, <2>5 DEF Promise!Next
<1>3. CASE UNCHANGED order /\ ReturnRetried(t)
  <2>1. Quiet
    BY <1>1, <1>3 DEF Quiet
  <2> QED
    BY <1>3, <2>1, QuietOver
<1> QED
  BY <1>2, <1>3 DEF update_return_payment_state_for_enrollment_code_purchase
\* The revocation is asked for when the money has been returned.
LEMMA SendRevokePromised ==
  ASSUME RefundInv, PromiseInv, NEW t \in returns, SendRevoke(t)
  PROVE  PromiseInv' /\ [Promise!Next]_Promise!vars
<1>1. /\ t.pc = "revoke" /\ UNCHANGED <<psp, order, payment, atPsp, revoked>>
      /\ UNCHANGED <<transactions, payTotal, refunds, pspTotal, payState>>
      /\ returns' \subseteq returns
      /\ RefundInv /\ ReturnedInv /\ BooksInv /\ RevocationsInv /\ TasksInv
  BY TaskFacts DEF SendRevoke, ReturnDies, payment, atPsp, order
<1>2. Advances /\ ReturnedInv' /\ Covered' = Covered
  BY <1>1, AllQuiet
<1>3. BooksInv' /\ TasksInv' /\ UNCHANGED Promise!vars
  BY <1>1, <1>2, BooksKept, TasksEnd, MapsStutter
<1>4. RevocationsInv'
  <2>1. CASE UNCHANGED revokes
    BY <1>1, <1>2, <2>1, RevocationsEnd
  <2>2. CASE /\ t.outcome \in {"fresh", "listed", "already"}
             /\ revokes' = revokes \cup {[id |-> t.id, items |-> t.items,
                                         left |-> t.items, tries |-> 0]}
    <3>1. PICK v : v = [id |-> t.id, items |-> t.items, left |-> t.items, tries |-> 0]
      OBVIOUS
    <3>2. v.items = t.items /\ v.left = t.items /\ revokes' = revokes \cup {v}
      BY <2>2, <3>1
    <3>3. t.items \subseteq Covered
      BY <1>1, <2>2, TaskFacts DEF Honest, IsToldWell, Late
    <3> QED
      BY <1>1, <1>2, <3>2, <3>3 DEF RevocationsInv
  <2> QED
    BY <2>1, <2>2 DEF SendRevoke
<1> QED
  BY <1>2, <1>3, <1>4 DEF PromiseInv

\* A message becomes a task.
LEMMA DeliveryPromised ==
  ASSUME RefundInv, PromiseInv, NEW S \in messages \cup delivered, OrderReturnedView(S)
  PROVE  PromiseInv' /\ [Promise!Next]_Promise!vars
<1>1. /\ UNCHANGED <<psp, orderVersion, created, payState, payment, atPsp, revokes, revoked>>
      /\ UNCHANGED <<transactions, payTotal, refunds, pspTotal>>
      /\ RefundInv /\ ReturnedInv /\ BooksInv /\ RevocationsInv /\ TasksInv
      /\ orderVersion' \in Nat
  BY DEF OrderReturnedView, payment, atPsp, PromiseInv, RefundInv, OrderInv
<1>2. /\ S \in delivered' /\ delivered \subseteq delivered' /\ Announced' \subseteq Announced
  BY DEF OrderReturnedView, Announced
<1>3. Advances /\ ReturnedInv' /\ Covered' = Covered
  BY <1>1, <1>2, CoveredKept, ReturnedStays DEF Advances
<1>4. PICK next : next = ReturnTask(redeliveries', S, 0)
  OBVIOUS
<1>5. Honest(next)'
  BY <1>1, <1>2, <1>4, FreshIsHonest
<1>6. returns' \subseteq returns \cup {next}
  BY <1>4 DEF OrderReturnedView
<1>7. TasksInv'
  BY <1>1, <1>3, <1>5, <1>6, TasksGoOn
<1>8. BooksInv' /\ RevocationsInv' /\ UNCHANGED Promise!vars
  BY <1>1, <1>3, BooksKept, RevocationsEnd, MapsStutter
<1> QED
  BY <1>3, <1>7, <1>8 DEF PromiseInv

-----------------------------------------------------------------------------
(* The webhook, the revocations and the dashboard. *)

\* A step that leaves the order, what the PSP has returned, the returned tasks and
\* the revocations alone.
LEMMA PromiseAside ==
  ASSUME RefundInv, PromiseInv, BooksInv',
         UNCHANGED <<psp, order, refunds, pspTotal, returns, revoked>>, revokes' \subseteq revokes
  PROVE  PromiseInv' /\ UNCHANGED Promise!vars
<1>1. /\ Covered' = Covered /\ Announced' = Announced
      /\ UNCHANGED <<orderVersion, created, payState, delivered>>
  BY CoveredKept DEF Announced, order
<1>2. Advances /\ ReturnedInv'
  BY <1>1, ReturnedStays DEF Advances, PromiseInv
<1>3. TasksInv' /\ RevocationsInv' /\ UNCHANGED Promise!vars
  BY <1>1, <1>2, TasksEnd, RevocationsEnd, MapsStutter DEF PromiseInv
<1> QED
  BY <1>2, <1>3 DEF PromiseInv

LEMMA AsidePromised ==
  ASSUME RefundInv, PromiseInv,
         UNCHANGED <<psp, order, payment, refunds, pspTotal, returns, revokes, revoked>>
  PROVE  PromiseInv' /\ [Promise!Next]_Promise!vars
<1>1. BooksInv'
  BY BooksKept DEF payment, PromiseInv
<1> QED
  BY <1>1, PromiseAside

LEMMA HooksPromised ==
  ASSUME RefundInv, PromiseInv, NEW h \in hooks, HookRead(h) \/ HookWrite(h) \/ HookFails(h)
  PROVE  PromiseInv' /\ [Promise!Next]_Promise!vars
<1>1. UNCHANGED <<psp, order, atPsp, refunds, pspTotal, returns, revokes, revoked>>
  BY DEF HookRead, HookWrite, HookFails, atPsp
<1>2. CASE UNCHANGED payment
  BY <1>1, <1>2, AsidePromised
<1>3. CASE h.pc = "write" /\ create_return_payment_transaction(h.ver, h.refund, FALSE)
  <2>1. h.refund \in 1..Len(refunds) /\ ~is_transaction_already_refunded(h.refund)
    BY <1>3, HookFacts DEF HookOK, create_return_payment_transaction
  <2>2. BooksInv'
    BY <1>1, <1>3, <2>1, BooksOfTransaction DEF PromiseInv
  <2> QED
    BY <1>1, <2>2, PromiseAside
<1> QED
  BY <1>2, <1>3 DEF HookRead, HookWrite, HookFails

LEMMA RevokeLinePromised ==
  ASSUME RefundInv, PromiseInv, NEW v \in revokes, revoke_line(v) \/ RevokeFails(v)
  PROVE  PromiseInv' /\ [Promise!Next]_Promise!vars
<1>1. /\ UNCHANGED <<psp, order, payment, atPsp, returns, refunds, pspTotal, payState>>
      /\ UNCHANGED <<transactions, payTotal>>
      /\ RefundInv /\ ReturnedInv /\ BooksInv /\ RevocationsInv /\ TasksInv
  BY DEF revoke_line, RevokeFails, atPsp, order, payment, PromiseInv
<1>2. Advances /\ ReturnedInv' /\ Covered' = Covered
  BY <1>1, AllQuiet
<1>3. BooksInv' /\ TasksInv'
  BY <1>1, <1>2, BooksKept, TasksEnd
<1>4. NextLine(v) \in Covered /\ NextLine(v) \in Items /\ v \in Revokes
      /\ v.items \subseteq Covered /\ v.left \subseteq v.items
  BY <1>1, NextLineIsLeft, RevokeFacts DEF RevocationsInv
<1>5. RevocationsInv'
  <2>1. ASSUME NEW next, next.items = v.items, next.left \subseteq v.items,
               revokes' \subseteq revokes \cup {next}
        PROVE  RevocationsInv'
    BY <1>1, <1>2, <1>4, <2>1 DEF RevocationsInv
  <2>2. CASE revokes' \subseteq revokes
    BY <1>1, <1>2, <2>2, RevocationsEnd
  <2>3. ASSUME NEW rest, rest \subseteq v.items,
               revokes' = Replace(revokes, v, [v EXCEPT !.left = rest])
        PROVE  RevocationsInv'
    <3>1. PICK next : next = [v EXCEPT !.left = rest]
      OBVIOUS
    <3>2. next.items = v.items /\ next.left = rest
      BY <1>4, <3>1 DEF Revokes
    <3> QED
      BY <2>1, <2>3, <3>1, <3>2 DEF Replace
  <2>4. CASE revokes' = Replace(revokes, v, [v EXCEPT !.left = v.items, !.tries = v.tries + 1])
    <3>1. PICK next : next = [v EXCEPT !.left = v.items, !.tries = v.tries + 1]
      OBVIOUS
    <3>2. next.items = v.items /\ next.left = v.items
      BY <1>4, <3>1 DEF Revokes
    <3> QED
      BY <2>1, <2>4, <3>1, <3>2 DEF Replace
  <2>5. CASE revoke_line(v)
    <3>1. PICK rest : rest = v.left \ {NextLine(v)}
      OBVIOUS
    <3>2. rest \subseteq v.items
      BY <1>4, <3>1
    <3>3. revokes' = revokes \ {v} \/ revokes' = Replace(revokes, v, [v EXCEPT !.left = rest])
      BY <2>5, <3>1 DEF revoke_line
    <3> QED
      BY <2>2, <2>3, <3>2, <3>3
  <2>6. CASE RevokeFails(v)
    BY <2>2, <2>4, <2>6 DEF RevokeFails
  <2> QED
    BY <2>5, <2>6
<1>6. [Promise!Next]_Promise!vars
  <2>1. CASE revoked' = revoked \cup {NextLine(v)}
    <3>1. Promise!Revoke(NextLine(v))
      BY <1>1, <1>4, <2>1, MapsRevoke
    <3> QED
      BY <1>4, <3>1 DEF Promise!Next
  <2>2. CASE revoked' = revoked
    BY <1>1, <2>2, MapsStutter
  <2> QED
    BY <2>1, <2>2 DEF revoke_line, RevokeFails
<1> QED
  BY <1>2, <1>3, <1>5, <1>6 DEF PromiseInv

LEMMA DashboardPromised ==
  ASSUME RefundInv, PromiseInv, DashboardRefund
  PROVE  PromiseInv' /\ [Promise!Next]_Promise!vars
<1>1. /\ PspRefund({}, 1)
      /\ UNCHANGED <<psp, order, payment, returns, revokes, revoked>>
  BY DEF DashboardRefund
<1>2. /\ Advances /\ BooksInv' /\ ReturnedInv' /\ RevocationsInv'
      /\ Promise!Pay(Covered') /\ Covered' \in SUBSET Items
  BY <1>1, PaidBack
<1>3. TasksInv'
  BY <1>1, <1>2, TasksEnd DEF PromiseInv
<1> QED
  BY <1>2, <1>3 DEF PromiseInv, Promise!Next

-----------------------------------------------------------------------------
(* Every behaviour. *)

LEMMA PromiseInit ==
  ASSUME Init
  PROVE  PromiseInv /\ Promise!Init
<1>1. refunds = <<>> /\ Len(refunds) = 0 /\ payTotal = 0 /\ pspTotal = 0
  BY DEF Init
<1>2. AddsUp([k \in 0..0 |-> 0])
  BY <1>1 DEF AddsUp
<1>3. BooksInv
  BY <1>2 DEF BooksInv
<1>4. ReturnedInv /\ TasksInv /\ RevocationsInv
  BY DEF Init, ReturnedInv, TasksInv, RevocationsInv, Announced
<1>5. Promise!Init
  BY RefundAssumption DEF Init, Promise!Init, Status, Covered
<1> QED
  BY <1>3, <1>4, <1>5 DEF PromiseInv

LEMMA TaskStepsPromised ==
  ASSUME RefundInv, PromiseInv, NEW t \in returns, ReturnStep(t) \/ ReturnFails(t)
  PROVE  PromiseInv' /\ [Promise!Next]_Promise!vars
<1>1. CASE FetchOrderDetailsByOrderID(t) \/ FetchPayment(t)
  BY <1>1, FetchPromised, FetchPaymentPromised
<1>2. CASE RefundPaymentIntent(t) \/ RefundPayPalPayment(t)
  BY <1>2, RefundPaymentPromised DEF RefundPaymentIntent, RefundPayPalPayment
<1>3. CASE CreateReturnPaymentTransaction(t) \/ LookAtPayment(t)
  BY <1>3, RecordPromised, LookPromised
<1>4. CASE UpdateReturnPaymentState(t) \/ LinkTransaction(t)
  BY <1>4, SettlePromised, LinkPromised
<1>5. CASE SendRevoke(t) \/ ReturnFails(t)
  BY <1>5, SendRevokePromised, ReturnFailsPromised
<1>6. CASE FreeReturn(t) \/ update_return_payment_state_for_enrollment_code_purchase(t)
  BY <1>6, FreeReturnPromised, SettleFreePromised
<1> QED
  BY <1>1, <1>2, <1>3, <1>4, <1>5, <1>6 DEF ReturnStep

LEMMA PromiseStep ==
  ASSUME RefundInv, PromiseInv, [Next]_vars
  PROVE  PromiseInv' /\ [Promise!Next]_Promise!vars
<1>1. CASE \E i \in Items : RefundView(i)
  BY <1>1, AsidePromised DEF RefundView, atPsp
<1>2. CASE \E q \in requests : RequestStep(q)
  BY <1>2, RequestsPromised
<1>3. CASE \E S \in SUBSET Items : OperatorReturn(S)
  BY <1>3, OperatorPromised
<1>4. CASE \E S \in messages \cup delivered : OrderReturnedView(S)
  BY <1>4, DeliveryPromised
<1>5. CASE \E t \in returns : ReturnStep(t) \/ ReturnFails(t)
  BY <1>5, TaskStepsPromised
<1>6. CASE \E r \in DOMAIN refunds : WebhookView(r) \/ PayPalWebhookView(r)
  BY <1>6, AsidePromised DEF WebhookView, PayPalWebhookView, Notified
<1>7. CASE \E h \in hooks : refund_from_stripe_task(h) \/ refund_from_paypal_task(h)
  BY <1>7, HooksPromised DEF refund_from_stripe_task, refund_from_paypal_task
<1>8. CASE \E v \in revokes : revoke_line(v) \/ RevokeFails(v)
  BY <1>8, RevokeLinePromised
<1>9. CASE DashboardRefund
  BY <1>9, DashboardPromised
<1>10. CASE ForeignUpdate
  BY <1>10, ForeignPromised
<1>11. CASE UNCHANGED vars
  BY <1>11, AsidePromised DEF vars, atPsp
<1> QED
  BY <1>1, <1>2, <1>3, <1>4, <1>5, <1>6, <1>7, <1>8, <1>9, <1>10, <1>11 DEF Next

\* The refund pipeline implements RefundPromise: whatever is raced, repeated, retried
\* or lost, an item is called refunded, or revoked, only when the PSP has returned
\* its price, and one that is called refunded stays so.
THEOREM RefundPromised == Spec => ImplementsRefundPromise
<1>1. Init => PromiseInv /\ Promise!Init
  BY PromiseInit
<1>2. RefundInv /\ PromiseInv /\ [Next]_vars => PromiseInv' /\ [Promise!Next]_Promise!vars
  BY PromiseStep
<1> QED
  BY <1>1, <1>2, RefundInvariant, PTL DEF Spec, ImplementsRefundPromise, Promise!Spec

\* A payment that Commercetools has for refunded in full is: the transactions never
\* claim more than the PSP has returned, though one of them may be recorded twice.
THEOREM FullRefundIsReal == Spec => [](has_full_refund_transaction => pspTotal = N)
<1>1. RefundInv /\ PromiseInv => (has_full_refund_transaction => pspTotal = N)
  BY FullIsFull DEF PromiseInv
<1>2. Init => PromiseInv
  BY PromiseInit
<1>3. RefundInv /\ PromiseInv /\ [Next]_vars => PromiseInv'
  BY PromiseStep
<1> QED
  BY <1>1, <1>2, <1>3, RefundInvariant, PTL DEF Spec

-----------------------------------------------------------------------------
(* How often an item may still be refunded, or has been: a return that it does not
   have yet, a message or a task before the PSP's answer may each lead to one refund.
   A step turns one of these into another; only a fault, or what is delivered again,
   makes one more of them. *)

Unreturned == <<"unreturned", 0>>
Message(S) == <<"message", S>>
Asking(t) == <<"asking", t>>
Done(r) == <<"done", r>>

Chances(i) ==
  {c \in {Unreturned} : created[i] = 0}
  \cup {Message(S) : S \in {T \in messages : i \in T}}
  \cup {Asking(t) : t \in {u \in returns : i \in u.items /\ u.pc \in Early}}
  \cup {Done(r) : r \in {k \in DOMAIN refunds : i \in refunds[k].items}}

Bounded(i) ==
  /\ IsFiniteSet(Chances(i))
  /\ Cardinality(Chances(i)) <= 1 + faults + redeliveries

DueInv == \A t \in returns : t.due \subseteq t.items

OnceInv == DueInv /\ \A i \in Items : Bounded(i)

LEMMA OnceInvIsOnce ==
  ASSUME RefundInv, OnceInv
  PROVE  RefundedOnce
<1>1. SUFFICES ASSUME NEW i \in Items
               PROVE  Cardinality({r \in DOMAIN refunds : i \in refunds[r].items})
                        <= 1 + faults + redeliveries
  BY DEF RefundedOnce
<1>2. PICK R : R = {r \in DOMAIN refunds : i \in refunds[r].items}
  OBVIOUS
<1>3. PICK D : D = {Done(r) : r \in R}
  OBVIOUS
<1>4. Bounded(i)
  BY DEF OnceInv
<1>5. D \subseteq Chances(i)
  BY <1>2, <1>3 DEF Chances
<1>6. IsFiniteSet(D) /\ Cardinality(D) <= Cardinality(Chances(i))
      /\ Cardinality(D) \in Nat /\ Cardinality(Chances(i)) \in Nat
  BY <1>4, <1>5, FS_Subset, FS_CardinalityType DEF Bounded
<1>7. Cardinality(R) <= Cardinality(D) /\ Cardinality(R) \in Nat
  <2>1. PICK f : f = [r \in R |-> Done(r)]
    OBVIOUS
  <2>2. f \in [R -> D]
    BY <1>3, <2>1
  <2>3. \A r, k \in R : f[r] = f[k] => r = k
    BY <2>1 DEF Done
  <2>4. f \in Injection(R, D)
    BY <2>2, <2>3 DEF Injection, IsInjective
  <2> QED
    BY <1>6, <2>4, FS_Injection, FS_CardinalityType
<1>8. faults \in Nat /\ redeliveries \in Nat
  BY DEF RefundInv, HistoryInv
<1> QED
  BY <1>2, <1>4, <1>6, <1>7, <1>8 DEF Bounded

-----------------------------------------------------------------------------
(* What a step may do to the chances of an item. *)

\* No more than there were ...
Swaps(A, B) ==
  \/ B \subseteq A
  \/ \E a \in A : \E b : B \subseteq (A \ {a}) \cup {b}

\* ... or one more.
Gains(A, B) == \E b : B \subseteq A \cup {b}

CountsKept == faults' >= faults /\ redeliveries' >= redeliveries

CountsGrow == faults' >= faults + 1 \/ redeliveries' >= redeliveries + 1

LEMMA SwapsCount ==
  ASSUME NEW A, NEW B, IsFiniteSet(A), Swaps(A, B)
  PROVE  IsFiniteSet(B) /\ Cardinality(B) <= Cardinality(A)
<1>1. CASE B \subseteq A
  BY <1>1, FS_Subset
<1>2. ASSUME NEW a \in A, NEW b, B \subseteq (A \ {a}) \cup {b}
      PROVE  IsFiniteSet(B) /\ Cardinality(B) <= Cardinality(A)
  <2>1. /\ IsFiniteSet(A \ {a}) /\ Cardinality(A \ {a}) = Cardinality(A) - 1
        /\ Cardinality(A) \in Nat
    BY FS_RemoveElement, FS_CardinalityType
  <2>2. /\ IsFiniteSet((A \ {a}) \cup {b})
        /\ Cardinality((A \ {a}) \cup {b}) \in {Cardinality(A \ {a}), Cardinality(A \ {a}) + 1}
    BY <2>1, FS_AddElement
  <2>3. /\ IsFiniteSet(B) /\ Cardinality(B) <= Cardinality((A \ {a}) \cup {b})
        /\ Cardinality(B) \in Nat
    BY <1>2, <2>2, FS_Subset, FS_CardinalityType
  <2> QED
    BY <2>1, <2>2, <2>3
<1> QED
  BY <1>1, <1>2 DEF Swaps

LEMMA GainsCount ==
  ASSUME NEW A, NEW B, IsFiniteSet(A), Gains(A, B)
  PROVE  IsFiniteSet(B) /\ Cardinality(B) <= Cardinality(A) + 1
<1>1. PICK b : B \subseteq A \cup {b}
  BY DEF Gains
<1>2. /\ IsFiniteSet(A \cup {b})
      /\ Cardinality(A \cup {b}) \in {Cardinality(A), Cardinality(A) + 1}
      /\ Cardinality(A) \in Nat
  BY FS_AddElement, FS_CardinalityType
<1>3. /\ IsFiniteSet(B) /\ Cardinality(B) <= Cardinality(A \cup {b})
      /\ Cardinality(B) \in Nat
  BY <1>1, <1>2, FS_Subset, FS_CardinalityType
<1> QED
  BY <1>2, <1>3

\* A step keeps the bound if it is one of these for every item.
Counted(i) ==
  \/ Swaps(Chances(i), Chances(i)')
  \/ Gains(Chances(i), Chances(i)') /\ CountsGrow

LEMMA BoundedKept ==
  ASSUME RefundInv, RefundInv', CountsKept, NEW i \in Items, Bounded(i), Counted(i)
  PROVE  Bounded(i)'
<1>1. /\ faults \in Nat /\ redeliveries \in Nat /\ faults' \in Nat /\ redeliveries' \in Nat
  BY DEF RefundInv, HistoryInv
<1>2. PICK A : A = Chances(i)
  OBVIOUS
<1>3. PICK B : B = Chances(i)'
  OBVIOUS
<1>4. IsFiniteSet(A) /\ Cardinality(A) <= 1 + faults + redeliveries /\ Cardinality(A) \in Nat
  BY <1>2, FS_CardinalityType DEF Bounded
<1>5. /\ IsFiniteSet(B)
      /\ Cardinality(B) <= Cardinality(A) \/ (Cardinality(B) <= Cardinality(A) + 1 /\ CountsGrow)
  BY <1>2, <1>3, <1>4, SwapsCount, GainsCount DEF Counted
<1>6. Cardinality(B) \in Nat
  BY <1>5, FS_CardinalityType
<1>7. Cardinality(B) <= 1 + faults' + redeliveries'
  <2>1. PICK a \in Nat : a = Cardinality(A)
    BY <1>4
  <2>2. PICK b \in Nat : b = Cardinality(B)
    BY <1>6
  <2>3. a <= 1 + faults + redeliveries
    BY <1>4, <2>1
  <2>4. CASE b <= a
    BY <1>1, <2>2, <2>3, <2>4 DEF CountsKept
  <2>5. CASE b <= a + 1 /\ CountsGrow
    BY <1>1, <2>2, <2>3, <2>5 DEF CountsKept, CountsGrow
  <2> QED
    BY <1>5, <2>1, <2>2, <2>4, <2>5
<1> QED
  BY <1>3, <1>5, <1>7 DEF Bounded

-----------------------------------------------------------------------------
(* The chances of an item, step by step. *)

LEMMA TagsDiffer ==
  /\ \A S, T : Message(S) = Message(T) => S = T
  /\ \A t, u : Asking(t) = Asking(u) => t = u
  /\ \A S, t : Message(S) # Asking(t)
  /\ \A S, r : Message(S) # Done(r)
  /\ \A t, r : Asking(t) # Done(r)
  /\ \A x : Unreturned # Message(x) /\ Unreturned # Asking(x) /\ Unreturned # Done(x)
BY DEF Unreturned, Message, Asking, Done

\* What the chances depend on stays.
LEMMA ChancesStay ==
  ASSUME UNCHANGED <<created, messages, refunds>>, returns' \subseteq returns, NEW i
  PROVE  Counted(i)
BY DEF Chances, Counted, Swaps

\* A task goes on, and not back to before the PSP's answer ...
Follows(t, next) ==
  /\ next.items = t.items /\ next.due \subseteq t.items
  /\ next.pc \in Early => t.pc \in Early

LEMMA OneGoesOn ==
  ASSUME UNCHANGED <<created, messages, refunds>>, NEW t \in returns, NEW next,
         Follows(t, next), returns' = Replace(returns, t, next), NEW i
  PROVE  Counted(i)
<1>1. \A u \in returns' : u = next \/ (u \in returns /\ u # t)
  BY DEF Replace
<1>2. CASE i \in t.items /\ t.pc \in Early
  <2>1. Asking(t) \in Chances(i)
    BY <1>2 DEF Chances
  <2>2. ASSUME NEW c \in Chances(i)'
        PROVE  c \in Chances(i) \ {Asking(t)} \/ c = Asking(next)
    <3>1. CASE \E u \in returns' : i \in u.items /\ u.pc \in Early /\ c = Asking(u)
      BY <1>1, <3>1, TagsDiffer DEF Chances
    <3>2. CASE \E S \in messages : i \in S /\ c = Message(S)
      BY <3>2, TagsDiffer DEF Chances
    <3>3. CASE \E r \in DOMAIN refunds : i \in refunds[r].items /\ c = Done(r)
      BY <3>3, TagsDiffer DEF Chances
    <3>4. CASE c = Unreturned /\ created[i] = 0
      BY <3>4, TagsDiffer DEF Chances
    <3> QED
      BY <3>1, <3>2, <3>3, <3>4 DEF Chances
  <2>3. Chances(i)' \subseteq (Chances(i) \ {Asking(t)}) \cup {Asking(next)}
    BY <2>2
  <2> QED
    BY <2>1, <2>3 DEF Counted, Swaps
<1>3. CASE ~(i \in t.items /\ t.pc \in Early)
  <2>1. Chances(i)' \subseteq Chances(i)
    BY <1>1, <1>3 DEF Chances, Follows
  <2> QED
    BY <2>1 DEF Counted, Swaps
<1> QED
  BY <1>2, <1>3

\* ... or there is another, after a fault or with what is delivered again.
LEMMA OneMoreAsks ==
  ASSUME UNCHANGED <<created, messages, refunds>>, NEW next,
         returns' \subseteq returns \cup {next}, CountsGrow, NEW i
  PROVE  Counted(i)
<1>1. Chances(i)' \subseteq Chances(i) \cup {Asking(next)}
  BY DEF Chances
<1> QED
  BY <1>1 DEF Counted, Gains

\* A return of items that have none.
LEMMA OneIsReturned ==
  ASSUME RefundInv, NEW S \in SUBSET Items, \A i \in S : created[i] = 0,
         AddReturnInfo(S), UNCHANGED <<refunds, returns>>, NEW i \in Items
  PROVE  Counted(i)
<1>1. created \in [Items -> Nat] /\ messages' = messages \cup {S}
  BY DEF RefundInv, OrderInv, AddReturnInfo
<1>2. created'[i] = 0 => created[i] = 0 /\ i \notin S
  BY <1>1 DEF AddReturnInfo
<1>3. CASE i \in S
  <2>1. Unreturned \in Chances(i)
    BY <1>3 DEF Chances
  <2>2. ASSUME NEW c \in Chances(i)'
        PROVE  c \in Chances(i) \ {Unreturned} \/ c = Message(S)
    <3>1. CASE \E u \in returns : i \in u.items /\ u.pc \in Early /\ c = Asking(u)
      BY <3>1, TagsDiffer DEF Chances
    <3>2. CASE \E T \in messages' : i \in T /\ c = Message(T)
      BY <1>1, <3>2, TagsDiffer DEF Chances
    <3>3. CASE \E r \in DOMAIN refunds : i \in refunds[r].items /\ c = Done(r)
      BY <3>3, TagsDiffer DEF Chances
    <3> QED
      BY <1>2, <1>3, <3>1, <3>2, <3>3 DEF Chances
  <2>3. Chances(i)' \subseteq (Chances(i) \ {Unreturned}) \cup {Message(S)}
    BY <2>2
  <2> QED
    BY <2>1, <2>3 DEF Counted, Swaps
<1>4. CASE i \notin S
  <2>1. Chances(i)' \subseteq Chances(i)
    BY <1>1, <1>2, <1>4 DEF Chances
  <2> QED
    BY <2>1 DEF Counted, Swaps
<1> QED
  BY <1>3, <1>4

\* A message becomes a task, or is lost.
LEMMA OneIsTaken ==
  ASSUME NEW S \in messages, NEW next, next.items = S, messages' = messages \ {S},
         returns' \subseteq returns \cup {next}, UNCHANGED <<created, refunds>>, NEW i
  PROVE  Counted(i)
<1>1. CASE i \in S
  <2>1. Message(S) \in Chances(i)
    BY <1>1 DEF Chances
  <2>2. ASSUME NEW c \in Chances(i)'
        PROVE  c \in Chances(i) \ {Message(S)} \/ c = Asking(next)
    <3>1. CASE \E u \in returns' : i \in u.items /\ u.pc \in Early /\ c = Asking(u)
      BY <3>1, TagsDiffer DEF Chances
    <3>2. CASE \E T \in messages' : i \in T /\ c = Message(T)
      BY <3>2, TagsDiffer DEF Chances
    <3>3. CASE \E r \in DOMAIN refunds : i \in refunds[r].items /\ c = Done(r)
      BY <3>3, TagsDiffer DEF Chances
    <3>4. CASE c = Unreturned /\ created[i] = 0
      BY <3>4, TagsDiffer DEF Chances
    <3> QED
      BY <3>1, <3>2, <3>3, <3>4 DEF Chances
  <2>3. Chances(i)' \subseteq (Chances(i) \ {Message(S)}) \cup {Asking(next)}
    BY <2>2
  <2> QED
    BY <2>1, <2>3 DEF Counted, Swaps
<1>2. CASE i \notin S
  <2>1. Chances(i)' \subseteq Chances(i)
    BY <1>2 DEF Chances
  <2> QED
    BY <2>1 DEF Counted, Swaps
<1> QED
  BY <1>1, <1>2

\* The PSP refunds what is due to a task, which then asks no more.
LEMMA OneIsRefunded ==
  ASSUME RefundInv, NEW t \in returns, t.pc \in Early, t.due \subseteq t.items,
         NEW r, r.items = t.due, refunds' = Append(refunds, r),
         \A u \in returns' : (u \in returns /\ u # t) \/ u.pc \notin Early,
         UNCHANGED <<created, messages>>, NEW i
  PROVE  Counted(i)
<1>1. refunds \in Seq(PspRefunds)
  BY DEF RefundInv, PspInv
<1>2. \A k \in DOMAIN refunds' :
        \/ k \in DOMAIN refunds /\ refunds'[k] = refunds[k]
        \/ k = Len(refunds) + 1 /\ refunds'[k] = r
  BY <1>1
<1>3. CASE i \in t.items
  <2>1. Asking(t) \in Chances(i)
    BY <1>3 DEF Chances
  <2>2. ASSUME NEW c \in Chances(i)'
        PROVE  c \in Chances(i) \ {Asking(t)} \/ c = Done(Len(refunds) + 1)
    <3>1. CASE \E u \in returns' : i \in u.items /\ u.pc \in Early /\ c = Asking(u)
      BY <3>1, TagsDiffer DEF Chances
    <3>2. CASE \E S \in messages : i \in S /\ c = Message(S)
      BY <3>2, TagsDiffer DEF Chances
    <3>3. CASE \E k \in DOMAIN refunds' : i \in refunds'[k].items /\ c = Done(k)
      BY <1>2, <3>3, TagsDiffer DEF Chances
    <3>4. CASE c = Unreturned /\ created[i] = 0
      BY <3>4, TagsDiffer DEF Chances
    <3> QED
      BY <3>1, <3>2, <3>3, <3>4 DEF Chances
  <2>3. Chances(i)' \subseteq (Chances(i) \ {Asking(t)}) \cup {Done(Len(refunds) + 1)}
    BY <2>2
  <2> QED
    BY <2>1, <2>3 DEF Counted, Swaps
<1>4. CASE i \notin t.items
  <2>1. i \notin r.items
    BY <1>4
  <2>2. Chances(i)' \subseteq Chances(i)
    BY <1>2, <2>1 DEF Chances
  <2> QED
    BY <2>2 DEF Counted, Swaps
<1> QED
  BY <1>3, <1>4

\* A refund of no item.
LEMMA NoneIsRefunded ==
  ASSUME RefundInv, NEW r, r.items = {}, refunds' = Append(refunds, r),
         UNCHANGED <<created, messages, returns>>, NEW i
  PROVE  Counted(i)
<1>1. refunds \in Seq(PspRefunds)
  BY DEF RefundInv, PspInv
<1>2. \A k \in DOMAIN refunds' :
        \/ k \in DOMAIN refunds /\ refunds'[k] = refunds[k]
        \/ k = Len(refunds) + 1 /\ refunds'[k] = r
  BY <1>1
<1>3. Chances(i)' \subseteq Chances(i)
  BY <1>2 DEF Chances
<1> QED
  BY <1>3 DEF Counted, Swaps

-----------------------------------------------------------------------------
(* The steps. *)

OneKept == DueInv' /\ \A i \in Items : Counted(i)

Elsewhere == UNCHANGED <<created, messages, refunds>>

LEMMA CountsMove ==
  ASSUME RefundInv, [Next]_vars
  PROVE  CountsKept
<1>1. faults \in Nat /\ redeliveries \in Nat
  BY DEF RefundInv, HistoryInv
<1>2. faults' \in {faults, faults + 1} /\ redeliveries' \in {redeliveries, redeliveries + 1}
  <2>1. CASE \E i \in Items : RefundView(i)
    BY <2>1 DEF RefundView
  <2>2. CASE \E q \in requests : RequestStep(q)
    BY <2>2 DEF RequestStep, CreateReturnForCommercetoolsOrder, create_return_for_order, bounds
  <2>3. CASE \E S \in SUBSET Items : OperatorReturn(S)
    BY <2>3 DEF OperatorReturn
  <2>4. CASE \E S \in messages \cup delivered : OrderReturnedView(S)
    BY <2>4 DEF OrderReturnedView, Fault, NoFault
  <2>5. CASE \E t \in returns : ReturnStep(t) \/ ReturnFails(t)
    BY <2>5 DEF ReturnStep, ReturnFails, FetchOrderDetailsByOrderID, FetchPayment,
       RefundPaymentIntent, RefundPayPalPayment, RefundPayment, CreateReturnPaymentTransaction,
       LookAtPayment, UpdateReturnPaymentState, LinkTransaction, SendRevoke, FreeReturn,
       update_return_payment_state_for_enrollment_code_purchase, Fault, NoFault, bounds
  <2>6. CASE \E r \in DOMAIN refunds : WebhookView(r) \/ PayPalWebhookView(r)
    BY <2>6 DEF WebhookView, PayPalWebhookView, Notified, Fault, NoFault
  <2>7. CASE \E h \in hooks : refund_from_stripe_task(h) \/ refund_from_paypal_task(h)
    BY <2>7 DEF refund_from_stripe_task, refund_from_paypal_task, HookRead, HookWrite,
       HookFails, Fault, NoFault, bounds
  <2>8. CASE \E v \in revokes : revoke_line(v) \/ RevokeFails(v)
    BY <2>8 DEF revoke_line, RevokeFails, Fault, bounds
  <2>9. CASE DashboardRefund \/ ForeignUpdate
    BY <2>9 DEF DashboardRefund, ForeignUpdate, Fault
  <2>10. CASE UNCHANGED vars
    BY <2>10 DEF vars, bounds
  <2> QED
    BY <2>1, <2>2, <2>3, <2>4, <2>5, <2>6, <2>7, <2>8, <2>9, <2>10 DEF Next
<1> QED
  BY <1>1, <1>2 DEF CountsKept

LEMMA FaultGrows ==
  ASSUME RefundInv, Fault
  PROVE  CountsGrow
BY DEF RefundInv, HistoryInv, Fault, CountsGrow

\* Tasks are left alone, or end.
LEMMA OnlyEnds ==
  ASSUME DueInv, Elsewhere, returns' \subseteq returns
  PROVE  OneKept
BY ChancesStay DEF OneKept, DueInv, Elsewhere

LEMMA TaskFollows ==
  ASSUME DueInv, Elsewhere, NEW t \in returns, NEW next, Follows(t, next),
         ReturnGoesOn(t, next)
  PROVE  OneKept
<1>1. returns' = Replace(returns, t, next)
  BY DEF ReturnGoesOn
<1>2. DueInv'
  BY <1>1 DEF DueInv, Follows, Replace
<1> QED
  BY <1>1, <1>2, OneGoesOn DEF OneKept, Elsewhere

\* A task starts again, before it has asked the PSP or for a fault, or ends.
LEMMA TaskAgain ==
  ASSUME RefundInv, DueInv, Elsewhere, NEW t \in returns, t.pc \in Early \/ Fault,
         ReturnRetried(t) \/ ReturnDies(t)
  PROVE  OneKept
<1>1. PICK next : next = ReturnTask(t.id, t.items, t.tries + 1)
  OBVIOUS
<1>2. next.items = t.items /\ next.due = {}
  BY <1>1 DEF ReturnTask
<1>3. ReturnGoesOn(t, next) \/ returns' \subseteq returns
  BY <1>1 DEF ReturnRetried, ReturnDies
<1>4. CASE returns' \subseteq returns
  BY <1>4, OnlyEnds
<1>5. CASE ReturnGoesOn(t, next) /\ t.pc \in Early
  BY <1>2, <1>5, TaskFollows DEF Follows
<1>6. CASE ReturnGoesOn(t, next) /\ Fault
  <2>1. returns' \subseteq returns \cup {next} /\ CountsGrow
    BY <1>6, FaultGrows DEF ReturnGoesOn, Replace
  <2>2. DueInv'
    BY <1>2, <2>1 DEF DueInv
  <2> QED
    BY <2>1, <2>2, OneMoreAsks DEF OneKept, Elsewhere
<1> QED
  BY <1>3, <1>4, <1>5, <1>6

LEMMA RequestsOnce ==
  ASSUME RefundInv, DueInv, NEW q \in requests, RequestStep(q)
  PROVE  OneKept
<1>1. CASE CreateReturnForCommercetoolsOrder(q)
  BY <1>1, OnlyEnds DEF CreateReturnForCommercetoolsOrder, order, atPsp, Elsewhere
<1>2. CASE create_return_for_order(q) /\ CurrentOrder(q.ver) /\ AddReturnInfo({q.item})
  <2>1. q.item \in Items /\ created[q.item] = 0
    BY <1>2 DEF RefundInv, RequestInv, RequestOK, Requests, CurrentOrder,
                create_return_for_order
  <2>2. PICK S : S = {q.item}
    OBVIOUS
  <2>3. S \in SUBSET Items /\ (\A i \in S : created[i] = 0) /\ AddReturnInfo(S)
    BY <1>2, <2>1, <2>2
  <2>4. UNCHANGED <<refunds, returns>>
    BY <1>2 DEF create_return_for_order, atPsp
  <2> QED
    BY <2>3, <2>4, OneIsReturned DEF OneKept, DueInv
<1>3. CASE create_return_for_order(q) /\ UNCHANGED order
  BY <1>3, OnlyEnds DEF create_return_for_order, order, atPsp, Elsewhere
<1> QED
  BY <1>1, <1>2, <1>3 DEF RequestStep, create_return_for_order

LEMMA OperatorOnce ==
  ASSUME RefundInv, DueInv, NEW S \in SUBSET Items, OperatorReturn(S)
  PROVE  OneKept
BY OneIsReturned DEF OperatorReturn, atPsp, OneKept, DueInv

LEMMA DeliveryOnce ==
  ASSUME RefundInv, DueInv, NEW S \in messages \cup delivered, OrderReturnedView(S)
  PROVE  OneKept
<1>1. PICK next : next = ReturnTask(redeliveries', S, 0)
  OBVIOUS
<1>2. next.items = S /\ next.due = {}
  BY <1>1 DEF ReturnTask
<1>3. returns' \subseteq returns \cup {next} /\ UNCHANGED <<created, refunds>>
  BY <1>1 DEF OrderReturnedView, atPsp
<1>4. DueInv'
  BY <1>2, <1>3 DEF DueInv
<1>5. CASE S \in messages /\ messages' = messages \ {S}
  BY <1>2, <1>3, <1>4, <1>5, OneIsTaken DEF OneKept
<1>6. CASE redeliveries' = redeliveries + 1 /\ UNCHANGED messages
  <2>1. CountsGrow
    BY <1>6 DEF RefundInv, HistoryInv, CountsGrow
  <2> QED
    BY <1>3, <1>4, <1>6, <2>1, OneMoreAsks DEF OneKept
<1> QED
  BY <1>5, <1>6 DEF OrderReturnedView

LEMMA PaymentOnce ==
  ASSUME RefundInv, DueInv, NEW t \in returns, RefundPayment(t)
  PROVE  OneKept
<1>1. /\ t \in Returns /\ t.pc = "refund" /\ UNCHANGED <<created, messages>>
      /\ t.due \subseteq t.items
  BY ReturnFacts DEF RefundPayment, order, DueInv
<1>2. PICK rec : rec = Recording(t)
  OBVIOUS
<1>3. rec \in Returns /\ rec.items = t.items /\ rec.due = {} /\ rec.pc = "record"
  BY <1>1, <1>2, RecordingIs DEF Recording, Returns
<1>4. \A o, r : /\ [rec EXCEPT !.outcome = o, !.refund = r].items = t.items
                /\ [rec EXCEPT !.outcome = o, !.refund = r].due = {}
                /\ [rec EXCEPT !.outcome = o, !.refund = r].pc = "record"
                /\ [rec EXCEPT !.outcome = o].items = t.items
                /\ [rec EXCEPT !.outcome = o].due = {}
                /\ [rec EXCEPT !.outcome = o].pc = "record"
  BY <1>3 DEF Returns
<1>5. ASSUME NEW next, next.items = t.items, next.due = {}, next.pc = "record",
             ReturnGoesOn(t, next), UNCHANGED atPsp
      PROVE  OneKept
  <2>1. Follows(t, next)
    BY <1>5 DEF Follows, Early
  <2> QED
    BY <1>1, <1>5, <2>1, TaskFollows DEF atPsp, Elsewhere
<1>6. ASSUME PspRefund(t.due, Cardinality(t.due)),
             \A u \in returns' : \/ u \in returns /\ u # t
                                 \/ u.pc = "record" /\ u.due = {}
      PROVE  OneKept
  <2>1. PICK r : r = [items |-> t.due, amount |-> Cardinality(t.due)]
    OBVIOUS
  <2>2. r.items = t.due /\ refunds' = Append(refunds, r)
    BY <1>6, <2>1 DEF PspRefund
  <2>3. t.pc \in Early /\ \A u \in returns' : (u \in returns /\ u # t) \/ u.pc \notin Early
    BY <1>1, <1>6 DEF Early
  <2>4. DueInv'
    BY <1>6 DEF DueInv
  <2> QED
    BY <1>1, <2>2, <2>3, <2>4, OneIsRefunded DEF OneKept
<1>7. ASSUME NEW next, next.due = {}, next.pc = "record", ReturnGoesOn(t, next),
             PspRefund(t.due, Cardinality(t.due))
      PROVE  OneKept
  <2>1. \A u \in returns' : (u \in returns /\ u # t) \/ u = next
    BY <1>7 DEF ReturnGoesOn, Replace
  <2> QED
    BY <1>6, <1>7, <2>1
<1>8. CASE ReturnDies(t) /\ PspRefund(t.due, Cardinality(t.due))
  <2>1. \A u \in returns' : u \in returns /\ u # t
    BY <1>8 DEF ReturnDies
  <2> QED
    BY <1>6, <1>8, <2>1
<1>9. \/ ReturnGoesOn(t, rec) /\ UNCHANGED atPsp
      \/ ReturnGoesOn(t, [rec EXCEPT !.outcome = "already"]) /\ UNCHANGED atPsp
      \/ /\ PspRefund(t.due, Cardinality(t.due))
         /\ \/ ReturnGoesOn(t, [rec EXCEPT !.outcome = "fresh", !.refund = Len(refunds) + 1])
            \/ ReturnGoesOn(t, [rec EXCEPT !.outcome = "error"])
            \/ ReturnDies(t)
      \/ ReturnGoesOn(t, Refused(rec)) /\ UNCHANGED atPsp
      \/ ReturnGoesOn(t, [rec EXCEPT !.outcome = "error"]) /\ UNCHANGED atPsp
  BY <1>2 DEF RefundPayment
<1>10. Refused(rec).items = t.items /\ Refused(rec).due = {} /\ Refused(rec).pc = "record"
  BY <1>4 DEF Refused
<1> QED
  BY <1>3, <1>4, <1>5, <1>7, <1>8, <1>9, <1>10

\* Before the PSP is asked ...
LEMMA EarlyOn ==
  ASSUME RefundInv, DueInv, NEW t \in returns,
         FetchOrderDetailsByOrderID(t) \/ FetchPayment(t) \/ FreeReturn(t)
  PROVE  OneKept
<1>1. t \in Returns /\ t.due \subseteq t.items /\ t.pc \in Early /\ Elsewhere
  BY ReturnFacts DEF DueInv, Early, FetchOrderDetailsByOrderID, FetchPayment, FreeReturn,
     order, atPsp, Elsewhere
<1>2. CASE FetchOrderDetailsByOrderID(t)
  <2>1. PICK S : S = {i \in t.items : payState[i] # "Refunded"}
    OBVIOUS
  <2>2. PICK next : next = [t EXCEPT !.pc = "payment", !.ver = orderVersion, !.due = S]
    OBVIOUS
  <2>3. next.items = t.items /\ next.due = S /\ S \subseteq t.items
    BY <1>1, <2>1, <2>2 DEF Returns
  <2> QED
    BY <1>1, <1>2, <2>1, <2>2, <2>3, TaskFollows DEF Follows, FetchOrderDetailsByOrderID
<1>3. CASE FetchPayment(t)
  <2>1. PICK f : f = has_full_refund_transaction
    OBVIOUS
  <2>2. PICK next : next = [t EXCEPT !.pc = "refund", !.pver = payVersion, !.full = f]
    OBVIOUS
  <2>3. next.items = t.items /\ next.due = t.due
    BY <1>1, <2>2 DEF Returns
  <2> QED
    BY <1>1, <1>3, <2>1, <2>2, <2>3, TaskFollows DEF Follows, FetchPayment
<1>4. CASE FreeReturn(t)
  <2>1. PICK next : next = [t EXCEPT !.pc = "free", !.ver = orderVersion]
    OBVIOUS
  <2>2. next.items = t.items /\ next.due = t.due
    BY <1>1, <2>1 DEF Returns
  <2> QED
    BY <1>1, <1>4, <2>1, <2>2, TaskFollows DEF Follows, FreeReturn
<1> QED
  BY <1>2, <1>3, <1>4

\* ... after it, when a conflict ends the task and only a fault repeats it ...
LEMMA LateOn ==
  ASSUME RefundInv, DueInv, NEW t \in returns,
         \/ CreateReturnPaymentTransaction(t) \/ LookAtPayment(t)
         \/ UpdateReturnPaymentState(t) \/ LinkTransaction(t) \/ SendRevoke(t)
  PROVE  OneKept
<1>1. t \in Returns /\ t.due \subseteq t.items /\ Elsewhere
  BY ReturnFacts DEF DueInv, order, atPsp, CreateReturnPaymentTransaction, LookAtPayment,
     UpdateReturnPaymentState, LinkTransaction, SendRevoke, SettleItems, Elsewhere
<1>2. ASSUME NEW next, next.items = t.items, next.due = t.due, next.pc \notin Early,
             ReturnGoesOn(t, next)
      PROVE  OneKept
  BY <1>1, <1>2, TaskFollows DEF Follows
<1>3. CASE ReturnDies(t)
  BY <1>1, <1>3, OnlyEnds DEF ReturnDies
<1>4. CASE ReturnRetried(t) /\ Fault
  BY <1>1, <1>4, TaskAgain
<1>5. CASE CreateReturnPaymentTransaction(t)
  <2>1. PICK next : next = Looking(t)
    OBVIOUS
  <2>2. next.items = t.items /\ next.due = t.due /\ next.pc \notin Early
    BY <1>1, <2>1 DEF Looking, Returns, Early
  <2>3. ReturnGoesOn(t, next) \/ ReturnDies(t) \/ (ReturnRetried(t) /\ Fault)
    BY <1>5, <2>1 DEF CreateReturnPaymentTransaction, SkipRecording, RecordingRejected
  <2> QED
    BY <1>2, <1>3, <1>4, <2>2, <2>3
<1>6. CASE LookAtPayment(t)
  <2>1. PICK v : v = IF transactions = <<>> THEN 0 ELSE payVersion
    OBVIOUS
  <2>2. PICK next : next = [t EXCEPT !.pc = "settle", !.pver = v]
    OBVIOUS
  <2>3. next.items = t.items /\ next.due = t.due /\ next.pc \notin Early
    BY <1>1, <2>2 DEF Returns, Early
  <2> QED
    BY <1>2, <1>6, <2>1, <2>2, <2>3 DEF LookAtPayment
<1>7. CASE UpdateReturnPaymentState(t)
  <2>1. PICK next : next = [t EXCEPT !.pc = AfterSettling(t), !.ver = 0]
    OBVIOUS
  <2>2. next.items = t.items /\ next.due = t.due /\ next.pc \notin Early
    BY <1>1, <2>1 DEF Returns, AfterSettling, Early
  <2>3. ReturnGoesOn(t, next) \/ ReturnDies(t) \/ (ReturnRetried(t) /\ Fault)
    BY <1>7, <2>1 DEF UpdateReturnPaymentState, SettleRejected
  <2> QED
    BY <1>2, <1>3, <1>4, <2>2, <2>3
<1>8. CASE LinkTransaction(t)
  <2>1. PICK next : next = [t EXCEPT !.pc = "revoke", !.pver = 0]
    OBVIOUS
  <2>2. next.items = t.items /\ next.due = t.due /\ next.pc \notin Early
    BY <1>1, <2>1 DEF Returns, Early
  <2>3. ReturnGoesOn(t, next) \/ ReturnDies(t) \/ (ReturnRetried(t) /\ Fault)
    BY <1>8, <2>1 DEF LinkTransaction
  <2> QED
    BY <1>2, <1>3, <1>4, <2>2, <2>3
<1>9. CASE SendRevoke(t)
  BY <1>1, <1>9, OnlyEnds DEF SendRevoke, ReturnDies
<1> QED
  BY <1>5, <1>6, <1>7, <1>8, <1>9

\* ... and for a free order, whose task starts again on a conflict.
LEMMA FreeOn ==
  ASSUME RefundInv, DueInv, NEW t \in returns,
         update_return_payment_state_for_enrollment_code_purchase(t)
  PROVE  OneKept
<1>1. t.pc \in Early /\ Elsewhere
  BY DEF order, atPsp, SettleItems, update_return_payment_state_for_enrollment_code_purchase,
     Elsewhere, Early
<1>2. returns' = returns \ {t} \/ ReturnRetried(t)
  BY DEF update_return_payment_state_for_enrollment_code_purchase
<1> QED
  BY <1>1, <1>2, TaskAgain, OnlyEnds

LEMMA FailsOnce ==
  ASSUME RefundInv, DueInv, NEW t \in returns, ReturnFails(t)
  PROVE  OneKept
BY TaskAgain DEF ReturnFails, order, atPsp, Elsewhere

LEMMA OnceStep ==
  ASSUME RefundInv, RefundInv', OnceInv, [Next]_vars
  PROVE  OnceInv'
<1>1. DueInv /\ \A i \in Items : Bounded(i)
  BY DEF OnceInv
<1>2. OneKept
  <2>1. CASE \E q \in requests : RequestStep(q)
    BY <1>1, <2>1, RequestsOnce
  <2>2. CASE \E S \in SUBSET Items : OperatorReturn(S)
    BY <1>1, <2>2, OperatorOnce
  <2>3. CASE \E S \in messages \cup delivered : OrderReturnedView(S)
    BY <1>1, <2>3, DeliveryOnce
  <2>4. CASE \E t \in returns : ReturnStep(t) \/ ReturnFails(t)
    <3>1. CASE \E t \in returns : RefundPaymentIntent(t) \/ RefundPayPalPayment(t)
      BY <1>1, <3>1, PaymentOnce DEF RefundPaymentIntent, RefundPayPalPayment
    <3> QED
      BY <1>1, <2>4, <3>1, EarlyOn, LateOn, FreeOn, FailsOnce DEF ReturnStep
  <2>5. CASE \E i \in Items : RefundView(i)
    BY <1>1, <2>5, OnlyEnds DEF RefundView, order, atPsp, Elsewhere
  <2>6. CASE \E r \in DOMAIN refunds : WebhookView(r) \/ PayPalWebhookView(r)
    BY <1>1, <2>6, OnlyEnds DEF WebhookView, PayPalWebhookView, Notified, order, Elsewhere
  <2>7. CASE \E h \in hooks : refund_from_stripe_task(h) \/ refund_from_paypal_task(h)
    BY <1>1, <2>7, OnlyEnds DEF refund_from_stripe_task, refund_from_paypal_task, HookRead,
       HookWrite, HookFails, order, atPsp, Elsewhere
  <2>8. CASE \E v \in revokes : revoke_line(v) \/ RevokeFails(v)
    BY <1>1, <2>8, OnlyEnds DEF revoke_line, RevokeFails, order, atPsp, Elsewhere
  <2>9. CASE ForeignUpdate
    BY <1>1, <2>9, OnlyEnds DEF ForeignUpdate, atPsp, Elsewhere
  <2>10. CASE DashboardRefund
    <3>1. PICK r : r = [items |-> {}, amount |-> 1]
      OBVIOUS
    <3>2. r.items = {} /\ refunds' = Append(refunds, r)
      BY <2>10, <3>1 DEF DashboardRefund, PspRefund
    <3>3. UNCHANGED <<created, messages, returns>>
      BY <2>10 DEF DashboardRefund, order
    <3> QED
      BY <1>1, <3>2, <3>3, NoneIsRefunded DEF OneKept, DueInv
  <2>11. CASE UNCHANGED vars
    BY <1>1, <2>11, OnlyEnds DEF vars, order, atPsp, Elsewhere
  <2> QED
    BY <2>1, <2>2, <2>3, <2>4, <2>5, <2>6, <2>7, <2>8, <2>9, <2>10, <2>11 DEF Next
<1>3. \A i \in Items : Bounded(i)'
  BY <1>1, <1>2, CountsMove, BoundedKept DEF OneKept
<1> QED
  BY <1>2, <1>3 DEF OnceInv, OneKept

LEMMA OnceInit ==
  ASSUME Init
  PROVE  OnceInv
<1>1. DueInv
  BY DEF Init, DueInv
<1>2. ASSUME NEW i \in Items
      PROVE  Bounded(i)
  <2>1. Chances(i) = {Unreturned}
    BY <1>2 DEF Init, Chances
  <2>2. IsFiniteSet({Unreturned}) /\ Cardinality({Unreturned}) = 1
    BY FS_Singleton
  <2> QED
    BY <2>1, <2>2 DEF Bounded, Init
<1> QED
  BY <1>1, <1>2 DEF OnceInv

\* The PSP is asked to refund an item once, and once more at most for each failure and
\* each message that is delivered again: requests that race each other, returns of
\* several items, webhooks and conflicts of versions never repeat a refund.
THEOREM PaidBackOnce == Spec => []RefundedOnce
<1>1. Init => OnceInv
  BY OnceInit
<1>2. RefundInv /\ RefundInv' /\ OnceInv /\ [Next]_vars => OnceInv'
  BY OnceStep
<1>3. RefundInv /\ OnceInv => RefundedOnce
  BY OnceInvIsOnce
<1> QED
  BY <1>1, <1>2, <1>3, RefundInvariant, PTL DEF Spec
=============================================================================
