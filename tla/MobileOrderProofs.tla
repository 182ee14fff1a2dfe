------------------------- MODULE MobileOrderProofs --------------------------
(***************************************************************************)
(* Theorems about MobileOrder, for any number of requests, purchases,      *)
(* retirements and faults.                                                 *)
(***************************************************************************)
EXTENDS MobileOrder, OrderNumbersProofs, FiniteSetTheorems

-----------------------------------------------------------------------------
(* The numbers of mobile orders are those of OrderNumbers: no request touches
   the counter but through its calls. *)

LEMMA NumbersStep == [Next]_vars => [NumberNext]_numberVars
<1> SUFFICES ASSUME [Next]_vars PROVE [NumberNext]_numberVars
  OBVIOUS
<1> USE DEF numberVars
<1>1. CASE ClockStep
  BY <1>1 DEF ClockStep, NumberNext
<1>2. CASE RetirementView \/ AnonymizeRetiredUser
  BY <1>2 DEF RetirementView, AnonymizeRetiredUser
<1>3. ASSUME NEW r \in Requests, Numbering(r) PROVE NumberNext
  BY <1>3 DEF Numbering, NumberNext
<1>4. ASSUME NEW r \in Requests, Counting(r) PROVE NumberNext
  BY <1>4 DEF Counting, NumberNext
<1>5. ASSUME NEW r \in Requests, NumberFound(r) PROVE NumberNext
  BY <1>5 DEF NumberFound, NumberNext
<1>6. ASSUME NEW r \in Requests,
             \/ MobileCreateOrderView(r)
             \/ get_ct_customer(r) \/ create_customer(r) \/ update_customer(r)
             \/ get_customer_cart(r) \/ delete_cart(r) \/ CleanUp(r) \/ NumberRefused(r)
      PROVE  UNCHANGED numberVars
  BY <1>6 DEF MobileCreateOrderView, get_ct_customer, create_customer, update_customer,
              get_customer_cart, delete_cart, CleanUp, NumberRefused
<1>7. ASSUME NEW r \in Requests,
             \/ create_cart(r) \/ validate_iap(r)
             \/ get_payment_by_transaction_interaction_id(r)
             \/ is_dangling_payment(r) \/ NotValidated(r) \/ create_payment(r)
             \/ add_payment_and_address_to_cart(r) \/ create_order_from_cart(r)
             \/ update_line_items_transition_state(r) \/ CallFails(r)
      PROVE  UNCHANGED numberVars
  BY <1>7 DEF create_cart, validate_iap, get_payment_by_transaction_interaction_id,
              is_dangling_payment, NotValidated, create_payment,
              add_payment_and_address_to_cart, create_order_from_cart,
              update_line_items_transition_state, CallFails
<1>8. CASE UNCHANGED vars
  BY <1>8 DEF vars
<1> QED
  BY <1>1, <1>2, <1>3, <1>4, <1>5, <1>6, <1>7, <1>8 DEF Next

(* Whatever else a mobile order goes through, its number is found as
   OrderNumbers says. *)
THEOREM NumbersImplemented == Spec => NumberSpec
<1>1. Init => NumberInit
  BY DEF Init
<1>2. [Next]_vars => [NumberNext]_numberVars
  BY NumbersStep
<1> QED
  BY <1>1, <1>2, PTL DEF Spec, NumberSpec

(* No two mobile orders are given the same number, unless New Year fell
   between the two looks at the clock of one of them. *)
THEOREM MobileNumbersUnique == Spec => []NumbersUnique
  BY NumbersImplemented, NumbersAreUnique, PTL

-----------------------------------------------------------------------------
(* How a request moves. *)

Views == [customer : Nat, profile : Profiles, cart : SUBSET Requests, paid : BOOLEAN]

\* A request r takes one of the steps X, with its view or, if it is over, with none.
Move(r, X) ==
  /\ answer' \in [Requests -> Codes]
  /\ \E x \in X :
       /\ pc' = [pc EXCEPT ![r] = x]
       /\ \/ view' = [view EXCEPT ![r] = view[r]]
          \/ x = "done" /\ view' = [view EXCEPT ![r] = NoView]

LEMMA ViewType == NoView \in Views
BY DEF NoView, Views, Profiles

\* The codes and steps of a move are well formed.
LEMMA Moved ==
  ASSUME RequestTypeOK, NEW r \in Requests, NEW X \in SUBSET Steps, Move(r, X)
  PROVE  /\ pc' \in [Requests -> Steps]
         /\ view' \in [Requests -> Views]
         /\ answer' \in [Requests -> Codes]
         /\ pc'[r] \in X
         /\ pc'[r] # "done" => view'[r] = view[r]
         /\ \A s \in Requests : s # r => pc'[s] = pc[s] /\ view'[s] = view[s]
<1>1. PICK x \in X : /\ pc' = [pc EXCEPT ![r] = x]
                     /\ \/ view' = [view EXCEPT ![r] = view[r]]
                        \/ x = "done" /\ view' = [view EXCEPT ![r] = NoView]
  BY DEF Move
<1>2. pc \in [Requests -> Steps] /\ view \in [Requests -> Views]
  BY DEF RequestTypeOK, Views
<1>3. view' \in [Requests -> Views]
  BY <1>1, <1>2, ViewType
<1> QED
  BY <1>1, <1>2, <1>3 DEF Move

LEMMA AnswersMove ==
  ASSUME RequestTypeOK, NEW r \in Requests, NEW code \in Codes, Answers(r, code)
  PROVE  Move(r, {"done"})
BY DEF RequestTypeOK, Answers, Move

LEMMA DiesMove ==
  ASSUME RequestTypeOK, NEW r \in Requests, Dies(r)
  PROVE  Move(r, {"done"})
BY AnswersMove DEF Dies, Codes

LEMMA GoesOnMove ==
  ASSUME RequestTypeOK, NEW r \in Requests, NEW next \in Steps, GoesOn(r, next)
  PROVE  Move(r, {next})
BY DEF RequestTypeOK, GoesOn, Reads, Move

LEMMA RefusedMove ==
  ASSUME RequestTypeOK, NEW r \in Requests, Refused(r)
  PROVE  /\ Move(r, {"clean", "done"})
         /\ orders[r] # "none" => Move(r, {"done"})
<1>1. CASE Answers(r, 500)
  <2>1. Move(r, {"done"})
    BY <1>1, AnswersMove DEF Codes
  <2> QED
    BY <2>1 DEF Move
<1>2. CASE orders[r] = "none" /\ GoesOn(r, "clean")
  <2>1. Move(r, {"clean"})
    BY <1>2, GoesOnMove DEF Steps
  <2> QED
    BY <1>2, <2>1 DEF Move
<1> QED
  BY <1>1, <1>2 DEF Refused

LEMMA SucceedsMove ==
  ASSUME RequestTypeOK, NEW r \in Requests, NEW next \in Steps, Succeeds(r, next)
  PROVE  Move(r, {next, "done"})
<1>1. CASE GoesOn(r, next)
  BY <1>1, GoesOnMove DEF Move
<1>2. CASE Dies(r)
  BY <1>2, DiesMove DEF Move
<1> QED
  BY <1>1, <1>2 DEF Succeeds

\* Reading changes the view.
LEMMA ReadsType ==
  ASSUME RequestTypeOK, NEW r \in Requests, NEW next \in Steps, NEW v \in Views,
         Reads(r, next, v)
  PROVE  /\ pc' \in [Requests -> Steps]
         /\ view' \in [Requests -> Views]
         /\ answer' \in [Requests -> Codes]
         /\ pc'[r] = next /\ view'[r] = v
         /\ \A s \in Requests : s # r => pc'[s] = pc[s] /\ view'[s] = view[s]
<1>1. pc \in [Requests -> Steps] /\ view \in [Requests -> Views]
  BY DEF RequestTypeOK, Views
<1> QED
  BY <1>1 DEF RequestTypeOK, Reads

\* Faults are counted, and forgotten nowhere.
LEMMA FaultType ==
  ASSUME undisturbed \in [Requests -> BOOLEAN], faults \in 0..MaxFaults, Fault \/ NoFault
  PROVE  undisturbed' \in [Requests -> BOOLEAN] /\ faults' \in 0..MaxFaults
<1>1. CASE Fault
  BY <1>1, MobileOrderAssumption DEF Fault
<1>2. CASE NoFault
  BY <1>2 DEF NoFault
<1> QED
  BY <1>1, <1>2

-----------------------------------------------------------------------------
(* A purchase that has an order keeps its payment, attached to the ordered
   cart, so that a later request stops at is_dangling_payment. *)

\* Steps at which the cart is the request's own.
OwnCart == {"find", "dangling", "invalid", "redundant", "pay", "add", "order", "place"}

\* Steps that lead to an order.
Paying == {"pay", "add", "order", "place"}

Sold(p) == \E s \in Requests : orders[s] # "none" /\ asks[s] = p

\* A request r may be at step x, with the view v and the payments P.
StepOK(r, x, v, P) ==
  /\ x \in OwnCart => v.cart = {r}
  /\ x = "order" => v.paid
  /\ x \in {"dangling", "add", "order"} => asks[r] \in P
  /\ x \notin {"place", "done"} => orders[r] = "none"
  /\ x = "place" => orders[r] # "none"
  /\ late[r] => x \notin Paying

PathInv(r) ==
  /\ StepOK(r, pc[r], view[r], payments)
  /\ orders[r] # "none" =>
       carts[r].status = "ordered" /\ carts[r].paid /\ asks[r] \in payments
  /\ late[r] => Sold(asks[r]) /\ orders[r] = "none"

PurchaseInv ==
  /\ RequestTypeOK
  /\ StoreTypeOK
  /\ \A r \in Requests : PathInv(r)

\* What a step of request r leaves to the others.
Frame(r) ==
  /\ asks' = asks
  /\ payments \subseteq payments'
  /\ \A s \in Requests : orders[s] # "none" => orders'[s] # "none" /\ carts'[s] = carts[s]
  /\ \A s \in Requests : s # r =>
       /\ pc'[s] = pc[s] /\ view'[s] = view[s]
       /\ late'[s] = late[s] /\ orders'[s] = orders[s]

LEMMA OthersKeep ==
  ASSUME PurchaseInv, NEW r \in Requests, Frame(r)
  PROVE  \A s \in Requests : s # r => PathInv(s)'
<1> SUFFICES ASSUME NEW s \in Requests, s # r PROVE PathInv(s)'
  OBVIOUS
<1>1. PathInv(s)
  BY DEF PurchaseInv
<1>2. /\ pc'[s] = pc[s] /\ view'[s] = view[s] /\ late'[s] = late[s] /\ orders'[s] = orders[s]
      /\ asks' = asks /\ payments \subseteq payments'
      /\ orders[s] # "none" => carts'[s] = carts[s]
  BY DEF Frame
<1>3. Sold(asks[s]) => Sold(asks[s])'
  BY DEF Frame, Sold
<1>4. StepOK(s, pc[s], view[s], payments)'
  BY <1>1, <1>2 DEF PathInv, StepOK
<1> QED
  BY <1>1, <1>2, <1>3, <1>4 DEF PathInv

\* A step that makes no order, and leads where the request may be.
LEMMA PathKept ==
  ASSUME PurchaseInv, NEW r \in Requests, Frame(r),
         late'[r] = late[r], orders' = orders, RequestTypeOK', StoreTypeOK',
         StepOK(r, pc'[r], view'[r], payments')
  PROVE  PurchaseInv'
<1>1. PathInv(r)
  BY DEF PurchaseInv
<1>2. StepOK(r, pc[r], view[r], payments)'
  BY DEF StepOK, Frame
<1>3. Sold(asks[r]) => Sold(asks[r])'
  BY DEF Frame, Sold
<1>4. PathInv(r)'
  BY <1>1, <1>2, <1>3 DEF PathInv, Frame
<1> QED
  BY <1>4, OthersKeep DEF PurchaseInv

\* The same for a move.
LEMMA MoveKeeps ==
  ASSUME PurchaseInv, NEW r \in Requests, NEW X \in SUBSET Steps, Move(r, X),
         UNCHANGED <<asks, late, orders>>, StoreTypeOK', payments \subseteq payments',
         \A s \in Requests : orders[s] # "none" => carts'[s] = carts[s],
         \A x \in X : StepOK(r, x, view[r], payments')
  PROVE  PurchaseInv'
<1>1. /\ pc' \in [Requests -> Steps] /\ view' \in [Requests -> Views]
      /\ answer' \in [Requests -> Codes]
      /\ pc'[r] \in X
      /\ pc'[r] # "done" => view'[r] = view[r]
      /\ \A s \in Requests : s # r => pc'[s] = pc[s] /\ view'[s] = view[s]
  BY Moved DEF PurchaseInv
<1>2. RequestTypeOK'
  BY <1>1 DEF PurchaseInv, RequestTypeOK, Views
<1>3. Frame(r)
  BY <1>1 DEF Frame
<1>4. StepOK(r, pc'[r], view[r], payments')
  BY <1>1
<1>5. StepOK(r, pc'[r], view'[r], payments')
  BY <1>1, <1>4 DEF StepOK, OwnCart, Paying
<1> QED
  BY <1>2, <1>3, <1>5, PathKept

\* The same for a move that leaves carts and payments alone.
LEMMA QuietKeeps ==
  ASSUME PurchaseInv, NEW r \in Requests, NEW X \in SUBSET Steps, Move(r, X),
         UNCHANGED <<payments, carts, orders, asks, late>>,
         \A x \in X : StepOK(r, x, view[r], payments)
  PROVE  PurchaseInv'
<1>1. StoreTypeOK'
  BY DEF PurchaseInv, StoreTypeOK
<1> QED
  BY <1>1, MoveKeeps

\* The same for a step that reads.
LEMMA ReadKeeps ==
  ASSUME PurchaseInv, NEW r \in Requests, NEW next \in Steps, NEW v \in Views,
         Reads(r, next, v),
         UNCHANGED <<payments, orders, asks, late>>, StoreTypeOK',
         \A s \in Requests : orders[s] # "none" => carts'[s] = carts[s],
         StepOK(r, next, v, payments)
  PROVE  PurchaseInv'
<1>1. /\ pc' \in [Requests -> Steps] /\ view' \in [Requests -> Views]
      /\ answer' \in [Requests -> Codes]
      /\ pc'[r] = next /\ view'[r] = v
      /\ \A s \in Requests : s # r => pc'[s] = pc[s] /\ view'[s] = view[s]
  BY ReadsType DEF PurchaseInv
<1>2. RequestTypeOK'
  BY <1>1 DEF PurchaseInv, RequestTypeOK, Views
<1>3. Frame(r)
  BY <1>1 DEF Frame
<1> QED
  BY <1>1, <1>2, <1>3, PathKept

\* A request may always be over, and may clean up if it has no order.
LEMMA EndOK ==
  ASSUME PurchaseInv, NEW r \in Requests, NEW P
  PROVE  /\ StepOK(r, "done", view[r], P)
         /\ orders[r] = "none" => StepOK(r, "clean", view[r], P)
BY DEF StepOK, OwnCart, Paying

\* A request that is refused leaves what it has read.
LEMMA RefusedKeeps ==
  ASSUME PurchaseInv, NEW r \in Requests, Refused(r) \/ Dies(r),
         UNCHANGED <<payments, carts, orders, asks, late>>
  PROVE  PurchaseInv'
<1>1. RequestTypeOK
  BY DEF PurchaseInv
<1>2. CASE orders[r] = "none"
  <2>1. \A x \in {"clean", "done"} : StepOK(r, x, view[r], payments)
    BY <1>2, EndOK
  <2>2. Move(r, {"clean", "done"})
    BY <1>1, RefusedMove, DiesMove DEF Move
  <2> QED
    BY <2>1, <2>2, QuietKeeps DEF Steps
<1>3. CASE orders[r] # "none"
  <2>1. \A x \in {"done"} : StepOK(r, x, view[r], payments)
    BY EndOK
  <2>2. Move(r, {"done"})
    BY <1>1, <1>3, RefusedMove, DiesMove
  <2> QED
    BY <2>1, <2>2, QuietKeeps DEF Steps
<1> QED
  BY <1>2, <1>3

-----------------------------------------------------------------------------
(* Every action keeps PurchaseInv. *)

\* The steps that a request without an order may go on to as it is.
LEMMA FreeOK ==
  ASSUME PurchaseInv, NEW r \in Requests, pc[r] \notin {"place", "done"},
         NEW x \in Steps \ (OwnCart \cup {"idle"}), NEW v, NEW P
  PROVE  StepOK(r, x, v, P)
<1>1. orders[r] = "none"
  BY DEF PurchaseInv, PathInv, StepOK
<1>2. /\ x \notin OwnCart /\ x \notin {"place", "order", "dangling", "add"}
      /\ x \notin Paying
  BY DEF OwnCart, Paying
<1> QED
  BY <1>1, <1>2 DEF StepOK

\* A request comes in: if its purchase is sold, it is late and far from an order.
LEMMA PostKeeps ==
  ASSUME PurchaseInv, NEW r \in Requests, MobileCreateOrderView(r)
  PROVE  PurchaseInv'
<1>1. /\ pc[r] = "idle"
      /\ GoesOn(r, "customer")
      /\ late' = [late EXCEPT ![r] = \E s \in Requests : orders[s] # "none" /\ asks[s] = asks[r]]
      /\ UNCHANGED <<payments, carts, orders, asks>>
  BY DEF MobileCreateOrderView, stored
<1>2. RequestTypeOK
  BY DEF PurchaseInv
<1>3. Move(r, {"customer"})
  BY <1>1, <1>2, GoesOnMove DEF Steps
<1>4. /\ pc' \in [Requests -> Steps] /\ view' \in [Requests -> Views]
      /\ answer' \in [Requests -> Codes]
      /\ pc'[r] = "customer"
      /\ \A s \in Requests : s # r => pc'[s] = pc[s] /\ view'[s] = view[s]
  BY <1>2, <1>3, Moved DEF Steps
<1>5. late' \in [Requests -> BOOLEAN]
  BY <1>1, <1>2 DEF RequestTypeOK
<1>6. /\ late'[r] = Sold(asks[r])
      /\ \A s \in Requests : s # r => late'[s] = late[s]
  BY <1>1, <1>2 DEF RequestTypeOK, Sold
<1>7. RequestTypeOK'
  BY <1>1, <1>2, <1>4, <1>5 DEF RequestTypeOK, Views
<1>8. StoreTypeOK'
  BY <1>1 DEF PurchaseInv, StoreTypeOK
<1>9. Frame(r)
  BY <1>1, <1>4, <1>6 DEF Frame
<1>10. orders[r] = "none"
  BY <1>1 DEF PurchaseInv, PathInv, StepOK
<1>11. PathInv(r)'
  BY <1>1, <1>4, <1>6, <1>10 DEF PathInv, StepOK, OwnCart, Paying, Sold
<1> QED
  BY <1>7, <1>8, <1>9, <1>11, OthersKeep DEF PurchaseInv

LEMMA CustomerKeeps ==
  ASSUME PurchaseInv, CustomerTypeOK, NEW r \in Requests, get_ct_customer(r)
  PROVE  PurchaseInv'
<1>1. pc[r] = "customer" /\ UNCHANGED <<payments, carts, orders, asks, late>>
  BY DEF get_ct_customer, stored
<1>2. CASE Dies(r)
  BY <1>1, <1>2, RefusedKeeps
<1>3. ASSUME NEW next \in {"cart", "profile"},
             Reads(r, next, [NoView EXCEPT !.customer = customer.version,
                                           !.profile = customer.profile])
      PROVE  PurchaseInv'
  <2> DEFINE v == [NoView EXCEPT !.customer = customer.version, !.profile = customer.profile]
  <2>1. v \in Views
    BY DEF CustomerTypeOK, Views, NoView
  <2>2. StepOK(r, next, v, payments)
    BY <1>1, FreeOK DEF Steps, OwnCart
  <2>3. StoreTypeOK'
    BY <1>1 DEF PurchaseInv, StoreTypeOK
  <2>4. Reads(r, next, v)
    BY <1>3
  <2>5. next \in Steps
    BY DEF Steps
  <2> HIDE DEF v
  <2> QED
    BY <1>1, <2>1, <2>2, <2>3, <2>4, <2>5, ReadKeeps
<1> QED
  BY <1>2, <1>3 DEF get_ct_customer

LEMMA ProfileKeeps ==
  ASSUME PurchaseInv, NEW r \in Requests, create_customer(r) \/ update_customer(r)
  PROVE  PurchaseInv'
<1>1. pc[r] = "profile" /\ UNCHANGED <<payments, carts, orders, asks, late>>
  BY DEF create_customer, update_customer
<1>2. CASE Refused(r)
  BY <1>1, <1>2, RefusedKeeps
<1>3. CASE Succeeds(r, "cart")
  <2>1. Move(r, {"cart", "done"})
    BY <1>3, SucceedsMove DEF PurchaseInv, Steps
  <2>2. \A x \in {"cart", "done"} : StepOK(r, x, view[r], payments)
    BY <1>1, FreeOK DEF Steps, OwnCart
  <2> QED
    BY <1>1, <2>1, <2>2, QuietKeeps DEF Steps
<1> QED
  BY <1>2, <1>3 DEF create_customer, update_customer

\* The view of an active cart.
LEMMA CartViewed ==
  ASSUME PurchaseInv, NEW s \in ActiveCarts
  PROVE  ViewOf({s}) \in Views
<1>1. s \in Requests
  BY DEF ActiveCarts
<1>2. carts[s].paid \in BOOLEAN
  BY <1>1 DEF PurchaseInv, StoreTypeOK
<1> DEFINE b == \E c \in {s} : carts[c].paid
<1>3. b \in BOOLEAN
  OBVIOUS
<1> HIDE DEF b
<1>4. [NoView EXCEPT !.cart = {s}, !.paid = b] \in Views
  BY <1>1, <1>3 DEF NoView, Views, Profiles
<1> QED
  BY <1>4 DEF ViewOf, b

LEMMA CartKeeps ==
  ASSUME PurchaseInv, NEW r \in Requests, get_customer_cart(r)
  PROVE  PurchaseInv'
<1>1. pc[r] = "cart" /\ UNCHANGED <<payments, carts, orders, asks, late>>
  BY DEF get_customer_cart, stored
<1>2. StoreTypeOK'
  BY <1>1 DEF PurchaseInv, StoreTypeOK
<1>3. ASSUME NEW next \in {"number", "drop"}, NEW v \in Views, Reads(r, next, v)
      PROVE  PurchaseInv'
  <2>1. StepOK(r, next, v, payments)
    BY <1>1, FreeOK DEF Steps, OwnCart
  <2> QED
    BY <1>1, <1>2, <1>3, <2>1, ReadKeeps DEF Steps
<1>4. ASSUME NEW s \in ActiveCarts PROVE ViewOf({s}) \in Views
  BY CartViewed
<1> QED
  BY <1>3, <1>4, ViewType DEF get_customer_cart

\* A deleted cart was active, and not an order's.
LEMMA DeletionKeeps ==
  ASSUME PurchaseInv, NEW r \in Requests, Deletable(r), CartDeleted(r)
  PROVE  /\ \A s \in Requests : orders[s] # "none" => carts'[s] = carts[s]
         /\ carts' \in [Requests -> [status : {"none", "active", "ordered", "deleted"},
                                     paid : BOOLEAN]]
<1>1. carts \in [Requests -> [status : {"none", "active", "ordered", "deleted"},
                              paid : BOOLEAN]]
  BY DEF PurchaseInv, StoreTypeOK
<1>2. \A s \in Requests : s \in view[r].cart => carts[s].status = "active"
  BY DEF Deletable
<1>3. \A s \in Requests : orders[s] # "none" => carts[s].status = "ordered"
  BY DEF PurchaseInv, PathInv
<1>4. \A s \in Requests : [carts[s] EXCEPT !.status = "deleted"] \in
        [status : {"none", "active", "ordered", "deleted"}, paid : BOOLEAN]
  BY <1>1
<1> QED
  BY <1>1, <1>2, <1>3, <1>4 DEF CartDeleted

LEMMA DropKeeps ==
  ASSUME PurchaseInv, NEW r \in Requests, delete_cart(r)
  PROVE  PurchaseInv'
<1>1. pc[r] = "drop" /\ UNCHANGED <<payments, orders, asks, late>>
  BY DEF delete_cart
<1>2. CASE Deletable(r) /\ CartDeleted(r) /\ Succeeds(r, "number")
  <2>1. Move(r, {"number", "done"})
    BY <1>2, SucceedsMove DEF PurchaseInv, Steps
  <2>2. \A x \in {"number", "done"} : StepOK(r, x, view[r], payments)
    BY <1>1, FreeOK DEF Steps, OwnCart
  <2>3. StoreTypeOK'
    BY <1>1, <1>2, DeletionKeeps DEF PurchaseInv, StoreTypeOK
  <2> QED
    BY <1>1, <1>2, <2>1, <2>2, <2>3, DeletionKeeps, MoveKeeps DEF Steps
<1>3. CASE Refused(r) /\ UNCHANGED carts
  BY <1>1, <1>3, RefusedKeeps
<1> QED
  BY <1>2, <1>3 DEF delete_cart

LEMMA CleanKeeps ==
  ASSUME PurchaseInv, NEW r \in Requests, CleanUp(r)
  PROVE  PurchaseInv'
<1>1. UNCHANGED <<payments, orders, asks, late>> /\ Answers(r, 500)
  BY DEF CleanUp
<1>2. Move(r, {"done"})
  BY <1>1, AnswersMove DEF PurchaseInv, Codes
<1>3. \A x \in {"done"} : StepOK(r, x, view[r], payments)
  BY EndOK
<1>4. CASE Deletable(r) /\ CartDeleted(r)
  <2>1. StoreTypeOK'
    BY <1>1, <1>4, DeletionKeeps DEF PurchaseInv, StoreTypeOK
  <2> QED
    BY <1>1, <1>2, <1>3, <1>4, <2>1, DeletionKeeps, MoveKeeps DEF Steps
<1>5. CASE UNCHANGED carts
  BY <1>1, <1>2, <1>3, <1>5, QuietKeeps DEF Steps
<1> QED
  BY <1>4, <1>5 DEF CleanUp

LEMMA NumberingKeeps ==
  ASSUME PurchaseInv, NEW r \in Requests, Numbering(r) \/ Counting(r)
  PROVE  PurchaseInv'
<1>1. UNCHANGED <<payments, carts, orders, asks, late>>
  BY DEF Numbering, Counting, stored, request
<1>2. CASE UNCHANGED <<pc, view, answer>>
  <2>1. RequestTypeOK' /\ StoreTypeOK'
    BY <1>1, <1>2 DEF PurchaseInv, RequestTypeOK, StoreTypeOK
  <2> QED
    BY <1>1, <1>2, <2>1 DEF PurchaseInv, PathInv, StepOK, Sold
<1>3. CASE Dies(r)
  BY <1>1, <1>3, RefusedKeeps
<1> QED
  BY <1>2, <1>3 DEF Numbering, Counting, request

LEMMA NumberFoundKeeps ==
  ASSUME PurchaseInv, NEW r \in Requests, NumberFound(r)
  PROVE  PurchaseInv'
<1>1. pc[r] = "number" /\ UNCHANGED <<payments, carts, orders, asks, late>>
  BY DEF NumberFound, stored
<1>2. Move(r, {"create"})
  BY GoesOnMove DEF NumberFound, PurchaseInv, Steps
<1>3. \A x \in {"create"} : StepOK(r, x, view[r], payments)
  BY <1>1, FreeOK DEF Steps, OwnCart
<1> QED
  BY <1>1, <1>2, <1>3, QuietKeeps DEF Steps

LEMMA FailsKeeps ==
  ASSUME PurchaseInv, NEW r \in Requests, CallFails(r) \/ NumberRefused(r)
  PROVE  PurchaseInv'
<1>1. UNCHANGED <<payments, carts, orders, asks, late>> /\ (Refused(r) \/ Dies(r))
  BY DEF CallFails, NumberRefused, stored
<1> QED
  BY <1>1, RefusedKeeps

\* The request's own cart.
LEMMA CreateCartKeeps ==
  ASSUME PurchaseInv, NEW r \in Requests, create_cart(r)
  PROVE  PurchaseInv'
<1>1. /\ pc[r] = "create" /\ UNCHANGED <<payments, orders, asks, late>>
      /\ carts' = [carts EXCEPT ![r].status = "active"]
  BY DEF create_cart
<1>2. orders[r] = "none" /\ (late[r] => Sold(asks[r]))
  BY <1>1 DEF PurchaseInv, PathInv, StepOK
<1>3. StoreTypeOK' /\ \A s \in Requests : orders[s] # "none" => carts'[s] = carts[s]
  BY <1>1, <1>2 DEF PurchaseInv, StoreTypeOK
<1>4. CASE Dies(r)
  <2>1. Move(r, {"done"})
    BY <1>4, DiesMove DEF PurchaseInv
  <2>2. \A x \in {"done"} : StepOK(r, x, view[r], payments')
    BY EndOK
  <2> QED
    BY <1>1, <1>3, <2>1, <2>2, MoveKeeps DEF Steps
<1>5. CASE Reads(r, "find", [NoView EXCEPT !.cart = {r}])
  <2> DEFINE v == [NoView EXCEPT !.cart = {r}]
  <2>1. v \in Views /\ v.cart = {r}
    BY DEF NoView, Views, Profiles
  <2> HIDE DEF v
  <2>2. StepOK(r, "find", v, payments)
    BY <1>2, <2>1 DEF StepOK, Paying
  <2>3. Reads(r, "find", v)
    BY <1>5 DEF v
  <2> QED
    BY <1>1, <1>3, <2>1, <2>2, <2>3, ReadKeeps DEF Steps
<1> QED
  BY <1>4, <1>5 DEF create_cart

\* Validation: a late request finds its payment, and finds it attached.
LEMMA ValidationKeeps ==
  ASSUME PurchaseInv, NEW r \in Requests,
         \/ validate_iap(r)
         \/ get_payment_by_transaction_interaction_id(r)
         \/ is_dangling_payment(r)
  PROVE  PurchaseInv'
<1>1. pc[r] \in {"find", "dangling"} /\ UNCHANGED <<payments, carts, orders, asks, late>>
  BY DEF validate_iap, get_payment_by_transaction_interaction_id, is_dangling_payment, stored
<1>2. /\ view[r].cart = {r} /\ orders[r] = "none"
      /\ pc[r] = "dangling" => asks[r] \in payments
  BY <1>1 DEF PurchaseInv, PathInv, StepOK, OwnCart
<1>3. ASSUME late[r] PROVE asks[r] \in payments /\ ~Dangling(asks[r])
  <2>1. PICK s \in Requests : orders[s] # "none" /\ asks[s] = asks[r]
    BY <1>3 DEF PurchaseInv, PathInv, Sold
  <2>2. carts[s].status = "ordered" /\ carts[s].paid /\ asks[s] \in payments
    BY <2>1 DEF PurchaseInv, PathInv
  <2> QED
    BY <2>1, <2>2 DEF Dangling, Attached
<1>4. ASSUME NEW x \in {"invalid", "dangling", "pay", "add", "redundant"}, GoesOn(r, x),
             x = "dangling" \/ x = "add" => asks[r] \in payments,
             late[r] => x \notin {"pay", "add"}
      PROVE  PurchaseInv'
  <2>1. Move(r, {x})
    BY <1>4, GoesOnMove DEF PurchaseInv, Steps
  <2>2. \A y \in {x} : StepOK(r, y, view[r], payments)
    BY <1>2, <1>4 DEF StepOK, Paying
  <2> QED
    BY <1>1, <2>1, <2>2, QuietKeeps DEF Steps
<1>5. CASE validate_iap(r)
  BY <1>4, <1>5 DEF validate_iap
<1>6. CASE get_payment_by_transaction_interaction_id(r)
  BY <1>3, <1>4, <1>6 DEF get_payment_by_transaction_interaction_id
<1>7. CASE is_dangling_payment(r)
  <2>1. CASE GoesOn(r, "redundant")
    BY <1>4, <2>1
  <2>2. CASE GoesOn(r, "add") /\ Dangling(asks[r])
    BY <1>2, <1>3, <1>4, <1>7, <2>2 DEF is_dangling_payment
  <2> QED
    BY <1>7, <2>1, <2>2 DEF is_dangling_payment
<1> QED
  BY <1>5, <1>6, <1>7

LEMMA NotValidatedKeeps ==
  ASSUME PurchaseInv, NEW r \in Requests, NotValidated(r)
  PROVE  PurchaseInv'
<1>1. pc[r] \in {"invalid", "redundant"} /\ UNCHANGED <<payments, orders, asks, late>>
  BY DEF NotValidated
<1>2. orders[r] = "none"
  BY <1>1 DEF PurchaseInv, PathInv, StepOK
<1>3. \A x \in {"clean", "done"} : StepOK(r, x, view[r], payments')
  BY <1>2, EndOK
<1>4. RequestTypeOK
  BY DEF PurchaseInv
<1>5. Move(r, {"clean", "done"})
  <2>1. CASE \E code \in {400, 409} : Answers(r, code)
    BY <1>4, <2>1, AnswersMove DEF Move, Codes
  <2>2. CASE Dies(r)
    BY <1>4, <2>2, DiesMove DEF Move
  <2>3. CASE GoesOn(r, "clean")
    BY <1>4, <2>3, GoesOnMove DEF Move, Steps
  <2> QED
    BY <2>1, <2>2, <2>3 DEF NotValidated
<1>6. CASE Deletable(r) /\ CartDeleted(r)
  <2>1. StoreTypeOK'
    BY <1>1, <1>6, DeletionKeeps DEF PurchaseInv, StoreTypeOK
  <2> QED
    BY <1>1, <1>3, <1>5, <1>6, <2>1, DeletionKeeps, MoveKeeps DEF Steps
<1>7. CASE UNCHANGED carts
  BY <1>1, <1>3, <1>5, <1>7, QuietKeeps DEF Steps
<1> QED
  BY <1>6, <1>7 DEF NotValidated

LEMMA PaymentKeeps ==
  ASSUME PurchaseInv, NEW r \in Requests, create_payment(r)
  PROVE  PurchaseInv'
<1>1. pc[r] = "pay" /\ UNCHANGED <<carts, orders, asks, late>>
  BY DEF create_payment
<1>2. view[r].cart = {r} /\ orders[r] = "none" /\ ~late[r]
  BY <1>1 DEF PurchaseInv, PathInv, StepOK, OwnCart, Paying
<1>3. CASE payments' = payments \cup {asks[r]} /\ Succeeds(r, "add")
  <2>1. Move(r, {"add", "done"})
    BY <1>3, SucceedsMove DEF PurchaseInv, Steps
  <2>2. \A x \in {"add", "done"} : StepOK(r, x, view[r], payments')
    BY <1>2, <1>3 DEF StepOK, OwnCart
  <2>3. StoreTypeOK'
    BY <1>1, <1>3 DEF PurchaseInv, StoreTypeOK, RequestTypeOK
  <2> QED
    BY <1>1, <1>3, <2>1, <2>2, <2>3, MoveKeeps DEF Steps
<1>4. CASE Refused(r) /\ UNCHANGED payments
  BY <1>1, <1>4, RefusedKeeps
<1> QED
  BY <1>3, <1>4 DEF create_payment

LEMMA AddKeeps ==
  ASSUME PurchaseInv, NEW r \in Requests, add_payment_and_address_to_cart(r)
  PROVE  PurchaseInv'
<1>1. pc[r] = "add" /\ UNCHANGED <<payments, orders, asks, late>>
  BY DEF add_payment_and_address_to_cart
<1>2. view[r].cart = {r} /\ orders[r] = "none" /\ ~late[r] /\ asks[r] \in payments
  BY <1>1 DEF PurchaseInv, PathInv, StepOK, OwnCart, Paying
<1>3. CASE Refused(r) /\ UNCHANGED carts
  BY <1>1, <1>3, RefusedKeeps
<1>4. ASSUME carts' = [carts EXCEPT ![r].paid = TRUE]
      PROVE  /\ StoreTypeOK'
             /\ \A s \in Requests : orders[s] # "none" => carts'[s] = carts[s]
  BY <1>1, <1>2, <1>4 DEF PurchaseInv, StoreTypeOK
<1>5. CASE carts' = [carts EXCEPT ![r].paid = TRUE] /\ Dies(r)
  <2>1. Move(r, {"done"})
    BY <1>5, DiesMove DEF PurchaseInv
  <2>2. \A x \in {"done"} : StepOK(r, x, view[r], payments')
    BY EndOK
  <2>3. /\ StoreTypeOK'
        /\ \A s \in Requests : orders[s] # "none" => carts'[s] = carts[s]
    BY <1>4, <1>5
  <2>4. {"done"} \in SUBSET Steps /\ payments \subseteq payments'
    BY <1>1 DEF Steps
  <2> QED
    BY <1>1, <2>1, <2>2, <2>3, <2>4, MoveKeeps
<1>6. CASE carts' = [carts EXCEPT ![r].paid = TRUE]
           /\ Reads(r, "order", [view[r] EXCEPT !.paid = TRUE])
  <2> DEFINE v == [view[r] EXCEPT !.paid = TRUE]
  <2>1. view[r] \in Views
    BY DEF PurchaseInv, RequestTypeOK, Views
  <2>2. v \in Views /\ v.cart = {r} /\ v.paid
    BY <1>2, <2>1 DEF Views
  <2> HIDE DEF v
  <2>3. StepOK(r, "order", v, payments)
    BY <1>2, <2>2 DEF StepOK
  <2>4. Reads(r, "order", v)
    BY <1>6 DEF v
  <2> QED
    BY <1>1, <1>4, <1>6, <2>2, <2>3, <2>4, ReadKeeps DEF Steps
<1> QED
  BY <1>3, <1>5, <1>6 DEF add_payment_and_address_to_cart

\* An order is made of the request's own cart, with the payment.
LEMMA OrderKeeps ==
  ASSUME PurchaseInv, NEW r \in Requests, create_order_from_cart(r)
  PROVE  PurchaseInv'
<1>1. pc[r] = "order" /\ UNCHANGED <<payments, asks, late>>
  BY DEF create_order_from_cart
<1>2. /\ view[r].cart = {r} /\ view[r].paid /\ orders[r] = "none" /\ ~late[r]
      /\ asks[r] \in payments
  BY <1>1 DEF PurchaseInv, PathInv, StepOK, OwnCart, Paying
<1>3. CASE Refused(r) /\ UNCHANGED <<orders, carts>>
  BY <1>1, <1>3, RefusedKeeps
<1>4. CASE /\ Deletable(r) /\ Succeeds(r, "place")
           /\ orders' = [orders EXCEPT ![r] = "Initial"]
           /\ carts' = [carts EXCEPT ![r].status = "ordered"]
  <2>1. Move(r, {"place", "done"})
    BY <1>4, SucceedsMove DEF PurchaseInv, Steps
  <2>2. /\ pc' \in [Requests -> Steps] /\ view' \in [Requests -> Views]
        /\ answer' \in [Requests -> Codes]
        /\ pc'[r] \in {"place", "done"}
        /\ pc'[r] # "done" => view'[r] = view[r]
        /\ \A s \in Requests : s # r => pc'[s] = pc[s] /\ view'[s] = view[s]
    BY <2>1, Moved DEF PurchaseInv, Steps
  <2>3. RequestTypeOK' /\ StoreTypeOK'
    BY <1>1, <1>4, <2>2 DEF PurchaseInv, RequestTypeOK, StoreTypeOK, Views
  <2>4. Frame(r)
    BY <1>1, <1>2, <1>4, <2>2 DEF Frame, PurchaseInv, StoreTypeOK
  <2>5. carts[r].paid
    BY <1>2, <1>4 DEF Deletable
  <2>6. orders'[r] = "Initial" /\ carts'[r].status = "ordered" /\ carts'[r].paid
    BY <1>4, <2>5 DEF PurchaseInv, StoreTypeOK
  <2>7. StepOK(r, pc[r], view[r], payments)'
    BY <1>1, <1>2, <2>2, <2>6 DEF StepOK, OwnCart
  <2>8. PathInv(r)'
    BY <1>1, <1>2, <2>6, <2>7 DEF PathInv
  <2> QED
    BY <2>3, <2>4, <2>8, OthersKeep DEF PurchaseInv
<1> QED
  BY <1>3, <1>4 DEF create_order_from_cart

LEMMA PlaceKeeps ==
  ASSUME PurchaseInv, NEW r \in Requests, update_line_items_transition_state(r)
  PROVE  PurchaseInv'
<1>1. /\ pc[r] = "place" /\ UNCHANGED <<payments, carts, asks, late>>
      /\ orders' = [orders EXCEPT ![r] = "Pending"]
      /\ Answers(r, 201) \/ Dies(r)
  BY DEF update_line_items_transition_state
<1>2. /\ ~late[r]
      /\ carts[r].status = "ordered" /\ carts[r].paid /\ asks[r] \in payments
  BY <1>1 DEF PurchaseInv, PathInv, StepOK, Paying
<1>3. Move(r, {"done"})
  BY <1>1, AnswersMove, DiesMove DEF PurchaseInv, Codes
<1>4. /\ pc' \in [Requests -> Steps] /\ view' \in [Requests -> Views]
      /\ answer' \in [Requests -> Codes]
      /\ pc'[r] = "done"
      /\ \A s \in Requests : s # r => pc'[s] = pc[s] /\ view'[s] = view[s]
  BY <1>3, Moved DEF PurchaseInv, Steps
<1>5. RequestTypeOK' /\ StoreTypeOK'
  BY <1>1, <1>4 DEF PurchaseInv, RequestTypeOK, StoreTypeOK, Views
<1>6. Frame(r)
  BY <1>1, <1>4 DEF Frame, PurchaseInv, StoreTypeOK
<1>7. late'[r] = late[r] /\ orders'[r] = "Pending"
  BY <1>1 DEF PurchaseInv, StoreTypeOK
<1>8. PathInv(r)'
  BY <1>1, <1>2, <1>4, <1>7 DEF PathInv, StepOK, OwnCart
<1> QED
  BY <1>5, <1>6, <1>8, OthersKeep DEF PurchaseInv

-----------------------------------------------------------------------------
(* The customer's version tells its profile: what was read at the present
   version is still so. *)

CustomerInv ==
  /\ CustomerTypeOK
  /\ customer.version = 0 => customer.profile = "none"
  /\ \A r \in Requests : pc[r] = "profile" =>
       /\ view[r].customer <= customer.version
       /\ view[r].customer > 0 /\ view[r].customer = customer.version
            => view[r].profile = customer.profile

\* A step that leaves the customer, and brings nobody to it.
LEMMA CustomerLeft ==
  ASSUME CustomerInv, UNCHANGED <<customer, retirement>>,
         \A s \in Requests : pc'[s] = "profile" => pc[s] = "profile" /\ view'[s] = view[s]
  PROVE  CustomerInv'
BY DEF CustomerInv, CustomerTypeOK

\* A move elsewhere is such a step.
LEMMA ElsewhereKeeps ==
  ASSUME RequestTypeOK, CustomerInv, UNCHANGED <<customer, retirement>>,
         NEW r \in Requests, NEW X \in SUBSET Steps, Move(r, X), "profile" \notin X
  PROVE  CustomerInv'
BY Moved, CustomerLeft

LEMMA RefusedElsewhere ==
  ASSUME RequestTypeOK, CustomerInv, UNCHANGED <<customer, retirement>>,
         NEW r \in Requests, Refused(r) \/ Dies(r)
  PROVE  CustomerInv'
<1>1. Move(r, {"clean", "done"})
  BY RefusedMove, DiesMove DEF Move
<1> QED
  BY <1>1, ElsewhereKeeps DEF Steps

LEMMA SucceedsElsewhere ==
  ASSUME RequestTypeOK, CustomerInv, UNCHANGED <<customer, retirement>>,
         NEW r \in Requests, NEW next \in Steps \ {"profile"}, Succeeds(r, next)
  PROVE  CustomerInv'
<1>1. Move(r, {next, "done"})
  BY SucceedsMove
<1> QED
  BY <1>1, ElsewhereKeeps DEF Steps

LEMMA GoesElsewhere ==
  ASSUME RequestTypeOK, CustomerInv, UNCHANGED <<customer, retirement>>,
         NEW r \in Requests,
         \/ \E next \in Steps \ {"profile"} : GoesOn(r, next)
         \/ \E code \in Codes : Answers(r, code)
  PROVE  CustomerInv'
<1>1. CASE \E next \in Steps \ {"profile"} : GoesOn(r, next)
  <2>1. PICK next \in Steps \ {"profile"} : GoesOn(r, next)
    BY <1>1
  <2>2. Move(r, {next})
    BY <2>1, GoesOnMove
  <2> QED
    BY <2>2, ElsewhereKeeps
<1>2. CASE \E code \in Codes : Answers(r, code)
  <2>1. Move(r, {"done"})
    BY <1>2, AnswersMove
  <2> QED
    BY <2>1, ElsewhereKeeps DEF Steps
<1> QED
  BY <1>1, <1>2

LEMMA ReadsElsewhere ==
  ASSUME RequestTypeOK, CustomerInv, UNCHANGED <<customer, retirement>>,
         NEW r \in Requests, NEW next \in Steps \ {"profile"}, NEW v, Reads(r, next, v)
  PROVE  CustomerInv'
<1>1. \A s \in Requests : pc'[s] = "profile" => pc[s] = "profile" /\ view'[s] = view[s]
  BY DEF RequestTypeOK, Reads
<1> QED
  BY <1>1, CustomerLeft

\* What is done to the customer raises its version, or leaves version and profile.
LEMMA CustomerWritten ==
  ASSUME RequestTypeOK, CustomerInv, CustomerTypeOK',
         \A s \in Requests : pc'[s] = "profile" => pc[s] = "profile" /\ view'[s] = view[s],
         \/ customer'.version = customer.version + 1
         \/ customer'.version = customer.version /\ customer'.profile = customer.profile
  PROVE  CustomerInv'
<1>0. customer'.version = 0 => customer'.profile = "none"
  BY DEF CustomerInv, CustomerTypeOK
<1> SUFFICES ASSUME NEW s \in Requests, pc'[s] = "profile"
             PROVE  /\ view'[s].customer <= customer'.version
                    /\ view'[s].customer > 0 /\ view'[s].customer = customer'.version
                         => view'[s].profile = customer'.profile
  BY <1>0 DEF CustomerInv
<1>1. /\ view'[s] = view[s]
      /\ view[s].customer <= customer.version
      /\ view[s].customer > 0 /\ view[s].customer = customer.version
           => view[s].profile = customer.profile
  BY DEF CustomerInv
<1>2. view[s].customer \in Nat /\ customer.version \in Nat
  BY DEF RequestTypeOK, CustomerInv, CustomerTypeOK
<1> QED
  BY <1>1, <1>2

\* A new profile comes with a new version.
LEMMA CustomerProfiled ==
  ASSUME CustomerTypeOK, NEW p \in Profiles,
         customer' = [customer EXCEPT !.version = @ + 1, !.profile = p]
  PROVE  /\ customer' \in [version : Nat, profile : Profiles, twin : BOOLEAN]
         /\ customer'.version = customer.version + 1
         /\ customer'.profile = p
<1>1. customer \in [version : Nat, profile : Profiles, twin : BOOLEAN]
  BY DEF CustomerTypeOK
<1>2. customer.version + 1 \in Nat
  BY <1>1
<1> DEFINE n == customer.version + 1
<1>3. customer' = [customer EXCEPT !.version = n, !.profile = p]
  OBVIOUS
<1>4. n \in Nat
  BY <1>2
<1>5. customer'.version = customer.version + 1
  <2>1. customer'.version = n
    <3> HIDE DEF n
    <3> QED BY <1>1, <1>3, <1>4
  <2> QED BY <2>1
<1> HIDE DEF n
<1>6. customer' \in [version : Nat, profile : Profiles, twin : BOOLEAN]
  BY <1>1, <1>3, <1>4
<1>7. customer'.profile = p
  BY <1>1, <1>3, <1>4
<1> QED
  BY <1>5, <1>6, <1>7

LEMMA CreateCustomerKeeps ==
  ASSUME RequestTypeOK, CustomerInv, NEW r \in Requests, create_customer(r)
  PROVE  CustomerInv'
<1>1. UNCHANGED retirement
  BY DEF create_customer
<1>2. CASE Refused(r) /\ UNCHANGED customer
  BY <1>1, <1>2, RefusedElsewhere
<1>3. ASSUME Succeeds(r, "cart")
      PROVE  \A s \in Requests : pc'[s] = "profile" => pc[s] = "profile" /\ view'[s] = view[s]
  BY <1>3, SucceedsMove, Moved DEF Steps
<1>4. CASE /\ customer.version = 0 /\ Succeeds(r, "cart")
           /\ customer' = [version |-> 1, profile |-> "current", twin |-> FALSE]
  <2>1. customer'.version = customer.version + 1 /\ CustomerTypeOK'
    BY <1>1, <1>4 DEF CustomerInv, CustomerTypeOK, Profiles
  <2> QED
    BY <1>3, <1>4, <2>1, CustomerWritten
<1>5. CASE customer' = [customer EXCEPT !.twin = TRUE] /\ Succeeds(r, "cart")
  <2>0. /\ customer \in [version : Nat, profile : Profiles, twin : BOOLEAN]
        /\ retirement' \in [step : {"none", "anonymize", "done"}, seen : Nat,
                            calls : 0..MaxRetirements, answer : {0, 204, 400, 500}]
    BY <1>1 DEF CustomerInv, CustomerTypeOK
  <2>3. customer' \in [version : Nat, profile : Profiles, twin : BOOLEAN]
    BY <1>5, <2>0
  <2>1. CustomerTypeOK'
    BY <2>0, <2>3 DEF CustomerTypeOK
  <2>2. customer'.version = customer.version /\ customer'.profile = customer.profile
    BY <1>5 DEF CustomerInv, CustomerTypeOK
  <2> QED
    BY <1>3, <1>5, <2>1, <2>2, CustomerWritten
<1> QED
  BY <1>2, <1>4, <1>5 DEF create_customer

LEMMA UpdateCustomerKeeps ==
  ASSUME RequestTypeOK, CustomerInv, NEW r \in Requests, update_customer(r)
  PROVE  CustomerInv'
<1>1. UNCHANGED retirement
  BY DEF update_customer
<1>2. CASE Refused(r) /\ UNCHANGED customer
  BY <1>1, <1>2, RefusedElsewhere
<1>3. CASE /\ Succeeds(r, "cart")
           /\ customer' = [customer EXCEPT !.version = @ + 1, !.profile = "current"]
  <2>1. \A s \in Requests : pc'[s] = "profile" => pc[s] = "profile" /\ view'[s] = view[s]
    BY <1>3, SucceedsMove, Moved DEF Steps
  <2>2. customer'.version = customer.version + 1 /\ CustomerTypeOK'
    BY <1>1, <1>3, CustomerProfiled DEF CustomerInv, CustomerTypeOK, Profiles
  <2> QED
    BY <2>1, <2>2, CustomerWritten
<1> QED
  BY <1>2, <1>3 DEF update_customer

LEMMA GetCustomerKeeps ==
  ASSUME RequestTypeOK, CustomerInv, NEW r \in Requests, get_ct_customer(r)
  PROVE  CustomerInv'
<1>1. UNCHANGED <<customer, retirement>>
  BY DEF get_ct_customer, stored
<1>2. CASE Dies(r)
  BY <1>1, <1>2, RefusedElsewhere
<1>3. ASSUME NEW next \in {"cart", "profile"},
             Reads(r, next, [NoView EXCEPT !.customer = customer.version,
                                           !.profile = customer.profile])
      PROVE  CustomerInv'
  <2> DEFINE v == [NoView EXCEPT !.customer = customer.version, !.profile = customer.profile]
  <2>1. v \in Views
    BY DEF CustomerInv, CustomerTypeOK, Views, NoView
  <2>2. v.customer = customer.version /\ v.profile = customer.profile
    BY DEF NoView
  <2>3. Reads(r, next, v)
    BY <1>3
  <2> HIDE DEF v
  <2>4. /\ view'[r] = v
        /\ \A s \in Requests : s # r => pc'[s] = pc[s] /\ view'[s] = view[s]
    BY <2>1, <2>3, ReadsType DEF Steps
  <2>5. customer.version \in Nat
    BY DEF CustomerInv, CustomerTypeOK
  <2> QED
    BY <1>1, <2>2, <2>4, <2>5 DEF CustomerInv, CustomerTypeOK
<1> QED
  BY <1>2, <1>3 DEF get_ct_customer

LEMMA RetirementKeeps ==
  ASSUME RequestTypeOK, CustomerInv, RetirementView \/ AnonymizeRetiredUser
  PROVE  CustomerInv'
<1>1. UNCHANGED <<pc, view>>
  BY DEF RetirementView, AnonymizeRetiredUser, request
<1>2. CASE RetirementView
  <2>1. UNCHANGED customer
    BY <1>2 DEF RetirementView
  <2>2. /\ retirement.calls + 1 \in 0..MaxRetirements
        /\ customer.version \in Nat
    BY <1>2, MobileOrderAssumption DEF RetirementView, CustomerInv, CustomerTypeOK
  <2>3. CustomerTypeOK'
    BY <1>2, <2>1, <2>2 DEF RetirementView, Retired, get_customer_by_lms_user,
                            CustomerInv, CustomerTypeOK
  <2> QED
    BY <1>1, <2>1, <2>3 DEF CustomerInv
<1>3. CASE AnonymizeRetiredUser
  <2>1. /\ \E code \in {204, 400, 500} : retirement' = Retired(code, retirement.calls)
        /\ UNCHANGED customer \/ retire_customer_anonymize_fields
    BY <1>3 DEF AnonymizeRetiredUser, RetirementEnds
  <2>2. retirement' \in [step : {"none", "anonymize", "done"}, seen : Nat,
                         calls : 0..MaxRetirements, answer : {0, 204, 400, 500}]
    BY <2>1 DEF Retired, CustomerInv, CustomerTypeOK
  <2>3. CASE UNCHANGED customer
    BY <1>1, <2>2, <2>3 DEF CustomerInv, CustomerTypeOK
  <2>4. CASE retire_customer_anonymize_fields
    <3>1. /\ customer' \in [version : Nat, profile : Profiles, twin : BOOLEAN]
          /\ customer'.version = customer.version + 1
      BY <2>4, CustomerProfiled DEF retire_customer_anonymize_fields, CustomerInv, Profiles
    <3>2. CustomerTypeOK'
      BY <2>2, <3>1 DEF CustomerTypeOK
    <3> QED
      BY <1>1, <3>1, <3>2, CustomerWritten
  <2> QED
    BY <2>1, <2>3, <2>4
<1> QED
  BY <1>2, <1>3

LEMMA CustomerInvInit == Init => CustomerInv
<1> SUFFICES ASSUME Init PROVE CustomerInv
  OBVIOUS
<1>1. customer \in {NoCustomer, OldCustomer} /\ (customer.version = 0 => customer.profile = "none")
  BY DEF Init, NoCustomer, OldCustomer
<1>2. NoCustomer \in [version : Nat, profile : Profiles, twin : BOOLEAN]
  BY DEF NoCustomer, Profiles
<1>3. OldCustomer \in [version : Nat, profile : Profiles, twin : BOOLEAN]
  BY DEF OldCustomer, Profiles
<1>4. retirement = [step |-> "none", seen |-> 0, calls |-> 0, answer |-> 0]
      /\ 0 \in 0..MaxRetirements
  BY MobileOrderAssumption DEF Init
<1>5. CustomerTypeOK
  BY <1>1, <1>2, <1>3, <1>4 DEF CustomerTypeOK
<1> QED
  BY <1>1, <1>5 DEF Init, CustomerInv

\* The cart's calls do not bring a request to the customer.
LEMMA CartElsewhere ==
  ASSUME RequestTypeOK, CustomerInv, NEW r \in Requests,
         \/ get_customer_cart(r) \/ delete_cart(r) \/ CleanUp(r)
         \/ create_cart(r) \/ NotValidated(r)
  PROVE  CustomerInv'
<1>1. UNCHANGED <<customer, retirement>>
  BY DEF get_customer_cart, delete_cart, CleanUp, create_cart, NotValidated, stored
<1>2. {"drop", "number", "find", "clean"} \subseteq Steps \ {"profile"}
      /\ {400, 409, 500} \subseteq Codes
  BY DEF Steps, Codes
<1>3. CASE get_customer_cart(r)
  <2>1. ASSUME NEW next \in {"number", "drop"}, NEW v, Reads(r, next, v)
        PROVE  CustomerInv'
    BY <1>1, <1>2, <2>1, ReadsElsewhere
  <2>2. Reads(r, "number", NoView) \/ \E s \in ActiveCarts : Reads(r, "drop", ViewOf({s}))
    BY <1>3 DEF get_customer_cart
  <2> QED
    BY <2>1, <2>2
<1>4. CASE delete_cart(r)
  BY <1>1, <1>2, <1>4, SucceedsElsewhere, RefusedElsewhere DEF delete_cart
<1>5. CASE CleanUp(r)
  BY <1>1, <1>2, <1>5, GoesElsewhere DEF CleanUp
<1>6. CASE create_cart(r)
  BY <1>1, <1>2, <1>6, ReadsElsewhere, RefusedElsewhere DEF create_cart
<1>7. CASE NotValidated(r)
  <2>1. \/ \E next \in Steps \ {"profile"} : GoesOn(r, next)
        \/ \E code \in Codes : Answers(r, code)
    BY <1>2, <1>7 DEF NotValidated, Dies
  <2> QED
    BY <1>1, <2>1, GoesElsewhere
<1> QED
  BY <1>3, <1>4, <1>5, <1>6, <1>7

LEMMA NumberElsewhere ==
  ASSUME RequestTypeOK, CustomerInv, NEW r \in Requests,
         Numbering(r) \/ Counting(r) \/ NumberFound(r) \/ NumberRefused(r) \/ CallFails(r)
  PROVE  CustomerInv'
<1>1. UNCHANGED <<customer, retirement>>
  BY DEF Numbering, Counting, NumberFound, NumberRefused, CallFails, stored
<1>2. CASE UNCHANGED <<pc, view>>
  BY <1>1, <1>2, CustomerLeft
<1>3. CASE Refused(r) \/ Dies(r)
  BY <1>1, <1>3, RefusedElsewhere
<1>4. CASE GoesOn(r, "create")
  BY <1>1, <1>4, GoesElsewhere DEF Steps
<1> QED
  BY <1>2, <1>3, <1>4 DEF Numbering, Counting, NumberFound, NumberRefused, CallFails, request

LEMMA PaymentElsewhere ==
  ASSUME RequestTypeOK, CustomerInv, NEW r \in Requests,
         \/ MobileCreateOrderView(r) \/ validate_iap(r)
         \/ get_payment_by_transaction_interaction_id(r) \/ is_dangling_payment(r)
         \/ create_payment(r) \/ add_payment_and_address_to_cart(r)
         \/ create_order_from_cart(r) \/ update_line_items_transition_state(r)
  PROVE  CustomerInv'
<1>1. UNCHANGED <<customer, retirement>>
  BY DEF MobileCreateOrderView, validate_iap, get_payment_by_transaction_interaction_id,
         is_dangling_payment, create_payment, add_payment_and_address_to_cart,
         create_order_from_cart, update_line_items_transition_state, stored
<1>2. {"customer", "invalid", "dangling", "pay", "add", "redundant", "order", "place"}
        \subseteq Steps \ {"profile"}
      /\ 201 \in Codes
  BY DEF Steps, Codes
<1>3. CASE MobileCreateOrderView(r) \/ validate_iap(r) \/ is_dangling_payment(r)
           \/ get_payment_by_transaction_interaction_id(r)
  <2>1. \E next \in Steps \ {"profile"} : GoesOn(r, next)
    BY <1>2, <1>3 DEF MobileCreateOrderView, validate_iap, is_dangling_payment,
                      get_payment_by_transaction_interaction_id
  <2> QED
    BY <1>1, <2>1, GoesElsewhere
<1>4. CASE create_payment(r) \/ create_order_from_cart(r)
  BY <1>1, <1>2, <1>4, SucceedsElsewhere, RefusedElsewhere
     DEF create_payment, create_order_from_cart
<1>5. CASE add_payment_and_address_to_cart(r)
  BY <1>1, <1>2, <1>5, ReadsElsewhere, RefusedElsewhere DEF add_payment_and_address_to_cart
<1>6. CASE update_line_items_transition_state(r)
  BY <1>1, <1>2, <1>6, GoesElsewhere, RefusedElsewhere DEF update_line_items_transition_state
<1> QED
  BY <1>3, <1>4, <1>5, <1>6

LEMMA CustomerInvStep ==
  ASSUME RequestTypeOK, CustomerInv, [Next]_vars
  PROVE  CustomerInv'
<1>1. CASE RetirementView \/ AnonymizeRetiredUser
  BY <1>1, RetirementKeeps
<1>2. CASE ClockStep \/ UNCHANGED vars
  <2>1. UNCHANGED <<customer, retirement, pc, view>>
    BY <1>2 DEF ClockStep, vars, stored, request
  <2> QED
    BY <2>1, CustomerLeft
<1>3. ASSUME NEW r \in Requests,
             \/ get_ct_customer(r) \/ create_customer(r) \/ update_customer(r)
      PROVE  CustomerInv'
  BY <1>3, GetCustomerKeeps, CreateCustomerKeeps, UpdateCustomerKeeps
<1> QED
  BY <1>1, <1>2, <1>3, CartElsewhere, NumberElsewhere, PaymentElsewhere DEF Next

-----------------------------------------------------------------------------
(* The invariant of the specification. *)

MobileInv ==
  /\ PurchaseInv
  /\ CustomerInv
  /\ undisturbed \in [Requests -> BOOLEAN]
  /\ faults \in 0..MaxFaults

LEMMA PurchaseInvStep ==
  ASSUME PurchaseInv, CustomerTypeOK, [Next]_vars
  PROVE  PurchaseInv'
<1>1. CASE RetirementView \/ AnonymizeRetiredUser \/ ClockStep \/ UNCHANGED vars
  <2>1. UNCHANGED <<payments, carts, orders, request>>
    BY <1>1 DEF RetirementView, AnonymizeRetiredUser, ClockStep, vars, stored
  <2> QED
    BY <2>1 DEF PurchaseInv, PathInv, StepOK, Sold, RequestTypeOK, StoreTypeOK, request
<1>2. ASSUME NEW r \in Requests,
             \/ MobileCreateOrderView(r)
             \/ get_ct_customer(r) \/ create_customer(r) \/ update_customer(r)
             \/ get_customer_cart(r) \/ delete_cart(r) \/ CleanUp(r)
             \/ Numbering(r) \/ Counting(r) \/ NumberFound(r) \/ NumberRefused(r)
             \/ CallFails(r)
      PROVE  PurchaseInv'
  BY <1>2, PostKeeps, CustomerKeeps, ProfileKeeps, CartKeeps, DropKeeps, CleanKeeps,
     NumberingKeeps, NumberFoundKeeps, FailsKeeps
<1>3. ASSUME NEW r \in Requests,
             \/ create_cart(r)
             \/ validate_iap(r) \/ get_payment_by_transaction_interaction_id(r)
             \/ is_dangling_payment(r) \/ NotValidated(r)
             \/ create_payment(r) \/ add_payment_and_address_to_cart(r)
             \/ create_order_from_cart(r) \/ update_line_items_transition_state(r)
      PROVE  PurchaseInv'
  BY <1>3, CreateCartKeeps, ValidationKeeps, NotValidatedKeeps, PaymentKeeps, AddKeeps,
     OrderKeeps, PlaceKeeps
<1> QED
  BY <1>1, <1>2, <1>3 DEF Next

LEMMA FaultsStep ==
  ASSUME undisturbed \in [Requests -> BOOLEAN], faults \in 0..MaxFaults, [Next]_vars
  PROVE  undisturbed' \in [Requests -> BOOLEAN] /\ faults' \in 0..MaxFaults
<1>1. CASE RetirementView
  BY <1>1 DEF RetirementView
<1>2. ASSUME NEW r \in Requests, MobileCreateOrderView(r)
      PROVE  undisturbed' \in [Requests -> BOOLEAN] /\ faults' \in 0..MaxFaults
  <2> DEFINE u(s) == /\ s = r
                     /\ \A t \in Requests : ~Live(t)
                     /\ retirement.step # "anonymize"
                     /\ ~customer.twin
                     /\ ~\E t \in Requests : orders[t] # "none" /\ asks[t] = asks[r]
                     /\ Cardinality(ActiveCarts) <= 1
  <2>1. \A s \in Requests : u(s) \in BOOLEAN
    OBVIOUS
  <2>2. undisturbed' = [s \in Requests |->
          /\ s = r
          /\ /\ \A t \in Requests : ~Live(t)
             /\ retirement.step # "anonymize"
             /\ ~customer.twin
          /\ ~\E t \in Requests : orders[t] # "none" /\ asks[t] = asks[r]
          /\ Cardinality(ActiveCarts) <= 1]
       /\ faults' = faults
    BY <1>2 DEF MobileCreateOrderView
  <2> QED
    BY <2>2
<1>3. CASE UNCHANGED vars
  BY <1>3 DEF vars
<1>4. CASE \/ ClockStep \/ AnonymizeRetiredUser
           \/ \E r \in Requests :
                \/ get_ct_customer(r) \/ create_customer(r) \/ update_customer(r)
                \/ get_customer_cart(r) \/ delete_cart(r) \/ CleanUp(r)
                \/ Numbering(r) \/ Counting(r) \/ NumberFound(r) \/ NumberRefused(r)
                \/ CallFails(r)
  <2>1. Fault \/ NoFault
    BY <1>4 DEF ClockStep, AnonymizeRetiredUser, get_ct_customer, create_customer,
                update_customer, get_customer_cart, delete_cart, CleanUp, Numbering,
                Counting, NumberFound, NumberRefused, CallFails, Succeeds
  <2> QED
    BY <2>1, FaultType
<1>5. CASE \E r \in Requests :
             \/ create_cart(r)
             \/ validate_iap(r) \/ get_payment_by_transaction_interaction_id(r)
             \/ is_dangling_payment(r) \/ NotValidated(r)
             \/ create_payment(r) \/ add_payment_and_address_to_cart(r)
             \/ create_order_from_cart(r) \/ update_line_items_transition_state(r)
  <2>1. Fault \/ NoFault
    BY <1>5 DEF create_cart, validate_iap, get_payment_by_transaction_interaction_id,
                is_dangling_payment, NotValidated, create_payment,
                add_payment_and_address_to_cart, create_order_from_cart,
                update_line_items_transition_state, Succeeds
  <2> QED
    BY <2>1, FaultType
<1> QED
  BY <1>1, <1>2, <1>3, <1>4, <1>5 DEF Next

LEMMA MobileInit == Init => MobileInv
<1> SUFFICES ASSUME Init PROVE MobileInv
  OBVIOUS
<1>1. RequestTypeOK
  <2>1. [r \in Requests |-> NoView] \in [Requests -> Views]
    BY ViewType
  <2> QED
    BY <2>1 DEF Init, RequestTypeOK, Views, Steps, Codes
<1>2. StoreTypeOK
  BY DEF Init, StoreTypeOK
<1>3. ASSUME NEW r \in Requests PROVE PathInv(r)
  <2>1. pc[r] = "idle" /\ orders[r] = "none" /\ late[r] = FALSE
    BY DEF Init
  <2> QED
    BY <2>1 DEF PathInv, StepOK, OwnCart
<1>4. undisturbed \in [Requests -> BOOLEAN] /\ faults \in 0..MaxFaults
  BY MobileOrderAssumption DEF Init
<1> QED
  BY <1>1, <1>2, <1>3, <1>4, CustomerInvInit DEF MobileInv, PurchaseInv

LEMMA MobileStep == MobileInv /\ [Next]_vars => MobileInv'
BY PurchaseInvStep, CustomerInvStep, FaultsStep DEF MobileInv, PurchaseInv, CustomerInv

LEMMA MobileInvariant == Spec => []MobileInv
BY MobileInit, MobileStep, PTL DEF Spec

(* Every variable stays in its set, however many requests, retirements and
   faults there are. *)
THEOREM MobileTyped == Spec => []TypeOK
<1>1. MobileInv /\ NumberTypeOK => TypeOK
  BY DEF MobileInv, PurchaseInv, CustomerInv, TypeOK
<1> QED
  BY <1>1, MobileInvariant, NumbersImplemented, NumbersTyped, PTL

(* A purchase that has an order is not ordered again by a later request. *)
THEOREM OrderedOnce == Spec => []LateRequestMakesNoOrder
<1>1. MobileInv => LateRequestMakesNoOrder
  BY DEF MobileInv, PurchaseInv, PathInv, LateRequestMakesNoOrder
<1> QED
  BY <1>1, MobileInvariant, PTL

(* Only a request that has seen the retired customer makes it a person again. *)
THEOREM RetirementStays == Spec => RetirementNotUndone
<1> DEFINE Undone == /\ customer.profile = "retired"
                     /\ customer'.profile # "retired"
           Seen == \E r \in Requests : pc[r] = "profile" /\ view[r].profile = "retired"
<1>1. MobileInv /\ [Next]_vars => [Undone => Seen]_vars
  <2> SUFFICES ASSUME MobileInv, Next, Undone PROVE Seen
    BY DEF vars
  <2>1. customer.version # 0
    BY DEF MobileInv, CustomerInv
  <2>2. PICK r \in Requests : create_customer(r) \/ update_customer(r)
    <3>1. CASE AnonymizeRetiredUser
      <4>1. retire_customer_anonymize_fields
        BY <3>1 DEF AnonymizeRetiredUser
      <4>2. customer'.profile = "retired"
        BY <4>1, CustomerProfiled
           DEF retire_customer_anonymize_fields, MobileInv, CustomerInv, Profiles
      <4> QED
        BY <4>2
    <3>2. CASE RetirementView \/ ClockStep
      BY <3>2 DEF RetirementView, ClockStep, stored
    <3>3. ASSUME NEW r \in Requests,
                 \/ MobileCreateOrderView(r) \/ get_ct_customer(r)
                 \/ get_customer_cart(r) \/ delete_cart(r) \/ CleanUp(r)
                 \/ Numbering(r) \/ Counting(r) \/ NumberFound(r) \/ NumberRefused(r)
                 \/ CallFails(r)
          PROVE  customer' = customer
      BY <3>3 DEF MobileCreateOrderView, get_ct_customer, get_customer_cart, delete_cart,
                  CleanUp, Numbering, Counting, NumberFound, NumberRefused, CallFails, stored
    <3>4. ASSUME NEW r \in Requests,
                 \/ create_cart(r)
                 \/ validate_iap(r) \/ get_payment_by_transaction_interaction_id(r)
                 \/ is_dangling_payment(r) \/ NotValidated(r)
                 \/ create_payment(r) \/ add_payment_and_address_to_cart(r)
                 \/ create_order_from_cart(r) \/ update_line_items_transition_state(r)
          PROVE  customer' = customer
      BY <3>4 DEF create_cart, validate_iap, get_payment_by_transaction_interaction_id,
                  is_dangling_payment, NotValidated, create_payment,
                  add_payment_and_address_to_cart, create_order_from_cart,
                  update_line_items_transition_state, stored
    <3> QED
      BY <3>1, <3>2, <3>3, <3>4 DEF Next
  <2>3. CASE create_customer(r)
    <3>1. customer' = [customer EXCEPT !.twin = TRUE]
      BY <2>1, <2>3 DEF create_customer
    <3>2. customer'.profile = customer.profile
      BY <3>1 DEF MobileInv, CustomerInv, CustomerTypeOK
    <3> QED
      BY <3>2
  <2>4. CASE update_customer(r)
    <3>1. pc[r] = "profile" /\ view[r].customer > 0 /\ view[r].customer = customer.version
      BY <2>4 DEF update_customer, CurrentCustomer
    <3> QED
      BY <3>1 DEF MobileInv, CustomerInv
  <2> QED
    BY <2>2, <2>3, <2>4
<1>2. Spec => [][Undone => Seen]_vars
  BY <1>1, MobileInvariant, PTL DEF Spec
<1> QED
  BY <1>2 DEF RetirementNotUndone

-----------------------------------------------------------------------------
(* What becomes of the carts. *)

\* Steps before a request has a cart of its own.
NoCart == {"idle", "customer", "profile", "cart", "drop", "number", "create"}

\* A request r at step x, with the view v, knows its cart c: the paid flag that it has
\* read is the cart's, so that a cart it cannot delete is deleted already.
KnowsCart(r, x, v, c) ==
  /\ x \in NoCart => c = [status |-> "none", paid |-> FALSE]
  /\ x \in OwnCart \ {"place"} => c.paid = v.paid
  /\ x = "clean" => \/ c.status = "none"
                    \/ v.cart = {r} /\ c.paid = v.paid

CartInv(r) ==
  /\ KnowsCart(r, pc[r], view[r], carts[r])
  /\ carts[r].status = "ordered" => orders[r] # "none"

Left == {r \in ActiveCarts : pc[r] = "done"}

CartsInv ==
  /\ MobileInv
  /\ \A r \in Requests : CartInv(r)
  /\ IsFiniteSet(ActiveCarts)
  /\ Cardinality(Left) <= faults

\* Request r may delete the cart of another one, no more.
CartFrame(r) ==
  \A s \in Requests \ {r} :
    /\ orders'[s] = orders[s]
    /\ carts'[s].paid = carts[s].paid
    /\ carts'[s].status # carts[s].status
         => carts[s].status = "active" /\ carts'[s].status = "deleted"

\* It leaves an active cart behind through a fault alone.
MayLeave(r) ==
  /\ faults' = faults \/ faults' = faults + 1
  /\ pc'[r] = "done" /\ carts'[r].status = "active" => faults' = faults + 1

CartType == [status : {"none", "active", "ordered", "deleted"}, paid : BOOLEAN]

LEMMA CartsTyped == MobileInv => carts \in [Requests -> CartType]
BY DEF MobileInv, PurchaseInv, StoreTypeOK, CartType

LEMMA OthersKnow ==
  ASSUME MobileInv, MobileInv', NEW r \in Requests, NEW s \in Requests \ {r},
         CartInv(s), CartFrame(r), pc'[s] = pc[s], view'[s] = view[s]
  PROVE  CartInv(s)'
<1>1. carts[s] \in CartType /\ carts'[s] \in CartType
  BY CartsTyped DEF MobileInv, PurchaseInv, StoreTypeOK, CartType
<1>2. /\ orders'[s] = orders[s] /\ carts'[s].paid = carts[s].paid
      /\ carts'[s].status # carts[s].status
           => carts[s].status = "active" /\ carts'[s].status = "deleted"
  BY DEF CartFrame
<1>3. carts[s] = [status |-> "none", paid |-> FALSE]
        => carts'[s] = [status |-> "none", paid |-> FALSE]
  <2> SUFFICES ASSUME carts[s] = [status |-> "none", paid |-> FALSE]
               PROVE  carts'[s] = [status |-> "none", paid |-> FALSE]
    OBVIOUS
  <2>1. carts'[s].status = "none" /\ carts'[s].paid = FALSE
    BY <1>2
  <2> DEFINE c == carts'[s]
  <2>2. c \in CartType /\ c.status = "none" /\ c.paid = FALSE
    BY <1>1, <2>1
  <2> HIDE DEF c
  <2>3. c = [status |-> c.status, paid |-> c.paid]
    BY <2>2 DEF CartType
  <2> QED
    BY <2>2, <2>3 DEF c
<1> QED
  BY <1>2, <1>3 DEF CartInv, KnowsCart

\* The carts left behind are at most one more, and counted.
LEMMA LeftCounted ==
  ASSUME CartsInv, MobileInv', NEW r \in Requests, pc[r] # "done",
         \A s \in Requests \ {r} : pc'[s] = pc[s], CartFrame(r), MayLeave(r)
  PROVE  IsFiniteSet(ActiveCarts)' /\ (Cardinality(Left) <= faults)'
<1>1. ActiveCarts' \subseteq ActiveCarts \cup {r}
  BY DEF ActiveCarts, CartFrame
<1>2. Left' \subseteq Left \cup {r} /\ r \notin Left
  BY DEF Left, ActiveCarts, CartFrame
<1>3. IsFiniteSet(ActiveCarts) /\ IsFiniteSet(Left)
  <2>1. Left \subseteq ActiveCarts
    BY DEF Left
  <2> QED
    BY <2>1, FS_Subset DEF CartsInv
<1>4. IsFiniteSet(ActiveCarts \cup {r})
  BY <1>3, FS_AddElement
<1>5. IsFiniteSet(ActiveCarts')
  BY <1>1, <1>4, FS_Subset
<1>6. /\ IsFiniteSet(Left \cup {r})
      /\ Cardinality(Left \cup {r}) = Cardinality(Left) + 1
  BY <1>2, <1>3, FS_AddElement
<1>7. Cardinality(Left) \in Nat /\ faults \in Nat
  BY <1>3, FS_CardinalityType, MobileOrderAssumption DEF CartsInv, MobileInv
<1>8. CASE r \in Left'
  <2>1. faults' = faults + 1
    BY <1>8 DEF Left, ActiveCarts, MayLeave
  <2>2. /\ Cardinality(Left') \in Nat
        /\ Cardinality(Left') <= Cardinality(Left \cup {r})
    BY <1>2, <1>6, FS_Subset, FS_CardinalityType
  <2>3. Cardinality(Left) <= faults
    BY DEF CartsInv
  <2> QED
    BY <1>5, <1>6, <1>7, <2>1, <2>2, <2>3
<1>9. CASE r \notin Left'
  <2>1. Left' \subseteq Left
    BY <1>2, <1>9
  <2>2. Cardinality(Left') \in Nat /\ Cardinality(Left') <= Cardinality(Left)
    BY <1>3, <2>1, FS_Subset, FS_CardinalityType
  <2>3. faults' = faults \/ faults' = faults + 1
    BY DEF MayLeave
  <2>4. Cardinality(Left) <= faults
    BY DEF CartsInv
  <2> QED
    BY <1>5, <1>7, <2>2, <2>3, <2>4
<1> QED
  BY <1>8, <1>9

\* A step of r that knows its cart afterwards.
LEMMA CartsKept ==
  ASSUME CartsInv, MobileInv', NEW r \in Requests, pc[r] # "done",
         \A s \in Requests \ {r} : pc'[s] = pc[s] /\ view'[s] = view[s],
         CartFrame(r), MayLeave(r), CartInv(r)'
  PROVE  CartsInv'
<1>1. \A s \in Requests : CartInv(s)'
  BY OthersKnow DEF CartsInv
<1> QED
  BY <1>1, LeftCounted DEF CartsInv

LEMMA FaultCounts ==
  /\ Fault => faults' = faults + 1
  /\ NoFault => faults' = faults
BY DEF Fault, NoFault

\* Where a move may lead with the cart as the step leaves it.
LEMMA CartsMove ==
  ASSUME CartsInv, MobileInv', NEW r \in Requests, pc[r] # "done",
         NEW X \in SUBSET Steps, Move(r, X), CartFrame(r), Fault \/ NoFault,
         carts'[r].status = "ordered" => orders'[r] # "none",
         \A x \in X : /\ KnowsCart(r, x, view[r], carts'[r])
                      /\ x = "done" /\ carts'[r].status = "active" => Fault
  PROVE  CartsInv'
<1>1. /\ pc'[r] \in X
      /\ pc'[r] # "done" => view'[r] = view[r]
      /\ \A s \in Requests : s # r => pc'[s] = pc[s] /\ view'[s] = view[s]
  BY Moved DEF CartsInv, MobileInv, PurchaseInv
<1>2. MayLeave(r)
  BY <1>1, FaultCounts DEF MayLeave
<1>3. KnowsCart(r, pc'[r], view'[r], carts'[r])
  BY <1>1 DEF KnowsCart, OwnCart, NoCart
<1>4. CartInv(r)'
  BY <1>3 DEF CartInv
<1> QED
  BY <1>1, <1>2, <1>4, CartsKept

\* The same for a step that reads.
LEMMA CartsRead ==
  ASSUME CartsInv, MobileInv', NEW r \in Requests, pc[r] # "done",
         NEW next \in Steps \ {"done"}, NEW v \in Views, Reads(r, next, v),
         CartFrame(r), NoFault,
         carts'[r].status = "ordered" => orders'[r] # "none",
         KnowsCart(r, next, v, carts'[r])
  PROVE  CartsInv'
<1>1. /\ pc'[r] = next /\ view'[r] = v
      /\ \A s \in Requests : s # r => pc'[s] = pc[s] /\ view'[s] = view[s]
  BY ReadsType DEF CartsInv, MobileInv, PurchaseInv
<1>2. MayLeave(r)
  BY <1>1, FaultCounts DEF MayLeave
<1>3. CartInv(r)'
  BY <1>1 DEF CartInv
<1> QED
  BY <1>1, <1>2, <1>3, CartsKept

LEMMA QuietFrame ==
  ASSUME UNCHANGED <<carts, orders>>, NEW r \in Requests
  PROVE  CartFrame(r)
BY DEF CartFrame

\* A request that dies of a fault may leave any cart.
LEMMA DiesCarts ==
  ASSUME CartsInv, MobileInv', NEW r \in Requests, pc[r] # "done", Dies(r), Fault,
         CartFrame(r), carts'[r].status = "ordered" => orders'[r] # "none"
  PROVE  CartsInv'
<1>1. Move(r, {"done"})
  BY DiesMove DEF CartsInv, MobileInv, PurchaseInv
<1>2. KnowsCart(r, "done", view[r], carts'[r])
  BY DEF KnowsCart, NoCart, OwnCart
<1> QED
  BY <1>1, <1>2, CartsMove DEF Steps

\* A request that is refused cleans up, unless it has no cart, or an ordered one.
LEMMA RefusedCarts ==
  ASSUME CartsInv, MobileInv', NEW r \in Requests, pc[r] \notin {"done", "clean"},
         Refused(r), Fault \/ NoFault, UNCHANGED <<carts, orders>>
  PROVE  CartsInv'
<1>1. /\ CartInv(r) /\ PathInv(r) /\ RequestTypeOK
      /\ pc[r] \in OwnCart => view[r].cart = {r}
  BY DEF CartsInv, MobileInv, PurchaseInv, PathInv, StepOK
<1>2. pc[r] \in NoCart \cup OwnCart
  BY <1>1 DEF RequestTypeOK, Steps, NoCart, OwnCart
<1>3. /\ orders[r] # "none" => carts[r].status = "ordered"
      /\ pc[r] \in NoCart => carts[r].status = "none"
      /\ pc[r] = "place" => orders[r] # "none"
  BY <1>1 DEF PathInv, StepOK, CartInv, KnowsCart
<1>4. carts' = carts /\ (carts[r].status = "ordered" => orders'[r] # "none")
  BY <1>1 DEF CartInv
<1>5. CASE view[r].cart = {} \/ orders[r] # "none"
  <2>1. Answers(r, 500)
    BY <1>5 DEF Refused
  <2>2. Move(r, {"done"})
    BY <1>1, <2>1, AnswersMove DEF Codes
  <2>3. carts[r].status # "active"
    BY <1>1, <1>2, <1>3, <1>5
  <2>4. KnowsCart(r, "done", view[r], carts[r])
    BY DEF KnowsCart, NoCart, OwnCart
  <2> QED
    BY <1>4, <2>2, <2>3, <2>4, CartsMove, QuietFrame DEF Steps
<1>6. CASE ~(view[r].cart = {} \/ orders[r] # "none")
  <2>1. GoesOn(r, "clean")
    BY <1>6 DEF Refused
  <2>2. Move(r, {"clean"})
    BY <1>1, <2>1, GoesOnMove DEF Steps
  <2>3. pc[r] \in OwnCart \ {"place"} => carts[r].paid = view[r].paid
    BY <1>1 DEF CartInv, KnowsCart
  <2>4. KnowsCart(r, "clean", view[r], carts[r])
    BY <1>1, <1>2, <1>3, <1>6, <2>3 DEF KnowsCart, NoCart, OwnCart
  <2> QED
    BY <1>4, <2>2, <2>4, CartsMove, QuietFrame DEF Steps
<1> QED
  BY <1>5, <1>6

\* A request that goes on with the same cart.
LEMMA GoesOnCarts ==
  ASSUME CartsInv, MobileInv', NEW r \in Requests, pc[r] # "done",
         NEW next \in Steps \ {"done"}, GoesOn(r, next), NoFault \/ Fault,
         UNCHANGED <<carts, orders>>, KnowsCart(r, next, view[r], carts[r])
  PROVE  CartsInv'
<1>1. Move(r, {next})
  BY GoesOnMove DEF CartsInv, MobileInv, PurchaseInv
<1>2. carts'[r].status = "ordered" => orders'[r] # "none"
  BY DEF CartsInv, CartInv
<1> QED
  BY <1>1, <1>2, CartsMove, QuietFrame

LEMMA SucceedsCarts ==
  ASSUME CartsInv, MobileInv', NEW r \in Requests, pc[r] # "done",
         NEW next \in Steps \ {"done"}, Succeeds(r, next),
         CartFrame(r), carts'[r].status = "ordered" => orders'[r] # "none",
         KnowsCart(r, next, view[r], carts'[r])
  PROVE  CartsInv'
<1>1. CASE GoesOn(r, next) /\ NoFault
  <2>1. Move(r, {next})
    BY <1>1, GoesOnMove DEF CartsInv, MobileInv, PurchaseInv
  <2> QED
    BY <1>1, <2>1, CartsMove
<1>2. CASE Dies(r) /\ Fault
  BY <1>2, DiesCarts
<1> QED
  BY <1>1, <1>2 DEF Succeeds

\* Every action keeps CartsInv.

LEMMA CustomerCarts ==
  ASSUME CartsInv, MobileInv', NEW r \in Requests,
         \/ MobileCreateOrderView(r) \/ get_ct_customer(r)
         \/ create_customer(r) \/ update_customer(r)
  PROVE  CartsInv'
<1>1. /\ pc[r] \in {"idle", "customer", "profile"}
      /\ UNCHANGED <<carts, orders>>
  BY DEF MobileCreateOrderView, get_ct_customer, create_customer, update_customer, stored
<1>2. carts[r] = [status |-> "none", paid |-> FALSE]
  BY <1>1 DEF CartsInv, CartInv, KnowsCart, NoCart
<1>3. \A v : \A x \in {"customer", "profile", "cart", "done"} : KnowsCart(r, x, v, carts[r])
  BY <1>2 DEF KnowsCart, NoCart, OwnCart
<1>4. carts'[r].status # "ordered" /\ carts'[r].status # "active"
  BY <1>1, <1>2
<1>5. RequestTypeOK
  BY DEF CartsInv, MobileInv, PurchaseInv
<1>6. CASE MobileCreateOrderView(r)
  <2>1. pc' = [pc EXCEPT ![r] = "customer"] /\ view' = view /\ faults' = faults
    BY <1>6 DEF MobileCreateOrderView, GoesOn, Reads
  <2>2. /\ pc'[r] = "customer"
        /\ \A s \in Requests \ {r} : pc'[s] = pc[s] /\ view'[s] = view[s]
    BY <1>5, <2>1 DEF RequestTypeOK
  <2>3. CartInv(r)'
    BY <1>1, <1>3, <1>4, <2>2 DEF CartInv
  <2>4. MayLeave(r)
    BY <2>1, <2>2 DEF MayLeave
  <2> QED
    BY <1>1, <2>2, <2>3, <2>4, CartsKept, QuietFrame
<1>7. CASE get_ct_customer(r)
  <2>1. CASE Dies(r)
    <3>1. Move(r, {"done"})
      BY <1>5, <2>1, DiesMove
    <3>2. NoFault
      BY <1>7 DEF get_ct_customer
    <3> QED
      BY <1>1, <1>3, <1>4, <3>1, <3>2, CartsMove, QuietFrame DEF Steps
  <2>2. ASSUME NEW next \in {"cart", "profile"},
               Reads(r, next, [NoView EXCEPT !.customer = customer.version,
                                             !.profile = customer.profile])
        PROVE  CartsInv'
    <3> DEFINE v == [NoView EXCEPT !.customer = customer.version, !.profile = customer.profile]
    <3>1. v \in Views
      BY DEF CartsInv, MobileInv, CustomerInv, CustomerTypeOK, Views, NoView
    <3>2. Reads(r, next, v) /\ NoFault
      BY <1>7, <2>2 DEF get_ct_customer
    <3>3. next \in Steps \ {"done"}
      BY DEF Steps
    <3> HIDE DEF v
    <3> QED
      BY <1>1, <1>3, <1>4, <3>1, <3>2, <3>3, CartsRead, QuietFrame
  <2> QED
    BY <1>7, <2>1, <2>2 DEF get_ct_customer
<1>8. CASE create_customer(r) \/ update_customer(r)
  <2>1. Succeeds(r, "cart") \/ (Refused(r) /\ NoFault)
    BY <1>8 DEF create_customer, update_customer
  <2> QED
    BY <1>1, <1>3, <1>4, <2>1, SucceedsCarts, RefusedCarts, QuietFrame DEF Steps
<1> QED
  BY <1>6, <1>7, <1>8

\* A cart is deleted as it is, or was deleted before.
LEMMA DeletedCarts ==
  ASSUME CartsInv, NEW r \in Requests, Deletable(r), CartDeleted(r), UNCHANGED orders
  PROVE  /\ CartFrame(r)
         /\ carts'[r] = carts[r] \/ r \in view[r].cart
         /\ carts'[r].paid = carts[r].paid
         /\ carts'[r].status # carts[r].status
              => carts[r].status = "active" /\ carts'[r].status = "deleted"
         /\ r \in view[r].cart => carts'[r].status = "deleted"
         /\ carts'[r].status = "ordered" => orders'[r] # "none"
<1>1. carts \in [Requests -> CartType]
  BY CartsTyped DEF CartsInv
<1>2. \A s \in Requests :
        /\ s \in view[r].cart =>
             /\ carts[s].status = "active"
             /\ carts'[s] = [carts[s] EXCEPT !.status = "deleted"]
        /\ s \notin view[r].cart => carts'[s] = carts[s]
  BY DEF Deletable, CartDeleted
<1>3. \A s \in Requests :
        /\ carts'[s].paid = carts[s].paid
        /\ carts'[s].status # carts[s].status
             => carts[s].status = "active" /\ carts'[s].status = "deleted"
        /\ s \in view[r].cart => carts'[s].status = "deleted"
        /\ s \notin view[r].cart => carts'[s] = carts[s]
  BY <1>1, <1>2 DEF CartType
<1>4. carts[r].status = "ordered" => orders[r] # "none"
  BY DEF CartsInv, CartInv
<1> QED
  BY <1>3, <1>4 DEF CartFrame

LEMMA DropCarts ==
  ASSUME CartsInv, MobileInv', NEW r \in Requests, get_customer_cart(r) \/ delete_cart(r)
  PROVE  CartsInv'
<1>1. pc[r] \in {"cart", "drop"} /\ UNCHANGED orders
  BY DEF get_customer_cart, delete_cart, stored
<1>2. carts[r] = [status |-> "none", paid |-> FALSE]
  BY <1>1 DEF CartsInv, CartInv, KnowsCart, NoCart
<1>3. \A v : \A x \in {"drop", "number", "done"} : KnowsCart(r, x, v, carts[r])
  BY <1>2 DEF KnowsCart, NoCart, OwnCart
<1>4. carts[r].status # "ordered" /\ carts[r].status # "active"
  BY <1>2
<1>5. CASE get_customer_cart(r)
  <2>1. UNCHANGED carts /\ NoFault
    BY <1>5 DEF get_customer_cart, stored
  <2>2. ASSUME NEW next \in {"drop", "number"}, NEW v \in Views, Reads(r, next, v)
        PROVE  CartsInv'
    <3>1. next \in Steps \ {"done"}
      BY DEF Steps
    <3> QED
      BY <1>1, <1>3, <1>4, <2>1, <2>2, <3>1, CartsRead, QuietFrame
  <2>3. ASSUME NEW s \in ActiveCarts PROVE ViewOf({s}) \in Views
    BY CartViewed DEF CartsInv, MobileInv
  <2> QED
    BY <1>5, <2>2, <2>3, ViewType DEF get_customer_cart
<1>6. CASE Deletable(r) /\ CartDeleted(r) /\ Succeeds(r, "number")
  <2>1. CartFrame(r)
    BY <1>1, <1>6, DeletedCarts
  <2>2. carts'[r] = carts[r]
    BY <1>4, <1>6, DeletedCarts DEF Deletable, CartDeleted, CartsInv, CartInv
  <2>3. KnowsCart(r, "number", view[r], carts'[r])
    BY <1>3, <2>2
  <2> QED
    BY <1>1, <1>4, <1>6, <2>1, <2>2, <2>3, SucceedsCarts DEF Steps
<1>7. CASE delete_cart(r) /\ Refused(r) /\ NoFault /\ UNCHANGED carts
  BY <1>1, <1>7, RefusedCarts
<1> QED
  BY <1>5, <1>6, <1>7 DEF delete_cart

\* The last attempt leaves no active cart, whether it is refused or not.
LEMMA CleanCarts ==
  ASSUME CartsInv, MobileInv', NEW r \in Requests, CleanUp(r)
  PROVE  CartsInv'
<1>1. pc[r] = "clean" /\ UNCHANGED orders /\ NoFault
  BY DEF CleanUp
<1>2. Move(r, {"done"})
  BY AnswersMove DEF CleanUp, CartsInv, MobileInv, PurchaseInv, Codes
<1>3. \/ carts[r].status = "none"
      \/ view[r].cart = {r} /\ carts[r].paid = view[r].paid
  BY <1>1 DEF CartsInv, CartInv, KnowsCart
<1>4. KnowsCart(r, "done", view[r], carts'[r])
  BY DEF KnowsCart, NoCart, OwnCart
<1>5. CASE Deletable(r) /\ CartDeleted(r)
  <2>1. /\ CartFrame(r)
        /\ carts'[r].status # "active"
        /\ carts'[r].status = "ordered" => orders'[r] # "none"
    BY <1>1, <1>3, <1>5, DeletedCarts
  <2> QED
    BY <1>1, <1>2, <1>4, <2>1, CartsMove DEF Steps
<1>6. CASE ~Deletable(r) /\ UNCHANGED carts
  <2>1. carts[r] \in CartType
    BY CartsTyped DEF CartsInv
  <2>2. carts[r].status # "active"
    <3> SUFFICES ASSUME carts[r].status = "active" PROVE FALSE
      OBVIOUS
    <3>1. view[r].cart = {r} /\ carts[r].paid = view[r].paid
      BY <1>3
    <3> DEFINE c == carts[r]
               p == view[r].paid
    <3>2. c \in CartType /\ c.status = "active" /\ c.paid = p
      BY <2>1, <3>1
    <3> HIDE DEF c, p
    <3>3. c = [status |-> "active", paid |-> p]
      BY <3>2 DEF CartType
    <3> QED
      BY <1>6, <3>1, <3>3 DEF Deletable, c, p
  <2>3. carts'[r].status = "ordered" => orders'[r] # "none"
    BY <1>1, <1>6 DEF CartsInv, CartInv
  <2> QED
    BY <1>1, <1>2, <1>4, <1>6, <2>2, <2>3, CartsMove, QuietFrame DEF Steps
<1> QED
  BY <1>5, <1>6 DEF CleanUp

LEMMA NumberCarts ==
  ASSUME CartsInv, MobileInv', NEW r \in Requests,
         Numbering(r) \/ Counting(r) \/ NumberFound(r) \/ NumberRefused(r)
  PROVE  CartsInv'
<1>1. pc[r] = "number" /\ UNCHANGED <<carts, orders>>
  BY DEF Numbering, Counting, NumberFound, NumberRefused, stored
<1>2. carts[r] = [status |-> "none", paid |-> FALSE]
  BY <1>1 DEF CartsInv, CartInv, KnowsCart, NoCart
<1>3. CASE UNCHANGED <<pc, view>> /\ NoFault
  <2>1. CartFrame(r)
    BY <1>1, QuietFrame
  <2>2. CartInv(r)'
    BY <1>1, <1>3 DEF CartsInv, CartInv
  <2>3. MayLeave(r)
    BY <1>1, <1>3 DEF MayLeave, NoFault
  <2> QED
    BY <1>1, <1>3, <2>1, <2>2, <2>3, CartsKept
<1>4. CASE Dies(r) /\ Fault
  BY <1>1, <1>2, <1>4, DiesCarts, QuietFrame
<1>5. CASE GoesOn(r, "create") /\ NoFault
  <2>1. KnowsCart(r, "create", view[r], carts[r])
    BY <1>2 DEF KnowsCart, OwnCart
  <2> QED
    BY <1>1, <1>5, <2>1, GoesOnCarts DEF Steps
<1>6. CASE Refused(r) /\ NoFault
  BY <1>1, <1>6, RefusedCarts
<1> QED
  BY <1>3, <1>4, <1>5, <1>6 DEF Numbering, Counting, NumberFound, NumberRefused, request

LEMMA CreateCarts ==
  ASSUME CartsInv, MobileInv', NEW r \in Requests, create_cart(r)
  PROVE  CartsInv'
<1>1. pc[r] = "create" /\ UNCHANGED orders /\ carts' = [carts EXCEPT ![r].status = "active"]
  BY DEF create_cart
<1>2. carts[r] = [status |-> "none", paid |-> FALSE]
  BY <1>1 DEF CartsInv, CartInv, KnowsCart, NoCart
<1>3. carts \in [Requests -> CartType]
  BY CartsTyped DEF CartsInv
<1>4. /\ carts'[r].status = "active" /\ carts'[r].paid = FALSE
      /\ \A s \in Requests \ {r} : carts'[s] = carts[s]
  BY <1>1, <1>2, <1>3 DEF CartType
<1>5. CartFrame(r)
  BY <1>1, <1>4 DEF CartFrame
<1>6. CASE Reads(r, "find", [NoView EXCEPT !.cart = {r}]) /\ NoFault
  <2> DEFINE v == [NoView EXCEPT !.cart = {r}]
  <2>1. v \in Views /\ v.paid = FALSE
    BY DEF NoView, Views, Profiles
  <2>2. Reads(r, "find", v)
    BY <1>6
  <2> HIDE DEF v
  <2>3. KnowsCart(r, "find", v, carts'[r])
    BY <1>4, <2>1 DEF KnowsCart, NoCart
  <2> QED
    BY <1>1, <1>4, <1>5, <1>6, <2>1, <2>2, <2>3, CartsRead DEF Steps
<1>7. CASE Dies(r) /\ Fault
  BY <1>1, <1>4, <1>5, <1>7, DiesCarts
<1> QED
  BY <1>6, <1>7 DEF create_cart

LEMMA ValidationCarts ==
  ASSUME CartsInv, MobileInv', NEW r \in Requests,
         \/ validate_iap(r)
         \/ get_payment_by_transaction_interaction_id(r)
         \/ is_dangling_payment(r)
  PROVE  CartsInv'
<1>1. pc[r] \in {"find", "dangling"} /\ UNCHANGED <<carts, orders>>
  BY DEF validate_iap, get_payment_by_transaction_interaction_id, is_dangling_payment, stored
<1>2. carts[r].paid = view[r].paid
  BY <1>1 DEF CartsInv, CartInv, KnowsCart, OwnCart
<1>3. \A x \in {"invalid", "dangling", "pay", "add", "redundant"} :
        KnowsCart(r, x, view[r], carts[r])
  BY <1>2 DEF KnowsCart, NoCart
<1>4. \E x \in {"invalid", "dangling", "pay", "add", "redundant"} :
        GoesOn(r, x) /\ (NoFault \/ Fault)
  BY DEF validate_iap, get_payment_by_transaction_interaction_id, is_dangling_payment
<1> QED
  BY <1>1, <1>3, <1>4, GoesOnCarts DEF Steps

LEMMA NotValidatedCarts ==
  ASSUME CartsInv, MobileInv', NEW r \in Requests, NotValidated(r)
  PROVE  CartsInv'
<1>1. pc[r] \in {"invalid", "redundant"} /\ UNCHANGED orders
  BY DEF NotValidated
<1>2. view[r].cart = {r} /\ carts[r].paid = view[r].paid
  BY <1>1 DEF CartsInv, CartInv, KnowsCart, OwnCart, MobileInv, PurchaseInv, PathInv, StepOK
<1>3. CASE /\ Deletable(r) /\ CartDeleted(r)
           /\ \E code \in {400, 409, 500} : Answers(r, code)
           /\ Fault \/ NoFault
  <2>1. /\ CartFrame(r)
        /\ carts'[r].status # "active"
        /\ carts'[r].status = "ordered" => orders'[r] # "none"
    BY <1>1, <1>2, <1>3, DeletedCarts
  <2>3. Move(r, {"done"}) /\ (Fault \/ NoFault)
    BY <1>3, AnswersMove DEF CartsInv, MobileInv, PurchaseInv, Codes
  <2>4. KnowsCart(r, "done", view[r], carts'[r])
    BY DEF KnowsCart, NoCart, OwnCart
  <2> QED
    BY <1>1, <2>1, <2>3, <2>4, CartsMove DEF Steps
<1>4. CASE UNCHANGED carts /\ GoesOn(r, "clean") /\ (Fault \/ NoFault)
  <2>1. KnowsCart(r, "clean", view[r], carts[r])
    BY <1>2 DEF KnowsCart, NoCart, OwnCart
  <2> QED
    BY <1>1, <1>4, <2>1, GoesOnCarts DEF Steps
<1>5. CASE UNCHANGED carts /\ Dies(r) /\ Fault
  BY <1>1, <1>5, DiesCarts, QuietFrame DEF CartsInv, CartInv
<1> QED
  BY <1>3, <1>4, <1>5 DEF NotValidated, Dies

LEMMA PayCarts ==
  ASSUME CartsInv, MobileInv', NEW r \in Requests,
         create_payment(r) \/ add_payment_and_address_to_cart(r)
  PROVE  CartsInv'
<1>1. pc[r] \in {"pay", "add"} /\ UNCHANGED orders
  BY DEF create_payment, add_payment_and_address_to_cart
<1>2. /\ view[r].cart = {r} /\ carts[r].paid = view[r].paid
      /\ orders[r] = "none" /\ carts[r].status # "ordered"
  BY <1>1 DEF CartsInv, CartInv, KnowsCart, OwnCart, MobileInv, PurchaseInv, PathInv, StepOK
<1>3. CASE Refused(r) /\ NoFault /\ UNCHANGED carts
  BY <1>1, <1>3, RefusedCarts
<1>4. CASE create_payment(r) /\ Succeeds(r, "add")
  <2>1. UNCHANGED carts
    BY <1>4 DEF create_payment
  <2>2. KnowsCart(r, "add", view[r], carts'[r])
    BY <1>2, <2>1 DEF KnowsCart, NoCart
  <2> QED
    BY <1>1, <1>2, <1>4, <2>1, <2>2, SucceedsCarts, QuietFrame DEF Steps
<1>5. ASSUME carts' = [carts EXCEPT ![r].paid = TRUE]
      PROVE  /\ carts'[r].paid = TRUE /\ carts'[r].status = carts[r].status
             /\ CartFrame(r)
  <2>1. carts \in [Requests -> CartType]
    BY CartsTyped DEF CartsInv
  <2> QED
    BY <1>1, <1>5, <2>1 DEF CartType, CartFrame
<1>6. CASE carts' = [carts EXCEPT ![r].paid = TRUE] /\ NoFault
           /\ Reads(r, "order", [view[r] EXCEPT !.paid = TRUE])
  <2> DEFINE v == [view[r] EXCEPT !.paid = TRUE]
  <2>1. view[r] \in Views
    BY DEF CartsInv, MobileInv, PurchaseInv, RequestTypeOK, Views
  <2>2. v \in Views /\ v.paid = TRUE
    BY <2>1 DEF Views
  <2>3. Reads(r, "order", v)
    BY <1>6
  <2> HIDE DEF v
  <2>4. KnowsCart(r, "order", v, carts'[r])
    BY <1>5, <1>6, <2>2 DEF KnowsCart, NoCart
  <2> QED
    BY <1>1, <1>2, <1>5, <1>6, <2>2, <2>3, <2>4, CartsRead DEF Steps
<1>7. CASE carts' = [carts EXCEPT ![r].paid = TRUE] /\ Dies(r) /\ Fault
  BY <1>1, <1>2, <1>5, <1>7, DiesCarts
<1> QED
  BY <1>3, <1>4, <1>6, <1>7 DEF create_payment, add_payment_and_address_to_cart

LEMMA OrderCarts ==
  ASSUME CartsInv, MobileInv', NEW r \in Requests,
         create_order_from_cart(r) \/ update_line_items_transition_state(r)
  PROVE  CartsInv'
<1>0. orders \in [Requests -> {"none", "Initial", "Pending"}] /\ carts \in [Requests -> CartType]
  BY CartsTyped DEF CartsInv, MobileInv, PurchaseInv, StoreTypeOK
<1>1. CASE create_order_from_cart(r)
  <2>1. pc[r] = "order"
    BY <1>1 DEF create_order_from_cart
  <2>2. CASE Refused(r) /\ NoFault /\ UNCHANGED <<orders, carts>>
    BY <2>1, <2>2, RefusedCarts
  <2>3. CASE /\ Succeeds(r, "place")
             /\ orders' = [orders EXCEPT ![r] = "Initial"]
             /\ carts' = [carts EXCEPT ![r].status = "ordered"]
    <3>1. orders'[r] # "none" /\ CartFrame(r)
      BY <1>0, <2>3 DEF CartFrame, CartType
    <3>2. KnowsCart(r, "place", view[r], carts'[r])
      BY DEF KnowsCart, NoCart
    <3> QED
      BY <2>1, <2>3, <3>1, <3>2, SucceedsCarts DEF Steps
  <2> QED
    BY <1>1, <2>2, <2>3 DEF create_order_from_cart
<1>2. CASE update_line_items_transition_state(r)
  <2>1. /\ pc[r] = "place" /\ UNCHANGED carts
        /\ orders' = [orders EXCEPT ![r] = "Pending"]
        /\ \/ Answers(r, 201) /\ NoFault
           \/ Dies(r) /\ Fault
    BY <1>2 DEF update_line_items_transition_state
  <2>2. carts[r].status = "ordered"
    BY <2>1 DEF CartsInv, MobileInv, PurchaseInv, PathInv, StepOK
  <2>3. orders'[r] # "none" /\ CartFrame(r)
    BY <1>0, <2>1 DEF CartFrame
  <2>4. Move(r, {"done"})
    BY <2>1, AnswersMove, DiesMove DEF CartsInv, MobileInv, PurchaseInv, Codes
  <2>5. KnowsCart(r, "done", view[r], carts'[r])
    BY DEF KnowsCart, NoCart, OwnCart
  <2> QED
    BY <2>1, <2>2, <2>3, <2>4, <2>5, CartsMove DEF Steps
<1> QED
  BY <1>1, <1>2

LEMMA FailsCarts ==
  ASSUME CartsInv, MobileInv', NEW r \in Requests, CallFails(r)
  PROVE  CartsInv'
<1>1. /\ pc[r] # "done" /\ Fault /\ UNCHANGED <<carts, orders>>
      /\ Dies(r) \/ (pc[r] # "clean" /\ Refused(r))
  BY DEF CallFails, stored
<1>2. carts'[r].status = "ordered" => orders'[r] # "none"
  BY <1>1 DEF CartsInv, CartInv
<1> QED
  BY <1>1, <1>2, DiesCarts, RefusedCarts, QuietFrame

LEMMA CartsElse ==
  ASSUME CartsInv, MobileInv',
         RetirementView \/ AnonymizeRetiredUser \/ ClockStep \/ UNCHANGED vars
  PROVE  CartsInv'
<1>1. UNCHANGED <<pc, view, carts, orders>>
  BY DEF RetirementView, AnonymizeRetiredUser, ClockStep, vars, stored, request
<1>2. faults' = faults \/ faults' = faults + 1
  BY DEF RetirementView, AnonymizeRetiredUser, ClockStep, vars, Fault, NoFault
<1>3. faults \in Nat /\ faults' \in Nat
  BY MobileOrderAssumption DEF CartsInv, MobileInv
<1>4. Left' = Left /\ ActiveCarts' = ActiveCarts
  BY <1>1 DEF Left, ActiveCarts
<1>5. Left \subseteq ActiveCarts
  BY DEF Left
<1>6. Cardinality(Left) \in Nat /\ Cardinality(Left) <= faults
  BY <1>5, FS_Subset, FS_CardinalityType DEF CartsInv
<1>7. Cardinality(Left') <= faults'
  BY <1>2, <1>3, <1>4, <1>6
<1> QED
  BY <1>1, <1>4, <1>7 DEF CartsInv, CartInv

LEMMA CartsStep == CartsInv /\ [Next]_vars => CartsInv'
<1> SUFFICES ASSUME CartsInv, [Next]_vars PROVE CartsInv'
  OBVIOUS
<1>1. MobileInv'
  BY MobileStep DEF CartsInv
<1>2. CASE RetirementView \/ AnonymizeRetiredUser \/ ClockStep \/ UNCHANGED vars
  BY <1>1, <1>2, CartsElse
<1>3. ASSUME NEW r \in Requests,
             \/ MobileCreateOrderView(r)
             \/ get_ct_customer(r) \/ create_customer(r) \/ update_customer(r)
             \/ get_customer_cart(r) \/ delete_cart(r) \/ CleanUp(r)
             \/ Numbering(r) \/ Counting(r) \/ NumberFound(r) \/ NumberRefused(r)
             \/ CallFails(r)
      PROVE  CartsInv'
  BY <1>1, <1>3, CustomerCarts, DropCarts, CleanCarts, NumberCarts, FailsCarts
<1>4. ASSUME NEW r \in Requests,
             \/ create_cart(r)
             \/ validate_iap(r) \/ get_payment_by_transaction_interaction_id(r)
             \/ is_dangling_payment(r) \/ NotValidated(r)
             \/ create_payment(r) \/ add_payment_and_address_to_cart(r)
             \/ create_order_from_cart(r) \/ update_line_items_transition_state(r)
      PROVE  CartsInv'
  BY <1>1, <1>4, CreateCarts, ValidationCarts, NotValidatedCarts, PayCarts, OrderCarts
<1> QED
  BY <1>2, <1>3, <1>4 DEF Next

LEMMA CartsInit == Init => CartsInv
<1> SUFFICES ASSUME Init PROVE CartsInv
  OBVIOUS
<1>1. \A r \in Requests : CartInv(r)
  BY DEF Init, CartInv, KnowsCart, OwnCart
<1>2. ActiveCarts = {} /\ Left = {}
  BY DEF Init, ActiveCarts, Left
<1>3. faults = 0
  BY DEF Init
<1> QED
  BY <1>1, <1>2, <1>3, MobileInit, FS_EmptySet DEF CartsInv

LEMMA CartsInvariant == Spec => []CartsInv
BY CartsInit, CartsStep, PTL DEF Spec

(* However many requests run side by side, each active cart that a finished one has
   left behind is paid for with a failed call of its own. *)
THEOREM CartsAreCleanedUp == Spec => []CartsCleanedUp
<1>1. CartsInv => CartsCleanedUp
  BY DEF CartsInv, Left, CartsCleanedUp
<1> QED
  BY <1>1, CartsInvariant, PTL

-----------------------------------------------------------------------------
(* A request that runs alone and without a fault. *)

\* Steps before a request asks for a number.
Numberless == {"idle", "customer", "profile", "cart", "drop"}

\* A request has its number when it has a cart.
NumberedInv(r) ==
  /\ pc[r] \in Numberless => numbering[r].step = "none"
  /\ pc[r] \in OwnCart \cup {"create"} => Issued(r)
  /\ orders[r] # "none" => Issued(r)

\* Nobody is about to touch the customer, and no one else has ordered the purchase.
Unsold(r) ==
  /\ retirement.step # "anonymize"
  /\ ~customer.twin
  /\ \A s \in Requests \ {r} : orders[s] # "none" => asks[s] # asks[r]

\* At step x, request r finds the store as it has left it.
Unhindered(r, x) ==
  /\ x \notin {"idle", "invalid", "redundant", "clean"}
  /\ x = "profile" => view[r].customer = customer.version
  /\ x \in {"customer", "profile", "cart"} => Cardinality(ActiveCarts) <= 1
  /\ x = "drop" => \E s \in Requests : /\ view[r].cart = {s}
                                       /\ ActiveCarts = {s}
                                       /\ carts[s].paid = view[r].paid
  /\ x \in {"number", "create"} => ActiveCarts = {}
  /\ x = "number" /\ numbering[r].step = "counted" => CurrentCounter(r)
  /\ x \in {"find", "dangling", "pay", "add", "order"} => ActiveCarts = {r}
  /\ x \in {"find", "dangling", "pay", "add"} => ~view[r].paid
  /\ x = "pay" => asks[r] \notin payments
  /\ x = "done" => answer[r] = 201 /\ orders[r] = "Pending"

Solo(r) ==
  /\ \A s \in Requests \ {r} : pc[s] \in {"idle", "done"}
  /\ pc[r] # "done" => Unsold(r)
  /\ Unhindered(r, pc[r])

NoneStraddled == \A s \in Requests : ~Straddled(s)

SoloInv ==
  /\ \A r \in Requests : NumberedInv(r)
  /\ NoneStraddled => \A r \in Requests : undisturbed[r] => Solo(r)

\* A number that has been issued stays as it is.
LEMMA IssuedStays ==
  ASSUME [Next]_vars, NumberTypeOK, NEW r \in Requests, Issued(r)
  PROVE  numbering'[r] = numbering[r]
<1>1. [NumberNext]_numberVars
  BY NumbersStep
<1>2. CASE UNCHANGED numberVars \/ NewYear
  BY <1>2 DEF numberVars, NewYear
<1>3. ASSUME NEW s \in Requests,
             \/ NumberStep(s)
             \/ _update_order_number_custom_object(s)
             \/ get_new_order_number(s)
      PROVE  numbering'[r] = numbering[r]
  <2>1. ~Issued(s)
    BY <1>3 DEF NumberStep, _get_order_number_custom_object, CounterRefused,
                _update_order_number_custom_object, get_new_order_number, Issued
  <2>2. s # r
    BY <2>1
  <2> QED
    BY <1>3, <2>2 DEF NumberStep, _get_order_number_custom_object, CounterRefused,
       _update_order_number_custom_object, get_new_order_number, NumberTypeOK
<1> QED
  BY <1>1, <1>2, <1>3 DEF NumberNext

LEMMA StraddledStays ==
  ASSUME [Next]_vars, NumberTypeOK, NoneStraddled'
  PROVE  NoneStraddled
BY IssuedStays DEF NoneStraddled, Straddled, Issued

\* A step of r leaves the numbers of the others, and its own if it has one.
NumberFrame(r) ==
  /\ \A s \in Requests \ {r} :
       pc'[s] = pc[s] /\ orders'[s] = orders[s] /\ numbering'[s] = numbering[s]
  /\ Issued(r) => Issued(r)'

LEMMA NumberedKept ==
  ASSUME NEW r \in Requests, \A s \in Requests : NumberedInv(s), NumberFrame(r),
         pc'[r] \in Numberless => numbering'[r].step = "none",
         pc'[r] \in OwnCart \cup {"create"} => Issued(r)',
         orders'[r] # "none" => Issued(r)'
  PROVE  \A s \in Requests : NumberedInv(s)'
<1>1. NumberedInv(r)'
  BY DEF NumberedInv
<1>2. ASSUME NEW s \in Requests \ {r} PROVE NumberedInv(s)'
  <2>1. NumberedInv(s)
    OBVIOUS
  <2>2. pc'[s] = pc[s] /\ orders'[s] = orders[s] /\ numbering'[s] = numbering[s]
    BY DEF NumberFrame
  <2> QED
    BY <2>1, <2>2 DEF NumberedInv, Issued
<1> QED
  BY <1>1, <1>2

LEMMA NumberedNumberless ==
  ASSUME MobileInv, MobileInv', NEW r \in Requests, \A s \in Requests : NumberedInv(s),
         \/ MobileCreateOrderView(r) \/ get_ct_customer(r) \/ create_customer(r)
         \/ update_customer(r) \/ get_customer_cart(r) \/ delete_cart(r)
  PROVE  \A s \in Requests : NumberedInv(s)'
<1>1. pc[r] \in Numberless /\ UNCHANGED <<numberVars, orders>>
  BY DEF MobileCreateOrderView, get_ct_customer, create_customer, update_customer,
         get_customer_cart, delete_cart, stored, Numberless
<1>2. pc' = [pc EXCEPT ![r] = pc'[r]]
      /\ pc'[r] \in {"customer", "profile", "cart", "drop", "number", "clean", "done"}
  <2>1. CASE MobileCreateOrderView(r)
    BY <2>1 DEF MobileCreateOrderView, GoesOn, Reads, MobileInv, PurchaseInv, RequestTypeOK
  <2>2. CASE get_ct_customer(r) \/ get_customer_cart(r)
    <3>1. \E x \in {"cart", "profile", "drop", "number", "done"} : pc' = [pc EXCEPT ![r] = x]
      BY <2>2 DEF get_ct_customer, get_customer_cart, Dies, Answers, Reads
    <3> QED
      BY <3>1 DEF MobileInv, PurchaseInv, RequestTypeOK
  <2>3. CASE create_customer(r) \/ update_customer(r) \/ delete_cart(r)
    BY <2>3 DEF create_customer, update_customer, delete_cart, Succeeds, Refused, Dies,
                Answers, GoesOn, Reads, MobileInv, PurchaseInv, RequestTypeOK
  <2> QED
    BY <2>1, <2>2, <2>3
<1>3. NumberFrame(r)
  BY <1>1, <1>2 DEF NumberFrame, numberVars, Issued, MobileInv, PurchaseInv, RequestTypeOK
<1>4. numbering'[r].step = "none" /\ orders'[r] = orders[r] /\ numbering' = numbering
  BY <1>1 DEF NumberedInv, numberVars
<1>5. NumberedInv(r)
  OBVIOUS
<1>6. pc'[r] \notin OwnCart \cup {"create"}
  BY <1>2 DEF OwnCart
<1>7. orders'[r] # "none" => Issued(r)'
  BY <1>4, <1>5 DEF NumberedInv, Issued
<1> QED
  BY <1>3, <1>4, <1>6, <1>7, NumberedKept

LEMMA NumberedEnds ==
  ASSUME MobileInv, MobileInv', NEW r \in Requests, \A s \in Requests : NumberedInv(s),
         CleanUp(r) \/ NumberRefused(r) \/ CallFails(r)
  PROVE  \A s \in Requests : NumberedInv(s)'
<1>1. UNCHANGED <<numberVars, orders>>
  BY DEF CleanUp, NumberRefused, CallFails, stored
<1>2. pc' = [pc EXCEPT ![r] = pc'[r]] /\ pc'[r] \in {"clean", "done"}
  BY DEF CleanUp, NumberRefused, CallFails, Refused, Dies, Answers, GoesOn, Reads,
         MobileInv, PurchaseInv, RequestTypeOK
<1>3. NumberFrame(r)
  BY <1>1, <1>2 DEF NumberFrame, numberVars, Issued, MobileInv, PurchaseInv, RequestTypeOK
<1>4. NumberedInv(r)
  OBVIOUS
<1>5. orders'[r] # "none" => Issued(r)'
  BY <1>1, <1>4 DEF NumberedInv, Issued, numberVars
<1>6. pc'[r] \notin OwnCart \cup {"create"} /\ pc'[r] \notin Numberless
  BY <1>2 DEF OwnCart, Numberless
<1> QED
  BY <1>3, <1>5, <1>6, NumberedKept

LEMMA NumberedNumber ==
  ASSUME MobileInv, MobileInv', NumberTypeOK, NEW r \in Requests,
         \A s \in Requests : NumberedInv(s),
         Numbering(r) \/ Counting(r) \/ NumberFound(r)
  PROVE  \A s \in Requests : NumberedInv(s)'
<1>1. pc[r] = "number" /\ UNCHANGED orders
  BY DEF Numbering, Counting, NumberFound, stored
<1>2. NumberedInv(r) /\ pc \in [Requests -> Steps]
  BY DEF MobileInv, PurchaseInv, RequestTypeOK
<1>3. \/ NumberStep(r) \/ _update_order_number_custom_object(r)
      \/ get_new_order_number(r)
  BY DEF Numbering, Counting, NumberFound
<1>4. ~Issued(r) /\ \A s \in Requests \ {r} : numbering'[s] = numbering[s]
  BY <1>3 DEF NumberStep, _get_order_number_custom_object, CounterRefused,
              _update_order_number_custom_object, get_new_order_number, Issued, NumberTypeOK
<1>5. orders'[r] = "none"
  BY <1>1, <1>2, <1>4 DEF NumberedInv
<1>6. /\ \A s \in Requests \ {r} : pc'[s] = pc[s]
      /\ pc'[r] \in {"number", "done"} \/ (pc'[r] = "create" /\ get_new_order_number(r))
  <2>1. CASE Numbering(r)
    BY <1>1, <2>1 DEF Numbering, request
  <2>2. CASE Counting(r)
    BY <1>1, <1>2, <2>2 DEF Counting, Dies, Answers
  <2>3. CASE NumberFound(r)
    BY <1>2, <2>3 DEF NumberFound, GoesOn, Reads
  <2> QED
    BY <2>1, <2>2, <2>3
<1>7. get_new_order_number(r) => Issued(r)'
  BY DEF get_new_order_number, Issued, NumberTypeOK
<1>8. NumberFrame(r)
  BY <1>1, <1>4, <1>6 DEF NumberFrame
<1>9. pc'[r] \notin Numberless /\ (pc'[r] \in OwnCart \cup {"create"} => Issued(r)')
  BY <1>6, <1>7 DEF Numberless, OwnCart
<1> QED
  BY <1>5, <1>8, <1>9, NumberedKept

LEMMA NumberedOwns ==
  ASSUME MobileInv, MobileInv', NEW r \in Requests, \A s \in Requests : NumberedInv(s),
         \/ create_cart(r)
         \/ validate_iap(r) \/ get_payment_by_transaction_interaction_id(r)
         \/ is_dangling_payment(r) \/ NotValidated(r)
         \/ create_payment(r) \/ add_payment_and_address_to_cart(r)
         \/ create_order_from_cart(r) \/ update_line_items_transition_state(r)
  PROVE  \A s \in Requests : NumberedInv(s)'
<1>1. pc[r] \in OwnCart \cup {"create"} /\ UNCHANGED numberVars
  BY DEF create_cart, validate_iap, get_payment_by_transaction_interaction_id,
         is_dangling_payment, NotValidated, create_payment,
         add_payment_and_address_to_cart, create_order_from_cart,
         update_line_items_transition_state, OwnCart
<1>2. Issued(r)'
  BY <1>1 DEF NumberedInv, Issued, numberVars
<1>3. \A s \in Requests \ {r} : orders'[s] = orders[s]
  BY DEF create_cart, validate_iap, get_payment_by_transaction_interaction_id,
         is_dangling_payment, NotValidated, create_payment,
         add_payment_and_address_to_cart, create_order_from_cart,
         update_line_items_transition_state, stored, MobileInv, PurchaseInv, StoreTypeOK
<1>4. pc' = [pc EXCEPT ![r] = pc'[r]]
      /\ pc'[r] \in OwnCart \cup {"clean", "done"}
  <2>1. CASE create_cart(r) \/ validate_iap(r) \/ is_dangling_payment(r) \/ NotValidated(r)
             \/ get_payment_by_transaction_interaction_id(r)
    BY <2>1 DEF create_cart, validate_iap, get_payment_by_transaction_interaction_id,
         is_dangling_payment, NotValidated, Dies, Answers, GoesOn, Reads, OwnCart,
         MobileInv, PurchaseInv, RequestTypeOK
  <2>2. CASE create_payment(r) \/ add_payment_and_address_to_cart(r)
             \/ create_order_from_cart(r) \/ update_line_items_transition_state(r)
    BY <2>2 DEF create_payment, add_payment_and_address_to_cart, create_order_from_cart,
         update_line_items_transition_state, Succeeds, Refused, Dies, Answers, GoesOn, Reads,
         OwnCart, MobileInv, PurchaseInv, RequestTypeOK
  <2> QED
    BY <2>1, <2>2
<1>5. NumberFrame(r)
  BY <1>1, <1>2, <1>3, <1>4 DEF NumberFrame, numberVars, MobileInv, PurchaseInv, RequestTypeOK
<1>6. pc'[r] \notin Numberless
  BY <1>4 DEF OwnCart, Numberless
<1> QED
  BY <1>2, <1>5, <1>6, NumberedKept

LEMMA NumberedStep ==
  ASSUME MobileInv, NumberTypeOK, \A s \in Requests : NumberedInv(s), [Next]_vars
  PROVE  \A s \in Requests : NumberedInv(s)'
<1>1. MobileInv'
  BY MobileStep
<1>2. CASE RetirementView \/ AnonymizeRetiredUser \/ ClockStep \/ UNCHANGED vars
  <2>1. UNCHANGED <<pc, orders, numbering>>
    BY <1>2 DEF RetirementView, AnonymizeRetiredUser, ClockStep, NewYear, vars, stored,
                request, numberVars
  <2> QED
    BY <2>1 DEF NumberedInv, Issued
<1> QED
  BY <1>1, <1>2, NumberedNumberless, NumberedEnds, NumberedNumber, NumberedOwns DEF Next

\* A step of r that leaves it alone, and that nothing hinders.
LEMMA SoloKept ==
  ASSUME NEW r \in Requests, Solo(r), pc[r] # "done", NEW x, pc'[r] = x,
         \A s \in Requests \ {r} : pc'[s] = pc[s] /\ orders'[s] = orders[s],
         UNCHANGED <<asks, retirement>>, ~customer'.twin, Unhindered(r, x)'
  PROVE  Solo(r)'
<1>1. Unsold(r)'
  BY DEF Solo, Unsold
<1> QED
  BY <1>1 DEF Solo

LEMMA GoesOnFacts ==
  ASSUME RequestTypeOK, NEW r \in Requests, NEW next \in Steps, GoesOn(r, next)
  PROVE  /\ pc'[r] = next
         /\ view' = view /\ answer' = answer
         /\ \A s \in Requests \ {r} : pc'[s] = pc[s]
<1>1. view' = view
  BY DEF RequestTypeOK, GoesOn, Reads
<1> QED
  BY <1>1 DEF RequestTypeOK, GoesOn, Reads

\* What holds of the whole when r is on its own.
Alone(r) ==
  /\ CartsInv
  /\ NumberTypeOK
  /\ NumbersUnique
  /\ NoneStraddled
  /\ \A s \in Requests : NumberedInv(s)
  /\ Solo(r)

LEMMA AloneTyped ==
  ASSUME NEW r \in Requests, Alone(r)
  PROVE  /\ MobileInv /\ RequestTypeOK /\ StoreTypeOK /\ CustomerInv /\ CustomerTypeOK
         /\ carts \in [Requests -> CartType]
         /\ orders \in [Requests -> {"none", "Initial", "Pending"}]
BY CartsTyped DEF Alone, CartsInv, MobileInv, PurchaseInv, CustomerInv, StoreTypeOK

\* A request comes in.
LEMMA SoloPost ==
  ASSUME CartsInv, NEW r \in Requests, MobileCreateOrderView(r), undisturbed'[r]
  PROVE  Solo(r)'
<1>1. /\ \A s \in Requests : ~Live(s)
      /\ retirement.step # "anonymize"
      /\ ~customer.twin
      /\ ~\E s \in Requests : orders[s] # "none" /\ asks[s] = asks[r]
      /\ Cardinality(ActiveCarts) <= 1
  BY DEF MobileCreateOrderView
<1>2. /\ UNCHANGED <<numberVars, stored, asks>>
      /\ GoesOn(r, "customer")
  BY DEF MobileCreateOrderView
<1>3. /\ pc'[r] = "customer"
      /\ \A s \in Requests \ {r} : pc'[s] = pc[s]
  BY <1>2, GoesOnFacts DEF CartsInv, MobileInv, PurchaseInv, Steps
<1>4. Unhindered(r, "customer")'
  BY <1>1, <1>2 DEF Unhindered, ActiveCarts, stored
<1>5. Unsold(r)'
  BY <1>1, <1>2 DEF Unsold, stored
<1>6. \A s \in Requests \ {r} : pc'[s] \in {"idle", "done"}
  BY <1>1, <1>3 DEF Live
<1> QED
  BY <1>3, <1>4, <1>5, <1>6 DEF Solo

\* It finds the customer, or that there is none, and what it has found stays.
LEMMA SoloCustomer ==
  ASSUME NEW r \in Requests, Alone(r), get_ct_customer(r)
  PROVE  Solo(r)'
<1>1. pc[r] = "customer" /\ UNCHANGED <<numberVars, stored, asks>>
  BY DEF get_ct_customer
<1>2. ~customer.twin /\ Cardinality(ActiveCarts) <= 1
  BY <1>1 DEF Alone, Solo, Unsold, Unhindered
<1>3. get_customer_by_lms_user # "raises"
  BY <1>2, AloneTyped DEF get_customer_by_lms_user, CustomerTypeOK
<1> DEFINE v == [NoView EXCEPT !.customer = customer.version, !.profile = customer.profile]
<1>4. PICK x \in {"cart", "profile"} : Reads(r, x, v)
  BY <1>3 DEF get_ct_customer
<1>5. v \in Views /\ v.customer = customer.version
  <2>0. customer.version \in Nat /\ customer.profile \in Profiles
    BY AloneTyped DEF CustomerTypeOK
  <2>1. v \in Views
    BY <2>0 DEF Views, NoView
  <2>2. v.customer = customer.version
    BY DEF NoView
  <2> QED
    BY <2>1, <2>2
<1> HIDE DEF v
<1>6. /\ pc'[r] = x /\ view'[r] = v
      /\ \A s \in Requests \ {r} : pc'[s] = pc[s]
  BY <1>4, <1>5, AloneTyped, ReadsType DEF Steps
<1>7. Unhindered(r, x)'
  BY <1>1, <1>2, <1>5, <1>6 DEF Unhindered, ActiveCarts, stored
<1> QED
  BY <1>1, <1>2, <1>6, <1>7, SoloKept DEF Alone, stored

LEMMA NotFaulted ==
  ASSUME NEW r \in Requests, undisturbed'[r]
  PROVE  ~Fault
BY DEF Fault

\* The version it has read is the current one, and no customer of a retired learner
\* is in its way.
LEMMA SoloProfile ==
  ASSUME NEW r \in Requests, Alone(r), ~Fault, create_customer(r) \/ update_customer(r)
  PROVE  Solo(r)'
<1>1. pc[r] = "profile" /\ UNCHANGED <<numberVars, retirement, carts, orders, asks>>
  BY DEF create_customer, update_customer
<1>2. /\ ~customer.twin /\ Cardinality(ActiveCarts) <= 1
      /\ view[r].customer = customer.version
  BY <1>1 DEF Alone, Solo, Unsold, Unhindered
<1>3. customer.version = 0 => customer.profile = "none"
  BY AloneTyped DEF CustomerInv
<1>4. Succeeds(r, "cart") /\ ~customer'.twin
  <2>1. CASE create_customer(r)
    BY <1>2, <1>3, <2>1 DEF create_customer
  <2>2. CASE update_customer(r)
    <3>1. /\ Succeeds(r, "cart")
          /\ customer' = [customer EXCEPT !.version = @ + 1, !.profile = "current"]
      BY <1>2, <2>2 DEF update_customer, CurrentCustomer
    <3>2. customer \in [version : Nat, profile : Profiles, twin : BOOLEAN]
      BY AloneTyped DEF CustomerTypeOK
    <3>3. customer'.twin = customer.twin
      BY <3>1, <3>2
    <3> QED
      BY <1>2, <3>1, <3>3
  <2> QED
    BY <2>1, <2>2
<1>5. GoesOn(r, "cart")
  BY <1>4 DEF Succeeds
<1>6. /\ pc'[r] = "cart"
      /\ \A s \in Requests \ {r} : pc'[s] = pc[s]
  BY <1>5, AloneTyped, GoesOnFacts DEF Steps
<1>7. Unhindered(r, "cart")'
  BY <1>1, <1>2 DEF Unhindered, ActiveCarts
<1> QED
  BY <1>1, <1>4, <1>6, <1>7, SoloKept DEF Alone

\* The one active cart is found ...
LEMMA SoloCart ==
  ASSUME NEW r \in Requests, Alone(r), get_customer_cart(r)
  PROVE  Solo(r)'
<1>1. pc[r] = "cart" /\ UNCHANGED <<numberVars, stored, asks>>
  BY DEF get_customer_cart
<1>2. ~customer.twin /\ Cardinality(ActiveCarts) <= 1
  BY <1>1 DEF Alone, Solo, Unsold, Unhindered
<1>3. CASE ActiveCarts = {} /\ Reads(r, "number", NoView)
  <2>1. pc'[r] = "number" /\ \A s \in Requests \ {r} : pc'[s] = pc[s]
    BY <1>3, AloneTyped, ReadsType, ViewType DEF Steps
  <2>2. Issued(r) \/ numbering[r].step = "none"
    BY <1>1 DEF Alone, NumberedInv, Numberless
  <2>3. Unhindered(r, "number")'
    BY <1>1, <1>3, <2>2 DEF Unhindered, ActiveCarts, stored, Issued, numberVars
  <2> QED
    BY <1>1, <1>2, <2>1, <2>3, SoloKept DEF Alone, stored
<1>4. ASSUME NEW s \in ActiveCarts, Reads(r, "drop", ViewOf({s})) PROVE Solo(r)'
  <2>1. s \in Requests
    BY DEF ActiveCarts
  <2>2. ViewOf({s}) \in Views
    BY CartViewed, AloneTyped DEF MobileInv
  <2>3. ViewOf({s}).cart = {s} /\ ViewOf({s}).paid = carts[s].paid
    <3>1. carts[s].paid \in BOOLEAN
      BY <2>1, AloneTyped DEF CartType
    <3> DEFINE b == \E c \in {s} : carts[c].paid
    <3>2. b = carts[s].paid
      BY <3>1, Zenon
    <3> HIDE DEF b
    <3>3. [NoView EXCEPT !.cart = {s}, !.paid = b].cart = {s}
          /\ [NoView EXCEPT !.cart = {s}, !.paid = b].paid = b
      BY DEF NoView
    <3> QED
      BY <3>2, <3>3 DEF ViewOf, b
  <2>4. ActiveCarts = {s}
    <3>1. IsFiniteSet(ActiveCarts)
      BY DEF Alone, CartsInv
    <3>2. IsFiniteSet(ActiveCarts \ {s})
          /\ Cardinality(ActiveCarts \ {s}) = Cardinality(ActiveCarts) - 1
      BY <3>1, FS_RemoveElement
    <3>3. Cardinality(ActiveCarts \ {s}) \in Nat /\ Cardinality(ActiveCarts) \in Nat
      BY <3>1, <3>2, FS_CardinalityType
    <3>4. Cardinality(ActiveCarts \ {s}) = 0
      BY <1>2, <3>2, <3>3
    <3>5. ActiveCarts \ {s} = {}
      BY <3>2, <3>4, FS_EmptySet
    <3> QED
      BY <3>5
  <2>5. /\ pc'[r] = "drop" /\ view'[r] = ViewOf({s})
        /\ \A t \in Requests \ {r} : pc'[t] = pc[t]
    BY <1>4, <2>2, AloneTyped, ReadsType DEF Steps
  <2>6. ActiveCarts' = {s} /\ carts'[s].paid = carts[s].paid
    BY <1>1, <2>4 DEF ActiveCarts, stored
  <2>7. Unhindered(r, "drop")'
    BY <2>1, <2>3, <2>5, <2>6 DEF Unhindered
  <2> QED
    BY <1>1, <1>2, <2>5, <2>7, SoloKept DEF Alone, stored
<1> QED
  BY <1>3, <1>4 DEF get_customer_cart

\* ... and deleted.
LEMMA SoloDrop ==
  ASSUME NEW r \in Requests, Alone(r), ~Fault, delete_cart(r)
  PROVE  Solo(r)'
<1>1. /\ pc[r] = "drop"
      /\ UNCHANGED <<numberVars, customer, retirement, payments, orders, asks, late>>
  BY DEF delete_cart
<1>2. PICK s \in Requests : /\ view[r].cart = {s}
                            /\ ActiveCarts = {s}
                            /\ carts[s].paid = view[r].paid
  BY <1>1 DEF Alone, Solo, Unhindered
<1>3. Deletable(r)
  <2> DEFINE c == carts[s]
             p == view[r].paid
  <2>1. c \in CartType /\ c.status = "active" /\ c.paid = p
    BY <1>2, AloneTyped DEF ActiveCarts
  <2> HIDE DEF c, p
  <2>2. c = [status |-> "active", paid |-> p]
    BY <2>1 DEF CartType
  <2> QED
    BY <1>2, <2>2 DEF Deletable, c, p
<1>4. CartDeleted(r) /\ GoesOn(r, "number")
  BY <1>3 DEF delete_cart, Succeeds
<1>5. ActiveCarts' = {}
  <2>1. \A t \in Requests : /\ t = s => carts'[t] = [carts[t] EXCEPT !.status = "deleted"]
                            /\ t # s => carts'[t] = carts[t]
    BY <1>2, <1>4 DEF CartDeleted
  <2>2. carts'[s].status = "deleted"
    BY <2>1, AloneTyped DEF CartType
  <2>3. \A t \in Requests \ {s} : carts[t].status # "active"
    BY <1>2 DEF ActiveCarts
  <2>4. \A t \in Requests : carts'[t].status # "active"
    BY <2>1, <2>2, <2>3
  <2> QED
    BY <2>4 DEF ActiveCarts
<1>6. pc'[r] = "number" /\ \A t \in Requests \ {r} : pc'[t] = pc[t]
  BY <1>4, AloneTyped, GoesOnFacts DEF Steps
<1>7. numbering[r].step = "none"
  BY <1>1 DEF Alone, NumberedInv, Numberless
<1>8. Unhindered(r, "number")'
  BY <1>1, <1>5, <1>7 DEF Unhindered, numberVars
<1>9. ~customer.twin
  BY <1>1 DEF Alone, Solo, Unsold
<1> QED
  BY <1>1, <1>6, <1>8, <1>9, SoloKept DEF Alone

\* Nobody else counts, so that the version it has read stays the current one.
LEMMA SoloNumber ==
  ASSUME NEW r \in Requests, Alone(r), ~Fault, Numbering(r) \/ Counting(r) \/ NumberFound(r)
  PROVE  Solo(r)'
<1>1. pc[r] = "number" /\ UNCHANGED <<stored, asks>>
  BY DEF Numbering, Counting, NumberFound, request
<1>2. /\ ~customer.twin /\ ActiveCarts = {}
      /\ numbering[r].step = "counted" => CurrentCounter(r)
  BY <1>1 DEF Alone, Solo, Unsold, Unhindered
<1>3. ActiveCarts' = {}
  BY <1>1, <1>2 DEF ActiveCarts, stored
<1>4. ASSUME pc' = pc, numbering'[r].step = "counted" => CurrentCounter(r)'
      PROVE  Solo(r)'
  <2>1. Unhindered(r, "number")'
    BY <1>3, <1>4 DEF Unhindered
  <2> QED
    BY <1>1, <1>2, <1>4, <2>1, SoloKept DEF Alone, stored
<1>5. CASE Numbering(r)
  <2>1. pc' = pc
    BY <1>5 DEF Numbering, request
  <2>2. _get_order_number_custom_object(r)
    BY <1>2, <1>5 DEF Numbering, NumberStep, CounterRefused
  <2>3. CurrentCounter(r)'
    BY <2>2 DEF _get_order_number_custom_object, CurrentCounter, Alone, NumberTypeOK
  <2> QED
    BY <1>4, <2>1, <2>3
<1>6. CASE Counting(r)
  <2>1. pc' = pc
    BY <1>6 DEF Counting
  <2>2. numbering'[r].step = "stored"
    BY <1>6 DEF Counting, _update_order_number_custom_object, Alone, NumberTypeOK
  <2> QED
    BY <1>4, <2>1, <2>2
<1>7. CASE NumberFound(r)
  <2>1. /\ pc'[r] = "create"
        /\ \A s \in Requests \ {r} : pc'[s] = pc[s]
    BY <1>7, AloneTyped, GoesOnFacts DEF NumberFound, Steps
  <2>2. Unhindered(r, "create")'
    BY <1>3 DEF Unhindered
  <2> QED
    BY <1>1, <1>2, <2>1, <2>2, SoloKept DEF Alone, stored
<1> QED
  BY <1>5, <1>6, <1>7

LEMMA SoloCreate ==
  ASSUME NEW r \in Requests, Alone(r), ~Fault, create_cart(r)
  PROVE  Solo(r)'
<1>1. /\ pc[r] = "create" /\ carts' = [carts EXCEPT ![r].status = "active"]
      /\ UNCHANGED <<numberVars, customer, retirement, payments, orders, asks, late>>
  BY DEF create_cart
<1>2. ~customer.twin /\ ActiveCarts = {}
  BY <1>1 DEF Alone, Solo, Unsold, Unhindered
<1>3. ActiveCarts' = {r}
  <2>1. carts'[r].status = "active" /\ \A s \in Requests \ {r} : carts'[s] = carts[s]
    BY <1>1, AloneTyped DEF CartType
  <2> QED
    BY <1>2, <2>1 DEF ActiveCarts
<1> DEFINE v == [NoView EXCEPT !.cart = {r}]
<1>4. Reads(r, "find", v)
  BY DEF create_cart
<1>5. v \in Views /\ v.paid = FALSE
  BY DEF NoView, Views, Profiles
<1> HIDE DEF v
<1>6. /\ pc'[r] = "find" /\ view'[r] = v
      /\ \A s \in Requests \ {r} : pc'[s] = pc[s]
  BY <1>4, <1>5, AloneTyped, ReadsType DEF Steps
<1>7. Unhindered(r, "find")'
  BY <1>3, <1>5, <1>6 DEF Unhindered
<1> QED
  BY <1>1, <1>2, <1>6, <1>7, SoloKept DEF Alone

\* No other cart has the payment: those of the purchase are deleted, and it is not sold.
LEMMA SoloAttached ==
  ASSUME NEW r \in Requests, Alone(r), pc[r] \in {"dangling", "add"}
  PROVE  ~Attached(asks[r])
<1> SUFFICES ASSUME NEW s \in Requests, asks[s] = asks[r], carts[s].paid,
                    carts[s].status \in {"active", "ordered"}
             PROVE  FALSE
  BY DEF Attached
<1>1. ActiveCarts = {r} /\ ~view[r].paid /\ Unsold(r)
  BY DEF Alone, Solo, Unhindered
<1>2. CartInv(r) /\ CartInv(s)
  BY DEF Alone, CartsInv
<1>3. ~carts[r].paid
  BY <1>1, <1>2 DEF CartInv, KnowsCart, OwnCart
<1>4. s # r
  BY <1>3
<1>5. carts[s].status = "ordered"
  BY <1>1, <1>4 DEF ActiveCarts
<1>6. orders[s] # "none"
  BY <1>2, <1>5 DEF CartInv
<1> QED
  BY <1>1, <1>4, <1>6 DEF Unsold

LEMMA SoloValidation ==
  ASSUME NEW r \in Requests, Alone(r), ~Fault,
         get_payment_by_transaction_interaction_id(r) \/ is_dangling_payment(r)
  PROVE  Solo(r)'
<1>1. pc[r] \in {"find", "dangling"} /\ UNCHANGED <<numberVars, stored, asks>>
  BY DEF get_payment_by_transaction_interaction_id, is_dangling_payment
<1>2. ~customer.twin /\ ActiveCarts = {r} /\ ~view[r].paid
  BY <1>1 DEF Alone, Solo, Unsold, Unhindered
<1>3. PICK x \in {"dangling", "pay", "add"} :
        GoesOn(r, x) /\ (x = "pay" => asks[r] \notin payments)
  BY SoloAttached
     DEF get_payment_by_transaction_interaction_id, is_dangling_payment, Dangling
<1>4. /\ pc'[r] = x /\ view' = view
      /\ \A s \in Requests \ {r} : pc'[s] = pc[s]
  BY <1>3, AloneTyped, GoesOnFacts DEF Steps
<1>5. Unhindered(r, x)'
  BY <1>1, <1>2, <1>3, <1>4 DEF Unhindered, ActiveCarts, stored
<1> QED
  BY <1>1, <1>2, <1>4, <1>5, SoloKept DEF Alone, stored

\* The cart is as it has been read.
LEMMA SoloDeletable ==
  ASSUME NEW r \in Requests, Alone(r), pc[r] \in {"add", "order"}
  PROVE  Deletable(r) /\ view[r].cart = {r}
<1>1. ActiveCarts = {r}
  BY DEF Alone, Solo, Unhindered
<1>2. view[r].cart = {r} /\ carts[r].paid = view[r].paid
  BY DEF Alone, CartsInv, CartInv, KnowsCart, OwnCart, MobileInv, PurchaseInv, PathInv, StepOK
<1> DEFINE c == carts[r]
           p == view[r].paid
<1>3. c \in CartType /\ c.status = "active" /\ c.paid = p
  BY <1>1, <1>2, AloneTyped DEF ActiveCarts
<1> HIDE DEF c, p
<1>4. c = [status |-> "active", paid |-> p]
  BY <1>3 DEF CartType
<1> QED
  BY <1>2, <1>4 DEF Deletable, c, p

LEMMA SoloPay ==
  ASSUME NEW r \in Requests, Alone(r), ~Fault,
         create_payment(r) \/ add_payment_and_address_to_cart(r)
  PROVE  Solo(r)'
<1>1. /\ pc[r] \in {"pay", "add"}
      /\ UNCHANGED <<numberVars, customer, retirement, orders, asks, late>>
  BY DEF create_payment, add_payment_and_address_to_cart
<1>2. ~customer.twin /\ ActiveCarts = {r} /\ ~view[r].paid
  BY <1>1 DEF Alone, Solo, Unsold, Unhindered
<1>3. CASE create_payment(r)
  <2>1. pc[r] = "pay" /\ asks[r] \notin payments
    BY <1>3 DEF create_payment, Alone, Solo, Unhindered
  <2>2. GoesOn(r, "add") /\ UNCHANGED carts
    BY <1>3, <2>1 DEF create_payment, Succeeds
  <2>3. /\ pc'[r] = "add" /\ view' = view
        /\ \A s \in Requests \ {r} : pc'[s] = pc[s]
    BY <2>2, AloneTyped, GoesOnFacts DEF Steps
  <2>4. Unhindered(r, "add")'
    BY <1>2, <2>2, <2>3 DEF Unhindered, ActiveCarts
  <2> QED
    BY <1>1, <1>2, <2>3, <2>4, SoloKept DEF Alone
<1>4. CASE add_payment_and_address_to_cart(r)
  <2>1. pc[r] = "add"
    BY <1>4 DEF add_payment_and_address_to_cart
  <2>2. Deletable(r) /\ ~Attached(asks[r])
    BY <2>1, SoloDeletable, SoloAttached
  <2> DEFINE v == [view[r] EXCEPT !.paid = TRUE]
  <2>3. carts' = [carts EXCEPT ![r].paid = TRUE] /\ Reads(r, "order", v)
    BY <1>4, <2>2 DEF add_payment_and_address_to_cart
  <2>0. view[r] \in Views
    BY AloneTyped DEF RequestTypeOK, Views
  <2>4. v \in Views
    BY <2>0 DEF Views
  <2> HIDE DEF v
  <2>5. /\ pc'[r] = "order"
        /\ \A s \in Requests \ {r} : pc'[s] = pc[s]
    BY <2>3, <2>4, AloneTyped, ReadsType DEF Steps
  <2>6. \A s \in Requests : carts'[s].status = carts[s].status
    BY <2>3, AloneTyped DEF CartType
  <2>7. Unhindered(r, "order")'
    BY <1>2, <2>6 DEF Unhindered, ActiveCarts
  <2> QED
    BY <1>1, <1>2, <2>5, <2>7, SoloKept DEF Alone
<1> QED
  BY <1>3, <1>4

\* Its number is its own.
LEMMA SoloOrder ==
  ASSUME NEW r \in Requests, Alone(r), ~Fault,
         create_order_from_cart(r) \/ update_line_items_transition_state(r)
  PROVE  Solo(r)'
<1>1. /\ pc[r] \in {"order", "place"}
      /\ UNCHANGED <<numberVars, customer, retirement, payments, asks, late>>
  BY DEF create_order_from_cart, update_line_items_transition_state
<1>2. ~customer.twin
  BY <1>1 DEF Alone, Solo, Unsold
<1>3. orders \in [Requests -> {"none", "Initial", "Pending"}]
  BY AloneTyped
<1>4. CASE create_order_from_cart(r)
  <2>1. pc[r] = "order" /\ Deletable(r)
    BY <1>4, SoloDeletable DEF create_order_from_cart
  <2>2. ~NumberTaken(r)
    <3> SUFFICES ASSUME NEW s \in Requests, orders[s] # "none", SameNumber(r, s)
                 PROVE  FALSE
      BY DEF NumberTaken
    <3>1. Issued(r) /\ Issued(s)
      BY <2>1 DEF Alone, NumberedInv, OwnCart
    <3>2. orders[r] = "none"
      BY <2>1, AloneTyped DEF MobileInv, PurchaseInv, PathInv, StepOK
    <3> QED
      BY <3>1, <3>2 DEF Alone, NumbersUnique, NoneStraddled
  <2>3. orders' = [orders EXCEPT ![r] = "Initial"] /\ GoesOn(r, "place")
    BY <1>4, <2>1, <2>2 DEF create_order_from_cart, Succeeds
  <2>4. /\ pc'[r] = "place"
        /\ \A s \in Requests \ {r} : pc'[s] = pc[s] /\ orders'[s] = orders[s]
    BY <1>3, <2>3, AloneTyped, GoesOnFacts DEF Steps
  <2>5. Unhindered(r, "place")'
    BY DEF Unhindered
  <2> QED
    BY <1>1, <1>2, <2>1, <2>4, <2>5, SoloKept DEF Alone
<1>5. CASE update_line_items_transition_state(r)
  <2>1. /\ pc[r] = "place"
        /\ orders' = [orders EXCEPT ![r] = "Pending"] /\ Answers(r, 201)
    BY <1>5 DEF update_line_items_transition_state
  <2>2. /\ pc'[r] = "done" /\ answer'[r] = 201
        /\ \A s \in Requests \ {r} : pc'[s] = pc[s] /\ orders'[s] = orders[s]
    BY <1>3, <2>1, AloneTyped DEF Answers, RequestTypeOK
  <2>3. orders'[r] = "Pending"
    BY <1>3, <2>1
  <2>4. Unhindered(r, "done")'
    BY <2>2, <2>3 DEF Unhindered
  <2> QED
    BY <1>1, <1>2, <2>1, <2>2, <2>4, SoloKept DEF Alone
<1> QED
  BY <1>4, <1>5

\* It takes no step that a fault or somebody else has to bring it to.
LEMMA SoloElse ==
  ASSUME NEW r \in Requests, Alone(r), ~Fault,
         CleanUp(r) \/ NumberRefused(r) \/ validate_iap(r) \/ NotValidated(r) \/ CallFails(r)
  PROVE  FALSE
<1>1. pc[r] \notin {"invalid", "redundant", "clean"}
  BY DEF Alone, Solo, Unhindered
<1>2. pc[r] = "number" /\ numbering[r].step = "counted" => CurrentCounter(r)
  BY DEF Alone, Solo, Unhindered
<1> QED
  BY <1>1, <1>2
     DEF CleanUp, NumberRefused, OutOfAttempts, validate_iap, NotValidated, CallFails

\* What others do leaves it alone: none of them is under way, and the one that comes in
\* disturbs it.
LEMMA SoloOthers ==
  ASSUME NEW r \in Requests, Solo(r), NEW s \in Requests \ {r}, undisturbed'[r],
         \/ MobileCreateOrderView(s)
         \/ get_ct_customer(s) \/ create_customer(s) \/ update_customer(s)
         \/ get_customer_cart(s) \/ delete_cart(s) \/ CleanUp(s)
         \/ Numbering(s) \/ Counting(s) \/ NumberFound(s) \/ NumberRefused(s)
         \/ create_cart(s)
         \/ validate_iap(s) \/ get_payment_by_transaction_interaction_id(s)
         \/ is_dangling_payment(s) \/ NotValidated(s)
         \/ create_payment(s) \/ add_payment_and_address_to_cart(s)
         \/ create_order_from_cart(s) \/ update_line_items_transition_state(s)
         \/ CallFails(s)
  PROVE  FALSE
<1>1. pc[s] \in {"idle", "done"}
  BY DEF Solo
<1>2. CASE MobileCreateOrderView(s)
  BY <1>2 DEF MobileCreateOrderView
<1> QED
  BY <1>1, <1>2
     DEF get_ct_customer, create_customer, update_customer, get_customer_cart, delete_cart,
         CleanUp, Numbering, Counting, NumberFound, NumberRefused, create_cart, validate_iap,
         get_payment_by_transaction_interaction_id, is_dangling_payment, NotValidated,
         create_payment, add_payment_and_address_to_cart, create_order_from_cart,
         update_line_items_transition_state, CallFails

\* New Year, or the end of a retirement that began before it was over.
LEMMA SoloStays ==
  ASSUME NEW r \in Requests, Alone(r), ~Fault,
         AnonymizeRetiredUser \/ ClockStep \/ UNCHANGED vars
  PROVE  Solo(r)'
<1>1. UNCHANGED <<payments, carts, orders, request>>
  BY DEF AnonymizeRetiredUser, ClockStep, vars, stored
<1>2. UNCHANGED <<counter, numbering>>
  BY DEF AnonymizeRetiredUser, ClockStep, NewYear, vars, numberVars
<1>3. CASE AnonymizeRetiredUser
  <2>1. retirement.step = "anonymize"
    BY <1>3 DEF AnonymizeRetiredUser
  <2>2. pc[r] = "done"
    BY <2>1 DEF Alone, Solo, Unsold
  <2>3. Unhindered(r, "done")
    BY <2>2 DEF Alone, Solo
  <2>4. Unhindered(r, "done")'
    BY <1>1, <2>3 DEF Unhindered, request
  <2> QED
    BY <1>1, <2>2, <2>4 DEF Alone, Solo, request
<1>4. CASE UNCHANGED <<customer, retirement>>
  <2>1. Unhindered(r, pc[r])'
    BY <1>1, <1>2, <1>4 DEF Alone, Solo, Unhindered, ActiveCarts, CurrentCounter, request
  <2>2. Unsold(r) => Unsold(r)'
    BY <1>1, <1>4 DEF Unsold, request
  <2> QED
    BY <1>1, <2>1, <2>2 DEF Alone, Solo, request
<1> QED
  BY <1>3, <1>4 DEF ClockStep, vars, stored

\* Whoever is undisturbed afterwards was so before, or comes in now.
LEMMA UndisturbedBefore ==
  ASSUME CartsInv, [Next]_vars, NEW r \in Requests, undisturbed'[r],
         ~MobileCreateOrderView(r)
  PROVE  undisturbed[r] /\ ~Fault
<1>1. ~Fault
  BY NotFaulted
<1>2. CASE RetirementView
  BY <1>2 DEF RetirementView
<1>3. CASE UNCHANGED vars
  BY <1>1, <1>3 DEF vars
<1>4. ASSUME NEW s \in Requests, MobileCreateOrderView(s) PROVE FALSE
  BY <1>4 DEF MobileCreateOrderView
<1>5. ASSUME NoFault PROVE undisturbed[r]
  BY <1>5 DEF NoFault
<1>6. CASE \/ ClockStep \/ AnonymizeRetiredUser
           \/ \E s \in Requests :
                \/ get_ct_customer(s) \/ create_customer(s) \/ update_customer(s)
                \/ get_customer_cart(s) \/ delete_cart(s) \/ CleanUp(s)
                \/ Numbering(s) \/ Counting(s) \/ NumberFound(s) \/ NumberRefused(s)
                \/ CallFails(s)
  <2>1. Fault \/ NoFault
    BY <1>6 DEF ClockStep, AnonymizeRetiredUser, get_ct_customer, create_customer,
                update_customer, get_customer_cart, delete_cart, CleanUp, Numbering,
                Counting, NumberFound, NumberRefused, CallFails, Succeeds
  <2> QED
    BY <1>1, <1>5, <2>1
<1>7. CASE \E s \in Requests :
             \/ create_cart(s)
             \/ validate_iap(s) \/ get_payment_by_transaction_interaction_id(s)
             \/ is_dangling_payment(s) \/ NotValidated(s)
             \/ create_payment(s) \/ add_payment_and_address_to_cart(s)
             \/ create_order_from_cart(s) \/ update_line_items_transition_state(s)
  <2>1. Fault \/ NoFault
    BY <1>7 DEF create_cart, validate_iap, get_payment_by_transaction_interaction_id,
                is_dangling_payment, NotValidated, create_payment,
                add_payment_and_address_to_cart, create_order_from_cart,
                update_line_items_transition_state, Succeeds
  <2> QED
    BY <1>1, <1>5, <2>1
<1> QED
  BY <1>1, <1>2, <1>3, <1>4, <1>6, <1>7 DEF Next

LEMMA SoloStep ==
  ASSUME CartsInv, NumberTypeOK, NumbersUnique, SoloInv, [Next]_vars
  PROVE  SoloInv'
<1>1. \A s \in Requests : NumberedInv(s)'
  BY NumberedStep DEF CartsInv, SoloInv
<1> SUFFICES ASSUME NoneStraddled', NEW r \in Requests, undisturbed'[r] PROVE Solo(r)'
  BY <1>1 DEF SoloInv
<1>2. NoneStraddled
  BY StraddledStays
<1>3. CASE MobileCreateOrderView(r)
  BY <1>3, SoloPost
<1>4. CASE ~MobileCreateOrderView(r)
  <2>1. undisturbed[r] /\ ~Fault
    BY <1>4, UndisturbedBefore
  <2>2. Alone(r) /\ Solo(r)
    BY <1>2, <2>1 DEF SoloInv, Alone
  <2>3. CASE RetirementView
    BY <2>3 DEF RetirementView
  <2>4. CASE AnonymizeRetiredUser \/ ClockStep \/ UNCHANGED vars
    BY <2>1, <2>2, <2>4, SoloStays
  <2>5. CASE \/ get_ct_customer(r) \/ create_customer(r) \/ update_customer(r)
             \/ get_customer_cart(r) \/ delete_cart(r) \/ CleanUp(r)
             \/ Numbering(r) \/ Counting(r) \/ NumberFound(r) \/ NumberRefused(r)
             \/ CallFails(r)
    BY <2>1, <2>2, <2>5, SoloCustomer, SoloProfile, SoloCart, SoloDrop, SoloNumber, SoloElse
  <2>6. CASE \/ create_cart(r)
             \/ validate_iap(r) \/ get_payment_by_transaction_interaction_id(r)
             \/ is_dangling_payment(r) \/ NotValidated(r)
             \/ create_payment(r) \/ add_payment_and_address_to_cart(r)
             \/ create_order_from_cart(r) \/ update_line_items_transition_state(r)
    BY <2>1, <2>2, <2>6, SoloCreate, SoloValidation, SoloPay, SoloOrder, SoloElse
  <2>7. ASSUME NEW s \in Requests \ {r},
               \/ MobileCreateOrderView(s)
               \/ get_ct_customer(s) \/ create_customer(s) \/ update_customer(s)
               \/ get_customer_cart(s) \/ delete_cart(s) \/ CleanUp(s)
               \/ Numbering(s) \/ Counting(s) \/ NumberFound(s) \/ NumberRefused(s)
               \/ create_cart(s)
               \/ validate_iap(s) \/ get_payment_by_transaction_interaction_id(s)
               \/ is_dangling_payment(s) \/ NotValidated(s)
               \/ create_payment(s) \/ add_payment_and_address_to_cart(s)
               \/ create_order_from_cart(s) \/ update_line_items_transition_state(s)
               \/ CallFails(s)
        PROVE  FALSE
    BY <2>2, <2>7, SoloOthers
  <2> QED
    BY <1>4, <2>3, <2>4, <2>5, <2>6, <2>7 DEF Next
<1> QED
  BY <1>3, <1>4

LEMMA SoloInit == Init => SoloInv
<1> SUFFICES ASSUME Init PROVE SoloInv
  OBVIOUS
<1>1. \A r \in Requests : ~undisturbed[r]
  BY DEF Init
<1>2. \A r \in Requests : NumberedInv(r)
  BY DEF Init, NumberInit, NoNumber, NumberedInv, OwnCart
<1> QED
  BY <1>1, <1>2 DEF SoloInv

(* The app can repeat what failed: left alone and without a fault, a request ends with
   an order, whatever any number of earlier requests have left behind. *)
THEOREM RetriesHeal == Spec => []RetryHeals
<1>1. CartsInv /\ NumberTypeOK /\ NumbersUnique /\ SoloInv /\ [Next]_vars => SoloInv'
  BY SoloStep
<1>2. SoloInv => RetryHeals
  <2> SUFFICES ASSUME SoloInv, NEW r \in Requests, undisturbed[r], pc[r] = "done",
                      \A s \in Requests : ~Straddled(s)
               PROVE  answer[r] = 201 /\ orders[r] = "Pending"
    BY DEF RetryHeals
  <2>1. Unhindered(r, "done")
    BY DEF SoloInv, NoneStraddled, Solo
  <2> QED
    BY <2>1 DEF Unhindered
<1>3. Spec => []NumberTypeOK
  BY NumbersImplemented, NumbersTyped, PTL
<1> QED
  BY <1>1, <1>2, <1>3, SoloInit, CartsInvariant, MobileNumbersUnique, PTL DEF Spec
=============================================================================
